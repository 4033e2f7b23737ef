----------------------------- MODULE DumperProofs -----------------------------
(***************************************************************************)
(* Proofs about Dumper, for any number of shards, entries, kept versions,  *)
(* dumps, crashes, failures and changes, compressed or not; and about      *)
(* Entry, what a dump is made of, for any paths, queries, headers,         *)
(* configurations and answers of the upstream.                             *)
(***************************************************************************)
EXTENDS Dumper, Entry, SumLemmas, SequenceTheorems, TLAPS

On(v) == \E i \in DOMAIN recent : recent[i] = v
Distinct(q) == \A i, j \in DOMAIN q : q[i] = q[j] => i = j
Broken(s) == <<ver, s>> \in cut
Final(v, s) == file[v][s] = [name |-> "dump", has |-> saw[v][s]]

\* The ways a process starts.
Loading == Start \/ LoadFails \/ LoadNothing \/ \E v \in Version : LoadVersion(v)

(***************************************************************************)
(* The inductive invariant.                                                *)
(***************************************************************************)
\* Goroutines run during a dump only, and none is left when versions are removed.
Phases ==
    /\ stage = "no" <=> up # "dump"
    /\ up # "dump" => job = Idle
    /\ up = "dump" => ver \in Version /\ ver \notin through
    /\ stage = "remove" => \A s \in Shard : job[s] = "done"
    /\ stage # "remove" => doomed = << >>

\* The version dumped last has the largest number and is the last modified, except
\* while one of the doomed ones loses its files.
Dirs ==
    /\ Distinct(recent) /\ Distinct(doomed)
    /\ ver \in Version => On(ver)
    /\ \A i \in DOMAIN recent : recent[i] <= ver
    /\ \A v \in through : v <= ver
    /\ stage \in {"spawn", "hung", "wait"} \/ ver \in through => Len(recent) > 0 /\ recent[1] = ver
    /\ stage = "remove" =>
          /\ \A i \in DOMAIN doomed : On(doomed[i]) /\ doomed[i] # ver
          /\ MaxVersions > 0 => Len(recent) <= MaxVersions + Len(doomed)
          /\ \/ recent[1] = ver
             \/ Len(doomed) > 0 /\ Len(recent) > 1 /\ recent[1] = doomed[1] /\ recent[2] = ver
    /\ VersionsBounded

\* A goroutine works on a .tmp file of its own: the writer holds all it saw, then the
\* file does, then the file bears its name.
Working ==
    \A s \in Shard :
        /\ job[s] \in {"walk", "flush", "rename"} => file[ver][s].name = "tmp"
        /\ job[s] = "flush" => Broken(s) \/ wrote[s] = saw[ver][s]
        /\ job[s] = "rename" => Broken(s) \/ file[ver][s].has = saw[ver][s]
        /\ job[s] = "done" \/ ver \in through => Broken(s) \/ Final(ver, s)

\* A whole version is on disk that no dump or rotation under way touches.
Kept ==
    through # {} /\ cut = {} =>
        \E v \in Version :
            /\ On(v) /\ Whole(v)
            /\ stage \in {"spawn", "hung", "wait"} => v # ver
            /\ stage = "remove" => v = ver

\* What a dump that went through left is not touched again, but by its removal.
Past == \A v \in through, s \in Shard : <<v, s>> \in cut \/ Final(v, s) \/ file[v][s] = NoFile

IInv == TypeOK /\ Phases /\ Dirs /\ Working /\ RenamedIsWhole /\ Kept /\ Past

-------------------------------------------------------------------------------
(***************************************************************************)
(* Tables and sequences                                                    *)
(***************************************************************************)
\* What an update of one cell of a table of two dimensions leaves.
LEMMA CellUpdate ==
    ASSUME NEW A, NEW B, NEW C, NEW f \in [A -> [B -> C]], NEW a \in A, NEW b \in B, NEW c \in C
    PROVE  LET g == [f EXCEPT ![a][b] = c]
           IN  /\ g \in [A -> [B -> C]]
               /\ \A x \in A, y \in B : g[x][y] = IF x = a /\ y = b THEN c ELSE f[x][y]
OBVIOUS

\* What is left of a sequence after its first k elements.
LEMMA RestOf ==
    ASSUME NEW S, NEW q \in Seq(S), NEW k \in 1..Len(q)
    PROVE  LET b == SubSeq(q, k + 1, Len(q))
           IN  /\ b \in Seq(S) /\ Len(b) = Len(q) - k /\ DOMAIN b = 1..Len(b)
               /\ \A i \in 1..Len(b) : b[i] = q[i + k]
OBVIOUS

\* Without(v) is the directories but v, in the same order.
LEMMA WithoutFacts ==
    ASSUME recent \in Seq(Version), Distinct(recent), NEW v \in Version, On(v)
    PROVE  LET r == Without(v)
           IN  /\ r \in Seq(Version) /\ Len(r) = Len(recent) - 1 /\ Distinct(r)
               /\ \A i \in DOMAIN r : On(r[i]) /\ r[i] # v
               /\ \A x : On(x) /\ x # v => \E i \in DOMAIN r : r[i] = x
               /\ recent[1] = v => \A i \in DOMAIN r : r[i] = recent[i + 1]
               /\ recent[1] # v => Len(r) > 0 /\ r[1] = recent[1]
<1>. DEFINE r == Without(v)
            k == PlaceOf(v)
<1>1. k \in 1..Len(recent) /\ recent[k] = v
  BY DEF On, PlaceOf
<1>2. r = SubSeq(recent, 1, k - 1) \o SubSeq(recent, k + 1, Len(recent))
  BY DEF Without, RemoveAt
<1>. HIDE DEF k, r
<1>3. /\ r \in Seq(Version) /\ Len(r) = Len(recent) - 1
      /\ \A i \in 1..Len(r) : r[i] = IF i < k THEN recent[i] ELSE recent[i + 1]
  <2>. DEFINE a == SubSeq(recent, 1, k - 1)
              b == SubSeq(recent, k + 1, Len(recent))
  <2>1. a \in Seq(Version) /\ Len(a) = k - 1 /\ \A i \in 1..Len(a) : a[i] = recent[i]
    BY <1>1
  <2>2. /\ b \in Seq(Version) /\ Len(b) = Len(recent) - k
        /\ \A i \in 1..Len(b) : b[i] = recent[i + k]
    BY <1>1
  <2>3. r = a \o b
    BY <1>2
  <2>. HIDE DEF a, b
  <2>4. r \in Seq(Version) /\ Len(r) = Len(recent) - 1
    BY <1>1, <2>1, <2>2, <2>3
  <2>5. ASSUME NEW i \in 1..Len(r) PROVE r[i] = IF i < k THEN recent[i] ELSE recent[i + 1]
    <3>1. CASE i < k
      BY <1>1, <2>1, <2>2, <2>3, <2>4, <3>1
    <3>2. CASE i >= k
      <4>1. r[i] = b[i - Len(a)] /\ i - Len(a) \in 1..Len(b)
        BY <1>1, <2>1, <2>2, <2>3, <2>4, <3>2
      <4>2. b[i - Len(a)] = recent[(i - Len(a)) + k]
        BY <2>2, <4>1
      <4>3. (i - Len(a)) + k = i + 1 /\ ~ (i < k)
        BY <1>1, <2>1, <3>2
      <4>. QED BY <4>1, <4>2, <4>3
    <3>. QED BY <1>1, <3>1, <3>2
  <2>. QED BY <2>4, <2>5
<1>4. \A i \in 1..Len(r) : On(r[i]) /\ r[i] # v
  BY SMTT(30), <1>1, <1>3 DEF On, Distinct
<1>5. Distinct(r)
  <2>. SUFFICES ASSUME NEW i \in 1..Len(r), NEW j \in 1..Len(r), r[i] = r[j] PROVE i = j
    BY <1>3 DEF Distinct
  <2>. DEFINE up1(n) == IF n < k THEN n ELSE n + 1
  <2>1. /\ up1(i) \in 1..Len(recent) /\ recent[up1(i)] = r[i]
        /\ up1(j) \in 1..Len(recent) /\ recent[up1(j)] = r[j]
    BY <1>1, <1>3
  <2>2. up1(i) = up1(j)
    BY <2>1 DEF Distinct
  <2>. QED BY <1>1, <2>2
<1>6. ASSUME NEW x, On(x), x # v PROVE \E i \in 1..Len(r) : r[i] = x
  <2>1. PICK j \in 1..Len(recent) : recent[j] = x
    BY <1>6 DEF On
  <2>2. CASE j < k
    BY <1>1, <1>3, <2>1, <2>2
  <2>3. CASE j > k
    <3>1. j - 1 \in 1..Len(r) /\ r[j - 1] = x
      BY <1>1, <1>3, <2>1, <2>3
    <3>. QED BY <3>1
  <2>. QED BY <1>1, <1>6, <2>1, <2>2, <2>3
<1>7. recent[1] = v => k = 1
  BY <1>1 DEF Distinct
<1>8. recent[1] # v => k > 1
  BY <1>1
<1>9. recent[1] = v => \A i \in 1..Len(r) : r[i] = recent[i + 1]
  BY <1>3, <1>7
<1>10. recent[1] # v => Len(r) > 0 /\ r[1] = recent[1]
  BY <1>1, <1>3, <1>8
<1>11. DOMAIN r = 1..Len(r)
  BY <1>3
<1>. QED BY <1>3, <1>4, <1>5, <1>6, <1>9, <1>10, <1>11 DEF r

\* Touched(v) brings v to the front.
LEMMA TouchedFacts ==
    ASSUME recent \in Seq(Version), Distinct(recent), NEW v \in Version, On(v)
    PROVE  LET t == Touched(v)
           IN  /\ t \in Seq(Version) /\ Len(t) = Len(recent) /\ Distinct(t)
               /\ \A x : (\E i \in DOMAIN t : t[i] = x) <=> On(x)
               /\ t[1] = v
               /\ recent[1] = v => t = recent
               /\ recent[1] # v => Len(t) > 1 /\ t[2] = recent[1]
<1>. DEFINE r == Without(v)
            t == Touched(v)
<1>1. /\ r \in Seq(Version) /\ Len(r) = Len(recent) - 1 /\ Distinct(r)
      /\ \A i \in DOMAIN r : On(r[i]) /\ r[i] # v
      /\ \A x : On(x) /\ x # v => \E i \in DOMAIN r : r[i] = x
      /\ recent[1] = v => \A i \in DOMAIN r : r[i] = recent[i + 1]
      /\ recent[1] # v => Len(r) > 0 /\ r[1] = recent[1]
  BY WithoutFacts
<1>2. t = <<v>> \o r
  BY DEF Touched
<1>. HIDE DEF r, t
<1>3. /\ t \in Seq(Version) /\ Len(t) = Len(recent)
      /\ DOMAIN t = 1..Len(t) /\ DOMAIN r = 1..Len(r) /\ DOMAIN recent = 1..Len(recent)
      /\ t[1] = v /\ \A i \in 1..Len(r) : t[i + 1] = r[i]
  BY <1>1, <1>2
<1>4. \A i \in 2..Len(t) : i - 1 \in 1..Len(r) /\ t[i] = r[i - 1]
  BY <1>1, <1>3
<1>5. Distinct(t)
  <2>. SUFFICES ASSUME NEW i \in 1..Len(t), NEW j \in 1..Len(t), t[i] = t[j] PROVE i = j
    BY <1>3 DEF Distinct
  <2>0. \A m \in 2..Len(t) : t[m] # v
    <3>. SUFFICES ASSUME NEW m \in 2..Len(t) PROVE t[m] # v
      OBVIOUS
    <3>1. m - 1 \in DOMAIN r /\ t[m] = r[m - 1]
      BY <1>3, <1>4
    <3>. QED BY <1>1, <3>1
  <2>1. CASE i = 1 \/ j = 1
    BY <1>3, <2>0, <2>1
  <2>2. CASE i # 1 /\ j # 1
    <3>1. i - 1 \in DOMAIN r /\ j - 1 \in DOMAIN r /\ r[i - 1] = r[j - 1]
      BY <1>3, <1>4, <2>2
    <3>2. i - 1 = j - 1
      BY <1>1, <3>1 DEF Distinct
    <3>. QED BY <3>2
  <2>. QED BY <2>1, <2>2
<1>6. ASSUME NEW x PROVE (\E i \in DOMAIN t : t[i] = x) <=> On(x)
  <2>1. ASSUME NEW i \in 1..Len(t), t[i] = x PROVE On(x)
    <3>1. CASE i = 1
      BY <1>3, <2>1, <3>1
    <3>2. CASE i # 1
      <4>1. i \in 2..Len(t)
        BY <1>3, <3>2
      <4>2. i - 1 \in DOMAIN r /\ r[i - 1] = x
        BY <1>3, <1>4, <2>1, <4>1
      <4>. QED BY <1>1, <4>2
    <3>. QED BY <3>1, <3>2
  <2>2. ASSUME On(x) PROVE \E i \in DOMAIN t : t[i] = x
    <3>1. CASE x = v
      BY <1>1, <1>3, <3>1 DEF On
    <3>2. CASE x # v
      <4>1. PICK j \in DOMAIN r : r[j] = x
        BY <1>1, <2>2, <3>2
      <4>2. j + 1 \in DOMAIN t /\ t[j + 1] = x
        BY <1>1, <1>3, <4>1
      <4>. QED BY <4>2
    <3>. QED BY <3>1, <3>2
  <2>. QED BY <1>3, <2>1, <2>2
<1>7. ASSUME recent[1] = v PROVE t = recent
  <2>1. ASSUME NEW i \in 1..Len(recent) PROVE t[i] = recent[i]
    <3>1. CASE i = 1
      BY <1>3, <1>7, <3>1
    <3>2. CASE i # 1
      <4>1. i - 1 \in DOMAIN r /\ t[i] = r[i - 1]
        BY <1>3, <1>4, <3>2
      <4>2. r[i - 1] = recent[(i - 1) + 1]
        BY <1>1, <1>7, <4>1
      <4>. QED BY <1>3, <4>1, <4>2
    <3>. QED BY <3>1, <3>2
  <2>. QED BY <1>3, <2>1
<1>8. recent[1] # v => Len(t) > 1 /\ t[2] = recent[1]
  BY <1>1, <1>3
<1>. QED BY <1>3, <1>5, <1>6, <1>7, <1>8 DEF t

-------------------------------------------------------------------------------
(***************************************************************************)
(* Types                                                                   *)
(***************************************************************************)
Budget == [crashes : 0..MaxCrashes, failures : 0..MaxFailures, changes : 0..MaxChanges]
Content == [name : {"none", "tmp", "dump"}, has : SUBSET Item]

LEMMA Spending ==
    ASSUME budget \in Budget
    PROVE  /\ budget.crashes < MaxCrashes /\ Spend("crashes") => budget' \in Budget
           /\ budget.failures < MaxFailures /\ Spend("failures") => budget' \in Budget
           /\ budget.changes < MaxChanges /\ Spend("changes") => budget' \in Budget
BY DumperAssumption DEF Budget, Spend

\* A goroutine that is at work does so in a dump that removes nothing yet: its
\* version's directory is there, and the last modified.
LEMMA AtWork ==
    ASSUME TypeOK, Phases, Dirs, NEW s \in Shard, job[s] \notin {"no", "done"}
    PROVE  /\ up = "dump" /\ stage \in {"spawn", "hung", "wait"} /\ ver \in Version
           /\ ver \notin through /\ On(ver) /\ recent[1] = ver /\ Touched(ver) = recent
<1>1. up = "dump" /\ ver \in Version /\ ver \notin through
  BY DEF Phases, Idle
<1>2. stage \in {"spawn", "hung", "wait"}
  BY <1>1 DEF Phases, TypeOK
<1>3. On(ver) /\ recent[1] = ver /\ Distinct(recent) /\ recent \in Seq(Version)
  BY <1>1, <1>2 DEF Dirs, TypeOK
<1>4. Touched(ver) = recent
  BY <1>1, <1>3, TouchedFacts
<1>. QED BY <1>1, <1>2, <1>3, <1>4

\* While versions are removed the next one is on disk, and it is not the one dumped.
LEMMA AtRemoval ==
    ASSUME TypeOK, Phases, Dirs, stage = "remove", doomed # << >>
    PROVE  /\ Head(doomed) = doomed[1] /\ Head(doomed) \in Version /\ On(Head(doomed))
           /\ Head(doomed) # ver /\ ver \in Version /\ ver \notin through /\ up = "dump"
<1>1. doomed \in Seq(Version) /\ 1 \in DOMAIN doomed /\ Head(doomed) = doomed[1]
  BY DEF TypeOK
<1>2. On(doomed[1]) /\ doomed[1] # ver
  BY <1>1 DEF Dirs
<1>. QED BY <1>1, <1>2 DEF Phases

LEMMA InitTypeOK == Init => TypeOK
<1>. SUFFICES ASSUME Init PROVE TypeOK
  OBVIOUS
<1>1. [crashes |-> 0, failures |-> 0, changes |-> 0] \in Budget
  BY DumperAssumption DEF Budget
<1>2. NoFile \in Content
  BY DEF NoFile, Content
<1>3. file \in [Version -> [Shard -> Content]]
  BY <1>2 DEF Init
<1>4. budget \in Budget
  BY <1>1 DEF Init
<1>5. << >> \in Seq(Version)
  OBVIOUS
<1>6. saw \in [Version -> [Shard -> SUBSET Item]]
  BY DEF Init, Empty
<1>7. /\ cache \in [Shard -> SUBSET Item] /\ wrote \in [Shard -> SUBSET Item]
      /\ job \in [Shard -> {"no", "create", "walk", "flush", "rename", "done"}]
  BY DEF Init, Idle, Empty
<1>8. spawned \in 0..NumOfShards
  BY DumperAssumption DEF Init
<1>9. /\ up \in {"off", "on", "dump"} /\ stage \in {"no", "spawn", "hung", "wait", "remove"}
      /\ ver \in Version \cup {0} /\ expired \in BOOLEAN /\ recent = << >> /\ doomed = << >>
      /\ cut = {} /\ through = {}
  BY DEF Init
<1>. QED BY <1>3, <1>4, <1>5, <1>6, <1>7, <1>8, <1>9 DEF TypeOK, Budget, Content

\* A step that changes one file within the type leaves files of the type.
LEMMA FileType ==
    ASSUME TypeOK, NEW v \in Version, NEW s \in Shard, NEW c \in Content,
           file' = [file EXCEPT ![v][s] = c]
    PROVE  /\ file' \in [Version -> [Shard -> Content]]
           /\ \A x \in Version, y \in Shard : file'[x][y] = IF x = v /\ y = s THEN c ELSE file[x][y]
BY CellUpdate DEF TypeOK, Content

\* What a step does to the file a goroutine works on.
LEMMA CreateFile ==
    ASSUME TypeOK, Phases, Dirs, NEW s \in Shard, Create(s)
    PROVE  \E c \in Content : c.name = "tmp" /\ file' = [file EXCEPT ![ver][s] = c]
BY DEF Create, Content

LEMMA WalkFile ==
    ASSUME TypeOK, Phases, Dirs, Working, NEW s \in Shard, Walk(s)
    PROVE  \E took \in SUBSET cache[s], c \in Content :
             /\ c.name = "tmp" /\ file' = [file EXCEPT ![ver][s] = c]
             /\ wrote' = [wrote EXCEPT ![s] = took]
             /\ cut' = IF took = cache[s] THEN cut ELSE cut \cup {<<ver, s>>}
<1>0. ver \in Version /\ cache[s] \in SUBSET Item
  BY AtWork DEF Walk, TypeOK
<1>1. PICK took \in SUBSET cache[s] : Written(s, took)
  BY DEF Walk
<1>2. PICK flushed \in SUBSET took : file' = [file EXCEPT ![ver][s].has = flushed]
  BY <1>1 DEF Written
<1>. DEFINE c == [file[ver][s] EXCEPT !.has = flushed]
<1>3. file[ver][s] \in Content /\ file[ver][s].name = "tmp"
  BY <1>0 DEF TypeOK, Content, Working, Walk
<1>4. c \in Content /\ c.name = "tmp"
  BY <1>0, <1>3 DEF Content
<1>5. file' = [file EXCEPT ![ver][s] = c]
  BY <1>2
<1>. QED BY <1>1, <1>4, <1>5 DEF Written

LEMMA FlushFile ==
    ASSUME TypeOK, Phases, Dirs, Working, NEW s \in Shard, Flush(s)
    PROVE  \E c \in Content :
             c.name = "tmp" /\ c.has = wrote[s] /\ file' = [file EXCEPT ![ver][s] = c]
<1>0. ver \in Version /\ wrote[s] \in SUBSET Item
  BY AtWork DEF Flush, TypeOK
<1>. DEFINE c == [file[ver][s] EXCEPT !.has = wrote[s]]
<1>1. file[ver][s] \in Content /\ file[ver][s].name = "tmp"
  BY <1>0 DEF TypeOK, Content, Working, Flush
<1>2. c \in Content /\ c.name = "tmp" /\ c.has = wrote[s]
  BY <1>0, <1>1 DEF Content
<1>3. file' = [file EXCEPT ![ver][s] = c]
  BY DEF Flush
<1>. QED BY <1>2, <1>3

LEMMA RenameFile ==
    ASSUME TypeOK, Phases, Dirs, NEW s \in Shard, Rename(s), file' # file
    PROVE  \E c \in Content :
             /\ c = [name |-> "dump", has |-> file[ver][s].has]
             /\ file' = [file EXCEPT ![ver][s] = c] /\ cut' = cut
<1>0. ver \in Version
  BY AtWork DEF Rename
<1>. DEFINE c == [file[ver][s] EXCEPT !.name = "dump"]
<1>1. file[ver][s] \in Content
  BY <1>0 DEF TypeOK, Content
<1>2. c \in Content /\ c = [name |-> "dump", has |-> file[ver][s].has]
  BY <1>1 DEF Content
<1>3. file' = [file EXCEPT ![ver][s] = c] /\ cut' = cut
  BY DEF Rename, disk
<1>. QED BY <1>2, <1>3

\* The largest number on disk is that of the version dumped last.
LEMMA NextIsNewest ==
    ASSUME TypeOK, Dirs PROVE nextVersionDir = ver + 1
<1>. DEFINE S == ToSet(recent) \cup {0}
<1>0. Version \subseteq Nat /\ ver \in Nat /\ \A i \in DOMAIN recent : recent[i] \in Version
  <2>1. Version \subseteq Nat
    BY DumperAssumption DEF Version
  <2>2. recent \in Seq(Version) /\ ver \in Version \cup {0}
    BY DEF TypeOK
  <2>. QED BY <2>1, <2>2
<1>1. ver \in Nat /\ S \subseteq Nat
  <2>1. \A x \in ToSet(recent) : \E i \in DOMAIN recent : x = recent[i]
    BY DEF ToSet
  <2>2. \A i \in DOMAIN recent : recent[i] \in Nat
    BY <1>0
  <2>3. \A x \in ToSet(recent) : x \in Nat
    BY <2>1, <2>2
  <2>. QED BY <1>0, <2>3
<1>2. ver \in S
  BY DEF Dirs, TypeOK, ToSet, On
<1>3. \A x \in S : x <= ver
  BY <1>1 DEF Dirs, ToSet
<1>. HIDE DEF S
<1>4. Max(S) \in S /\ \A y \in S : Max(S) >= y
  <2>1. \A y \in S : ver >= y
    BY <1>1, <1>3
  <2>2. \E x \in S : \A y \in S : x >= y
    BY <1>2, <2>1
  <2>. QED BY <2>2 DEF Max
<1>5. Max(S) = ver
  <2>1. Max(S) \in Nat
    BY <1>1, <1>4
  <2>2. Max(S) <= ver /\ Max(S) >= ver
    BY <1>2, <1>3, <1>4
  <2>. QED BY <1>1, <2>1, <2>2
<1>. QED BY <1>5 DEF nextVersionDir, S

LEMMA NextTypeOK ==
    ASSUME TypeOK, Phases, Dirs, Working, [Next]_vars PROVE TypeOK'
<1>. USE DEF disk, dump, history
<1>0. budget \in Budget
  BY DEF TypeOK, Budget
<1>1. CASE Start
  <2>1. cache' \in [Shard -> SUBSET Item]
    <3>1. CASE recent = << >>
      BY <1>1, <3>1 DEF Start, Empty
    <3>2. CASE recent # << >>
      <4>1. Head(recent) \in Version
        BY <3>2 DEF TypeOK
      <4>. QED BY <1>1, <3>2, <4>1 DEF Start, Loaded, LatestVersionDir, TypeOK
    <3>. QED BY <3>1, <3>2
  <2>. QED BY <1>1, <2>1 DEF Start, TypeOK
<1>19. CASE LoadFails
  <2>1. cache' \in [Shard -> SUBSET Item] /\ budget' \in Budget
    BY <1>0, <1>19, Spending DEF LoadFails
  <2>. QED BY <1>19, <2>1 DEF LoadFails, TypeOK, Budget
<1>20. CASE LoadNothing
  <2>1. cache' \in [Shard -> SUBSET Item]
    BY <1>20 DEF LoadNothing, Empty
  <2>. QED BY <1>20, <2>1 DEF LoadNothing, TypeOK
<1>21. ASSUME NEW v \in Version, LoadVersion(v) PROVE TypeOK'
  <2>1. cache' \in [Shard -> SUBSET Item]
    BY <1>21 DEF LoadVersion, Loaded, TypeOK
  <2>. QED BY <1>21, <2>1 DEF LoadVersion, TypeOK
<1>2. CASE DumpStart
  BY <1>2 DEF DumpStart, TypeOK
<1>3. ASSUME Off, UNCHANGED <<disk, ver, saw, cut>>, budget' \in Budget, through' \subseteq Version
      PROVE  TypeOK'
  <2>1. doomed' \in Seq(Version) /\ spawned' \in 0..NumOfShards
    BY <1>3, DumperAssumption DEF Off
  <2>2. /\ cache' \in [Shard -> SUBSET Item] /\ wrote' \in [Shard -> SUBSET Item]
        /\ job' \in [Shard -> {"no", "create", "walk", "flush", "rename", "done"}]
    BY <1>3 DEF Off, Idle, Empty
  <2>. QED BY <1>3, <2>1, <2>2 DEF Off, TypeOK, Budget
<1>4. CASE DumpStartFails
  BY <1>0, <1>3, <1>4, Spending DEF DumpStartFails, TypeOK
<1>5. CASE Crash
  BY <1>0, <1>3, <1>5, Spending DEF Crash, TypeOK
<1>6. CASE Finish
  <2>1. ver \in Version
    BY <1>6 DEF Finish, Phases
  <2>. QED BY <1>0, <1>3, <1>6, <2>1 DEF Finish, TypeOK
<1>7. CASE Expire
  BY <1>7 DEF Expire, TypeOK
<1>8. CASE Spawn
  <2>1. CASE spawned < NumOfShards /\ UNCHANGED stage
    <3>1. spawned + 1 \in 0..NumOfShards
      BY <2>1, DumperAssumption DEF TypeOK
    <3>. QED BY <1>8, <2>1, <3>1 DEF Spawn, TypeOK
  <2>. QED BY <1>8, <2>1 DEF Spawn, TypeOK
<1>9. CASE Rotate
  <2>1. TooOld \in Seq(Version)
    BY DumperAssumption DEF TooOld, TypeOK
  <2>. QED BY <1>9, <2>1 DEF Rotate, TypeOK
<1>10. CASE RemoveDir
  <2>1. recent' \in Seq(Version) /\ doomed' \in Seq(Version)
    BY <1>10, AtRemoval, WithoutFacts DEF RemoveDir, TypeOK, Dirs
  <2>. QED BY <1>10, <2>1 DEF RemoveDir, TypeOK
<1>11. ASSUME NEW s \in Shard, RemoveFile(s) PROVE TypeOK'
  <2>1. recent' \in Seq(Version)
    BY <1>11, AtRemoval, TouchedFacts DEF RemoveFile, TypeOK, Dirs
  <2>2. NoFile \in Content
    BY DEF NoFile, Content
  <2>3. file' \in [Version -> [Shard -> Content]]
    BY <1>11, <2>2, AtRemoval, FileType DEF RemoveFile
  <2>. QED BY <1>11, <2>1, <2>3 DEF RemoveFile, TypeOK, Content
<1>12. ASSUME NEW s \in Shard, Create(s) PROVE TypeOK'
  <2>1. recent' = recent /\ ver \in Version
    BY <1>12, AtWork DEF Create
  <2>2. file' \in [Version -> [Shard -> Content]]
    BY <1>12, <2>1, CreateFile, FileType
  <2>. QED BY <1>12, <2>1, <2>2 DEF Create, TypeOK, Content
<1>13. ASSUME NEW s \in Shard, CreateFails(s) PROVE TypeOK'
  <2>1. ver \in Version /\ budget' \in Budget
    BY <1>0, <1>13, AtWork, Spending DEF CreateFails
  <2>. QED BY <1>13, <2>1 DEF CreateFails, TypeOK, Budget
<1>14. ASSUME NEW s \in Shard, Walk(s) PROVE TypeOK'
  <2>1. ver \in Version
    BY <1>14, AtWork DEF Walk
  <2>2. PICK took \in SUBSET cache[s], c \in Content :
           /\ c.name = "tmp" /\ file' = [file EXCEPT ![ver][s] = c]
           /\ wrote' = [wrote EXCEPT ![s] = took]
           /\ cut' = IF took = cache[s] THEN cut ELSE cut \cup {<<ver, s>>}
    BY <1>14, WalkFile
  <2>3. file' \in [Version -> [Shard -> Content]]
    BY <2>1, <2>2, FileType
  <2>4. saw' \in [Version -> [Shard -> SUBSET Item]]
    BY <1>14, <2>1, CellUpdate DEF Walk, TypeOK
  <2>5. budget' \in Budget
    BY <1>0, <1>14, Spending DEF Walk
  <2>6. expired' \in BOOLEAN
    BY <1>14 DEF Walk, TypeOK
  <2>7. /\ wrote' \in [Shard -> SUBSET Item] /\ cut' \subseteq Version \X Shard
        /\ job' \in [Shard -> {"no", "create", "walk", "flush", "rename", "done"}]
    BY <1>14, <2>1, <2>2 DEF Walk, TypeOK
  <2>. QED BY <1>14, <2>3, <2>4, <2>5, <2>6, <2>7 DEF Walk, TypeOK, Content, Budget
<1>15. ASSUME NEW s \in Shard, Flush(s) PROVE TypeOK'
  <2>1. ver \in Version
    BY <1>15, AtWork DEF Flush
  <2>2. file' \in [Version -> [Shard -> Content]]
    BY <1>15, <2>1, FlushFile, FileType
  <2>. QED BY <1>15, <2>2 DEF Flush, TypeOK, Content
<1>16. ASSUME NEW s \in Shard, Rename(s) PROVE TypeOK'
  <2>1. ver \in Version /\ recent' = recent
    BY <1>16, AtWork DEF Rename
  <2>2. file' \in [Version -> [Shard -> Content]]
    <3>1. CASE file' = file
      BY <3>1 DEF TypeOK, Content
    <3>2. CASE file' # file
      BY <1>16, <2>1, <3>2, RenameFile, FileType
    <3>. QED BY <3>1, <3>2
  <2>3. budget' \in Budget /\ cut' \subseteq Version \X Shard
    BY <1>0, <1>16, <2>1, Spending DEF Rename, TypeOK
  <2>. QED BY <1>16, <2>1, <2>2, <2>3 DEF Rename, TypeOK, Content, Budget
<1>17. ASSUME NEW s \in Shard, NEW i \in Item, Change(s, i) PROVE TypeOK'
  <2>1. budget' \in Budget
    BY <1>0, <1>17, Spending DEF Change
  <2>2. cache' \in [Shard -> SUBSET Item]
    <3>1. cache \in [Shard -> SUBSET Item]
      BY DEF TypeOK
    <3>2. PICK c \in SUBSET Item : cache' = [cache EXCEPT ![s] = c]
      <4>1. cache[s] \in SUBSET Item
        BY <3>1
      <4>2. cache[s] \cup {i} \in SUBSET Item /\ cache[s] \ {i} \in SUBSET Item
        BY <4>1
      <4>. QED BY <1>17, <4>2 DEF Change
    <3>. QED BY <3>1, <3>2
  <2>. QED BY <1>17, <2>1, <2>2 DEF Change, TypeOK, Budget
<1>18. CASE UNCHANGED vars
  BY <1>18 DEF vars, TypeOK
<1>. QED BY <1>1, <1>2, <1>4, <1>5, <1>6, <1>7, <1>8, <1>9, <1>10, <1>11, <1>12, <1>13,
            <1>14, <1>15, <1>16, <1>17, <1>18, <1>19, <1>20, <1>21 DEF Next, DumpStep, ShardStep

-------------------------------------------------------------------------------
(***************************************************************************)
(* Phases and directories                                                  *)
(***************************************************************************)
LEMMA NextPhases ==
    ASSUME TypeOK, Phases, Dirs, [Next]_vars PROVE Phases'
<1>. USE DEF disk, dump, history
<1>1. CASE Loading
  BY <1>1 DEF Loading, Start, LoadFails, LoadNothing, LoadVersion, Phases
<1>2. CASE DumpStart
  <2>1. \A v \in through : v <= ver
    BY DEF Dirs
  <2>2. ver' = ver + 1 /\ ver' \in Version /\ ver \in Nat
    BY <1>2, NextIsNewest DEF DumpStart, TypeOK, Version
  <2>3. ver' \notin through
    BY <2>1, <2>2 DEF TypeOK, Version
  <2>. QED BY <1>2, <2>2, <2>3 DEF DumpStart, Phases
<1>3. CASE DumpStartFails \/ Crash \/ Finish
  BY <1>3 DEF DumpStartFails, Crash, Finish, Off, Phases
<1>4. CASE Expire
  BY <1>4 DEF Expire, Phases
<1>5. CASE Spawn
  BY <1>5 DEF Spawn, Phases
<1>6. CASE Rotate
  BY <1>6 DEF Rotate, Phases
<1>7. CASE RemoveDir
  BY <1>7 DEF RemoveDir, Phases
<1>8. ASSUME NEW s \in Shard, RemoveFile(s) PROVE Phases'
  BY <1>8 DEF RemoveFile, Phases
<1>9. ASSUME NEW s \in Shard, ShardStep(s) PROVE Phases'
  <2>1. job[s] \notin {"no", "done"}
    BY <1>9 DEF ShardStep, Create, CreateFails, Walk, Flush, Rename
  <2>2. up = "dump" /\ stage \in {"spawn", "hung", "wait"}
    BY <2>1, AtWork
  <2>3. UNCHANGED <<up, stage, ver, through, doomed>>
    BY <1>9 DEF ShardStep, Create, CreateFails, Walk, Flush, Rename
  <2>. QED BY <2>2, <2>3 DEF Phases
<1>10. ASSUME NEW s \in Shard, NEW i \in Item, Change(s, i) PROVE Phases'
  BY <1>10 DEF Change, Phases
<1>11. CASE UNCHANGED vars
  BY <1>11 DEF vars, Phases
<1>. QED BY <1>1, <1>2, <1>3, <1>4, <1>5, <1>6, <1>7, <1>8, <1>9, <1>10, <1>11
         DEF Next, DumpStep, Loading

LEMMA NextDirs ==
    ASSUME TypeOK, Phases, Dirs, [Next]_vars PROVE Dirs'
<1>. USE DEF disk, dump, history
<1>0. /\ recent \in Seq(Version) /\ doomed \in Seq(Version) /\ Version \subseteq Nat /\ ver \in Nat
      /\ DOMAIN recent = 1..Len(recent) /\ DOMAIN doomed = 1..Len(doomed) /\ MaxVersions \in Nat
      /\ 0 \notin Version
  BY DumperAssumption DEF TypeOK, Version
<1>1. CASE Loading \/ Expire \/ (\E s \in Shard, i \in Item : Change(s, i)) \/ UNCHANGED vars
  <2>1. UNCHANGED <<recent, doomed, ver, through, stage>>
    BY <1>1 DEF Loading, Start, LoadFails, LoadNothing, LoadVersion, Expire, Change, vars
  <2>. QED BY <2>1 DEF Dirs, On, Distinct, VersionsBounded
<1>2. CASE DumpStart
  <2>1. /\ ver' = ver + 1 /\ ver' \in Version /\ recent' = <<ver'>> \o recent
        /\ UNCHANGED <<doomed, through>> /\ stage' = "spawn" /\ doomed = << >>
    BY <1>2, NextIsNewest DEF DumpStart, Phases
  <2>2. /\ Len(recent') = Len(recent) + 1 /\ recent'[1] = ver' /\ recent' \in Seq(Version)
        /\ \A i \in 1..Len(recent) : recent'[i + 1] = recent[i]
    BY <1>0, <2>1
  <2>3. \A i \in 1..Len(recent) : recent[i] <= ver /\ recent[i] \in Nat
    <3>1. \A i \in 1..Len(recent) : recent[i] \in Version
      BY <1>0
    <3>. QED BY <1>0, <3>1 DEF Dirs
  <2>4. DOMAIN recent' = 1..Len(recent')
    BY <2>2
  <2>5. ASSUME NEW i \in 2..Len(recent')
        PROVE  i - 1 \in 1..Len(recent) /\ recent'[i] = recent[i - 1] /\ recent'[i] < ver'
    <3>1. i - 1 \in 1..Len(recent) /\ (i - 1) + 1 = i
      BY <1>0, <2>2
    <3>2. recent'[i] = recent[i - 1]
      BY <2>2, <3>1
    <3>. QED BY <1>0, <2>1, <2>3, <3>1, <3>2
  <2>6. Distinct(recent')
    <3>. SUFFICES ASSUME NEW i \in 1..Len(recent'), NEW j \in 1..Len(recent'),
                         recent'[i] = recent'[j]
                  PROVE  i = j
      BY <2>4 DEF Distinct
    <3>1. CASE i = 1 \/ j = 1
      BY <1>0, <2>1, <2>2, <2>5, <3>1
    <3>2. CASE i # 1 /\ j # 1
      <4>1. /\ i - 1 \in DOMAIN recent /\ j - 1 \in DOMAIN recent
            /\ recent[i - 1] = recent[j - 1]
        BY <1>0, <2>2, <2>5, <3>2
      <4>2. i - 1 = j - 1
        BY <4>1 DEF Dirs, Distinct
      <4>. QED BY <4>2
    <3>. QED BY <3>1, <3>2
  <2>7. ASSUME NEW i \in DOMAIN recent' PROVE recent'[i] <= ver'
    <3>1. i = 1 \/ i \in 2..Len(recent')
      BY <2>4
    <3>. QED BY <1>0, <2>1, <2>2, <2>3, <2>5, <3>1
  <2>8. \A v \in through : v <= ver' /\ v # ver'
    <3>1. \A v \in through : v <= ver /\ v \in Nat
      BY <1>0 DEF Dirs, TypeOK
    <3>. QED BY <1>0, <2>1, <3>1
  <2>9. \E i \in DOMAIN recent' : recent'[i] = ver'
    BY <1>0, <2>2, <2>4
  <2>10. Len(recent') > 0
    BY <1>0, <2>2
  <2>11. VersionsBounded'
    BY <2>1, <2>8 DEF VersionsBounded
  <2>12. Distinct(doomed')
    BY <2>1 DEF Distinct
  <2>. QED BY <2>1, <2>2, <2>6, <2>7, <2>8, <2>9, <2>10, <2>11, <2>12 DEF Dirs, On
<1>3. CASE DumpStartFails \/ Crash
  <2>1. UNCHANGED <<recent, ver, through>> /\ stage' = "no" /\ doomed' = << >>
    BY <1>3 DEF DumpStartFails, Crash, Off
  <2>2. Distinct(doomed')
    BY <2>1 DEF Distinct
  <2>. QED BY <2>1, <2>2 DEF Dirs, On, Distinct, VersionsBounded
<1>4. CASE Finish
  <2>1. /\ UNCHANGED <<recent, ver>> /\ stage = "remove" /\ stage' = "no" /\ doomed = << >>
        /\ doomed' = << >> /\ through' = through \cup {ver} /\ ver \in Version
    BY <1>4 DEF Finish, Off, Phases
  <2>2. recent[1] = ver /\ (MaxVersions > 0 => Len(recent) <= MaxVersions)
    BY <1>0, <2>1 DEF Dirs
  <2>3. Len(recent) > 0
    BY <1>0, <2>1 DEF Dirs, On
  <2>4. \A v \in through' : v <= ver'
    BY <1>0, <2>1 DEF Dirs
  <2>5. Distinct(doomed')
    BY <2>1 DEF Distinct
  <2>. QED BY <2>1, <2>2, <2>3, <2>4, <2>5 DEF Dirs, On, Distinct, VersionsBounded
<1>5. CASE Spawn
  <2>1. /\ UNCHANGED <<recent, doomed, ver, through>> /\ stage = "spawn"
        /\ stage' \in {"spawn", "hung", "wait"}
    BY <1>5 DEF Spawn
  <2>. QED BY <2>1 DEF Dirs, On, Distinct, VersionsBounded
<1>6. CASE Rotate
  <2>1. /\ UNCHANGED <<recent, ver, through>> /\ stage = "wait" /\ stage' = "remove"
        /\ doomed' = TooOld /\ recent[1] = ver /\ Len(recent) > 0
    BY <1>6 DEF Rotate, Dirs
  <2>2. CASE MaxVersions > 0 /\ Len(recent) > MaxVersions
    <3>1. /\ Len(TooOld) = Len(recent) - MaxVersions /\ DOMAIN TooOld = 1..Len(TooOld)
          /\ \A i \in 1..Len(TooOld) : TooOld[i] = recent[i + MaxVersions]
      <4>1. TooOld = SubSeq(recent, MaxVersions + 1, Len(recent))
        BY <2>2 DEF TooOld
      <4>2. MaxVersions \in 1..Len(recent)
        BY <1>0, <2>2
      <4>. QED BY <1>0, <4>1, <4>2, RestOf
    <3>2. \A i \in 1..Len(TooOld) : i + MaxVersions \in DOMAIN recent /\ i + MaxVersions # 1
      BY <1>0, <2>2, <3>1
    <3>3. Distinct(TooOld)
      <4>. SUFFICES ASSUME NEW i \in 1..Len(TooOld), NEW j \in 1..Len(TooOld),
                           TooOld[i] = TooOld[j]
                    PROVE  i = j
        BY <3>1 DEF Distinct
      <4>1. recent[i + MaxVersions] = recent[j + MaxVersions]
        BY <3>1
      <4>2. i + MaxVersions = j + MaxVersions
        BY <3>2, <4>1 DEF Dirs, Distinct
      <4>. QED BY <1>0, <4>2
    <3>4. ASSUME NEW i \in 1..Len(TooOld) PROVE On(TooOld[i]) /\ TooOld[i] # ver
      <4>1. 1 \in DOMAIN recent
        BY <1>0, <2>1
      <4>. QED BY <2>1, <3>1, <3>2, <4>1 DEF On, Dirs, Distinct
    <3>5. Len(recent) <= MaxVersions + Len(TooOld)
      BY <1>0, <3>1
    <3>. QED BY <2>1, <3>1, <3>3, <3>4, <3>5 DEF Dirs, On, Distinct, VersionsBounded
  <2>3. CASE ~ (MaxVersions > 0 /\ Len(recent) > MaxVersions)
    <3>1. TooOld = << >> /\ Distinct(TooOld) /\ Len(TooOld) = 0 /\ DOMAIN TooOld = {}
      BY <2>3 DEF TooOld, Distinct
    <3>2. MaxVersions > 0 => Len(recent) <= MaxVersions + Len(TooOld)
      BY <1>0, <2>3, <3>1
    <3>. QED BY <2>1, <3>1, <3>2 DEF Dirs, On, Distinct, VersionsBounded
  <2>. QED BY <2>2, <2>3
<1>7. CASE RemoveDir
  <2>. DEFINE d == Head(doomed)
              r == Without(d)
  <2>1. /\ stage = "remove" /\ UNCHANGED <<stage, ver, through>> /\ doomed # << >>
        /\ recent' = r /\ doomed' = Tail(doomed)
    BY <1>7 DEF RemoveDir
  <2>2. d = doomed[1] /\ d \in Version /\ On(d) /\ d # ver /\ ver \in Version /\ ver \notin through
    BY <2>1, AtRemoval
  <2>3. /\ r \in Seq(Version) /\ Len(r) = Len(recent) - 1 /\ Distinct(r)
        /\ \A i \in DOMAIN r : On(r[i]) /\ r[i] # d
        /\ \A x : On(x) /\ x # d => \E i \in DOMAIN r : r[i] = x
        /\ recent[1] = d => \A i \in DOMAIN r : r[i] = recent[i + 1]
        /\ recent[1] # d => Len(r) > 0 /\ r[1] = recent[1]
    BY <1>0, <2>2, WithoutFacts DEF Dirs
  <2>4. /\ Len(doomed') = Len(doomed) - 1 /\ DOMAIN doomed' = 1..Len(doomed')
        /\ \A i \in 1..Len(doomed') : i + 1 \in DOMAIN doomed /\ doomed'[i] = doomed[i + 1]
    BY <1>0, <2>1
  <2>5. Distinct(doomed')
    <3>. SUFFICES ASSUME NEW i \in 1..Len(doomed'), NEW j \in 1..Len(doomed'),
                         doomed'[i] = doomed'[j]
                  PROVE  i = j
      BY <2>4 DEF Distinct
    <3>1. i + 1 = j + 1
      BY <2>4 DEF Dirs, Distinct
    <3>. QED BY <2>4, <3>1
  <2>. HIDE DEF r, d
  <2>6. \A i \in DOMAIN r : r[i] <= ver
    BY <2>3 DEF Dirs, On
  <2>7. \A x : On(x) /\ x # d => On(x)'
    BY <2>1, <2>3 DEF On
  <2>8. On(ver) /\ On(ver)'
    BY <2>1, <2>2, <2>7 DEF Dirs
  <2>9. ASSUME NEW i \in DOMAIN doomed'
        PROVE  (\E j \in DOMAIN recent' : recent'[j] = doomed'[i]) /\ doomed'[i] # ver
    <3>1. i + 1 \in DOMAIN doomed /\ 1 \in DOMAIN doomed /\ i + 1 # 1 /\ doomed'[i] = doomed[i + 1]
      BY <1>0, <2>1, <2>4
    <3>2. doomed[i + 1] # d /\ On(doomed[i + 1]) /\ doomed[i + 1] # ver
      BY <2>1, <2>2, <3>1 DEF Dirs, Distinct
    <3>. QED BY <2>1, <2>3, <3>1, <3>2
  <2>10. MaxVersions > 0 => Len(recent') <= MaxVersions + Len(doomed')
    BY <1>0, <2>1, <2>3, <2>4 DEF Dirs
  <2>11. recent'[1] = ver
    <3>1. CASE recent[1] = ver
      BY <2>1, <2>2, <2>3, <3>1
    <3>2. CASE recent[1] # ver
      <4>1. Len(recent) > 1 /\ recent[1] = d /\ recent[2] = ver
        BY <2>1, <2>2, <3>2 DEF Dirs
      <4>2. 1 \in DOMAIN r
        BY <1>0, <2>3, <4>1
      <4>. QED BY <2>1, <2>3, <4>1, <4>2
    <3>. QED BY <3>1, <3>2
  <2>12. VersionsBounded'
    BY <2>1, <2>2 DEF VersionsBounded
  <2>. QED BY <2>1, <2>2, <2>3, <2>5, <2>6, <2>8, <2>9, <2>10, <2>11, <2>12 DEF Dirs, On
<1>8. ASSUME NEW s \in Shard, RemoveFile(s) PROVE Dirs'
  <2>. DEFINE d == Head(doomed)
              t == Touched(d)
  <2>1. /\ stage = "remove" /\ UNCHANGED <<stage, ver, through, doomed>> /\ doomed # << >>
        /\ recent' = t
    BY <1>8 DEF RemoveFile
  <2>2. /\ d = doomed[1] /\ d \in Version /\ On(d) /\ d # ver /\ ver \in Version
        /\ ver \notin through /\ Len(doomed) > 0
    BY <1>0, <2>1, AtRemoval
  <2>3. /\ t \in Seq(Version) /\ Len(t) = Len(recent) /\ Distinct(t)
        /\ \A x : (\E i \in DOMAIN t : t[i] = x) <=> On(x)
        /\ t[1] = d
        /\ recent[1] = d => t = recent
        /\ recent[1] # d => Len(t) > 1 /\ t[2] = recent[1]
    BY <1>0, <2>2, TouchedFacts DEF Dirs
  <2>. HIDE DEF t, d
  <2>4. \A x : On(x)' <=> On(x)
    BY <2>1, <2>3 DEF On
  <2>5. \A i \in DOMAIN t : t[i] <= ver
    BY <2>3 DEF Dirs, On
  <2>6. \A i \in DOMAIN doomed : On(doomed[i]) /\ On(doomed[i])'
    BY <2>1, <2>4 DEF Dirs
  <2>7. Len(recent') > 1 /\ recent'[1] = doomed[1] /\ recent'[2] = ver
    BY <2>1, <2>2, <2>3 DEF Dirs
  <2>8. VersionsBounded'
    BY <2>1, <2>2 DEF VersionsBounded
  <2>. QED BY <2>1, <2>2, <2>3, <2>4, <2>5, <2>6, <2>7, <2>8 DEF Dirs, On
<1>9. ASSUME NEW s \in Shard, ShardStep(s) PROVE Dirs'
  <2>1. job[s] \notin {"no", "done"}
    BY <1>9 DEF ShardStep, Create, CreateFails, Walk, Flush, Rename
  <2>2. Touched(ver) = recent
    BY <2>1, AtWork
  <2>3. UNCHANGED <<recent, doomed, ver, through, stage>>
    BY <1>9, <2>2 DEF ShardStep, Create, CreateFails, Walk, Flush, Rename
  <2>. QED BY <2>3 DEF Dirs, On, Distinct, VersionsBounded
<1>. QED BY <1>1, <1>2, <1>3, <1>4, <1>5, <1>6, <1>7, <1>8, <1>9 DEF Next, DumpStep, Loading

-------------------------------------------------------------------------------
(***************************************************************************)
(* Files                                                                   *)
(***************************************************************************)
Files == Working /\ RenamedIsWhole /\ Kept

\* A step that changes one file of the version being dumped, and what its goroutine
\* saw of it at most, leaves the other versions' files and what makes one of them whole.
LEMMA Elsewhere ==
    ASSUME TypeOK, Phases, Dirs, Kept, stage \in {"spawn", "hung", "wait"},
           \A x \in Version, y \in Shard :
              x # ver => file'[x][y] = file[x][y] /\ saw'[x][y] = saw[x][y],
           UNCHANGED <<recent, stage, ver, through>>, cut \subseteq cut'
    PROVE  Kept'
<1>. SUFFICES ASSUME through # {}, cut' = {} PROVE Kept'
  BY DEF Kept
<1>1. PICK v \in Version : On(v) /\ Whole(v) /\ v # ver
  BY DEF Kept
<1>2. On(v)' /\ Whole(v)'
  BY <1>1 DEF On, Whole
<1>. QED BY <1>1, <1>2 DEF Kept

\* Nor does such a step change what the other goroutines rely on.
LEMMA Others ==
    ASSUME TypeOK, Phases, Dirs, Working, RenamedIsWhole, NEW s \in Shard, ver \in Version, ver \notin through,
           \A x \in Version, y \in Shard :
              ~ (x = ver /\ y = s) => file'[x][y] = file[x][y] /\ saw'[x][y] = saw[x][y],
           \A y \in Shard : y # s => job'[y] = job[y] /\ wrote'[y] = wrote[y],
           UNCHANGED <<ver, through>>, cut \subseteq cut'
    PROVE  /\ \A y \in Shard : y # s =>
                /\ job'[y] \in {"walk", "flush", "rename"} => file'[ver][y].name = "tmp"
                /\ job'[y] = "flush" => Broken(y)' \/ wrote'[y] = saw'[ver][y]
                /\ job'[y] = "rename" => Broken(y)' \/ file'[ver][y].has = saw'[ver][y]
                /\ job'[y] = "done" => Broken(y)' \/ Final(ver, y)'
           /\ \A x \in Version, y \in Shard : ~ (x = ver /\ y = s) =>
                (file'[x][y].name = "dump" /\ <<x, y>> \notin cut' => file'[x][y].has = saw'[x][y])
<1>1. ASSUME NEW y \in Shard, y # s
      PROVE  /\ job'[y] \in {"walk", "flush", "rename"} => file'[ver][y].name = "tmp"
             /\ job'[y] = "flush" => Broken(y)' \/ wrote'[y] = saw'[ver][y]
             /\ job'[y] = "rename" => Broken(y)' \/ file'[ver][y].has = saw'[ver][y]
             /\ job'[y] = "done" => Broken(y)' \/ Final(ver, y)'
  <2>1. /\ file'[ver][y] = file[ver][y] /\ saw'[ver][y] = saw[ver][y]
        /\ job'[y] = job[y] /\ wrote'[y] = wrote[y] /\ ver' = ver
    BY <1>1
  <2>. QED BY <2>1 DEF Working, Broken, Final
<1>2. ASSUME NEW x \in Version, NEW y \in Shard, ~ (x = ver /\ y = s),
             file'[x][y].name = "dump", <<x, y>> \notin cut'
      PROVE  file'[x][y].has = saw'[x][y]
  BY <1>2 DEF RenamedIsWhole
<1>. QED BY <1>1, <1>2

LEMMA CreateFiles ==
    ASSUME TypeOK, Phases, Dirs, Files, NEW s \in Shard, Create(s) PROVE Files'
<1>1. /\ ver \in Version /\ ver \notin through /\ stage \in {"spawn", "hung", "wait"}
      /\ recent' = recent
  BY AtWork DEF Create
<1>2. PICK c \in Content : c.name = "tmp" /\ file' = [file EXCEPT ![ver][s] = c]
  BY CreateFile
<1>3. \A x \in Version, y \in Shard : file'[x][y] = IF x = ver /\ y = s THEN c ELSE file[x][y]
  BY <1>1, <1>2, FileType
<1>4. /\ UNCHANGED <<ver, through, cut, saw, stage, wrote>>
      /\ job'[s] = "walk" /\ \A y \in Shard : y # s => job'[y] = job[y]
  BY DEF Create, history, TypeOK
<1>5. file'[ver][s].name = "tmp"
  BY <1>1, <1>2, <1>3
<1>6. Working' /\ RenamedIsWhole'
  BY <1>1, <1>3, <1>4, <1>5, Others DEF Working, RenamedIsWhole, Files, Broken, Final
<1>7. Kept'
  BY <1>1, <1>3, <1>4, Elsewhere DEF Files
<1>. QED BY <1>6, <1>7 DEF Files

LEMMA CreateFailsFiles ==
    ASSUME TypeOK, Phases, Dirs, Files, NEW s \in Shard, CreateFails(s) PROVE Files'
<1>1. ver \in Version /\ ver \notin through /\ stage \in {"spawn", "hung", "wait"}
  BY AtWork DEF CreateFails
<1>2. /\ UNCHANGED <<ver, through, file, saw, stage, wrote, recent>> /\ cut' = cut \cup {<<ver, s>>}
      /\ job'[s] = "done" /\ \A y \in Shard : y # s => job'[y] = job[y]
  BY DEF CreateFails, disk, TypeOK
<1>3. Working'
  BY <1>1, <1>2, Others DEF Working, Files, Broken, Final
<1>4. RenamedIsWhole'
  BY <1>2 DEF RenamedIsWhole, Files
<1>5. Kept'
  BY <1>1, <1>2, Elsewhere DEF Files
<1>. QED BY <1>3, <1>4, <1>5 DEF Files

LEMMA WalkFiles ==
    ASSUME TypeOK, Phases, Dirs, Files, NEW s \in Shard, Walk(s) PROVE Files'
<1>1. ver \in Version /\ ver \notin through /\ stage \in {"spawn", "hung", "wait"}
  BY AtWork DEF Walk
<1>2. PICK took \in SUBSET cache[s], c \in Content :
         /\ c.name = "tmp" /\ file' = [file EXCEPT ![ver][s] = c]
         /\ wrote' = [wrote EXCEPT ![s] = took]
         /\ cut' = IF took = cache[s] THEN cut ELSE cut \cup {<<ver, s>>}
  BY WalkFile DEF Files
<1>3. \A x \in Version, y \in Shard : file'[x][y] = IF x = ver /\ y = s THEN c ELSE file[x][y]
  BY <1>1, <1>2, FileType
<1>4. \A x \in Version, y \in Shard : saw'[x][y] = IF x = ver /\ y = s THEN cache[s] ELSE saw[x][y]
  BY <1>1, CellUpdate DEF Walk, TypeOK
<1>5. /\ UNCHANGED <<ver, through, stage, recent>>
      /\ job'[s] = "flush" /\ \A y \in Shard : y # s => job'[y] = job[y]
  BY DEF Walk, TypeOK
<1>6. /\ wrote'[s] = took /\ \A y \in Shard : y # s => wrote'[y] = wrote[y]
      /\ cut \subseteq cut' /\ (took = cache[s] \/ <<ver, s>> \in cut')
  BY <1>2 DEF TypeOK
<1>7. file'[ver][s].name = "tmp" /\ saw'[ver][s] = cache[s]
  BY <1>1, <1>2, <1>3, <1>4
<1>8. Working' /\ RenamedIsWhole'
  BY <1>1, <1>3, <1>4, <1>5, <1>6, <1>7, Others DEF Working, RenamedIsWhole, Files, Broken, Final
<1>9. Kept'
  BY <1>1, <1>3, <1>4, <1>5, <1>6, Elsewhere DEF Files
<1>. QED BY <1>8, <1>9 DEF Files

LEMMA FlushFiles ==
    ASSUME TypeOK, Phases, Dirs, Files, NEW s \in Shard, Flush(s) PROVE Files'
<1>1. ver \in Version /\ ver \notin through /\ stage \in {"spawn", "hung", "wait"}
  BY AtWork DEF Flush
<1>2. PICK c \in Content :
         c.name = "tmp" /\ c.has = wrote[s] /\ file' = [file EXCEPT ![ver][s] = c]
  BY FlushFile DEF Files
<1>3. \A x \in Version, y \in Shard : file'[x][y] = IF x = ver /\ y = s THEN c ELSE file[x][y]
  BY <1>1, <1>2, FileType
<1>4. /\ UNCHANGED <<ver, through, cut, saw, stage, wrote, recent>> /\ job[s] = "flush"
      /\ job'[s] = "rename" /\ \A y \in Shard : y # s => job'[y] = job[y]
  BY DEF Flush, history, TypeOK
<1>5. file'[ver][s].name = "tmp" /\ file'[ver][s].has = wrote[s]
  BY <1>1, <1>2, <1>3
<1>6. Broken(s) \/ wrote[s] = saw[ver][s]
  BY <1>4 DEF Files, Working
<1>7. Working' /\ RenamedIsWhole'
  BY <1>1, <1>3, <1>4, <1>5, <1>6, Others DEF Working, RenamedIsWhole, Files, Broken, Final
<1>8. Kept'
  BY <1>1, <1>3, <1>4, Elsewhere DEF Files
<1>. QED BY <1>7, <1>8 DEF Files

LEMMA RenameFiles ==
    ASSUME TypeOK, Phases, Dirs, Files, NEW s \in Shard, Rename(s) PROVE Files'
<1>1. /\ ver \in Version /\ ver \notin through /\ stage \in {"spawn", "hung", "wait"}
      /\ recent' = recent
  BY AtWork DEF Rename, disk
<1>2. /\ UNCHANGED <<ver, through, saw, stage, wrote>> /\ job[s] = "rename"
      /\ job'[s] = "done" /\ \A y \in Shard : y # s => job'[y] = job[y]
  BY DEF Rename, TypeOK
<1>3. CASE file' # file
  <2>1. PICK c \in Content :
           /\ c = [name |-> "dump", has |-> file[ver][s].has]
           /\ file' = [file EXCEPT ![ver][s] = c] /\ cut' = cut
    BY <1>3, RenameFile
  <2>2. \A x \in Version, y \in Shard : file'[x][y] = IF x = ver /\ y = s THEN c ELSE file[x][y]
    BY <1>1, <2>1, FileType
  <2>3. Broken(s) \/ file[ver][s].has = saw[ver][s]
    BY <1>2 DEF Files, Working
  <2>4. Broken(s)' \/ Final(ver, s)'
    BY <1>1, <1>2, <2>1, <2>2, <2>3 DEF Broken, Final
  <2>5. Working' /\ RenamedIsWhole'
    BY <1>1, <1>2, <2>1, <2>2, <2>4, Others DEF Working, RenamedIsWhole, Files, Broken, Final
  <2>6. Kept'
    BY <1>1, <1>2, <2>1, <2>2, Elsewhere DEF Files
  <2>. QED BY <2>5, <2>6 DEF Files
<1>4. CASE file' = file
  <2>1. <<ver, s>> \in cut' /\ cut \subseteq cut'
    <3>1. CASE cut' = cut \cup {<<ver, s>>}
      BY <3>1
    <3>2. CASE file' = [file EXCEPT ![ver][s].name = "dump"]
      <4>1. file[ver][s].name = "tmp"
        BY <1>2 DEF Files, Working
      <4>2. file[ver][s] \in Content
        BY <1>1 DEF TypeOK, Content
      <4>3. file'[ver][s].name = "dump"
        BY <1>1, <3>2, <4>2 DEF TypeOK, Content
      <4>. QED BY <1>4, <4>1, <4>3
    <3>. QED BY <3>1, <3>2 DEF Rename
  <2>2. Working'
    BY <1>1, <1>2, <1>4, <2>1, Others DEF Working, Files, Broken, Final
  <2>3. RenamedIsWhole'
    BY <1>2, <1>4, <2>1 DEF RenamedIsWhole, Files
  <2>4. Kept'
    BY <1>1, <1>2, <1>4, <2>1, Elsewhere DEF Files
  <2>. QED BY <2>2, <2>3, <2>4 DEF Files
<1>. QED BY <1>3, <1>4

LEMMA NextFiles ==
    ASSUME TypeOK, Phases, Dirs, Files, [Next]_vars PROVE Files'
<1>. USE DEF disk, dump, history
<1>1. CASE Loading \/ Expire \/ (\E s \in Shard, i \in Item : Change(s, i)) \/ UNCHANGED vars
  <2>1. UNCHANGED <<recent, ver, through, stage, file, saw, cut, job, wrote>>
    BY <1>1 DEF Loading, Start, LoadFails, LoadNothing, LoadVersion, Expire, Change, vars
  <2>. QED BY <2>1 DEF Files, Working, RenamedIsWhole, Kept, Broken, Final, On, Whole
<1>2. CASE DumpStart
  <2>1. /\ ver' = ver + 1 /\ ver' \in Version /\ recent' = <<ver'>> \o recent
        /\ UNCHANGED <<through, file, saw, cut, job, wrote>> /\ stage' = "spawn" /\ job = Idle
    BY <1>2, NextIsNewest DEF DumpStart, Phases
  <2>2. ver \in Nat /\ Version \subseteq Nat /\ recent \in Seq(Version)
    BY DumperAssumption DEF TypeOK, Version
  <2>3. ver' \notin through
    BY <2>1, <2>2 DEF Dirs, TypeOK
  <2>4. Working'
    BY <2>1, <2>3 DEF Working, Idle
  <2>5. RenamedIsWhole'
    BY <2>1 DEF Files, RenamedIsWhole
  <2>6. ASSUME NEW v \in Version, On(v) PROVE On(v)' /\ v # ver'
    <3>1. PICK i \in 1..Len(recent) : recent[i] = v
      BY <2>2, <2>6 DEF On
    <3>2. i + 1 \in DOMAIN recent' /\ recent'[i + 1] = v
      BY <2>1, <2>2, <3>1
    <3>3. v <= ver
      BY <2>2, <3>1 DEF Dirs
    <3>4. v # ver'
      BY <2>1, <2>2, <3>3
    <3>5. On(v)'
      BY <3>2 DEF On
    <3>. QED BY <3>4, <3>5
  <2>7. Kept'
    BY <2>1, <2>6 DEF Files, Kept, Whole
  <2>. QED BY <2>4, <2>5, <2>7 DEF Files
<1>3. CASE DumpStartFails \/ Crash
  <2>1. /\ UNCHANGED <<recent, ver, through, file, saw, cut>>
        /\ stage' = "no" /\ job' = Idle
    BY <1>3 DEF DumpStartFails, Crash, Off
  <2>. QED BY <2>1 DEF Files, Working, RenamedIsWhole, Kept, Broken, Final, On, Whole, Idle
<1>4. CASE Finish
  <2>1. /\ UNCHANGED <<recent, ver, file, saw, cut>> /\ stage = "remove" /\ stage' = "no"
        /\ job' = Idle /\ ver \in Version /\ \A s \in Shard : job[s] = "done"
    BY <1>4 DEF Finish, Off, Phases
  <2>2. \A s \in Shard : Broken(s) \/ Final(ver, s)
    BY <2>1 DEF Files, Working
  <2>3. Working'
    BY <2>1, <2>2 DEF Working, Idle, Broken, Final
  <2>4. RenamedIsWhole'
    BY <2>1 DEF Files, RenamedIsWhole
  <2>5. On(ver)
    BY <2>1 DEF Dirs
  <2>6. cut = {} => Whole(ver)
    BY <2>2 DEF Broken, Final, Whole
  <2>7. Kept'
    BY <2>1, <2>5, <2>6 DEF Kept, On, Whole
  <2>. QED BY <2>3, <2>4, <2>7 DEF Files
<1>5. CASE Spawn
  <2>1. /\ UNCHANGED <<recent, ver, through, file, saw, cut, wrote>> /\ stage = "spawn"
        /\ stage' \in {"spawn", "hung", "wait"}
        /\ \A s \in Shard : job'[s] \in {job[s], "create"}
    BY <1>5 DEF Spawn, TypeOK
  <2>2. ver \notin through
    BY <2>1 DEF Phases
  <2>3. Working'
    BY <2>1, <2>2 DEF Files, Working, Broken, Final
  <2>. QED BY <2>1, <2>3 DEF Files, RenamedIsWhole, Kept, On, Whole
<1>6. CASE Rotate
  <2>1. /\ UNCHANGED <<recent, ver, through, file, saw, cut, job, wrote>> /\ stage = "wait"
        /\ stage' = "remove" /\ \A s \in Shard : job[s] = "done"
    BY <1>6 DEF Rotate
  <2>2. ver \in Version /\ On(ver)
    BY <2>1 DEF Phases, Dirs
  <2>3. cut = {} => Whole(ver)
    BY <2>1 DEF Files, Working, Broken, Final, Whole
  <2>4. Kept'
    BY <2>1, <2>2, <2>3 DEF Kept, On, Whole
  <2>. QED BY <2>1, <2>4 DEF Files, Working, RenamedIsWhole, Broken, Final
<1>7. CASE RemoveDir
  <2>1. /\ UNCHANGED <<ver, through, file, saw, cut, job, wrote, stage>> /\ stage = "remove"
        /\ doomed # << >> /\ recent' = Without(Head(doomed))
    BY <1>7 DEF RemoveDir
  <2>2. /\ ver \in Version /\ On(ver) /\ Head(doomed) # ver
        /\ Head(doomed) \in Version /\ On(Head(doomed))
    BY <2>1, AtRemoval DEF Dirs
  <2>3. On(ver)'
    <3>1. recent \in Seq(Version) /\ Distinct(recent)
      BY DEF Dirs, TypeOK
    <3>2. \E i \in DOMAIN Without(Head(doomed)) : Without(Head(doomed))[i] = ver
      BY <2>2, <3>1, WithoutFacts
    <3>. QED BY <2>1, <3>2 DEF On
  <2>4. Kept'
    BY <2>1, <2>2, <2>3 DEF Files, Kept, Whole
  <2>. QED BY <2>1, <2>4 DEF Files, Working, RenamedIsWhole, Broken, Final
<1>8. ASSUME NEW s \in Shard, RemoveFile(s) PROVE Files'
  <2>1. /\ UNCHANGED <<ver, through, saw, cut, job, wrote, stage>> /\ stage = "remove"
        /\ doomed # << >> /\ recent' = Touched(Head(doomed))
        /\ file' = [file EXCEPT ![Head(doomed)][s] = NoFile]
    BY <1>8 DEF RemoveFile
  <2>2. /\ ver \in Version /\ On(ver) /\ Head(doomed) # ver
        /\ Head(doomed) \in Version /\ On(Head(doomed))
    BY <2>1, AtRemoval DEF Dirs
  <2>3. On(ver)'
    <3>1. recent \in Seq(Version) /\ Distinct(recent)
      BY DEF Dirs, TypeOK
    <3>2. \E i \in DOMAIN Touched(Head(doomed)) : Touched(Head(doomed))[i] = ver
      BY <2>2, <3>1, TouchedFacts
    <3>. QED BY <2>1, <3>2 DEF On
  <2>4. NoFile \in Content /\ NoFile.name = "none"
    BY DEF NoFile, Content
  <2>5. /\ \A x \in Version, y \in Shard : file'[x][y] \in {file[x][y], NoFile}
        /\ \A y \in Shard : file'[ver][y] = file[ver][y]
    BY <2>1, <2>2, <2>4, FileType
  <2>6. Working'
    BY <2>1, <2>2, <2>5 DEF Files, Working, Broken, Final
  <2>7. RenamedIsWhole'
    BY <2>1, <2>4, <2>5 DEF Files, RenamedIsWhole
  <2>8. Kept'
    BY <2>1, <2>2, <2>3, <2>5 DEF Files, Kept, Whole
  <2>. QED BY <2>6, <2>7, <2>8 DEF Files
<1>9. ASSUME NEW s \in Shard, ShardStep(s) PROVE Files'
  BY <1>9, CreateFiles, CreateFailsFiles, WalkFiles, FlushFiles, RenameFiles DEF ShardStep
<1>. QED BY <1>1, <1>2, <1>3, <1>4, <1>5, <1>6, <1>7, <1>8, <1>9 DEF Next, DumpStep, Loading

-------------------------------------------------------------------------------
(***************************************************************************)
(* Versions of the past                                                    *)
(***************************************************************************)
\* A step that at most removes files of the versions whose dumps went through.
LEMMA PastStays ==
    ASSUME Past, UNCHANGED through, cut \subseteq cut',
           \A x \in through, y \in Shard :
              file'[x][y] \in {file[x][y], NoFile} /\ saw'[x][y] = saw[x][y]
    PROVE  Past'
<1>. SUFFICES ASSUME NEW x \in through, NEW y \in Shard
              PROVE  <<x, y>> \in cut' \/ Final(x, y)' \/ file'[x][y] = NoFile
  BY DEF Past
<1>. QED BY DEF Past, Final

LEMMA ShardStepPast ==
    ASSUME TypeOK, Phases, Dirs, Working, Past, NEW s \in Shard, ShardStep(s) PROVE Past'
<1>. USE DEF disk, history
<1>0. job[s] \notin {"no", "done"}
  BY DEF ShardStep, Create, CreateFails, Walk, Flush, Rename
<1>1. ver \in Version /\ ver \notin through /\ through \subseteq Version
  BY <1>0, AtWork DEF TypeOK
<1>2. UNCHANGED through
  BY DEF ShardStep, Create, CreateFails, Walk, Flush, Rename
<1>3. cut \subseteq cut'
  <2>1. CASE Walk(s)
    BY <2>1, WalkFile
  <2>. QED BY <2>1 DEF ShardStep, Create, CreateFails, Flush, Rename
<1>4. \A x \in Version, y \in Shard : x # ver => saw'[x][y] = saw[x][y]
  <2>1. CASE Walk(s)
    BY <1>1, <2>1, CellUpdate DEF Walk, TypeOK
  <2>. QED BY <2>1 DEF ShardStep, Create, CreateFails, Flush, Rename
<1>5. file' = file \/ \E c \in Content : file' = [file EXCEPT ![ver][s] = c]
  <2>1. CASE CreateFails(s)
    BY <2>1 DEF CreateFails
  <2>. QED BY <2>1, CreateFile, WalkFile, FlushFile, RenameFile DEF ShardStep
<1>6. \A x \in Version, y \in Shard : x # ver => file'[x][y] = file[x][y]
  BY <1>1, <1>5, FileType
<1>. QED BY <1>1, <1>2, <1>3, <1>4, <1>6, PastStays

LEMMA NextPast ==
    ASSUME TypeOK, Phases, Dirs, Working, Past, [Next]_vars PROVE Past'
<1>. USE DEF disk, dump, history
<1>1. CASE Loading \/ DumpStart \/ DumpStartFails \/ Expire \/ Crash
             \/ (\E s \in Shard, i \in Item : Change(s, i)) \/ UNCHANGED vars
  <2>1. UNCHANGED <<through, cut, file, saw>>
    BY <1>1 DEF Loading, Start, LoadFails, LoadNothing, LoadVersion, DumpStart, DumpStartFails,
                Expire, Crash, Change, vars
  <2>. QED BY <2>1, PastStays
<1>2. CASE Spawn \/ Rotate \/ RemoveDir
  <2>1. UNCHANGED <<through, cut, file, saw>>
    BY <1>2 DEF Spawn, Rotate, RemoveDir
  <2>. QED BY <2>1, PastStays
<1>3. CASE Finish
  <2>1. /\ through' = through \cup {ver} /\ UNCHANGED <<cut, file, saw>>
        /\ \A s \in Shard : job[s] = "done"
    BY <1>3 DEF Finish, Phases
  <2>2. \A s \in Shard : <<ver, s>> \in cut \/ Final(ver, s)
    BY <2>1 DEF Working, Broken
  <2>. QED BY <2>1, <2>2 DEF Past, Final
<1>4. ASSUME NEW s \in Shard, RemoveFile(s) PROVE Past'
  <2>1. /\ stage = "remove" /\ doomed # << >> /\ UNCHANGED <<through, cut, saw>>
        /\ file' = [file EXCEPT ![Head(doomed)][s] = NoFile]
    BY <1>4 DEF RemoveFile
  <2>2. Head(doomed) \in Version /\ NoFile \in Content /\ through \subseteq Version
    BY <2>1, AtRemoval DEF NoFile, Content, TypeOK
  <2>3. \A x \in through, y \in Shard : file'[x][y] \in {file[x][y], NoFile}
    BY <2>1, <2>2, FileType
  <2>. QED BY <2>1, <2>3, PastStays
<1>5. ASSUME NEW s \in Shard, ShardStep(s) PROVE Past'
  BY <1>5, ShardStepPast
<1>. QED BY <1>1, <1>2, <1>3, <1>4, <1>5 DEF Next, DumpStep, Loading

-------------------------------------------------------------------------------
(***************************************************************************)
(* The theorems                                                            *)
(***************************************************************************)
LEMMA InitIInv == Init => IInv
<1>. SUFFICES ASSUME Init PROVE IInv
  OBVIOUS
<1>1. Phases
  BY DEF Init, Phases
<1>2. Dirs
  BY DumperAssumption DEF Init, Dirs, Distinct, Version, VersionsBounded
<1>3. Working /\ Kept
  BY DEF Init, Working, Kept, Idle
<1>4. RenamedIsWhole
  BY DEF Init, RenamedIsWhole, NoFile, Empty
<1>5. Past
  BY DEF Init, Past
<1>. QED BY <1>1, <1>2, <1>3, <1>4, <1>5, InitTypeOK DEF IInv

LEMMA NextIInv == IInv /\ [Next]_vars => IInv'
<1>. SUFFICES ASSUME IInv, [Next]_vars PROVE IInv'
  OBVIOUS
<1>. QED BY NextTypeOK, NextPhases, NextDirs, NextFiles, NextPast DEF IInv, Files

LEMMA Invariance == Spec => []IInv
BY InitIInv, NextIInv, PTL DEF Spec

\* Every variable keeps its type: no step of a dump, a rotation or a start reads a
\* version that is not there.
THEOREM DumperTypes == Spec => []TypeOK
<1>1. IInv => TypeOK
  BY DEF IInv
<1>. QED BY <1>1, Invariance, PTL

\* Whenever the process may have died, a file that bears its final name holds all that
\* its goroutine found in the shard, unless a failure or the context cut it short.
THEOREM NamesAreHonest == Spec => []RenamedIsWhole
<1>1. IInv => RenamedIsWhole
  BY DEF IInv
<1>. QED BY <1>1, Invariance, PTL

\* After a dump that went through, no more than MaxVersions directories are left.
THEOREM VersionsAreBounded == Spec => []VersionsBounded
<1>1. IInv => VersionsBounded
  BY DEF IInv, Dirs
<1>. QED BY <1>1, Invariance, PTL

\* As long as no dump was cut short, a whole version stays on disk once there is one,
\* wherever crashes interrupt later dumps and rotations.
THEOREM AWholeVersionSurvives == Spec => []DumpSurvives
<1>1. IInv => DumpSurvives
  BY DEF IInv, Kept, DumpSurvives, On
<1>. QED BY <1>1, Invariance, PTL

\* A version all of whose files are final is loaded as it was seen.
LEMMA FinalLoads ==
    ASSUME TypeOK, NEW v \in Version, \A s \in Shard : Final(v, s)
    PROVE  Loaded(v) = saw[v]
<1>1. \A s \in Shard : file[v][s].name = "dump" /\ file[v][s].has = saw[v][s]
  <2>. SUFFICES ASSUME NEW s \in Shard
                PROVE  file[v][s].name = "dump" /\ file[v][s].has = saw[v][s]
    OBVIOUS
  <2>1. file[v][s] = [name |-> "dump", has |-> saw[v][s]]
    BY DEF Final
  <2>. QED BY <2>1
<1>2. LatestName(v) = "dump"
  BY <1>1 DEF LatestName
<1>3. Loaded(v) = [s \in Shard |-> saw[v][s]]
  BY <1>1, <1>2 DEF Loaded
<1>4. saw[v] = [s \in Shard |-> saw[v][s]]
  BY DEF TypeOK
<1>. QED BY <1>3, <1>4

LEMMA StartLoads ==
    ASSUME IInv, Start, ver \in through, Uncut(ver) PROVE cache' = saw[ver]
<1>1. recent \in Seq(Version) /\ Len(recent) > 0 /\ recent[1] = ver /\ ver \in Version
  BY DEF IInv, Dirs, TypeOK
<1>2. recent # << >> /\ LatestVersionDir = ver
  BY <1>1 DEF LatestVersionDir
<1>3. \A s \in Shard : Final(ver, s)
  BY DEF IInv, Working, Broken, Uncut
<1>4. Loaded(ver) = saw[ver]
  BY <1>1, <1>3, FinalLoads DEF IInv
<1>. QED BY <1>2, <1>4 DEF Start

LEMMA VersionLoads ==
    ASSUME IInv, NEW v \in through, LoadVersion(v), Uncut(v), \A s \in Shard : file[v][s] # NoFile
    PROVE  cache' = saw[v]
<1>1. v \in Version /\ \A s \in Shard : Final(v, s)
  BY DEF IInv, TypeOK, Past, Uncut
<1>2. Loaded(v) = saw[v]
  BY <1>1, FinalLoads DEF IInv
<1>. QED BY <1>2 DEF LoadVersion

\* A start loads exactly what the last dump saw, when that went through and was not cut
\* short, and so does the load of any such version that a rotation has not begun to remove.
THEOREM StartRestoresDump == Spec => LoadRestores
<1>1. IInv /\ [Next]_vars =>
        [/\ Start /\ ver \in through /\ Uncut(ver) => cache' = saw[ver]
         /\ \A v \in through :
               LoadVersion(v) /\ Uncut(v) /\ (\A s \in Shard : file[v][s] # NoFile)
                  => cache' = saw[v]]_vars
  BY StartLoads, VersionLoads
<1>. QED BY <1>1, Invariance, PTL DEF Spec, LoadRestores

(***************************************************************************)
(* What a recursive function comes to is shown along its steps: a set with *)
(* 0 and, with i - 1, i, has all of 0..n.                                  *)
(***************************************************************************)
LEMMA UpTo ==
    ASSUME NEW n \in Nat, NEW P, 0 \in P, \A i \in 1..n : i - 1 \in P => i \in P
    PROVE  \A i \in 0..n : i \in P
<1>. DEFINE B == {i \in 0..n : i \notin P}
<1>1. SUFFICES ASSUME B # {} PROVE FALSE
  OBVIOUS
<1>2. PICK m \in B : \A j \in B : m <= j
  <2>1. B \in SUBSET Nat
    OBVIOUS
  <2>. HIDE DEF B
  <2>. QED BY <1>1, <2>1, LeastNatural
<1>3. m \in 1..n /\ m - 1 \in 0..n /\ ~ (m <= m - 1)
  OBVIOUS
<1>4. m - 1 \in P
  BY <1>2, <1>3
<1>. QED BY <1>3, <1>4

\* States of S that n steps go through, and a function that takes them.
StepFunctions(n, S, base, step) ==
    n \in Nat /\ base \in S /\ \A i \in 1..n : step[i] \in [S -> S]
Steps(n, base, step, f) ==
    /\ f[0] = base
    /\ \A i \in 1..n : f[i] = step[i][f[i-1]]
TableOf(n, S, base, step, f) ==
    f \in [0..n -> S] /\ f[n] \in S /\ Steps(n, base, step, f)

LEMMA StepsExist ==
    ASSUME NEW n \in Nat, NEW S, NEW base \in S, NEW step, \A i \in 1..n : step[i] \in [S -> S]
    PROVE  \E f \in [0..n -> S] : Steps(n, base, step, f)
<1>. DEFINE P == {m \in 0..n : \E f \in [0..m -> S] : Steps(m, base, step, f)}
<1>1. 0 \in P
  <2>. DEFINE g == [i \in 0..0 |-> base]
  <2>1. g \in [0..0 -> S] /\ g[0] = base /\ \A i \in 1..0 : FALSE
    OBVIOUS
  <2>. HIDE DEF g
  <2>2. Steps(0, base, step, g)
    BY <2>1 DEF Steps
  <2>. QED BY <2>1, <2>2
<1>2. ASSUME NEW m \in 1..n, m - 1 \in P PROVE m \in P
  <2>1. PICK f \in [0..(m-1) -> S] : Steps(m-1, base, step, f)
    BY <1>2
  <2>2. f[m-1] \in S /\ step[m] \in [S -> S]
    OBVIOUS
  <2>3. step[m][f[m-1]] \in S
    BY <2>2
  <2>. DEFINE x == step[m][f[m-1]]
              g == [i \in 0..m |-> IF i = m THEN x ELSE f[i]]
  <2>4. x \in S
    BY <2>3
  <2>. HIDE DEF x
  <2>5. g \in [0..m -> S]
    BY <2>4
  <2>6. g[m] = x /\ \A i \in 0..(m-1) : g[i] = f[i]
    OBVIOUS
  <2>. HIDE DEF g
  <2>7. Steps(m, base, step, g)
    <3>1. g[0] = base
      BY <2>1, <2>6 DEF Steps
    <3>2. ASSUME NEW i \in 1..m PROVE g[i] = step[i][g[i-1]]
      <4>1. g[i-1] = f[i-1]
        BY <2>6
      <4>2. CASE i = m
        BY <4>1, <4>2, <2>6 DEF x
      <4>3. CASE i # m
        <5>1. i \in 1..(m-1)
          BY <4>3
        <5>. QED BY <4>1, <5>1, <2>1, <2>6 DEF Steps
      <4>. QED BY <4>2, <4>3
    <3>. QED BY <3>1, <3>2 DEF Steps
  <2>. QED BY <2>5, <2>7
<1>3. \A m \in 0..n : m \in P
  <2>. HIDE DEF P
  <2>. QED BY <1>1, <1>2, UpTo
<1>4. n \in P
  BY <1>3
<1>. QED BY <1>4

\* A function h that takes these steps as far as it is in S, if any function does,
\* takes them all.
TakesThem(n, S, base, step, h) ==
    (\E f \in [0..n -> S] : Steps(n, base, step, f)) =>
        /\ h = [i \in 0..n |-> h[i]] /\ h[0] = base
        /\ \A i \in 1..n : h[i-1] \in S => h[i] = step[i][h[i-1]]

LEMMA Recursive ==
    ASSUME NEW n, NEW S, NEW base, NEW step, NEW h,
           StepFunctions(n, S, base, step), TakesThem(n, S, base, step, h)
    PROVE  TableOf(n, S, base, step, h)
<1>1. n \in Nat /\ base \in S /\ \A i \in 1..n : step[i] \in [S -> S]
  BY DEF StepFunctions
<1>2. \E f \in [0..n -> S] : Steps(n, base, step, f)
  BY <1>1, StepsExist
<1>3. h = [i \in 0..n |-> h[i]]
  BY <1>2 DEF TakesThem
<1>4. h[0] = base /\ \A i \in 1..n : h[i-1] \in S => h[i] = step[i][h[i-1]]
  BY <1>2 DEF TakesThem
<1>. DEFINE P == {i \in 0..n : h[i] \in S}
<1>5. 0 \in P
  BY <1>1, <1>4
<1>6. ASSUME NEW i \in 1..n, i - 1 \in P PROVE i \in P
  <2>1. h[i-1] \in S /\ step[i] \in [S -> S]
    BY <1>1, <1>6
  <2>2. h[i] = step[i][h[i-1]]
    BY <1>4, <2>1
  <2>. QED BY <1>1, <2>1, <2>2
<1>7. \A i \in 0..n : i \in P
  <2>. HIDE DEF P
  <2>. QED BY <1>1, <1>5, <1>6, UpTo
<1>8. \A i \in 0..n : h[i] \in S
  BY <1>7
<1>9. h \in [0..n -> S] /\ h[n] \in S
  BY <1>1, <1>3, <1>8
<1>10. \A i \in 1..n : i - 1 \in 0..n
  BY <1>1
<1>. QED BY <1>4, <1>8, <1>9, <1>10 DEF TableOf, Steps

LEMMA Flattens ==
    ASSUME NEW S, NEW seqs \in Seq(Seq(S))
    PROVE  \E f \in [0..Len(seqs) -> Seq(S)] :
              /\ f[0] = <<>> /\ \A i \in 1..Len(seqs) : f[i] = f[i-1] \o seqs[i]
              /\ FlattenSeq(seqs) = f[Len(seqs)]
<1>. DEFINE n == Len(seqs)
            step == [i \in 1..n |-> [x \in Seq(S) |-> x \o seqs[i]]]
            Eqn(g) == g = [i \in 1..n |-> IF i = 1 THEN seqs[i] ELSE g[i-1] \o seqs[i]]
            h == CHOOSE g : Eqn(g)
<1>1. n \in Nat /\ \A i \in 1..n : seqs[i] \in Seq(S)
  OBVIOUS
<1>2. \A i \in 1..n : step[i] \in [Seq(S) -> Seq(S)]
  BY <1>1
<1>3. PICK f \in [0..n -> Seq(S)] : Steps(n, <<>>, step, f)
  <2>. HIDE DEF step, n
  <2>. QED BY <1>1, <1>2, StepsExist, EmptySeq
<1>4. f[0] = <<>> /\ \A i \in 1..n : f[i] = f[i-1] \o seqs[i]
  <2>1. ASSUME NEW i \in 1..n PROVE f[i] = f[i-1] \o seqs[i]
    <3>1. f[i-1] \in Seq(S)
      <4>1. i - 1 \in 0..n
        BY <1>1
      <4>. HIDE DEF n, step
      <4>. QED BY <4>1
    <3>2. step[i][f[i-1]] = f[i-1] \o seqs[i]
      BY <3>1
    <3>3. f[i] = step[i][f[i-1]]
      <4>. HIDE DEF step, n
      <4>. QED BY <1>3 DEF Steps
    <3>. QED BY <3>2, <3>3
  <2>2. f[0] = <<>>
    BY <1>3 DEF Steps
  <2>. QED BY <2>1, <2>2
<1>8. n # 0 => f[1] = seqs[1] /\ 1 \in 1..n
  <2>1. ASSUME n # 0 PROVE 1 \in 1..n
    BY <1>1, <2>1
  <2>2. ASSUME n # 0 PROVE f[1] = seqs[1]
    <3>1. seqs[1] \in Seq(S)
      BY <1>1, <2>1, <2>2
    <3>2. f[1] = <<>> \o seqs[1]
      BY <1>4, <2>1, <2>2
    <3>. QED BY <3>1, <3>2, ConcatEmptySeq
  <2>. QED BY <2>1, <2>2
<1>5. n # 0 => Eqn(h)
  <2>. DEFINE g == [i \in 1..n |-> f[i]]
  <2>1. \A i \in 1..n : g[i] = IF i = 1 THEN seqs[i] ELSE g[i-1] \o seqs[i]
    <3>1. ASSUME NEW i \in 1..n, i = 1 PROVE g[i] = seqs[i]
      BY <1>8, <3>1
    <3>2. ASSUME NEW i \in 1..n, i # 1 PROVE g[i] = g[i-1] \o seqs[i]
      <4>1. i - 1 \in 1..n
        BY <3>2
      <4>2. g[i] = f[i] /\ g[i-1] = f[i-1]
        BY <4>1
      <4>. HIDE DEF g
      <4>. QED BY <1>4, <4>2
    <3>. QED BY <3>1, <3>2
  <2>2. g = [i \in 1..n |-> g[i]]
    OBVIOUS
  <2>. HIDE DEF g
  <2>3. Eqn(g)
    BY <2>1, <2>2
  <2>. QED BY <2>3
<1>6. n # 0 => \A i \in 1..n : h[i] = f[i]
  <2>. SUFFICES ASSUME n # 0 PROVE \A i \in 1..n : h[i] = f[i]
    OBVIOUS
  <2>1. \A i \in 1..n : h[i] = IF i = 1 THEN seqs[i] ELSE h[i-1] \o seqs[i]
    <3>. HIDE DEF h
    <3>. QED BY <1>5
  <2>. HIDE DEF h
  <2>. DEFINE P == {i \in 0..n : i = 0 \/ h[i] = f[i]}
  <2>2. 0 \in P
    OBVIOUS
  <2>3. ASSUME NEW i \in 1..n, i - 1 \in P PROVE i \in P
    <3>1. CASE i = 1
      <4>1. h[1] = seqs[1]
        BY <2>1, <1>8
      <4>. QED BY <1>8, <3>1, <4>1
    <3>2. CASE i # 1
      <4>1. h[i-1] = f[i-1]
        BY <2>3, <3>2
      <4>2. h[i] = f[i]
        BY <1>4, <2>1, <3>2, <4>1
      <4>. QED BY <4>2
    <3>. QED BY <3>1, <3>2
  <2>4. \A i \in 0..n : i \in P
    <3>. HIDE DEF P, n
    <3>. QED BY <1>1, <2>2, <2>3, UpTo
  <2>. QED BY <2>4
<1>7. FlattenSeq(seqs) = f[n]
  <2>1. CASE n = 0
    <3>1. seqs = <<>>
      BY <2>1, EmptySeq
    <3>2. FlattenSeq(seqs) = seqs
      BY <2>1 DEF FlattenSeq
    <3>3. f[n] = <<>>
      BY <2>1, <1>4
    <3>. QED BY <3>1, <3>2, <3>3
  <2>2. CASE n # 0
    <3>1. FlattenSeq(seqs) = h[n]
      BY <2>2 DEF FlattenSeq
    <3>2. n \in 1..n
      BY <1>1, <2>2
    <3>. HIDE DEF h
    <3>. QED BY <1>6, <2>2, <3>1, <3>2
  <2>. QED BY <2>1, <2>2
<1>. QED BY <1>3, <1>4, <1>7

(***************************************************************************)
(* The recursive functions of Entry.                                       *)
(***************************************************************************)
\* What Picked goes through: its equation has a solution, with values in Seq(S).
PickedSteps(S, s, I, h) ==
    /\ h \in [0..Len(s) -> Seq(S)] /\ h[0] = <<>> /\ Picked(s, I) = h[Len(s)] /\ h[Len(s)] \in Seq(S)
    /\ \A i \in 1..Len(s) : h[i] = IF i \in I THEN Append(h[i-1], s[i]) ELSE h[i-1]

LEMMA PickedTable ==
    ASSUME NEW S, NEW s \in Seq(S), NEW I
    PROVE  \E h : PickedSteps(S, s, I, h)
<1>. DEFINE n == Len(s)
            T == Seq(S)
            base == <<>>
            Body(i, x) == IF i \in I THEN Append(x, s[i]) ELSE x
            Eqn(g) == g = [i \in 0..n |-> IF i = 0 THEN base ELSE Body(i, g[i-1])]
            step == [i \in 1..n |-> [x \in T |-> Body(i, x)]]
            h == CHOOSE g : Eqn(g)
<1>1. n \in Nat /\ base \in T
  BY EmptySeq
<1>2. ASSUME NEW i \in 1..n, NEW x \in T PROVE Body(i, x) \in T
  BY <1>2
<1>3. Picked(s, I) = h[n]
  BY DEF Picked
<1>4. h \in [0..n -> T] /\ h[n] \in T /\ h[0] = base /\ \A i \in 1..n : h[i] = Body(i, h[i-1])
  <2>. HIDE DEF n, T, base, Body
  <2>1. StepFunctions(n, T, base, step)
    BY <1>1, <1>2 DEF StepFunctions
  <2>2. \A i \in 1..n, x \in T : step[i][x] = Body(i, x)
    OBVIOUS
  <2>3. TakesThem(n, T, base, step, h)
    <3>. SUFFICES ASSUME NEW f \in [0..n -> T], Steps(n, base, step, f)
                  PROVE  /\ h = [i \in 0..n |-> h[i]] /\ h[0] = base
                         /\ \A i \in 1..n : h[i-1] \in T => h[i] = step[i][h[i-1]]
      BY DEF TakesThem
    <3>1. f[0] = base /\ \A i \in 1..n : f[i] = Body(i, f[i-1])
      <4>. HIDE DEF step
      <4>. QED BY <1>1, <2>2 DEF Steps
    <3>2. Eqn(f)
      BY <1>1, <3>1
    <3>3. Eqn(h)
      BY <3>2
    <3>. HIDE DEF h, step
    <3>. QED BY SMTT(30), <1>1, <2>2, <3>3
  <2>. HIDE DEF step, h
  <2>4. TableOf(n, T, base, step, h)
    BY <2>1, <2>3, Recursive
  <2>5. \A i \in 1..n : h[i-1] \in T
    BY <1>1, <2>4 DEF TableOf
  <2>. QED BY <2>2, <2>4, <2>5 DEF TableOf, Steps
<1>. QED
  <2>. HIDE DEF h
  <2>. QED BY <1>3, <1>4 DEF PickedSteps


(***************************************************************************)
(* The codec.  At says that s stands in a buffer behind offset o.          *)
(***************************************************************************)
At(buf, o, s) == o + Len(s) <= Len(buf) /\ \A j \in 1..Len(s) : buf[o + j] = s[j]

LEMMA AtConcat ==
    ASSUME NEW C, NEW buf \in Seq(C), NEW o \in Nat, NEW s \in Seq(C), NEW t \in Seq(C)
    PROVE  At(buf, o, s \o t) <=> At(buf, o, s) /\ At(buf, o + Len(s), t)
<1>1. /\ Len(s) \in Nat /\ Len(t) \in Nat /\ Len(buf) \in Nat
      /\ Len(s \o t) = Len(s) + Len(t)
  OBVIOUS
<1>2. \A j \in 1..Len(s) : j \in 1..Len(s \o t) /\ (s \o t)[j] = s[j]
  BY <1>1
<1>3. \A j \in 1..Len(t) : Len(s) + j \in 1..Len(s \o t) /\ (s \o t)[Len(s) + j] = t[j]
  BY <1>1
<1>4. ASSUME At(buf, o, s \o t) PROVE At(buf, o, s) /\ At(buf, o + Len(s), t)
  <2>1. \A j \in 1..Len(s) : buf[o + j] = s[j]
    BY <1>2, <1>4 DEF At
  <2>2. ASSUME NEW j \in 1..Len(t) PROVE buf[o + Len(s) + j] = t[j]
    <3>1. buf[o + (Len(s) + j)] = t[j]
      BY <1>3, <1>4 DEF At
    <3>2. o + (Len(s) + j) = o + Len(s) + j
      BY <1>1
    <3>. QED BY <3>1, <3>2
  <2>. QED BY <1>1, <1>4, <2>1, <2>2 DEF At
<1>5. ASSUME At(buf, o, s), At(buf, o + Len(s), t) PROVE At(buf, o, s \o t)
  <2>1. ASSUME NEW j \in 1..Len(s \o t) PROVE buf[o + j] = (s \o t)[j]
    <3>1. CASE j \in 1..Len(s)
      BY <1>2, <1>5, <3>1 DEF At
    <3>2. CASE j \notin 1..Len(s)
      <4>1. j - Len(s) \in 1..Len(t) /\ j = Len(s) + (j - Len(s))
        BY <1>1, <3>2
      <4>2. (s \o t)[j] = t[j - Len(s)]
        BY <1>3, <4>1
      <4>3. buf[o + Len(s) + (j - Len(s))] = t[j - Len(s)] /\ o + Len(s) + (j - Len(s)) = o + j
        BY <1>1, <1>5, <4>1 DEF At
      <4>. QED BY <4>2, <4>3
    <3>. QED BY <3>1, <3>2
  <2>. QED BY <1>1, <1>5, <2>1 DEF At
<1>. QED BY <1>4, <1>5

LEMMA AtWhole == ASSUME NEW C, NEW s \in Seq(C) PROVE At(s, 0, s)
BY DEF At

LEMMA SizedIs ==
    ASSUME NEW C, Nat \subseteq C, NEW s \in Seq(C)
    PROVE  Sized(s) \in Seq(C) /\ Len(Sized(s)) = 1 + Len(s)
BY ConcatProperties DEF Sized

\* What a cell and a sized field read.
LEMMA CellAt ==
    ASSUME NEW C, NEW buf \in Seq(C), NEW o \in Nat, NEW c \in C, At(buf, o, <<c>>)
    PROVE  buf[o + 1] = c
BY DEF At

LEMMA FieldAt ==
    ASSUME NEW C, Nat \subseteq C, NEW buf \in Seq(C), NEW o \in Nat, NEW s \in Seq(C),
           At(buf, o, Sized(s))
    PROVE  Field(buf, o) = [val |-> s, off |-> o + 1 + Len(s)]
<1>1. Len(s) \in Nat /\ Len(buf) \in Nat /\ <<Len(s)>> \in Seq(C) /\ Len(<<Len(s)>>) = 1
  OBVIOUS
<1>2. At(buf, o, <<Len(s)>>) /\ At(buf, o + 1, s)
  BY <1>1, AtConcat DEF Sized
<1>3. buf[o + 1] = Len(s)
  BY <1>1, <1>2, CellAt
<1>4. SubSeq(buf, o + 2, o + 1 + Len(s)) = s
  <2>1. o + 1 + Len(s) <= Len(buf) /\ \A j \in 1..Len(s) : buf[o + 1 + j] = s[j]
    BY <1>2 DEF At
  <2>2. \A i \in (o + 2)..(o + 1 + Len(s)) : buf[i] \in C
    BY <1>1, <2>1
  <2>. DEFINE u == SubSeq(buf, o + 2, o + 1 + Len(s))
  <2>3. /\ u \in Seq(C) /\ Len(u) = Len(s)
        /\ \A i \in 1..Len(s) : u[i] = buf[o + 2 + i - 1]
    BY <1>1, <2>2, SubSeqProperties
  <2>4. \A i \in 1..Len(s) : o + 2 + i - 1 = o + 1 + i
    OBVIOUS
  <2>5. \A i \in 1..Len(s) : u[i] = s[i]
    BY <2>1, <2>3, <2>4
  <2>. HIDE DEF u
  <2>6. u = s
    BY <2>3, <2>5, SeqEqual
  <2>. QED BY <2>6 DEF u
<1>. QED BY <1>3, <1>4 DEF Field

\* The prefixes of a flattened sequence.
FlatTable(C, seqs, f) ==
    /\ f \in [0..Len(seqs) -> Seq(C)]
    /\ f[0] = <<>> /\ \A i \in 1..Len(seqs) : f[i] = f[i-1] \o seqs[i]

FlatStands(buf, o, seqs, f) ==
    \A i \in 1..Len(seqs) : /\ At(buf, o + Len(f[i-1]), seqs[i])
                            /\ Len(f[i]) = Len(f[i-1]) + Len(seqs[i])

LEMMA FlatAt ==
    ASSUME NEW C, NEW buf \in Seq(C), NEW o \in Nat, NEW seqs \in Seq(Seq(C)), NEW f,
           FlatTable(C, seqs, f), At(buf, o, f[Len(seqs)])
    PROVE  FlatStands(buf, o, seqs, f)
<1>. DEFINE n == Len(seqs)
            P == {d \in 0..n : At(buf, o, f[n - d])}
<1>1. n \in Nat /\ \A i \in 1..n : seqs[i] \in Seq(C) /\ i \in 0..n /\ i - 1 \in 0..n
  OBVIOUS
<1>2. f \in [0..n -> Seq(C)] /\ \A i \in 1..n : f[i] = f[i-1] \o seqs[i]
  BY DEF FlatTable
<1>3. 0 \in P
  BY <1>1
<1>. HIDE DEF n
<1>4. ASSUME NEW d \in 1..n, d - 1 \in P PROVE d \in P
  <2>1. n - d \in 0..n /\ n - d + 1 \in 1..n /\ n - d + 1 - 1 = n - d /\ n - (d - 1) = n - d + 1
    BY <1>1
  <2>2. f[n - d + 1] = f[n - d] \o seqs[n - d + 1]
    <3>. DEFINE i == n - d + 1
                j == n - d
    <3>1. i \in 1..n /\ i - 1 = j
      BY <2>1
    <3>. HIDE DEF i, j
    <3>2. f[i] = f[j] \o seqs[i]
      BY <1>2, <3>1
    <3>. QED BY <3>2 DEF i, j
  <2>3. f[n - d] \in Seq(C) /\ seqs[n - d + 1] \in Seq(C)
    BY <1>1, <1>2, <2>1
  <2>4. At(buf, o, f[n - d] \o seqs[n - d + 1])
    BY <1>4, <2>1, <2>2
  <2>5. At(buf, o, f[n - d])
    BY <2>3, <2>4, AtConcat
  <2>. QED BY <2>1, <2>5
<1>5. \A d \in 0..n : d \in P
  <2>. HIDE DEF P
  <2>. QED BY <1>1, <1>3, <1>4, UpTo
<1>6. ASSUME NEW i \in 1..n
      PROVE  At(buf, o + Len(f[i-1]), seqs[i]) /\ Len(f[i]) = Len(f[i-1]) + Len(seqs[i])
  <2>1. n - i \in 0..n /\ n - (n - i) = i
    BY <1>1
  <2>2. At(buf, o, f[i])
    BY <1>5, <2>1
  <2>3. f[i-1] \in Seq(C) /\ seqs[i] \in Seq(C) /\ f[i] = f[i-1] \o seqs[i]
    BY <1>1, <1>2
  <2>. QED BY <2>2, <2>3, AtConcat, ConcatProperties
<1>. QED BY <1>6 DEF n, FlatStands

LEMMA Sums ==
    \A a, b \in Nat : a + b \in Nat /\ a + 1 + b \in Nat /\ a + 1 + b = a + (1 + b)
OBVIOUS

Texts == Seq(Nat)
Pairs == Seq(Texts \X Texts)

LEMMA PrefixStep ==
    ASSUME NEW S, NEW s \in Seq(S), NEW i \in 1..Len(s)
    PROVE  Append(SubSeq(s, 1, i - 1), s[i]) = SubSeq(s, 1, i)
<1>1. 1 \in 1..Len(s) /\ i \in 1..Len(s)
  OBVIOUS
<1>2. SubSeq(s, 1, i) = SubSeq(s, 1, i - 1) \o <<s[i]>>
  BY <1>1, SubSeqRecursiveSecond
<1>3. SubSeq(s, 1, i - 1) \in Seq(S) /\ s[i] \in S
  BY SubSeqProperties
<1>. QED BY <1>2, <1>3, AppendIsConcat

\* What packs a pair of texts.
PairBytes(kvs) == [i \in DOMAIN kvs |-> Sized(kvs[i][1]) \o Sized(kvs[i][2])]

LEMMA PairBytesAre ==
    ASSUME NEW kvs \in Pairs
    PROVE  /\ kvs \in Seq(Texts \X Texts) /\ Len(kvs) \in Nat
           /\ PairBytes(kvs) \in Seq(Texts) /\ Len(PairBytes(kvs)) = Len(kvs)
           /\ \A i \in 1..Len(kvs) :
                 /\ kvs[i] = <<kvs[i][1], kvs[i][2]>>
                 /\ kvs[i][1] \in Texts /\ kvs[i][2] \in Texts
                 /\ PairBytes(kvs)[i] = Sized(kvs[i][1]) \o Sized(kvs[i][2])
                 /\ Len(PairBytes(kvs)[i]) = 2 + Len(kvs[i][1]) + Len(kvs[i][2])
<1>1. kvs \in Seq(Texts \X Texts) /\ Len(kvs) \in Nat /\ DOMAIN kvs = 1..Len(kvs)
  BY DEF Pairs
<1>2. ASSUME NEW i \in 1..Len(kvs)
      PROVE  /\ kvs[i] = <<kvs[i][1], kvs[i][2]>>
             /\ kvs[i][1] \in Texts /\ kvs[i][2] \in Texts
             /\ Sized(kvs[i][1]) \o Sized(kvs[i][2]) \in Texts
             /\ Len(Sized(kvs[i][1]) \o Sized(kvs[i][2])) = 2 + Len(kvs[i][1]) + Len(kvs[i][2])
  <2>1. kvs[i] \in Texts \X Texts
    BY <1>1
  <2>2. kvs[i] = <<kvs[i][1], kvs[i][2]>> /\ kvs[i][1] \in Texts /\ kvs[i][2] \in Texts
    BY <2>1
  <2>3. /\ Sized(kvs[i][1]) \in Texts /\ Len(Sized(kvs[i][1])) = 1 + Len(kvs[i][1])
        /\ Sized(kvs[i][2]) \in Texts /\ Len(Sized(kvs[i][2])) = 1 + Len(kvs[i][2])
    BY <2>2, SizedIs DEF Texts
  <2>4. Len(kvs[i][1]) \in Nat /\ Len(kvs[i][2]) \in Nat
    BY <2>2 DEF Texts
  <2>5. /\ Sized(kvs[i][1]) \o Sized(kvs[i][2]) \in Texts
        /\ Len(Sized(kvs[i][1]) \o Sized(kvs[i][2]))
             = Len(Sized(kvs[i][1])) + Len(Sized(kvs[i][2]))
    BY <2>3, ConcatProperties DEF Texts
  <2>7. Len(Sized(kvs[i][1]) \o Sized(kvs[i][2])) = 2 + Len(kvs[i][1]) + Len(kvs[i][2])
    <3>. DEFINE x == Len(Sized(kvs[i][1]))
                y == Len(Sized(kvs[i][2]))
                z == Len(Sized(kvs[i][1]) \o Sized(kvs[i][2]))
                a == Len(kvs[i][1])
                b == Len(kvs[i][2])
    <3>1. z = x + y /\ x = 1 + a /\ y = 1 + b /\ a \in Nat /\ b \in Nat
      BY <2>3, <2>4, <2>5
    <3>. HIDE DEF x, y, z, a, b
    <3>2. z = 2 + a + b
      BY <3>1
    <3>. QED BY <3>2 DEF z, a, b
  <2>. QED BY <2>2, <2>5, <2>7
<1>3. PairBytes(kvs) = [i \in 1..Len(kvs) |-> Sized(kvs[i][1]) \o Sized(kvs[i][2])]
  BY <1>1 DEF PairBytes
<1>4. PairBytes(kvs) \in [1..Len(kvs) -> Texts]
  BY <1>2, <1>3
<1>5. PairBytes(kvs) \in Seq(Texts) /\ Len(PairBytes(kvs)) = Len(kvs)
  BY <1>1, <1>4
<1>. QED BY <1>1, <1>2, <1>3, <1>5

LEMMA PairsAt ==
    ASSUME NEW buf \in Texts, NEW o \in Nat, NEW kvs \in Pairs, At(buf, o, PackPairs(kvs))
    PROVE  UnpackPairs(buf, o) = [kvs |-> kvs, off |-> o + Len(PackPairs(kvs))]
<1>. DEFINE n == Len(kvs)
            seqs == PairBytes(kvs)
<1>1. n \in Nat /\ seqs \in Seq(Texts) /\ Len(seqs) = n /\ kvs \in Seq(Texts \X Texts)
  BY PairBytesAre
<1>0. seqs \in Seq(Seq(Nat)) /\ buf \in Seq(Nat)
  BY <1>1 DEF Texts
<1>2. PICK F : FlatTable(Nat, seqs, F) /\ FlattenSeq(seqs) = F[n]
  <2>1. seqs \in Seq(Seq(Nat))
    BY <1>1 DEF Texts
  <2>. HIDE DEF seqs, n
  <2>2. PICK f \in [0..Len(seqs) -> Seq(Nat)] :
              /\ f[0] = <<>> /\ \A i \in 1..Len(seqs) : f[i] = f[i-1] \o seqs[i]
              /\ FlattenSeq(seqs) = f[Len(seqs)]
    BY <2>1, Flattens
  <2>. QED BY <1>1, <2>2 DEF FlatTable
<1>. HIDE DEF seqs
<1>3. /\ F \in [0..n -> Seq(Nat)] /\ F[0] = <<>> /\ F[n] \in Seq(Nat)
      /\ \A i \in 0..n : F[i] \in Texts /\ Len(F[i]) \in Nat
  <2>1. F \in [0..n -> Seq(Nat)] /\ F[0] = <<>>
    BY <1>1, <1>2 DEF FlatTable
  <2>2. \A i \in 0..n : F[i] \in Seq(Nat)
    BY <2>1
  <2>3. \A i \in 0..n : Len(F[i]) \in Nat
    BY <2>2
  <2>. QED BY <1>1, <2>1, <2>2, <2>3 DEF Texts
<1>4. PackPairs(kvs) = <<n>> \o F[n]
  BY <1>2 DEF PackPairs, PairBytes, seqs
<1>5. Len(PackPairs(kvs)) = 1 + Len(F[n])
  <2>1. <<n>> \in Seq(Nat) /\ Len(<<n>>) = 1
    BY <1>1
  <2>. QED BY <1>3, <1>4, <2>1, ConcatProperties
<1>6. At(buf, o, <<n>>) /\ At(buf, o + 1, F[n])
  <2>. HIDE DEF n
  <2>1. At(buf, o, <<n>> \o F[n]) /\ <<n>> \in Seq(Nat) /\ Len(<<n>>) = 1
    BY <1>1, <1>4
  <2>. QED BY <1>0, <1>3, <2>1, AtConcat
<1>7. buf[o + 1] = n
  BY <1>1, <1>6, CellAt DEF Texts
<1>8. \A i \in 1..n : /\ At(buf, o + 1 + Len(F[i-1]), seqs[i])
                      /\ Len(F[i]) = Len(F[i-1]) + Len(seqs[i])
  <2>. HIDE DEF n
  <2>1. o + 1 \in Nat /\ At(buf, o + 1, F[Len(seqs)]) /\ FlatTable(Nat, seqs, F)
    BY <1>1, <1>2, <1>6
  <2>2. FlatStands(buf, o + 1, seqs, F)
    BY <1>0, <2>1, FlatAt
  <2>. QED BY <1>1, <2>2 DEF FlatStands
<1>. DEFINE G(i) == [kvs |-> SubSeq(kvs, 1, i), off |-> o + 1 + Len(F[i])]
            Body(x) == LET k == Field(buf, x.off)
                           v == Field(buf, k.off)
                       IN  [kvs |-> Append(x.kvs, <<k.val, v.val>>), off |-> v.off]
            Eqn(g) == g = [i \in 0..n |-> IF i = 0 THEN [kvs |-> <<>>, off |-> o + 1]
                                          ELSE Body(g[i-1])]
            h == CHOOSE g : Eqn(g)
<1>9. UnpackPairs(buf, o) = h[n]
  BY <1>7 DEF UnpackPairs
<1>10. ASSUME NEW i \in 1..n PROVE Body(G(i-1)) = G(i)
  <2>. DEFINE k == kvs[i][1]
              v == kvs[i][2]
              at == o + 1 + Len(F[i-1])
  <2>1. /\ kvs[i] = <<k, v>> /\ k \in Texts /\ v \in Texts
        /\ seqs[i] = Sized(k) \o Sized(v) /\ Len(seqs[i]) = 2 + Len(k) + Len(v)
    BY PairBytesAre DEF seqs
  <2>2. F[i-1] \in Texts /\ Len(F[i-1]) \in Nat /\ at \in Nat /\ Len(k) \in Nat /\ Len(v) \in Nat
    <3>1. i - 1 \in 0..n
      BY <1>1
    <3>2. F[i-1] \in Texts /\ Len(F[i-1]) \in Nat
      BY <1>3, <3>1
    <3>3. Len(k) \in Nat /\ Len(v) \in Nat
      BY <2>1 DEF Texts
    <3>. HIDE DEF k, v
    <3>4. at \in Nat
      BY <3>2, Sums, Zenon
    <3>. QED BY <3>2, <3>3, <3>4
  <2>3. /\ Sized(k) \in Texts /\ Len(Sized(k)) = 1 + Len(k) /\ Sized(v) \in Texts
    BY <2>1, SizedIs DEF Texts
  <2>. HIDE DEF k, v, at, seqs
  <2>4. At(buf, at, Sized(k) \o Sized(v))
    BY <1>8, <2>1 DEF at
  <2>5. At(buf, at, Sized(k)) /\ At(buf, at + (1 + Len(k)), Sized(v))
    BY <2>2, <2>3, <2>4, AtConcat DEF Texts
  <2>6. Field(buf, at) = [val |-> k, off |-> at + 1 + Len(k)]
    BY <2>1, <2>2, <2>5, FieldAt DEF Texts
  <2>7. at + (1 + Len(k)) = at + 1 + Len(k) /\ at + 1 + Len(k) \in Nat
    BY <2>2
  <2>8. Field(buf, at + 1 + Len(k)) = [val |-> v, off |-> at + 1 + Len(k) + 1 + Len(v)]
    BY <2>1, <2>5, <2>7, FieldAt DEF Texts
  <2>9. G(i-1).off = at /\ G(i-1).kvs = SubSeq(kvs, 1, i - 1)
    BY DEF at
  <2>10. Body(G(i-1)) = [kvs |-> Append(SubSeq(kvs, 1, i - 1), <<k, v>>),
                         off |-> at + 1 + Len(k) + 1 + Len(v)]
    <3>. DEFINE x == G(i-1)
    <3>1. x.off = at /\ x.kvs = SubSeq(kvs, 1, i - 1)
      BY <2>9
    <3>. HIDE DEF x, G
    <3>. DEFINE r == Field(buf, x.off)
                s == Field(buf, r.off)
    <3>2. r.val = k /\ r.off = at + 1 + Len(k)
      BY <2>6, <3>1
    <3>. HIDE DEF r
    <3>3. s.val = v /\ s.off = at + 1 + Len(k) + 1 + Len(v)
      BY <2>8, <3>2
    <3>4. Body(x) = [kvs |-> Append(x.kvs, <<r.val, s.val>>), off |-> s.off]
      BY DEF r
    <3>. HIDE DEF s, Body
    <3>5. Body(x) = [kvs |-> Append(SubSeq(kvs, 1, i - 1), <<k, v>>),
                     off |-> at + 1 + Len(k) + 1 + Len(v)]
      BY <3>1, <3>2, <3>3, <3>4
    <3>. QED BY <3>5 DEF x
  <2>11. Append(SubSeq(kvs, 1, i - 1), <<k, v>>) = SubSeq(kvs, 1, i)
    BY <1>1, <2>1, PrefixStep
  <2>12. at + 1 + Len(k) + 1 + Len(v) = o + 1 + Len(F[i])
    <3>1. Len(F[i]) = Len(F[i-1]) + Len(seqs[i]) /\ at = o + 1 + Len(F[i-1])
      BY <1>8 DEF at
    <3>. DEFINE a == Len(k)
                b == Len(v)
                c == Len(F[i-1])
                d == Len(F[i])
    <3>2. a \in Nat /\ b \in Nat /\ c \in Nat /\ at = o + 1 + c /\ d = c + (2 + a + b)
      BY <2>1, <2>2, <3>1
    <3>. HIDE DEF a, b, c, d
    <3>3. at + 1 + a + 1 + b = o + 1 + d
      BY <3>2
    <3>. QED BY <3>3 DEF a, b, d
  <2>. QED BY <2>10, <2>11, <2>12
<1>11. G(0) = [kvs |-> <<>>, off |-> o + 1]
  <2>1. SubSeq(kvs, 1, 0) = <<>>
    BY SubSeqEmpty
  <2>. QED BY <1>3, <2>1
<1>12. Eqn(h)
  <2>. DEFINE g == [i \in 0..n |-> G(i)]
  <2>. HIDE DEF G, Body
  <2>1. Eqn(g)
    BY <1>1, <1>10, <1>11
  <2>. QED BY <2>1
<1>. HIDE DEF h
<1>13. h[n] = G(n)
  <2>. HIDE DEF G, Body
  <2>. DEFINE P == {i \in 0..n : h[i] = G(i)}
  <2>1. 0 \in P
    BY <1>1, <1>11, <1>12
  <2>2. ASSUME NEW i \in 1..n, i - 1 \in P PROVE i \in P
    BY <1>1, <1>10, <1>12, <2>2
  <2>3. \A i \in 0..n : i \in P
    <3>. HIDE DEF P
    <3>. QED BY <1>1, <2>1, <2>2, UpTo
  <2>. QED BY <1>1, <2>3
<1>14. SubSeq(kvs, 1, n) = kvs
  BY <1>1, SubSeqFull
<1>15. o + 1 + Len(F[n]) = o + (1 + Len(F[n]))
  <2>1. Len(F[n]) \in Nat
    BY <1>1, <1>3
  <2>. QED BY <2>1, Sums, Zenon
<1>. QED BY <1>5, <1>9, <1>13, <1>14, <1>15

\* What packs a header.
HeaderBytes(kvs) == [i \in DOMAIN kvs |-> Sized(kvs[i][1]) \o <<1>> \o Sized(kvs[i][2])]

LEMMA HeaderIs ==
    ASSUME NEW k \in Texts, NEW v \in Texts
    PROVE  /\ Sized(k) \o <<1>> \o Sized(v) \in Texts
           /\ Len(Sized(k) \o <<1>> \o Sized(v)) = 3 + Len(k) + Len(v)
           /\ \A buf \in Texts, o \in Nat :
                 At(buf, o, Sized(k) \o <<1>> \o Sized(v)) =>
                    /\ At(buf, o, Sized(k)) /\ At(buf, o + 1 + Len(k), <<1>>)
                    /\ At(buf, o + 2 + Len(k), Sized(v))
<1>. DEFINE p == Sized(k)
            q == Sized(v)
            r == p \o <<1>>
            a == Len(k)
            b == Len(v)
<1>1. k \in Seq(Nat) /\ v \in Seq(Nat) /\ a \in Nat /\ b \in Nat
  BY DEF Texts
<1>2. p \in Seq(Nat) /\ q \in Seq(Nat) /\ Len(p) = 1 + a /\ Len(q) = 1 + b
  BY <1>1, SizedIs
<1>3. <<1>> \in Seq(Nat) /\ Len(<<1>>) = 1
  OBVIOUS
<1>. HIDE DEF p, q, a, b
<1>4. r \in Seq(Nat) /\ Len(r) = 2 + a
  <2>1. r \in Seq(Nat) /\ Len(r) = Len(p) + Len(<<1>>)
    BY <1>2, <1>3, ConcatProperties
  <2>. QED BY <1>1, <1>2, <1>3, <2>1
<1>5. r \o q \in Seq(Nat) /\ Len(r \o q) = Len(r) + Len(q)
  BY <1>2, <1>4, ConcatProperties
<1>. HIDE DEF r
<1>6. Len(r \o q) = 3 + a + b
  BY <1>1, <1>2, <1>4, <1>5
<1>7. ASSUME NEW buf \in Seq(Nat), NEW o \in Nat, At(buf, o, r \o q)
      PROVE  At(buf, o, p) /\ At(buf, o + 1 + a, <<1>>) /\ At(buf, o + 2 + a, q)
  <2>1. At(buf, o, r) /\ At(buf, o + Len(r), q)
    BY <1>2, <1>4, <1>7, AtConcat
  <2>2. At(buf, o, p) /\ At(buf, o + Len(p), <<1>>)
    BY <1>2, <1>3, <2>1, AtConcat DEF r
  <2>3. o + Len(r) = o + 2 + a /\ o + Len(p) = o + 1 + a
    BY <1>1, <1>2, <1>4
  <2>. QED BY <2>1, <2>2, <2>3
<1>. QED BY <1>5, <1>6, <1>7 DEF p, q, r, a, b, Texts

LEMMA HeaderBytesAre ==
    ASSUME NEW kvs \in Pairs
    PROVE  /\ kvs \in Seq(Texts \X Texts) /\ Len(kvs) \in Nat
           /\ HeaderBytes(kvs) \in Seq(Texts) /\ Len(HeaderBytes(kvs)) = Len(kvs)
           /\ \A i \in 1..Len(kvs) :
                 /\ kvs[i] = <<kvs[i][1], kvs[i][2]>>
                 /\ kvs[i][1] \in Texts /\ kvs[i][2] \in Texts
                 /\ HeaderBytes(kvs)[i] = Sized(kvs[i][1]) \o <<1>> \o Sized(kvs[i][2])
                 /\ Len(HeaderBytes(kvs)[i]) = 3 + Len(kvs[i][1]) + Len(kvs[i][2])
<1>1. kvs \in Seq(Texts \X Texts) /\ Len(kvs) \in Nat /\ DOMAIN kvs = 1..Len(kvs)
  BY DEF Pairs
<1>2. ASSUME NEW i \in 1..Len(kvs)
      PROVE  /\ kvs[i] = <<kvs[i][1], kvs[i][2]>>
             /\ kvs[i][1] \in Texts /\ kvs[i][2] \in Texts
             /\ Sized(kvs[i][1]) \o <<1>> \o Sized(kvs[i][2]) \in Texts
             /\ Len(Sized(kvs[i][1]) \o <<1>> \o Sized(kvs[i][2])) = 3 + Len(kvs[i][1]) + Len(kvs[i][2])
  <2>1. kvs[i] \in Texts \X Texts
    BY <1>1
  <2>2. kvs[i] = <<kvs[i][1], kvs[i][2]>> /\ kvs[i][1] \in Texts /\ kvs[i][2] \in Texts
    BY <2>1
  <2>. QED BY <2>2, HeaderIs
<1>3. HeaderBytes(kvs) = [i \in 1..Len(kvs) |-> Sized(kvs[i][1]) \o <<1>> \o Sized(kvs[i][2])]
  BY <1>1 DEF HeaderBytes
<1>4. HeaderBytes(kvs) \in [1..Len(kvs) -> Texts]
  BY <1>2, <1>3
<1>5. HeaderBytes(kvs) \in Seq(Texts) /\ Len(HeaderBytes(kvs)) = Len(kvs)
  BY <1>1, <1>4
<1>. QED BY <1>1, <1>2, <1>3, <1>5

LEMMA HeadersAt ==
    ASSUME NEW buf \in Texts, NEW o \in Nat, NEW kvs \in Pairs, At(buf, o, PackHeaders(kvs))
    PROVE  UnpackHeaders(buf, o) = [kvs |-> kvs, off |-> o + Len(PackHeaders(kvs))]
<1>. DEFINE n == Len(kvs)
            seqs == HeaderBytes(kvs)
<1>1. n \in Nat /\ seqs \in Seq(Texts) /\ Len(seqs) = n /\ kvs \in Seq(Texts \X Texts)
  BY HeaderBytesAre
<1>0. seqs \in Seq(Seq(Nat)) /\ buf \in Seq(Nat)
  BY <1>1 DEF Texts
<1>2. PICK F : FlatTable(Nat, seqs, F) /\ FlattenSeq(seqs) = F[n]
  <2>1. seqs \in Seq(Seq(Nat))
    BY <1>1 DEF Texts
  <2>. HIDE DEF seqs, n
  <2>2. PICK f \in [0..Len(seqs) -> Seq(Nat)] :
              /\ f[0] = <<>> /\ \A i \in 1..Len(seqs) : f[i] = f[i-1] \o seqs[i]
              /\ FlattenSeq(seqs) = f[Len(seqs)]
    BY <2>1, Flattens
  <2>. QED BY <1>1, <2>2 DEF FlatTable
<1>. HIDE DEF seqs
<1>3. /\ F \in [0..n -> Seq(Nat)] /\ F[0] = <<>> /\ F[n] \in Seq(Nat)
      /\ \A i \in 0..n : F[i] \in Texts /\ Len(F[i]) \in Nat
  <2>1. F \in [0..n -> Seq(Nat)] /\ F[0] = <<>>
    BY <1>1, <1>2 DEF FlatTable
  <2>2. \A i \in 0..n : F[i] \in Seq(Nat)
    BY <2>1
  <2>3. \A i \in 0..n : Len(F[i]) \in Nat
    BY <2>2
  <2>. QED BY <1>1, <2>1, <2>2, <2>3 DEF Texts
<1>4. PackHeaders(kvs) = <<n>> \o F[n]
  BY <1>2 DEF PackHeaders, HeaderBytes, seqs
<1>5. Len(PackHeaders(kvs)) = 1 + Len(F[n])
  <2>1. <<n>> \in Seq(Nat) /\ Len(<<n>>) = 1
    BY <1>1
  <2>. QED BY <1>3, <1>4, <2>1, ConcatProperties
<1>6. At(buf, o, <<n>>) /\ At(buf, o + 1, F[n])
  <2>. HIDE DEF n
  <2>1. At(buf, o, <<n>> \o F[n]) /\ <<n>> \in Seq(Nat) /\ Len(<<n>>) = 1
    BY <1>1, <1>4
  <2>. QED BY <1>0, <1>3, <2>1, AtConcat
<1>7. buf[o + 1] = n
  BY <1>1, <1>6, CellAt DEF Texts
<1>8. \A i \in 1..n : /\ At(buf, o + 1 + Len(F[i-1]), seqs[i])
                      /\ Len(F[i]) = Len(F[i-1]) + Len(seqs[i])
  <2>. HIDE DEF n
  <2>1. o + 1 \in Nat /\ At(buf, o + 1, F[Len(seqs)]) /\ FlatTable(Nat, seqs, F)
    BY <1>1, <1>2, <1>6
  <2>2. FlatStands(buf, o + 1, seqs, F)
    BY <1>0, <2>1, FlatAt
  <2>. QED BY <1>1, <2>2 DEF FlatStands
<1>. DEFINE G(i) == [kvs |-> SubSeq(kvs, 1, i), off |-> o + 1 + Len(F[i])]
            Body(x) ==
              LET k == Field(buf, x.off)
                  vals[j \in 0..buf[k.off + 1]] ==
                     IF j = 0 THEN [kvs |-> x.kvs, off |-> k.off + 1]
                     ELSE LET v == Field(buf, vals[j-1].off)
                          IN  [kvs |-> Append(vals[j-1].kvs, <<k.val, v.val>>), off |-> v.off]
              IN  vals[buf[k.off + 1]]
            Eqn(g) == g = [i \in 0..n |-> IF i = 0 THEN [kvs |-> <<>>, off |-> o + 1]
                                          ELSE Body(g[i-1])]
            h == CHOOSE g : Eqn(g)
<1>9. UnpackHeaders(buf, o) = h[n]
  BY <1>7 DEF UnpackHeaders
<1>10. ASSUME NEW i \in 1..n PROVE Body(G(i-1)) = G(i)
  <2>. DEFINE k == kvs[i][1]
              v == kvs[i][2]
              at == o + 1 + Len(F[i-1])
              x == G(i-1)
              r == Field(buf, x.off)
              s == Field(buf, r.off + 1)
              b0 == [kvs |-> x.kvs, off |-> r.off + 1]
              b1 == [kvs |-> Append(x.kvs, <<r.val, s.val>>), off |-> s.off]
              Step(y) == LET w == Field(buf, y.off)
                         IN  [kvs |-> Append(y.kvs, <<r.val, w.val>>), off |-> w.off]
              VEqn(g) == g = [j \in 0..buf[r.off + 1] |-> IF j = 0 THEN b0 ELSE Step(g[j-1])]
              vals == CHOOSE g : VEqn(g)
  <2>1. /\ kvs[i] = <<k, v>> /\ k \in Texts /\ v \in Texts
        /\ seqs[i] = Sized(k) \o <<1>> \o Sized(v) /\ Len(seqs[i]) = 3 + Len(k) + Len(v)
    BY HeaderBytesAre DEF seqs
  <2>2. F[i-1] \in Texts /\ Len(F[i-1]) \in Nat /\ at \in Nat /\ Len(k) \in Nat /\ Len(v) \in Nat
    <3>1. i - 1 \in 0..n
      BY <1>1
    <3>2. F[i-1] \in Texts /\ Len(F[i-1]) \in Nat
      BY <1>3, <3>1
    <3>3. Len(k) \in Nat /\ Len(v) \in Nat
      BY <2>1 DEF Texts
    <3>. HIDE DEF k, v
    <3>4. at \in Nat
      BY <3>2, Sums, Zenon
    <3>. QED BY <3>2, <3>3, <3>4
  <2>3. x.off = at /\ x.kvs = SubSeq(kvs, 1, i - 1)
    OBVIOUS
  <2>4. Body(x) = vals[buf[r.off + 1]]
    <3>. HIDE DEF G, x
    <3>. QED OBVIOUS
  <2>5. Step(b0) = b1
    <3>. HIDE DEF x, r
    <3>. QED OBVIOUS
  <2>. HIDE DEF k, v, at, x, b0, b1, Step
  <2>6. At(buf, at, Sized(k)) /\ At(buf, at + 1 + Len(k), <<1>>) /\ At(buf, at + 2 + Len(k), Sized(v))
    <3>1. At(buf, at, Sized(k) \o <<1>> \o Sized(v))
      BY <1>8, <2>1 DEF at
    <3>. QED BY <2>1, <2>2, <3>1, HeaderIs
  <2>7. r = [val |-> k, off |-> at + 1 + Len(k)]
    BY <1>0, <2>1, <2>2, <2>3, <2>6, FieldAt DEF Texts
  <2>8. at + 1 + Len(k) \in Nat /\ at + 1 + Len(k) + 1 = at + 2 + Len(k) /\ at + 2 + Len(k) \in Nat
    <3>. DEFINE a == Len(k)
    <3>1. a \in Nat
      BY <2>2
    <3>. HIDE DEF a
    <3>2. at + 1 + a \in Nat /\ at + 1 + a + 1 = at + 2 + a /\ at + 2 + a \in Nat
      BY <2>2, <3>1
    <3>. QED BY <3>2 DEF a
  <2>9. r.val = k /\ r.off = at + 1 + Len(k) /\ r.off + 1 = at + 2 + Len(k) /\ r.off \in Nat
    BY <2>7, <2>8
  <2>10. buf[r.off + 1] = 1
    BY <1>0, <2>6, <2>9, CellAt
  <2>11. s = [val |-> v, off |-> at + 2 + Len(k) + 1 + Len(v)]
    <3>. DEFINE a == at + 2 + Len(k)
    <3>1. a \in Nat /\ At(buf, a, Sized(v)) /\ v \in Seq(Nat) /\ r.off + 1 = a
      BY <2>1, <2>6, <2>8, <2>9 DEF Texts
    <3>. HIDE DEF a, r
    <3>2. Field(buf, a) = [val |-> v, off |-> a + 1 + Len(v)]
      BY <1>0, <3>1, FieldAt
    <3>. QED BY <3>1, <3>2 DEF a
  <2>12. vals[1] = b1
    <3>. DEFINE m == buf[r.off + 1]
    <3>1. m = 1
      BY <2>10
    <3>. HIDE DEF m
    <3>. DEFINE g == [j \in 0..m |-> IF j = 0 THEN b0 ELSE Step(b0)]
    <3>2. VEqn(g)
      BY <3>1 DEF m
    <3>. HIDE DEF g
    <3>3. VEqn(vals)
      BY <3>2
    <3>. HIDE DEF vals
    <3>4. vals = [j \in 0..1 |-> IF j = 0 THEN b0 ELSE Step(vals[j-1])]
      BY <3>1, <3>3 DEF m
    <3>5. vals[0] = b0 /\ vals[1] = Step(vals[1-1])
      BY <3>4
    <3>6. vals[1] = Step(vals[0])
      BY <3>5
    <3>. QED BY <2>5, <3>5, <3>6
  <2>. HIDE DEF vals
  <2>13. Body(x) = b1
    BY <2>4, <2>10, <2>12
  <2>. HIDE DEF Body
  <2>14. b1 = [kvs |-> Append(SubSeq(kvs, 1, i - 1), <<k, v>>),
               off |-> at + 2 + Len(k) + 1 + Len(v)]
    <3>. HIDE DEF r, s
    <3>1. r.val = k /\ s.val = v /\ s.off = at + 2 + Len(k) + 1 + Len(v)
      BY <2>9, <2>11
    <3>. QED BY <2>3, <3>1 DEF b1
  <2>15. Append(SubSeq(kvs, 1, i - 1), <<k, v>>) = SubSeq(kvs, 1, i)
    BY <1>1, <2>1, PrefixStep
  <2>16. at + 2 + Len(k) + 1 + Len(v) = o + 1 + Len(F[i])
    <3>1. Len(F[i]) = Len(F[i-1]) + Len(seqs[i]) /\ at = o + 1 + Len(F[i-1])
      BY <1>8 DEF at
    <3>. DEFINE a == Len(k)
                b == Len(v)
                c == Len(F[i-1])
                d == Len(F[i])
    <3>2. a \in Nat /\ b \in Nat /\ c \in Nat /\ at = o + 1 + c /\ d = c + (3 + a + b)
      BY <2>1, <2>2, <3>1
    <3>. HIDE DEF a, b, c, d
    <3>3. at + 2 + a + 1 + b = o + 1 + d
      BY <3>2
    <3>. QED BY <3>3 DEF a, b, d
  <2>. QED BY <2>13, <2>14, <2>15, <2>16 DEF x
<1>11. G(0) = [kvs |-> <<>>, off |-> o + 1]
  <2>1. SubSeq(kvs, 1, 0) = <<>>
    BY SubSeqEmpty
  <2>. QED BY <1>3, <2>1
<1>12. Eqn(h)
  <2>. DEFINE g == [i \in 0..n |-> G(i)]
  <2>. HIDE DEF G, Body
  <2>1. Eqn(g)
    BY <1>1, <1>10, <1>11
  <2>. QED BY <2>1
<1>. HIDE DEF h
<1>13. h[n] = G(n)
  <2>. HIDE DEF G, Body
  <2>. DEFINE P == {i \in 0..n : h[i] = G(i)}
  <2>1. 0 \in P
    BY <1>1, <1>11, <1>12
  <2>2. ASSUME NEW i \in 1..n, i - 1 \in P PROVE i \in P
    BY <1>1, <1>10, <1>12, <2>2
  <2>3. \A i \in 0..n : i \in P
    <3>. HIDE DEF P
    <3>. QED BY <1>1, <2>1, <2>2, UpTo
  <2>. QED BY <1>1, <2>3
<1>14. SubSeq(kvs, 1, n) = kvs
  BY <1>1, SubSeqFull
<1>15. o + 1 + Len(F[n]) = o + (1 + Len(F[n]))
  <2>1. Len(F[n]) \in Nat
    BY <1>1, <1>3
  <2>. QED BY <2>1, Sums, Zenon
<1>. QED BY <1>5, <1>9, <1>13, <1>14, <1>15

\* PairsSize goes through these sums.
LEMMA PairsSizeTable ==
    ASSUME NEW kvs \in Pairs, NEW k \in Nat
    PROVE  \E h \in [0..Len(kvs) -> Nat] :
              /\ h[0] = 0 /\ PairsSize(kvs, k) = h[Len(kvs)] /\ h[Len(kvs)] \in Nat
              /\ \A i \in 1..Len(kvs) : h[i] = h[i-1] + k + Len(kvs[i][1]) + Len(kvs[i][2])
<1>. DEFINE n == Len(kvs)
            T == Nat
            base == 0
            Body(i, x) == x + k + Len(kvs[i][1]) + Len(kvs[i][2])
            Eqn(g) == g = [i \in 0..n |-> IF i = 0 THEN base ELSE Body(i, g[i-1])]
            step == [i \in 1..n |-> [x \in T |-> Body(i, x)]]
            h == CHOOSE g : Eqn(g)
<1>1. n \in Nat /\ base \in T
  BY PairBytesAre
<1>2. ASSUME NEW i \in 1..n, NEW x \in T PROVE Body(i, x) \in T
  <2>1. Len(kvs[i][1]) \in Nat /\ Len(kvs[i][2]) \in Nat
    BY PairBytesAre DEF Texts
  <2>. DEFINE a == Len(kvs[i][1])
              b == Len(kvs[i][2])
  <2>2. a \in Nat /\ b \in Nat
    BY <2>1
  <2>. HIDE DEF a, b
  <2>3. x + k + a + b \in Nat
    BY <1>2, <2>2
  <2>. QED BY <2>3 DEF a, b
<1>3. PairsSize(kvs, k) = h[n]
  BY DEF PairsSize
<1>4. h \in [0..n -> T] /\ h[n] \in T /\ h[0] = base /\ \A i \in 1..n : h[i] = Body(i, h[i-1])
  <2>. HIDE DEF n, T, base, Body
  <2>1. StepFunctions(n, T, base, step)
    BY <1>1, <1>2 DEF StepFunctions
  <2>2. \A i \in 1..n, x \in T : step[i][x] = Body(i, x)
    OBVIOUS
  <2>3. TakesThem(n, T, base, step, h)
    <3>. SUFFICES ASSUME NEW f \in [0..n -> T], Steps(n, base, step, f)
                  PROVE  /\ h = [i \in 0..n |-> h[i]] /\ h[0] = base
                         /\ \A i \in 1..n : h[i-1] \in T => h[i] = step[i][h[i-1]]
      BY DEF TakesThem
    <3>1. f[0] = base /\ \A i \in 1..n : f[i] = Body(i, f[i-1])
      <4>. HIDE DEF step
      <4>. QED BY <1>1, <2>2 DEF Steps
    <3>2. Eqn(f)
      BY <1>1, <3>1
    <3>3. Eqn(h)
      BY <3>2
    <3>. HIDE DEF h, step
    <3>. QED BY <1>1, <2>2, <3>3
  <2>. HIDE DEF step, h
  <2>4. TableOf(n, T, base, step, h)
    BY <2>1, <2>3, Recursive
  <2>5. \A i \in 1..n : h[i-1] \in T
    BY <1>1, <2>4 DEF TableOf
  <2>. QED BY <2>2, <2>4, <2>5 DEF TableOf, Steps
<1>. QED
  <2>. HIDE DEF h
  <2>. QED BY <1>3, <1>4

LEMMA FlatLength ==
    ASSUME NEW seqs \in Seq(Texts), NEW h \in [0..Len(seqs) -> Nat], h[0] = 0,
           \A i \in 1..Len(seqs) : h[i] = h[i-1] + Len(seqs[i])
    PROVE  FlattenSeq(seqs) \in Texts /\ Len(FlattenSeq(seqs)) = h[Len(seqs)]
<1>1. seqs \in Seq(Seq(Nat)) /\ Len(seqs) \in Nat
  BY DEF Texts
<1>2. PICK F \in [0..Len(seqs) -> Seq(Nat)] :
              /\ F[0] = <<>> /\ \A i \in 1..Len(seqs) : F[i] = F[i-1] \o seqs[i]
              /\ FlattenSeq(seqs) = F[Len(seqs)]
  BY <1>1, Flattens
<1>. DEFINE n == Len(seqs)
            P == {i \in 0..n : Len(F[i]) = h[i]}
<1>3. n \in Nat
  BY <1>1
<1>. HIDE DEF n
<1>4. 0 \in P
  <2>1. Len(<<>>) = 0
    OBVIOUS
  <2>. QED BY <1>2, <1>3, <2>1 DEF n
<1>5. ASSUME NEW i \in 1..n, i - 1 \in P PROVE i \in P
  <2>1. i \in 0..n /\ i - 1 \in 0..n
    BY <1>3
  <2>2. F[i-1] \in Seq(Nat) /\ seqs[i] \in Seq(Nat)
    <3>1. F \in [0..n -> Seq(Nat)] /\ i \in 1..Len(seqs)
      BY DEF n
    <3>2. F[i-1] \in Seq(Nat)
      BY <2>1, <3>1
    <3>. QED BY <1>1, <3>1, <3>2
  <2>3. F[i] = F[i-1] \o seqs[i] /\ h[i] = h[i-1] + Len(seqs[i])
    BY <1>2 DEF n
  <2>4. Len(F[i]) = Len(F[i-1]) + Len(seqs[i])
    BY <2>2, <2>3, ConcatProperties
  <2>5. Len(F[i-1]) = h[i-1]
    BY <1>5
  <2>. QED BY <2>1, <2>3, <2>4, <2>5
<1>6. \A i \in 0..n : i \in P
  <2>. HIDE DEF P
  <2>. QED BY <1>3, <1>4, <1>5, UpTo
<1>7. Len(F[n]) = h[n] /\ F[n] \in Seq(Nat)
  <2>1. n \in 0..n
    BY <1>3
  <2>. QED BY <1>6, <2>1 DEF n
<1>. QED BY <1>2, <1>7 DEF n, Texts

LEMMA PairsSized ==
    ASSUME NEW kvs \in Pairs
    PROVE  /\ PackPairs(kvs) \in Texts /\ PackHeaders(kvs) \in Texts
           /\ Len(PackPairs(kvs)) = 1 + PairsSize(kvs, 2) /\ PairsSize(kvs, 2) \in Nat
           /\ Len(PackHeaders(kvs)) = 1 + PairsSize(kvs, 3) /\ PairsSize(kvs, 3) \in Nat
<1>1. ASSUME NEW c \in Nat, NEW seqs \in Seq(Texts), Len(seqs) = Len(kvs),
             \A i \in 1..Len(kvs) : Len(seqs[i]) = c + Len(kvs[i][1]) + Len(kvs[i][2])
      PROVE  /\ FlattenSeq(seqs) \in Texts /\ Len(FlattenSeq(seqs)) = PairsSize(kvs, c)
             /\ PairsSize(kvs, c) \in Nat
  <2>1. PICK h \in [0..Len(kvs) -> Nat] :
              /\ h[0] = 0 /\ PairsSize(kvs, c) = h[Len(kvs)] /\ h[Len(kvs)] \in Nat
              /\ \A i \in 1..Len(kvs) : h[i] = h[i-1] + c + Len(kvs[i][1]) + Len(kvs[i][2])
    BY PairsSizeTable
  <2>2. ASSUME NEW i \in 1..Len(seqs) PROVE h[i] = h[i-1] + Len(seqs[i])
    <3>. DEFINE a == Len(kvs[i][1])
                b == Len(kvs[i][2])
                x == h[i-1]
    <3>1. a \in Nat /\ b \in Nat
      BY <1>1, PairBytesAre DEF Texts
    <3>2. x \in Nat
      <4>1. i - 1 \in 0..Len(kvs)
        BY <1>1, PairBytesAre
      <4>. QED BY <4>1
    <3>3. h[i] = x + c + a + b /\ Len(seqs[i]) = c + a + b
      BY <1>1, <2>1
    <3>. HIDE DEF a, b, x
    <3>4. h[i] = x + Len(seqs[i])
      BY <3>1, <3>2, <3>3
    <3>. QED BY <3>4 DEF x
  <2>3. h \in [0..Len(seqs) -> Nat]
    BY <1>1
  <2>4. FlattenSeq(seqs) \in Texts /\ Len(FlattenSeq(seqs)) = h[Len(seqs)]
    BY <2>1, <2>2, <2>3, FlatLength
  <2>. QED BY <1>1, <2>1, <2>4
<1>. DEFINE ps == PairBytes(kvs)
            hs == HeaderBytes(kvs)
<1>2. /\ ps \in Seq(Texts) /\ Len(ps) = Len(kvs)
      /\ \A i \in 1..Len(kvs) : Len(ps[i]) = 2 + Len(kvs[i][1]) + Len(kvs[i][2])
  BY PairBytesAre
<1>3. /\ hs \in Seq(Texts) /\ Len(hs) = Len(kvs)
      /\ \A i \in 1..Len(kvs) : Len(hs[i]) = 3 + Len(kvs[i][1]) + Len(kvs[i][2])
  BY HeaderBytesAre
<1>4. PackPairs(kvs) = <<Len(kvs)>> \o FlattenSeq(ps) /\ PackHeaders(kvs) = <<Len(kvs)>> \o FlattenSeq(hs)
  BY DEF PackPairs, PackHeaders, PairBytes, HeaderBytes
<1>5. <<Len(kvs)>> \in Seq(Nat) /\ Len(<<Len(kvs)>>) = 1
  BY PairBytesAre
<1>. HIDE DEF ps, hs
<1>6. /\ FlattenSeq(ps) \in Seq(Nat) /\ Len(FlattenSeq(ps)) = PairsSize(kvs, 2) /\ PairsSize(kvs, 2) \in Nat
      /\ FlattenSeq(hs) \in Seq(Nat) /\ Len(FlattenSeq(hs)) = PairsSize(kvs, 3) /\ PairsSize(kvs, 3) \in Nat
  BY <1>1, <1>2, <1>3 DEF Texts
<1>7. ASSUME NEW s \in Seq(Nat), NEW t \in Seq(Nat), Len(s) = 1
      PROVE  s \o t \in Texts /\ Len(s \o t) = 1 + Len(t)
  BY ZenonT(30), <1>7, ConcatProperties DEF Texts
<1>. QED BY <1>4, <1>5, <1>6, <1>7

\* What a payload is made of.
Told == [path : Texts, query : Texts, asked : Pairs, status : Nat, headers : Pairs, body : Texts]

LEMMA ConcatLen ==
    ASSUME NEW s \in Seq(Nat), NEW t \in Seq(Nat)
    PROVE  s \o t \in Seq(Nat) /\ Len(s \o t) = Len(s) + Len(t)
BY ConcatProperties

LEMMA PackIs ==
    ASSUME NEW t \in Told
    PROVE  /\ Pack(t) \in Texts /\ Len(Pack(t)) = Total(t) /\ UnpackPayload(Pack(t)) = t
<1>. DEFINE a == Sized(t.path)
            b == Sized(t.query)
            c == PackPairs(t.asked)
            d == <<t.status>>
            e == PackHeaders(t.headers)
            f == Sized(t.body)
            na == Len(t.path)
            nb == Len(t.query)
            nc == PairsSize(t.asked, 2)
            ne == PairsSize(t.headers, 3)
            nf == Len(t.body)
            buf == Pack(t)
<1>1. /\ t.path \in Seq(Nat) /\ t.query \in Seq(Nat) /\ t.body \in Seq(Nat)
      /\ t.asked \in Pairs /\ t.headers \in Pairs /\ t.status \in Nat
      /\ t = [path |-> t.path, query |-> t.query, asked |-> t.asked,
              status |-> t.status, headers |-> t.headers, body |-> t.body]
  BY DEF Told, Texts
<1>2. na \in Nat /\ nb \in Nat /\ nf \in Nat
  BY <1>1
<1>3. /\ a \in Seq(Nat) /\ Len(a) = 1 + na /\ b \in Seq(Nat) /\ Len(b) = 1 + nb
      /\ f \in Seq(Nat) /\ Len(f) = 1 + nf
  BY <1>1, SizedIs
<1>4. /\ c \in Seq(Nat) /\ Len(c) = 1 + nc /\ nc \in Nat
      /\ e \in Seq(Nat) /\ Len(e) = 1 + ne /\ ne \in Nat
  BY <1>1, PairsSized DEF Texts
<1>5. d \in Seq(Nat) /\ Len(d) = 1
  BY <1>1
<1>6. buf = a \o b \o c \o d \o e \o f
  BY DEF Pack
<1>7. Total(t) = (1 + na) + (1 + nb) + 1 + nc + 1 + 1 + ne + (1 + nf)
  BY DEF Total
<1>. HIDE DEF a, b, c, d, e, f, na, nb, nc, ne, nf, buf
<1>. DEFINE ab == a \o b
            abc == ab \o c
            abcd == abc \o d
            abcde == abcd \o e
<1>. HIDE DEF ab, abc, abcd, abcde
<1>8. ab \in Seq(Nat) /\ Len(ab) = 2 + na + nb
  <2>1. a \o b \in Seq(Nat) /\ Len(a \o b) = (1 + na) + (1 + nb)
    BY <1>3, ConcatLen
  <2>2. (1 + na) + (1 + nb) = 2 + na + nb
    BY <1>2, <1>4
  <2>. QED BY <2>1, <2>2 DEF ab
<1>9. abc \in Seq(Nat) /\ Len(abc) = 3 + na + nb + nc
  <2>1. ab \o c \in Seq(Nat) /\ Len(ab \o c) = (2 + na + nb) + (1 + nc)
    BY <1>4, <1>8, ConcatLen
  <2>2. (2 + na + nb) + (1 + nc) = 3 + na + nb + nc
    BY <1>2, <1>4
  <2>. QED BY <2>1, <2>2 DEF abc
<1>10. abcd \in Seq(Nat) /\ Len(abcd) = 4 + na + nb + nc
  <2>1. abc \o d \in Seq(Nat) /\ Len(abc \o d) = (3 + na + nb + nc) + (1)
    BY <1>5, <1>9, ConcatLen
  <2>2. (3 + na + nb + nc) + (1) = 4 + na + nb + nc
    BY <1>2, <1>4
  <2>. QED BY <2>1, <2>2 DEF abcd
<1>11. abcde \in Seq(Nat) /\ Len(abcde) = 5 + na + nb + nc + ne
  <2>1. abcd \o e \in Seq(Nat) /\ Len(abcd \o e) = (4 + na + nb + nc) + (1 + ne)
    BY <1>4, <1>10, ConcatLen
  <2>2. (4 + na + nb + nc) + (1 + ne) = 5 + na + nb + nc + ne
    BY <1>2, <1>4
  <2>. QED BY <2>1, <2>2 DEF abcde
<1>12. buf = abcde \o f
  BY <1>6 DEF ab, abc, abcd, abcde
<1>13. buf \in Seq(Nat) /\ Len(buf) = 6 + na + nb + nc + ne + nf
  <2>1. abcde \o f \in Seq(Nat) /\ Len(abcde \o f) = (5 + na + nb + nc + ne) + (1 + nf)
    BY <1>3, <1>11, ConcatLen
  <2>2. (5 + na + nb + nc + ne) + (1 + nf) = 6 + na + nb + nc + ne + nf
    BY <1>2, <1>4
  <2>. QED BY <2>1, <2>2, <1>12
<1>14. Len(buf) = Total(t)
  BY <1>2, <1>4, <1>7, <1>13
<1>15. /\ At(buf, 0, a) /\ At(buf, 1 + na, b) /\ At(buf, 2 + na + nb, c)
       /\ At(buf, 3 + na + nb + nc, d) /\ At(buf, 4 + na + nb + nc, e)
       /\ At(buf, 5 + na + nb + nc + ne, f)
  <2>1. \A n \in Nat : 0 + n = n
    OBVIOUS
  <2>2. At(buf, 0, abcde \o f)
    BY <1>12, <1>13, AtWhole
  <2>3. At(buf, 0, abcde) /\ At(buf, 0 + Len(abcde), f)
    BY <1>3, <1>11, <1>13, <2>2, AtConcat
  <2>4. At(buf, 0, abcd) /\ At(buf, 0 + Len(abcd), e)
    BY <1>4, <1>10, <1>13, <2>3, AtConcat DEF abcde
  <2>5. At(buf, 0, abc) /\ At(buf, 0 + Len(abc), d)
    BY <1>5, <1>9, <1>13, <2>4, AtConcat DEF abcd
  <2>6. At(buf, 0, ab) /\ At(buf, 0 + Len(ab), c)
    BY <1>4, <1>8, <1>13, <2>5, AtConcat DEF abc
  <2>7. At(buf, 0, a) /\ At(buf, 0 + Len(a), b)
    BY <1>3, <1>13, <2>6, AtConcat DEF ab
  <2>8. /\ 0 + Len(a) = 1 + na /\ 0 + Len(ab) = 2 + na + nb /\ 0 + Len(abc) = 3 + na + nb + nc
        /\ 0 + Len(abcd) = 4 + na + nb + nc /\ 0 + Len(abcde) = 5 + na + nb + nc + ne
    BY <1>2, <1>3, <1>4, <1>8, <1>9, <1>10, <1>11
  <2>. QED BY <2>3, <2>4, <2>5, <2>6, <2>7, <2>8
<1>16. /\ 1 + na \in Nat /\ 2 + na + nb \in Nat /\ 3 + na + nb + nc \in Nat
       /\ 4 + na + nb + nc \in Nat /\ 5 + na + nb + nc + ne \in Nat
  BY <1>2, <1>4
<1>17. Field(buf, 0) = [val |-> t.path, off |-> 1 + na]
  <2>1. Field(buf, 0) = [val |-> t.path, off |-> 0 + 1 + Len(t.path)]
    BY ZenonT(30), <1>1, <1>13, <1>15, FieldAt DEF a
  <2>2. 0 + 1 + Len(t.path) = 1 + na
    BY <1>2 DEF na
  <2>. QED BY <2>1, <2>2
<1>18. Field(buf, 1 + na) = [val |-> t.query, off |-> 2 + na + nb]
  <2>1. Field(buf, 1 + na) = [val |-> t.query, off |-> 1 + na + 1 + Len(t.query)]
    BY <1>1, <1>13, <1>15, <1>16, FieldAt DEF b
  <2>2. 1 + na + 1 + nb = 2 + na + nb
    BY <1>2
  <2>. QED BY <2>1, <2>2 DEF nb
<1>19. UnpackPairs(buf, 2 + na + nb) = [kvs |-> t.asked, off |-> 3 + na + nb + nc]
  <2>1. UnpackPairs(buf, 2 + na + nb) = [kvs |-> t.asked, off |-> 2 + na + nb + Len(PackPairs(t.asked))]
    BY <1>1, <1>13, <1>15, <1>16, PairsAt DEF c, Texts
  <2>2. 2 + na + nb + Len(c) = 3 + na + nb + nc
    BY <1>2, <1>4
  <2>. QED BY <2>1, <2>2 DEF c
<1>20. buf[3 + na + nb + nc + 1] = t.status
  BY <1>1, <1>13, <1>15, <1>16, CellAt DEF d
<1>21. UnpackHeaders(buf, 4 + na + nb + nc) = [kvs |-> t.headers, off |-> 5 + na + nb + nc + ne]
  <2>1. UnpackHeaders(buf, 4 + na + nb + nc)
          = [kvs |-> t.headers, off |-> 4 + na + nb + nc + Len(PackHeaders(t.headers))]
    BY <1>1, <1>13, <1>15, <1>16, HeadersAt DEF e, Texts
  <2>2. 4 + na + nb + nc + Len(e) = 5 + na + nb + nc + ne
    BY <1>2, <1>4
  <2>. QED BY <2>1, <2>2 DEF e
<1>22. SubSeq(buf, 5 + na + nb + nc + ne + 2, Len(buf)) = t.body
  <2>. DEFINE o == 5 + na + nb + nc + ne
  <2>1. Field(buf, o) = [val |-> t.body, off |-> o + 1 + Len(t.body)]
    BY <1>1, <1>13, <1>15, <1>16, FieldAt DEF f
  <2>2. buf[o + 1] = Len(t.body)
    <3>. DEFINE one == <<Len(t.body)>>
    <3>1. one \in Seq(Nat) /\ f = one \o t.body
      BY <1>1 DEF f, Sized
    <3>2. At(buf, o, f) /\ o \in Nat
      BY <1>15, <1>16
    <3>. HIDE DEF o, one
    <3>3. At(buf, o, one)
      BY <1>1, <1>13, <3>1, <3>2, AtConcat
    <3>. QED BY SMTT(30), <1>1, <1>13, <3>2, <3>3, CellAt DEF one
  <2>3. SubSeq(buf, o + 2, o + 1 + buf[o + 1]) = t.body
    <3>. HIDE DEF o
    <3>. QED BY <2>1 DEF Field
  <2>4. o + 1 + nf = Len(buf)
    BY <1>2, <1>4, <1>13
  <2>. HIDE DEF o
  <2>5. SubSeq(buf, o + 2, Len(buf)) = t.body
    BY <2>2, <2>3, <2>4 DEF nf
  <2>. QED BY <2>5 DEF o
<1>23. UnpackPayload(buf) = t
  <2>. DEFINE path  == Field(buf, 0)
              query == Field(buf, path.off)
              asked == UnpackPairs(buf, query.off)
              hs    == UnpackHeaders(buf, asked.off + 1)
  <2>1. UnpackPayload(buf) =
          [path |-> path.val, query |-> query.val, asked |-> asked.kvs,
           status |-> buf[asked.off + 1], headers |-> hs.kvs,
           body |-> SubSeq(buf, hs.off + 2, Len(buf))]
    BY DEF UnpackPayload
  <2>2. path.val = t.path /\ path.off = 1 + na
    BY <1>17
  <2>. HIDE DEF path
  <2>3. query.val = t.query /\ query.off = 2 + na + nb
    BY <1>18, <2>2
  <2>. HIDE DEF query
  <2>4. asked.kvs = t.asked /\ asked.off = 3 + na + nb + nc
    BY <1>19, <2>3
  <2>. HIDE DEF asked
  <2>5. asked.off + 1 = 4 + na + nb + nc
    BY <1>2, <1>4, <2>4
  <2>6. hs.kvs = t.headers /\ hs.off = 5 + na + nb + nc + ne
    BY <1>21, <2>5
  <2>. HIDE DEF hs
  <2>7. buf[asked.off + 1] = t.status /\ SubSeq(buf, hs.off + 2, Len(buf)) = t.body
    BY <1>20, <1>22, <2>4, <2>6
  <2>. QED BY <1>1, <2>1, <2>2, <2>3, <2>4, <2>6, <2>7
<1>. QED BY <1>13, <1>14, <1>23 DEF buf, Texts

\* An entry as it is dumped; its other fields are each one cell.
Shaped(e) ==
    /\ e.rule \in Texts /\ e.payload \in Texts
    /\ e = [rule |-> e.rule, key |-> e.key, shard |-> e.shard, fp |-> e.fp, payload |-> e.payload,
            compressed |-> e.compressed, updatedAt |-> e.updatedAt]

LEMMA DumpIs ==
    ASSUME NEW e, Shaped(e)
    PROVE  ToBytes(e) # <<>> /\ EntryFromBytes(ToBytes(e)) = e
<1>. DEFINE C == Nat \cup {e.key, e.shard, e.fp, e.compressed, e.updatedAt}
            a == Sized(e.rule)
            b == <<e.key, e.shard, e.fp, e.compressed, e.updatedAt>>
            c == Sized(e.payload)
            n == Len(e.rule)
            buf == ToBytes(e)
            ab == a \o b
<1>1. e.rule \in Seq(C) /\ e.payload \in Seq(C) /\ n \in Nat /\ Nat \subseteq C
  BY SMTT(30) DEF Shaped, Texts
<1>2. a \in Seq(C) /\ Len(a) = 1 + n /\ c \in Seq(C)
  <2>. HIDE DEF C
  <2>. QED BY <1>1, SizedIs
<1>3. /\ b \in Seq(C) /\ Len(b) = 5
      /\ b[1] = e.key /\ b[2] = e.shard /\ b[3] = e.fp /\ b[4] = e.compressed /\ b[5] = e.updatedAt
  OBVIOUS
<1>4. buf = ab \o c
  BY DEF ToBytes
<1>. HIDE DEF C, a, b, c, n, buf
<1>5. ab \in Seq(C) /\ Len(ab) = 6 + n
  <2>1. ab \in Seq(C) /\ Len(ab) = Len(a) + Len(b)
    BY <1>2, <1>3, ConcatProperties
  <2>. HIDE DEF ab
  <2>. QED BY <1>1, <1>2, <1>3, <2>1
<1>6. buf \in Seq(C) /\ Len(buf) = Len(ab) + Len(c)
  BY <1>2, <1>4, <1>5, ConcatProperties
<1>. HIDE DEF ab
<1>7. At(buf, 0, a) /\ At(buf, 1 + n, b) /\ At(buf, 6 + n, c)
  <2>1. At(buf, 0, ab \o c)
    BY <1>4, <1>6, AtWhole
  <2>2. At(buf, 0, ab) /\ At(buf, 0 + Len(ab), c)
    BY <1>2, <1>5, <1>6, <2>1, AtConcat
  <2>3. At(buf, 0, a) /\ At(buf, 0 + Len(a), b)
    BY <1>2, <1>3, <1>6, <2>2, AtConcat DEF ab
  <2>4. 0 + Len(a) = 1 + n /\ 0 + Len(ab) = 6 + n
    BY <1>1, <1>2, <1>5
  <2>. QED BY <2>2, <2>3, <2>4
<1>8. Field(buf, 0) = [val |-> e.rule, off |-> 1 + n]
  <2>1. Field(buf, 0) = [val |-> e.rule, off |-> 0 + 1 + Len(e.rule)]
    BY <1>1, <1>6, <1>7, FieldAt DEF a
  <2>2. 0 + 1 + n = 1 + n
    BY <1>1
  <2>. QED BY <2>1, <2>2 DEF n
<1>. DEFINE o == 1 + n
<1>9. o \in Nat /\ o + 5 = 6 + n
  BY <1>1
<1>10. \A j \in 1..5 : buf[o + j] = b[j]
  BY <1>3, <1>7 DEF At
<1>. HIDE DEF o
<1>11. Field(buf, o + 5).val = e.payload
  <2>1. Field(buf, 6 + n) = [val |-> e.payload, off |-> 6 + n + 1 + Len(e.payload)]
    <3>1. 6 + n \in Nat
      BY <1>1
    <3>. QED BY <1>1, <1>6, <1>7, <3>1, FieldAt DEF c
  <2>. QED BY <1>9, <2>1
<1>12. /\ buf[o + 1] = e.key /\ buf[o + 2] = e.shard /\ buf[o + 3] = e.fp
       /\ buf[o + 4] = e.compressed /\ buf[o + 5] = e.updatedAt
  BY <1>3, <1>10
<1>13. EntryFromBytes(buf) = e
  <2>. DEFINE rule == Field(buf, 0)
              p == rule.off
  <2>1. EntryFromBytes(buf) =
          [rule |-> rule.val, key |-> buf[p + 1], shard |-> buf[p + 2], fp |-> buf[p + 3],
           compressed |-> buf[p + 4], updatedAt |-> buf[p + 5], payload |-> Field(buf, p + 5).val]
    BY DEF EntryFromBytes
  <2>2. rule.val = e.rule /\ p = o
    BY <1>8 DEF o
  <2>. HIDE DEF rule, p
  <2>3. EntryFromBytes(buf) =
          [rule |-> e.rule, key |-> e.key, shard |-> e.shard, fp |-> e.fp,
           compressed |-> e.compressed, updatedAt |-> e.updatedAt, payload |-> e.payload]
    BY <1>11, <1>12, <2>1, <2>2
  <2>. QED BY <2>3 DEF Shaped
<1>14. buf # <<>>
  BY <1>1, <1>5, <1>6, <1>2, LenProperties
<1>. QED BY <1>13, <1>14 DEF buf

\* Segments goes through these lists of parts.
LEMMA SegmentsTable ==
    ASSUME NEW q \in Texts
    PROVE  \E h \in [0..Len(q) -> Seq(Texts) \ {<<>>}] :
              /\ h[0] = <<<<>>>> /\ Segments(q) = h[Len(q)] /\ h[Len(q)] \in Seq(Texts) \ {<<>>}
              /\ \A i \in 1..Len(q) : h[i] =
                   IF q[i] = Amp THEN Append(h[i-1], <<>>)
                   ELSE [h[i-1] EXCEPT ![Len(h[i-1])] = Append(@, q[i])]
<1>. DEFINE n == Len(q)
            T == Seq(Texts) \ {<<>>}
            base == <<<<>>>>
            Body(i, x) == IF q[i] = Amp THEN Append(x, <<>>) ELSE [x EXCEPT ![Len(x)] = Append(@, q[i])]
            Eqn(g) == g = [i \in 0..n |-> IF i = 0 THEN base ELSE Body(i, g[i-1])]
            step == [i \in 1..n |-> [x \in T |-> Body(i, x)]]
            h == CHOOSE g : Eqn(g)
<1>1. n \in Nat /\ base \in T
  BY EmptySeq DEF Texts
<1>2. ASSUME NEW i \in 1..n, NEW x \in T PROVE Body(i, x) \in T
  <2>1. x \in Seq(Texts) /\ x # <<>> /\ Len(x) \in Nat /\ q[i] \in Nat
    BY <1>2 DEF Texts
  <2>2. Len(x) \in 1..Len(x) /\ x[Len(x)] \in Texts
    BY <2>1, EmptySeq
  <2>3. Append(x[Len(x)], q[i]) \in Texts /\ <<>> \in Texts
    BY <2>1, <2>2 DEF Texts
  <2>4. Append(x, <<>>) \in Seq(Texts) /\ Append(x, <<>>) # <<>>
    BY <2>1, <2>3, AppendProperties
  <2>. DEFINE y == [x EXCEPT ![Len(x)] = Append(@, q[i])]
  <2>5. y \in Seq(Texts) /\ Len(y) = Len(x)
    BY <2>1, <2>2, <2>3, ExceptSeq
  <2>6. y # <<>>
    BY <2>1, <2>5, EmptySeq
  <2>. QED BY <2>4, <2>5, <2>6
<1>3. Segments(q) = h[n]
  BY DEF Segments
<1>4. h \in [0..n -> T] /\ h[n] \in T /\ h[0] = base /\ \A i \in 1..n : h[i] = Body(i, h[i-1])
  <2>. HIDE DEF n, T, base, Body
  <2>1. StepFunctions(n, T, base, step)
    BY <1>1, <1>2 DEF StepFunctions
  <2>2. \A i \in 1..n, x \in T : step[i][x] = Body(i, x)
    OBVIOUS
  <2>3. TakesThem(n, T, base, step, h)
    <3>. SUFFICES ASSUME NEW f \in [0..n -> T], Steps(n, base, step, f)
                  PROVE  /\ h = [i \in 0..n |-> h[i]] /\ h[0] = base
                         /\ \A i \in 1..n : h[i-1] \in T => h[i] = step[i][h[i-1]]
      BY DEF TakesThem
    <3>1. f[0] = base /\ \A i \in 1..n : f[i] = Body(i, f[i-1])
      <4>. HIDE DEF step
      <4>. QED BY <1>1, <2>2 DEF Steps
    <3>2. Eqn(f)
      BY <1>1, <3>1
    <3>3. Eqn(h)
      BY <3>2
    <3>. HIDE DEF h, step
    <3>. QED BY <1>1, <2>2, <3>3
  <2>. HIDE DEF step, h
  <2>4. TableOf(n, T, base, step, h)
    BY <2>1, <2>3, Recursive
  <2>5. \A i \in 1..n : h[i-1] \in T
    BY <1>1, <2>4 DEF TableOf
  <2>. QED BY <2>2, <2>4, <2>5 DEF TableOf, Steps
<1>. QED
  <2>. HIDE DEF h
  <2>. QED BY <1>3, <1>4

\* Joined goes through these strings.
LEMMA JoinedTable ==
    ASSUME NEW parts \in Seq(Texts)
    PROVE  \E h \in [0..Len(parts) -> Texts] :
              /\ h[0] = <<>> /\ Joined(parts) = h[Len(parts)] /\ h[Len(parts)] \in Texts
              /\ \A i \in 1..Len(parts) : h[i] = h[i-1] \o (IF i = 1 THEN <<>> ELSE <<Amp>>) \o parts[i]
<1>. DEFINE n == Len(parts)
            T == Texts
            base == <<>>
            Body(i, x) == x \o (IF i = 1 THEN <<>> ELSE <<Amp>>) \o parts[i]
            Eqn(g) == g = [i \in 0..n |-> IF i = 0 THEN base ELSE Body(i, g[i-1])]
            step == [i \in 1..n |-> [x \in T |-> Body(i, x)]]
            h == CHOOSE g : Eqn(g)
<1>1. n \in Nat /\ base \in T
  BY EmptySeq DEF Texts
<1>2. ASSUME NEW i \in 1..n, NEW x \in T PROVE Body(i, x) \in T
  <2>1. parts[i] \in Seq(Nat) /\ x \in Seq(Nat)
    BY <1>2 DEF Texts
  <2>2. (IF i = 1 THEN <<>> ELSE <<Amp>>) \in Seq(Nat)
    BY DEF Amp
  <2>. QED BY <2>1, <2>2, ConcatLen DEF Texts
<1>3. Joined(parts) = h[n]
  BY DEF Joined
<1>4. h \in [0..n -> T] /\ h[n] \in T /\ h[0] = base /\ \A i \in 1..n : h[i] = Body(i, h[i-1])
  <2>. HIDE DEF n, T, base, Body
  <2>1. StepFunctions(n, T, base, step)
    BY <1>1, <1>2 DEF StepFunctions
  <2>2. \A i \in 1..n, x \in T : step[i][x] = Body(i, x)
    OBVIOUS
  <2>3. TakesThem(n, T, base, step, h)
    <3>. SUFFICES ASSUME NEW f \in [0..n -> T], Steps(n, base, step, f)
                  PROVE  /\ h = [i \in 0..n |-> h[i]] /\ h[0] = base
                         /\ \A i \in 1..n : h[i-1] \in T => h[i] = step[i][h[i-1]]
      BY DEF TakesThem
    <3>1. f[0] = base /\ \A i \in 1..n : f[i] = Body(i, f[i-1])
      <4>. HIDE DEF step
      <4>. QED BY <1>1, <2>2 DEF Steps
    <3>2. Eqn(f)
      BY <1>1, <3>1
    <3>3. Eqn(h)
      BY <3>2
    <3>. HIDE DEF h, step
    <3>. QED BY SMTT(30), <1>1, <2>2, <3>3
  <2>. HIDE DEF step, h
  <2>4. TableOf(n, T, base, step, h)
    BY <2>1, <2>3, Recursive
  <2>5. \A i \in 1..n : h[i-1] \in T
    BY <1>1, <2>4 DEF TableOf
  <2>. QED BY <2>2, <2>4, <2>5 DEF TableOf, Steps
<1>. QED
  <2>. HIDE DEF h
  <2>. QED BY <1>3, <1>4

LEMMA Greatest ==
    ASSUME NEW N \in Nat, NEW I \in SUBSET (1..N), I # {}
    PROVE  \E m \in I : \A j \in I : m >= j
<1>. DEFINE T == {k \in 0..N : N - k \in I}
<1>1. T \in SUBSET Nat
  OBVIOUS
<1>2. \A j \in I : N - j \in T
  BY Z3
<1>3. T # {}
  BY <1>2
<1>4. PICK m \in T : \A j \in T : m <= j
  <2>. HIDE DEF T
  <2>. QED BY <1>1, <1>3, LeastNatural
<1>5. N - m \in I /\ m \in 0..N
  OBVIOUS
<1>6. ASSUME NEW j \in I PROVE N - m >= j
  <2>1. m <= N - j
    <3>. HIDE DEF T
    <3>. QED BY <1>2, <1>4
  <2>. QED BY <1>5, <2>1
<1>. QED BY <1>5, <1>6

\* Where a pair is inserted: behind the last one that is not greater.
LEMMA InsertedAt ==
    ASSUME NEW S, NEW s \in Seq(S), NEW kv \in S
    PROVE  \E n \in 0..Len(s) :
              /\ Inserted(s, kv) = SubSeq(s, 1, n) \o <<kv>> \o SubSeq(s, n + 1, Len(s))
              /\ Inserted(s, kv) \in Seq(S) /\ Len(Inserted(s, kv)) = Len(s) + 1
              /\ n # 0 => ~ Less(kv[1], s[n][1])
              /\ \A i \in (n + 1)..Len(s) : Less(kv[1], s[i][1])
<1>. DEFINE I == {i \in 1..Len(s) : ~ Less(kv[1], s[i][1])}
            n == IF I # {} THEN Max(I) ELSE 0
            a == SubSeq(s, 1, n)
            b == SubSeq(s, n + 1, Len(s))
<1>1. Inserted(s, kv) = a \o <<kv>> \o b
  BY DEF Inserted, SelectLastInSeq
<1>2. Len(s) \in Nat
  OBVIOUS
<1>3. /\ n \in 0..Len(s) /\ (n # 0 => ~ Less(kv[1], s[n][1]))
      /\ \A i \in (n + 1)..Len(s) : Less(kv[1], s[i][1])
  <2>1. CASE I = {}
    BY <1>2, <2>1
  <2>2. CASE I # {}
    <3>1. I \in SUBSET (1..Len(s))
      OBVIOUS
    <3>. HIDE DEF I
    <3>2. \E m \in I : \A j \in I : m >= j
      BY <1>2, <2>2, <3>1, Greatest
    <3>3. Max(I) \in I /\ \A j \in I : Max(I) >= j
      BY <3>2 DEF Max
    <3>4. n = Max(I)
      BY <2>2
    <3>. HIDE DEF n
    <3>5. n \in 1..Len(s) /\ n \in I /\ \A j \in I : n >= j
      BY <3>1, <3>3, <3>4
    <3>6. \A i \in (n + 1)..Len(s) : i \in 1..Len(s) /\ i \notin I
      BY <1>2, <3>5
    <3>. QED BY <1>2, <3>5, <3>6 DEF I
  <2>. QED BY <2>1, <2>2
<1>. HIDE DEF n
<1>4. a \in Seq(S) /\ Len(a) = n
  BY <1>2, <1>3, SubSeqProperties
<1>5. b \in Seq(S) /\ Len(b) = Len(s) - n
  BY <1>2, <1>3, SubSeqProperties
<1>. HIDE DEF a, b
<1>6. a \o <<kv>> \in Seq(S) /\ Len(a \o <<kv>>) = n + 1
  BY <1>2, <1>3, <1>4, ConcatProperties
<1>7. (a \o <<kv>>) \o b \in Seq(S) /\ Len((a \o <<kv>>) \o b) = (n + 1) + (Len(s) - n)
  <2>. DEFINE c == a \o <<kv>>
  <2>. HIDE DEF c
  <2>1. c \in Seq(S) /\ Len(c) = n + 1
    BY <1>6 DEF c
  <2>2. c \o b \in Seq(S) /\ Len(c \o b) = Len(c) + Len(b)
    BY <1>5, <2>1, ConcatProperties
  <2>. QED BY <1>5, <2>1, <2>2 DEF c
<1>8. (n + 1) + (Len(s) - n) = Len(s) + 1
  BY <1>2, <1>3
<1>. QED BY <1>1, <1>3, <1>7, <1>8 DEF a, b

\* KVSlice inserts one pair at a time.
LEMMA KVSliceTable ==
    ASSUME NEW S, NEW kvs \in Seq(S)
    PROVE  \E h \in [0..Len(kvs) -> Seq(S)] :
              /\ h[0] = <<>> /\ KVSlice(kvs) = h[Len(kvs)] /\ h[Len(kvs)] \in Seq(S)
              /\ \A i \in 1..Len(kvs) : h[i] = Inserted(h[i-1], kvs[i])
<1>. DEFINE n == Len(kvs)
            T == Seq(S)
            base == <<>>
            Body(i, x) == Inserted(x, kvs[i])
            Eqn(g) == g = [i \in 0..n |-> IF i = 0 THEN base ELSE Body(i, g[i-1])]
            step == [i \in 1..n |-> [x \in T |-> Body(i, x)]]
            h == CHOOSE g : Eqn(g)
<1>1. n \in Nat /\ base \in T
  BY EmptySeq
<1>2. ASSUME NEW i \in 1..n, NEW x \in T PROVE Body(i, x) \in T
  <2>1. x \in Seq(S) /\ kvs[i] \in S
    BY <1>2
  <2>. QED BY <2>1, InsertedAt
<1>3. KVSlice(kvs) = h[n]
  BY DEF KVSlice
<1>4. h \in [0..n -> T] /\ h[n] \in T /\ h[0] = base /\ \A i \in 1..n : h[i] = Body(i, h[i-1])
  <2>. HIDE DEF n, T, base, Body
  <2>1. StepFunctions(n, T, base, step)
    BY <1>1, <1>2 DEF StepFunctions
  <2>2. \A i \in 1..n, x \in T : step[i][x] = Body(i, x)
    OBVIOUS
  <2>3. TakesThem(n, T, base, step, h)
    <3>. SUFFICES ASSUME NEW f \in [0..n -> T], Steps(n, base, step, f)
                  PROVE  /\ h = [i \in 0..n |-> h[i]] /\ h[0] = base
                         /\ \A i \in 1..n : h[i-1] \in T => h[i] = step[i][h[i-1]]
      BY DEF TakesThem
    <3>1. f[0] = base /\ \A i \in 1..n : f[i] = Body(i, f[i-1])
      <4>. HIDE DEF step
      <4>. QED BY <1>1, <2>2 DEF Steps
    <3>2. Eqn(f)
      BY <1>1, <3>1
    <3>3. Eqn(h)
      BY <3>2
    <3>. HIDE DEF h, step
    <3>. QED BY SMTT(30), <1>1, <2>2, <3>3
  <2>. HIDE DEF step, h
  <2>4. TableOf(n, T, base, step, h)
    BY <2>1, <2>3, Recursive
  <2>5. \A i \in 1..n : h[i-1] \in T
    BY <1>1, <2>4 DEF TableOf
  <2>. QED BY <2>2, <2>4, <2>5 DEF TableOf, Steps
<1>. QED
  <2>. HIDE DEF h
  <2>. QED BY <1>3, <1>4

\* A segment is split at its first "=".
LEMMA SplitIs ==
    ASSUME NEW seg \in Texts
    PROVE  \/ /\ \A j \in 1..Len(seg) : seg[j] # Eq
              /\ SplitSegment(seg) = [name |-> seg, value |-> <<>>, bare |-> TRUE]
           \/ \E i \in 1..Len(seg) :
                /\ seg[i] = Eq /\ \A j \in 1..(i - 1) : seg[j] # Eq
                /\ SplitSegment(seg) = [name |-> SubSeq(seg, 1, i - 1),
                                        value |-> SubSeq(seg, i + 1, Len(seg)), bare |-> FALSE]
<1>. DEFINE I == {i \in 1..Len(seg) : seg[i] = Eq}
            n == IF I # {} THEN Min(I) ELSE 0
<1>1. Len(seg) \in Nat
  BY DEF Texts
<1>2. CASE I = {}
  <2>1. \A j \in 1..Len(seg) : seg[j] # Eq
    BY <1>2
  <2>. QED BY <2>1 DEF SplitSegment, Contains
<1>3. CASE I # {}
  <2>1. Contains(seg, Eq)
    BY <1>3 DEF Contains
  <2>2. SplitSegment(seg) = [name |-> SubSeq(seg, 1, n - 1),
                             value |-> SubSeq(seg, n + 1, Len(seg)), bare |-> FALSE]
    BY <2>1 DEF SplitSegment, SelectInSeq
  <2>3. I \in SUBSET Nat
    OBVIOUS
  <2>. HIDE DEF I
  <2>4. \E m \in I : \A j \in I : m <= j
    BY <1>3, <2>3, LeastNatural
  <2>5. Min(I) \in I /\ \A j \in I : Min(I) <= j
    BY <2>4 DEF Min
  <2>6. n \in I /\ \A j \in I : n <= j
    BY <1>3, <2>5
  <2>. HIDE DEF n
  <2>7. n \in 1..Len(seg) /\ seg[n] = Eq
    BY <2>6 DEF I
  <2>8. \A j \in 1..(n - 1) : seg[j] # Eq
    BY <1>1, <2>6, <2>7 DEF I
  <2>. QED BY <2>2, <2>7, <2>8
<1>. QED BY <1>2, <1>3

Arg == [name : Texts, value : Texts, bare : BOOLEAN]

LEMMA SplitType == ASSUME NEW seg \in Texts PROVE SplitSegment(seg) \in Arg
<1>1. /\ Len(seg) \in Nat /\ seg \in Seq(Nat) /\ <<>> \in Texts
  BY DEF Texts
<1>2. \A i \in 1..Len(seg) : SubSeq(seg, 1, i - 1) \in Texts /\ SubSeq(seg, i + 1, Len(seg)) \in Texts
  BY <1>1, SubSeqProperties DEF Texts
<1>3. [name |-> seg, value |-> <<>>, bare |-> TRUE] \in Arg
  BY <1>1 DEF Arg
<1>4. \A i \in 1..Len(seg) : [name |-> SubSeq(seg, 1, i - 1),
                              value |-> SubSeq(seg, i + 1, Len(seg)), bare |-> FALSE] \in Arg
  BY <1>2 DEF Arg
<1>. QED BY <1>3, <1>4, SplitIs

\* The elements picked, in number and kind.
LEMMA PickedType ==
    ASSUME NEW S, NEW s \in Seq(S), NEW I PROVE Picked(s, I) \in Seq(S)
<1>1. PICK h : PickedSteps(S, s, I, h)
  BY PickedTable
<1>. QED BY <1>1 DEF PickedSteps

LEMMA ArgsType == ASSUME NEW q \in Texts PROVE QueryArgs(q) \in Seq(Arg)
<1>. DEFINE segs == Segments(q)
            all == [i \in DOMAIN segs |-> SplitSegment(segs[i])]
<1>1. segs \in Seq(Texts)
  BY SegmentsTable
<1>. HIDE DEF segs
<1>2. all \in Seq(Arg)
  <2>1. Len(segs) \in Nat /\ DOMAIN segs = 1..Len(segs)
    BY <1>1
  <2>2. \A i \in 1..Len(segs) : SplitSegment(segs[i]) \in Arg
    BY <1>1, SplitType
  <2>3. all \in [1..Len(segs) -> Arg]
    BY <2>1, <2>2
  <2>. QED BY <2>1, <2>3
<1>. DEFINE I == {i \in DOMAIN all : all[i].name # <<>> \/ all[i].value # <<>>}
<1>3. QueryArgs(q) = Picked(all, I)
  BY DEF QueryArgs, segs
<1>. HIDE DEF all, I
<1>. QED BY <1>2, <1>3, PickedType

LEMMA QueryStringType == ASSUME NEW args \in Seq(Arg) PROVE QueryString(args) \in Texts
<1>. DEFINE parts == [i \in DOMAIN args |->
                        args[i].name \o (IF args[i].bare THEN <<>> ELSE <<Eq>> \o args[i].value)]
<1>1. Len(args) \in Nat /\ DOMAIN args = 1..Len(args)
  OBVIOUS
<1>2. ASSUME NEW i \in 1..Len(args)
      PROVE  args[i].name \o (IF args[i].bare THEN <<>> ELSE <<Eq>> \o args[i].value) \in Texts
  <2>1. args[i] \in Arg
    OBVIOUS
  <2>2. args[i].name \in Seq(Nat) /\ args[i].value \in Seq(Nat)
    BY <2>1 DEF Arg, Texts
  <2>3. <<Eq>> \in Seq(Nat) /\ <<>> \in Seq(Nat)
    BY DEF Eq
  <2>4. <<Eq>> \o args[i].value \in Seq(Nat)
    BY <2>2, <2>3, ConcatLen
  <2>5. (IF args[i].bare THEN <<>> ELSE <<Eq>> \o args[i].value) \in Seq(Nat)
    BY <2>3, <2>4
  <2>. HIDE DEF Arg
  <2>. QED BY <2>2, <2>5, ConcatLen DEF Texts
<1>3. parts \in Seq(Texts)
  <2>1. parts \in [1..Len(args) -> Texts]
    BY <1>1, <1>2
  <2>. QED BY <1>1, <2>1
<1>4. QueryString(args) = Joined(parts)
  BY DEF QueryString
<1>. HIDE DEF parts
<1>. QED BY <1>3, <1>4, JoinedTable

LEMMA KVSliceType == ASSUME NEW S, NEW kvs \in Seq(S) PROVE KVSlice(kvs) \in Seq(S)
BY KVSliceTable

\* KeptInPlace goes through these lists, and through counts of what it kept.
KeptSteps(rule, T0, hs, h) ==
    /\ h \in [0..Len(hs) -> [h : [1..Len(hs) -> T0], n : Nat]]
    /\ h[0] = [h |-> hs, n |-> 0]
    /\ KeptInPlace(rule, hs) = h[Len(hs)]
    /\ h[Len(hs)] \in [h : [1..Len(hs) -> T0], n : Nat]
    /\ \A i \in 1..Len(hs) : h[i] =
          IF h[i-1].h[i][1] \in rule.headers
          THEN [h |-> [h[i-1].h EXCEPT ![h[i-1].n + 1] = h[i-1].h[i]], n |-> h[i-1].n + 1]
          ELSE h[i-1]

LEMMA KeptTable ==
    ASSUME NEW rule, NEW T0, NEW hs \in Seq(T0)
    PROVE  \E h : KeptSteps(rule, T0, hs, h)
<1>. DEFINE n == Len(hs)
            T == [h : [1..Len(hs) -> T0], n : Nat]
            base == [h |-> hs, n |-> 0]
            Body(i, x) == IF x.h[i][1] \in rule.headers
                          THEN [h |-> [x.h EXCEPT ![x.n + 1] = x.h[i]], n |-> x.n + 1]
                          ELSE x
            Eqn(g) == g = [i \in 0..n |-> IF i = 0 THEN base ELSE Body(i, g[i-1])]
            step == [i \in 1..n |-> [x \in T |-> Body(i, x)]]
            h == CHOOSE g : Eqn(g)
<1>1. n \in Nat /\ base \in T
  OBVIOUS
<1>2. ASSUME NEW i \in 1..n, NEW x \in T PROVE Body(i, x) \in T
  <2>1. x.h \in [1..Len(hs) -> T0] /\ x.n \in Nat
    BY <1>2
  <2>2. x.h[i] \in T0 /\ x.n + 1 \in Nat
    BY <2>1
  <2>3. [x.h EXCEPT ![x.n + 1] = x.h[i]] \in [1..Len(hs) -> T0]
    BY <2>1, <2>2
  <2>. QED BY <1>2, <2>2, <2>3
<1>3. KeptInPlace(rule, hs) = h[n]
  BY DEF KeptInPlace
<1>4. h \in [0..n -> T] /\ h[n] \in T /\ h[0] = base /\ \A i \in 1..n : h[i] = Body(i, h[i-1])
  <2>. HIDE DEF n, T, base, Body
  <2>1. StepFunctions(n, T, base, step)
    BY <1>1, <1>2 DEF StepFunctions
  <2>2. \A i \in 1..n, x \in T : step[i][x] = Body(i, x)
    OBVIOUS
  <2>3. TakesThem(n, T, base, step, h)
    <3>. SUFFICES ASSUME NEW f \in [0..n -> T], Steps(n, base, step, f)
                  PROVE  /\ h = [i \in 0..n |-> h[i]] /\ h[0] = base
                         /\ \A i \in 1..n : h[i-1] \in T => h[i] = step[i][h[i-1]]
      BY DEF TakesThem
    <3>1. f[0] = base /\ \A i \in 1..n : f[i] = Body(i, f[i-1])
      <4>. HIDE DEF step
      <4>. QED BY <1>1, <2>2 DEF Steps
    <3>2. Eqn(f)
      BY <1>1, <3>1
    <3>3. Eqn(h)
      BY <3>2
    <3>. HIDE DEF h, step
    <3>. QED BY SMTT(30), <1>1, <2>2, <3>3
  <2>. HIDE DEF step, h
  <2>4. TableOf(n, T, base, step, h)
    BY <2>1, <2>3, Recursive
  <2>5. \A i \in 1..n : h[i-1] \in T
    BY <1>1, <2>4 DEF TableOf
  <2>. QED BY <2>2, <2>4, <2>5 DEF TableOf, Steps
<1>. QED
  <2>. HIDE DEF h
  <2>. QED BY <1>3, <1>4 DEF KeptSteps

\* Filtering headers in place keeps what filtering a copy keeps: what is read at i has
\* not been written over, for no more than i - 1 were kept before it.
LEMMA InPlaceIs ==
    ASSUME NEW rule, NEW T, NEW hs \in Seq(T)
    PROVE  HeadersInPlace(rule, hs) = HeadersFastHttp(rule, hs)
<1>. DEFINE N == Len(hs)
            I == {i \in DOMAIN hs : hs[i][1] \in rule.headers}
<1>1. N \in Nat /\ DOMAIN hs = 1..N /\ hs \in [1..N -> T]
  OBVIOUS
<1>2. PICK k : KeptSteps(rule, T, hs, k)
  BY KeptTable
<1>3. PICK p : PickedSteps(T, hs, I, p)
  <2>. HIDE DEF I
  <2>. QED BY PickedTable
<1>8. /\ k \in [0..N -> [h : [1..N -> T], n : Nat]]
      /\ k[0] = [h |-> hs, n |-> 0] /\ KeptInPlace(rule, hs) = k[N]
      /\ \A i \in 1..N :
            k[i] = IF k[i-1].h[i][1] \in rule.headers
                   THEN [h |-> [k[i-1].h EXCEPT ![k[i-1].n + 1] = k[i-1].h[i]],
                         n |-> k[i-1].n + 1]
                   ELSE k[i-1]
  BY <1>2 DEF KeptSteps
<1>9. /\ p \in [0..N -> Seq(T)] /\ p[0] = <<>> /\ Picked(hs, I) = p[N]
      /\ \A i \in 1..N : p[i] = IF i \in I THEN Append(p[i-1], hs[i]) ELSE p[i-1]
  <2>. HIDE DEF I
  <2>. QED BY <1>3 DEF PickedSteps
<1>. DEFINE P == {i \in 0..N : /\ k[i].n <= i /\ \A j \in (i + 1)..N : k[i].h[j] = hs[j]
                               /\ SubSeq(k[i].h, 1, k[i].n) = p[i]}
<1>. HIDE DEF N, I
<1>4. 0 \in P
  <2>1. k[0].n = 0 /\ k[0].h = hs
    BY <1>8
  <2>2. SubSeq(hs, 1, 0) = <<>>
    BY SubSeqEmpty
  <2>. QED BY <1>1, <1>9, <2>1, <2>2
<1>5. ASSUME NEW i \in 1..N, i - 1 \in P PROVE i \in P
  <2>. DEFINE h == k[i-1].h
              n == k[i-1].n
  <2>1. i \in 0..N /\ i - 1 \in 0..N
    BY <1>1
  <2>2. h \in [1..N -> T] /\ n \in Nat /\ p[i-1] \in Seq(T)
    BY <1>8, <1>9, <2>1
  <2>3. n <= i - 1 /\ h[i] = hs[i] /\ (\A j \in (i + 1)..N : h[j] = hs[j]) /\ SubSeq(h, 1, n) = p[i-1]
    BY <1>1, <1>5
  <2>4. i \in I <=> h[i][1] \in rule.headers
    BY <1>1, <2>3 DEF I
  <2>5. CASE i \in I
    <3>1. k[i] = [h |-> [h EXCEPT ![n + 1] = h[i]], n |-> n + 1]
      BY <1>8, <2>4, <2>5
    <3>. HIDE DEF h, n
    <3>. DEFINE g == [h EXCEPT ![n + 1] = h[i]]
    <3>2. n + 1 \in 1..N
      BY <1>1, <2>2, <2>3
    <3>3. g \in [1..N -> T] /\ g[n + 1] = hs[i] /\ \A j \in 1..N : j # n + 1 => g[j] = h[j]
      BY <2>2, <2>3, <3>2
    <3>. HIDE DEF g
    <3>4. g \in Seq(T) /\ Len(g) = N /\ h \in Seq(T) /\ Len(h) = N
      BY <1>1, <2>2, <3>3
    <3>5. SubSeq(g, 1, n + 1) = Append(SubSeq(g, 1, n), g[n + 1])
      <4>. DEFINE m == n + 1
      <4>1. m - 1 = n /\ m \in 1..Len(g)
        BY <2>2, <3>2, <3>4
      <4>. HIDE DEF m
      <4>2. Append(SubSeq(g, 1, m - 1), g[m]) = SubSeq(g, 1, m)
        BY <3>4, <4>1, PrefixStep
      <4>. QED BY <4>1, <4>2 DEF m
    <3>6. SubSeq(g, 1, n) = SubSeq(h, 1, n)
      <4>. DEFINE u == SubSeq(g, 1, n)
                  v == SubSeq(h, 1, n)
      <4>1. u \in Seq(T) /\ Len(u) = n /\ \A j \in 1..n : u[j] = g[j]
        BY <2>2, <3>2, <3>4, SubSeqProperties
      <4>2. v \in Seq(T) /\ Len(v) = n /\ \A j \in 1..n : v[j] = h[j]
        BY <2>2, <3>2, <3>4, SubSeqProperties
      <4>3. \A j \in 1..n : g[j] = h[j]
        BY <1>1, <2>2, <3>2, <3>3
      <4>. HIDE DEF u, v
      <4>4. u = v
        BY <4>1, <4>2, <4>3, SeqEqual
      <4>. QED BY <4>4 DEF u, v
    <3>7. SubSeq(g, 1, n + 1) = p[i]
      BY <1>9, <2>3, <2>5, <3>3, <3>5, <3>6
    <3>8. n + 1 <= i /\ \A j \in (i + 1)..N : g[j] = hs[j]
      BY <1>1, <2>2, <2>3, <3>3
    <3>9. k[i].h = g /\ k[i].n = n + 1
      BY <3>1 DEF g
    <3>. QED BY <2>1, <3>7, <3>8, <3>9
  <2>6. CASE i \notin I
    <3>1. k[i] = k[i-1] /\ p[i] = p[i-1]
      BY <1>8, <1>9, <2>4, <2>6
    <3>2. k[i].h = h /\ k[i].n = n /\ n <= i /\ SubSeq(h, 1, n) = p[i]
      BY <2>2, <2>3, <3>1
    <3>. HIDE DEF h, n
    <3>. QED BY <1>1, <2>1, <2>3, <3>2
  <2>. QED BY <2>5, <2>6
<1>6. \A i \in 0..N : i \in P
  <2>. HIDE DEF P
  <2>. QED BY <1>1, <1>4, <1>5, UpTo
<1>7. SubSeq(k[N].h, 1, k[N].n) = Picked(hs, I)
  <2>1. N \in 0..N
    BY <1>1
  <2>. QED BY <1>9, <1>6, <2>1
<1>. QED BY <1>8, <1>7 DEF HeadersInPlace, HeadersFastHttp, N, I

LEMMA KeptType ==
    ASSUME NEW rule, NEW S, NEW hs \in Seq(S)
    PROVE  HeadersFastHttp(rule, hs) \in Seq(S) /\ HeadersInPlace(rule, hs) \in Seq(S)
<1>. DEFINE I == {i \in DOMAIN hs : hs[i][1] \in rule.headers}
<1>1. HeadersFastHttp(rule, hs) = KVSlice(Picked(hs, I))
  BY DEF HeadersFastHttp
<1>. HIDE DEF I
<1>2. Picked(hs, I) \in Seq(S)
  BY PickedType
<1>. QED BY <1>1, <1>2, KVSliceType, InPlaceIs

(***************************************************************************)
(* The invariant: a payload is what its history packs to, and a dump what  *)
(* the entry dumped comes to.                                              *)
(***************************************************************************)
EntryTypes ==
    /\ req \in [path : Path, query : Query, headers : Headers]
    /\ rules \in Configs
EntryHolds ==
    entry # None => /\ Shaped(entry) /\ told \in Told /\ told.path = req.path
                    /\ entry.payload = Pack(told)
DumpHolds ==
    image # <<>> =>
      /\ Shaped(saved) /\ image = ToBytes(saved)
      /\ LET t == UnpackPayload(saved.payload)
         IN  t \in Told /\ t.path = req.path /\ Pack(t) = saved.payload
EntryInv == EntryTypes /\ EntryHolds /\ DumpHolds

LEMMA SeqGrows ==
    ASSUME NEW A, NEW B, A \subseteq B PROVE Seq(A) \subseteq Seq(B)
<1>1. ASSUME NEW s \in Seq(A) PROVE s \in Seq(B)
  <2>1. s \in [1..Len(s) -> B] /\ Len(s) \in Nat
    OBVIOUS
  <2>. QED BY <2>1
<1>. QED BY <1>1

LEMMA Subsets ==
    /\ Bytes \subseteq Texts /\ Seq(KV) \subseteq Pairs
<1>1. Byte \subseteq Nat
  BY DEF Byte
<1>2. Bytes \subseteq Texts
  BY <1>1, SeqGrows DEF Bytes, Texts
<1>3. KV \subseteq Texts \X Texts
  BY <1>2 DEF KV
<1>4. Seq(KV) \subseteq Pairs
  BY <1>3, SeqGrows DEF Pairs
<1>. QED BY <1>2, <1>4

LEMMA RequestTypes ==
    ASSUME req \in [path : Path, query : Query, headers : Headers]
    PROVE  req.path \in Texts /\ req.query \in Texts /\ req.headers \in Pairs
BY EntryAssumption, Subsets

LEMMA AnswerTypes ==
    ASSUME NEW a \in Answers
    PROVE  a.status \in Nat /\ a.headers \in Pairs /\ a.body \in Texts
<1>1. a \in [status : Nat, headers : Seq(KV), body : Bytes]
  BY EntryAssumption
<1>2. a.status \in Nat /\ a.headers \in Seq(KV) /\ a.body \in Bytes
  BY <1>1
<1>. QED BY <1>2, Subsets

WithPayload(e, t) == [e EXCEPT !.payload = Pack(t), !.compressed = 0]

LEMMA KeyedShaped ==
    ASSUME NEW rule \in Texts, NEW queries, NEW headers, NEW t \in Told, NEW x,
           x = WithPayload(Keyed(rule, queries, headers), t)
    PROVE  Shaped(x) /\ x.payload = Pack(t)
<1>. DEFINE bytes == FlattenSeq([i \in DOMAIN (queries \o headers) |->
                               (queries \o headers)[i][1] \o (queries \o headers)[i][2]])
            k == Hash(bytes)
            m == MapShardKey(Hash(bytes))
<1>1. Keyed(rule, queries, headers) =
        [rule |-> rule, key |-> k, shard |-> m, fp |-> bytes, payload |-> <<>>,
         compressed |-> 0, updatedAt |-> "built"]
  BY DEF Keyed
<1>2. Pack(t) \in Texts
  BY PackIs
<1>. HIDE DEF bytes, k, m
<1>. DEFINE p == Pack(t)
            e == [rule |-> rule, key |-> k, shard |-> m, fp |-> bytes, payload |-> p,
                  compressed |-> 0, updatedAt |-> "built"]
<1>3. p \in Texts
  BY <1>2
<1>. HIDE DEF p
<1>4. Shaped(e) /\ e.payload = p
  BY <1>3 DEF Shaped
<1>. DEFINE y == Keyed(rule, queries, headers)
<1>5. x = [y EXCEPT !.payload = p, !.compressed = 0]
  BY DEF p, WithPayload
<1>6. y = [rule |-> rule, key |-> k, shard |-> m, fp |-> bytes, payload |-> <<>>,
           compressed |-> 0, updatedAt |-> "built"]
  BY <1>1
<1>. HIDE DEF y
<1>7. x = e
  BY <1>5, <1>6
<1>. HIDE DEF e
<1>. QED BY <1>4, <1>7 DEF p

LEMMA EntryInitHolds == EntryInit => EntryInv
BY DEF EntryInit, EntryInv, EntryTypes, EntryHolds, DumpHolds

LEMMA EntryStepHolds == EntryInv /\ [EntryNext]_entryVars => EntryInv'
<1>. SUFFICES ASSUME EntryInv, [EntryNext]_entryVars PROVE EntryInv'
  OBVIOUS
<1>1. EntryTypes /\ EntryHolds /\ DumpHolds
  BY DEF EntryInv
<1>2. req.path \in Texts /\ req.query \in Texts /\ req.headers \in Pairs
  BY <1>1, RequestTypes DEF EntryTypes
\* An entry that is filled for a request of its own path.
<1>3. ASSUME NEW queries, NEW headers, NEW t \in Told, t.path = req.path,
             Filled(Keyed(req.path, queries, headers), t), UNCHANGED <<req, rules, image, saved>>
      PROVE  EntryInv'
  <2>1. Shaped(entry') /\ entry'.payload = Pack(t) /\ told' = t
    <3>1. /\ entry' = WithPayload(Keyed(req.path, queries, headers), t)
          /\ told' = t
      BY <1>3 DEF Filled, WithPayload
    <3>. DEFINE rule == req.path
    <3>2. rule \in Texts /\ entry' = WithPayload(Keyed(rule, queries, headers), t)
      BY <1>2, <3>1
    <3>. HIDE DEF rule
    <3>3. Shaped(entry') /\ entry'.payload = Pack(t)
      BY <3>2, KeyedShaped
    <3>. QED BY <3>1, <3>3
  <2>2. EntryHolds'
    BY <1>3, <2>1 DEF EntryHolds
  <2>3. EntryTypes' /\ DumpHolds'
    BY <1>1, <1>3 DEF EntryTypes, DumpHolds
  <2>. QED BY <2>2, <2>3 DEF EntryInv
<1>4. ASSUME NEW query \in Texts, NEW asked \in Pairs, NEW a \in Answers
      PROVE  Request(query, asked, a) \in Told /\ Request(query, asked, a).path = req.path
  BY <1>2, AnswerTypes DEF Request, Told
<1>5. ASSUME NEW a \in Answers, Miss(a) PROVE EntryInv'
  <2>. DEFINE query == QueryString(QueryArgs(req.query))
  <2>1. query \in Texts
    BY <1>2, ArgsType, QueryStringType
  <2>2. Request(query, req.headers, a) \in Told /\ Request(query, req.headers, a).path = req.path
    BY <1>2, <1>4, <2>1
  <2>. QED BY <1>3, <1>5, <2>2 DEF Miss, NewEntryFastHttp
<1>6. ASSUME NEW a \in Answers, Mock(a) PROVE EntryInv'
  <2>. DEFINE query == <<Mark>> \o req.query
              asked == HeadersInPlace(rules[req.path], req.headers)
  <2>1. query \in Texts
    <3>1. <<Mark>> \in Seq(Nat)
      BY DEF Mark
    <3>. QED BY <1>2, <3>1, ConcatLen DEF Texts
  <2>2. asked \in Pairs
    BY <1>2, KeptType DEF Pairs
  <2>. HIDE DEF query, asked
  <2>3. Request(query, asked, a) \in Told /\ Request(query, asked, a).path = req.path
    BY <1>4, <2>1, <2>2
  <2>. QED BY <1>3, <1>6, <2>3 DEF Mock, NewEntryManual, query, asked
<1>7. ASSUME NEW a \in Answers, Revalidate(a) PROVE EntryInv'
  <2>. DEFINE t == UnpackPayload(entry.payload)
              u == [t EXCEPT !.status = a.status, !.headers = a.headers, !.body = a.body]
  <2>1. /\ Shaped(entry) /\ told \in Told /\ told.path = req.path /\ entry.payload = Pack(told)
    BY <1>1, <1>7 DEF Revalidate, EntryHolds
  <2>2. t = told
    BY <2>1, PackIs
  <2>3. entry' = [entry EXCEPT !.payload = Pack(u), !.compressed = 0, !.updatedAt = "refreshed"]
    BY <1>7 DEF Revalidate
  <2>. HIDE DEF t
  <2>4. u = told'
    BY <1>7, <2>2 DEF Revalidate
  <2>5. u \in Told /\ u.path = req.path
    BY <2>1, <2>2, AnswerTypes DEF Told
  <2>. HIDE DEF u
  <2>6. Pack(u) \in Texts
    BY <2>5, PackIs
  <2>7. Shaped(entry') /\ entry'.payload = Pack(u)
    BY <2>1, <2>3, <2>6 DEF Shaped
  <2>8. UNCHANGED <<req, rules, image, saved>>
    BY <1>7 DEF Revalidate
  <2>9. EntryHolds'
    BY <2>4, <2>5, <2>7, <2>8 DEF EntryHolds
  <2>10. EntryTypes' /\ DumpHolds'
    BY <1>1, <2>8 DEF EntryTypes, DumpHolds
  <2>. QED BY <2>9, <2>10 DEF EntryInv
<1>8. ASSUME Dump PROVE EntryInv'
  <2>1. /\ Shaped(entry) /\ told \in Told /\ told.path = req.path /\ entry.payload = Pack(told)
    BY <1>1, <1>8 DEF Dump, EntryHolds
  <2>2. UnpackPayload(entry.payload) = told
    BY <2>1, PackIs
  <2>3. image' = ToBytes(saved') /\ saved' = entry /\ UNCHANGED <<req, rules, entry, told>>
    BY <1>8 DEF Dump
  <2>4. DumpHolds'
    BY <2>1, <2>2, <2>3 DEF DumpHolds
  <2>5. EntryTypes' /\ EntryHolds'
    BY <1>1, <2>3 DEF EntryTypes, EntryHolds
  <2>. QED BY <2>4, <2>5 DEF EntryInv
<1>9. ASSUME Load PROVE EntryInv'
  <2>. DEFINE t == UnpackPayload(saved.payload)
  <2>1. /\ Shaped(saved) /\ image = ToBytes(saved)
        /\ t \in Told /\ t.path = req.path /\ Pack(t) = saved.payload
    BY <1>1, <1>9 DEF Load, DumpHolds
  <2>2. entry' = saved
    BY <1>9, <2>1, DumpIs DEF Load
  <2>3. told' = t /\ UNCHANGED <<req, rules, image, saved>>
    BY <1>9, <2>2 DEF Load
  <2>. HIDE DEF t
  <2>4. EntryHolds'
    BY <2>1, <2>2, <2>3 DEF EntryHolds
  <2>5. EntryTypes' /\ DumpHolds'
    BY <1>1, <2>3 DEF EntryTypes, DumpHolds
  <2>. QED BY <2>4, <2>5 DEF EntryInv
<1>10. ASSUME NEW cfg \in Configs, Restart(cfg) PROVE EntryInv'
  BY <1>1, <1>10 DEF Restart, EntryInv, EntryTypes, EntryHolds, DumpHolds
<1>11. ASSUME UNCHANGED entryVars PROVE EntryInv'
  BY <1>1, <1>11 DEF entryVars, EntryInv, EntryTypes, EntryHolds, DumpHolds
<1>. QED BY <1>5, <1>6, <1>7, <1>8, <1>9, <1>10, <1>11 DEF EntryNext

LEMMA EntryInvHolds == EntrySpec => []EntryInv
BY EntryInitHolds, EntryStepHolds, PTL DEF EntrySpec

\* After any number of refreshes, dumps and restarts a payload unpacks to the request the
\* entry was built for and the last answer to it, and fills what was allocated for it.
THEOREM PayloadIsFaithful == EntrySpec => []PayloadFaithful
<1>1. EntryInv => PayloadFaithful
  BY PackIs DEF EntryInv, EntryHolds, PayloadFaithful
<1>. QED BY <1>1, EntryInvHolds, PTL

\* A process that loads a dump has the very entry the other one dumped.
THEOREM LoadedAsDumped == EntrySpec => LoadedIsDumped
<1>1. EntryInv /\ [EntryNext]_entryVars => [Load => entry' = saved]_entryVars
  BY DumpIs DEF EntryInv, DumpHolds, Load
<1>2. EntrySpec => [][EntryNext]_entryVars
  BY DEF EntrySpec
<1>. QED BY <1>1, <1>2, EntryInvHolds, PTL DEF LoadedIsDumped

(***************************************************************************)
(* Sequences of places.  Along(s, g) is s at the places g names, in g's    *)
(* order.                                                                  *)
(***************************************************************************)
Along(s, g) == [i \in 1..Len(g) |-> s[g[i]]]
Places(g) == {g[i] : i \in 1..Len(g)}
Climbs(g) == \A i, j \in 1..Len(g) : i < j => g[i] < g[j]

LEMMA AlongType ==
    ASSUME NEW S, NEW s \in Seq(S), NEW g \in Seq(1..Len(s))
    PROVE  /\ Along(s, g) \in Seq(S) /\ Len(Along(s, g)) = Len(g) /\ Len(g) \in Nat
           /\ \A i \in 1..Len(g) : /\ g[i] \in 1..Len(s) /\ Along(s, g)[i] = s[g[i]]
<1>1. Len(g) \in Nat /\ \A i \in 1..Len(g) : g[i] \in 1..Len(s)
  OBVIOUS
<1>2. \A i \in 1..Len(g) : s[g[i]] \in S
  BY <1>1
<1>3. Along(s, g) \in [1..Len(g) -> S]
  BY <1>2 DEF Along
<1>. QED BY <1>1, <1>3 DEF Along

\* Two sequences that a strict order has in order and with the same elements are one.
Ordered(g, R) == \A i, j \in 1..Len(g) : i < j => <<g[i], g[j]>> \in R
StrictOrder(R, X) ==
    /\ \A x \in X : <<x, x>> \notin R
    /\ \A x, y, z \in X : <<x, y>> \in R /\ <<y, z>> \in R => <<x, z>> \in R

LEMMA OneOrderHalf ==
    ASSUME NEW X, NEW R, StrictOrder(R, X), NEW g \in Seq(X), NEW h \in Seq(X),
           Ordered(g, R), Ordered(h, R), Places(g) = Places(h)
    PROVE  \A i \in 1..Len(g) : i \in 1..Len(h) /\ g[i] = h[i]
<1>. DEFINE B == {i \in 1..Len(g) : ~ (i \in 1..Len(h) /\ g[i] = h[i])}
<1>1. SUFFICES ASSUME B # {} PROVE FALSE
  OBVIOUS
<1>2. B \in SUBSET Nat
  OBVIOUS
<1>. HIDE DEF B
<1>3. PICK i \in B : \A j \in B : i <= j
  BY <1>1, <1>2, LeastNatural
<1>4. /\ i \in 1..Len(g) /\ ~ (i \in 1..Len(h) /\ g[i] = h[i])
      /\ \A j \in 1..(i - 1) : j \in 1..Len(g) /\ j \in 1..Len(h) /\ g[j] = h[j]
  <2>1. i \in 1..Len(g) /\ ~ (i \in 1..Len(h) /\ g[i] = h[i]) /\ Len(g) \in Nat
    BY DEF B
  <2>2. ASSUME NEW j \in 1..(i - 1) PROVE j \in 1..Len(g) /\ j \notin B
    BY <1>3, <2>1
  <2>. QED BY <2>1, <2>2 DEF B
<1>5. /\ Len(g) \in Nat /\ Len(h) \in Nat
      /\ \A j \in 1..Len(g) : g[j] \in X
      /\ \A j \in 1..Len(h) : h[j] \in X
  OBVIOUS
<1>6. PICK j \in 1..Len(h) : g[i] = h[j]
  BY <1>4 DEF Places
<1>7. j >= i
  <2>. SUFFICES ASSUME j < i PROVE FALSE
    BY <1>4, <1>5
  <2>1. j \in 1..(i - 1) /\ j < i /\ j \in 1..Len(g)
    BY <1>4
  <2>2. g[j] = g[i]
    BY <1>4, <1>6, <2>1
  <2>. QED BY <1>4, <1>5, <2>1, <2>2 DEF Ordered, StrictOrder
<1>8. i \in 1..Len(h) /\ g[i] # h[i] /\ i < j
  BY <1>4, <1>5, <1>6, <1>7
<1>9. PICK k \in 1..Len(g) : h[i] = g[k]
  BY <1>8 DEF Places
<1>10. k > i
  <2>. SUFFICES ASSUME k <= i PROVE FALSE
    BY <1>4, <1>5
  <2>1. k # i
    BY <1>8, <1>9
  <2>2. k \in 1..(i - 1) /\ k < i /\ k \in 1..Len(h)
    BY <1>4, <2>1
  <2>3. h[k] = h[i]
    BY <1>4, <1>9, <2>2
  <2>. QED BY <1>5, <1>8, <2>2, <2>3 DEF Ordered, StrictOrder
<1>11. <<g[i], g[k]>> \in R /\ <<h[i], h[j]>> \in R
  BY <1>4, <1>8, <1>10 DEF Ordered
<1>12. <<g[i], h[i]>> \in R /\ <<h[i], g[i]>> \in R /\ g[i] \in X /\ h[i] \in X
  BY <1>4, <1>5, <1>6, <1>8, <1>9, <1>11
<1>. QED BY <1>12 DEF StrictOrder

LEMMA OneOrder ==
    ASSUME NEW X, NEW R, StrictOrder(R, X), NEW g \in Seq(X), NEW h \in Seq(X),
           Ordered(g, R), Ordered(h, R), Places(g) = Places(h)
    PROVE  g = h
<1>1. /\ \A i \in 1..Len(g) : i \in 1..Len(h) /\ g[i] = h[i]
      /\ \A i \in 1..Len(h) : i \in 1..Len(g) /\ h[i] = g[i]
  BY OneOrderHalf
<1>2. Len(g) \in Nat /\ Len(h) \in Nat
  OBVIOUS
<1>3. Len(g) = Len(h)
  BY <1>1, <1>2
<1>. QED BY <1>1, <1>3, SeqEqual

\* What is picked of a sequence stands at places that climb.
LEMMA PickedAlong ==
    ASSUME NEW S, NEW s \in Seq(S), NEW I
    PROVE  \E g \in Seq(1..Len(s)) : /\ Climbs(g) /\ Places(g) = I \cap (1..Len(s))
                                     /\ Picked(s, I) = Along(s, g)
<1>. DEFINE N == Len(s)
<1>1. PICK p : PickedSteps(S, s, I, p)
  BY PickedTable
<1>2. /\ p \in [0..N -> Seq(S)] /\ p[0] = <<>> /\ Picked(s, I) = p[N] /\ N \in Nat
      /\ \A i \in 1..N : p[i] = IF i \in I THEN Append(p[i-1], s[i]) ELSE p[i-1]
  BY <1>1 DEF PickedSteps
<1>. DEFINE Good(m, g) == /\ g \in Seq(1..N) /\ Climbs(g) /\ Places(g) = I \cap (1..m)
                          /\ p[m] = Along(s, g)
            P == {m \in 0..N : \E g : Good(m, g)}
<1>3. 0 \in P
  <2>1. <<>> \in Seq(1..N) /\ Len(<<>>) = 0 /\ 1..0 = {}
    OBVIOUS
  <2>2. Along(s, <<>>) = <<>>
    BY <2>1 DEF Along
  <2>3. Places(<<>>) = {} /\ Climbs(<<>>)
    BY <2>1 DEF Places, Climbs
  <2>4. Good(0, <<>>)
    BY <1>2, <2>1, <2>2, <2>3
  <2>. QED BY <1>2, <2>4
<1>4. ASSUME NEW m \in 1..N, m - 1 \in P PROVE m \in P
  <2>1. PICK g : Good(m - 1, g)
    BY <1>4
  <2>2. /\ g \in Seq(1..N) /\ Climbs(g) /\ Places(g) = I \cap (1..(m-1)) /\ p[m-1] = Along(s, g)
    BY <2>1
  <2>. HIDE DEF N
  <2>3. CASE m \notin I
    <3>1. Places(g) = I \cap (1..m)
      BY <1>2, <2>2, <2>3
    <3>2. Good(m, g)
      BY <1>2, <2>2, <2>3, <3>1
    <3>. QED BY <1>2, <3>2
  <2>4. CASE m \in I
    <3>. DEFINE h == Append(g, m)
                n == Len(g)
    <3>1. n \in Nat
      BY <2>2
    <3>2. /\ h \in Seq(1..N) /\ Len(h) = n + 1 /\ h[n + 1] = m
          /\ \A i \in 1..n : h[i] = g[i]
      BY <2>2, AppendProperties
    <3>3. \A i \in 1..n : g[i] < m
      <4>1. \A i \in 1..n : g[i] \in Places(g)
        BY DEF Places
      <4>2. \A x \in Places(g) : x < m
        BY <1>2, <2>2
      <4>. HIDE DEF n
      <4>. QED BY <4>1, <4>2 DEF n
    <3>. HIDE DEF h, n
    <3>4. Climbs(h)
      <4>1. ASSUME NEW i \in 1..(n + 1), NEW j \in 1..(n + 1), i < j PROVE h[i] < h[j]
        <5>1. i \in 1..n
          BY <3>1, <4>1
        <5>2. CASE j = n + 1
          BY <3>2, <3>3, <5>1, <5>2
        <5>3. CASE j # n + 1
          <6>1. j \in 1..n
            BY <3>1, <5>3
          <6>. QED BY <2>2, <3>2, <4>1, <5>1, <6>1 DEF Climbs, n
        <5>. QED BY <5>2, <5>3
      <4>. QED BY <3>2, <4>1 DEF Climbs
    <3>5. Places(h) = I \cap (1..m)
      <4>1. Places(h) = Places(g) \cup {m}
        <5>1. 1..Len(h) = (1..n) \cup {n + 1}
          BY <3>1, <3>2
        <5>. QED BY <3>2, <5>1 DEF Places, n
      <4>2. 1..m = 1..(m - 1) \cup {m}
        BY <1>2
      <4>. QED BY <2>2, <2>4, <4>1, <4>2
    <3>6. p[m] = Along(s, h)
      <4>1. p[m] = Append(Along(s, g), s[m])
        BY <1>2, <2>2, <2>4
      <4>2. /\ Along(s, g) \in Seq(S) /\ Len(Along(s, g)) = n
            /\ \A i \in 1..n : Along(s, g)[i] = s[g[i]]
        BY <2>2, AlongType DEF N, n
      <4>3. s[m] \in S
        BY DEF N
      <4>. DEFINE a == Along(s, g)
                  b == Along(s, h)
                  c == Append(a, s[m])
      <4>4. /\ b \in Seq(S) /\ Len(b) = n + 1 /\ \A i \in 1..(n + 1) : b[i] = s[h[i]]
        BY <3>2, AlongType DEF N
      <4>. HIDE DEF a, b
      <4>5. c \in Seq(S) /\ Len(c) = n + 1 /\ c[n + 1] = s[m] /\ \A i \in 1..n : c[i] = a[i]
        BY <4>2, <4>3, AppendProperties DEF a
      <4>. HIDE DEF c
      <4>6. \A i \in 1..(n + 1) : c[i] = b[i]
        <5>1. ASSUME NEW i \in 1..(n + 1) PROVE c[i] = b[i]
          <6>1. CASE i = n + 1
            BY <3>2, <4>4, <4>5, <6>1
          <6>2. CASE i # n + 1
            <7>1. i \in 1..n
              BY <3>1, <6>2
            <7>. QED BY <3>2, <4>2, <4>4, <4>5, <7>1 DEF a
          <6>. QED BY <6>1, <6>2
        <5>. QED BY <5>1
      <4>7. c = b
        BY <4>4, <4>5, <4>6, SeqEqual
      <4>. QED BY <4>1, <4>7 DEF a, b, c
    <3>7. Good(m, h)
      BY <3>2, <3>4, <3>5, <3>6
    <3>. QED BY <1>2, <3>7
  <2>. QED BY <2>3, <2>4
<1>5. \A m \in 0..N : m \in P
  <2>. HIDE DEF N, P
  <2>. QED BY <1>2, <1>3, <1>4, UpTo
<1>6. N \in P
  <2>. HIDE DEF N, P
  <2>. QED BY <1>2, <1>5
<1>. QED BY <1>2, <1>6

(***************************************************************************)
(* sort.less is a strict order that tells any two names apart.             *)
(***************************************************************************)
\* b is the greater at place i, where a has ended or has a smaller byte.
LessAt(a, b, i) ==
    /\ i \in 1..Len(b) /\ i - 1 <= Len(a)
    /\ \A j \in 1..(i - 1) : a[j] = b[j]
    /\ i <= Len(a) => a[i] < b[i]

LEMMA PrefixIs ==
    ASSUME NEW a \in Texts, NEW b \in Texts
    PROVE  IsPrefix(a, b) <=> Len(a) <= Len(b) /\ \A j \in 1..Len(a) : a[j] = b[j]
<1>1. Len(a) \in Nat /\ Len(b) \in Nat /\ a \in Seq(Nat) /\ b \in Seq(Nat)
  BY DEF Texts
<1>2. SubSeq(a, 1, Len(a)) = a
  BY <1>1, SubSeqFull
<1>3. ASSUME Len(a) <= Len(b)
      PROVE  SubSeq(b, 1, Len(a)) = a <=> \A j \in 1..Len(a) : a[j] = b[j]
  <2>. DEFINE c == SubSeq(b, 1, Len(a))
  <2>1. c \in Seq(Nat) /\ Len(c) = Len(a) /\ \A j \in 1..Len(a) : c[j] = b[j]
    BY <1>1, <1>3, SubSeqProperties
  <2>. HIDE DEF c
  <2>2. (\A j \in 1..Len(a) : a[j] = b[j]) => c = a
    BY <1>1, <2>1, SeqEqual
  <2>3. c = a => \A j \in 1..Len(a) : a[j] = b[j]
    BY <2>1
  <2>. QED BY <2>2, <2>3 DEF c
<1>. QED BY <1>2, <1>3 DEF IsPrefix

LEMMA LessIs ==
    ASSUME NEW a \in Texts, NEW b \in Texts
    PROVE  Less(a, b) <=> \E i \in Nat : LessAt(a, b, i)
<1>1. /\ Len(a) \in Nat /\ Len(b) \in Nat /\ a \in Seq(Nat) /\ b \in Seq(Nat)
      /\ DOMAIN a = 1..Len(a) /\ DOMAIN b = 1..Len(b)
  BY DEF Texts
<1>2. ASSUME Less(a, b) PROVE \E i \in Nat : LessAt(a, b, i)
  <2>1. CASE \E i \in DOMAIN a \cap DOMAIN b : a[i] < b[i] /\ \A j \in 1..(i - 1) : a[j] = b[j]
    BY <1>1, <2>1 DEF LessAt
  <2>2. CASE IsStrictPrefix(a, b)
    <3>1. Len(a) <= Len(b) /\ (\A j \in 1..Len(a) : a[j] = b[j]) /\ a # b
      BY <2>2, PrefixIs DEF IsStrictPrefix
    <3>2. Len(a) # Len(b)
      BY <1>1, <3>1, SeqEqual
    <3>. DEFINE i == Len(a) + 1
    <3>3. i \in 1..Len(b) /\ i \in Nat /\ i - 1 = Len(a) /\ ~ (i <= Len(a))
      <4>. DEFINE m == Len(a)
                  n == Len(b)
      <4>1. m \in Nat /\ n \in Nat /\ m <= n /\ m # n
        BY <1>1, <3>1, <3>2
      <4>. HIDE DEF m, n
      <4>2. m + 1 \in 1..n /\ m + 1 \in Nat /\ m + 1 - 1 = m /\ ~ (m + 1 <= m)
        BY <4>1
      <4>. QED BY <4>2 DEF m, n
    <3>. HIDE DEF i
    <3>4. LessAt(a, b, i)
      BY <1>1, <3>1, <3>3 DEF LessAt
    <3>. QED BY <3>3, <3>4
  <2>. QED BY <1>2, <2>1, <2>2 DEF Less
<1>3. ASSUME NEW i \in Nat, LessAt(a, b, i) PROVE Less(a, b)
  <2>1. CASE i <= Len(a)
    BY <1>1, <1>3, <2>1 DEF LessAt, Less
  <2>2. CASE ~ (i <= Len(a))
    <3>1. i = Len(a) + 1 /\ i <= Len(b) /\ \A j \in 1..Len(a) : a[j] = b[j]
      BY <1>1, <1>3, <2>2 DEF LessAt
    <3>2. IsPrefix(a, b) /\ a # b
      BY SMTT(30), <1>1, <3>1, PrefixIs
    <3>. QED BY <3>2 DEF Less, IsStrictPrefix
  <2>. QED BY <2>1, <2>2
<1>. QED BY <1>2, <1>3

LEMMA LessIrreflexive == ASSUME NEW a \in Texts PROVE ~ Less(a, a)
<1>1. \A i \in 1..Len(a) : a[i] \in Nat
  BY DEF Texts
<1>2. Len(a) \in Nat
  BY DEF Texts
<1>. QED BY <1>1, <1>2, LessIs DEF LessAt

LEMMA LessTransitive ==
    ASSUME NEW a \in Texts, NEW b \in Texts, NEW c \in Texts, Less(a, b), Less(b, c)
    PROVE  Less(a, c)
<1>1. /\ Len(a) \in Nat /\ Len(b) \in Nat /\ Len(c) \in Nat
      /\ \A i \in 1..Len(a) : a[i] \in Nat
      /\ \A i \in 1..Len(b) : b[i] \in Nat
      /\ \A i \in 1..Len(c) : c[i] \in Nat
  BY DEF Texts
<1>2. PICK i \in Nat : LessAt(a, b, i)
  BY LessIs
<1>3. PICK k \in Nat : LessAt(b, c, k)
  BY LessIs
<1>4. /\ i \in 1..Len(b) /\ i - 1 <= Len(a) /\ (\A j \in 1..(i - 1) : a[j] = b[j])
      /\ (i <= Len(a) => a[i] < b[i])
  BY <1>2 DEF LessAt
<1>5. /\ k \in 1..Len(c) /\ k - 1 <= Len(b) /\ (\A j \in 1..(k - 1) : b[j] = c[j])
      /\ (k <= Len(b) => b[k] < c[k])
  BY <1>3 DEF LessAt
<1>6. CASE i < k
  <2>1. i \in 1..(k - 1) /\ i \in 1..Len(c) /\ b[i] = c[i]
    BY <1>1, <1>4, <1>5, <1>6
  <2>2. \A j \in 1..(i - 1) : j \in 1..(k - 1)
    BY <1>6
  <2>3. \A j \in 1..(i - 1) : a[j] = c[j]
    BY <1>4, <1>5, <2>2
  <2>4. LessAt(a, c, i)
    BY <1>4, <2>1, <2>3 DEF LessAt
  <2>. QED BY <2>4, LessIs
<1>7. CASE i = k
  <2>1. \A j \in 1..(i - 1) : a[j] = c[j]
    BY <1>4, <1>5, <1>7
  <2>2. b[i] < c[i] /\ i \in 1..Len(c)
    BY <1>1, <1>4, <1>5, <1>7
  <2>3. i <= Len(a) => a[i] < c[i]
    BY <1>1, <1>4, <2>2
  <2>4. LessAt(a, c, i)
    BY <1>4, <2>1, <2>2, <2>3 DEF LessAt
  <2>. QED BY <2>4, LessIs
<1>8. CASE i > k
  <2>1. k \in 1..(i - 1) /\ k <= Len(a) /\ k <= Len(b) /\ a[k] = b[k]
    BY <1>1, <1>4, <1>5, <1>8
  <2>2. \A j \in 1..(k - 1) : j \in 1..(i - 1)
    BY <1>8
  <2>3. \A j \in 1..(k - 1) : a[j] = c[j]
    BY <1>4, <1>5, <2>2
  <2>4. a[k] < c[k]
    BY <1>5, <2>1
  <2>5. LessAt(a, c, k)
    BY <1>1, <1>5, <2>1, <2>3, <2>4 DEF LessAt
  <2>. QED BY <2>5, LessIs
<1>. QED BY <1>6, <1>7, <1>8

LEMMA LessTotal ==
    ASSUME NEW a \in Texts, NEW b \in Texts, a # b PROVE Less(a, b) \/ Less(b, a)
<1>1. /\ Len(a) \in Nat /\ Len(b) \in Nat /\ a \in Seq(Nat) /\ b \in Seq(Nat)
      /\ \A i \in 1..Len(a) : a[i] \in Nat
      /\ \A i \in 1..Len(b) : b[i] \in Nat
  BY DEF Texts
<1>. DEFINE B == {i \in Nat \ {0} : /\ i <= Len(a) \/ i <= Len(b)
                                    /\ i <= Len(a) /\ i <= Len(b) => a[i] # b[i]}
<1>2. B # {}
  <2>. SUFFICES ASSUME B = {} PROVE FALSE
    OBVIOUS
  <2>1. \A i \in Nat \ {0} : i <= Len(a) \/ i <= Len(b) => i <= Len(a) /\ i <= Len(b) /\ a[i] = b[i]
    OBVIOUS
  <2>2. Len(a) = Len(b)
    BY <1>1, <2>1
  <2>3. \A i \in 1..Len(a) : a[i] = b[i]
    BY <1>1, <2>1
  <2>. QED BY <1>1, <2>2, <2>3, SeqEqual
<1>3. PICK i \in B : \A j \in B : i <= j
  <2>1. B \in SUBSET Nat
    OBVIOUS
  <2>. HIDE DEF B
  <2>. QED BY <1>2, <2>1, LeastNatural
<1>4. /\ i \in Nat \ {0} /\ (i <= Len(a) \/ i <= Len(b))
      /\ (i <= Len(a) /\ i <= Len(b) => a[i] # b[i])
  OBVIOUS
<1>5. \A j \in 1..(i - 1) : j <= Len(a) /\ j <= Len(b) /\ a[j] = b[j]
  <2>1. ASSUME NEW j \in 1..(i - 1) PROVE j \in Nat \ {0} /\ j \notin B /\ (j <= Len(a) \/ j <= Len(b))
    <3>1. j \in Nat \ {0} /\ j < i
      BY <1>4
    <3>2. j \notin B
      <4>. HIDE DEF B
      <4>. QED BY <1>3, <1>4, <3>1
    <3>. QED BY <1>1, <1>4, <3>1, <3>2
  <2>. QED BY <2>1
<1>6. i - 1 <= Len(a) /\ i - 1 <= Len(b)
  <2>1. CASE i = 1
    BY <1>1, <2>1
  <2>2. CASE i # 1
    <3>1. i - 1 \in 1..(i - 1)
      BY <1>4, <2>2
    <3>. QED BY <1>5, <3>1
  <2>. QED BY <2>1, <2>2
<1>. HIDE DEF B
<1>7. LessAt(a, b, i) \/ LessAt(b, a, i)
  BY <1>1, <1>4, <1>5, <1>6 DEF LessAt
<1>. QED BY <1>4, <1>7, LessIs

(***************************************************************************)
(* What KVSlice makes of pairs taken at some places: the places ordered by *)
(* name, and by place where the names are one.                             *)
(***************************************************************************)
Precedes(kvs) ==
    {z \in (1..Len(kvs)) \X (1..Len(kvs)) :
       \/ Less(kvs[z[1]][1], kvs[z[2]][1])
       \/ kvs[z[1]][1] = kvs[z[2]][1] /\ z[1] < z[2]}
\* Pairs of one name are in the order in which they were given.
Stable(kvs, g) ==
    \A i, j \in 1..Len(g) : i < j /\ kvs[g[i]][1] = kvs[g[j]][1] => g[i] < g[j]

LEMMA PrecedesIs ==
    ASSUME NEW kvs, NEW x \in 1..Len(kvs), NEW y \in 1..Len(kvs)
    PROVE  <<x, y>> \in Precedes(kvs) <=>
             \/ Less(kvs[x][1], kvs[y][1])
             \/ kvs[x][1] = kvs[y][1] /\ x < y
BY DEF Precedes

LEMMA NamesAre ==
    ASSUME NEW kvs \in Pairs
    PROVE  Len(kvs) \in Nat /\ \A x \in 1..Len(kvs) : kvs[x][1] \in Texts
BY PairBytesAre

LEMMA PrecedesOrders == ASSUME NEW kvs \in Pairs PROVE StrictOrder(Precedes(kvs), 1..Len(kvs))
<1>1. Len(kvs) \in Nat /\ \A x \in 1..Len(kvs) : kvs[x][1] \in Texts
  BY NamesAre
<1>2. ASSUME NEW x \in 1..Len(kvs) PROVE <<x, x>> \notin Precedes(kvs)
  BY <1>1, PrecedesIs, LessIrreflexive
<1>3. ASSUME NEW x \in 1..Len(kvs), NEW y \in 1..Len(kvs), NEW z \in 1..Len(kvs),
             <<x, y>> \in Precedes(kvs), <<y, z>> \in Precedes(kvs)
      PROVE  <<x, z>> \in Precedes(kvs)
  <2>. DEFINE a == kvs[x][1]
              b == kvs[y][1]
              c == kvs[z][1]
  <2>1. a \in Texts /\ b \in Texts /\ c \in Texts
    BY <1>1
  <2>2. (Less(a, b) \/ (a = b /\ x < y)) /\ (Less(b, c) \/ (b = c /\ y < z))
    BY <1>3, PrecedesIs
  <2>. HIDE DEF a, b, c
  <2>3. Less(a, c) \/ (a = c /\ x < z)
    <3>1. CASE Less(a, b) /\ Less(b, c)
      BY <2>1, <3>1, LessTransitive
    <3>2. CASE ~ (Less(a, b) /\ Less(b, c))
      BY <1>1, <2>2, <3>2
    <3>. QED BY <3>1, <3>2
  <2>. QED BY <2>3, PrecedesIs DEF a, b, c
<1>. QED BY <1>2, <1>3 DEF StrictOrder

Splice(s, x, n) == SubSeq(s, 1, n) \o <<x>> \o SubSeq(s, n + 1, Len(s))
SpliceOf(S, s, x, n, r) ==
    /\ r \in Seq(S) /\ Len(r) = Len(s) + 1
    /\ \A i \in 1..n : r[i] = s[i]
    /\ r[n + 1] = x
    /\ \A i \in (n + 2)..(Len(s) + 1) : r[i] = s[i - 1]

LEMMA Spliced ==
    ASSUME NEW S, NEW s \in Seq(S), NEW x \in S, NEW n \in 0..Len(s)
    PROVE  SpliceOf(S, s, x, n, Splice(s, x, n))
<1>. DEFINE r == Splice(s, x, n)
            N == Len(s)
            a == SubSeq(s, 1, n)
            b == SubSeq(s, n + 1, N)
            c == a \o <<x>>
<1>1. N \in Nat /\ n \in 0..N
  OBVIOUS
<1>2. a \in Seq(S) /\ Len(a) = n /\ \A i \in 1..n : a[i] = s[i]
  BY <1>1, SubSeqProperties
<1>3. b \in Seq(S) /\ Len(b) = N - n /\ \A i \in 1..(N - n) : b[i] = s[n + i]
  <2>1. b \in Seq(S) /\ Len(b) = N - n /\ \A i \in 1..(N - n) : b[i] = s[(n + 1) + i - 1]
    BY <1>1, SubSeqProperties
  <2>2. \A i \in 1..(N - n) : (n + 1) + i - 1 = n + i
    BY <1>1
  <2>. HIDE DEF b, N
  <2>. QED BY <2>1, <2>2
<1>4. <<x>> \in Seq(S) /\ Len(<<x>>) = 1 /\ <<x>>[1] = x
  OBVIOUS
<1>. HIDE DEF a, b, N
<1>5. c \in Seq(S) /\ Len(c) = n + 1 /\ c[n + 1] = x /\ \A i \in 1..n : c[i] = s[i]
  <2>1. /\ c \in Seq(S) /\ Len(c) = Len(a) + 1
        /\ \A i \in 1..Len(c) : c[i] = IF i <= Len(a) THEN a[i] ELSE <<x>>[i - Len(a)]
    BY <1>2, <1>4, ConcatProperties
  <2>. HIDE DEF c
  <2>2. n + 1 - n = 1 /\ n + 1 \in 1..(n + 1) /\ ~ (n + 1 <= n)
    BY <1>1
  <2>3. c[n + 1] = x
    BY <1>2, <1>4, <2>1, <2>2
  <2>4. \A i \in 1..n : i \in 1..(n + 1) /\ i <= n
    BY <1>1
  <2>. QED BY <1>2, <2>1, <2>3, <2>4
<1>6. r = c \o b
  BY DEF a, b, N, Splice
<1>. HIDE DEF c, r
<1>. DEFINE d == c \o b
<1>7. /\ d \in Seq(S) /\ Len(d) = Len(c) + Len(b)
      /\ \A i \in 1..(Len(c) + Len(b)) : d[i] = IF i <= Len(c) THEN c[i] ELSE b[i - Len(c)]
  BY Zenon, <1>3, <1>5, ConcatProperties
<1>. HIDE DEF d
<1>8. r \in Seq(S) /\ Len(r) = N + 1 /\ r = d
  <2>1. r = d
    BY <1>6 DEF d
  <2>2. n + 1 + (N - n) = N + 1
    BY <1>1
  <2>. QED BY <1>3, <1>5, <1>7, <2>1, <2>2
<1>9. \A i \in 1..(n + 1) : r[i] = c[i]
  <2>1. \A i \in 1..(n + 1) : i \in 1..(N + 1) /\ i <= n + 1
    BY <1>1
  <2>. QED BY <1>5, <1>7, <1>8, <2>1
<1>10. ASSUME NEW i \in (n + 2)..(N + 1) PROVE r[i] = s[i - 1]
  <2>1. i \in 1..(N + 1) /\ ~ (i <= n + 1) /\ i - (n + 1) \in 1..(N - n) /\ n + (i - (n + 1)) = i - 1
    BY <1>1
  <2>2. r[i] = b[i - (n + 1)]
    BY <1>5, <1>7, <1>8, <2>1
  <2>3. b[i - (n + 1)] = s[n + (i - (n + 1))]
    BY <1>3, <2>1
  <2>. QED BY <2>1, <2>2, <2>3
<1>11. n + 1 \in 1..(n + 1) /\ \A i \in 1..n : i \in 1..(n + 1)
  BY <1>1
<1>. QED BY <1>5, <1>7, <1>8, <1>9, <1>10, <1>11 DEF N, r, SpliceOf

\* The place that joins places in order.
LEMMA PlaceInserted ==
    ASSUME NEW kvs \in Pairs, NEW g \in Seq(1..Len(kvs)), Ordered(g, Precedes(kvs)),
           NEW x \in 1..Len(kvs),
           \A i \in 1..Len(g) : kvs[g[i]][1] = kvs[x][1] => g[i] < x
    PROVE  \E h \in Seq(1..Len(kvs)) :
              /\ Ordered(h, Precedes(kvs)) /\ Places(h) = Places(g) \cup {x}
              /\ Inserted(Along(kvs, g), kvs[x]) = Along(kvs, h)
<1>. DEFINE N == Len(kvs)
            S == Texts \X Texts
            m == Len(g)
            s == Along(kvs, g)
            y == kvs[x][1]
            R == Precedes(kvs)
<1>1. /\ N \in Nat /\ kvs \in Seq(S) /\ \A z \in 1..N : kvs[z][1] \in Texts /\ kvs[z] \in S
  <2>1. N \in Nat /\ kvs \in Seq(S) /\ \A z \in 1..N : kvs[z][1] \in Texts
    BY PairBytesAre DEF Pairs
  <2>2. \A z \in 1..N : kvs[z] \in S
    <3>. HIDE DEF S
    <3>. QED BY <2>1
  <2>. QED BY <2>1, <2>2
<1>2. s \in Seq(S) /\ Len(s) = m /\ m \in Nat /\ \A i \in 1..m : g[i] \in 1..N /\ s[i] = kvs[g[i]]
  BY <1>1, AlongType
<1>. HIDE DEF s, S
<1>3. PICK n \in 0..Len(s) :
              /\ Inserted(s, kvs[x]) = Splice(s, kvs[x], n)
              /\ n # 0 => ~ Less(y, s[n][1])
              /\ \A i \in (n + 1)..Len(s) : Less(y, s[i][1])
  BY <1>1, <1>2, InsertedAt DEF Splice
<1>. DEFINE h == Splice(g, x, n)
            r == Inserted(s, kvs[x])
<1>4. /\ h \in Seq(1..N) /\ Len(h) = m + 1
      /\ \A i \in 1..n : h[i] = g[i]
      /\ h[n + 1] = x
      /\ \A i \in (n + 2)..(m + 1) : h[i] = g[i - 1]
  <2>. DEFINE X == 1..N
  <2>1. g \in Seq(X) /\ x \in X /\ n \in 0..Len(g) /\ Len(g) = m
    BY <1>2
  <2>. HIDE DEF X, m
  <2>2. SpliceOf(X, g, x, n, Splice(g, x, n))
    BY <2>1, Spliced
  <2>. QED BY <2>1, <2>2 DEF X, SpliceOf
<1>5. /\ r \in Seq(S) /\ Len(r) = m + 1
      /\ \A i \in 1..n : r[i] = s[i]
      /\ r[n + 1] = kvs[x]
      /\ \A i \in (n + 2)..(m + 1) : r[i] = s[i - 1]
  <2>. DEFINE e == kvs[x]
  <2>1. e \in S /\ n \in 0..Len(s) /\ s \in Seq(S) /\ Len(s) = m
    BY <1>1, <1>2
  <2>2. r = Splice(s, e, n)
    BY <1>3
  <2>. HIDE DEF r, e, m
  <2>3. SpliceOf(S, s, e, n, Splice(s, e, n))
    BY <2>1, Spliced
  <2>. QED BY <2>1, <2>2, <2>3 DEF e, SpliceOf
<1>6. n \in 0..m
  BY <1>2
<1>. HIDE DEF h, r, m, N
<1>7. r = Along(kvs, h)
  <2>. DEFINE t == Along(kvs, h)
  <2>1. t \in Seq(S) /\ Len(t) = m + 1 /\ \A i \in 1..(m + 1) : t[i] = kvs[h[i]]
    BY <1>1, <1>4, AlongType DEF N
  <2>. HIDE DEF t
  <2>2. ASSUME NEW i \in 1..(m + 1) PROVE r[i] = t[i]
    <3>1. CASE i \in 1..n
      <4>1. i \in 1..m
        BY <1>2, <1>6, <3>1
      <4>2. r[i] = s[i] /\ h[i] = g[i]
        BY <1>4, <1>5, <3>1
      <4>3. s[i] = kvs[g[i]] /\ t[i] = kvs[h[i]]
        BY <1>2, <2>1, <4>1
      <4>. QED BY <4>2, <4>3
    <3>2. CASE i = n + 1
      BY <1>4, <1>5, <2>1, <3>2
    <3>3. CASE i \in (n + 2)..(m + 1)
      <4>. DEFINE k == i - 1
      <4>1. k \in 1..m
        BY <1>2, <1>6, <3>3
      <4>2. r[i] = s[k] /\ h[i] = g[k]
        BY <1>4, <1>5, <3>3
      <4>. HIDE DEF k
      <4>3. s[k] = kvs[g[k]] /\ t[i] = kvs[h[i]]
        BY <1>2, <2>1, <4>1
      <4>. QED BY <4>2, <4>3
    <3>. QED BY <1>2, <1>6, <3>1, <3>2, <3>3
  <2>3. r = t
    BY <1>5, <2>1, <2>2, SeqEqual
  <2>. QED BY <2>3 DEF t
<1>8. Places(h) = Places(g) \cup {x}
  <2>1. \A i \in 1..Len(h) : h[i] \in Places(g) \cup {x}
    <3>1. ASSUME NEW i \in 1..(m + 1) PROVE h[i] \in Places(g) \cup {x}
      <4>1. CASE i \in 1..n
        <5>1. i \in 1..m
          BY <1>2, <1>6, <4>1
        <5>. QED BY <1>4, <4>1, <5>1 DEF Places, m
      <4>2. CASE i = n + 1
        BY <1>4, <4>2
      <4>3. CASE i \in (n + 2)..(m + 1)
        <5>1. i - 1 \in 1..m
          BY <1>2, <1>6, <4>3
        <5>. QED BY <1>4, <4>3, <5>1 DEF Places, m
      <4>. QED BY <1>2, <1>6, <4>1, <4>2, <4>3
    <3>. QED BY <1>4, <3>1
  <2>2. x \in Places(h)
    <3>1. n + 1 \in 1..Len(h)
      BY <1>2, <1>4, <1>6
    <3>. QED BY <1>4, <3>1 DEF Places
  <2>3. ASSUME NEW i \in 1..m PROVE g[i] \in Places(h)
    <3>1. CASE i \in 1..n
      <4>1. i \in 1..Len(h)
        BY <1>2, <1>4, <1>6, <3>1
      <4>. QED BY <1>4, <3>1, <4>1 DEF Places
    <3>2. CASE i \notin 1..n
      <4>. DEFINE k == i + 1
      <4>1. k \in 1..Len(h) /\ k \in (n + 2)..(m + 1) /\ k - 1 = i
        BY <1>2, <1>4, <1>6, <3>2
      <4>. HIDE DEF k
      <4>2. h[k] = g[i]
        BY <1>4, <4>1
      <4>. QED BY <4>1, <4>2 DEF Places
    <3>. QED BY <3>1, <3>2
  <2>4. \A z \in Places(g) : z \in Places(h)
    BY <2>3 DEF Places, m
  <2>. QED BY <2>1, <2>2, <2>4 DEF Places
<1>9. Ordered(h, R)
  <2>1. \A i, j \in 1..m : i < j => <<g[i], g[j]>> \in R
    BY DEF Ordered, m
  <2>. DEFINE c(i) == kvs[g[i]][1]
  <2>2. \A i \in 1..m : c(i) \in Texts /\ s[i][1] = c(i) /\ g[i] \in 1..N
    BY <1>1, <1>2
  <2>3. y \in Texts
    BY <1>1 DEF N
  <2>4. ASSUME NEW i \in 1..n PROVE <<g[i], x>> \in R
    <3>1. n \in 1..m /\ i \in 1..m /\ n # 0
      BY <1>2, <1>6
    <3>2. ~ Less(y, c(n))
      BY <1>3, <2>2, <3>1
    <3>. HIDE DEF y, R
    <3>3. Less(c(n), y) \/ c(n) = y
      BY <2>2, <2>3, <3>1, <3>2, LessTotal
    <3>4. Less(c(i), c(n)) \/ c(i) = c(n)
      <4>1. CASE i = n
        BY <4>1
      <4>2. CASE i # n
        <5>1. <<g[i], g[n]>> \in R
          BY <1>6, <2>1, <3>1, <4>2
        <5>. QED BY <2>2, <3>1, <5>1, PrecedesIs DEF R, N
      <4>. QED BY <4>1, <4>2
    <3>5. Less(c(i), y) \/ c(i) = y
      <4>. DEFINE p == c(i)
                  q == c(n)
      <4>1. p \in Texts /\ q \in Texts /\ (Less(q, y) \/ q = y) /\ (Less(p, q) \/ p = q)
        BY <2>2, <3>1, <3>3, <3>4
      <4>. HIDE DEF p, q
      <4>2. Less(p, y) \/ p = y
        BY <2>3, <4>1, LessTransitive
      <4>. QED BY <4>2 DEF p
    <3>6. c(i) = y => g[i] < x
      BY <3>1 DEF y, m
    <3>7. x \in 1..N
      BY DEF N
    <3>. QED BY <2>2, <3>1, <3>5, <3>6, <3>7, PrecedesIs DEF y, R, N
  <2>5. ASSUME NEW i \in (n + 1)..m PROVE <<x, g[i]>> \in R
    <3>1. i \in 1..m
      BY <1>2, <1>6
    <3>2. Less(y, c(i))
      BY <1>2, <1>3, <2>2, <3>1
    <3>3. x \in 1..N /\ g[i] \in 1..N
      BY <2>2, <3>1 DEF N
    <3>. QED BY <3>2, <3>3, PrecedesIs DEF N
  <2>. HIDE DEF R, c
  <2>6. ASSUME NEW i \in 1..(m + 1), NEW j \in 1..(m + 1), i < j PROVE <<h[i], h[j]>> \in R
    <3>1. CASE j \in 1..n
      <4>1. i \in 1..n /\ i \in 1..m /\ j \in 1..m
        BY <1>2, <1>6, <2>6, <3>1
      <4>. QED BY <1>4, <2>1, <2>6, <3>1, <4>1
    <3>2. CASE j = n + 1
      <4>1. i \in 1..n
        BY <1>6, <2>6, <3>2
      <4>. QED BY <1>4, <2>4, <3>2, <4>1
    <3>3. CASE j \in (n + 2)..(m + 1)
      <4>1. j - 1 \in 1..m /\ h[j] = g[j - 1]
        BY <1>2, <1>4, <1>6, <3>3
      <4>2. CASE i \in 1..n
        <5>1. i \in 1..m /\ i < j - 1
          BY <1>2, <1>6, <3>3, <4>2
        <5>. QED BY <1>4, <2>1, <4>1, <4>2, <5>1
      <4>3. CASE i = n + 1
        <5>1. j - 1 \in (n + 1)..m
          BY <1>2, <1>6, <3>3
        <5>. QED BY <1>4, <2>5, <4>1, <4>3, <5>1
      <4>4. CASE i \in (n + 2)..(m + 1)
        <5>1. i - 1 \in 1..m /\ i - 1 < j - 1 /\ h[i] = g[i - 1]
          BY <1>2, <1>4, <1>6, <2>6, <4>4
        <5>. QED BY <2>1, <4>1, <5>1
      <4>. QED BY <1>2, <1>6, <4>2, <4>3, <4>4
    <3>. QED BY <1>2, <1>6, <3>1, <3>2, <3>3
  <2>. QED BY <1>4, <2>6 DEF Ordered
<1>. QED BY <1>4, <1>7, <1>8, <1>9 DEF r, s, N

\* A place that comes after those in order is after the ones of its name.
LEMMA StableSteps ==
    ASSUME NEW kvs \in Pairs, NEW g \in Seq(1..Len(kvs)), Stable(kvs, g),
           NEW h \in Seq(1..Len(kvs)), NEW m \in 1..Len(g),
           Places(h) = {g[i] : i \in 1..(m - 1)}
    PROVE  \A i \in 1..Len(h) : kvs[h[i]][1] = kvs[g[m]][1] => h[i] < g[m]
<1>. SUFFICES ASSUME NEW i \in 1..Len(h), kvs[h[i]][1] = kvs[g[m]][1] PROVE h[i] < g[m]
  OBVIOUS
<1>1. h[i] \in {g[j] : j \in 1..(m - 1)}
  BY DEF Places
<1>2. PICK j \in 1..(m - 1) : h[i] = g[j]
  BY <1>1
<1>3. j \in 1..Len(g) /\ j < m
  OBVIOUS
<1>. QED BY <1>2, <1>3 DEF Stable

LEMMA Sorts ==
    ASSUME NEW kvs \in Pairs, NEW g \in Seq(1..Len(kvs)), Stable(kvs, g)
    PROVE  \E h \in Seq(1..Len(kvs)) :
              /\ Ordered(h, Precedes(kvs)) /\ Places(h) = Places(g)
              /\ KVSlice(Along(kvs, g)) = Along(kvs, h)
<1>. DEFINE N == Len(kvs)
            m == Len(g)
            s == Along(kvs, g)
            S == Texts \X Texts
            R == Precedes(kvs)
<1>1. kvs \in Seq(S) /\ N \in Nat /\ m \in Nat /\ \A i \in 1..m : g[i] \in 1..N
  <2>1. kvs \in Seq(S) /\ N \in Nat
    BY DEF Pairs
  <2>2. m \in Nat /\ \A i \in 1..m : g[i] \in 1..N
    OBVIOUS
  <2>. QED BY <2>1, <2>2
<1>2. s \in Seq(S) /\ Len(s) = m /\ \A i \in 1..m : s[i] = kvs[g[i]]
  BY <1>1, AlongType
<1>. HIDE DEF s, S
<1>3. PICK f \in [0..Len(s) -> Seq(S)] :
              /\ f[0] = <<>> /\ KVSlice(s) = f[Len(s)]
              /\ \A i \in 1..Len(s) : f[i] = Inserted(f[i-1], s[i])
  <2>1. s \in Seq(S)
    BY <1>2
  <2>2. PICK f \in [0..Len(s) -> Seq(S)] :
            /\ f[0] = <<>> /\ KVSlice(s) = f[Len(s)] /\ f[Len(s)] \in Seq(S)
            /\ \A i \in 1..Len(s) : f[i] = Inserted(f[i-1], s[i])
    BY <2>1, KVSliceTable
  <2>. QED BY <2>2
<1>. DEFINE Good(i, h) == /\ h \in Seq(1..N) /\ Ordered(h, R)
                          /\ Places(h) = {g[j] : j \in 1..i} /\ f[i] = Along(kvs, h)
            P == {i \in 0..m : \E h : Good(i, h)}
<1>4. 0 \in P
  <2>1. <<>> \in Seq(1..N) /\ Len(<<>>) = 0 /\ 1..0 = {}
    OBVIOUS
  <2>2. Along(kvs, <<>>) = <<>>
    BY <2>1 DEF Along
  <2>3. Places(<<>>) = {} /\ Ordered(<<>>, R) /\ {g[j] : j \in 1..0} = {}
    BY <2>1 DEF Places, Ordered
  <2>. HIDE DEF N, R
  <2>4. Good(0, <<>>)
    BY <1>3, <2>1, <2>2, <2>3
  <2>. HIDE DEF Good, m
  <2>. QED BY <1>1, <2>4
<1>5. ASSUME NEW i \in 1..m, i - 1 \in P PROVE i \in P
  <2>1. PICK h : Good(i - 1, h)
    BY <1>5
  <2>2. /\ h \in Seq(1..N) /\ Ordered(h, R)
        /\ Places(h) = {g[j] : j \in 1..(i-1)} /\ f[i-1] = Along(kvs, h)
    BY <2>1
  <2>. DEFINE x == g[i]
  <2>3. x \in 1..N /\ \A j \in 1..Len(h) : kvs[h[j]][1] = kvs[x][1] => h[j] < x
    BY <1>1, <2>2, StableSteps
  <2>. HIDE DEF x
  <2>4. PICK r \in Seq(1..N) : /\ Ordered(r, R) /\ Places(r) = Places(h) \cup {x}
                               /\ Inserted(Along(kvs, h), kvs[x]) = Along(kvs, r)
    BY <2>2, <2>3, PlaceInserted
  <2>5. f[i] = Along(kvs, r)
    BY <1>2, <1>3, <2>2, <2>4 DEF x
  <2>6. 1..i = 1..(i - 1) \cup {i}
    BY <1>1
  <2>7. Places(r) = {g[j] : j \in 1..i}
    BY <2>2, <2>4, <2>6 DEF x
  <2>. HIDE DEF N, R
  <2>8. Good(i, r)
    BY <2>4, <2>5, <2>7
  <2>. HIDE DEF Good, m
  <2>9. i \in 0..m
    BY <1>1
  <2>. QED BY <2>8, <2>9
<1>6. m \in P
  <2>1. \A i \in 0..m : i \in P
    <3>. HIDE DEF P, m
    <3>. QED BY <1>1, <1>4, <1>5, UpTo
  <2>. HIDE DEF P, m
  <2>. QED BY <1>1, <2>1
<1>7. PICK h : Good(m, h)
  BY <1>6
<1>. QED BY <1>2, <1>3, <1>7 DEF Places, s

\* The order in which pairs come does not matter, except for those of one name.
LEMMA SameSort ==
    ASSUME NEW kvs \in Pairs, NEW g \in Seq(1..Len(kvs)), NEW h \in Seq(1..Len(kvs)),
           Stable(kvs, g), Stable(kvs, h), Places(g) = Places(h)
    PROVE  KVSlice(Along(kvs, g)) = KVSlice(Along(kvs, h))
<1>. DEFINE X == 1..Len(kvs)
            R == Precedes(kvs)
<1>1. PICK a \in Seq(X) : /\ Ordered(a, R) /\ Places(a) = Places(g)
                          /\ KVSlice(Along(kvs, g)) = Along(kvs, a)
  BY Sorts
<1>2. PICK b \in Seq(X) : /\ Ordered(b, R) /\ Places(b) = Places(h)
                          /\ KVSlice(Along(kvs, h)) = Along(kvs, b)
  BY Sorts
<1>3. StrictOrder(R, X)
  BY PrecedesOrders
<1>. HIDE DEF X, R
<1>4. a = b
  BY <1>1, <1>2, <1>3, OneOrder
<1>. QED BY <1>1, <1>2, <1>4

(***************************************************************************)
(* The headers of a net/http request: one name's values after another's.   *)
(***************************************************************************)
JoinOf(s, g, h, c) ==
    /\ c \in Seq(1..Len(s)) /\ Len(c) = Len(g) + Len(h)
    /\ \A i \in 1..Len(g) : c[i] = g[i]
    /\ \A i \in 1..Len(h) : c[Len(g) + i] = h[i]
    /\ Places(c) = Places(g) \cup Places(h)
    /\ Along(s, c) = Along(s, g) \o Along(s, h)

LEMMA PlacesJoin ==
    ASSUME NEW S, NEW s \in Seq(S), NEW g \in Seq(1..Len(s)), NEW h \in Seq(1..Len(s))
    PROVE  JoinOf(s, g, h, g \o h)
<1>. DEFINE X == 1..Len(s)
            m == Len(g)
            n == Len(h)
            c == g \o h
            a == Along(s, g)
            b == Along(s, h)
            d == a \o b
            e == Along(s, c)
<1>1. m \in Nat /\ n \in Nat
  OBVIOUS
<1>2. /\ c \in Seq(X) /\ Len(c) = m + n
      /\ \A i \in 1..m : c[i] = g[i]
      /\ \A i \in 1..n : c[m + i] = h[i]
  <2>1. /\ c \in Seq(X) /\ Len(c) = m + n
        /\ \A i \in 1..(m + n) : c[i] = IF i <= m THEN g[i] ELSE h[i - m]
    <3>. HIDE DEF X
    <3>1. g \in Seq(X) /\ h \in Seq(X)
      BY DEF X
    <3>. QED BY Zenon, <3>1, ConcatProperties
  <2>. HIDE DEF c, m, n, X
  <2>3. \A i \in 1..m : i \in 1..(m + n) /\ i <= m
    BY <1>1
  <2>4. ASSUME NEW i \in 1..n PROVE c[m + i] = h[i]
    <3>. DEFINE k == m + i
    <3>1. k \in 1..(m + n) /\ ~ (k <= m) /\ k - m = i
      BY <1>1
    <3>. HIDE DEF k
    <3>2. c[k] = h[i]
      BY <2>1, <3>1
    <3>. QED BY <3>2 DEF k
  <2>5. \A i \in 1..m : c[i] = g[i]
    BY <2>1, <2>3
  <2>. QED BY <2>1, <2>4, <2>5
<1>3. a \in Seq(S) /\ Len(a) = m /\ \A i \in 1..m : a[i] = s[g[i]]
  BY AlongType
<1>4. b \in Seq(S) /\ Len(b) = n /\ \A i \in 1..n : b[i] = s[h[i]]
  BY AlongType
<1>. HIDE DEF c, a, b
<1>5. e \in Seq(S) /\ Len(e) = m + n /\ \A i \in 1..(m + n) : e[i] = s[c[i]]
  BY <1>2, AlongType
<1>6. /\ d \in Seq(S) /\ Len(d) = m + n
      /\ \A i \in 1..(m + n) : d[i] = IF i <= m THEN a[i] ELSE b[i - m]
  <2>1. /\ d \in Seq(S) /\ Len(d) = Len(a) + Len(b)
        /\ \A i \in 1..(Len(a) + Len(b)) : d[i] = IF i <= Len(a) THEN a[i] ELSE b[i - Len(a)]
    BY Zenon, <1>3, <1>4, ConcatProperties
  <2>. HIDE DEF d, m, n
  <2>. QED BY <1>3, <1>4, <2>1
<1>. HIDE DEF d, e, m, n
<1>7. ASSUME NEW i \in 1..(m + n) PROVE i \in 1..m \/ (i - m \in 1..n /\ m + (i - m) = i /\ ~ (i <= m))
  BY <1>1
<1>8. ASSUME NEW i \in 1..(m + n) PROVE d[i] = e[i]
  <2>1. CASE i \in 1..m
    <3>1. i <= m /\ d[i] = a[i]
      BY <1>1, <1>6, <2>1
    <3>. QED BY <1>2, <1>3, <1>5, <2>1, <3>1
  <2>2. CASE i - m \in 1..n /\ m + (i - m) = i /\ ~ (i <= m)
    <3>1. c[i] = h[i - m]
      BY <1>2, <2>2
    <3>. QED BY <1>4, <1>5, <1>6, <2>2, <3>1
  <2>. QED BY <1>7, <2>1, <2>2
<1>9. d = e
  BY <1>5, <1>6, <1>8, SeqEqual
<1>10. Places(c) = Places(g) \cup Places(h)
  <2>1. \A x \in Places(c) : x \in Places(g) \cup Places(h)
    <3>1. ASSUME NEW i \in 1..(m + n) PROVE c[i] \in Places(g) \cup Places(h)
      <4>1. CASE i \in 1..m
        BY <1>2, <4>1 DEF Places, m
      <4>2. CASE i - m \in 1..n /\ m + (i - m) = i
        <5>1. c[i] = h[i - m]
          BY <1>2, <4>2
        <5>. QED BY <4>2, <5>1 DEF Places, n
      <4>. QED BY <1>7, <4>1, <4>2
    <3>. QED BY <1>2, <3>1 DEF Places
  <2>2. ASSUME NEW i \in 1..m PROVE g[i] \in Places(c)
    <3>1. i \in 1..Len(c)
      BY <1>1, <1>2
    <3>. QED BY <1>2, <3>1 DEF Places
  <2>3. ASSUME NEW i \in 1..n PROVE h[i] \in Places(c)
    <3>. DEFINE k == m + i
    <3>1. k \in 1..Len(c)
      BY <1>1, <1>2
    <3>2. c[k] = h[i]
      BY <1>2
    <3>. HIDE DEF k
    <3>. QED BY <3>1, <3>2 DEF Places
  <2>. QED BY <2>1, <2>2, <2>3 DEF Places, m, n
<1>. QED BY <1>2, <1>9, <1>10 DEF JoinOf, X, c, d, e, a, b, m, n

\* An order that has every name of a request once.
LEMMA NamesInOrder ==
    ASSUME NEW hs \in Pairs, NEW order \in SetToSeqs(Names(hs))
    PROVE  /\ DOMAIN order = 1..Len(order) /\ Len(order) \in Nat
           /\ order \in Seq(Names(hs))
           /\ \A i, j \in 1..Len(order) : i # j => order[i] # order[j]
           /\ \A x \in 1..Len(hs) : \E i \in 1..Len(order) : order[i] = hs[x][1]
<1>. DEFINE N == Len(hs)
            T == Names(hs)
            c == Cardinality(T)
            f == [x \in 1..N |-> hs[x][1]]
<1>1. N \in Nat /\ DOMAIN hs = 1..N /\ T = {hs[x][1] : x \in 1..N}
  BY DEF Pairs, Names
<1>2. IsFiniteSet(T)
  <2>1. IsFiniteSet(1..N)
    BY <1>1, FS_Interval
  <2>2. f \in Surjection(1..N, T)
    BY <1>1 DEF Surjection
  <2>. HIDE DEF f, T, N
  <2>. QED BY <2>1, <2>2, FS_Surjection
<1>3. c \in Nat
  BY <1>2, FS_CardinalityType
<1>. HIDE DEF c, f
<1>4. order \in [1..c -> T] /\ \A i, j \in 1..c : i # j => order[i] # order[j]
  BY DEF SetToSeqs, c
<1>5. Cardinality(1..c) = c
  BY <1>3, FS_Interval
<1>6. order \in Injection(1..c, T)
  BY <1>4 DEF Injection, IsInjective
<1>. HIDE DEF T
<1>7. order \in Surjection(1..c, T)
  BY <1>2, <1>5, <1>6, FS_Injection DEF c
<1>8. \A t \in T : \E i \in 1..c : order[i] = t
  BY <1>7 DEF Surjection
<1>9. Len(order) = c /\ order \in Seq(T) /\ DOMAIN order = 1..c
  BY <1>3, <1>4
<1>. QED BY <1>1, <1>3, <1>4, <1>8, <1>9 DEF T

LEMMA ClimbsStable == ASSUME NEW kvs, NEW g, Climbs(g) PROVE Stable(kvs, g)
BY DEF Climbs, Stable

\* The values of one name follow those of others.
LEMMA StableJoin ==
    ASSUME NEW kvs \in Pairs, NEW g \in Seq(1..Len(kvs)), NEW h \in Seq(1..Len(kvs)),
           Stable(kvs, g), Climbs(h),
           \A x \in Places(g), y \in Places(h) : kvs[x][1] # kvs[y][1]
    PROVE  Stable(kvs, g \o h)
<1>. DEFINE S == Texts \X Texts
            m == Len(g)
            n == Len(h)
            c == g \o h
<1>1. kvs \in Seq(S) /\ m \in Nat /\ n \in Nat
  BY DEF Pairs
<1>2. JoinOf(kvs, g, h, c)
  <2>. HIDE DEF S
  <2>. QED BY <1>1, PlacesJoin
<1>3. /\ Len(c) = m + n
      /\ \A i \in 1..m : c[i] = g[i]
      /\ \A i \in 1..n : c[m + i] = h[i]
  BY <1>2 DEF JoinOf
<1>. HIDE DEF c
<1>4. ASSUME NEW i \in 1..(m + n), NEW j \in 1..(m + n), i < j, kvs[c[i]][1] = kvs[c[j]][1]
      PROVE  c[i] < c[j]
  <2>1. ASSUME NEW k \in 1..m PROVE k \in 1..m /\ c[k] = g[k] /\ c[k] \in Places(g)
    BY <1>3 DEF Places
  <2>2. ASSUME NEW k \in 1..(m + n), k > m
        PROVE  k - m \in 1..n /\ c[k] = h[k - m] /\ c[k] \in Places(h)
    <3>. DEFINE l == k - m
    <3>0. l \in 1..n /\ m + l = k
      BY <1>1, <2>2
    <3>. HIDE DEF l
    <3>1. c[k] = h[l]
      BY <1>3, <3>0
    <3>2. h[l] \in Places(h)
      BY <3>0 DEF Places
    <3>. QED BY <3>0, <3>1, <3>2 DEF l
  <2>. HIDE DEF m, n
  <2>3. CASE j \in 1..m
    <3>1. i \in 1..m
      BY <1>1, <1>4, <2>3
    <3>. QED BY <1>4, <2>1, <2>3, <3>1 DEF Stable, m
  <2>4. CASE i \in 1..m /\ j > m
    <3>1. c[i] \in Places(g) /\ c[j] \in Places(h)
      BY <2>1, <2>2, <2>4
    <3>. QED BY <1>4, <3>1
  <2>5. CASE i > m
    <3>. DEFINE a == i - m
                b == j - m
    <3>1. a \in 1..n /\ b \in 1..n /\ a < b /\ j > m
      BY <1>1, <1>4, <2>5
    <3>2. c[i] = h[a] /\ c[j] = h[b]
      BY <2>2, <2>5, <3>1
    <3>. HIDE DEF a, b
    <3>. QED BY <3>1, <3>2 DEF Climbs, n
  <2>. QED BY <1>1, <2>3, <2>4, <2>5
<1>. QED BY <1>3, <1>4 DEF Stable, c

LEMMA HeadersAgree ==
    ASSUME NEW hs \in Pairs, NEW rule, NEW order \in SetToSeqs(Names(hs))
    PROVE  HeadersNetHttp(rule, hs, order) = HeadersFastHttp(rule, hs)
<1>. DEFINE N == Len(hs)
            S == Texts \X Texts
            n == Len(order)
            I == {i \in DOMAIN hs : hs[i][1] \in rule.headers}
            Of(name) == {i \in DOMAIN hs : hs[i][1] = name}
            seqs == [i \in DOMAIN order |-> IF order[i] \in rule.headers
                                            THEN Picked(hs, Of(order[i])) ELSE <<>>]
            Block(m) == {x \in 1..N : hs[x][1] \in rule.headers /\ hs[x][1] = order[m]}
            Blocks(m) == {x \in 1..N : hs[x][1] \in rule.headers
                                       /\ \E i \in 1..m : order[i] = hs[x][1]}
<1>1. hs \in Seq(S) /\ N \in Nat /\ DOMAIN hs = 1..N
  BY DEF Pairs
<1>. HIDE DEF S
<1>2. /\ DOMAIN order = 1..n /\ n \in Nat
      /\ \A i, j \in 1..n : i # j => order[i] # order[j]
      /\ \A x \in 1..N : \E i \in 1..n : order[i] = hs[x][1]
  BY NamesInOrder
<1>3. /\ HeadersNetHttp(rule, hs, order) = KVSlice(FlattenSeq(seqs))
      /\ HeadersFastHttp(rule, hs) = KVSlice(Picked(hs, I))
  BY DEF HeadersNetHttp, HeadersFastHttp
<1>4. ASSUME NEW m \in 1..n
      PROVE  \E g \in Seq(1..N) : Climbs(g) /\ Places(g) = Block(m) /\ seqs[m] = Along(hs, g)
  <2>1. CASE order[m] \in rule.headers
    <3>1. PICK g \in Seq(1..N) : /\ Climbs(g) /\ Places(g) = Of(order[m]) \cap (1..N)
                                 /\ Picked(hs, Of(order[m])) = Along(hs, g)
      BY <1>1, PickedAlong
    <3>2. seqs[m] = Picked(hs, Of(order[m]))
      BY <1>2, <2>1
    <3>3. Of(order[m]) \cap (1..N) = Block(m)
      BY <1>1, <2>1
    <3>. QED BY <3>1, <3>2, <3>3
  <2>2. CASE order[m] \notin rule.headers
    <3>1. <<>> \in Seq(1..N) /\ Len(<<>>) = 0 /\ 1..0 = {}
      OBVIOUS
    <3>2. Along(hs, <<>>) = <<>> /\ Places(<<>>) = {} /\ Climbs(<<>>)
      BY <3>1 DEF Along, Places, Climbs
    <3>3. Block(m) = {} /\ seqs[m] = <<>>
      BY <1>2, <2>2
    <3>. HIDE DEF N
    <3>. QED BY <3>1, <3>2, <3>3
  <2>. QED BY <2>1, <2>2
<1>5. seqs \in Seq(Seq(S)) /\ Len(seqs) = n
  <2>1. \A m \in 1..n : seqs[m] \in Seq(S)
    <3>. HIDE DEF seqs, Block
    <3>. QED BY <1>1, <1>4, AlongType
  <2>2. seqs \in [1..n -> Seq(S)]
    <3>1. seqs = [m \in 1..n |-> seqs[m]]
      BY <1>2
    <3>. HIDE DEF seqs
    <3>. QED BY <2>1, <3>1
  <2>. HIDE DEF seqs
  <2>. QED BY <1>2, <2>2
<1>. HIDE DEF seqs, n
<1>6. PICK f : /\ f[0] = <<>> /\ \A i \in 1..n : f[i] = f[i-1] \o seqs[i]
               /\ FlattenSeq(seqs) = f[n]
  BY <1>5, Flattens
<1>. DEFINE Good(m, g) == /\ g \in Seq(1..N) /\ Stable(hs, g) /\ Places(g) = Blocks(m)
                          /\ f[m] = Along(hs, g)
            P == {m \in 0..n : \E g : Good(m, g)}
<1>7. 0 \in P
  <2>1. <<>> \in Seq(1..N) /\ Len(<<>>) = 0 /\ 1..0 = {}
    OBVIOUS
  <2>2. Along(hs, <<>>) = <<>> /\ Places(<<>>) = {} /\ Stable(hs, <<>>)
    BY <2>1 DEF Along, Places, Stable
  <2>3. Blocks(0) = {}
    BY <2>1
  <2>. HIDE DEF N, Blocks
  <2>4. Good(0, <<>>)
    BY <1>6, <2>1, <2>2, <2>3
  <2>. HIDE DEF Good
  <2>. QED BY <1>2, <2>4
<1>8. ASSUME NEW m \in 1..n, m - 1 \in P PROVE m \in P
  <2>1. PICK g : Good(m - 1, g)
    BY <1>8
  <2>2. /\ g \in Seq(1..N) /\ Stable(hs, g) /\ Places(g) = Blocks(m - 1)
        /\ f[m-1] = Along(hs, g)
    BY <2>1
  <2>3. PICK h \in Seq(1..N) : /\ Climbs(h) /\ Places(h) = Block(m) /\ seqs[m] = Along(hs, h)
    BY <1>4
  <2>. DEFINE c == g \o h
  <2>4. JoinOf(hs, g, h, c)
    BY <1>1, <2>2, <2>3, PlacesJoin
  <2>5. \A x \in Places(g), y \in Places(h) : hs[x][1] # hs[y][1]
    <3>1. ASSUME NEW x \in Blocks(m - 1), NEW y \in Block(m) PROVE hs[x][1] # hs[y][1]
      <4>1. PICK i \in 1..(m - 1) : order[i] = hs[x][1]
        OBVIOUS
      <4>2. i \in 1..n /\ i # m
        BY <1>2
      <4>. QED BY <1>2, <4>1, <4>2
    <3>. HIDE DEF Block, Blocks
    <3>. QED BY <2>2, <2>3, <3>1
  <2>6. Stable(hs, c)
    BY <2>2, <2>3, <2>5, StableJoin
  <2>7. Blocks(m) = Blocks(m - 1) \cup Block(m)
    <3>1. 1..m = 1..(m - 1) \cup {m}
      BY <1>2
    <3>. QED BY <3>1
  <2>. HIDE DEF c, Block, Blocks
  <2>8. /\ c \in Seq(1..N) /\ Places(c) = Blocks(m) /\ f[m] = Along(hs, c)
    BY <1>6, <2>2, <2>3, <2>4, <2>7 DEF JoinOf, c
  <2>9. Good(m, c)
    BY <2>6, <2>8
  <2>10. m \in 0..n
    BY <1>2
  <2>. HIDE DEF Good
  <2>. QED BY <2>9, <2>10
<1>9. n \in P
  <2>. HIDE DEF P
  <2>1. \A i \in 0..n : i \in P
    BY <1>2, <1>7, <1>8, UpTo
  <2>. QED BY <1>2, <2>1
<1>10. PICK g : Good(n, g)
  BY <1>9
<1>11. PICK h \in Seq(1..N) : /\ Climbs(h) /\ Places(h) = I \cap (1..N)
                              /\ Picked(hs, I) = Along(hs, h)
  <2>. HIDE DEF I
  <2>. QED BY <1>1, PickedAlong
<1>12. Blocks(n) = I \cap (1..N)
  BY <1>1, <1>2
<1>13. Stable(hs, h)
  BY <1>11, ClimbsStable
<1>14. KVSlice(Along(hs, g)) = KVSlice(Along(hs, h))
  <2>. HIDE DEF I, Blocks
  <2>1. g \in Seq(1..N) /\ Stable(hs, g) /\ Places(g) = Places(h)
    BY <1>10, <1>11, <1>12
  <2>. QED BY <1>11, <1>13, <2>1, SameSort
<1>. HIDE DEF I, Blocks
<1>. QED BY <1>3, <1>6, <1>10, <1>11, <1>14

(***************************************************************************)
(* The parameters of a query: the parts between its "&"s, each split in    *)
(* two.                                                                    *)
(***************************************************************************)
Splits(segs) == [i \in DOMAIN segs |-> SplitSegment(segs[i])]
Sides(args) == [i \in DOMAIN args |-> <<args[i].name, args[i].value>>]
\* A rule names no empty prefix.
Prefixed(rule) == \A p \in rule.query : p \in Texts \ {<<>>}

LEMMA OneClimb ==
    ASSUME NEW n \in Nat, NEW g \in Seq(1..n), NEW h \in Seq(1..n),
           Climbs(g), Climbs(h), Places(g) = Places(h)
    PROVE  g = h
<1>. DEFINE X == 1..n
            R == {z \in X \X X : z[1] < z[2]}
<1>1. \A x, y \in X : <<x, y>> \in R <=> x < y
  OBVIOUS
<1>. HIDE DEF R
<1>2. StrictOrder(R, X)
  BY <1>1 DEF StrictOrder
<1>3. Ordered(g, R) /\ Ordered(h, R)
  <2>1. ASSUME NEW s \in Seq(X), Climbs(s) PROVE Ordered(s, R)
    <3>1. \A i \in 1..Len(s) : s[i] \in X
      OBVIOUS
    <3>. HIDE DEF X
    <3>. QED BY <1>1, <2>1, <3>1 DEF Ordered, Climbs
  <2>. QED BY <2>1
<1>. HIDE DEF X
<1>4. g \in Seq(X) /\ h \in Seq(X)
  BY DEF X
<1>. QED BY <1>2, <1>3, <1>4, OneOrder

\* Picking of what was picked.
PickedTwice(s, d, J, g) ==
    /\ g \in Seq(1..Len(d)) /\ Climbs(g) /\ Places(g) = J \cap (1..Len(d))
    /\ Along(d, g) \in Seq(1..Len(s)) /\ Len(Along(d, g)) = Len(g)
    /\ \A i \in 1..Len(g) : g[i] \in 1..Len(d) /\ Along(d, g)[i] = d[g[i]]
    /\ Picked(Along(s, d), J) = Along(s, Along(d, g))

LEMMA PickedAgain ==
    ASSUME NEW S, NEW s \in Seq(S), NEW d \in Seq(1..Len(s)), NEW J
    PROVE  \E g : PickedTwice(s, d, J, g)
<1>. DEFINE a == Along(s, d)
            X == 1..Len(s)
<1>1. a \in Seq(S) /\ Len(a) = Len(d) /\ \A i \in 1..Len(d) : a[i] = s[d[i]]
  BY AlongType
<1>. HIDE DEF a
<1>2. PICK g \in Seq(1..Len(a)) : /\ Climbs(g) /\ Places(g) = J \cap (1..Len(a))
                                  /\ Picked(a, J) = Along(a, g)
  BY <1>1, PickedAlong
<1>3. g \in Seq(1..Len(d))
  BY <1>1
<1>. DEFINE b == Along(d, g)
<1>4. /\ b \in Seq(X) /\ Len(b) = Len(g) /\ Len(g) \in Nat
      /\ \A i \in 1..Len(g) : g[i] \in 1..Len(d) /\ b[i] = d[g[i]]
  <2>. HIDE DEF X
  <2>1. d \in Seq(X)
    BY DEF X
  <2>. QED BY <1>3, <2>1, AlongType
<1>. HIDE DEF b
<1>5. Along(a, g) = Along(s, b)
  <2>1. Along(a, g) \in Seq(S) /\ Len(Along(a, g)) = Len(g) /\ \A i \in 1..Len(g) : Along(a, g)[i] = a[g[i]]
    BY <1>1, <1>2, AlongType
  <2>2. Along(s, b) \in Seq(S) /\ Len(Along(s, b)) = Len(g) /\ \A i \in 1..Len(g) : Along(s, b)[i] = s[b[i]]
    BY <1>4, AlongType
  <2>3. \A i \in 1..Len(g) : Along(a, g)[i] = Along(s, b)[i]
    BY <1>1, <1>4, <2>1, <2>2
  <2>. QED BY <2>1, <2>2, <2>3, SeqEqual
<1>. QED BY <1>1, <1>2, <1>3, <1>4, <1>5 DEF PickedTwice, a, b

LEMMA PickedThrough ==
    ASSUME NEW S, NEW s \in Seq(S), NEW d \in Seq(1..Len(s)), Climbs(d), NEW I, NEW J,
           I \cap (1..Len(s)) \subseteq Places(d), \A i \in 1..Len(d) : i \in J <=> d[i] \in I
    PROVE  Picked(Along(s, d), J) = Picked(s, I)
<1>. DEFINE n == Len(s)
<1>1. PICK g : PickedTwice(s, d, J, g)
  BY PickedAgain
<1>2. PICK h \in Seq(1..n) : Climbs(h) /\ Places(h) = I \cap (1..n) /\ Picked(s, I) = Along(s, h)
  BY PickedAlong
<1>. DEFINE b == Along(d, g)
<1>3. /\ g \in Seq(1..Len(d)) /\ Climbs(g) /\ Places(g) = J \cap (1..Len(d))
      /\ b \in Seq(1..n) /\ Len(b) = Len(g)
      /\ \A i \in 1..Len(g) : g[i] \in 1..Len(d) /\ b[i] = d[g[i]]
      /\ Picked(Along(s, d), J) = Along(s, b)
  BY <1>1 DEF PickedTwice
<1>4. Len(d) \in Nat /\ n \in Nat /\ \A i \in 1..Len(d) : d[i] \in 1..n
  OBVIOUS
<1>. HIDE DEF b, n
<1>5. Climbs(b)
  <2>1. ASSUME NEW i \in 1..Len(g), NEW j \in 1..Len(g), i < j PROVE b[i] < b[j]
    <3>1. g[i] < g[j]
      BY <1>3, <2>1 DEF Climbs
    <3>2. d[g[i]] < d[g[j]]
      BY <1>3, <3>1 DEF Climbs
    <3>. QED BY <1>3, <3>2
  <2>. QED BY <1>3, <2>1 DEF Climbs
<1>6. Places(b) = I \cap (1..n)
  <2>1. ASSUME NEW i \in 1..Len(g) PROVE b[i] \in I \cap (1..n)
    <3>1. g[i] \in Places(g)
      BY DEF Places
    <3>2. g[i] \in J /\ g[i] \in 1..Len(d)
      BY <1>3, <3>1
    <3>. QED BY <1>3, <1>4, <3>2
  <2>2. ASSUME NEW x \in I \cap (1..n) PROVE x \in Places(b)
    <3>1. x \in Places(d)
      BY DEF n
    <3>2. PICK k \in 1..Len(d) : x = d[k]
      BY <3>1 DEF Places
    <3>3. k \in Places(g)
      BY <1>3, <3>2
    <3>4. PICK i \in 1..Len(g) : k = g[i]
      BY <3>3 DEF Places
    <3>. QED BY <1>3, <3>2, <3>4 DEF Places
  <2>3. \A x \in Places(b) : x \in I \cap (1..n)
    BY <1>3, <2>1 DEF Places
  <2>. QED BY <2>2, <2>3
<1>7. b = h
  BY <1>2, <1>3, <1>4, <1>5, <1>6, OneClimb
<1>. QED BY <1>2, <1>3, <1>7

LEMMA AllowedNamed ==
    ASSUME NEW rule, Prefixed(rule), NEW name \in Texts, Allowed(rule, name)
    PROVE  name # <<>>
<1>1. PICK p \in rule.query : IsPrefix(p, name)
  BY DEF Allowed
<1>2. p \in Texts /\ p # <<>>
  BY DEF Prefixed
<1>3. Len(p) <= Len(name)
  BY <1>1, <1>2, PrefixIs
<1>4. p \in Seq(Nat) /\ Len(p) \in Nat /\ Len(p) # 0
  BY <1>2, EmptySeq DEF Texts
<1>. QED BY <1>3, <1>4

LEMMA SplitsAre ==
    ASSUME NEW segs \in Seq(Texts)
    PROVE  /\ Splits(segs) \in Seq(Arg) /\ Len(Splits(segs)) = Len(segs) /\ Len(segs) \in Nat
           /\ DOMAIN segs = 1..Len(segs) /\ DOMAIN Splits(segs) = 1..Len(segs)
           /\ \A i \in 1..Len(segs) : /\ Splits(segs)[i] = SplitSegment(segs[i])
                                      /\ SplitSegment(segs[i]) \in Arg /\ segs[i] \in Texts
<1>1. Len(segs) \in Nat /\ DOMAIN segs = 1..Len(segs)
  OBVIOUS
<1>2. \A i \in 1..Len(segs) : segs[i] \in Texts /\ SplitSegment(segs[i]) \in Arg
  BY <1>1, SplitType
<1>3. Splits(segs) \in [1..Len(segs) -> Arg]
  BY <1>1, <1>2 DEF Splits
<1>. HIDE DEF Texts, Arg
<1>4. Splits(segs) \in Seq(Arg) /\ Len(Splits(segs)) = Len(segs)
  BY <1>1, <1>3
<1>. QED BY <1>1, <1>2, <1>3, <1>4 DEF Splits

LEMMA SidesAre ==
    ASSUME NEW args \in Seq(Arg)
    PROVE  /\ Sides(args) \in Pairs /\ Len(Sides(args)) = Len(args) /\ Len(args) \in Nat
           /\ DOMAIN args = 1..Len(args) /\ DOMAIN Sides(args) = 1..Len(args)
           /\ \A i \in 1..Len(args) : /\ args[i] \in Arg
                                      /\ args[i].name \in Texts /\ args[i].value \in Texts
                                      /\ Sides(args)[i] = <<args[i].name, args[i].value>>
                                      /\ Sides(args)[i][1] = args[i].name
<1>1. Len(args) \in Nat /\ DOMAIN args = 1..Len(args)
  OBVIOUS
<1>2. \A i \in 1..Len(args) : args[i] \in Arg
  OBVIOUS
<1>3. \A a \in Arg : a.name \in Texts /\ a.value \in Texts /\ <<a.name, a.value>> \in Texts \X Texts
  BY DEF Arg
<1>. HIDE DEF Arg, Texts
<1>4. Sides(args) \in [1..Len(args) -> Texts \X Texts]
  BY <1>1, <1>2, <1>3 DEF Sides
<1>5. Sides(args) \in Seq(Texts \X Texts) /\ Len(Sides(args)) = Len(args)
  BY <1>1, <1>4
<1>6. \A i \in 1..Len(args) : Sides(args)[i] = <<args[i].name, args[i].value>>
  BY <1>1 DEF Sides
<1>. QED BY <1>1, <1>2, <1>3, <1>4, <1>5, <1>6 DEF Pairs

LEMMA SidesAlong ==
    ASSUME NEW args \in Seq(Arg), NEW g \in Seq(1..Len(args))
    PROVE  Sides(Along(args, g)) = Along(Sides(args), g)
<1>. DEFINE a == Along(args, g)
            b == Sides(args)
            c == Sides(a)
            d == Along(b, g)
            S == Texts \X Texts
<1>1. a \in Seq(Arg) /\ Len(a) = Len(g) /\ \A i \in 1..Len(g) : g[i] \in 1..Len(args) /\ a[i] = args[g[i]]
  BY AlongType
<1>2. b \in Seq(S) /\ Len(b) = Len(args) /\ \A i \in 1..Len(args) : b[i] = <<args[i].name, args[i].value>>
  BY SidesAre DEF Pairs
<1>. HIDE DEF a, b
<1>3. c \in Seq(S) /\ Len(c) = Len(g) /\ \A i \in 1..Len(g) : c[i] = <<a[i].name, a[i].value>>
  BY <1>1, SidesAre DEF Pairs
<1>. HIDE DEF S
<1>4. g \in Seq(1..Len(b))
  BY <1>2
<1>5. d \in Seq(S) /\ Len(d) = Len(g) /\ \A i \in 1..Len(g) : d[i] = b[g[i]]
  BY <1>2, <1>4, AlongType
<1>6. \A i \in 1..Len(g) : c[i] = d[i]
  BY <1>1, <1>2, <1>3, <1>5
<1>. HIDE DEF c, d
<1>7. c = d
  BY <1>3, <1>5, <1>6, SeqEqual
<1>. QED BY <1>7 DEF a, b, c, d

\* The parameters the server takes of a query, and the pairs of a rule among them.
ArgsOf(segs) ==
    Picked(Splits(segs), {i \in 1..Len(segs) : \/ Splits(segs)[i].name # <<>>
                                               \/ Splits(segs)[i].value # <<>>})
Chosen(rule, segs) ==
    KVSlice(Picked(Sides(Splits(segs)), {i \in 1..Len(segs) : Allowed(rule, Splits(segs)[i].name)}))

LEMMA ArgsAre ==
    ASSUME NEW q \in Texts
    PROVE  Segments(q) \in Seq(Texts) \ {<<>>} /\ QueryArgs(q) = ArgsOf(Segments(q))
<1>. DEFINE segs == Segments(q)
            all == [i \in DOMAIN segs |-> SplitSegment(segs[i])]
<1>1. segs \in Seq(Texts) \ {<<>>}
  BY SegmentsTable
<1>2. QueryArgs(q) = Picked(all, {i \in DOMAIN all : all[i].name # <<>> \/ all[i].value # <<>>})
  BY DEF QueryArgs
<1>. HIDE DEF segs
<1>3. all = Splits(segs)
  BY DEF Splits
<1>4. DOMAIN all = 1..Len(segs)
  BY <1>1, <1>3, SplitsAre
<1>. QED BY <1>1, <1>2, <1>3, <1>4 DEF ArgsOf, segs

\* Leaving out, in order, what the rule does not ask for does not matter.
LEMMA ChosenThrough ==
    ASSUME NEW segs \in Seq(Texts), NEW rule, Prefixed(rule),
           NEW d \in Seq(1..Len(segs)), Climbs(d),
           \A x \in 1..Len(segs) : Allowed(rule, Splits(segs)[x].name) => x \in Places(d),
           NEW kvs, kvs = Along(Sides(Splits(segs)), d)
    PROVE  KVSlice(Picked(kvs, {i \in DOMAIN kvs : Allowed(rule, kvs[i][1])})) = Chosen(rule, segs)
<1>. DEFINE n == Len(segs)
            s == Sides(Splits(segs))
            S == Texts \X Texts
            I == {i \in 1..n : Allowed(rule, Splits(segs)[i].name)}
            J == {i \in DOMAIN kvs : Allowed(rule, kvs[i][1])}
<1>1. Splits(segs) \in Seq(Arg) /\ Len(Splits(segs)) = n /\ n \in Nat
  BY SplitsAre
<1>2. s \in Seq(S) /\ Len(s) = n /\ \A i \in 1..n : s[i][1] = Splits(segs)[i].name
  BY <1>1, SidesAre DEF Pairs
<1>. HIDE DEF s, S
<1>3. d \in Seq(1..Len(s))
  BY <1>2
<1>4. /\ kvs \in Seq(S) /\ Len(kvs) = Len(d)
      /\ \A i \in 1..Len(d) : d[i] \in 1..n /\ kvs[i] = s[d[i]]
  BY <1>2, <1>3, AlongType DEF s
<1>5. DOMAIN kvs = 1..Len(d)
  BY <1>4
<1>6. \A i \in 1..Len(d) : i \in J <=> d[i] \in I
  BY <1>2, <1>4, <1>5
<1>7. I \cap (1..Len(s)) \subseteq Places(d)
  BY <1>2
<1>. HIDE DEF I, J, n
<1>8. Picked(Along(s, d), J) = Picked(s, I)
  BY <1>2, <1>3, <1>6, <1>7, PickedThrough
<1>. QED BY <1>8 DEF Chosen, I, J, n, s

LEMMA FastIs ==
    ASSUME NEW segs \in Seq(Texts), NEW rule, Prefixed(rule)
    PROVE  QueriesFastHttp(rule, ArgsOf(segs)) = Chosen(rule, segs)
<1>. DEFINE all == Splits(segs)
            n == Len(segs)
            I == {i \in 1..n : all[i].name # <<>> \/ all[i].value # <<>>}
<1>1. all \in Seq(Arg) /\ Len(all) = n
  BY SplitsAre
<1>2. ArgsOf(segs) = Picked(all, I)
  BY DEF ArgsOf
<1>. HIDE DEF all, I
<1>3. PICK d \in Seq(1..Len(all)) : /\ Climbs(d) /\ Places(d) = I \cap (1..Len(all))
                                    /\ Picked(all, I) = Along(all, d)
  BY <1>1, PickedAlong
<1>4. Sides(ArgsOf(segs)) = Along(Sides(all), d)
  BY <1>1, <1>2, <1>3, SidesAlong
<1>5. ASSUME NEW x \in 1..n, Allowed(rule, all[x].name) PROVE x \in Places(d)
  <2>1. all[x] \in Arg
    BY <1>1
  <2>2. all[x].name \in Texts
    BY <2>1 DEF Arg
  <2>3. all[x].name # <<>>
    BY <1>5, <2>2, AllowedNamed
  <2>. QED BY <1>1, <1>3, <2>3 DEF I
<1>. DEFINE kvs == Sides(ArgsOf(segs))
<1>6. QueriesFastHttp(rule, ArgsOf(segs))
        = KVSlice(Picked(kvs, {i \in DOMAIN kvs : Allowed(rule, kvs[i][1])}))
  BY DEF QueriesFastHttp, Sides
<1>. HIDE DEF kvs
<1>7. d \in Seq(1..Len(segs))
  BY <1>1, <1>3
<1>. QED BY <1>3, <1>4, <1>5, <1>6, <1>7, ChosenThrough DEF kvs, all

(***************************************************************************)
(* The parser of the service takes the same parts, but for a first that is *)
(* empty.                                                                  *)
(***************************************************************************)
Over(b) == Seq({b[j] : j \in Int})
Scan(b) == [out : Seq(Over(b) \X Over(b)), k : Nat, v : Nat]

LEMMA FlushedType ==
    ASSUME NEW b, NEW s \in Scan(b), NEW e \in Int
    PROVE  Flushed(b, s, e) \in Seq(Over(b) \X Over(b))
<1>1. s.out \in Seq(Over(b) \X Over(b)) /\ s.k \in Nat /\ s.v \in Nat
  BY DEF Scan
<1>2. ASSUME NEW x \in Int, NEW y \in Int PROVE SubSeq(b, x, y) \in Over(b)
  <2>. DEFINE C == {b[j] : j \in Int}
  <2>1. \A i \in x..y : b[i] \in C
    OBVIOUS
  <2>. HIDE DEF C
  <2>2. SubSeq(b, x, y) \in Seq(C)
    BY <2>1, SubSeqProperties
  <2>. QED BY <2>2 DEF C, Over
<1>3. <<>> \in Over(b)
  BY DEF Over
<1>. HIDE DEF Over
<1>4. Pair(b, s, e) \in Over(b) \X Over(b)
  <2>1. s.v - 2 \in Int /\ s.k \in Int /\ s.v \in Int
    BY <1>1
  <2>. QED BY <1>2, <1>3, <2>1 DEF Pair
<1>. QED BY <1>1, <1>4, AppendProperties DEF Flushed

\* Parse goes through these states of the scan.
ParseSteps(query, h) ==
    /\ h \in [0..Len(TrimLeft(query)) -> Scan(TrimLeft(query))]
    /\ h[0] = [out |-> <<>>, k |-> 0, v |-> 0]
    /\ Parse(query) = Flushed(TrimLeft(query), h[Len(TrimLeft(query))], Len(TrimLeft(query)))
    /\ \A i \in 1..Len(TrimLeft(query)) : h[i] = ParseByte(TrimLeft(query), h[i-1], i)

LEMMA ParseTable ==
    ASSUME NEW query, TrimLeft(query) \in Texts
    PROVE  \E h : ParseSteps(query, h)
<1>. DEFINE n == Len(TrimLeft(query))
            T == Scan(TrimLeft(query))
            base == [out |-> <<>>, k |-> 0, v |-> 0]
            Body(i, x) == ParseByte(TrimLeft(query), x, i)
            Eqn(g) == g = [i \in 0..n |-> IF i = 0 THEN base ELSE Body(i, g[i-1])]
            step == [i \in 1..n |-> [x \in T |-> Body(i, x)]]
            h == CHOOSE g : Eqn(g)
<1>1. n \in Nat /\ base \in T
  BY DEF Scan, Texts
<1>2. ASSUME NEW i \in 1..n, NEW x \in T PROVE Body(i, x) \in T
  <2>. DEFINE b == TrimLeft(query)
  <2>1. x \in Scan(b) /\ i \in Nat /\ i - 1 \in Int
    BY <1>1, <1>2
  <2>. HIDE DEF b, n
  <2>2. /\ x.out \in Seq(Over(b) \X Over(b)) /\ x.k \in Nat /\ x.v \in Nat
        /\ x = [out |-> x.out, k |-> x.k, v |-> x.v]
    BY <2>1 DEF Scan
  <2>3. Flushed(b, x, i - 1) \in Seq(Over(b) \X Over(b))
    BY <2>1, FlushedType
  <2>4. [x EXCEPT !.v = i + 1] = [out |-> x.out, k |-> x.k, v |-> i + 1]
    BY <2>2
  <2>5. [x EXCEPT !.k = i] = [out |-> x.out, k |-> i, v |-> x.v]
    BY <2>2
  <2>6. ASSUME NEW o \in Seq(Over(b) \X Over(b)), NEW y \in Nat, NEW z \in Nat
        PROVE  [out |-> o, k |-> y, v |-> z] \in Scan(b)
    BY DEF Scan
  <2>. HIDE DEF T
  <2>7. [x EXCEPT !.v = i + 1] \in Scan(b) /\ [x EXCEPT !.k = i] \in Scan(b)
    <3>1. i + 1 \in Nat
      BY <2>1
    <3>2. [out |-> x.out, k |-> x.k, v |-> i + 1] \in Scan(b)
      BY <2>2, <2>6, <3>1
    <3>3. [out |-> x.out, k |-> i, v |-> x.v] \in Scan(b)
      BY <2>1, <2>2, <2>6
    <3>. QED BY <2>4, <2>5, <3>2, <3>3
  <2>8. [out |-> Flushed(b, x, i - 1), k |-> i + 1, v |-> 0] \in Scan(b)
    <3>. DEFINE o == Flushed(b, x, i - 1)
    <3>1. o \in Seq(Over(b) \X Over(b)) /\ i + 1 \in Nat /\ 0 \in Nat
      BY <2>1, <2>3
    <3>. HIDE DEF o
    <3>2. [out |-> o, k |-> i + 1, v |-> 0] \in Scan(b)
      BY <2>6, <3>1
    <3>. QED BY <3>2 DEF o
  <2>9. ParseByte(b, x, i) \in Scan(b)
    BY <2>1, <2>7, <2>8 DEF ParseByte
  <2>. QED BY <2>9 DEF T, b
<1>3. Parse(query) = Flushed(TrimLeft(query), h[n], n)
  BY DEF Parse
<1>4. h \in [0..n -> T] /\ h[n] \in T /\ h[0] = base /\ \A i \in 1..n : h[i] = Body(i, h[i-1])
  <2>. HIDE DEF n, T, base, Body
  <2>1. StepFunctions(n, T, base, step)
    BY <1>1, <1>2 DEF StepFunctions
  <2>2. \A i \in 1..n, x \in T : step[i][x] = Body(i, x)
    OBVIOUS
  <2>3. TakesThem(n, T, base, step, h)
    <3>. SUFFICES ASSUME NEW f \in [0..n -> T], Steps(n, base, step, f)
                  PROVE  /\ h = [i \in 0..n |-> h[i]] /\ h[0] = base
                         /\ \A i \in 1..n : h[i-1] \in T => h[i] = step[i][h[i-1]]
      BY DEF TakesThem
    <3>1. f[0] = base /\ \A i \in 1..n : f[i] = Body(i, f[i-1])
      <4>. HIDE DEF step
      <4>. QED BY <1>1, <2>2 DEF Steps
    <3>2. Eqn(f)
      BY <1>1, <3>1
    <3>3. Eqn(h)
      BY <3>2
    <3>. HIDE DEF h, step
    <3>. QED BY <1>1, <2>2, <3>3
  <2>. HIDE DEF step, h
  <2>4. TableOf(n, T, base, step, h)
    BY <2>1, <2>3, Recursive
  <2>5. \A i \in 1..n : h[i-1] \in T
    BY <1>1, <2>4 DEF TableOf
  <2>. QED BY <2>2, <2>4, <2>5 DEF TableOf, Steps
<1>. QED
  <2>. HIDE DEF h
  <2>. QED BY <1>3, <1>4 DEF ParseSteps

\* The parts so far, seen from the state of the parser: the last stands behind k, and
\* its value, if it has one, behind v.
PairOf(seg) == <<SplitSegment(seg).name, SplitSegment(seg).value>>
Skipped(b) == IF b[1] = Amp THEN 1 ELSE 0
Parted(b, s, i) ==
    \/ s.v = 0 /\ \A j \in s.k..i : b[j] # Eq
    \/ s.v \in (s.k + 1)..(i + 1) /\ b[s.v - 1] = Eq /\ \A j \in s.k..(s.v - 2) : b[j] # Eq
Tracks(b, c, s, i) ==
    /\ c \in Seq(Texts) /\ Len(c) > 0
    /\ b[1] = Amp => Len(c) > 1 /\ c[1] = <<>>
    /\ Len(s.out) = Len(c) - 1 - Skipped(b)
    /\ \A j \in 1..Len(s.out) : s.out[j] = PairOf(c[j + Skipped(b)])
    /\ s.k \in 1..(i + 1) /\ c[Len(c)] = SubSeq(b, s.k, i)
    /\ Parted(b, s, i)

LEMMA SubSub ==
    ASSUME NEW b \in Texts, NEW k \in Nat \ {0}, NEW i \in 0..Len(b), k <= i + 1,
           NEW x \in Nat \ {0}, NEW y \in 0..(i - k + 1), x <= y + 1
    PROVE  SubSeq(SubSeq(b, k, i), x, y) = SubSeq(b, k + x - 1, k + y - 1)
<1>. DEFINE seg == SubSeq(b, k, i)
            l == k + x - 1
            r == k + y - 1
            u == SubSeq(seg, x, y)
            v == SubSeq(b, l, r)
<1>1. b \in Seq(Nat) /\ Len(b) \in Nat /\ \A j \in 1..Len(b) : b[j] \in Nat
  BY DEF Texts
<1>2. seg \in Seq(Nat) /\ Len(seg) = i - k + 1 /\ \A j \in 1..(i - k + 1) : seg[j] = b[k + j - 1]
  <2>1. \A j \in k..i : b[j] \in Nat
    BY <1>1
  <2>2. /\ seg \in Seq(Nat) /\ Len(seg) = IF k <= i THEN i - k + 1 ELSE 0
        /\ \A j \in 1..(i - k + 1) : seg[j] = b[k + j - 1]
    BY <2>1, SubSeqProperties
  <2>. HIDE DEF seg
  <2>. QED BY <2>2
<1>. HIDE DEF seg
<1>3. u \in Seq(Nat) /\ Len(u) = y - x + 1 /\ \A j \in 1..(y - x + 1) : u[j] = seg[x + j - 1]
  <2>1. \A j \in x..y : seg[j] \in Nat
    BY <1>2
  <2>2. /\ u \in Seq(Nat) /\ Len(u) = IF x <= y THEN y - x + 1 ELSE 0
        /\ \A j \in 1..(y - x + 1) : u[j] = seg[x + j - 1]
    BY <2>1, SubSeqProperties
  <2>. HIDE DEF u
  <2>. QED BY <2>2
<1>4. l \in Nat \ {0} /\ r \in Nat /\ r <= i /\ l <= r + 1 /\ r - l + 1 = y - x + 1
  BY <1>1
<1>5. v \in Seq(Nat) /\ Len(v) = y - x + 1 /\ \A j \in 1..(y - x + 1) : v[j] = b[l + j - 1]
  <2>. HIDE DEF l, r
  <2>1. \A j \in l..r : b[j] \in Nat
    BY <1>1, <1>4
  <2>2. /\ v \in Seq(Nat) /\ Len(v) = IF l <= r THEN r - l + 1 ELSE 0
        /\ \A j \in 1..(r - l + 1) : v[j] = b[l + j - 1]
    BY <1>4, <2>1, SubSeqProperties
  <2>. HIDE DEF v
  <2>. QED BY <1>4, <2>2
<1>. HIDE DEF u, v
<1>6. ASSUME NEW j \in 1..(y - x + 1) PROVE u[j] = v[j]
  <2>. DEFINE z == x + j - 1
  <2>1. z \in 1..(i - k + 1) /\ k + z - 1 = l + j - 1
    BY <1>1
  <2>. HIDE DEF z, l
  <2>2. seg[z] = b[k + z - 1]
    BY <1>2, <2>1
  <2>3. u[j] = seg[z]
    BY <1>3 DEF z
  <2>4. v[j] = b[l + j - 1]
    BY <1>5
  <2>. QED BY <2>1, <2>2, <2>3, <2>4
<1>7. u = v
  BY <1>3, <1>5, <1>6, SeqEqual
<1>. QED BY <1>7 DEF u, v, seg

LEMMA PairIs ==
    ASSUME NEW b \in Texts, NEW i \in 0..Len(b), NEW s \in Scan(b), s.k \in 1..(i + 1),
           Parted(b, s, i)
    PROVE  SubSeq(b, s.k, i) \in Texts /\ Pair(b, s, i) = PairOf(SubSeq(b, s.k, i))
<1>. DEFINE k == s.k
            v == s.v
            seg == SubSeq(b, k, i)
            n == i - k + 1
<1>1. b \in Seq(Nat) /\ Len(b) \in Nat /\ k \in 1..(i + 1) /\ v \in Nat /\ n \in Nat
  BY DEF Texts, Scan
<1>2. \/ v = 0 /\ \A j \in k..i : b[j] # Eq
      \/ v \in (k + 1)..(i + 1) /\ b[v - 1] = Eq /\ \A j \in k..(v - 2) : b[j] # Eq
  BY DEF Parted
<1>3. Pair(b, s, i) = IF v = 0 THEN <<seg, <<>>>> ELSE <<SubSeq(b, k, v - 2), SubSeq(b, v, i)>>
  BY DEF Pair
<1>. HIDE DEF k, v
<1>4. seg \in Texts /\ Len(seg) = n /\ \A j \in 1..n : seg[j] = b[k + j - 1]
  <2>1. \A j \in k..i : b[j] \in Nat
    BY <1>1
  <2>2. /\ seg \in Seq(Nat) /\ Len(seg) = IF k <= i THEN n ELSE 0
        /\ \A j \in 1..n : seg[j] = b[k + j - 1]
    BY <1>1, <2>1, SubSeqProperties
  <2>3. Len(seg) = n
    <3>. HIDE DEF seg
    <3>. QED BY <1>1, <2>2
  <2>. QED BY <2>2, <2>3 DEF Texts
<1>. DEFINE sp == SplitSegment(seg)
<1>5. \/ /\ \A j \in 1..n : seg[j] # Eq
         /\ sp = [name |-> seg, value |-> <<>>, bare |-> TRUE]
      \/ \E p \in 1..n :
            /\ seg[p] = Eq /\ \A j \in 1..(p - 1) : seg[j] # Eq
            /\ sp = [name |-> SubSeq(seg, 1, p - 1), value |-> SubSeq(seg, p + 1, n), bare |-> FALSE]
  BY <1>4, SplitIs
<1>. HIDE DEF sp
<1>6. CASE v = 0
  <2>1. \A j \in k..i : b[j] # Eq
    BY <1>1, <1>2, <1>6
  <2>2. ASSUME NEW p \in 1..n, seg[p] = Eq PROVE FALSE
    <3>1. k + p - 1 \in k..i
      BY <1>1
    <3>2. b[k + p - 1] = Eq
      BY <1>4, <2>2
    <3>. QED BY <2>1, <3>1, <3>2
  <2>3. sp = [name |-> seg, value |-> <<>>, bare |-> TRUE]
    BY <1>5, <2>2
  <2>. HIDE DEF seg
  <2>. QED BY SMTT(30), <1>3, <1>4, <1>6, <2>3 DEF PairOf, sp, seg, k
<1>7. CASE v # 0
  <2>. DEFINE q == v - k
  <2>1. /\ v \in (k + 1)..(i + 1) /\ b[v - 1] = Eq /\ \A j \in k..(v - 2) : b[j] # Eq
    BY <1>2, <1>7
  <2>2. q \in 1..n /\ k + q - 1 = v - 1
    BY <1>1, <2>1
  <2>. HIDE DEF q
  <2>3. seg[q] = Eq
    BY <1>4, <2>1, <2>2
  <2>4. PICK p \in 1..n :
            /\ seg[p] = Eq /\ \A j \in 1..(p - 1) : seg[j] # Eq
            /\ sp = [name |-> SubSeq(seg, 1, p - 1), value |-> SubSeq(seg, p + 1, n), bare |-> FALSE]
    BY <1>5, <2>2, <2>3
  <2>5. p = q
    <3>1. ~ (q \in 1..(p - 1))
      BY <2>3, <2>4
    <3>2. ~ (p < q)
      <4>. SUFFICES ASSUME p < q PROVE FALSE
        OBVIOUS
      <4>1. k + p - 1 \in k..(v - 2)
        BY <1>1, <2>2
      <4>2. b[k + p - 1] = Eq
        BY <1>4, <2>4
      <4>. QED BY <2>1, <4>1, <4>2
    <3>. QED BY <1>1, <2>2, <3>1, <3>2
  <2>6. SubSeq(seg, 1, p - 1) = SubSeq(b, k, v - 2)
    <3>1. /\ k \in Nat \ {0} /\ i \in 0..Len(b) /\ k <= i + 1 /\ 1 \in Nat \ {0}
          /\ p - 1 \in 0..(i - k + 1) /\ 1 <= (p - 1) + 1
          /\ k + 1 - 1 = k /\ k + (p - 1) - 1 = v - 2
      BY <1>1, <2>2, <2>5 DEF q
    <3>2. SubSeq(seg, 1, p - 1) = SubSeq(b, k + 1 - 1, k + (p - 1) - 1)
      BY <3>1, SubSub
    <3>. QED BY <3>1, <3>2
  <2>7. SubSeq(seg, p + 1, n) = SubSeq(b, v, i)
    <3>1. /\ k \in Nat \ {0} /\ i \in 0..Len(b) /\ k <= i + 1 /\ p + 1 \in Nat \ {0}
          /\ n \in 0..(i - k + 1) /\ p + 1 <= n + 1
          /\ k + (p + 1) - 1 = v /\ k + n - 1 = i
      BY <1>1, <2>2, <2>5 DEF q
    <3>2. SubSeq(seg, p + 1, n) = SubSeq(b, k + (p + 1) - 1, k + n - 1)
      BY <3>1, SubSub
    <3>. QED BY <3>1, <3>2
  <2>. HIDE DEF seg, n
  <2>8. Pair(b, s, i) = <<sp.name, sp.value>>
    BY <1>3, <1>7, <2>4, <2>6, <2>7
  <2>. QED BY <1>4, <2>8 DEF PairOf, sp, seg, k
<1>. QED BY <1>6, <1>7

\* What a byte makes of the parts so far.
Cut(c, x) == IF x = Amp THEN Append(c, <<>>) ELSE [c EXCEPT ![Len(c)] = Append(@, x)]
Lengthened(c, x, e) ==
    /\ e \in Seq(Texts) /\ Len(e) = Len(c) /\ e[Len(c)] = Append(c[Len(c)], x)
    /\ \A j \in 1..(Len(c) - 1) : e[j] = c[j]

LEMMA Lengthens ==
    ASSUME NEW c \in Seq(Texts), Len(c) > 0, NEW x \in Nat, x # Amp
    PROVE  Lengthened(c, x, Cut(c, x)) /\ c[Len(c)] \in Texts
<1>. DEFINE n == Len(c)
            t == Append(c[n], x)
            e == [c EXCEPT ![n] = t]
<1>1. n \in Nat /\ n \in 1..n
  OBVIOUS
<1>2. c[n] \in Texts
  BY <1>1
<1>3. t \in Texts
  BY <1>2, AppendProperties DEF Texts
<1>4. Cut(c, x) = e
  BY DEF Cut
<1>. HIDE DEF t
<1>5. e \in Seq(Texts) /\ Len(e) = n /\ \A j \in 1..n : e[j] = IF j = n THEN t ELSE c[j]
  BY <1>1, <1>3, ExceptSeq
<1>. HIDE DEF e
<1>6. e[n] = t /\ \A j \in 1..(n - 1) : e[j] = c[j]
  BY <1>1, <1>5
<1>. QED BY <1>2, <1>4, <1>5, <1>6 DEF Lengthened, t

LEMMA Parts ==
    ASSUME NEW c \in Seq(Texts)
    PROVE  /\ Cut(c, Amp) \in Seq(Texts) /\ Len(Cut(c, Amp)) = Len(c) + 1
           /\ Cut(c, Amp)[Len(c) + 1] = <<>>
           /\ \A j \in 1..Len(c) : Cut(c, Amp)[j] = c[j]
<1>1. <<>> \in Texts
  BY DEF Texts
<1>2. Cut(c, Amp) = Append(c, <<>>)
  BY DEF Cut
<1>. QED BY <1>1, <1>2, AppendProperties

LEMMA SubSeqGrows ==
    ASSUME NEW b \in Texts, NEW i \in 1..Len(b), NEW k \in 1..i
    PROVE  SubSeq(b, k, i) = Append(SubSeq(b, k, i - 1), b[i])
<1>. DEFINE u == SubSeq(b, k, i)
            v == SubSeq(b, k, i - 1)
            w == Append(v, b[i])
            n == i - k
<1>1. b \in Seq(Nat) /\ Len(b) \in Nat /\ (\A j \in 1..Len(b) : b[j] \in Nat) /\ n \in Nat
  BY DEF Texts
<1>2. u \in Seq(Nat) /\ Len(u) = n + 1 /\ \A j \in 1..(n + 1) : u[j] = b[k + j - 1]
  <2>1. \A j \in k..i : b[j] \in Nat
    BY <1>1
  <2>2. /\ u \in Seq(Nat) /\ Len(u) = IF k <= i THEN i - k + 1 ELSE 0
        /\ \A j \in 1..(i - k + 1) : u[j] = b[k + j - 1]
    BY <2>1, SubSeqProperties
  <2>. HIDE DEF u
  <2>. QED BY <2>2
<1>3. v \in Seq(Nat) /\ Len(v) = n /\ \A j \in 1..n : v[j] = b[k + j - 1]
  <2>1. \A j \in k..(i - 1) : b[j] \in Nat
    BY <1>1
  <2>2. /\ v \in Seq(Nat) /\ Len(v) = IF k <= i - 1 THEN (i - 1) - k + 1 ELSE 0
        /\ \A j \in 1..((i - 1) - k + 1) : v[j] = b[k + j - 1]
    BY <2>1, SubSeqProperties
  <2>. HIDE DEF v
  <2>. QED BY <2>2
<1>. HIDE DEF u, v
<1>4. w \in Seq(Nat) /\ Len(w) = n + 1 /\ w[n + 1] = b[i] /\ \A j \in 1..n : w[j] = v[j]
  BY <1>1, <1>3, AppendProperties
<1>. HIDE DEF w
<1>5. ASSUME NEW j \in 1..(n + 1) PROVE u[j] = w[j]
  <2>1. CASE j = n + 1
    <3>1. k + j - 1 = i
      BY <1>1, <2>1
    <3>. QED BY <1>2, <1>4, <2>1, <3>1
  <2>2. CASE j # n + 1
    <3>1. j \in 1..n
      BY <1>1, <2>2
    <3>. QED BY <1>2, <1>3, <1>4, <3>1
  <2>. QED BY <2>1, <2>2
<1>6. u = w
  BY <1>2, <1>4, <1>5, SeqEqual
<1>. QED BY <1>6 DEF u, v, w

\* At an "&", or at the end, the last part joins the pairs.
LEMMA TracksFlush ==
    ASSUME NEW b \in Texts, NEW c, NEW i \in 0..Len(b), NEW s \in Scan(b), Tracks(b, c, s, i)
    PROVE  /\ Len(Flushed(b, s, i)) = Len(c) - Skipped(b)
           /\ \A j \in 1..(Len(c) - Skipped(b)) : Flushed(b, s, i)[j] = PairOf(c[j + Skipped(b)])
<1>. DEFINE m == Len(s.out)
            n == Len(c)
            d == Skipped(b)
            p == Pair(b, s, i)
            r == Append(s.out, p)
            S == Over(b) \X Over(b)
<1>1. /\ c \in Seq(Texts) /\ n > 0 /\ m = n - 1 - d
      /\ \A j \in 1..m : s.out[j] = PairOf(c[j + d])
      /\ s.k \in 1..(i + 1) /\ c[n] = SubSeq(b, s.k, i) /\ Parted(b, s, i)
  BY DEF Tracks
<1>2. n \in Nat /\ d \in Nat
  BY <1>1 DEF Skipped
<1>3. p = PairOf(c[n])
  BY <1>1, PairIs
<1>4. Flushed(b, s, i) = r
  BY <1>1 DEF Flushed
<1>5. s.out \in Seq(S) /\ m \in Nat /\ r \in Seq(S)
  <2>1. Flushed(b, s, i) \in Seq(S)
    BY FlushedType
  <2>2. s.out \in Seq(S)
    BY DEF Scan
  <2>. HIDE DEF S
  <2>. QED BY <1>4, <2>1, <2>2
<1>6. Len(r) = m + 1 /\ r[m + 1] = p /\ \A j \in 1..m : r[j] = s.out[j]
  <2>. HIDE DEF S, p
  <2>. QED BY <1>5
<1>. HIDE DEF m, n, d, p, r
<1>7. m + 1 = n - d /\ m + 1 + d = n
  BY <1>1, <1>2, <1>5
<1>8. ASSUME NEW j \in 1..(m + 1) PROVE r[j] = PairOf(c[j + d])
  <2>1. CASE j = m + 1
    BY <1>3, <1>6, <1>7, <2>1
  <2>2. CASE j # m + 1
    <3>1. j \in 1..m
      BY <1>5, <2>2
    <3>. QED BY <1>1, <1>6, <3>1
  <2>. QED BY <2>1, <2>2
<1>. QED BY <1>4, <1>6, <1>7, <1>8 DEF n, d

LEMMA TracksStart ==
    ASSUME NEW b \in Texts, Len(b) > 0, b[1] # Eq
    PROVE  Tracks(b, Cut(<<<<>>>>, b[1]), ParseByte(b, [out |-> <<>>, k |-> 0, v |-> 0], 1), 1)
<1>. DEFINE c == <<<<>>>>
            e == Cut(c, b[1])
            o == [out |-> <<>>, k |-> 0, v |-> 0]
            s == ParseByte(b, o, 1)
<1>1. c \in Seq(Texts) /\ Len(c) = 1 /\ c[1] = <<>> /\ b[1] \in Nat /\ 1 \in 1..Len(b)
  BY DEF Texts
<1>2. SubSeq(b, 1, 0) = <<>> /\ SubSeq(b, 2, 1) = <<>>
  BY SubSeqEmpty
<1>. HIDE DEF c
<1>3. CASE b[1] = Amp
  <2>1. e \in Seq(Texts) /\ Len(e) = 2 /\ e[2] = <<>> /\ e[1] = <<>>
    <3>. DEFINE f == Cut(c, Amp)
    <3>1. /\ f \in Seq(Texts) /\ Len(f) = Len(c) + 1 /\ f[Len(c) + 1] = <<>>
          /\ \A j \in 1..Len(c) : f[j] = c[j]
      BY <1>1, Parts
    <3>2. e = f
      BY <1>3
    <3>3. 1 \in 1..1 /\ 1 + 1 = 2
      OBVIOUS
    <3>. HIDE DEF e, f
    <3>. QED BY <1>1, <3>1, <3>2, <3>3
  <2>2. s = [out |-> <<>>, k |-> 2, v |-> 0]
    BY <1>3 DEF ParseByte, Flushed
  <2>3. Parted(b, s, 1)
    BY <2>2 DEF Parted
  <2>4. Skipped(b) = 1
    BY <1>3 DEF Skipped
  <2>. HIDE DEF e, s
  <2>5. s.out = <<>> /\ Len(<<>>) = 0 /\ s.k = 2
    BY <2>2
  <2>6. Tracks(b, e, s, 1)
    BY <1>2, <2>1, <2>3, <2>4, <2>5 DEF Tracks
  <2>. QED BY <2>6 DEF e, s, c
<1>4. CASE b[1] # Amp
  <2>1. Lengthened(c, b[1], e)
    BY <1>1, <1>4, Lengthens
  <2>2. e \in Seq(Texts) /\ Len(e) = 1 /\ e[1] = Append(<<>>, b[1])
    BY <1>1, <2>1 DEF Lengthened
  <2>3. s = [out |-> <<>>, k |-> 1, v |-> 0]
    BY <1>4 DEF ParseByte
  <2>4. SubSeq(b, 1, 1) = Append(<<>>, b[1])
    <3>1. 1 \in 1..Len(b) /\ 1 \in 1..1 /\ 1 - 1 = 0
      BY <1>1
    <3>2. SubSeq(b, 1, 1) = Append(SubSeq(b, 1, 1 - 1), b[1])
      BY <3>1, SubSeqGrows
    <3>. QED BY <1>2, <3>1, <3>2
  <2>5. Parted(b, s, 1)
    BY <2>3 DEF Parted
  <2>6. Skipped(b) = 0
    BY <1>4 DEF Skipped
  <2>. HIDE DEF e, s
  <2>7. s.out = <<>> /\ Len(<<>>) = 0 /\ s.k = 1
    BY <2>3
  <2>8. Tracks(b, e, s, 1)
    BY <1>4, <2>2, <2>4, <2>5, <2>6, <2>7 DEF Tracks
  <2>. QED BY <2>8 DEF e, s, c
<1>. QED BY <1>3, <1>4

LEMMA TracksStep ==
    ASSUME NEW b \in Texts, NEW i \in 1..Len(b), NEW c, NEW s \in Scan(b), Tracks(b, c, s, i - 1)
    PROVE  Tracks(b, Cut(c, b[i]), ParseByte(b, s, i), i)
<1>. DEFINE m == Len(s.out)
            n == Len(c)
            d == Skipped(b)
            e == Cut(c, b[i])
            r == ParseByte(b, s, i)
<1>1. /\ c \in Seq(Texts) /\ n > 0 /\ m = n - 1 - d
      /\ b[1] = Amp => n > 1 /\ c[1] = <<>>
      /\ \A j \in 1..m : s.out[j] = PairOf(c[j + d])
      /\ s.k \in 1..(i - 1 + 1) /\ c[n] = SubSeq(b, s.k, i - 1) /\ Parted(b, s, i - 1)
  BY DEF Tracks
<1>2. n \in Nat /\ d \in Nat /\ i \in Nat /\ i - 1 \in 0..Len(b) /\ i - 1 + 1 = i /\ b[i] \in Nat
  BY <1>1 DEF Skipped, Texts
<1>. HIDE DEF d
<1>3. CASE b[i] = Amp
  <2>. DEFINE f == Flushed(b, s, i - 1)
  <2>1. Len(f) = n - d /\ \A j \in 1..(n - d) : f[j] = PairOf(c[j + d])
    BY <1>2, TracksFlush DEF d
  <2>. HIDE DEF f
  <2>2. /\ e \in Seq(Texts) /\ Len(e) = n + 1 /\ e[n + 1] = <<>>
        /\ \A j \in 1..n : e[j] = c[j]
    BY <1>1, <1>3, Parts
  <2>3. r = [out |-> f, k |-> i + 1, v |-> 0]
    BY <1>3 DEF ParseByte, f
  <2>. HIDE DEF e, r, n
  <2>4. r.out = f /\ r.k = i + 1 /\ r.v = 0
    BY <2>3
  <2>5. SubSeq(b, i + 1, i) = <<>>
    BY <1>2, SubSeqEmpty
  <2>6. Parted(b, r, i)
    BY <1>2, <2>4 DEF Parted
  <2>7. \A j \in 1..(n - d) : f[j] = PairOf(e[j + d])
    <3>1. ASSUME NEW j \in 1..(n - d) PROVE j + d \in 1..n
      BY <1>2
    <3>. QED BY <2>1, <2>2, <3>1
  <2>8. n + 1 - 1 - d = n - d /\ n + 1 > 0 /\ i + 1 \in 1..(i + 1)
    BY <1>2
  <2>9. b[1] = Amp => n + 1 > 1 /\ e[1] = <<>>
    BY <1>1, <1>2, <2>2
  <2>10. /\ Len(e) > 0 /\ (b[1] = Amp => Len(e) > 1 /\ e[1] = <<>>)
         /\ Len(r.out) = Len(e) - 1 - d /\ e[Len(e)] = SubSeq(b, r.k, i) /\ r.k \in 1..(i + 1)
    BY <1>2, <2>1, <2>2, <2>4, <2>5, <2>8, <2>9
  <2>11. \A j \in 1..Len(r.out) : r.out[j] = PairOf(e[j + d])
    BY <2>1, <2>4, <2>7
  <2>12. Tracks(b, e, r, i)
    BY <2>2, <2>6, <2>10, <2>11 DEF Tracks, d
  <2>. QED BY <2>12 DEF e, r
<1>4. CASE b[i] # Amp
  <2>1. Lengthened(c, b[i], e)
    BY <1>1, <1>2, <1>4, Lengthens
  <2>2. /\ e \in Seq(Texts) /\ Len(e) = n /\ e[n] = Append(c[n], b[i])
        /\ \A j \in 1..(n - 1) : e[j] = c[j]
    BY <2>1 DEF Lengthened
  <2>3. SubSeq(b, s.k, i) = Append(c[n], b[i])
    <3>1. s.k \in 1..i
      BY <1>1, <1>2
    <3>2. SubSeq(b, s.k, i) = Append(SubSeq(b, s.k, i - 1), b[i])
      BY <3>1, SubSeqGrows
    <3>. QED BY <1>1, <3>2
  <2>4. s.out \in Seq(Over(b) \X Over(b)) /\ s.k \in Nat /\ s.v \in Nat
        /\ s = [out |-> s.out, k |-> s.k, v |-> s.v]
    BY DEF Scan
  <2>5. r = IF b[i] = Eq /\ s.v = 0 THEN [out |-> s.out, k |-> s.k, v |-> i + 1] ELSE s
    <3>1. [s EXCEPT !.v = i + 1] = [out |-> s.out, k |-> s.k, v |-> i + 1]
      BY <2>4
    <3>2. s.k # 0
      BY <1>1, <1>2
    <3>. QED BY <1>4, <3>1, <3>2 DEF ParseByte
  <2>. HIDE DEF e, r
  <2>6. r.out = s.out /\ r.k = s.k /\ r.v = IF b[i] = Eq /\ s.v = 0 THEN i + 1 ELSE s.v
    BY <2>5
  <2>7. Parted(b, r, i)
    <3>1. \/ s.v = 0 /\ \A j \in s.k..(i - 1) : b[j] # Eq
          \/ s.v \in (s.k + 1)..i /\ b[s.v - 1] = Eq /\ \A j \in s.k..(s.v - 2) : b[j] # Eq
      BY <1>1, <1>2 DEF Parted
    <3>2. CASE s.v = 0
      <4>1. \A j \in s.k..(i - 1) : b[j] # Eq
        BY <1>1, <1>2, <3>1, <3>2
      <4>2. CASE b[i] = Eq
        <5>1. r.v = i + 1 /\ i + 1 \in (s.k + 1)..(i + 1) /\ i + 1 - 1 = i /\ i + 1 - 2 = i - 1
          BY <1>1, <1>2, <2>6, <3>2, <4>2
        <5>. QED BY <2>6, <4>1, <4>2, <5>1 DEF Parted
      <4>3. CASE b[i] # Eq
        <5>1. \A j \in s.k..i : j \in s.k..(i - 1) \/ j = i
          BY <1>1, <1>2
        <5>. QED BY <2>6, <3>2, <4>1, <4>3, <5>1 DEF Parted
      <4>. QED BY <4>2, <4>3
    <3>3. CASE s.v # 0
      <4>1. s.v \in (s.k + 1)..(i + 1) /\ b[s.v - 1] = Eq /\ \A j \in s.k..(s.v - 2) : b[j] # Eq
        BY <1>1, <1>2, <3>1, <3>3
      <4>. QED BY <2>6, <3>3, <4>1 DEF Parted
    <3>. QED BY <3>2, <3>3
  <2>8. ASSUME NEW j \in 1..m PROVE s.out[j] = PairOf(e[j + d])
    <3>1. j + d \in 1..(n - 1)
      BY <1>1, <1>2
    <3>2. e[j + d] = c[j + d]
      BY <2>2, <3>1
    <3>. QED BY <1>1, <3>2
  <2>9. s.k \in 1..(i + 1)
    BY SMTT(30), <1>1, <1>2
  <2>10. b[1] = Amp => n > 1 /\ e[1] = <<>>
    <3>1. n > 1 => 1 \in 1..(n - 1)
      BY <1>2
    <3>. QED BY <1>1, <2>2, <3>1
  <2>11. Tracks(b, e, r, i)
    BY <1>1, <2>2, <2>3, <2>6, <2>7, <2>8, <2>9, <2>10 DEF Tracks, d
  <2>. QED BY <2>11 DEF e, r
<1>. QED BY <1>3, <1>4

\* What the parser takes of a query is its parts, from the first that it does not skip.
LEMMA ParseIs ==
    ASSUME NEW q \in Texts, q = <<>> \/ Head(q) # Eq, NEW query, TrimLeft(query) = q
    PROVE  \E d \in Seq(1..Len(Segments(q))) :
              /\ Climbs(d) /\ Parse(query) = Along(Sides(Splits(Segments(q))), d)
              /\ \A x \in 1..Len(Segments(q)) : Segments(q)[x] # <<>> => x \in Places(d)
<1>. DEFINE N == Len(q)
            segs == Segments(q)
            B == Sides(Splits(segs))
<1>1. N \in Nat /\ q \in Seq(Nat)
  BY DEF Texts
<1>2. PICK c \in [0..N -> Seq(Texts) \ {<<>>}] :
          /\ c[0] = <<<<>>>> /\ segs = c[N]
          /\ \A i \in 1..N : c[i] = Cut(c[i-1], q[i])
  BY SegmentsTable DEF Cut
<1>3. PICK h : ParseSteps(query, h)
  BY ParseTable
<1>4. /\ h \in [0..N -> Scan(q)] /\ h[0] = [out |-> <<>>, k |-> 0, v |-> 0]
      /\ Parse(query) = Flushed(q, h[N], N)
      /\ \A i \in 1..N : h[i] = ParseByte(q, h[i-1], i)
  BY <1>3 DEF ParseSteps
<1>5. segs \in Seq(Texts)
  BY <1>1, <1>2
<1>6. /\ Len(segs) \in Nat /\ Len(B) = Len(segs) /\ B \in Pairs
      /\ \A x \in 1..Len(segs) : B[x] = PairOf(segs[x])
  <2>1. /\ Splits(segs) \in Seq(Arg) /\ Len(Splits(segs)) = Len(segs) /\ Len(segs) \in Nat
        /\ \A x \in 1..Len(segs) : Splits(segs)[x] = SplitSegment(segs[x])
    BY <1>5, SplitsAre
  <2>. HIDE DEF segs
  <2>. QED BY <2>1, SidesAre DEF PairOf
<1>. HIDE DEF segs, B, N
<1>7. CASE N = 0
  <2>1. q = <<>>
    BY <1>1, <1>7, EmptySeq DEF N
  <2>2. Parse(query) = <<>> /\ segs = <<<<>>>>
    BY <1>2, <1>4, <1>7 DEF Flushed
  <2>3. <<>> \in Seq(1..Len(segs)) /\ Len(<<>>) = 0 /\ 1..0 = {} /\ Len(segs) = 1 /\ segs[1] = <<>>
    BY <2>2
  <2>4. Along(B, <<>>) = <<>> /\ Climbs(<<>>)
    BY <2>3 DEF Along, Climbs
  <2>5. \A x \in 1..Len(segs) : segs[x] = <<>>
    BY <2>3
  <2>. QED BY <2>2, <2>3, <2>4, <2>5 DEF segs, B
<1>8. CASE N # 0
  <2>1. N > 0 /\ q[1] # Eq
    <3>1. q # <<>>
      BY <1>8 DEF N
    <3>2. Head(q) = q[1]
      BY <1>1, <3>1
    <3>. QED BY <1>1, <1>8, <3>1, <3>2
  <2>. DEFINE P == {i \in 0..N : i = 0 \/ Tracks(q, c[i], h[i], i)}
  <2>2. 0 \in P
    BY <1>1
  <2>3. ASSUME NEW i \in 1..N, i - 1 \in P PROVE i \in P
    <3>1. CASE i = 1
      <4>1. c[1] = Cut(<<<<>>>>, q[1])
        BY <1>2, <2>3, <3>1
      <4>2. h[1] = ParseByte(q, [out |-> <<>>, k |-> 0, v |-> 0], 1)
        BY <1>4, <2>3, <3>1
      <4>. QED BY <1>1, <2>1, <3>1, <4>1, <4>2, TracksStart DEF N
    <3>2. CASE i # 1
      <4>1. Tracks(q, c[i-1], h[i-1], i - 1) /\ h[i-1] \in Scan(q)
        BY <1>1, <1>4, <2>3, <3>2
      <4>2. c[i] = Cut(c[i-1], q[i]) /\ h[i] = ParseByte(q, h[i-1], i)
        BY <1>2, <1>4
      <4>3. Tracks(q, c[i], h[i], i)
        BY <4>1, <4>2, TracksStep DEF N
      <4>. QED BY <1>1, <4>3
    <3>. QED BY <3>1, <3>2
  <2>4. Tracks(q, segs, h[N], N)
    <3>1. \A i \in 0..N : i \in P
      <4>. HIDE DEF P
      <4>. QED BY <1>1, <2>2, <2>3, UpTo
    <3>. QED BY <1>1, <1>2, <1>8, <3>1
  <2>. DEFINE k == Skipped(q)
              n == Len(segs)
              r == Parse(query)
              d == [j \in 1..(n - k) |-> j + k]
  <2>5. Len(r) = n - k /\ \A j \in 1..(n - k) : r[j] = PairOf(segs[j + k])
    <3>1. h[N] \in Scan(q) /\ N \in 0..Len(q)
      BY <1>1, <1>4 DEF N
    <3>. QED BY <1>4, <2>4, <3>1, TracksFlush
  <2>6. k \in {0, 1} /\ n \in Nat /\ n > k
    BY <1>6, <2>4 DEF Skipped, Tracks
  <2>. HIDE DEF k, n
  <2>7. d \in Seq(1..n) /\ Len(d) = n - k /\ \A j \in 1..(n - k) : d[j] = j + k
    <3>1. d \in [1..(n - k) -> 1..n]
      BY <2>6
    <3>. DEFINE m == n - k
                X == 1..n
    <3>2. m \in Nat
      BY <2>6
    <3>3. \A j \in 1..(n - k) : d[j] = j + k
      OBVIOUS
    <3>. HIDE DEF d, m, X
    <3>4. d \in [1..m -> X]
      BY <3>1 DEF m, X
    <3>5. d \in Seq(X) /\ Len(d) = m
      BY <3>2, <3>4
    <3>. QED BY <3>3, <3>5 DEF m, X
  <2>. HIDE DEF d
  <2>8. Climbs(d)
    BY <2>6, <2>7 DEF Climbs
  <2>9. ASSUME NEW x \in 1..n, segs[x] # <<>> PROVE x \in Places(d)
    <3>1. x > k
      <4>1. k = 1 => segs[1] = <<>>
        <5>1. k = 1 => q[1] = Amp
          BY DEF Skipped, k
        <5>. QED BY <2>4, <5>1 DEF Tracks
      <4>. QED BY <2>6, <2>9, <4>1
    <3>2. x - k \in 1..Len(d) /\ x - k + k = x
      BY <2>6, <2>7, <3>1
    <3>3. d[x - k] = x
      BY <2>7, <3>2
    <3>. QED BY <3>2, <3>3 DEF Places
  <2>10. r = Along(B, d)
    <3>. DEFINE a == Along(B, d)
                S == Texts \X Texts
    <3>1. B \in Seq(S) /\ d \in Seq(1..Len(B))
      BY <1>6, <2>7 DEF Pairs, n
    <3>. HIDE DEF S
    <3>2. a \in Seq(S) /\ Len(a) = n - k /\ \A j \in 1..(n - k) : d[j] \in 1..Len(B) /\ a[j] = B[d[j]]
      BY <2>7, <3>1, AlongType
    <3>3. r \in Seq(Over(q) \X Over(q))
      <4>1. h[N] \in Scan(q) /\ N \in Int
        BY <1>1, <1>4
      <4>2. Flushed(q, h[N], N) \in Seq(Over(q) \X Over(q))
        BY Zenon, <4>1, FlushedType
      <4>. QED BY Zenon, <1>4, <4>2
    <3>. HIDE DEF a, r
    <3>4. \A j \in 1..(n - k) : a[j] = r[j]
      BY <1>6, <2>5, <2>7, <3>2
    <3>5. a \in Seq(S \cup (Over(q) \X Over(q))) /\ r \in Seq(S \cup (Over(q) \X Over(q)))
      BY <3>2, <3>3, SeqGrows
    <3>6. a = r
      BY <2>5, <3>2, <3>4, <3>5, SeqEqual
    <3>. QED BY <3>6 DEF a
  <2>. QED BY <2>7, <2>8, <2>9, <2>10 DEF segs, B, n
<1>. QED BY <1>7, <1>8

LEMMA Trims ==
    ASSUME NEW q \in Texts, q = <<>> \/ Head(q) # Mark
    PROVE  TrimLeft(q) = q /\ TrimLeft(<<Mark>> \o q) = q
<1>1. q \in Seq(Nat) /\ Mark \in Nat
  BY DEF Texts, Mark
<1>2. TrimLeft(q) = q
  BY DEF TrimLeft
<1>. DEFINE w == <<Mark>> \o q
<1>3. <<Mark>> \in Seq(Nat) /\ Len(<<Mark>>) = 1 /\ <<Mark>>[1] = Mark
  BY <1>1
<1>4. w \in Seq(Nat) /\ Len(w) = 1 + Len(q) /\ w[1] = Mark /\ \A j \in 1..Len(q) : w[j + 1] = q[j]
  <2>1. /\ w \in Seq(Nat) /\ Len(w) = Len(<<Mark>>) + Len(q)
        /\ \A j \in 1..(Len(<<Mark>>) + Len(q)) : w[j] = IF j <= Len(<<Mark>>) THEN <<Mark>>[j]
                                                         ELSE q[j - Len(<<Mark>>)]
    BY Zenon, <1>1, <1>3, ConcatProperties
  <2>. DEFINE n == Len(q)
  <2>2. n \in Nat
    BY <1>1
  <2>. HIDE DEF w, n
  <2>3. \A j \in 1..(1 + n) : w[j] = IF j <= 1 THEN <<Mark>>[j] ELSE q[j - 1]
    BY <1>3, <2>1 DEF n
  <2>4. w[1] = Mark
    BY <1>3, <2>2, <2>3
  <2>5. ASSUME NEW j \in 1..n PROVE w[j + 1] = q[j]
    <3>. DEFINE k == j + 1
    <3>1. k \in 1..(1 + n) /\ ~ (k <= 1) /\ k - 1 = j
      BY <2>2
    <3>. HIDE DEF k
    <3>2. w[k] = q[j]
      BY <2>3, <3>1
    <3>. QED BY <3>2 DEF k
  <2>. QED BY <1>3, <2>1, <2>4, <2>5 DEF n
<1>. HIDE DEF w
<1>5. w # <<>> /\ Head(w) = Mark
  <2>1. Len(w) # 0
    BY <1>1, <1>4
  <2>2. w # <<>>
    BY <2>1
  <2>. QED BY <1>4, <2>2
<1>6. Tail(w) = q
  <2>1. Tail(w) \in Seq(Nat) /\ Len(Tail(w)) = Len(q) /\ \A j \in 1..Len(q) : Tail(w)[j] = w[j + 1]
    BY <1>1, <1>4, <1>5
  <2>2. \A j \in 1..Len(q) : Tail(w)[j] = q[j]
    BY <1>4, <2>1
  <2>. QED BY <1>1, <2>1, <2>2, SeqEqual
<1>7. TrimLeft(w) = q
  BY <1>5, <1>6 DEF TrimLeft
<1>. QED BY <1>2, <1>7 DEF w

LEMMA SplitEmpty == ASSUME NEW seg \in Texts, seg = <<>> PROVE SplitSegment(seg).name = <<>>
<1>1. Len(seg) = 0
  BY DEF Texts
<1>2. SplitSegment(seg) = [name |-> seg, value |-> <<>>, bare |-> TRUE]
  BY <1>1, SplitIs
<1>. QED BY <1>2

LEMMA ParserIs ==
    ASSUME NEW q \in Texts, q = <<>> \/ Head(q) # Eq, NEW query, TrimLeft(query) = q,
           NEW rule, Prefixed(rule)
    PROVE  parseFilterAndSortQuery(rule, query) = Chosen(rule, Segments(q))
<1>. DEFINE segs == Segments(q)
            kvs == Parse(query)
<1>1. segs \in Seq(Texts)
  BY ArgsAre
<1>2. PICK d \in Seq(1..Len(segs)) :
          /\ Climbs(d) /\ kvs = Along(Sides(Splits(segs)), d)
          /\ \A x \in 1..Len(segs) : segs[x] # <<>> => x \in Places(d)
  BY ParseIs
<1>. HIDE DEF segs
<1>3. ASSUME NEW x \in 1..Len(segs), Allowed(rule, Splits(segs)[x].name) PROVE x \in Places(d)
  <2>1. segs[x] \in Texts /\ Splits(segs)[x] = SplitSegment(segs[x]) /\ SplitSegment(segs[x]) \in Arg
    BY <1>1, SplitsAre
  <2>2. Splits(segs)[x].name \in Texts
    BY <2>1 DEF Arg
  <2>3. Splits(segs)[x].name # <<>>
    BY <1>3, <2>2, AllowedNamed
  <2>4. segs[x] # <<>>
    BY <2>1, <2>3, SplitEmpty
  <2>. QED BY <1>2, <2>4
<1>4. parseFilterAndSortQuery(rule, query)
        = KVSlice(Picked(kvs, {i \in DOMAIN kvs : Allowed(rule, kvs[i][1])}))
  BY DEF parseFilterAndSortQuery
<1>. HIDE DEF kvs
<1>. QED BY <1>1, <1>2, <1>3, <1>4, ChosenThrough DEF segs

(***************************************************************************)
(* Parts that hold no "&", joined by "&"s, are the parts of what they make.*)
(***************************************************************************)
Free(seg) == \A j \in 1..Len(seg) : seg[j] # Amp
Cuts(q, c) == /\ c \in [0..Len(q) -> Seq(Texts)] /\ c[0] = <<<<>>>>
              /\ \A i \in 1..Len(q) : c[i] = Cut(c[i-1], q[i])

LEMMA CutsAre ==
    ASSUME NEW q \in Texts
    PROVE  \E c : Cuts(q, c) /\ Segments(q) = c[Len(q)] /\ \A i \in 0..Len(q) : c[i] # <<>>
<1>1. PICK c \in [0..Len(q) -> Seq(Texts) \ {<<>>}] :
          /\ c[0] = <<<<>>>> /\ Segments(q) = c[Len(q)]
          /\ \A i \in 1..Len(q) : c[i] = Cut(c[i-1], q[i])
  BY SegmentsTable DEF Cut
<1>. QED BY <1>1 DEF Cuts

LEMMA SegmentsFree ==
    ASSUME NEW q \in Texts
    PROVE  \A x \in 1..Len(Segments(q)) : Free(Segments(q)[x])
<1>. DEFINE N == Len(q)
<1>1. N \in Nat /\ q \in Seq(Nat)
  BY DEF Texts
<1>2. PICK c : Cuts(q, c) /\ Segments(q) = c[N] /\ \A i \in 0..N : c[i] # <<>>
  BY CutsAre
<1>3. /\ c \in [0..N -> Seq(Texts)] /\ c[0] = <<<<>>>>
      /\ \A i \in 1..N : c[i] = Cut(c[i-1], q[i]) /\ q[i] \in Nat
  BY <1>1, <1>2 DEF Cuts
<1>. HIDE DEF N
<1>. DEFINE P == {i \in 0..N : \A x \in 1..Len(c[i]) : Free(c[i][x])}
<1>4. 0 \in P
  <2>1. Len(c[0]) = 1 /\ c[0][1] = <<>>
    BY <1>3
  <2>2. Free(<<>>)
    BY DEF Free
  <2>3. \A x \in 1..Len(c[0]) : x = 1
    BY <2>1
  <2>. QED BY <1>1, <2>1, <2>2, <2>3
<1>5. ASSUME NEW i \in 1..N, i - 1 \in P PROVE i \in P
  <2>. DEFINE a == c[i-1]
              e == c[i]
              n == Len(a)
  <2>1. a \in Seq(Texts) /\ n \in Nat /\ n > 0 /\ \A x \in 1..n : Free(a[x])
    <3>1. a \in Seq(Texts) /\ a # <<>>
      BY <1>1, <1>2, <1>3
    <3>. QED BY <1>5, <3>1, EmptySeq
  <2>2. e = Cut(a, q[i]) /\ q[i] \in Nat
    BY <1>3
  <2>. HIDE DEF a, e, n
  <2>3. CASE q[i] = Amp
    <3>1. Len(e) = n + 1 /\ e[n + 1] = <<>> /\ \A j \in 1..n : e[j] = a[j]
      BY <2>1, <2>2, <2>3, Parts DEF n
    <3>2. \A x \in 1..Len(e) : x \in 1..n \/ x = n + 1
      BY <2>1, <3>1
    <3>3. Free(<<>>)
      BY DEF Free
    <3>4. \A x \in 1..Len(e) : Free(e[x])
      BY <2>1, <3>1, <3>2, <3>3
    <3>. QED BY <1>1, <3>4 DEF e
  <2>4. CASE q[i] # Amp
    <3>1. Lengthened(a, q[i], e) /\ a[n] \in Texts
      BY <2>1, <2>2, <2>4, Lengthens DEF n
    <3>2. /\ Len(e) = n /\ e[n] = Append(a[n], q[i]) /\ \A j \in 1..(n - 1) : e[j] = a[j]
      BY <3>1 DEF Lengthened, n
    <3>3. Free(e[n])
      <4>. DEFINE t == a[n]
                  u == Append(t, q[i])
      <4>1. t \in Seq(Nat) /\ Len(t) \in Nat /\ Free(t)
        BY <2>1, <3>1 DEF Texts
      <4>. HIDE DEF t
      <4>2. Len(u) = Len(t) + 1 /\ u[Len(t) + 1] = q[i] /\ \A j \in 1..Len(t) : u[j] = t[j]
        BY <2>2, <4>1, AppendProperties
      <4>3. \A j \in 1..Len(u) : j \in 1..Len(t) \/ j = Len(t) + 1
        BY <4>1, <4>2
      <4>. HIDE DEF u
      <4>4. Free(u)
        BY <2>4, <4>1, <4>2, <4>3 DEF Free
      <4>. QED BY <3>2, <4>4 DEF t, u
    <3>4. \A x \in 1..Len(e) : x \in 1..(n - 1) \/ x = n
      BY <2>1, <3>2
    <3>5. \A x \in 1..(n - 1) : x \in 1..n
      BY <2>1
    <3>6. \A x \in 1..Len(e) : Free(e[x])
      BY <2>1, <3>2, <3>3, <3>4, <3>5
    <3>. QED BY <1>1, <3>6 DEF e
  <2>. QED BY <2>3, <2>4
<1>6. \A i \in 0..N : i \in P
  <2>. HIDE DEF P
  <2>. QED BY <1>1, <1>4, <1>5, UpTo
<1>. QED BY <1>1, <1>2, <1>6

\* A part that holds no "&" goes to the last of those before it.
Reached(a, e, t) ==
    /\ e \in Seq(Texts) /\ Len(e) = Len(a) /\ e[Len(a)] = t
    /\ \A x \in 1..(Len(a) - 1) : e[x] = a[x]

LEMMA PartGrows ==
    ASSUME NEW q \in Texts, NEW c, Cuts(q, c), NEW o \in Nat, NEW t \in Texts, Free(t),
           At(q, o, t), Len(c[o]) > 0, c[o][Len(c[o])] = <<>>
    PROVE  Reached(c[o], c[o + Len(t)], t)
<1>. DEFINE N == Len(q)
            m == Len(t)
            a == c[o]
            n == Len(a)
<1>1. /\ N \in Nat /\ m \in Nat /\ t \in Seq(Nat)
      /\ \A j \in 1..m : t[j] \in Nat /\ t[j] # Amp
  BY DEF Texts, Free
<1>2. o + m <= N /\ \A j \in 1..m : q[o + j] = t[j]
  BY DEF At
<1>3. /\ c \in [0..N -> Seq(Texts)]
      /\ \A i \in 1..N : c[i] = Cut(c[i-1], q[i])
  BY DEF Cuts
<1>4. a \in Seq(Texts) /\ n \in Nat /\ n > 0 /\ a[n] = <<>>
  <2>1. o \in 0..N
    BY <1>1, <1>2
  <2>. HIDE DEF N
  <2>2. a \in Seq(Texts) /\ Len(a) > 0 /\ a[Len(a)] = <<>>
    BY <1>3, <2>1
  <2>. HIDE DEF a
  <2>. QED BY <2>2
<1>. HIDE DEF N, m, a, n
<1>. DEFINE P == {j \in 0..m : Reached(a, c[o + j], SubSeq(t, 1, j))}
<1>5. 0 \in P
  <2>1. SubSeq(t, 1, 0) = <<>>
    BY SubSeqEmpty
  <2>2. o + 0 = o
    OBVIOUS
  <2>3. Reached(a, a, <<>>)
    BY <1>4 DEF Reached, n
  <2>4. c[o + 0] = a
    BY <2>2 DEF a
  <2>5. Reached(a, c[o + 0], SubSeq(t, 1, 0))
    BY <2>1, <2>3, <2>4
  <2>6. 0 \in 0..m
    BY <1>1
  <2>. QED BY <2>5, <2>6
<1>6. ASSUME NEW j \in 1..m, j - 1 \in P PROVE j \in P
  <2>. DEFINE k == o + j
              b == c[k - 1]
              e == c[k]
              u == SubSeq(t, 1, j - 1)
  <2>1. k \in 1..N /\ o + (j - 1) = k - 1 /\ q[k] = t[j]
    BY <1>1, <1>2
  <2>. HIDE DEF k
  <2>2. Reached(a, b, u)
    BY <1>6, <2>1
  <2>3. e = Cut(b, t[j]) /\ t[j] \in Nat /\ t[j] # Amp
    BY <1>1, <1>3, <2>1
  <2>. HIDE DEF b, e, u
  <2>4. b \in Seq(Texts) /\ Len(b) = n /\ b[n] = u /\ \A x \in 1..(n - 1) : b[x] = a[x]
    BY <2>2 DEF Reached, n
  <2>5. Lengthened(b, t[j], e)
    BY <1>4, <2>3, <2>4, Lengthens
  <2>6. e \in Seq(Texts) /\ Len(e) = n /\ e[n] = Append(u, t[j]) /\ \A x \in 1..(n - 1) : e[x] = b[x]
    BY <2>4, <2>5 DEF Lengthened
  <2>7. SubSeq(t, 1, j) = Append(u, t[j])
    <3>1. 1 \in 1..j /\ j \in 1..Len(t)
      BY <1>1 DEF m
    <3>. QED BY <3>1, SubSeqGrows DEF u
  <2>8. Reached(a, e, SubSeq(t, 1, j))
    BY <2>4, <2>6, <2>7 DEF Reached, n
  <2>9. j \in 0..m
    BY <1>1
  <2>. QED BY <2>8, <2>9 DEF e, k
<1>7. m \in P
  <2>1. \A j \in 0..m : j \in P
    <3>. HIDE DEF P
    <3>. QED BY <1>1, <1>5, <1>6, UpTo
  <2>. QED BY <1>1, <2>1
<1>8. SubSeq(t, 1, m) = t
  BY <1>1, SubSeqFull DEF m
<1>. QED BY <1>7, <1>8 DEF a, m

Holds(e, parts, i) ==
    e \in Seq(Texts) /\ Len(e) = i /\ \A x \in 1..i : e[x] = parts[x]

LEMMA SegmentsJoined ==
    ASSUME NEW parts \in Seq(Texts), parts # <<>>, \A i \in 1..Len(parts) : Free(parts[i])
    PROVE  Joined(parts) \in Texts /\ Segments(Joined(parts)) = parts
<1>. DEFINE m == Len(parts)
            J == Joined(parts)
            N == Len(J)
            seqs == [i \in 1..m |-> (IF i = 1 THEN <<>> ELSE <<Amp>>) \o parts[i]]
<1>1. m \in Nat /\ m > 0 /\ \A i \in 1..m : parts[i] \in Texts /\ parts[i] \in Seq(Nat)
  BY EmptySeq DEF Texts
<1>2. PICK f \in [0..m -> Texts] :
          /\ f[0] = <<>> /\ J = f[m] /\ f[m] \in Texts
          /\ \A i \in 1..m : f[i] = f[i-1] \o (IF i = 1 THEN <<>> ELSE <<Amp>>) \o parts[i]
  BY JoinedTable
<1>3. J \in Texts /\ J \in Seq(Nat) /\ N \in Nat
  BY <1>2 DEF Texts
<1>4. <<>> \in Seq(Nat) /\ <<Amp>> \in Seq(Nat) /\ Len(<<Amp>>) = 1
  BY DEF Amp
<1>. HIDE DEF m, J, N
<1>5. ASSUME NEW i \in 1..m
      PROVE  /\ seqs[i] \in Seq(Nat) /\ f[i] = f[i-1] \o seqs[i]
             /\ f[i-1] \in Seq(Nat)
  <2>1. f[i-1] \in Seq(Nat)
    BY <1>1, <1>2 DEF Texts
  <2>. DEFINE z == IF i = 1 THEN <<>> ELSE <<Amp>>
  <2>2. z \in Seq(Nat) /\ parts[i] \in Seq(Nat)
    BY <1>1, <1>4
  <2>3. f[i] = f[i-1] \o z \o parts[i] /\ seqs[i] = z \o parts[i]
    BY <1>2
  <2>. HIDE DEF z, seqs
  <2>4. f[i-1] \o z \o parts[i] = f[i-1] \o (z \o parts[i])
    <3>. DEFINE x == f[i-1]
                y == parts[i]
    <3>1. x \in Seq(Nat) /\ y \in Seq(Nat)
      BY <2>1, <2>2
    <3>. HIDE DEF x, y
    <3>2. (x \o z) \o y = x \o (z \o y)
      BY SMTT(30), <2>2, <3>1, ConcatAssociative
    <3>. QED BY <3>2 DEF x, y
  <2>5. z \o parts[i] \in Seq(Nat)
    BY <2>2, ConcatLen
  <2>. QED BY <2>1, <2>3, <2>4, <2>5
<1>6. seqs \in Seq(Seq(Nat)) /\ Len(seqs) = m
  <2>1. seqs \in [1..m -> Seq(Nat)]
    <3>1. seqs = [i \in 1..m |-> seqs[i]]
      OBVIOUS
    <3>. HIDE DEF seqs
    <3>. QED BY <1>5, <3>1
  <2>. HIDE DEF seqs
  <2>. QED BY <1>1, <2>1
<1>. DEFINE L(i) == Len(f[i])
<1>7. ASSUME NEW i \in 1..m PROVE At(J, L(i - 1), seqs[i]) /\ L(i) = L(i - 1) + Len(seqs[i])
  <2>. HIDE DEF seqs
  <2>1. FlatTable(Nat, seqs, f)
    BY <1>2, <1>5, <1>6 DEF FlatTable, Texts
  <2>2. At(J, 0, f[Len(seqs)])
    BY <1>2, <1>3, <1>6, AtWhole
  <2>3. FlatStands(J, 0, seqs, f)
    BY <1>3, <1>6, <2>1, <2>2, FlatAt
  <2>4. At(J, 0 + Len(f[i-1]), seqs[i]) /\ Len(f[i]) = Len(f[i-1]) + Len(seqs[i])
    BY <1>6, <2>3 DEF FlatStands
  <2>5. Len(f[i-1]) \in Nat
    BY <1>5
  <2>6. 0 + Len(f[i-1]) = Len(f[i-1])
    BY <2>5
  <2>. QED BY <2>4, <2>6
<1>8. PICK c : Cuts(J, c) /\ Segments(J) = c[N]
  BY <1>3, CutsAre DEF N
<1>9. /\ c \in [0..N -> Seq(Texts)] /\ c[0] = <<<<>>>>
      /\ \A i \in 1..N : c[i] = Cut(c[i-1], J[i])
  BY <1>8 DEF Cuts, N
<1>. DEFINE P == {i \in 0..m : i = 0 \/ Holds(c[L(i)], parts, i)}
<1>10. 0 \in P
  BY <1>1
<1>11. ASSUME NEW i \in 1..m, i - 1 \in P PROVE i \in P
  <2>. DEFINE p == parts[i]
  <2>1. p \in Texts /\ Free(p) /\ p \in Seq(Nat) /\ Len(p) \in Nat
    BY <1>1 DEF m
  <2>2. CASE i = 1
    <3>1. seqs[i] = p
      <4>1. <<>> \o p = p
        BY <2>1, ConcatEmptySeq
      <4>. QED BY <2>2, <4>1
    <3>2. L(0) = 0 /\ L(i - 1) = 0
      BY <1>2, <2>2
    <3>3. At(J, 0, p) /\ L(i) = Len(p)
      <4>. HIDE DEF L, seqs
      <4>. QED BY <1>7, <2>1, <3>1, <3>2
    <3>. HIDE DEF p, L
    <3>4. Len(c[0]) = 1 /\ c[0][1] = <<>>
      BY <1>9
    <3>5. Reached(c[0], c[0 + Len(p)], p)
      <4>1. 0 \in Nat /\ Len(c[0]) > 0 /\ c[0][Len(c[0])] = <<>>
        BY <3>4
      <4>. QED BY Zenon, <1>3, <1>8, <2>1, <3>3, <4>1, PartGrows
    <3>6. Holds(c[L(i)], parts, 1)
      BY <2>1, <3>3, <3>4, <3>5, <2>2 DEF Reached, Holds, p
    <3>. QED BY <1>1, <2>2, <3>6
  <2>3. CASE i # 1
    <3>. DEFINE k == L(i - 1)
                o == k + 1
                a == c[k]
                e == c[o]
    <3>1. k \in Nat
      BY <1>5
    <3>2. seqs[i] = <<Amp>> \o p
      BY <2>3
    <3>3. At(J, k, <<Amp>> \o p) /\ L(i) = k + Len(<<Amp>> \o p)
      <4>. HIDE DEF L, seqs
      <4>. QED BY <1>7, <3>2
    <3>. HIDE DEF p, L, seqs
    <3>4. Holds(a, parts, i - 1)
      BY <1>1, <1>11, <2>3
    <3>. HIDE DEF k
    <3>5. At(J, k, <<Amp>>) /\ At(J, k + Len(<<Amp>>), p) /\ Len(<<Amp>> \o p) = 1 + Len(p)
      <4>1. Len(<<Amp>> \o p) = Len(<<Amp>>) + Len(p)
        BY <1>4, <2>1, ConcatLen
      <4>. QED BY <1>3, <1>4, <2>1, <3>1, <3>3, <4>1, AtConcat
    <3>6. At(J, o, p) /\ J[o] = Amp /\ o \in 1..N /\ o - 1 = k /\ L(i) = o + Len(p)
      <4>1. At(J, o, p)
        BY <1>4, <3>5
      <4>2. J[o] = Amp
        BY <1>3, <1>4, <3>1, <3>5, CellAt DEF Amp
      <4>3. o + Len(p) <= N
        BY <4>1 DEF At, N
      <4>4. L(i) = o + Len(p)
        BY <2>1, <3>1, <3>3, <3>5
      <4>. QED BY <1>3, <2>1, <3>1, <4>1, <4>2, <4>3, <4>4
    <3>. HIDE DEF o
    <3>7. e = Cut(a, Amp)
      BY <1>9, <3>6
    <3>. HIDE DEF a, e
    <3>8. a \in Seq(Texts) /\ Len(a) = i - 1 /\ \A x \in 1..(i - 1) : a[x] = parts[x]
      BY <3>4 DEF Holds
    <3>9. /\ e \in Seq(Texts) /\ Len(e) = i /\ e[i] = <<>>
          /\ \A x \in 1..(i - 1) : e[x] = parts[x]
      <4>. DEFINE f1 == Cut(a, Amp)
                  n == Len(a)
      <4>1. n = i - 1 /\ n + 1 = i
        BY <1>1, <3>8
      <4>2. /\ f1 \in Seq(Texts) /\ Len(f1) = n + 1 /\ f1[n + 1] = <<>>
            /\ \A x \in 1..n : f1[x] = a[x]
        BY <3>8, Parts
      <4>. HIDE DEF f1, n
      <4>3. /\ f1 \in Seq(Texts) /\ Len(f1) = i /\ f1[i] = <<>>
            /\ \A x \in 1..(i - 1) : f1[x] = parts[x]
        BY <3>8, <4>1, <4>2
      <4>4. e = f1
        BY <3>7 DEF f1
      <4>. QED BY <4>3, <4>4
    <3>10. Reached(e, c[o + Len(p)], p)
      <4>1. Len(e) > 0 /\ e[Len(e)] = <<>> /\ o \in Nat
        BY <1>1, <3>6, <3>9
      <4>. QED BY <1>3, <1>8, <2>1, <3>6, <4>1, PartGrows DEF e
    <3>11. Holds(c[L(i)], parts, i)
      <4>. DEFINE r == c[L(i)]
      <4>1. Reached(e, r, p)
        BY <3>6, <3>10
      <4>. HIDE DEF r
      <4>2. r \in Seq(Texts) /\ Len(r) = i /\ r[i] = parts[i] /\ \A x \in 1..(i - 1) : r[x] = parts[x]
        BY <3>9, <4>1 DEF Reached, p
      <4>3. \A x \in 1..i : x \in 1..(i - 1) \/ x = i
        BY <1>1
      <4>4. Holds(r, parts, i)
        BY <4>2, <4>3 DEF Holds
      <4>. QED BY <4>4 DEF r
    <3>. QED BY <1>1, <3>11
  <2>. QED BY <2>2, <2>3
<1>12. m \in P
  <2>1. \A i \in 0..m : i \in P
    <3>. HIDE DEF P
    <3>. QED BY <1>1, <1>10, <1>11, UpTo
  <2>. QED BY <1>1, <2>1
<1>13. Holds(c[N], parts, m)
  BY <1>1, <1>2, <1>12 DEF N
<1>14. Segments(J) = parts
  <2>. DEFINE r == c[N]
  <2>1. r \in Seq(Texts) /\ Len(r) = Len(parts) /\ \A x \in 1..Len(r) : r[x] = parts[x]
    BY <1>13 DEF Holds, m
  <2>. HIDE DEF r
  <2>2. r = parts
    BY <2>1, SeqEqual
  <2>. QED BY <1>8, <2>2 DEF r
<1>. QED BY <1>3, <1>14 DEF J

(***************************************************************************)
(* Printing the parameters and taking them again.                          *)
(***************************************************************************)
PartOf(a) == a.name \o (IF a.bare THEN <<>> ELSE <<Eq>> \o a.value)

LEMMA CutOnce ==
    ASSUME NEW s \in Seq(Nat), NEW p \in 1..Len(s)
    PROVE  SubSeq(s, 1, p - 1) \o (<<s[p]>> \o SubSeq(s, p + 1, Len(s))) = s
<1>. DEFINE n == Len(s)
            u == SubSeq(s, 1, p - 1)
            v == SubSeq(s, p + 1, n)
            x == <<s[p]>>
            y == x \o v
            w == u \o y
<1>1. n \in Nat /\ p \in 1..n /\ \A j \in 1..n : s[j] \in Nat
  OBVIOUS
<1>2. u \in Seq(Nat) /\ Len(u) = p - 1 /\ \A j \in 1..(p - 1) : u[j] = s[j]
  <2>1. \A j \in 1..(p - 1) : s[j] \in Nat
    BY <1>1
  <2>2. /\ u \in Seq(Nat) /\ Len(u) = IF 1 <= p - 1 THEN (p - 1) - 1 + 1 ELSE 0
        /\ \A j \in 1..((p - 1) - 1 + 1) : u[j] = s[1 + j - 1]
    BY <2>1, SubSeqProperties
  <2>. HIDE DEF u
  <2>3. \A j \in 1..(p - 1) : 1 + j - 1 = j /\ j \in 1..((p - 1) - 1 + 1)
    BY <1>1
  <2>. QED BY <1>1, <2>2, <2>3
<1>3. v \in Seq(Nat) /\ Len(v) = n - p /\ \A j \in 1..(n - p) : v[j] = s[p + j]
  <2>1. \A j \in (p + 1)..n : s[j] \in Nat
    BY <1>1
  <2>2. /\ v \in Seq(Nat) /\ Len(v) = IF p + 1 <= n THEN n - (p + 1) + 1 ELSE 0
        /\ \A j \in 1..(n - (p + 1) + 1) : v[j] = s[(p + 1) + j - 1]
    BY <2>1, SubSeqProperties
  <2>. HIDE DEF v
  <2>3. \A j \in 1..(n - p) : (p + 1) + j - 1 = p + j /\ j \in 1..(n - (p + 1) + 1)
    BY <1>1
  <2>. QED BY <1>1, <2>2, <2>3
<1>4. x \in Seq(Nat) /\ Len(x) = 1 /\ x[1] = s[p]
  BY <1>1
<1>. HIDE DEF n, u, v, x
<1>5. /\ y \in Seq(Nat) /\ Len(y) = 1 + (n - p)
      /\ \A j \in 1..(1 + (n - p)) : y[j] = IF j <= 1 THEN x[j] ELSE v[j - 1]
  <2>1. /\ y \in Seq(Nat) /\ Len(y) = Len(x) + Len(v)
        /\ \A j \in 1..(Len(x) + Len(v)) : y[j] = IF j <= Len(x) THEN x[j] ELSE v[j - Len(x)]
    BY Zenon, <1>3, <1>4, ConcatProperties
  <2>. HIDE DEF y
  <2>. QED BY <1>3, <1>4, <2>1
<1>. HIDE DEF y
<1>6. /\ w \in Seq(Nat) /\ Len(w) = (p - 1) + (1 + (n - p))
      /\ \A j \in 1..((p - 1) + (1 + (n - p))) : w[j] = IF j <= p - 1 THEN u[j] ELSE y[j - (p - 1)]
  <2>1. /\ w \in Seq(Nat) /\ Len(w) = Len(u) + Len(y)
        /\ \A j \in 1..(Len(u) + Len(y)) : w[j] = IF j <= Len(u) THEN u[j] ELSE y[j - Len(u)]
    BY Zenon, <1>2, <1>5, ConcatProperties
  <2>. HIDE DEF w
  <2>. QED BY <1>2, <1>5, <2>1
<1>. HIDE DEF w
<1>7. Len(w) = n
  BY <1>1, <1>6
<1>8. ASSUME NEW j \in 1..n PROVE w[j] = s[j]
  <2>0. j \in 1..((p - 1) + (1 + (n - p)))
    BY <1>1
  <2>1. CASE j <= p - 1
    <3>1. j \in 1..(p - 1)
      BY <1>1, <2>1
    <3>. QED BY <1>2, <1>6, <2>0, <2>1, <3>1
  <2>2. CASE j > p - 1
    <3>. DEFINE k == j - (p - 1)
    <3>1. k \in 1..(1 + (n - p)) /\ ~ (j <= p - 1)
      BY <1>1, <2>2
    <3>2. w[j] = y[k]
      BY <1>6, <2>0, <3>1
    <3>3. CASE j = p
      <4>1. k = 1
        BY <1>1, <3>3
      <4>. QED BY <1>4, <1>5, <3>1, <3>2, <3>3, <4>1
    <3>4. CASE j # p
      <4>. DEFINE l == k - 1
      <4>1. l \in 1..(n - p) /\ ~ (k <= 1) /\ p + l = j
        BY <1>1, <2>2, <3>4
      <4>. HIDE DEF k
      <4>2. y[k] = v[l]
        BY <1>5, <3>1, <4>1
      <4>. HIDE DEF l
      <4>. QED BY <1>3, <3>2, <4>1, <4>2
    <3>. QED BY <3>3, <3>4
  <2>. QED BY <1>1, <2>1, <2>2
<1>9. w = s
  BY <1>6, <1>7, <1>8, SeqEqual DEF n
<1>. QED BY <1>9 DEF w, y, u, v, x, n

LEMMA PartIs == ASSUME NEW seg \in Texts PROVE PartOf(SplitSegment(seg)) = seg
<1>. DEFINE a == SplitSegment(seg)
            n == Len(seg)
<1>1. seg \in Seq(Nat)
  BY DEF Texts
<1>2. \/ a = [name |-> seg, value |-> <<>>, bare |-> TRUE]
      \/ \E p \in 1..n :
            /\ seg[p] = Eq
            /\ a = [name |-> SubSeq(seg, 1, p - 1), value |-> SubSeq(seg, p + 1, n), bare |-> FALSE]
  BY SplitIs
<1>. HIDE DEF a
<1>3. CASE a = [name |-> seg, value |-> <<>>, bare |-> TRUE]
  <2>1. seg \o <<>> = seg
    BY <1>1, ConcatEmptySeq
  <2>2. PartOf(a) = seg \o <<>>
    BY <1>3 DEF PartOf
  <2>. QED BY <2>1, <2>2 DEF a
<1>4. CASE \E p \in 1..n :
            /\ seg[p] = Eq
            /\ a = [name |-> SubSeq(seg, 1, p - 1), value |-> SubSeq(seg, p + 1, n), bare |-> FALSE]
  <2>1. PICK p \in 1..n :
            /\ seg[p] = Eq
            /\ a = [name |-> SubSeq(seg, 1, p - 1), value |-> SubSeq(seg, p + 1, n), bare |-> FALSE]
    BY <1>4
  <2>. DEFINE u == SubSeq(seg, 1, p - 1)
              v == SubSeq(seg, p + 1, n)
  <2>2. u \o (<<seg[p]>> \o v) = seg
    BY <1>1, CutOnce
  <2>3. a.name = u /\ a.value = v /\ a.bare = FALSE
    BY <2>1
  <2>. HIDE DEF u, v
  <2>4. PartOf(a) = u \o (<<seg[p]>> \o v)
    BY <2>1, <2>3 DEF PartOf
  <2>. QED BY <2>2, <2>4 DEF a
<1>. QED BY <1>2, <1>3, <1>4

LEMMA PickedAll ==
    ASSUME NEW S, NEW s \in Seq(S), NEW I, 1..Len(s) \subseteq I
    PROVE  Picked(s, I) = s
<1>. DEFINE n == Len(s)
            id == [i \in 1..n |-> i]
            X == 1..n
<1>1. PICK g \in Seq(1..n) : /\ Climbs(g) /\ Places(g) = I \cap (1..n) /\ Picked(s, I) = Along(s, g)
  BY PickedAlong
<1>2. n \in Nat
  OBVIOUS
<1>3. id \in Seq(1..n) /\ Len(id) = n /\ \A i \in 1..n : id[i] = i
  <2>. HIDE DEF n
  <2>1. id \in [1..n -> X]
    OBVIOUS
  <2>. HIDE DEF X
  <2>2. id \in Seq(X) /\ Len(id) = n
    BY <1>2, <2>1
  <2>. QED BY <2>2 DEF X
<1>. HIDE DEF id
<1>4. Climbs(id) /\ Places(id) = I \cap (1..n)
  BY <1>3 DEF Climbs, Places
<1>5. g = id
  BY <1>1, <1>2, <1>3, <1>4, OneClimb
<1>6. Along(s, id) = s
  <2>. DEFINE a == Along(s, id)
  <2>0. /\ a \in Seq(S) /\ Len(a) = Len(id)
        /\ \A i \in 1..Len(id) : id[i] \in 1..Len(s) /\ a[i] = s[id[i]]
    BY <1>3, AlongType
  <2>. HIDE DEF a
  <2>1. a \in Seq(S) /\ Len(a) = n /\ \A i \in 1..n : a[i] = s[i]
    BY <1>3, <2>0
  <2>2. a = s
    BY <2>1, SeqEqual
  <2>. QED BY <2>2 DEF a
<1>. QED BY <1>1, <1>5, <1>6

LEMMA NothingPicked ==
    ASSUME NEW S, NEW s \in Seq(S), NEW I, I \cap (1..Len(s)) = {}
    PROVE  Picked(s, I) = <<>>
<1>1. PICK g \in Seq(1..Len(s)) : Places(g) = {} /\ Picked(s, I) = Along(s, g)
  BY PickedAlong
<1>2. Len(g) \in Nat
  OBVIOUS
<1>3. Len(g) = 0
  <2>. SUFFICES ASSUME Len(g) # 0 PROVE FALSE
    OBVIOUS
  <2>1. 1 \in 1..Len(g)
    BY <1>2
  <2>2. g[1] \in Places(g)
    BY <2>1 DEF Places
  <2>. QED BY <1>1, <2>2
<1>4. Along(s, g) \in Seq(S) /\ Len(Along(s, g)) = 0
  BY <1>3, AlongType
<1>. DEFINE a == Along(s, g)
<1>5. a \in Seq(S) /\ Len(a) = 0
  BY <1>4
<1>. HIDE DEF a
<1>6. a = <<>>
  BY <1>5
<1>. QED BY <1>1, <1>6 DEF a

Asked(segs) ==
    {i \in 1..Len(segs) : Splits(segs)[i].name # <<>> \/ Splits(segs)[i].value # <<>>}

LEMMA SplitsAlong ==
    ASSUME NEW segs \in Seq(Texts), NEW g \in Seq(1..Len(segs))
    PROVE  Along(segs, g) \in Seq(Texts) /\ Splits(Along(segs, g)) = Along(Splits(segs), g)
<1>. DEFINE a == Along(segs, g)
            b == Splits(segs)
            c == Splits(a)
            d == Along(b, g)
<1>1. a \in Seq(Texts) /\ Len(a) = Len(g) /\ \A i \in 1..Len(g) : g[i] \in 1..Len(segs) /\ a[i] = segs[g[i]]
  BY AlongType
<1>2. b \in Seq(Arg) /\ Len(b) = Len(segs) /\ \A i \in 1..Len(segs) : b[i] = SplitSegment(segs[i])
  BY SplitsAre
<1>. HIDE DEF a, b
<1>3. c \in Seq(Arg) /\ Len(c) = Len(g) /\ \A i \in 1..Len(g) : c[i] = SplitSegment(a[i])
  BY <1>1, SplitsAre
<1>4. g \in Seq(1..Len(b))
  BY <1>2
<1>5. d \in Seq(Arg) /\ Len(d) = Len(g) /\ \A i \in 1..Len(g) : d[i] = b[g[i]]
  BY <1>2, <1>4, AlongType
<1>6. \A i \in 1..Len(g) : c[i] = d[i]
  BY <1>1, <1>2, <1>3, <1>5
<1>. HIDE DEF c, d
<1>7. c = d
  BY <1>3, <1>5, <1>6, SeqEqual
<1>. QED BY <1>1, <1>7 DEF a, b, c, d

\* What is printed of the parameters is made of the parts they were taken from.
LEMMA Printed ==
    ASSUME NEW parts \in Seq(Texts)
    PROVE  QueryString(Splits(parts)) = Joined(parts)
<1>. DEFINE args == Splits(parts)
            s == [i \in DOMAIN args |->
                    args[i].name \o (IF args[i].bare THEN <<>> ELSE <<Eq>> \o args[i].value)]
<1>1. /\ DOMAIN args = 1..Len(parts) /\ Len(parts) \in Nat
      /\ \A i \in 1..Len(parts) : args[i] = SplitSegment(parts[i]) /\ parts[i] \in Texts
  BY SplitsAre
<1>2. QueryString(args) = Joined(s)
  BY DEF QueryString
<1>3. s = [i \in 1..Len(parts) |-> PartOf(args[i])]
  BY <1>1 DEF PartOf
<1>. HIDE DEF s, args
<1>4. \A i \in 1..Len(parts) : PartOf(args[i]) = parts[i]
  BY <1>1, PartIs
<1>5. s = [i \in 1..Len(parts) |-> parts[i]]
  BY <1>3, <1>4
<1>6. s = parts
  BY <1>5
<1>. QED BY <1>2, <1>6 DEF args

LEMMA ArgsRound ==
    ASSUME NEW q \in Texts
    PROVE  QueryArgs(QueryString(QueryArgs(q))) = QueryArgs(q)
<1>. DEFINE segs == Segments(q)
            all == Splits(segs)
            n == Len(segs)
<1>1. segs \in Seq(Texts) /\ QueryArgs(q) = ArgsOf(segs) /\ \A x \in 1..Len(segs) : Free(segs[x])
  BY ArgsAre, SegmentsFree
<1>. HIDE DEF segs
<1>2. all \in Seq(Arg) /\ Len(all) = n /\ n \in Nat
  BY <1>1, SplitsAre
<1>3. ArgsOf(segs) = Picked(all, Asked(segs))
  BY DEF ArgsOf, Asked
<1>. HIDE DEF all
<1>4. PICK g \in Seq(1..Len(all)) : /\ Places(g) = Asked(segs) \cap (1..Len(all))
                                    /\ Picked(all, Asked(segs)) = Along(all, g)
  BY <1>2, PickedAlong
<1>5. g \in Seq(1..n) /\ Len(g) \in Nat
  BY <1>2, <1>4
<1>. DEFINE parts == Along(segs, g)
            s == Splits(parts)
<1>6. /\ parts \in Seq(Texts) /\ Len(parts) = Len(g)
      /\ \A i \in 1..Len(g) : g[i] \in 1..n /\ parts[i] = segs[g[i]]
  BY <1>1, <1>5, AlongType
<1>7. s = QueryArgs(q)
  BY <1>1, <1>3, <1>4, <1>5, SplitsAlong DEF all
<1>. HIDE DEF parts
<1>8. /\ s \in Seq(Arg) /\ Len(s) = Len(g) /\ DOMAIN s = 1..Len(g)
      /\ \A i \in 1..Len(g) : s[i] = SplitSegment(parts[i])
  BY <1>6, SplitsAre
<1>9. \A i \in 1..Len(g) : s[i] = all[g[i]]
  BY <1>1, <1>6, <1>8, SplitsAre DEF all
<1>10. QueryString(QueryArgs(q)) = Joined(parts)
  BY <1>6, <1>7, Printed
<1>. HIDE DEF s
<1>11. CASE parts = <<>>
  <2>1. Joined(parts) = <<>>
    <3>1. PICK h : h[0] = <<>> /\ Joined(parts) = h[Len(parts)]
      BY <1>6, JoinedTable
    <3>2. Len(parts) = 0
      BY <1>11
    <3>. QED BY <3>1, <3>2
  <2>2. <<>> \in Texts /\ Len(<<>>) = 0
    BY DEF Texts
  <2>3. Segments(<<>>) = <<<<>>>>
    <3>1. PICK c : Cuts(<<>>, c) /\ Segments(<<>>) = c[Len(<<>>)]
      BY <2>2, CutsAre
    <3>. QED BY <2>2, <3>1 DEF Cuts
  <2>. DEFINE e == <<<<>>>>
              z == Splits(e)
  <2>4. e \in Seq(Texts) /\ Len(e) = 1 /\ e[1] = <<>>
    BY <2>2
  <2>. HIDE DEF e
  <2>5. z \in Seq(Arg) /\ Len(z) = 1 /\ z[1] = SplitSegment(<<>>)
    BY <2>4, SplitsAre
  <2>6. SplitSegment(<<>>) = [name |-> <<>>, value |-> <<>>, bare |-> TRUE]
    BY <2>2, SplitIs
  <2>7. Asked(e) \cap (1..Len(z)) = {}
    BY <2>4, <2>5, <2>6 DEF Asked
  <2>8. ArgsOf(e) = Picked(z, Asked(e))
    BY DEF ArgsOf, Asked
  <2>9. ArgsOf(e) = <<>>
    <3>. HIDE DEF z
    <3>. QED BY <2>5, <2>7, <2>8, NothingPicked
  <2>10. QueryArgs(<<>>) = ArgsOf(e)
    BY <2>2, <2>3, ArgsAre DEF e
  <2>11. s = <<>>
    <3>1. Len(s) = 0
      BY <1>6, <1>8, <1>11
    <3>. QED BY <1>8, <3>1
  <2>. QED BY <1>7, <1>10, <2>1, <2>9, <2>10, <2>11
<1>12. CASE parts # <<>>
  <2>1. \A i \in 1..Len(parts) : Free(parts[i])
    BY <1>1, <1>6
  <2>2. Joined(parts) \in Texts /\ Segments(Joined(parts)) = parts
    BY <1>6, <1>12, <2>1, SegmentsJoined
  <2>3. QueryArgs(Joined(parts)) = ArgsOf(parts)
    BY <2>2, ArgsAre
  <2>4. ArgsOf(parts) = Picked(s, Asked(parts))
    BY DEF ArgsOf, Asked, s
  <2>5. 1..Len(s) \subseteq Asked(parts)
    <3>1. ASSUME NEW i \in 1..Len(g) PROVE i \in Asked(parts)
      <4>1. g[i] \in Places(g)
        BY DEF Places
      <4>2. g[i] \in Asked(segs)
        BY <1>4, <4>1
      <4>3. all[g[i]].name # <<>> \/ all[g[i]].value # <<>>
        BY <4>2 DEF Asked, all
      <4>. QED BY <1>6, <1>9, <4>3 DEF Asked, s
    <3>. QED BY <1>8, <3>1
  <2>6. Picked(s, Asked(parts)) = s
    BY <1>8, <2>5, PickedAll
  <2>. QED BY <1>7, <1>10, <2>3, <2>4, <2>6
<1>. QED BY <1>11, <1>12

(***************************************************************************)
(* Parameters of different names, in any order.                            *)
(***************************************************************************)
LEMMA Renamed ==
    ASSUME NEW n \in Nat, NEW name, DOMAIN name = 1..n, Cardinality({name[i] : i \in 1..n}) = n,
           NEW i \in 1..n, NEW j \in 1..n, name[i] = name[j]
    PROVE  i = j
<1>. DEFINE T == {name[x] : x \in 1..n}
            f == [x \in 1..n |-> name[x]]
<1>1. f \in [1..n -> T] /\ \A x \in 1..n : f[x] = name[x]
  OBVIOUS
<1>2. \A t \in T : \E x \in 1..n : f[x] = t
  BY <1>1
<1>. HIDE DEF f, T
<1>3. f \in Surjection(1..n, T)
  BY <1>1, <1>2 DEF Surjection
<1>4. IsFiniteSet(1..n) /\ Cardinality(1..n) = n
  BY FS_Interval
<1>5. Cardinality(1..n) = Cardinality(T)
  BY <1>4 DEF T
<1>6. f \in Injection(1..n, T)
  BY <1>3, <1>4, <1>5, FS_SurjSameCardinalityImpliesInj
<1>7. DOMAIN f = 1..n
  BY <1>1
<1>. QED BY <1>1, <1>6, <1>7 DEF Injection, IsInjective

LEMMA Permuted ==
    ASSUME NEW n \in Nat, NEW p \in Bijection(1..n, 1..n)
    PROVE  /\ p \in Seq(1..n) /\ Len(p) = n /\ Places(p) = 1..n
           /\ \A i, j \in 1..n : p[i] = p[j] => i = j
<1>. DEFINE X == 1..n
<1>1. p \in [X -> X] /\ IsInjective(p) /\ \A w \in X : \E v \in X : p[v] = w
  BY DEF Bijection, Injection, Surjection
<1>2. \A i, j \in X : p[i] = p[j] => i = j
  BY <1>1 DEF IsInjective
<1>3. p \in Seq(X) /\ Len(p) = n
  <2>. HIDE DEF X
  <2>1. p \in [1..n -> X]
    BY <1>1 DEF X
  <2>. QED BY <2>1
<1>. HIDE DEF X
<1>4. \A i \in 1..n : p[i] \in X
  BY <1>1 DEF X
<1>5. Places(p) = X
  BY <1>1, <1>3, <1>4 DEF Places, X
<1>. QED BY <1>2, <1>3, <1>5 DEF X

LEMMA AnyOrder ==
    ASSUME NEW segs \in Seq(Texts), NEW rule,
           \A i, j \in 1..Len(segs) : SplitSegment(segs[i]).name = SplitSegment(segs[j]).name => i = j,
           NEW p \in Bijection(1..Len(segs), 1..Len(segs))
    PROVE  Chosen(rule, Along(segs, p)) = Chosen(rule, segs)
<1>. DEFINE n == Len(segs)
            B == Sides(Splits(segs))
            S == Texts \X Texts
            parts == Along(segs, p)
            I == {i \in 1..n : Allowed(rule, Splits(segs)[i].name)}
            J == {i \in 1..Len(parts) : Allowed(rule, Splits(parts)[i].name)}
<1>1. /\ n \in Nat /\ p \in Seq(1..n) /\ Len(p) = n /\ Places(p) = 1..n
      /\ \A i, j \in 1..n : p[i] = p[j] => i = j
  <2>1. n \in Nat
    OBVIOUS
  <2>. QED BY <2>1, Permuted
<1>2. /\ Splits(segs) \in Seq(Arg) /\ Len(Splits(segs)) = n
      /\ \A i \in 1..n : Splits(segs)[i] = SplitSegment(segs[i])
  BY SplitsAre
<1>3. B \in Pairs /\ B \in Seq(S) /\ Len(B) = n /\ \A i \in 1..n : B[i][1] = SplitSegment(segs[i]).name
  BY <1>2, SidesAre DEF Pairs
<1>4. /\ parts \in Seq(Texts) /\ Len(parts) = n
      /\ \A i \in 1..n : p[i] \in 1..n /\ parts[i] = segs[p[i]]
  BY <1>1, AlongType
<1>5. Splits(parts) = Along(Splits(segs), p)
  BY <1>1, SplitsAlong
<1>6. Sides(Splits(parts)) = Along(B, p)
  <2>1. p \in Seq(1..Len(Splits(segs)))
    BY <1>1, <1>2
  <2>. QED BY <1>2, <1>5, <2>1, SidesAlong
<1>7. /\ Chosen(rule, segs) = KVSlice(Picked(B, I))
      /\ Chosen(rule, parts) = KVSlice(Picked(Along(B, p), J))
  BY <1>6 DEF Chosen
<1>8. \A i \in 1..n : Splits(parts)[i] = SplitSegment(segs[p[i]])
  BY <1>4, SplitsAre
<1>9. \A i \in 1..n : i \in J <=> p[i] \in I
  BY <1>1, <1>2, <1>4, <1>8
<1>. HIDE DEF parts, B, S, n, I, J
<1>10. PICK g \in Seq(1..n) : /\ Climbs(g) /\ Places(g) = I \cap (1..n) /\ Picked(B, I) = Along(B, g)
  <2>1. PICK g \in Seq(1..Len(B)) :
            Climbs(g) /\ Places(g) = I \cap (1..Len(B)) /\ Picked(B, I) = Along(B, g)
    BY <1>3, PickedAlong
  <2>. QED BY <1>3, <2>1
<1>11. PICK h : PickedTwice(B, p, J, h)
  <2>1. p \in Seq(1..Len(B))
    BY <1>1, <1>3
  <2>. QED BY <1>3, <2>1, PickedAgain
<1>. DEFINE k == Along(p, h)
<1>12. /\ h \in Seq(1..n) /\ Climbs(h) /\ Places(h) = J \cap (1..n)
       /\ k \in Seq(1..n) /\ Len(k) = Len(h)
       /\ \A i \in 1..Len(h) : h[i] \in 1..n /\ k[i] = p[h[i]]
       /\ Picked(Along(B, p), J) = Along(B, k)
  BY <1>1, <1>3, <1>11 DEF PickedTwice
<1>. HIDE DEF k
<1>13. Places(k) = Places(g)
  <2>1. ASSUME NEW i \in 1..Len(h) PROVE k[i] \in Places(g)
    <3>1. h[i] \in Places(h)
      BY DEF Places
    <3>2. h[i] \in J /\ h[i] \in 1..n
      BY <1>12, <3>1
    <3>. QED BY <1>4, <1>9, <1>10, <1>12, <3>2
  <2>2. ASSUME NEW x \in Places(g) PROVE x \in Places(k)
    <3>1. x \in I /\ x \in Places(p)
      BY <1>1, <1>10
    <3>2. PICK v \in 1..n : x = p[v]
      BY <1>1, <3>1 DEF Places
    <3>3. v \in Places(h)
      BY <1>9, <1>12, <3>1, <3>2
    <3>4. PICK i \in 1..Len(h) : v = h[i]
      BY <3>3 DEF Places
    <3>. QED BY <1>12, <3>2, <3>4 DEF Places
  <2>3. \A x \in Places(k) : x \in Places(g)
    BY <1>12, <2>1 DEF Places
  <2>. QED BY <2>2, <2>3
<1>14. Stable(B, k)
  <2>1. ASSUME NEW i \in 1..Len(h), NEW j \in 1..Len(h), i < j, B[k[i]][1] = B[k[j]][1]
        PROVE  k[i] < k[j]
    <3>1. h[i] \in 1..n /\ h[j] \in 1..n /\ k[i] = p[h[i]] /\ k[j] = p[h[j]] /\ k[i] \in 1..n /\ k[j] \in 1..n
      BY <1>4, <1>12
    <3>2. SplitSegment(segs[k[i]]).name = SplitSegment(segs[k[j]]).name
      BY <1>3, <2>1, <3>1
    <3>3. k[i] = k[j]
      BY <3>1, <3>2 DEF n
    <3>4. h[i] = h[j]
      BY <1>1, <3>1, <3>3
    <3>5. h[i] < h[j]
      BY <1>12, <2>1 DEF Climbs
    <3>. QED BY <3>1, <3>4, <3>5
  <2>. QED BY <1>12, <2>1 DEF Stable
<1>15. KVSlice(Along(B, k)) = KVSlice(Along(B, g))
  <2>1. k \in Seq(1..Len(B)) /\ g \in Seq(1..Len(B)) /\ Stable(B, g)
    BY <1>3, <1>10, <1>12, ClimbsStable
  <2>. QED BY <1>3, <1>13, <1>14, <2>1, SameSort
<1>. QED BY <1>7, <1>10, <1>12, <1>15 DEF parts

LEMMA OrderDoesNotMatter ==
    ASSUME NEW q \in Texts, NEW rule, Prefixed(rule), NEW segs, segs = Segments(q),
           Cardinality({SplitSegment(segs[i]).name : i \in DOMAIN segs}) = Len(segs),
           NEW p \in Bijection(DOMAIN segs, DOMAIN segs)
    PROVE  QueriesFastHttp(rule, QueryArgs(Joined([i \in DOMAIN segs |-> segs[p[i]]])))
             = QueriesFastHttp(rule, QueryArgs(q))
<1>. DEFINE n == Len(segs)
            name == [i \in 1..n |-> SplitSegment(segs[i]).name]
            parts == Along(segs, p)
<1>1. /\ segs \in Seq(Texts) /\ segs # <<>> /\ QueryArgs(q) = ArgsOf(segs)
      /\ \A x \in 1..n : Free(segs[x])
  BY ArgsAre, SegmentsFree
<1>2. n \in Nat /\ DOMAIN segs = 1..n /\ n # 0
  BY <1>1, EmptySeq
<1>. HIDE DEF n
<1>3. \A i, j \in 1..n : SplitSegment(segs[i]).name = SplitSegment(segs[j]).name => i = j
  <2>1. DOMAIN name = 1..n /\ \A i \in 1..n : name[i] = SplitSegment(segs[i]).name
    OBVIOUS
  <2>2. Cardinality({SplitSegment(segs[i]).name : i \in 1..n}) = n
    BY <1>2 DEF n
  <2>. HIDE DEF name
  <2>3. {SplitSegment(segs[i]).name : i \in 1..n} = {name[i] : i \in 1..n}
    BY <2>1
  <2>4. Cardinality({name[i] : i \in 1..n}) = n
    BY <2>2, <2>3
  <2>5. ASSUME NEW i \in 1..n, NEW j \in 1..n,
               SplitSegment(segs[i]).name = SplitSegment(segs[j]).name
        PROVE  i = j
    <3>1. name[i] = name[j]
      BY <2>1, <2>5
    <3>. QED BY <1>2, <2>1, <2>4, <3>1, Renamed
  <2>. QED BY <2>5
<1>4. p \in Bijection(1..n, 1..n)
  BY <1>2
<1>5. p \in Seq(1..n) /\ Len(p) = n
  BY <1>2, <1>4, Permuted
<1>6. /\ parts \in Seq(Texts) /\ Len(parts) = n
      /\ \A i \in 1..n : p[i] \in 1..n /\ parts[i] = segs[p[i]]
  <2>1. p \in Seq(1..Len(segs))
    BY <1>5 DEF n
  <2>2. /\ parts \in Seq(Texts) /\ Len(parts) = Len(p)
        /\ \A i \in 1..Len(p) : p[i] \in 1..Len(segs) /\ parts[i] = segs[p[i]]
    BY <1>1, <2>1, AlongType
  <2>. HIDE DEF parts
  <2>. QED BY <1>5, <2>2 DEF n
<1>7. [i \in DOMAIN segs |-> segs[p[i]]] = parts
  BY <1>2, <1>5 DEF Along
<1>8. Chosen(rule, parts) = Chosen(rule, segs)
  BY <1>1, <1>3, <1>4, AnyOrder DEF n
<1>. HIDE DEF parts
<1>9. parts # <<>> /\ \A i \in 1..Len(parts) : Free(parts[i])
  <2>1. parts # <<>>
    <3>1. Len(parts) # 0
      <4>1. Len(parts) = n
        BY <1>6
      <4>. QED BY <1>2, <4>1
    <3>. QED BY <3>1
  <2>. QED BY <1>1, <1>6, <2>1
<1>10. Joined(parts) \in Texts /\ Segments(Joined(parts)) = parts
  BY <1>6, <1>9, SegmentsJoined
<1>11. QueryArgs(Joined(parts)) = ArgsOf(parts)
  BY <1>10, ArgsAre
<1>12. /\ QueriesFastHttp(rule, ArgsOf(parts)) = Chosen(rule, parts)
       /\ QueriesFastHttp(rule, ArgsOf(segs)) = Chosen(rule, segs)
  BY <1>1, <1>6, FastIs
<1>. QED BY <1>1, <1>7, <1>8, <1>11, <1>12

LEMMA RulesPrefixed == ASSUME NEW rule \in Rules PROVE Prefixed(rule)
<1>1. PICK c \in Configs : \E x \in DOMAIN c : rule = c[x]
  BY DEF Rules
<1>2. PICK x \in DOMAIN c : rule = c[x]
  BY <1>1
<1>3. rule.query \subseteq Bytes \ {<<>>}
  BY <1>2, EntryAssumption
<1>. QED BY <1>3, Subsets DEF Prefixed

\* The request a key is made of.
Asking ==
    /\ req.query \in Texts /\ req.headers \in Pairs
    /\ req.query = <<>> \/ (Head(req.query) # Eq /\ Head(req.query) # Mark)

LEMMA AskingHolds == ASSUME EntryInv PROVE Asking
<1>1. req \in [path : Path, query : Query, headers : Headers]
  BY DEF EntryInv, EntryTypes
<1>2. req.query \in Texts /\ req.headers \in Pairs
  BY <1>1, RequestTypes
<1>3. req.query \in Query
  BY <1>1
<1>. QED BY <1>2, <1>3, EntryAssumption DEF Asking

LEMMA KeysAgree == ASSUME Asking PROVE KeyPartsAgree
<1>. SUFFICES ASSUME NEW rule \in Rules
              PROVE  /\ parseFilterAndSortQuery(rule, req.query) = QueriesFastHttp(rule, QueryArgs(req.query))
                     /\ parseFilterAndSortQuery(rule, <<Mark>> \o req.query)
                          = QueriesFastHttp(rule, QueryArgs(req.query))
                     /\ QueriesFastHttp(rule, QueryArgs(QueryString(QueryArgs(req.query))))
                          = QueriesFastHttp(rule, QueryArgs(req.query))
                     /\ HeadersInPlace(rule, req.headers) = HeadersFastHttp(rule, req.headers)
                     /\ \A order \in SetToSeqs(Names(req.headers)) :
                           HeadersNetHttp(rule, req.headers, order) = HeadersFastHttp(rule, req.headers)
  BY DEF KeyPartsAgree
<1>. DEFINE q == req.query
            hs == req.headers
            marked == <<Mark>> \o q
<1>1. /\ q \in Texts /\ (q = <<>> \/ Head(q) # Eq) /\ (q = <<>> \/ Head(q) # Mark)
      /\ hs \in Pairs
  BY DEF Asking
<1>. HIDE DEF q, hs, marked
<1>2. Prefixed(rule)
  BY RulesPrefixed
<1>3. TrimLeft(q) = q /\ TrimLeft(marked) = q
  BY <1>1, Trims DEF marked
<1>4. /\ parseFilterAndSortQuery(rule, q) = Chosen(rule, Segments(q))
      /\ parseFilterAndSortQuery(rule, marked) = Chosen(rule, Segments(q))
  BY <1>1, <1>2, <1>3, ParserIs
<1>5. QueriesFastHttp(rule, QueryArgs(q)) = Chosen(rule, Segments(q))
  BY <1>1, <1>2, ArgsAre, FastIs
<1>6. QueryArgs(QueryString(QueryArgs(q))) = QueryArgs(q)
  BY <1>1, ArgsRound
<1>7. HeadersInPlace(rule, hs) = HeadersFastHttp(rule, hs)
  BY <1>1, InPlaceIs DEF Pairs
<1>8. \A order \in SetToSeqs(Names(hs)) : HeadersNetHttp(rule, hs, order) = HeadersFastHttp(rule, hs)
  BY <1>1, HeadersAgree
<1>. QED BY <1>4, <1>5, <1>6, <1>7, <1>8 DEF q, hs, marked

LEMMA OrdersAgree == ASSUME Asking PROVE OrderFree
<1>. DEFINE q == req.query
            segs == Segments(q)
<1>. SUFFICES ASSUME Cardinality({SplitSegment(segs[i]).name : i \in DOMAIN segs}) = Len(segs),
                     NEW rule \in Rules, NEW p \in Bijection(DOMAIN segs, DOMAIN segs)
              PROVE  QueriesFastHttp(rule, QueryArgs(Joined([i \in DOMAIN segs |-> segs[p[i]]])))
                       = QueriesFastHttp(rule, QueryArgs(q))
  BY DEF OrderFree
<1>1. q \in Texts
  BY DEF Asking
<1>2. Prefixed(rule)
  BY RulesPrefixed
<1>. HIDE DEF q
<1>. QED BY <1>1, <1>2, OrderDoesNotMatter

\* A mock, a net/http request and the server's request for the same query and headers
\* have the same sorted pairs, and so the same key.
THEOREM OneKeyPerRequest == EntrySpec => []KeyPartsAgree
<1>1. EntryInv => KeyPartsAgree
  BY AskingHolds, KeysAgree
<1>. QED BY <1>1, EntryInvHolds, PTL

\* The key of a request does not depend on the order of parameters whose names differ.
THEOREM KeyIgnoresOrder == EntrySpec => []OrderFree
<1>1. EntryInv => OrderFree
  BY AskingHolds, OrdersAgree
<1>. QED BY <1>1, EntryInvHolds, PTL
================================================================================
