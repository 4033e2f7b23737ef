-------------------------------- MODULE Dumper --------------------------------
(***************************************************************************)
(* pkg/storage/dumper.go across the lives of the process: each start loads *)
(* the latest version directory, or what the operator picks, each orderly  *)
(* stop dumps the cache into a new one and removes the oldest, and a crash *)
(* may come between any two steps.  A dump runs one goroutine per shard,   *)
(* started by pkg/storage/map's WalkShards; its context (one minute in     *)
(* app.go) may run out at any time.                                        *)
(*                                                                         *)
(* An entry is an item of its shard; the bytes of a dump are the set of    *)
(* items written.  What the code knows of age is the modification time of  *)
(* a directory, which every creation, rename and removal in it renews: so  *)
(* the directories on disk are kept as a sequence, latest first.           *)
(***************************************************************************)
EXTENDS Integers, SequencesExt

CONSTANTS
    NumOfShards,
    Item,         \* entries of a shard
    MaxVersions,  \* cfg MaxVersions; 0 keeps every version
    Gzip,         \* cfg Gzip
    MaxDumps,     \* bound: dumps, and so version numbers
    MaxCrashes,   \* bound: crashes
    MaxFailures,  \* bound: files and directories that cannot be made, written, renamed or read
    MaxChanges    \* bound: changes of the cache

ASSUME DumperAssumption ==
    /\ NumOfShards \in Nat \ {0} /\ MaxVersions \in Nat /\ Gzip \in BOOLEAN
    /\ MaxDumps \in Nat /\ MaxCrashes \in Nat /\ MaxFailures \in Nat /\ MaxChanges \in Nat

Shard == 0..(NumOfShards - 1)
Version == 1..MaxDumps

VARIABLES
    up,       \* the process: "off", "on", or in "dump"
    cache,    \* shard -> its entries
    file,     \* version -> shard -> [name, has]: "none", "tmp" or "dump" and its content
    recent,   \* version directories on disk, the last modified first
    stage,    \* where Dump stands
    ver,      \* the version being dumped, or dumped last
    spawned,  \* shards WalkShards has started a goroutine for: 0..spawned-1
    job,      \* shard -> where its goroutine stands
    wrote,    \* shard -> what its goroutine gave to the buffered writer
    doomed,   \* directories still to be removed
    expired,  \* the dump's context is done
    saw,      \* version -> shard -> the entries its goroutine found in the shard
    cut,      \* <<version, shard>> whose file failed or was cut short
    through,  \* versions whose dump went through
    budget    \* [crashes, failures, changes] spent

disk == <<file, recent>>
dump == <<stage, ver, spawned, job, wrote, doomed, expired>>
history == <<saw, cut, through>>
vars == <<up, cache, disk, dump, history, budget>>

NoFile == [name |-> "none", has |-> {}]
Idle == [s \in Shard |-> "no"]
Empty == [s \in Shard |-> {}]

Init ==
    /\ up = "off" /\ cache = Empty
    /\ file = [v \in Version |-> [s \in Shard |-> NoFile]] /\ recent = << >>
    /\ stage = "no" /\ ver = 0 /\ spawned = 0 /\ job = Idle /\ wrote = Empty
    /\ doomed = << >> /\ expired = FALSE
    /\ saw = [v \in Version |-> Empty] /\ cut = {} /\ through = {}
    /\ budget = [crashes |-> 0, failures |-> 0, changes |-> 0]

\* Directory v was modified just now.
PlaceOf(v) == CHOOSE i \in DOMAIN recent : recent[i] = v
Without(v) == RemoveAt(recent, PlaceOf(v))
Touched(v) == <<v>> \o Without(v)
\* The process is gone, and all it had in memory.
Off ==
    /\ up' = "off" /\ stage' = "no" /\ cache' = Empty
    /\ spawned' = 0 /\ job' = Idle /\ wrote' = Empty /\ doomed' = << >> /\ expired' = FALSE
Spend(what) == budget' = [budget EXCEPT ![what] = @ + 1]

-------------------------------------------------------------------------------
(***************************************************************************)
(* Start: LoadData.  getLatestVersionDir goes by the time of modification; *)
(* the pattern name-shard-*.dump* matches unfinished .tmp files too, and   *)
(* among the suffixes extractLatestTimestamp compares "..dump.tmp" is the  *)
(* largest: one .tmp file and only .tmp files are loaded.  A compressed    *)
(* one lacks the suffix .gz, is read as it is and yields nothing.          *)
(* (A definition whose name ends in V is a slip a change to the code could *)
(* make; nothing uses it.)                                                 *)
(***************************************************************************)
LatestVersionDirV == Last(recent)                 \* sorted the other way
LatestVersionDir == Head(recent)

LatestName(v) == IF \E s \in Shard : file[v][s].name = "tmp" THEN "tmp" ELSE "dump"
Loaded(v) ==
    LET name == LatestName(v)
    IN  [s \in Shard |-> IF file[v][s].name = name /\ (name = "dump" \/ ~ Gzip)
                         THEN file[v][s].has ELSE {}]

Start ==
    /\ up = "off"
    /\ up' = "on"
    /\ cache' = IF recent = << >> THEN Empty ELSE Loaded(LatestVersionDir)
    /\ UNCHANGED <<disk, dump, history, budget>>

\* A file cannot be opened or an entry not be read, and what follows it is missed: a
\* warning is all, the process goes on with what it has.
LoadFails ==
    /\ up = "off" /\ recent # << >> /\ budget.failures < MaxFailures
    /\ up' = "on"
    /\ \E got \in [Shard -> SUBSET Item] :
          /\ \A s \in Shard : got[s] \subseteq Loaded(LatestVersionDir)[s]
          /\ cache' = got
    /\ Spend("failures")
    /\ UNCHANGED <<disk, dump, history>>

\* The operator picks a version in the menu, whatever was dumped since (one that cannot
\* be read to its end ends the process) ..
LoadVersion(v) ==
    /\ up = "off" /\ v \in ToSet(recent)
    /\ \E s \in Shard : file[v][s] # NoFile
    /\ LatestName(v) = "dump" \/ ~ Gzip
    /\ up' = "on" /\ cache' = Loaded(v)
    /\ UNCHANGED <<disk, dump, history, budget>>

\* .. or goes on without one, as does a start that the configuration lets load nothing.
LoadNothing ==
    /\ up = "off"
    /\ up' = "on" /\ cache' = Empty
    /\ UNCHANGED <<disk, dump, history, budget>>

\* Requests add entries and the evictor removes them; what is still under way when
\* the process stops goes on during the dump.
Change(s, i) ==
    /\ up # "off" /\ budget.changes < MaxChanges
    /\ \/ i \notin cache[s] /\ cache' = [cache EXCEPT ![s] = @ \cup {i}]
       \/ i \in cache[s] /\ cache' = [cache EXCEPT ![s] = @ \ {i}]
    /\ Spend("changes")
    /\ UNCHANGED <<up, disk, dump, history>>

-------------------------------------------------------------------------------
nextVersionDir == Max(ToSet(recent) \cup {0}) + 1

\* The process stops in order: Dump makes the next version's directory.
DumpStart ==
    LET next == nextVersionDir
    IN  /\ up = "on" /\ next \in Version
        /\ up' = "dump" /\ stage' = "spawn" /\ ver' = next
        /\ recent' = <<next>> \o recent
        /\ UNCHANGED <<cache, file, spawned, job, wrote, doomed, expired, history, budget>>

\* It cannot: Dump returns at once and the process ends.
DumpStartFails ==
    /\ up = "on" /\ budget.failures < MaxFailures
    /\ Off
    /\ Spend("failures")
    /\ UNCHANGED <<disk, ver, history>>

\* time.Minute has passed.
Expire ==
    /\ up = "dump" /\ ~ expired
    /\ expired' = TRUE
    /\ UNCHANGED <<up, cache, disk, stage, ver, spawned, job, wrote, doomed, history, budget>>

\* WalkShards starts the goroutines one by one.  If the context is done by then it
\* returns, that is, waits for the goroutines it has not started.
Spawn ==
    /\ stage = "spawn"
    /\ \/ /\ ~ expired /\ spawned < NumOfShards
          /\ job' = [job EXCEPT ![spawned] = "create"]
          /\ spawned' = spawned + 1
          /\ UNCHANGED stage
       \/ expired /\ spawned < NumOfShards /\ stage' = "hung" /\ UNCHANGED <<job, spawned>>
       \/ spawned = NumOfShards /\ stage' = "wait" /\ UNCHANGED <<job, spawned>>
    /\ UNCHANGED <<up, cache, disk, ver, wrote, doomed, expired, history, budget>>

\* os.Create(tmp)
Create(s) ==
    /\ job[s] = "create"
    /\ file' = [file EXCEPT ![ver][s] = [name |-> "tmp", has |-> {}]]
    /\ recent' = Touched(ver)
    /\ job' = [job EXCEPT ![s] = "walk"]
    /\ UNCHANGED <<up, cache, stage, ver, spawned, wrote, doomed, expired, history, budget>>

CreateFailsV(s) ==                                \* wg.Done is not deferred
    /\ job[s] = "create" /\ budget.failures < MaxFailures
    /\ job' = [job EXCEPT ![s] = "left"]
    /\ cut' = cut \cup {<<ver, s>>}
    /\ Spend("failures")
    /\ UNCHANGED <<up, cache, disk, stage, ver, spawned, wrote, doomed, expired, saw, through>>
\* It fails: the shard is not dumped, the dump goes on.
CreateFails(s) ==
    /\ job[s] = "create" /\ budget.failures < MaxFailures
    /\ job' = [job EXCEPT ![s] = "done"]
    /\ cut' = cut \cup {<<ver, s>>}
    /\ Spend("failures")
    /\ UNCHANGED <<up, cache, disk, stage, ver, spawned, wrote, doomed, expired, saw, through>>

\* The bytes of `took` go to the buffered writer; part of them may be in the file.
Written(s, took) ==
    /\ wrote' = [wrote EXCEPT ![s] = took]
    /\ \E flushed \in SUBSET took : file' = [file EXCEPT ![ver][s].has = flushed]
    /\ cut' = IF took = cache[s] THEN cut ELSE cut \cup {<<ver, s>>}

\* Walk, under the shard's lock, to the end, or as far as the context lasts; after a
\* write that failed the writer drops what follows.
Walk(s) ==
    /\ job[s] = "walk"
    /\ saw' = [saw EXCEPT ![ver][s] = cache[s]]
    /\ \/ ~ expired /\ Written(s, cache[s]) /\ UNCHANGED <<expired, budget>>
       \/ expired /\ Written(s, {}) /\ UNCHANGED <<expired, budget>>
       \/ /\ ~ expired /\ expired' = TRUE
          /\ \E took \in SUBSET cache[s] : Written(s, took)
          /\ UNCHANGED budget
       \/ /\ budget.failures < MaxFailures /\ Spend("failures")
          /\ \E took \in SUBSET cache[s] : took # cache[s] /\ Written(s, took)
          /\ UNCHANGED expired
    /\ job' = [job EXCEPT ![s] = "flush"]
    /\ UNCHANGED <<up, cache, recent, stage, ver, spawned, doomed, through>>

FlushV(s) ==                                      \* closed without being flushed
    /\ job[s] = "flush"
    /\ job' = [job EXCEPT ![s] = "rename"]
    /\ UNCHANGED <<up, cache, disk, stage, ver, spawned, wrote, doomed, expired, history, budget>>
\* Flush and Close.
Flush(s) ==
    /\ job[s] = "flush"
    /\ file' = [file EXCEPT ![ver][s].has = wrote[s]]
    /\ job' = [job EXCEPT ![s] = "rename"]
    /\ UNCHANGED <<up, cache, recent, stage, ver, spawned, wrote, doomed, expired, history, budget>>

\* os.Rename(tmp, name), its error dropped.
Rename(s) ==
    /\ job[s] = "rename"
    /\ \/ /\ file' = [file EXCEPT ![ver][s].name = "dump"]
          /\ recent' = Touched(ver)
          /\ UNCHANGED <<cut, budget>>
       \/ /\ budget.failures < MaxFailures /\ Spend("failures")
          /\ cut' = cut \cup {<<ver, s>>}
          /\ UNCHANGED disk
    /\ job' = [job EXCEPT ![s] = "done"]
    /\ UNCHANGED <<up, cache, stage, ver, spawned, wrote, doomed, expired, saw, through>>

-------------------------------------------------------------------------------
TooOldV == IF MaxVersions > 0 /\ Len(recent) > MaxVersions
           THEN SubSeq(recent, MaxVersions + 2, Len(recent)) ELSE << >>
\* rotateVersionDirs: all but the newest, by time of modification.
TooOld == IF MaxVersions > 0 /\ Len(recent) > MaxVersions
          THEN SubSeq(recent, MaxVersions + 1, Len(recent)) ELSE << >>

RotateV ==                                        \* without waiting for the goroutines
    /\ stage = "wait"
    /\ stage' = "remove"
    /\ doomed' = TooOld
    /\ UNCHANGED <<up, cache, disk, ver, spawned, job, wrote, expired, history, budget>>
\* wg.Wait is over.  The versions are rotated whatever failed.
Rotate ==
    /\ stage = "wait" /\ \A s \in Shard : job[s] = "done"
    /\ stage' = "remove"
    /\ doomed' = TooOld
    /\ UNCHANGED <<up, cache, disk, ver, spawned, job, wrote, expired, history, budget>>

\* os.RemoveAll: file after file, which renews the directory's time ..
RemoveFile(s) ==
    /\ stage = "remove" /\ doomed # << >>
    /\ LET v == Head(doomed)
       IN  /\ file[v][s] # NoFile
           /\ file' = [file EXCEPT ![v][s] = NoFile]
           /\ recent' = Touched(v)
    /\ UNCHANGED <<up, cache, dump, history, budget>>

\* .. and the directory.
RemoveDir ==
    /\ stage = "remove" /\ doomed # << >>
    /\ \A s \in Shard : file[Head(doomed)][s] = NoFile
    /\ recent' = Without(Head(doomed))
    /\ doomed' = Tail(doomed)
    /\ UNCHANGED <<up, cache, file, stage, ver, spawned, job, wrote, expired, history, budget>>

\* Dump returns and the process ends.
Finish ==
    /\ stage = "remove" /\ doomed = << >>
    /\ Off
    /\ through' = through \cup {ver}
    /\ UNCHANGED <<disk, ver, saw, cut, budget>>

\* The process dies; so it does when a dump that hangs outlasts the shutdown's patience.
Crash ==
    /\ up # "off" /\ (budget.crashes < MaxCrashes \/ stage = "hung")
    /\ Off
    /\ IF stage = "hung" THEN UNCHANGED budget ELSE Spend("crashes")
    /\ UNCHANGED <<disk, ver, history>>

-------------------------------------------------------------------------------
ShardStep(s) == Create(s) \/ CreateFails(s) \/ Walk(s) \/ Flush(s) \/ Rename(s)
DumpStep ==
    \/ Spawn \/ Rotate \/ RemoveDir \/ Finish
    \/ \E s \in Shard : RemoveFile(s)

Next ==
    \/ Start \/ LoadFails \/ LoadNothing \/ \E v \in Version : LoadVersion(v)
    \/ DumpStart \/ DumpStartFails \/ Expire \/ Crash \/ DumpStep
    \/ \E s \in Shard : ShardStep(s) \/ \E i \in Item : Change(s, i)

Spec == Init /\ [][Next]_vars

\* The goroutines of a dump go on.
Fairness == WF_vars(DumpStep) /\ \A s \in Shard : WF_vars(ShardStep(s))
FairSpec == Spec /\ Fairness

-------------------------------------------------------------------------------
(***************************************************************************)
(* Properties                                                              *)
(***************************************************************************)
TypeOK ==
    /\ up \in {"off", "on", "dump"}
    /\ cache \in [Shard -> SUBSET Item]
    /\ file \in [Version -> [Shard -> [name : {"none", "tmp", "dump"}, has : SUBSET Item]]]
    /\ recent \in Seq(Version) /\ doomed \in Seq(Version)
    /\ stage \in {"no", "spawn", "hung", "wait", "remove"}
    /\ ver \in Version \cup {0} /\ spawned \in 0..NumOfShards
    /\ job \in [Shard -> {"no", "create", "walk", "flush", "rename", "done"}]
    /\ wrote \in [Shard -> SUBSET Item]
    /\ expired \in BOOLEAN
    /\ saw \in [Version -> [Shard -> SUBSET Item]] /\ cut \subseteq Version \X Shard
    /\ through \subseteq Version
    /\ budget \in [crashes : 0..MaxCrashes, failures : 0..MaxFailures, changes : 0..MaxChanges]

\* A file bears its final name only when it holds all its walk found in the shard
\* (or a failure or the context cut it short), wherever the process may have died.
RenamedIsWhole ==
    \A v \in Version, s \in Shard :
        file[v][s].name = "dump" /\ <<v, s>> \notin cut => file[v][s].has = saw[v][s]

Whole(v) == \A s \in Shard : file[v][s] = [name |-> "dump", has |-> saw[v][s]]

\* Once a dump went through, the disk holds a whole version for ever, whatever
\* crashes interrupt later dumps and rotations - as long as no dump was cut short,
\* for such a one pushes whole versions out as well.
DumpSurvives == through # {} /\ cut = {} => \E i \in DOMAIN recent : Whole(recent[i])

\* When the last dump begun went through and was not cut short, a start finds exactly
\* what that dump saw, shard by shard, whatever else is on disk and however the lives
\* since then ended.  So does one from a version the operator picks, as long as none of
\* its files is gone: a dump that started later and broke off never touches it.
Uncut(v) == \A s \in Shard : <<v, s>> \notin cut
LoadRestores ==
    [][/\ Start /\ ver \in through /\ Uncut(ver) => cache' = saw[ver]
       /\ \A v \in through :
             LoadVersion(v) /\ Uncut(v) /\ (\A s \in Shard : file[v][s] # NoFile)
                => cache' = saw[v]]_vars

\* After a dump no more than MaxVersions directories are left, those of dumps that a
\* crash broke off included.
VersionsBounded == ver \in through /\ MaxVersions > 0 => Len(recent) <= MaxVersions

\* A dump whose context lasts comes back.
DumpReturns == up = "dump" ~> (up = "off" \/ expired)
===============================================================================
