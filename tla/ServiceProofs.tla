------------------------------ MODULE ServiceProofs ------------------------------
(***************************************************************************)
(* Proofs about parts of the service, for any number of clients, calls,    *)
(* requests, tokens, keys, weights, threads, scanners and shards.  A       *)
(* part's theorem is about that part alone; what MCService runs is one     *)
(* part at a time with the others at rest, and the last theorem says the   *)
(* same of it.                                                             *)
(***************************************************************************)
EXTENDS MCService, SumLemmas, TLAPS

(***************************************************************************)
(* The counters.                                                           *)
(***************************************************************************)
CountersOk ==
    /\ requests \in Nat /\ counter \in Nat /\ loc \in Nat /\ sumNum \in Nat /\ acc \in Nat
    /\ reported \in Nat /\ hourly \in Nat /\ counted \in Nat
    /\ refreshes \in Nat /\ refCounter \in Nat /\ refAcc \in Nat /\ refHourly \in Nat
    /\ pc \in {"select", "store", "add"}

\* What the writer has loaded and not yet stored 0 for is still in the counter.
LoadedIsThere ==
    /\ pc = "store" => loc <= counter
    /\ pc = "select" => loc = 0

CountersInv == CountersOk /\ LoadedIsThere /\ CountedOnce

LEMMA CountersStep == CountersInv /\ [C!Next]_counterVars => CountersInv'
<1>. SUFFICES ASSUME CountersInv, [C!Next]_counterVars PROVE CountersInv'
  OBVIOUS
<1>. USE DEF CountersInv, CountersOk, LoadedIsThere, CountedOnce, C!CountedOnce
<1>1. CASE C!Serve
  BY <1>1 DEF C!Serve, C!writerVars, C!refVars
<1>2. CASE C!Load
  BY <1>2 DEF C!Load, C!writerVars, C!refVars
<1>3. CASE C!Store
  BY <1>3 DEF C!Store, C!writerVars, C!refVars
<1>4. CASE C!Add
  <2>1. /\ pc = "add" /\ pc' = "select" /\ loc' = 0
        /\ counted' = counted + loc /\ acc' = acc + loc
        /\ UNCHANGED <<requests, counter, hourly, refreshes, refCounter, refAcc, refHourly>>
    BY <1>4 DEF C!Add, C!refVars
  <2>2. /\ sumNum' \in Nat /\ reported' \in Nat
        /\ reported' + sumNum' = reported + sumNum + loc
    BY <1>4 DEF C!Add
  <2>3. CountersOk' /\ LoadedIsThere'
    BY <2>1, <2>2
  <2>4. counted + counter + loc <= requests
    BY <2>1
  <2>5. counted' + counter' + (IF pc' = "add" THEN loc' ELSE 0) <= requests'
    <3>1. counted' = counted + loc /\ counter' = counter /\ requests' = requests /\ pc' = "select"
      BY <2>1
    <3>. QED BY <2>4, <3>1
  <2>6. reported' + sumNum' = counted' /\ hourly' + acc' = counted'
    <3>1. reported' + sumNum' = counted'
      BY <2>1, <2>2
    <3>2. hourly' + acc' = counted'
      BY <2>1
    <3>. QED BY <3>1, <3>2
  <2>7. refHourly' + refAcc' + refCounter' = refreshes'
    BY <2>1
  <2>8. CountedOnce'
    BY <2>5, <2>6, <2>7
  <2>. QED BY <2>3, <2>8
<1>5. CASE C!Hour
  BY <1>5 DEF C!Hour, C!refVars
<1>6. CASE C!Refreshed
  BY <1>6 DEF C!Refreshed, C!writerVars
<1>7. CASE C!RefreshTick
  BY <1>7 DEF C!RefreshTick, C!writerVars
<1>8. CASE C!RefreshHour
  BY <1>8 DEF C!RefreshHour, C!writerVars
<1>9. CASE UNCHANGED counterVars
  BY <1>9 DEF counterVars
<1>. QED BY <1>1, <1>2, <1>3, <1>4, <1>5, <1>6, <1>7, <1>8, <1>9 DEF C!Next

\* No request is counted twice, and none that was loaded is missing from the reports.
THEOREM CountersCountOnce == C!Init /\ [][C!Next]_counterVars => []CountedOnce
<1>1. C!Init => CountersInv
  BY DEF C!Init, CountersInv, CountersOk, LoadedIsThere, CountedOnce, C!CountedOnce
<1>2. CountersInv => CountedOnce
  BY DEF CountersInv
<1>. QED BY <1>1, <1>2, CountersStep, PTL

(***************************************************************************)
(* The clear token.                                                        *)
(***************************************************************************)
TokenOk ==
    /\ made \in 0..MaxTokens
    /\ token \in T!Token \cup {Forever}
    /\ cleared \in [T!Token -> Nat]
    /\ DOMAIN handed = Client
    /\ DOMAIN call = Client

\* The token that stands was handed to someone and has not cleared; no token that is
\* still to be made has; and none has cleared twice, or unhanded.
TokenInv ==
    /\ TokenOk
    /\ \A t \in T!Token : t > made => cleared[t] = 0 /\ t # token
    /\ token # Forever => \E c \in Client : token \in handed[c]
    /\ SingleUse

LEMMA TokenStep == TokenInv /\ [T!Next]_tokenVars => TokenInv'
<1>. SUFFICES ASSUME TokenInv, [T!Next]_tokenVars PROVE TokenInv'
  OBVIOUS
<1>0. MaxTokens \in Nat /\ Forever \notin T!Token
  BY ServiceAssumption DEF T!Token
<1>. USE DEF TokenInv, TokenOk, SingleUse, T!SingleUse
<1>1. ASSUME NEW c \in Client, NEW p, NEW t, T!Ask(c, p, t) PROVE TokenInv'
  BY <1>0, <1>1 DEF T!Ask
<1>2. ASSUME NEW c \in Client, T!LookUp(c) PROVE TokenInv'
  <2>1. /\ DOMAIN handed' = Client /\ DOMAIN call' = Client
        /\ \A d \in Client : handed[d] \subseteq handed'[d]
    BY <1>2 DEF T!LookUp
  <2>2. UNCHANGED <<made, token, cleared>>
    BY <1>2 DEF T!LookUp
  <2>. QED BY <2>1, <2>2, <1>0
<1>3. ASSUME NEW c \in Client, T!Make(c) PROVE TokenInv'
  <2>. DEFINE t == made + 1
  <2>1. t \in T!Token /\ made' = t /\ token' = t /\ cleared' = cleared
    BY <1>0, <1>3 DEF T!Make, T!Token
  <2>2. DOMAIN handed' = Client /\ DOMAIN call' = Client
    BY <1>3 DEF T!Make
  <2>3. /\ \A d \in Client : handed[d] \subseteq handed'[d]
        /\ t \in handed'[c]
    BY <1>3 DEF T!Make
  <2>4. cleared[t] = 0
    BY <2>1, <1>0 DEF T!Token
  <2>5. TokenOk'
    BY <2>1, <2>2, <1>0 DEF T!Token
  <2>6. \A u \in T!Token : u > made' => cleared'[u] = 0 /\ u # token'
    BY <2>1, <1>0 DEF T!Token
  <2>7. SingleUse'
    BY <2>1, <2>3, <2>4, <1>0
  <2>. QED BY <2>1, <2>3, <2>5, <2>6, <2>7
<1>4. ASSUME NEW c \in Client, T!Use(c) PROVE TokenInv'
  <2>1. /\ token' = Forever /\ UNCHANGED <<made, handed>>
        /\ DOMAIN call' = Client
    BY <1>4 DEF T!Use
  <2>2. \/ cleared' = cleared
        \/ token # Forever /\ cleared' = [cleared EXCEPT ![token] = @ + 1]
    BY <1>4 DEF T!Use, T!Stands
  <2>3. CASE cleared' = cleared
    BY <2>1, <2>3, <1>0
  <2>4. CASE token # Forever /\ cleared' = [cleared EXCEPT ![token] = @ + 1]
    <3>1. token \in T!Token /\ cleared[token] = 0
      BY <2>4, <1>0
    <3>2. cleared' \in [T!Token -> Nat]
      BY <2>4, <3>1
    <3>3. \A t \in T!Token : cleared'[t] = IF t = token THEN 1 ELSE cleared[t]
      BY <2>4, <3>1
    <3>. QED BY <2>1, <2>4, <3>1, <3>2, <3>3, <1>0
  <2>. QED BY <2>2, <2>3, <2>4
<1>5. CASE T!Tick
  BY <1>5 DEF T!Tick
<1>6. CASE UNCHANGED tokenVars
  BY <1>6 DEF tokenVars
<1>. QED BY <1>1, <1>2, <1>3, <1>4, <1>5, <1>6 DEF T!Next

\* A token clears the storage at most once, whatever its holders do at the same time.
THEOREM TokenIsSingleUse == T!Init /\ [][T!Next]_tokenVars => []SingleUse
<1>1. T!Init => TokenInv
  BY ServiceAssumption DEF T!Init, TokenInv, TokenOk, SingleUse, T!SingleUse, T!Token
<1>2. TokenInv => SingleUse
  BY DEF TokenInv
<1>. QED BY <1>1, <1>2, TokenStep, PTL

(***************************************************************************)
(* The probe.                                                              *)
(***************************************************************************)
ProbeOk ==
    /\ served \in BOOLEAN /\ isAlive \in BOOLEAN
    /\ probe \in [ProbeCall -> {"new", "waits", "late", "answered"}]
    /\ asker \in [ProbeCall -> {"none", "offers", "gone"}]
    /\ watcher \in {"range", "asks", "answers"}
    /\ answer \in [ProbeCall -> BOOLEAN]
    /\ truths \in [ProbeCall -> SUBSET BOOLEAN]

\* Until a call is disturbed, the watcher works for the one that waits, whose asker it
\* has heard, and no other asker is left.
WatcherServes ==
    /\ \A c, d \in ProbeCall : probe[c] = "waits" /\ probe[d] = "waits" => c = d
    /\ \A c \in ProbeCall : probe[c] # "late" /\ (asker[c] = "offers" => probe[c] = "waits")
    /\ watcher # "range" => \E c \in ProbeCall : probe[c] = "waits" /\ asker[c] = "gone"
    /\ watcher = "answers" => \A c \in ProbeCall : probe[c] = "waits" => isAlive \in truths[c]

ProbeInv ==
    /\ ProbeOk
    /\ \A c \in ProbeCall : probe[c] = "waits" => served \in truths[c]
    /\ ~ disturbed => WatcherServes
    /\ FreshUnlessLate

LEMMA ProbeStep == ProbeInv /\ [P!Next]_probeVars => ProbeInv'
<1>. SUFFICES ASSUME ProbeInv, [P!Next]_probeVars PROVE ProbeInv'
  OBVIOUS
<1>. USE DEF ProbeInv, ProbeOk, WatcherServes, FreshUnlessLate, P!FreshUnlessLate
<1>1. ASSUME NEW c \in ProbeCall, P!IsAlive(c) PROVE ProbeInv'
  <2>1. ProbeOk'
    BY <1>1 DEF P!IsAlive
  <2>2. ~ disturbed' => /\ ~ disturbed /\ watcher = "range"
                        /\ \A d \in ProbeCall : probe[d] # "waits"
    BY <1>1 DEF P!IsAlive, P!Waiting
  <2>. QED BY <1>1, <2>1, <2>2 DEF P!IsAlive
<1>2. ASSUME NEW c \in ProbeCall, P!AskerLeave(c) PROVE ProbeInv'
  BY <1>2 DEF P!AskerLeave
<1>3. ASSUME NEW c \in ProbeCall, P!Take(c) PROVE ProbeInv'
  BY <1>3 DEF P!Take
<1>4. CASE P!Compute
  BY <1>4 DEF P!Compute
<1>5. ASSUME NEW c \in ProbeCall, P!Answer(c) PROVE ProbeInv'
  BY <1>5 DEF P!Answer
<1>6. ASSUME NEW c \in ProbeCall, P!Timeout(c) PROVE ProbeInv'
  BY <1>6 DEF P!Timeout
<1>7. CASE P!Turn
  BY <1>7 DEF P!Turn, P!Waiting
<1>8. CASE UNCHANGED probeVars
  BY <1>8 DEF probeVars
<1>. QED BY <1>1, <1>2, <1>3, <1>4, <1>5, <1>6, <1>7, <1>8 DEF P!Next

\* While no probe was late or overlapped another, an answer is one the server's flag had
\* while the probe waited.
THEOREM ProbesAreFresh == P!Init /\ [][P!Next]_probeVars => []FreshUnlessLate
<1>1. P!Init => ProbeInv
  BY DEF P!Init, ProbeInv, ProbeOk, WatcherServes, FreshUnlessLate, P!FreshUnlessLate
<1>2. ProbeInv => FreshUnlessLate
  BY DEF ProbeInv
<1>. QED BY <1>1, <1>2, ProbeStep, PTL

(***************************************************************************)
(* The life cycle.                                                         *)
(***************************************************************************)
LifeOk ==
    /\ cfg \in L!Cfg /\ appCfg \in L!Cfg /\ shares \in BOOLEAN
    /\ started \in BOOLEAN /\ done \in BOOLEAN /\ alive \in BOOLEAN /\ missed \in BOOLEAN
    /\ main \in {"config", "load", "menu", "save", "start", "listen", "await", "exited"}
    /\ exit \in {"no", "noConfig", "byUser", "graceful", "timeout"}
    /\ app \in {"idle", "starts", "runs", "stops", "done"}
    /\ serve \in {"none", "bind", "serves", "ended"} /\ shut \in {"none", "waits", "ended"}
    /\ dumped \in {"no", "stored", "refused"}

Wanted == cfg.enabled /\ cfg.dump /\ L!App.enabled /\ L!App.dump

\* What the application does it does while main listens or waits, in this order.
Stages ==
    /\ (exit = "no") <=> (main # "exited")
    /\ app # "idle" => started /\ (main \in {"listen", "await"} \/ exit \in {"graceful", "timeout"})
    /\ main \in {"listen", "await"} => started
    /\ main = "await" => done
    /\ app \in {"idle", "starts"} <=> serve = "none"
    /\ app \in {"idle", "starts"} <=> shut = "none"
    /\ app \in {"stops", "done"} => serve = "ended" /\ shut = "ended"
    /\ alive <=> app = "runs"
    /\ dumped # "no" => app = "done"
    /\ app = "done" => (dumped = "stored" <=> Wanted)
    /\ shut = "ended" /\ serve # "ended" => missed
    /\ exit = "graceful" => app = "done"
    /\ exit = "timeout" => missed

LifeInv == LifeOk /\ Stages

LEMMA LifeStep == LifeInv /\ [L!Next]_lifeVars => LifeInv'
<1>. SUFFICES ASSUME LifeInv, [L!Next]_lifeVars PROVE LifeInv'
  OBVIOUS
<1>. USE DEF LifeInv, LifeOk, Stages, Wanted, L!App, L!mainVars, L!loadVars, L!appVars
<1>1. ASSUME NEW interactive \in BOOLEAN, L!LoadCfg(interactive) PROVE LifeInv'
  <2>1. cfg' \in L!Cfg
    <3>1. ASSUME NEW c \in L!Cfg, NEW d, NEW m, NEW r
          PROVE  L!Overridden(c, d, m, r) \in L!Cfg
      BY DEF L!Cfg, L!Overridden
    <3>. QED BY <1>1, <3>1 DEF L!LoadCfg
  <2>2. UNCHANGED <<appCfg, shares, loaded, done, started, app, serve, shut, alive, dumped, missed>>
    BY <1>1 DEF L!LoadCfg
  <2>3. /\ main = "config"
        /\ \/ main' \in {"menu", "load"} /\ exit' = exit
           \/ main' = "exited" /\ exit' = "noConfig"
    BY <1>1 DEF L!LoadCfg
  <2>. QED BY <2>1, <2>2, <2>3
<1>2. CASE L!LoadData
  BY <1>2 DEF L!LoadData
<1>3. CASE L!Menu \/ L!MenuEnd
  BY <1>3 DEF L!Menu, L!MenuEnd
<1>4. CASE L!MenuYaml
  BY <1>4 DEF L!MenuYaml
<1>5. ASSUME NEW yes \in BOOLEAN, L!SavePrompt(yes) PROVE LifeInv'
  <2>1. cfg' \in L!Cfg
    BY <1>5 DEF L!SavePrompt, L!Cfg
  <2>. QED BY <1>5, <2>1 DEF L!SavePrompt
<1>6. CASE L!Start
  BY <1>6 DEF L!Start
<1>7. CASE L!AppStart /\ main # "exited"
  BY <1>7 DEF L!AppStart
<1>8. CASE L!Bind /\ main # "exited"
  BY <1>8 DEF L!Bind
<1>9. CASE L!ShutdownServer /\ main # "exited"
  BY <1>9 DEF L!ShutdownServer
<1>10. CASE L!ServerEnd /\ main # "exited"
  BY <1>10 DEF L!ServerEnd
<1>11. CASE L!AppStop /\ main # "exited"
  BY <1>11 DEF L!AppStop
<1>12. CASE L!Signal
  BY <1>12 DEF L!Signal
<1>13. CASE L!Listen
  BY <1>13 DEF L!Listen
<1>14. CASE L!Await
  BY <1>14 DEF L!Await
<1>15. CASE L!AwaitTimeout
  BY <1>15 DEF L!AwaitTimeout, L!Stuck
<1>16. CASE UNCHANGED lifeVars
  BY <1>16 DEF lifeVars
<1>. QED
  BY <1>1, <1>2, <1>3, <1>4, <1>5, <1>6, <1>7, <1>8, <1>9, <1>10, <1>11, <1>12, <1>13,
     <1>14, <1>15, <1>16 DEF L!Next

\* A graceful exit comes after the server's end and the dump both configurations ask
\* for; one by timeout only when the shutdown came before the port was bound.
THEOREM ShutdownIsInOrder == L!Init /\ [][L!Next]_lifeVars => []ShutdownInOrder
<1>1. L!Init => LifeInv
  <2>1. L!NoCfg \in L!Cfg
    BY DEF L!NoCfg, L!Cfg
  <2>2. L!Init => LifeOk
    BY <2>1 DEF L!Init, LifeOk
  <2>3. L!Init => Stages
    BY DEF L!Init, Stages
  <2>. QED BY <2>2, <2>3 DEF LifeInv
<1>2. LifeInv => ShutdownInOrder
  BY DEF LifeInv, LifeOk, Stages, Wanted, ShutdownInOrder, L!ShutdownInOrder, L!App
<1>. QED BY <1>1, <1>2, LifeStep, PTL

(***************************************************************************)
(* The sharded map and its counters.                                       *)
(***************************************************************************)
\* Every key has a shard, and it is neither shard 0 nor shard ActiveShards.
LEMMA ShardOfKey ==
    ASSUME NEW k \in Key
    PROVE  /\ MapShardKey(k) \in Shard
           /\ MapShardKey(k) # 0 /\ MapShardKey(k) # ActiveShards
<1>1. k \in Nat /\ ActiveShards \in Nat \ {0}
  BY MapAssumption
<1>2. k % ActiveShards \in 0..(ActiveShards - 1)
  BY <1>1
<1>. QED BY <1>1, <1>2 DEF MapShardKey, Shard, NumOfShards

(***************************************************************************)
(* The inductive invariant: LenExact, the items of a locked shard being    *)
(* gone (so that the zeros a Clear stores are right), the adds owed to a   *)
(* len being +1 or -1, and the balance of a shard's mem, which holds at    *)
(* every moment but between a Clear's deletions and its store in mem.      *)
(***************************************************************************)
LockedEmpty == \A s \in Shard : ~ Unlocked(s) => Cached(s) = {}
OwedLens == \A t \in Thread : pend[t].at = "len" => pend[t].dlen \in {-1, 1}
MemBalance(s) == mem[s] + Owed(s) = Held(s)
MemInv == \A s \in Shard : s \notin raced /\ clear[s] # "mem" => MemBalance(s)
MapInv == TypeOK /\ LenExact /\ LockedEmpty /\ OwedLens /\ MemInv

LEMMA Finite ==
    \A s \in Shard : /\ IsFiniteSet(Cached(s)) /\ IsFiniteSet(Owing(s))
                      /\ IsFiniteSet(Adding(s)) /\ IsFiniteSet(Removing(s))
BY FS_Subset, MapAssumption DEF Cached, Adding, Removing, Owing

\* Cardinalities when one element comes or goes.
LEMMA CardAdd ==
    ASSUME NEW S, IsFiniteSet(S), NEW x, x \notin S
    PROVE  Cardinality(S \cup {x}) = Cardinality(S) + 1 /\ Cardinality(S) \in Nat
BY FS_AddElement, FS_CardinalityType
LEMMA CardRemove ==
    ASSUME NEW S, IsFiniteSet(S), NEW x \in S
    PROVE  Cardinality(S \ {x}) = Cardinality(S) - 1 /\ Cardinality(S) \in Nat
BY FS_RemoveElement, FS_CardinalityType

LEMMA InitMapInv == Init => MapInv
<1>. SUFFICES ASSUME Init PROVE MapInv
  OBVIOUS
<1>0. 0 \in Shard
  BY MapAssumption DEF Shard, NumOfShards
<1>1. TypeOK
  BY <1>0, MapAssumption DEF Init, TypeOK, Idle, Rest, Absent
<1>2. \A s \in Shard : Cached(s) = {} /\ Adding(s) = {} /\ Removing(s) = {}
  BY DEF Init, Cached, Adding, Removing, Owing, Idle, Absent
<1>3. LenExact
  BY <1>2, FS_EmptySet DEF Init, LenExact
<1>4. MemInv
  <2>1. \A s \in Shard : Held(s) = 0 /\ Owed(s) = 0
    <3>1. \A s \in Shard : Owing(s) = {}
      BY DEF Init, Owing, Idle
    <3>. QED BY <1>2, <3>1, SumEmpty DEF Held, Owed
  <2>. QED BY <2>1 DEF Init, MemInv, MemBalance
<1>. QED BY <1>1, <1>2, <1>3, <1>4 DEF MapInv, LockedEmpty, OwedLens, Init, Idle

LEMMA NextTypeOK == TypeOK /\ [Next]_vars => TypeOK'
<1>. SUFFICES ASSUME TypeOK, [Next]_vars PROVE TypeOK'
  OBVIOUS
<1>0. /\ 0 \in Shard /\ Weight \cup {Absent} \subseteq Int
      /\ \A k \in Key : MapShardKey(k) \in Shard
  BY ShardOfKey, MapAssumption DEF Shard, NumOfShards, Absent
<1>. USE DEF TypeOK, tables, published
<1>1. ASSUME NEW t \in Thread, NEW k \in Key, NEW w \in Weight, Set(t, k, w) PROVE TypeOK'
  <2>1. w \in Int /\ w - items[k] \in Int
    BY <1>0
  <2>2. items' \in [Key -> Weight \cup {Absent}] /\ ops' \in 0..MaxOps
    BY <1>1, MapAssumption DEF Set
  <2>3. pend' \in [Thread -> [at : {"idle", "len", "mem"}, shard : Shard,
                             dlen : {-1, 0, 1}, dmem : Int]]
    BY <1>1, <1>0, <2>1 DEF Set
  <2>. QED BY <1>1, <2>2, <2>3 DEF Set
<1>2. ASSUME NEW t \in Thread, NEW k \in Key, Remove(t, k) PROVE TypeOK'
  <2>1. -items[k] \in Int
    BY <1>0
  <2>2. items' \in [Key -> Weight \cup {Absent}] /\ ops' \in 0..MaxOps
    BY <1>2, MapAssumption DEF Remove
  <2>3. pend' \in [Thread -> [at : {"idle", "len", "mem"}, shard : Shard,
                             dlen : {-1, 0, 1}, dmem : Int]]
    BY <1>2, <1>0, <2>1 DEF Remove
  <2>. QED BY <1>2, <2>2, <2>3 DEF Remove
<1>3. ASSUME NEW t \in Thread, AddLen(t) PROVE TypeOK'
  <2>1. pend[t].shard \in Shard /\ pend[t].dlen \in Int
    OBVIOUS
  <2>2. len' \in [Shard -> Int]
    BY <1>3, <2>1 DEF AddLen
  <2>. QED BY <1>3, <2>2 DEF AddLen
<1>4. ASSUME NEW t \in Thread, AddMem(t) PROVE TypeOK'
  <2>1. pend[t].shard \in Shard /\ pend[t].dmem \in Int
    OBVIOUS
  <2>2. mem' \in [Shard -> Int]
    BY <1>4, <2>1 DEF AddMem
  <2>. QED BY <1>4, <1>0, <2>2 DEF AddMem, Idle
<1>5. CASE ClearStart
  BY <1>5, MapAssumption DEF ClearStart
<1>6. ASSUME NEW s \in Shard, ClearStep(s) PROVE TypeOK'
  BY <1>6 DEF ClearStep, ClearItems, ClearMem, ClearLen
<1>7. ASSUME NEW c \in Scanner, ScanStep(c) PROVE TypeOK'
  <2>1. CASE ScanStart(c)
    BY <2>1 DEF ScanStart
  <2>2. CASE ScanRead(c)
    <3>1. scan[c].at \in Nat /\ scan[c].mem \in Int /\ scan[c].len \in Int
      OBVIOUS
    <3>2. scan[c].at \div 2 \in Shard
      BY <2>2, <3>1, MapAssumption DEF ScanRead, Shard, NumOfShards
    <3>3. /\ scan[c].mem + mem[scan[c].at \div 2] \in Int
          /\ scan[c].len + len[scan[c].at \div 2] \in Int
          /\ scan[c].at + 1 \in Nat
      BY <3>1, <3>2
    <3>. QED BY <2>2, <3>3 DEF ScanRead
  <2>3. CASE ScanStore(c)
    BY <2>3 DEF ScanStore, Rest
  <2>. QED BY <1>7, <2>1, <2>2, <2>3 DEF ScanStep
<1>8. CASE UNCHANGED vars
  BY <1>8 DEF vars
<1>. QED BY <1>1, <1>2, <1>3, <1>4, <1>5, <1>6, <1>7, <1>8 DEF Next, ThreadStep

\* What LenExact says of one shard.
LenBalance(s) ==
    len[s] = Cardinality(Cached(s)) - Cardinality(Adding(s)) + Cardinality(Removing(s))

\* A shard whose counter, keys and owed adds stay the same keeps its balance.
LEMMA SameBalance ==
    ASSUME NEW s \in Shard, len'[s] = len[s], Cached(s)' = Cached(s),
           Adding(s)' = Adding(s), Removing(s)' = Removing(s), LenBalance(s)
    PROVE  LenBalance(s)'
BY DEF LenBalance

LEMMA SetIInv ==
    ASSUME MapInv, NEW t \in Thread, NEW k \in Key, NEW w \in Weight, Set(t, k, w)
    PROVE  LenExact' /\ LockedEmpty' /\ OwedLens'
<1>. DEFINE o == MapShardKey(k)
<1>. USE DEF MapInv
<1>1. o \in Shard /\ w # Absent /\ pend[t].at = "idle" /\ len' = len /\ raced' = raced /\ clear' = clear
  BY ShardOfKey, MapAssumption DEF Set, Absent
<1>2. ASSUME NEW s \in Shard, s # o
      PROVE  Cached(s)' = Cached(s) /\ Adding(s)' = Adding(s) /\ Removing(s)' = Removing(s)
  BY <1>1, <1>2 DEF Set, Cached, Adding, Removing, Owing, TypeOK
<1>3. CASE items[k] # Absent
  <2>1. Cached(o)' = Cached(o) /\ Adding(o)' = Adding(o) /\ Removing(o)' = Removing(o)
    BY <1>1, <1>3 DEF Set, Cached, Adding, Removing, Owing, TypeOK
  <2>2. LenExact'
    BY <1>1, <1>2, <2>1 DEF LenExact, Unlocked
  <2>. QED BY <1>1, <1>2, <1>3, <2>1, <2>2 DEF Set, LockedEmpty, Unlocked, OwedLens, TypeOK
<1>4. CASE items[k] = Absent
  <2>1. /\ Cached(o)' = Cached(o) \cup {k} /\ k \notin Cached(o)
        /\ Removing(o)' = Removing(o)
    BY <1>1, <1>4 DEF Set, Cached, Removing, Owing, TypeOK
  <2>2. Adding(o)' = Adding(o) \cup {t} /\ t \notin Adding(o)
    BY <1>1, <1>4 DEF Set, Adding, Owing, TypeOK
  <2>3. /\ Cardinality(Cached(o)') = Cardinality(Cached(o)) + 1
        /\ Cardinality(Adding(o)') = Cardinality(Adding(o)) + 1
        /\ Cardinality(Cached(o)) \in Nat /\ Cardinality(Adding(o)) \in Nat
        /\ Cardinality(Removing(o)) \in Nat
    BY <1>1, <2>1, <2>2, CardAdd, Finite, FS_CardinalityType
  <2>4. LenExact'
    <3>1. ASSUME NEW s \in Shard, s \notin raced', Unlocked(s)' PROVE LenBalance(s)'
      <4>1. s \notin raced /\ Unlocked(s)
        BY <1>1, <3>1 DEF Unlocked
      <4>2. CASE s = o
        <5>1. LenBalance(o)
          BY <1>1, <4>1, <4>2 DEF LenExact, LenBalance
        <5>2. LenBalance(o)'
          BY <1>1, <2>1, <2>3, <5>1 DEF LenBalance
        <5>. QED BY <4>2, <5>2
      <4>3. CASE s # o
        BY <1>1, <1>2, <4>1, <4>3 DEF LenExact, LenBalance
      <4>. QED BY <4>2, <4>3
    <3>. QED BY <3>1 DEF LenExact, LenBalance
  <2>5. LockedEmpty'
    BY <1>1, <1>2 DEF Set, LockedEmpty, Unlocked
  <2>. QED BY <1>1, <1>4, <2>4, <2>5 DEF Set, OwedLens, TypeOK
<1>. QED BY <1>3, <1>4

LEMMA RemoveIInv ==
    ASSUME MapInv, NEW t \in Thread, NEW k \in Key, Remove(t, k)
    PROVE  LenExact' /\ LockedEmpty' /\ OwedLens'
<1>. DEFINE o == MapShardKey(k)
<1>. USE DEF MapInv
<1>1. o \in Shard /\ pend[t].at = "idle" /\ len' = len /\ raced' = raced /\ clear' = clear
  BY ShardOfKey DEF Remove
<1>2. ASSUME NEW s \in Shard, s # o
      PROVE  Cached(s)' = Cached(s) /\ Adding(s)' = Adding(s) /\ Removing(s)' = Removing(s)
  BY <1>1, <1>2 DEF Remove, Cached, Adding, Removing, Owing, TypeOK
<1>3. /\ Cached(o)' = Cached(o) \ {k} /\ k \in Cached(o)
      /\ Adding(o)' = Adding(o)
  BY <1>1 DEF Remove, Cached, Adding, Owing, TypeOK
<1>4. Removing(o)' = Removing(o) \cup {t} /\ t \notin Removing(o)
  BY <1>1 DEF Remove, Removing, Owing, TypeOK
<1>5. /\ Cardinality(Cached(o)') = Cardinality(Cached(o)) - 1
      /\ Cardinality(Removing(o)') = Cardinality(Removing(o)) + 1
      /\ Cardinality(Cached(o)) \in Nat /\ Cardinality(Adding(o)) \in Nat
      /\ Cardinality(Removing(o)) \in Nat
  BY <1>1, <1>3, <1>4, CardAdd, CardRemove, Finite, FS_CardinalityType
<1>6. LenExact'
  <2>1. ASSUME NEW s \in Shard, s \notin raced', Unlocked(s)' PROVE LenBalance(s)'
    <3>1. s \notin raced /\ Unlocked(s)
      BY <1>1, <2>1 DEF Unlocked
    <3>2. CASE s = o
      <4>1. LenBalance(o)
        BY <1>1, <3>1, <3>2 DEF LenExact, LenBalance
      <4>2. LenBalance(o)'
        BY <1>1, <1>3, <1>5, <4>1 DEF LenBalance
      <4>. QED BY <3>2, <4>2
    <3>3. CASE s # o
      BY <1>1, <1>2, <3>1, <3>3 DEF LenExact, LenBalance
    <3>. QED BY <3>2, <3>3
  <2>. QED BY <2>1 DEF LenExact, LenBalance
<1>7. LockedEmpty'
  BY <1>1, <1>2 DEF Remove, LockedEmpty, Unlocked
<1>. QED BY <1>1, <1>6, <1>7 DEF Remove, OwedLens, TypeOK
\* The add to len settles what the thread owed it.
LEMMA AddLenIInv ==
    ASSUME MapInv, NEW t \in Thread, AddLen(t)
    PROVE  LenExact' /\ LockedEmpty' /\ OwedLens'
<1>. USE DEF MapInv
<1>0. PICK o \in Shard : o = pend[t].shard
  BY DEF TypeOK
<1>1. /\ pend[t].at = "len" /\ raced' = raced /\ clear' = clear
      /\ pend[t].dlen \in {-1, 1} /\ len[o] \in Int /\ len'[o] = len[o] + pend[t].dlen
      /\ \A s \in Shard : Cached(s)' = Cached(s)
  BY <1>0 DEF AddLen, TypeOK, OwedLens, Cached
<1>2. ASSUME NEW s \in Shard, s # o
      PROVE  Adding(s)' = Adding(s) /\ Removing(s)' = Removing(s) /\ len'[s] = len[s]
  BY <1>0, <1>1, <1>2 DEF AddLen, Adding, Removing, Owing, TypeOK
<1>3. /\ Adding(o)' = IF pend[t].dlen = 1 THEN Adding(o) \ {t} ELSE Adding(o)
      /\ Removing(o)' = IF pend[t].dlen = -1 THEN Removing(o) \ {t} ELSE Removing(o)
      /\ IF pend[t].dlen = 1 THEN t \in Adding(o) ELSE t \in Removing(o)
  BY <1>0, <1>1 DEF AddLen, Adding, Removing, Owing, TypeOK
<1>4. /\ Cardinality(Cached(o)) \in Nat /\ Cardinality(Adding(o)) \in Nat
      /\ Cardinality(Removing(o)) \in Nat
  BY <1>1, Finite, FS_CardinalityType
<1>5. LenBalance(o) => LenBalance(o)'
  <2>1. CASE pend[t].dlen = 1
    <3>1. Cardinality(Adding(o)') = Cardinality(Adding(o)) - 1 /\ Removing(o)' = Removing(o)
      BY <1>1, <1>3, <2>1, CardRemove, Finite
    <3>. QED BY <1>1, <1>4, <2>1, <3>1 DEF LenBalance
  <2>2. CASE pend[t].dlen = -1
    <3>1. Cardinality(Removing(o)') = Cardinality(Removing(o)) - 1 /\ Adding(o)' = Adding(o)
      BY <1>1, <1>3, <2>2, CardRemove, Finite
    <3>. QED BY <1>1, <1>4, <2>2, <3>1 DEF LenBalance
  <2>. QED BY <1>1, <2>1, <2>2
<1>6. LenExact'
  <2>1. ASSUME NEW s \in Shard, s \notin raced', Unlocked(s)' PROVE LenBalance(s)'
    <3>1. LenBalance(s)
      BY <1>1, <2>1 DEF LenExact, LenBalance, Unlocked
    <3>2. CASE s = o
      BY <1>5, <3>1, <3>2
    <3>3. CASE s # o
      BY <1>1, <1>2, <3>1, <3>3 DEF LenBalance
    <3>. QED BY <3>2, <3>3
  <2>. QED BY <2>1 DEF LenExact, LenBalance
<1>. QED BY <1>1, <1>6 DEF AddLen, LockedEmpty, Unlocked, OwedLens, TypeOK

\* A Clear leaves a zero that is right unless some add to len was still owed.
LEMMA ClearIInv ==
    ASSUME MapInv, NEW o \in Shard, ClearStep(o)
    PROVE  LenExact' /\ LockedEmpty' /\ OwedLens'
<1>. USE DEF MapInv
<1>1. CASE ClearItems(o)
  <2>1. ASSUME NEW s \in Shard, s # o
        PROVE  /\ Cached(s)' = Cached(s) /\ Adding(s)' = Adding(s)
               /\ Removing(s)' = Removing(s) /\ (Unlocked(s)' <=> Unlocked(s))
    BY <1>1, <2>1 DEF ClearItems, Cached, Adding, Removing, Owing, Unlocked, TypeOK
  <2>2. Cached(o)' = {} /\ ~ Unlocked(o)'
    BY <1>1 DEF ClearItems, Cached, Unlocked, TypeOK
  <2>. QED BY <1>1, <2>1, <2>2 DEF ClearItems, LenExact, LockedEmpty, OwedLens
<1>2. CASE ClearMem(o)
  <2>1. \A s \in Shard : /\ Cached(s)' = Cached(s) /\ Adding(s)' = Adding(s)
                          /\ Removing(s)' = Removing(s) /\ (Unlocked(s)' <=> Unlocked(s))
    BY <1>2 DEF ClearMem, Cached, Adding, Removing, Owing, Unlocked, TypeOK
  <2>. QED BY <1>2, <2>1 DEF ClearMem, LenExact, LockedEmpty, OwedLens
<1>3. CASE ClearLen(o)
  <2>1. \A s \in Shard : /\ Cached(s)' = Cached(s) /\ Adding(s)' = Adding(s)
                          /\ Removing(s)' = Removing(s)
    BY <1>3 DEF ClearLen, Cached, Adding, Removing, Owing
  <2>2. \A s \in Shard : s # o => (Unlocked(s)' <=> Unlocked(s)) /\ len'[s] = len[s]
    BY <1>3 DEF ClearLen, Unlocked, TypeOK
  <2>3. Cached(o) = {} /\ len'[o] = 0
    BY <1>3 DEF ClearLen, LockedEmpty, Unlocked, TypeOK
  <2>4. o \notin raced' => Adding(o) = {} /\ Removing(o) = {}
    BY <1>3 DEF ClearLen, Adding, Removing, Owing
  <2>5. LenExact'
    <3>1. ASSUME NEW s \in Shard, s \notin raced', Unlocked(s)' PROVE LenBalance(s)'
      <4>1. CASE s = o
        <5>1. LenBalance(o)'
          BY <2>1, <2>3, <2>4, <3>1, <4>1, FS_EmptySet DEF LenBalance
        <5>. QED BY <4>1, <5>1
      <4>2. CASE s # o
        <5>1. s \notin raced /\ LenBalance(s)
          BY <1>3, <2>2, <3>1, <4>2 DEF ClearLen, LenExact, LenBalance
        <5>. QED BY <2>1, <2>2, <4>2, <5>1 DEF LenBalance
      <4>. QED BY <4>1, <4>2
    <3>. QED BY <3>1 DEF LenExact, LenBalance
  <2>6. LockedEmpty'
    BY <1>3, <2>1, <2>2, <2>3 DEF LockedEmpty
  <2>. QED BY <1>3, <2>5, <2>6 DEF ClearLen, OwedLens
<1>. QED BY <1>1, <1>2, <1>3 DEF ClearStep

LEMMA NextLenInv == MapInv /\ [Next]_vars => LenExact' /\ LockedEmpty' /\ OwedLens'
<1>. SUFFICES ASSUME MapInv, [Next]_vars PROVE LenExact' /\ LockedEmpty' /\ OwedLens'
  OBVIOUS
<1>1. ASSUME NEW t \in Thread, AddMem(t) PROVE LenExact' /\ LockedEmpty' /\ OwedLens'
  <2>1. \A s \in Shard : /\ Cached(s)' = Cached(s) /\ Adding(s)' = Adding(s)
                          /\ Removing(s)' = Removing(s)
    BY <1>1 DEF MapInv, AddMem, Cached, Adding, Removing, Owing, Idle, TypeOK
  <2>. QED BY <1>1, <2>1 DEF MapInv, AddMem, LenExact, LockedEmpty, Unlocked, OwedLens, Idle, TypeOK
<1>2. CASE ClearStart
  <2>1. \A s \in Shard : /\ Cached(s)' = Cached(s) /\ Adding(s)' = Adding(s)
                          /\ Removing(s)' = Removing(s) /\ Unlocked(s)' /\ Unlocked(s)
    BY <1>2 DEF ClearStart, tables, Cached, Adding, Removing, Owing, Unlocked
  <2>. QED BY <1>2, <2>1 DEF MapInv, ClearStart, tables, LenExact, LockedEmpty, OwedLens
<1>3. ASSUME NEW c \in Scanner, ScanStep(c) PROVE LenExact' /\ LockedEmpty' /\ OwedLens'
  <2>1. UNCHANGED <<items, len, pend, clear, raced>>
    BY <1>3 DEF ScanStep, ScanStart, ScanRead, ScanStore, tables
  <2>. QED BY <2>1 DEF MapInv, LenExact, LockedEmpty, OwedLens, Unlocked, Cached, Adding, Removing, Owing
<1>4. CASE UNCHANGED vars
  BY <1>4 DEF vars, MapInv, LenExact, LockedEmpty, OwedLens, Unlocked, Cached, Adding, Removing, Owing
<1>. QED
  BY <1>1, <1>2, <1>3, <1>4, SetIInv, RemoveIInv, AddLenIInv, ClearIInv DEF Next, ThreadStep

(***************************************************************************)
(* The weights.                                                            *)
(***************************************************************************)
Dmem == [t \in Thread |-> pend[t].dmem]

LEMMA ItemsInInt == ASSUME TypeOK, NEW k \in Key PROVE items[k] \in Int
<1>1. Weight \cup {Absent} \subseteq Int
  BY MapAssumption DEF Absent
<1>. QED BY <1>1 DEF TypeOK

LEMMA WeighedInInt ==
    ASSUME TypeOK, NEW s \in Shard
    PROVE  mem[s] \in Int /\ Owed(s) \in Int /\ Held(s) \in Int
<1>1. \A k \in Cached(s) : items[k] \in Int
  BY ItemsInInt DEF Cached
<1>2. \A t \in Owing(s) : Dmem[t] \in Int
  BY DEF TypeOK, Owing, Dmem
<1>. QED BY <1>1, <1>2, Finite, SumInt DEF TypeOK, Held, Owed, Dmem

\* What is owed to a shard and held by it depends on its own threads and keys.
LEMMA SameHeld ==
    ASSUME NEW s \in Shard, Cached(s)' = Cached(s), \A k \in Cached(s) : items'[k] = items[k]
    PROVE  Held(s)' = Held(s)
BY Finite, SumSame DEF Held
LEMMA SameOwed ==
    ASSUME NEW s \in Shard, Owing(s)' = Owing(s), \A t \in Owing(s) : Dmem'[t] = Dmem[t]
    PROVE  Owed(s)' = Owed(s)
BY SMTT(30), Finite, SumSame DEF Owed, Dmem

LEMMA SetMemInv ==
    ASSUME MapInv, NEW t \in Thread, NEW k \in Key, NEW w \in Weight, Set(t, k, w)
    PROVE  MemInv'
<1>. DEFINE o == MapShardKey(k)
            d == w - (IF items[k] = Absent THEN 0 ELSE items[k])
<1>. USE DEF MapInv
<1>1. /\ o \in Shard /\ w # Absent /\ w \in Int /\ items[k] \in Int
      /\ pend[t].at = "idle" /\ mem' = mem /\ raced' = raced /\ clear' = clear
  <2>1. w \in Nat \ {0}
    BY MapAssumption
  <2>. QED BY <2>1, ShardOfKey, ItemsInInt DEF Set, Absent
<1>2. /\ items'[k] = w /\ \A j \in Key \ {k} : items'[j] = items[j]
      /\ pend'[t].at # "idle" /\ pend'[t].shard = o /\ pend'[t].dmem = d
      /\ \A u \in Thread \ {t} : pend'[u] = pend[u]
  BY <1>1 DEF Set, TypeOK, Absent
<1>3. ASSUME NEW s \in Shard, s # o PROVE Held(s)' = Held(s) /\ Owed(s)' = Owed(s)
  <2>1. Cached(s)' = Cached(s) /\ \A j \in Cached(s) : items'[j] = items[j]
    BY <1>2, <1>3 DEF Cached
  <2>2. Owing(s)' = Owing(s) /\ t \notin Owing(s)
    BY <1>1, <1>2, <1>3 DEF Owing
  <2>3. \A u \in Owing(s) : Dmem'[u] = Dmem[u]
    BY <1>2, <2>2 DEF Owing, Dmem
  <2>. QED BY <2>1, <2>2, <2>3, SameHeld, SameOwed
<1>4. Held(o)' = Held(o) + d
  <2>1. CASE items[k] = Absent
    <3>1. Cached(o)' = Cached(o) \cup {k} /\ k \notin Cached(o)
      BY <1>1, <1>2, <2>1 DEF Cached
    <3>2. \A j \in Cached(o) \cup {k} : items'[j] \in Int
      BY <1>1, <1>2, ItemsInInt DEF Cached
    <3>3. SumFunctionOnSet(items', Cached(o) \cup {k})
             = items'[k] + SumFunctionOnSet(items', Cached(o))
      BY <1>1, <3>1, <3>2, Finite, SumAdd
    <3>4. SumFunctionOnSet(items', Cached(o)) = SumFunctionOnSet(items, Cached(o))
      BY <1>1, <1>2, <3>1, Finite, SumSame DEF Cached
    <3>. QED BY <1>1, <1>2, <2>1, <3>1, <3>3, <3>4, WeighedInInt DEF Held
  <2>2. CASE items[k] # Absent
    <3>1. Cached(o)' = Cached(o) /\ k \in Cached(o)
      BY <1>1, <1>2, <2>2 DEF Cached
    <3>2. \A j \in Cached(o) : items'[j] \in Int /\ items[j] \in Int
      BY <1>1, <1>2, ItemsInInt DEF Cached
    <3>3. \A j \in Cached(o) \ {k} : items[j] = items'[j]
      BY <1>2 DEF Cached
    <3>4. SumFunctionOnSet(items', Cached(o))
             = SumFunctionOnSet(items, Cached(o)) - items[k] + items'[k]
      BY <1>1, <3>1, <3>2, <3>3, Finite, SumChange
    <3>. QED BY <1>1, <1>2, <2>2, <3>1, <3>4, WeighedInInt DEF Held
  <2>. QED BY <2>1, <2>2
<1>5. Owed(o)' = Owed(o) + d
  <2>1. Owing(o)' = Owing(o) \cup {t} /\ t \notin Owing(o)
    BY <1>1, <1>2 DEF Owing
  <2>2. d \in Int
    BY <1>1
  <2>3. \A u \in Owing(o) \cup {t} : Dmem'[u] \in Int
    BY <1>2, <2>2 DEF Owing, TypeOK, Dmem
  <2>4. SumFunctionOnSet(Dmem', Owing(o) \cup {t}) = Dmem'[t] + SumFunctionOnSet(Dmem', Owing(o))
    BY <1>1, <2>1, <2>3, Finite, SumAdd
  <2>5. SumFunctionOnSet(Dmem', Owing(o)) = SumFunctionOnSet(Dmem, Owing(o))
    <3>1. \A u \in Owing(o) : Dmem'[u] = Dmem[u]
      BY <1>2, <2>1 DEF Owing, Dmem
    <3>. QED BY <1>1, <3>1, Finite, SumSame
  <2>6. Dmem'[t] = d
    BY <1>2 DEF Dmem
  <2>. HIDE DEF d
  <2>. QED BY <1>1, <2>1, <2>2, <2>4, <2>5, <2>6, WeighedInInt DEF Owed, Dmem
<1>6. ASSUME NEW s \in Shard, s \notin raced', clear'[s] # "mem" PROVE MemBalance(s)'
  <2>1. MemBalance(s)
    BY <1>1, <1>6 DEF MemInv
  <2>2. d \in Int
    BY <1>1
  <2>. HIDE DEF d
  <2>. QED BY <1>1, <1>3, <1>4, <1>5, <2>1, <2>2, WeighedInInt DEF MemBalance
<1>. QED BY <1>6 DEF MemInv

LEMMA RemoveMemInv ==
    ASSUME MapInv, NEW t \in Thread, NEW k \in Key, Remove(t, k)
    PROVE  MemInv'
<1>. DEFINE o == MapShardKey(k)
<1>. USE DEF MapInv
<1>1. /\ o \in Shard /\ items[k] # Absent /\ items[k] \in Int
      /\ pend[t].at = "idle" /\ mem' = mem /\ raced' = raced /\ clear' = clear
  BY ShardOfKey, ItemsInInt DEF Remove
<1>2. /\ items'[k] = Absent /\ \A j \in Key \ {k} : items'[j] = items[j]
      /\ pend'[t].at # "idle" /\ pend'[t].shard = o /\ pend'[t].dmem = -items[k]
      /\ \A u \in Thread \ {t} : pend'[u] = pend[u]
  BY <1>1 DEF Remove, TypeOK, Absent
<1>3. ASSUME NEW s \in Shard, s # o PROVE Held(s)' = Held(s) /\ Owed(s)' = Owed(s)
  <2>1. Cached(s)' = Cached(s) /\ \A j \in Cached(s) : items'[j] = items[j]
    BY <1>2, <1>3 DEF Cached
  <2>2. Owing(s)' = Owing(s) /\ t \notin Owing(s)
    BY <1>1, <1>2, <1>3 DEF Owing
  <2>3. \A u \in Owing(s) : Dmem'[u] = Dmem[u]
    BY <1>2, <2>2 DEF Owing, Dmem
  <2>. QED BY <2>1, <2>2, <2>3, SameHeld, SameOwed
<1>4. Held(o)' = Held(o) - items[k]
  <2>1. Cached(o)' = Cached(o) \ {k} /\ k \in Cached(o)
    BY <1>1, <1>2 DEF Cached
  <2>2. \A j \in Cached(o) : items[j] \in Int
    BY ItemsInInt DEF Cached
  <2>3. SumFunctionOnSet(items, Cached(o)) = items[k] + SumFunctionOnSet(items, Cached(o) \ {k})
    BY <1>1, <2>1, <2>2, Finite, SumRemove
  <2>4. IsFiniteSet(Cached(o) \ {k})
    BY <1>1, Finite, FS_Subset
  <2>5. SumFunctionOnSet(items', Cached(o) \ {k}) = SumFunctionOnSet(items, Cached(o) \ {k})
    BY <1>2, <2>4, SumSame DEF Cached
  <2>6. SumFunctionOnSet(items, Cached(o) \ {k}) \in Int
    BY <2>2, <2>4, SumInt
  <2>. QED BY <1>1, <2>1, <2>3, <2>5, <2>6 DEF Held
<1>5. Owed(o)' = Owed(o) - items[k]
  <2>1. Owing(o)' = Owing(o) \cup {t} /\ t \notin Owing(o)
    BY <1>1, <1>2 DEF Owing
  <2>2. \A u \in Owing(o) \cup {t} : Dmem'[u] \in Int
    BY <1>1, <1>2 DEF Owing, TypeOK, Dmem
  <2>3. SumFunctionOnSet(Dmem', Owing(o) \cup {t}) = Dmem'[t] + SumFunctionOnSet(Dmem', Owing(o))
    BY <1>1, <2>1, <2>2, Finite, SumAdd
  <2>4. SumFunctionOnSet(Dmem', Owing(o)) = SumFunctionOnSet(Dmem, Owing(o))
    <3>1. \A u \in Owing(o) : Dmem'[u] = Dmem[u]
      BY <1>2, <2>1 DEF Owing, Dmem
    <3>. QED BY <1>1, <3>1, Finite, SumSame
  <2>5. Dmem'[t] = -items[k]
    BY <1>2 DEF Dmem
  <2>. QED BY <1>1, <2>1, <2>3, <2>4, <2>5, WeighedInInt DEF Owed, Dmem
<1>6. ASSUME NEW s \in Shard, s \notin raced', clear'[s] # "mem" PROVE MemBalance(s)'
  <2>1. MemBalance(s)
    BY <1>1, <1>6 DEF MemInv
  <2>. QED BY <1>1, <1>3, <1>4, <1>5, <2>1, WeighedInInt DEF MemBalance
<1>. QED BY <1>6 DEF MemInv

\* The add to mem settles what the thread owed it.
LEMMA AddMemMemInv ==
    ASSUME MapInv, NEW t \in Thread, AddMem(t)
    PROVE  MemInv'
<1>. USE DEF MapInv
<1>0. PICK o \in Shard : o = pend[t].shard
  BY DEF TypeOK
<1>1. /\ pend[t].at = "mem" /\ pend[t].dmem \in Int /\ pend'[t].at = "idle"
      /\ mem'[o] = mem[o] + pend[t].dmem /\ \A s \in Shard \ {o} : mem'[s] = mem[s]
      /\ \A u \in Thread \ {t} : pend'[u] = pend[u]
      /\ items' = items /\ raced' = raced /\ clear' = clear
  BY <1>0 DEF AddMem, TypeOK, Idle
<1>2. ASSUME NEW s \in Shard PROVE Held(s)' = Held(s)
  BY <1>1, SameHeld DEF Cached
<1>3. ASSUME NEW s \in Shard, s # o PROVE Owed(s)' = Owed(s)
  <2>1. Owing(s)' = Owing(s) /\ t \notin Owing(s)
    BY <1>0, <1>1, <1>3 DEF Owing
  <2>2. \A u \in Owing(s) : Dmem'[u] = Dmem[u]
    BY <1>1, <2>1 DEF Owing, Dmem
  <2>. QED BY <2>1, <2>2, SameOwed
<1>4. Owed(o) = Owed(o)' + pend[t].dmem
  <2>1. Owing(o)' = Owing(o) \ {t} /\ t \in Owing(o)
    BY <1>0, <1>1 DEF Owing
  <2>2. \A u \in Owing(o) : Dmem[u] \in Int
    BY DEF Owing, TypeOK, Dmem
  <2>3. SumFunctionOnSet(Dmem, Owing(o)) = Dmem[t] + SumFunctionOnSet(Dmem, Owing(o) \ {t})
    BY <2>1, <2>2, Finite, SumRemove
  <2>4. IsFiniteSet(Owing(o) \ {t})
    BY Finite, FS_Subset
  <2>5. SumFunctionOnSet(Dmem', Owing(o) \ {t}) = SumFunctionOnSet(Dmem, Owing(o) \ {t})
    <3>1. \A u \in Owing(o) \ {t} : Dmem'[u] = Dmem[u]
      BY <1>1 DEF Owing, Dmem
    <3>. QED BY <2>4, <3>1, SumSame
  <2>6. SumFunctionOnSet(Dmem, Owing(o) \ {t}) \in Int
    BY <2>2, <2>4, SumInt
  <2>7. Dmem[t] = pend[t].dmem
    BY DEF Dmem
  <2>. QED BY <1>1, <2>1, <2>3, <2>5, <2>6, <2>7 DEF Owed, Dmem
<1>5. ASSUME NEW s \in Shard, s \notin raced', clear'[s] # "mem" PROVE MemBalance(s)'
  <2>1. MemBalance(s)
    BY <1>1, <1>5 DEF MemInv
  <2>2. TypeOK'
    BY NextTypeOK DEF Next, ThreadStep
  <2>3. Owed(o)' \in Int
    <3>1. \A u \in Owing(o)' : Dmem'[u] \in Int /\ IsFiniteSet(Owing(o)')
      BY <2>2, FS_Subset, MapAssumption DEF TypeOK, Owing, Dmem
    <3>2. Owing(o)' \subseteq Thread
      BY DEF Owing
    <3>. QED BY <3>1, <3>2, FS_Subset, MapAssumption, SumInt DEF Owed, Dmem
  <2>. QED BY <1>1, <1>2, <1>3, <1>4, <2>1, <2>3, WeighedInInt DEF MemBalance
<1>. QED BY <1>5 DEF MemInv

\* The zero a Clear leaves in mem is right unless some add was still owed.
LEMMA ClearMemInv ==
    ASSUME MapInv, NEW o \in Shard, ClearStep(o)
    PROVE  MemInv'
<1>. USE DEF MapInv
<1>1. pend' = pend /\ \A s \in Shard : Owed(s)' = Owed(s)
  BY DEF ClearStep, ClearItems, ClearMem, ClearLen, Owed, Owing
<1>2. CASE ClearItems(o)
  <2>1. ASSUME NEW s \in Shard, s # o PROVE Held(s)' = Held(s) /\ clear'[s] = clear[s]
    <3>1. Cached(s)' = Cached(s) /\ \A k \in Cached(s) : items'[k] = items[k]
      BY <1>2, <2>1 DEF ClearItems, Cached, TypeOK
    <3>. QED BY <1>2, <2>1, <3>1, SameHeld DEF ClearItems, TypeOK
  <2>2. clear'[o] = "mem" /\ mem' = mem /\ raced' = raced
    BY <1>2 DEF ClearItems, TypeOK
  <2>. QED BY <1>1, <2>1, <2>2 DEF MemInv, MemBalance
<1>3. CASE ClearMem(o)
  <2>1. \A s \in Shard : Held(s)' = Held(s)
    BY <1>3 DEF ClearMem, Held, Cached
  <2>2. mem'[o] = 0 /\ \A s \in Shard \ {o} : mem'[s] = mem[s] /\ clear'[s] = clear[s]
    BY <1>3 DEF ClearMem, TypeOK
  <2>3. o \notin raced' => Owing(o) = {}
    BY <1>3 DEF ClearMem, Owing
  <2>4. raced \subseteq raced'
    BY <1>3 DEF ClearMem
  <2>5. Cached(o) = {}
    BY <1>3 DEF ClearMem, LockedEmpty, Unlocked
  <2>6. o \notin raced' => MemBalance(o)'
    <3>1. Held(o) = 0
      BY <2>5, SumEmpty DEF Held
    <3>2. o \notin raced' => Owed(o) = 0
      BY <2>3, SumEmpty DEF Owed
    <3>. QED BY <1>1, <2>1, <2>2, <3>1, <3>2 DEF MemBalance
  <2>. QED BY <1>1, <2>1, <2>2, <2>4, <2>6 DEF MemInv, MemBalance
<1>4. CASE ClearLen(o)
  <2>1. \A s \in Shard : Held(s)' = Held(s)
    BY <1>4 DEF ClearLen, Held, Cached
  <2>2. mem' = mem /\ raced \subseteq raced'
    BY <1>4 DEF ClearLen
  <2>3. \A s \in Shard : clear'[s] # "mem" => clear[s] # "mem"
    BY <1>4 DEF ClearLen, TypeOK
  <2>. QED BY <1>1, <2>1, <2>2, <2>3 DEF MemInv, MemBalance
<1>. QED BY <1>2, <1>3, <1>4 DEF ClearStep

LEMMA NextMemInv == MapInv /\ [Next]_vars => MemInv'
<1>. SUFFICES ASSUME MapInv, [Next]_vars PROVE MemInv'
  OBVIOUS
<1>1. ASSUME NEW t \in Thread, AddLen(t) PROVE MemInv'
  <2>1. /\ \A u \in Thread : pend'[u].dmem = pend[u].dmem /\ pend'[u].shard = pend[u].shard
                             /\ (pend'[u].at = "idle" <=> pend[u].at = "idle")
        /\ UNCHANGED <<items, mem, clear, raced>>
    BY <1>1 DEF MapInv, AddLen, TypeOK
  <2>2. \A s \in Shard : Held(s)' = Held(s) /\ Owing(s)' = Owing(s) /\ Dmem' = Dmem
    BY <2>1 DEF Held, Cached, Owing, Dmem
  <2>3. \A s \in Shard : Owed(s)' = Owed(s)
    BY <2>2 DEF Owed, Dmem
  <2>. QED BY <2>1, <2>2, <2>3 DEF MapInv, MemInv, MemBalance
<1>2. CASE ClearStart
  <2>1. UNCHANGED <<items, mem, pend, raced>> /\ \A s \in Shard : clear[s] # "mem"
    BY <1>2 DEF ClearStart, tables
  <2>. QED BY <2>1 DEF MapInv, MemInv, MemBalance, Held, Owed, Cached, Owing
<1>3. ASSUME NEW c \in Scanner, ScanStep(c) PROVE MemInv'
  <2>1. UNCHANGED <<items, mem, pend, clear, raced>>
    BY <1>3 DEF ScanStep, ScanStart, ScanRead, ScanStore, tables
  <2>. QED BY <2>1 DEF MapInv, MemInv, MemBalance, Held, Owed, Cached, Owing
<1>4. CASE UNCHANGED vars
  BY <1>4 DEF vars, MapInv, MemInv, MemBalance, Held, Owed, Cached, Owing
<1>. QED
  BY <1>1, <1>2, <1>3, <1>4, SetMemInv, RemoveMemInv, AddMemMemInv, ClearMemInv
  DEF Next, ThreadStep

LEMMA NextMapInv == MapInv /\ [Next]_vars => MapInv'
BY NextTypeOK, NextLenInv, NextMemInv DEF MapInv

LEMMA SpecMapInv == Spec => []MapInv
BY InitMapInv, NextMapInv, PTL DEF Spec

\* Whatever the interleaving of Set, Remove, Clear and the adds they owe, Len()
\* of a shard differs from its number of keys by the owed adds only, as long as
\* no Clear zeroed the counter while an add was owed to it.
THEOREM LenIsExact == Spec => []LenExact
<1>1. MapInv => LenExact
  BY DEF MapInv
<1>. QED BY <1>1, SpecMapInv, PTL

\* The same of Weight(): whatever is overwritten and removed meanwhile, a shard's
\* counter and the adds still owed to it come to what its values weigh.
THEOREM MemIsExact == Spec => []MemExact
<1>1. MapInv => MemExact
  BY DEF MapInv, MemInv, MemExact, MemBalance, Unlocked
<1>. QED BY <1>1, SpecMapInv, PTL

\* Types of the counters and of the scans.
THEOREM MapTypes == Spec => []TypeOK
<1>1. MapInv => TypeOK
  BY DEF MapInv
<1>. QED BY <1>1, SpecMapInv, PTL

(***************************************************************************)
(* The parts as MCService runs them: one in each behaviour.                *)
(***************************************************************************)
\* Whichever part a behaviour of MCService is one of, what is proved of each holds of it.
THEOREM ServiceIsSafe ==
    SSpec => [](/\ CountedOnce /\ SingleUse /\ FreshUnlessLate /\ ShutdownInOrder
                /\ LenExact /\ MemExact)
<1>1. SInit => C!Init /\ T!Init /\ P!Init /\ L!Init /\ Init
  BY DEF SInit
<1>2. [SNext]_svars => /\ [C!Next]_counterVars /\ [T!Next]_tokenVars
                       /\ [P!Next]_probeVars /\ [L!Next]_lifeVars
                       /\ [Next]_vars
  <2>. SUFFICES ASSUME [SNext]_svars
               PROVE  /\ C!Next \/ UNCHANGED counterVars
                      /\ T!Next \/ UNCHANGED tokenVars
                      /\ P!Next \/ UNCHANGED probeVars
                      /\ L!Next \/ UNCHANGED lifeVars
                      /\ Next \/ UNCHANGED vars
    OBVIOUS
  <2>1. CASE UNCHANGED svars
    BY <2>1 DEF svars
  <2>2. CASE SNext
    BY <2>2, Zenon DEF SNext
  <2>. QED BY <2>1, <2>2
<1>. QED
  BY <1>1, <1>2, CountersCountOnce, TokenIsSingleUse, ProbesAreFresh, ShutdownIsInOrder,
     LenIsExact, MemIsExact, PTL DEF SSpec, Spec
================================================================================
