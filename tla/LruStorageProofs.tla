---------------------------- MODULE LruStorageProofs ----------------------------
(***************************************************************************)
(* Proofs about LruStorage, for any resources, keys that collide in any    *)
(* way, handlers, entries, refreshes and Clears.  For any interleaving: no *)
(* entry ever holds another resource's payload (the handlers, the map and  *)
(* the refreshes decide that), and the shard's counter is what the map     *)
(* holds up to the adds under way (for which the evictor and the list are  *)
(* followed too, as far as concurrent removals leave it in order).  With   *)
(* one operation at a time: the list is a ring, it and the map agree       *)
(* between operations, and what was used is at the front.                  *)
(***************************************************************************)
EXTENDS LruStorage, SumLemmas, TLAPS

Building == {"find", "compare", "swap", "admit", "victim", "insert", "insMem", "push",
             "setElem", "rmList", "rmMap", "rmMem"}
HandlerState ==
    [pc : Building \cup {"idle", "touch", "move"},
     new : Made \cup {Nil}, old : Made \cup {Nil}, off : Int, delta : Int]

Shape ==
    /\ made \in 0..MaxEntries
    /\ items \in [Key -> Made \cup {Nil}]
    /\ res \in [Entry -> Resource \cup {Nil}] /\ DOMAIN pay = Entry
    /\ \A e \in Made : res[e] \in Resource /\ pay[e] \in [res : Resource, ver : Version]
    /\ refreshing \in [Entry -> Resource \cup {Nil}]
    /\ DOMAIN proc = Proc /\ \A h \in Handler : proc[h] \in HandlerState

\* What a handler in state s holds: the entry it was called with, the one it found, and
\* those two of one resource where their payloads are compared and swapped.
Holds(s) ==
    /\ s.pc \in Building => s.new \in Made
    /\ s.pc \in {"compare", "swap", "rmList", "rmMap", "rmMem"} => s.old \in Made
    /\ s.pc \in {"compare", "swap"} => res[s.old] = res[s.new]

\* A refresh asks for the resource of its entry.
RefreshesOwn ==
    \A e \in Entry : refreshing[e] # Nil => e \in Made /\ refreshing[e] = res[e]

PayloadInv == Shape /\ (\A h \in Handler : Holds(proc[h])) /\ RefreshesOwn /\ OwnPayload

-------------------------------------------------------------------------------
LEMMA InitPayloadInv == Init => PayloadInv
<1>. SUFFICES ASSUME Init PROVE PayloadInv
  OBVIOUS
<1>1. Made = {} /\ DOMAIN proc = Proc /\ \A p \in Proc : proc[p] = Idle
  BY DEF Init, Made
<1>2. \A h \in Handler : proc[h] = Idle
  BY <1>1 DEF Proc
<1>3. Idle \in HandlerState
  BY SMT DEF Idle, HandlerState, Building
<1>7. Holds(Idle)
  BY SMT DEF Idle, Holds, Building
<1>4. made \in 0..MaxEntries
  BY StorageAssumption DEF Init
<1>5. Shape
  BY <1>1, <1>2, <1>3, <1>4 DEF Init, Shape
<1>6. RefreshesOwn /\ OwnPayload
  BY <1>1 DEF Init, RefreshesOwn, OwnPayload
<1>. QED BY <1>2, <1>5, <1>6, <1>7 DEF PayloadInv

\* A step that builds no entry and swaps no payload: what has to be seen is the map it
\* leaves, what the handlers hold after it, and the refreshes.
LEMMA GoesOn ==
    ASSUME PayloadInv, UNCHANGED <<made, res>>, items' \in [Key -> Made \cup {Nil}],
           DOMAIN proc' = Proc,
           \A g \in Handler : \/ proc'[g] = proc[g]
                              \/ proc'[g] \in HandlerState /\ Holds(proc'[g]),
           DOMAIN pay' = Entry, \A e \in Made : pay'[e] \in [res : Resource, ver : Version],
           refreshing' \in [Entry -> Resource \cup {Nil}], RefreshesOwn', OwnPayload'
    PROVE  PayloadInv'
<1>1. Made' = Made /\ HandlerState' = HandlerState
  BY DEF Made, HandlerState, Building
<1>2. \A g \in Handler : proc'[g] \in HandlerState /\ Holds(proc'[g])
  BY DEF PayloadInv, Shape
<1>3. \A g \in Handler : Holds(proc[g])'
  BY <1>1, <1>2 DEF Holds
<1>4. Shape'
  BY <1>1, <1>2 DEF PayloadInv, Shape
<1>. QED BY <1>3, <1>4 DEF PayloadInv

\* The same when only the map and one process's state change.
LEMMA ProcessGoesOn ==
    ASSUME PayloadInv, UNCHANGED <<made, res, pay, refreshing>>,
           items' \in [Key -> Made \cup {Nil}], NEW p \in Proc, NEW s,
           proc' = [proc EXCEPT ![p] = s],
           p \in Handler => s \in HandlerState /\ Holds(s)
    PROVE  PayloadInv'
<1>1. Made' = Made
  BY DEF Made
<1>2. DOMAIN proc' = Proc /\ \A g \in Proc : proc'[g] = IF g = p THEN s ELSE proc[g]
  BY DEF PayloadInv, Shape
<1>3. \A g \in Handler : \/ proc'[g] = proc[g]
                         \/ proc'[g] \in HandlerState /\ Holds(proc'[g])
  BY <1>2 DEF Proc
<1>4. RefreshesOwn' /\ OwnPayload'
  BY <1>1 DEF PayloadInv, RefreshesOwn, OwnPayload
<1>. QED BY <1>2, <1>3, <1>4, GoesOn DEF PayloadInv, Shape

-------------------------------------------------------------------------------
\* What a step finds: the entries of the map, the keys of entries and their weights.
LEMMA EntryFacts ==
    ASSUME Shape
    PROVE  /\ Nil \notin Made /\ Made \subseteq Entry
           /\ \A e \in Made : KeyOf[res[e]] \in Key /\ Weight(e) \in Nat
           /\ \A k \in Key : items[k] \in Made \cup {Nil}
<1>1. Made \subseteq Entry
  BY StorageAssumption DEF Shape, Made, Entry
<1>2. \A e \in Made : res[e] \in Resource /\ pay[e].ver \in Version
  BY DEF Shape
<1>. QED BY <1>1, <1>2, StorageAssumption DEF Shape, Key, Weight

LEMMA HandlerFacts ==
    ASSUME PayloadInv, NEW h \in Handler
    PROVE  h \in Proc /\ Shape /\ proc[h] \in HandlerState /\ Holds(proc[h])
BY DEF PayloadInv, Shape, Proc

LEMMA GetHitStep ==
    ASSUME PayloadInv, NEW h \in Handler, NEW r \in Resource, GetHit(h, r)
    PROVE  PayloadInv'
<1>. DEFINE s == [Idle EXCEPT !.pc = "touch", !.old = items[KeyOf[r]]]
<1>1. items[KeyOf[r]] \in Made
  BY HandlerFacts, EntryFacts DEF GetHit, Key
<1>2. s \in HandlerState
  <2>1. Idle \in HandlerState
    BY SMT DEF Idle, HandlerState, Building
  <2>. HIDE DEF Idle
  <2>. QED BY <1>1, <2>1, Zenon DEF HandlerState
<1>3. Holds(s)
  BY SMT DEF Holds, Idle, Building
<1>4. proc' = [proc EXCEPT ![h] = s]
  BY DEF GetHit
<1>. HIDE DEF s
<1>. QED
  BY <1>2, <1>3, <1>4, HandlerFacts, ProcessGoesOn DEF GetHit, entries, Shape

LEMMA SetFindStep ==
    ASSUME PayloadInv, NEW h \in Handler, SetFind(h)
    PROVE  PayloadInv'
<1>. DEFINE new == proc[h].new
            e   == items[KeyOf[res[new]]]
            pc  == IF e = Nil THEN "admit"
                   ELSE IF SameFingerprint(e, res[new]) THEN "compare" ELSE "rmList"
            s   == [proc[h] EXCEPT !.old = e, !.pc = pc]
<1>1. Shape /\ h \in Proc /\ proc[h] \in HandlerState /\ proc[h].new \in Made
  BY HandlerFacts DEF Holds, Building, SetFind, At
<1>2. e \in Made \cup {Nil}
  BY <1>1, EntryFacts
<1>3. s \in HandlerState
  <2>1. pc \in Building
    BY SMT DEF Building
  <2>. HIDE DEF pc, e, new
  <2>. QED BY <1>1, <1>2, <2>1, Zenon DEF HandlerState
<1>4. s.pc = pc /\ s.new = new /\ s.old = e
  BY <1>1 DEF HandlerState
<1>5. Holds(s)
  <2>1. e = Nil => pc = "admit"
    OBVIOUS
  <2>2. e # Nil => pc = "rmList" \/ (pc = "compare" /\ res[e] = res[new])
    BY DEF SameFingerprint
  <2>. HIDE DEF s, pc, e
  <2>. QED BY <1>1, <1>2, <1>4, <2>1, <2>2, SMT DEF Holds
<1>6. proc' = [proc EXCEPT ![h] = s]
  BY <1>1 DEF SetFind, Shape
<1>. HIDE DEF s
<1>. QED BY <1>1, <1>3, <1>5, <1>6, ProcessGoesOn DEF SetFind, entries, Shape

\* Steps that change a handler's place only, or end its operation.
LEMMA PlaceStep ==
    ASSUME PayloadInv, NEW h \in Handler, UNCHANGED <<items, made, res, pay, refreshing>>,
           NEW pc \in Building \cup {"idle", "touch", "move"}, Goto(h, pc),
           pc \in Building => proc[h].pc \in Building,
           pc \notin {"compare", "rmList", "rmMem"},
           pc = "swap" => proc[h].pc = "compare", pc = "rmMap" => proc[h].pc = "rmList"
    PROVE  PayloadInv'
<1>. DEFINE s == [proc[h] EXCEPT !.pc = pc]
<1>1. Shape /\ h \in Proc /\ proc[h] \in HandlerState /\ Holds(proc[h])
  BY HandlerFacts
<1>2. s \in HandlerState
  BY <1>1, SMT DEF HandlerState
<1>3. s.pc = pc /\ s.new = proc[h].new /\ s.old = proc[h].old
  BY <1>1 DEF HandlerState
<1>4. Holds(s)
  BY <1>1, <1>3, SMT DEF Holds, Building
<1>5. proc' = [proc EXCEPT ![h] = s]
  BY <1>1 DEF Goto, Shape
<1>. HIDE DEF s
<1>. QED BY <1>1, <1>2, <1>4, <1>5, ProcessGoesOn DEF Shape

LEMMA EndStep ==
    ASSUME PayloadInv, NEW h \in Handler, UNCHANGED <<items, made, res, pay, refreshing>>,
           Done(h)
    PROVE  PayloadInv'
<1>1. Idle \in HandlerState
  BY SMT DEF Idle, HandlerState, Building
<1>2. Holds(Idle)
  BY SMT DEF Idle, Holds, Building
<1>. QED BY <1>1, <1>2, HandlerFacts, ProcessGoesOn DEF Done, Shape

LEMMA SetCompareStep ==
    ASSUME PayloadInv, NEW h \in Handler, SetCompare(h)
    PROVE  PayloadInv'
<1>1. CASE Goto(h, "touch")
  BY <1>1, PlaceStep, SMT DEF SetCompare, entries, Building
<1>2. CASE Goto(h, "swap")
  BY <1>2, PlaceStep, SMT DEF SetCompare, At, entries, Building
<1>. QED BY <1>1, <1>2 DEF SetCompare

LEMMA PlainSteps ==
    ASSUME PayloadInv, NEW h \in Handler,
           \/ Touch(h) \/ Move(h) \/ SetAdmit(h) \/ SetVictim(h)
           \/ SetCount(h) \/ SetPush(h) \/ SetElem(h) \/ RemoveList(h)
    PROVE  PayloadInv'
<1>1. CASE Touch(h)
  <2>1. CASE Goto(h, "move")
    BY <1>1, <2>1, PlaceStep, SMT DEF Touch, entries, Building
  <2>2. CASE Done(h)
    BY <1>1, <2>2, EndStep DEF Touch, entries
  <2>. QED BY <1>1, <2>1, <2>2 DEF Touch
<1>2. CASE Move(h)
  BY <1>2, EndStep DEF Move, entries
<1>3. CASE SetAdmit(h)
  <2>1. CASE Goto(h, "victim")
    BY <1>3, <2>1, PlaceStep, SMT DEF SetAdmit, At, entries, Building
  <2>2. CASE Goto(h, "insert")
    BY <1>3, <2>2, PlaceStep, SMT DEF SetAdmit, At, entries, Building
  <2>. QED BY <1>3, <2>1, <2>2 DEF SetAdmit
<1>4. CASE SetVictim(h)
  <2>1. CASE UNCHANGED proc
    BY <1>4, <2>1, GoesOn DEF SetVictim, entries, PayloadInv, Shape, RefreshesOwn, OwnPayload, Made
  <2>2. CASE Goto(h, "insert")
    BY <1>4, <2>2, PlaceStep, SMT DEF SetVictim, At, entries, Building
  <2>3. CASE Done(h)
    BY <1>4, <2>3, EndStep DEF SetVictim, entries
  <2>. QED BY <1>4, <2>1, <2>2, <2>3 DEF SetVictim
<1>5. CASE SetCount(h)
  BY <1>5, PlaceStep, SMT DEF SetCount, At, entries, Building
<1>6. CASE SetPush(h)
  BY <1>6, PlaceStep, SMT DEF SetPush, At, entries, Building
<1>7. CASE SetElem(h)
  BY <1>7, EndStep DEF SetElem, entries
<1>8. CASE RemoveList(h)
  BY <1>8, PlaceStep, SMT DEF RemoveList, At, entries, Building
<1>. QED BY <1>1, <1>2, <1>3, <1>4, <1>5, <1>6, <1>7, <1>8

LEMMA SetInsertStep ==
    ASSUME PayloadInv, NEW h \in Handler, SetInsert(h)
    PROVE  PayloadInv'
<1>. DEFINE new == proc[h].new
            k   == KeyOf[res[new]]
            s   == [proc[h] EXCEPT !.pc = "insMem", !.old = items[k]]
<1>1. Shape /\ h \in Proc /\ proc[h] \in HandlerState /\ new \in Made
  BY HandlerFacts DEF Holds, Building, SetInsert, At
<1>2. k \in Key /\ items[k] \in Made \cup {Nil}
  BY <1>1, EntryFacts
<1>3. s \in HandlerState
  <2>1. "insMem" \in Building
    BY DEF Building
  <2>. HIDE DEF k, new
  <2>. QED BY <1>1, <1>2, <2>1, Zenon DEF HandlerState
<1>4. s.pc = "insMem" /\ s.new = new
  BY <1>1 DEF HandlerState
<1>5. Holds(s)
  <2>. HIDE DEF s
  <2>. QED BY <1>1, <1>4, SMT DEF Holds
<1>6. proc' = [proc EXCEPT ![h] = s] /\ items' \in [Key -> Made \cup {Nil}]
  BY <1>1, <1>2 DEF SetInsert, Shape
<1>. HIDE DEF s
<1>. QED BY <1>1, <1>3, <1>5, <1>6, ProcessGoesOn DEF SetInsert, entries

\* A removal ends; a Set goes on to admission with the entry it was called with.
LEMMA AfterRemoveStep ==
    ASSUME PayloadInv, NEW h \in Handler, UNCHANGED <<items, made, res, pay, refreshing>>,
           proc[h].pc \in {"rmMap", "rmMem"}, AfterRemove(h)
    PROVE  PayloadInv'
<1>. DEFINE s == [proc[h] EXCEPT !.pc = "admit", !.old = Nil, !.delta = 0]
<1>1. Shape /\ h \in Proc /\ proc[h] \in HandlerState /\ proc[h].new \in Made
  BY HandlerFacts DEF Holds, Building
<1>2. s \in HandlerState
  <2>1. "admit" \in Building /\ 0 \in Int
    BY DEF Building
  <2>. QED BY <1>1, <2>1, Zenon DEF HandlerState
<1>3. s.pc = "admit" /\ s.new = proc[h].new
  BY <1>1 DEF HandlerState
<1>4. Holds(s)
  <2>. HIDE DEF s
  <2>. QED BY <1>1, <1>3, SMT DEF Holds
<1>5. h # Evictor
  BY StorageAssumption
<1>6. proc' = [proc EXCEPT ![h] = s]
  BY <1>1, <1>5 DEF AfterRemove, Shape
<1>. HIDE DEF s
<1>. QED BY <1>1, <1>2, <1>4, <1>6, ProcessGoesOn DEF Shape

LEMMA RemoveMapStep ==
    ASSUME PayloadInv, NEW h \in Handler, RemoveMap(h)
    PROVE  PayloadInv'
<1>. DEFINE k == KeyOf[res[proc[h].old]]
            s == [proc[h] EXCEPT !.pc = "rmMem", !.delta = -Weight(items[k])]
<1>1. Shape /\ h \in Proc /\ proc[h] \in HandlerState /\ proc[h].pc = "rmMap"
      /\ proc[h].old \in Made /\ proc[h].new \in Made
  BY HandlerFacts DEF Holds, Building, RemoveMap, At
<1>2. k \in Key /\ items[k] \in Made \cup {Nil}
  BY <1>1, EntryFacts
<1>3. CASE items[k] = Nil
  BY <1>1, <1>3, AfterRemoveStep DEF RemoveMap, entries
<1>4. CASE items[k] # Nil
  <2>1. -Weight(items[k]) \in Int /\ "rmMem" \in Building
    BY <1>1, <1>2, <1>4, EntryFacts DEF Building
  <2>2. s \in HandlerState
    <3>. HIDE DEF k
    <3>. QED BY <1>1, <2>1, Zenon DEF HandlerState
  <2>3. s.pc = "rmMem" /\ s.new = proc[h].new /\ s.old = proc[h].old
    BY <1>1 DEF HandlerState
  <2>4. Holds(s)
    <3>. HIDE DEF s
    <3>. QED BY <1>1, <2>3, SMT DEF Holds
  <2>5. proc' = [proc EXCEPT ![h] = s] /\ items' \in [Key -> Made \cup {Nil}]
    BY <1>1, <1>2, <1>4 DEF RemoveMap, Shape
  <2>. HIDE DEF s
  <2>. QED BY <1>1, <2>2, <2>4, <2>5, ProcessGoesOn DEF RemoveMap, entries
<1>. QED BY <1>3, <1>4

LEMMA RemoveCountStep ==
    ASSUME PayloadInv, NEW h \in Handler, RemoveCount(h)
    PROVE  PayloadInv'
BY AfterRemoveStep DEF RemoveCount, At, entries

\* Two entries of one resource exchange their payloads.
LEMMA SetSwapStep ==
    ASSUME PayloadInv, NEW h \in Handler, SetSwap(h)
    PROVE  PayloadInv'
<1>. DEFINE new == proc[h].new
            old == proc[h].old
            s   == [proc[h] EXCEPT !.pc = "touch"]
<1>1. Shape /\ h \in Proc /\ proc[h] \in HandlerState
      /\ new \in Made /\ old \in Made /\ res[old] = res[new]
  BY HandlerFacts DEF Holds, Building, SetSwap, At
<1>2. s \in HandlerState
  BY <1>1, SMT DEF HandlerState, Building
<1>3. s.pc = "touch"
  BY <1>1 DEF HandlerState
<1>4. Holds(s)
  <2>. HIDE DEF s
  <2>. QED BY <1>3, SMT DEF Holds, Building
<1>5. DOMAIN proc' = Proc /\ \A g \in Handler : proc'[g] = proc[g] \/ proc'[g] = s
  BY <1>1, Zenon DEF SetSwap, Goto, Shape, Proc
<1>6. Made' = Made /\ Made \subseteq Entry
  BY <1>1, EntryFacts DEF SetSwap, Made
<1>7. DOMAIN pay' = Entry
      /\ \A e \in Made : pay'[e] = IF e = new THEN pay[old] ELSE IF e = old THEN pay[new] ELSE pay[e]
  BY <1>1, <1>6 DEF SetSwap, Shape
<1>8. (\A e \in Made : pay'[e] \in [res : Resource, ver : Version]) /\ OwnPayload'
  BY <1>1, <1>6, <1>7 DEF SetSwap, Shape, OwnPayload, PayloadInv
<1>9. RefreshesOwn'
  BY <1>6 DEF SetSwap, PayloadInv, RefreshesOwn
<1>. HIDE DEF s
<1>. QED BY <1>1, <1>2, <1>4, <1>5, <1>7, <1>8, <1>9, GoesOn DEF SetSwap, Shape

\* A Set begins: one more entry is built, and what was built stays.
LEMMA SetStartStep ==
    ASSUME PayloadInv, NEW h \in Handler, NEW r \in Resource, NEW v \in Version,
           SetStart(h, r, v)
    PROVE  PayloadInv'
<1>. DEFINE e == made + 1
            s == [Idle EXCEPT !.pc = "find", !.new = e]
<1>1. Shape /\ h \in Proc /\ made \in Nat /\ e \in 1..MaxEntries
  BY HandlerFacts, StorageAssumption DEF SetStart, Shape
<1>2. Made' = Made \cup {e} /\ e \in Entry /\ e \notin Made
  BY <1>1 DEF SetStart, Made, Entry
<1>3. /\ res' \in [Entry -> Resource \cup {Nil}] /\ DOMAIN pay' = Entry
      /\ res'[e] = r /\ pay'[e] = [res |-> r, ver |-> v]
      /\ \A d \in Made : res'[d] = res[d] /\ pay'[d] = pay[d]
  BY <1>1, <1>2, EntryFacts DEF SetStart, Shape
<1>4. /\ DOMAIN proc' = Proc
      /\ \A g \in Handler : g # h => proc'[g] = proc[g]
      /\ proc'[h] = s
  BY <1>1, Zenon DEF SetStart, Shape, Proc
<1>5. s.pc = "find" /\ s.new = e /\ s.old = Nil /\ s.off = 0 /\ s.delta = 0
  BY DEF Idle
<1>6. s \in HandlerState'
  <2>1. "find" \in Building /\ 0 \in Int /\ e \in Made'
    BY <1>2 DEF Building
  <2>. HIDE DEF e
  <2>. QED BY <2>1, Zenon DEF HandlerState, Idle
<1>7. Holds(proc[h])'
  <2>. HIDE DEF s
  <2>. QED BY <1>2, <1>4, <1>5, SMT DEF Holds
<1>. HIDE DEF s
<1>8. \A g \in Handler : proc'[g] \in HandlerState' /\ Holds(proc[g])'
  <2>. SUFFICES ASSUME NEW g \in Handler, g # h
                PROVE  proc'[g] \in HandlerState' /\ Holds(proc[g])'
    BY <1>4, <1>6, <1>7
  <2>1. proc'[g] = proc[g] /\ proc[g] \in HandlerState /\ Holds(proc[g])
    BY <1>4, HandlerFacts
  <2>2. proc[g] \in HandlerState'
    BY <1>2, <2>1 DEF HandlerState
  <2>3. proc[g].pc \in Building => proc[g].new \in Made
    BY <2>1 DEF Holds
  <2>. QED BY <1>2, <1>3, <2>1, <2>2, SMT DEF Holds, Building
<1>9. Shape'
  <2>1. made' \in 0..MaxEntries
    BY <1>1 DEF SetStart
  <2>2. items' \in [Key -> Made' \cup {Nil}]
    BY <1>1, <1>2 DEF SetStart, Shape
  <2>3. \A d \in Made' : res'[d] \in Resource /\ pay'[d] \in [res : Resource, ver : Version]
    BY <1>1, <1>2, <1>3 DEF Shape
  <2>. QED BY <1>1, <1>3, <1>4, <1>8, <2>1, <2>2, <2>3 DEF SetStart, Shape
<1>10. RefreshesOwn' /\ OwnPayload'
  BY <1>2, <1>3 DEF SetStart, PayloadInv, RefreshesOwn, OwnPayload
<1>. QED BY <1>8, <1>9, <1>10 DEF PayloadInv

-------------------------------------------------------------------------------
\* The evictor changes its own state and takes out of the map.
LEMMA EvictSteps ==
    ASSUME PayloadInv, EvictTick \/ EvictStep
    PROVE  PayloadInv'
<1>1. /\ UNCHANGED <<made, res, pay, refreshing>>
      /\ items' \in [Key -> Made \cup {Nil}]
  <2>1. items' = items \/ \E k : items' = [items EXCEPT ![k] = Nil]
    BY DEF EvictTick, EvictStep, EvictOuter, EvictLen, EvictInner, EvictNext,
           RemoveStep, RemoveList, RemoveMap, RemoveCount
  <2>2. UNCHANGED <<made, res, pay, refreshing>>
    BY DEF EvictTick, EvictStep, EvictOuter, EvictLen, EvictInner, EvictNext,
           RemoveStep, RemoveList, RemoveMap, RemoveCount, entries
  <2>. QED BY <2>1, <2>2 DEF PayloadInv, Shape
<1>2. DOMAIN proc' = Proc /\ \A h \in Handler : proc'[h] = proc[h]
  <2>1. proc' = proc \/ \E s : proc' = [proc EXCEPT ![Evictor] = s]
    BY DEF EvictTick, EvictStep, EvictOuter, EvictLen, EvictInner, EvictNext, Goto, Done,
           RemoveStep, RemoveList, RemoveMap, RemoveCount, AfterRemove
  <2>. QED BY <2>1, StorageAssumption DEF PayloadInv, Shape, Proc
<1>3. Made' = Made
  BY <1>1 DEF Made
<1>. QED BY <1>1, <1>2, <1>3, GoesOn DEF PayloadInv, Shape, RefreshesOwn, OwnPayload

\* A refresh takes the request from the entry's payload, which is its own, ..
LEMMA RefreshStartStep ==
    ASSUME PayloadInv, NEW e \in Entry, RefreshStart(e)
    PROVE  PayloadInv'
<1>1. Made' = Made /\ e \in Made
  BY DEF RefreshStart, Made, entries
<1>2. pay[e].res = res[e] /\ res[e] \in Resource
  BY <1>1 DEF PayloadInv, OwnPayload, Shape
<1>3. refreshing' \in [Entry -> Resource \cup {Nil}] /\ RefreshesOwn'
  BY <1>1, <1>2 DEF RefreshStart, PayloadInv, Shape, RefreshesOwn, entries
<1>4. OwnPayload'
  BY <1>1 DEF RefreshStart, PayloadInv, OwnPayload, entries
<1>. QED BY <1>3, <1>4, GoesOn DEF RefreshStart, PayloadInv, Shape, entries

\* .. and stores its answer, as late as it likes, where the entry's payload is.
LEMMA RefreshStoreStep ==
    ASSUME PayloadInv, NEW e \in Entry, NEW v \in Version, RefreshStore(e, v)
    PROVE  PayloadInv'
<1>1. Made' = Made /\ e \in Made /\ refreshing[e] = res[e] /\ res[e] \in Resource
  BY DEF RefreshStore, PayloadInv, RefreshesOwn, Shape, Made
<1>2. /\ DOMAIN pay' = Entry
      /\ \A d \in Made : pay'[d] = IF d = e THEN [res |-> res[e], ver |-> v] ELSE pay[d]
  BY <1>1, EntryFacts DEF RefreshStore, PayloadInv, Shape
<1>3. (\A d \in Made : pay'[d] \in [res : Resource, ver : Version]) /\ OwnPayload'
  BY <1>1, <1>2 DEF RefreshStore, PayloadInv, Shape, OwnPayload
<1>4. refreshing' \in [Entry -> Resource \cup {Nil}] /\ RefreshesOwn'
  BY <1>1 DEF RefreshStore, PayloadInv, Shape, RefreshesOwn
<1>. QED BY <1>2, <1>3, <1>4, GoesOn DEF RefreshStore, PayloadInv, Shape

LEMMA RefreshFailStep ==
    ASSUME PayloadInv, NEW e \in Entry, RefreshFail(e)
    PROVE  PayloadInv'
<1>1. Made' = Made
  BY DEF RefreshFail, Made, entries
<1>2. refreshing' \in [Entry -> Resource \cup {Nil}] /\ RefreshesOwn' /\ OwnPayload'
  BY <1>1 DEF RefreshFail, PayloadInv, Shape, RefreshesOwn, OwnPayload, entries
<1>. QED BY <1>2, GoesOn DEF RefreshFail, PayloadInv, Shape, entries

LEMMA OtherSteps ==
    ASSUME PayloadInv, MemTick \/ Clear \/ UNCHANGED vars
    PROVE  PayloadInv'
<1>1. UNCHANGED <<made, res, pay, refreshing, proc>>
  BY DEF MemTick, Clear, vars, entries
<1>2. items' \in [Key -> Made \cup {Nil}]
  BY DEF MemTick, Clear, vars, PayloadInv, Shape
<1>3. Made' = Made
  BY <1>1 DEF Made
<1>. QED BY <1>1, <1>2, <1>3, GoesOn DEF PayloadInv, Shape, RefreshesOwn, OwnPayload

LEMMA PayloadStep == PayloadInv /\ [Next]_vars => PayloadInv'
<1>. SUFFICES ASSUME PayloadInv, [Next]_vars PROVE PayloadInv'
  OBVIOUS
<1>1. ASSUME NEW h \in Handler, Request(h) PROVE PayloadInv'
  BY <1>1, GetHitStep, SetStartStep DEF Request
<1>2. ASSUME NEW h \in Handler, HandlerStep(h) PROVE PayloadInv'
  BY <1>2, SetFindStep, SetCompareStep, SetSwapStep, PlainSteps, SetInsertStep,
     RemoveMapStep, RemoveCountStep DEF HandlerStep, RemoveStep
<1>3. ASSUME NEW e \in Entry, RefreshStart(e) \/ RefreshEnd(e) PROVE PayloadInv'
  BY <1>3, RefreshStartStep, RefreshStoreStep, RefreshFailStep DEF RefreshEnd
<1>. QED BY <1>1, <1>2, <1>3, EvictSteps, OtherSteps DEF Next

(***************************************************************************)
(* No entry ever holds another resource's payload, in storage.go's Set and *)
(* the refresher's update of a found entry alike: for any keys that        *)
(* collide, any handlers that run at once, and refreshes that store at any *)
(* later time, whatever became of the entry in between.                    *)
(***************************************************************************)
THEOREM PayloadsStayHome == Spec => []OwnPayload
<1>1. PayloadInv => OwnPayload
  BY DEF PayloadInv
<1>. QED BY <1>1, InitPayloadInv, PayloadStep, PTL DEF Spec

-------------------------------------------------------------------------------
(***************************************************************************)
(* The list as other goroutines may leave it.                              *)
(***************************************************************************)
\* The ring lemmas of LruListProofs; none of them mentions LruList's variables.
LP == INSTANCE LruListProofs WITH
          Elem <- Entry, Goroutine <- {}, owner <- <<>>, moving <- <<>>, offset <- <<>>, seen <- <<>>

LEMMA RingFacts ==
    /\ LP!IsFiniteSet(Entry) /\ Root \notin Entry /\ Nil \notin Entry \cup {Root} /\ {"fresh", "removed"} \cap {} = {}
    /\ LP!Node = Ring!Node /\ LP!RingType = Ring!RingType
    /\ \A l, e : /\ LP!PushFront(l, e) = Ring!PushFront(l, e)
                 /\ LP!Remove(l, e) = Ring!Remove(l, e)
                 /\ LP!MoveToFront(l, e) = Ring!MoveToFront(l, e)
    /\ \A l, k : LP!At(l, k) = Ring!At(l, k)
    /\ \A l : LP!Walk(l) = Ring!Walk(l)
    /\ \A l, s : LP!RingOf(l, s) = Ring!RingOf(l, s)
<1>1. LP!IsFiniteSet(Entry) /\ Root \notin Entry
  <2>1. IsFiniteSet(1..MaxEntries)
    BY FS_Interval, StorageAssumption
  <2>2. IsFiniteSet(1..MaxEntries) => LP!IsFiniteSet(1..MaxEntries)
    BY DEF LP!IsFiniteSet, IsFiniteSet
  <2>. QED BY <2>1, <2>2, StorageAssumption DEF Root, Entry
<1>2. LP!Node = Ring!Node /\ LP!RingType = Ring!RingType
  BY DEF LP!Node, Ring!Node, LP!RingType, Ring!RingType
<1>3. \A l, e : /\ LP!PushFront(l, e) = Ring!PushFront(l, e)
                /\ LP!Remove(l, e) = Ring!Remove(l, e)
                /\ LP!MoveToFront(l, e) = Ring!MoveToFront(l, e)
  BY DEF LP!PushFront, Ring!PushFront, LP!LinkFront, Ring!LinkFront, LP!Remove, Ring!Remove,
         LP!Detach, Ring!Detach, LP!MoveToFront, Ring!MoveToFront
<1>4. \A l, k : LP!At(l, k) = Ring!At(l, k)
  BY DEF LP!At, Ring!At
<1>5. \A l : LP!Walk(l) = Ring!Walk(l)
  <2>1. LP!Cardinality(Entry) = Ring!Cardinality(Entry)
    BY DEF LP!Cardinality, Ring!Cardinality, LP!IsFiniteSet, Ring!IsFiniteSet
  <2>. QED BY <2>1 DEF LP!Walk, Ring!Walk
<1>6. \A l, s : LP!RingOf(l, s) = Ring!RingOf(l, s)
  BY DEF LP!RingOf, Ring!RingOf, LP!NodeAt, Ring!NodeAt
<1>. QED BY <1>1, <1>2, <1>3, <1>4, <1>5, <1>6, StorageAssumption

\* The links of whatever was pushed lead to what was pushed, all of it built entries
\* or the sentinel - however many Removes and moves of elements no longer in the
\* list have followed stale links.
Linking(l, n) == n \in Ring!Node /\ l.next[n] # Nil
Closed(l, M) ==
    /\ l \in Ring!RingType /\ Linking(l, Root)
    /\ \A n \in Ring!Node : Linking(l, n) => /\ n \in M \cup {Root}
                                             /\ Linking(l, l.next[n]) /\ Linking(l, l.prev[n])
StillLinking(l, r) == \A n \in Ring!Node : Linking(l, n) => Linking(r, n)

LEMMA PushFrontClosed ==
    ASSUME NEW M \in SUBSET Entry, NEW l, Closed(l, M), NEW e \in M
    PROVE  /\ Closed(Ring!PushFront(l, e), M) /\ StillLinking(l, Ring!PushFront(l, e))
           /\ Linking(Ring!PushFront(l, e), e)
<1>. DEFINE r == Ring!PushFront(l, e)
<1>1. l \in Ring!RingType /\ e \in Entry /\ l.next[Root] \in Ring!Node
  BY DEF Closed, Linking
<1>2. /\ r \in Ring!RingType
      /\ \A m \in Ring!Node : r.next[m] =
            IF m = Root THEN e ELSE IF m = e THEN l.next[Root] ELSE l.next[m]
      /\ \A m \in Ring!Node : r.prev[m] =
            IF m = l.next[Root] THEN e ELSE IF m = e THEN Root ELSE l.prev[m]
  BY <1>1, RingFacts, LP!PushFrontFields
<1>3. e # Nil /\ e \in Ring!Node /\ Root \in Ring!Node
  BY <1>1, RingFacts DEF Ring!Node
<1>. HIDE DEF r
<1>4. StillLinking(l, r) /\ Linking(r, e)
  BY <1>1, <1>2, <1>3, RingFacts DEF StillLinking, Linking, Closed
<1>5. ASSUME NEW n \in Ring!Node, Linking(r, n)
      PROVE  n \in M \cup {Root} /\ Linking(r, r.next[n]) /\ Linking(r, r.prev[n])
  <2>1. n = e \/ Linking(l, n)
    BY <1>2, <1>3, <1>5 DEF Linking, Closed
  <2>2. r.next[n] = e \/ Linking(l, r.next[n])
    BY <1>2, <1>3, <2>1 DEF Closed, Linking
  <2>3. r.prev[n] = e \/ Linking(l, r.prev[n])
    BY <1>2, <1>3, <2>1 DEF Closed, Linking
  <2>. QED BY <1>4, <2>1, <2>2, <2>3 DEF StillLinking, Closed, Linking
<1>6. Linking(r, Root)
  BY <1>4 DEF StillLinking, Closed, Linking
<1>7. Closed(r, M)
  BY <1>2, <1>5, <1>6 DEF Closed
<1>. QED BY <1>4, <1>7 DEF r

LEMMA RemoveClosed ==
    ASSUME NEW M \in SUBSET Entry, NEW l, Closed(l, M), NEW e \in Entry, Linking(l, e)
    PROVE  Closed(Ring!Remove(l, e), M) /\ StillLinking(l, Ring!Remove(l, e))
<1>. DEFINE r == Ring!Remove(l, e)
<1>0. Linking(l, l.next[e]) /\ Linking(l, l.prev[e]) /\ l \in Ring!RingType /\ e \in Ring!Node
  BY DEF Closed, Linking
<1>1. /\ r \in Ring!RingType
      /\ \A m \in Ring!Node : r.next[m] = IF m = l.prev[e] THEN l.next[e] ELSE l.next[m]
      /\ \A m \in Ring!Node : r.prev[m] = IF m = l.next[e] THEN l.prev[e] ELSE l.prev[m]
  BY <1>0, RingFacts, LP!RemoveFields DEF Linking
<1>2. l.next[e] # Nil /\ l.prev[e] # Nil
  BY <1>0, RingFacts DEF Linking, Ring!Node
<1>. HIDE DEF r
<1>3. StillLinking(l, r)
  BY <1>1, <1>2 DEF StillLinking, Linking
<1>4. ASSUME NEW n \in Ring!Node, Linking(r, n)
      PROVE  n \in M \cup {Root} /\ Linking(l, r.next[n]) /\ Linking(l, r.prev[n])
  <2>1. Linking(l, n)
    BY <1>0, <1>1, <1>4 DEF Linking
  <2>. QED BY <1>0, <1>1, <2>1 DEF Closed
<1>5. Linking(r, Root)
  BY <1>3 DEF Closed, StillLinking, Linking
<1>. QED BY <1>1, <1>3, <1>4, <1>5 DEF Closed, StillLinking, Linking, r

LEMMA MoveClosed ==
    ASSUME NEW M \in SUBSET Entry, NEW l, Closed(l, M), NEW e \in M, Linking(l, e)
    PROVE  Closed(Ring!MoveToFront(l, e), M) /\ StillLinking(l, Ring!MoveToFront(l, e))
<1>1. Closed(Ring!Remove(l, e), M) /\ StillLinking(l, Ring!Remove(l, e))
  BY RemoveClosed
<1>2. Ring!MoveToFront(l, e) = Ring!PushFront(Ring!Remove(l, e), e)
  BY RingFacts, LP!MoveIsRemovePush DEF Closed
<1>3. PICK r : r = Ring!Remove(l, e)
  OBVIOUS
<1>4. Closed(Ring!PushFront(r, e), M) /\ StillLinking(r, Ring!PushFront(r, e))
  BY <1>1, <1>3, PushFrontClosed
<1>. QED BY <1>1, <1>2, <1>3, <1>4 DEF StillLinking

\* The walk of Next(k) is defined for any list, and stays among them.
Steps(l, k, g) == g = [i \in 0..k |-> IF i = 0 THEN l.next[Root] ELSE l.next[g[i - 1]]]

LEMMA StepsExist == ASSUME NEW l, NEW k \in Nat PROVE \E g : Steps(l, k, g)
<1>1. PICK g : LP!Follows(l, k, FALSE, g)
  BY RingFacts, LP!FollowsExists
<1>2. Steps(l, k, g)
  BY <1>1, Zenon DEF LP!Follows, Steps
<1>. QED BY <1>2

LEMMA AtLinking ==
    ASSUME NEW M, NEW l, Closed(l, M), NEW k \in Nat
    PROVE  Linking(l, Ring!At(l, k))
<1>. DEFINE at == CHOOSE g : Steps(l, k, g)
<1>1. Ring!At(l, k) = at[k]
  BY DEF Ring!At, Steps
<1>2. Steps(l, k, at)
  BY StepsExist
<1>. HIDE DEF at
<1>3. ASSUME NEW i \in 0..k PROVE at[i] = IF i = 0 THEN l.next[Root] ELSE l.next[at[i - 1]]
  BY <1>2 DEF Steps
<1>. DEFINE T == {i \in 0..k : ~ Linking(l, at[i])}
<1>4. SUFFICES ASSUME T # {} PROVE FALSE
  BY <1>1
<1>5. PICK m \in T : \A j \in T : m <= j
  <2>1. T \in SUBSET Nat
    OBVIOUS
  <2>. HIDE DEF T
  <2>. QED BY <1>4, <2>1, RingFacts, LP!LeastNatural
<1>6. CASE m = 0
  BY <1>3, <1>5, <1>6 DEF Closed, Linking
<1>7. CASE m # 0
  <2>1. m - 1 \in 0..k /\ m - 1 \notin T
    BY <1>5, <1>7
  <2>. QED BY <1>3, <1>5, <1>7, <2>1 DEF Closed, Linking
<1>. QED BY <1>6, <1>7

\* Next(offset) and so the evictor never see anything but the sentinel, a built entry
\* or nil.
LEMMA NextAtClosed ==
    ASSUME NEW M \in SUBSET Entry, NEW l, Closed(l, M), NEW k \in Int
    PROVE  Ring!NextAt(l, k) \in M \cup {Root, Nil}
<1>1. CASE k < 0 \/ k >= l.len
  BY <1>1 DEF Ring!NextAt
<1>2. CASE ~ (k < 0 \/ k >= l.len)
  <2>1. k \in Nat /\ Ring!NextAt(l, k) = Ring!At(l, k)
    BY <1>2 DEF Ring!NextAt
  <2>2. Linking(l, Ring!At(l, k))
    BY <2>1, AtLinking
  <2>. QED BY <2>1, <2>2 DEF Closed, Linking
<1>. QED BY <1>1, <1>2

(***************************************************************************)
(* What the store, the handlers and the evictor agree on, whatever runs in *)
(* between the steps of an operation.                                      *)
(***************************************************************************)
Evicting == {"rmList", "rmMap", "rmMem"}
Inserted == {"insMem", "push", "setElem"}
EvictorState ==
    [pc : {"idle", "outer", "len", "inner", "next"} \cup Evicting,
     new : {Nil}, old : Made \cup {Nil}, off : Int, delta : Int]
EvictorOk ==
    LET s == proc[Evictor]
    IN  /\ s \in EvictorState
        /\ s.pc \in Evicting => s.old \in Made
        /\ s.pc # "rmMem" => s.delta = 0

\* A handler in state s: its new entry is not stored before its insertion, an element it
\* is about to move or to make known was pushed, and it owes mem nothing but a Remove's
\* weight.
Sound(s) ==
    /\ s.new # Nil /\ s.pc \notin Inserted => s.new \notin Cached
    /\ s.pc = "setElem" => Linking(list, s.new)
    /\ s.pc = "move" => s.old \in elemSet
    /\ s.pc # "rmMem" => s.delta = 0

\* An entry is stored under its own key, and is one handler's new entry at most.
Keyed == \A k \in Key : items[k] # Nil => KeyOf[res[items[k]]] = k
NewOnce == \A g, h \in Handler : g # h /\ proc[g].new # Nil => proc[g].new # proc[h].new
LinksOk == Closed(list, Made) /\ \A e \in elemSet : e \in Made /\ Linking(list, e)

StoreShape ==
    EvictorOk /\ (\A h \in Handler : Sound(proc[h])) /\ Keyed /\ NewOnce /\ LinksOk /\ mem \in Int

LEMMA CachedMade == ASSUME Shape PROVE Cached \subseteq Made
BY DEF Shape, Cached

LEMMA InitStoreShape == Init => StoreShape
<1>. SUFFICES ASSUME Init PROVE StoreShape
  OBVIOUS
<1>1. Made = {} /\ Cached = {} /\ \A p \in Proc : proc[p] = Idle
  BY DEF Init, Made, Cached
<1>2. Idle \in EvictorState
  BY SMT DEF Idle, EvictorState, Evicting
<1>3. EvictorOk
  BY <1>1, <1>2, SMT DEF EvictorOk, Idle, Evicting, Proc
<1>4. \A h \in Handler : proc[h] = Idle
  BY <1>1 DEF Proc
<1>5. (\A h \in Handler : Sound(proc[h])) /\ NewOnce
  BY <1>4 DEF Sound, Idle, NewOnce
<1>6. LinksOk
  <2>1. list \in Ring!RingType /\ \A n \in Ring!Node : Linking(list, n) <=> n = Root
    BY RingFacts DEF Init, Ring!NewList, Ring!RingType, Ring!Node, Linking
  <2>2. list.next[Root] = Root /\ list.prev[Root] = Root /\ Root \in Ring!Node
    BY RingFacts DEF Init, Ring!NewList, Ring!Node
  <2>. QED BY <2>1, <2>2 DEF Init, LinksOk, Closed
<1>. QED BY <1>1, <1>3, <1>5, <1>6 DEF Init, StoreShape, Keyed

\* A handler's state stays sound when entries leave the map, elements become known and
\* links are made.
LEMMA SoundKeeps ==
    ASSUME NEW n, Cached' \subseteq Cached \cup {n}, elemSet \subseteq elemSet',
           StillLinking(list, list')
    PROVE  \A x : Sound(x) /\ (x.new # n \/ x.new = Nil) => Sound(x)'
BY DEF Sound, StillLinking, Linking

\* A step of handler h that may insert its new entry.
LEMMA HandlerMoves ==
    ASSUME PayloadInv, StoreShape, NEW h \in Handler,
           \A p \in Proc \ {h} : proc'[p] = proc[p], proc'[h].new \in {proc[h].new, Nil},
           UNCHANGED <<made, res>>, Cached' \subseteq Cached \cup {proc[h].new}, Keyed',
           elemSet \subseteq elemSet', StillLinking(list, list'), LinksOk', mem' \in Int,
           Sound(proc[h])'
    PROVE  StoreShape'
<1>1. h \in Proc /\ Evictor \in Proc /\ h # Evictor /\ Handler \subseteq Proc
  BY StorageAssumption DEF Proc
<1>2. EvictorOk'
  <2>1. proc'[Evictor] = proc[Evictor] /\ EvictorState' = EvictorState /\ Made' = Made
    BY <1>1 DEF EvictorState, Made
  <2>. QED BY <2>1 DEF StoreShape, EvictorOk
<1>3. ASSUME NEW g \in Handler PROVE Sound(proc[g])'
  <2>1. CASE g = h
    BY <2>1
  <2>2. CASE g # h
    <3>1. proc'[g] = proc[g] /\ Sound(proc[g])
      BY <1>1, <2>2 DEF StoreShape
    <3>2. proc[g].new # proc[h].new \/ proc[g].new = Nil
      BY <2>2 DEF StoreShape, NewOnce
    <3>3. \A x : Sound(x) /\ (x.new # proc[h].new \/ x.new = Nil) => Sound(x)'
      BY SoundKeeps
    <3>4. PICK x : x = proc[g]
      OBVIOUS
    <3>5. Sound(x)'
      BY <3>1, <3>2, <3>3, <3>4
    <3>. QED BY <3>1, <3>4, <3>5 DEF Sound
  <2>. QED BY <2>1, <2>2
<1>4. NewOnce'
  <2>. SUFFICES ASSUME NEW f \in Handler, NEW g \in Handler, f # g, proc'[f].new # Nil
                PROVE  proc'[f].new # proc'[g].new
    BY DEF NewOnce
  <2>1. proc'[f].new \in {proc[f].new, Nil} /\ proc'[g].new \in {proc[g].new, Nil}
    BY <1>1
  <2>. QED BY <2>1 DEF StoreShape, NewOnce
<1>. QED BY <1>2, <1>3, <1>4 DEF StoreShape

\* A step of h that changes its own state only (and maybe mem).
LEMMA PlaceMoves ==
    ASSUME PayloadInv, StoreShape, NEW h \in Handler,
           \A p \in Proc \ {h} : proc'[p] = proc[p], proc'[h].new \in {proc[h].new, Nil},
           UNCHANGED <<made, res, items, list, elemSet>>, mem' \in Int,
           Sound(proc[h])'
    PROVE  StoreShape'
<1>1. Cached' \subseteq Cached \cup {proc[h].new} /\ Keyed' /\ LinksOk'
  BY DEF StoreShape, Cached, Keyed, LinksOk, Made
<1>2. StillLinking(list, list')
  BY DEF StillLinking
<1>. QED BY <1>1, <1>2, HandlerMoves

\* The fields of a handler's state after it went on or was done.
LEMMA GotoFields ==
    ASSUME PayloadInv, NEW h \in Handler, NEW pc, Goto(h, pc)
    PROVE  /\ \A p \in Proc \ {h} : proc'[p] = proc[p]
           /\ proc'[h].pc = pc /\ proc'[h].new = proc[h].new /\ proc'[h].old = proc[h].old
           /\ proc'[h].delta = proc[h].delta
BY HandlerFacts DEF Goto, HandlerState, Shape

LEMMA DoneSound ==
    ASSUME PayloadInv, NEW h \in Handler, Done(h)
    PROVE  /\ \A p \in Proc \ {h} : proc'[p] = proc[p]
           /\ proc'[h].new = Nil /\ Sound(proc[h])'
<1>1. /\ \A p \in Proc \ {h} : proc'[p] = proc[p]
      /\ proc'[h] = Idle
  BY HandlerFacts DEF Done, Shape
<1>2. proc'[h].new = Nil /\ proc'[h].pc = "idle" /\ proc'[h].delta = 0
  BY <1>1 DEF Idle
<1>. QED BY <1>1, <1>2 DEF Sound

\* The steps that only change the handler's place.
LEMMA PlaceSteps ==
    ASSUME PayloadInv, StoreShape, NEW h \in Handler,
           \/ SetCompare(h) \/ SetSwap(h) \/ Touch(h) \/ SetAdmit(h) \/ SetVictim(h)
           \/ SetCount(h)
    PROVE  StoreShape'
<1>1. UNCHANGED <<made, res, items, list, elemSet>>
  BY DEF SetCompare, SetSwap, Touch, SetAdmit, SetVictim, SetCount, entries
<1>2. mem' \in Int
  <2>1. CASE SetCount(h)
    <3>1. proc[h].new \in Made /\ proc[h].old \in Made \cup {Nil}
      BY <2>1, HandlerFacts DEF SetCount, At, Holds, Building, HandlerState
    <3>2. Weight(proc[h].new) \in Nat /\ (proc[h].old # Nil => Weight(proc[h].old) \in Nat)
      BY <3>1, EntryFacts, HandlerFacts
    <3>. QED BY <2>1, <3>2 DEF SetCount, StoreShape
  <2>. QED BY <2>1 DEF SetCompare, SetSwap, Touch, SetAdmit, SetVictim, StoreShape
<1>3. CASE Done(h)
  BY <1>1, <1>2, <1>3, DoneSound, PlaceMoves
<1>4. ASSUME NEW pc, Goto(h, pc), proc[h].pc # "rmMem", pc # "setElem",
             pc = "move" => proc[h].old \in elemSet,
             proc[h].pc \in Inserted => pc \in Inserted
      PROVE  StoreShape'
  <2>1. /\ \A p \in Proc \ {h} : proc'[p] = proc[p]
        /\ proc'[h].pc = pc /\ proc'[h].new = proc[h].new /\ proc'[h].old = proc[h].old
        /\ proc'[h].delta = proc[h].delta
    BY <1>4, GotoFields
  <2>2. Sound(proc[h])'
    BY <1>1, <1>4, <2>1 DEF StoreShape, Sound, Cached
  <2>. QED BY <1>1, <1>2, <2>1, <2>2, PlaceMoves
<1>5. CASE SetCompare(h)
  <2>1. proc[h].pc = "compare" /\ (Goto(h, "touch") \/ Goto(h, "swap"))
    BY <1>5 DEF SetCompare, At
  <2>. QED BY <1>4, <2>1 DEF Inserted
<1>6. CASE SetSwap(h)
  BY <1>4, <1>6 DEF SetSwap, At, Inserted
<1>7. CASE Touch(h)
  BY <1>3, <1>4, <1>7 DEF Touch, At, Inserted
<1>8. CASE SetAdmit(h)
  <2>1. proc[h].pc = "admit" /\ (Goto(h, "victim") \/ Goto(h, "insert"))
    BY <1>8 DEF SetAdmit, At
  <2>. QED BY <1>4, <2>1 DEF Inserted
<1>9. CASE SetVictim(h)
  <2>1. CASE UNCHANGED proc
    <3>1. Sound(proc[h])'
      BY <1>1, <2>1 DEF StoreShape, Sound, Cached
    <3>. QED BY <1>1, <1>2, <2>1, <3>1, PlaceMoves
  <2>2. CASE Goto(h, "insert")
    BY <1>4, <1>9, <2>2 DEF SetVictim, At, Inserted
  <2>. QED BY <1>3, <1>9, <2>1, <2>2 DEF SetVictim
<1>10. CASE SetCount(h)
  BY <1>4, <1>10 DEF SetCount, At, Inserted
<1>. QED BY <1>5, <1>6, <1>7, <1>8, <1>9, <1>10


LEMMA GetHitShape ==
    ASSUME PayloadInv, StoreShape, NEW h \in Handler, NEW r \in Resource, GetHit(h, r)
    PROVE  StoreShape'
<1>1. /\ \A p \in Proc \ {h} : proc'[p] = proc[p]
      /\ proc'[h] = [Idle EXCEPT !.pc = "touch", !.old = items[KeyOf[r]]]
  BY HandlerFacts DEF GetHit, Shape
<1>2. proc'[h].new = Nil /\ proc'[h].pc = "touch" /\ proc'[h].delta = 0
  BY <1>1 DEF Idle
<1>3. Sound(proc[h])'
  BY <1>2 DEF Sound
<1>. QED BY <1>1, <1>2, <1>3, PlaceMoves DEF GetHit, entries, StoreShape

LEMMA SetFindShape ==
    ASSUME PayloadInv, StoreShape, NEW h \in Handler, SetFind(h)
    PROVE  StoreShape'
<1>1. /\ \A p \in Proc \ {h} : proc'[p] = proc[p]
      /\ proc'[h].new = proc[h].new /\ proc'[h].delta = proc[h].delta
      /\ proc'[h].pc \in {"admit", "compare", "rmList"} /\ proc[h].pc = "find"
  <2>1. h \in Proc /\ DOMAIN proc = Proc /\ proc[h] \in HandlerState /\ proc[h].pc = "find"
    BY HandlerFacts DEF SetFind, At, Shape
  <2>2. PICK e, pc : /\ proc' = [proc EXCEPT ![h].old = e, ![h].pc = pc]
                     /\ pc \in {"admit", "compare", "rmList"}
    <3>. DEFINE e == items[KeyOf[res[proc[h].new]]]
                pc == IF e = Nil THEN "admit"
                      ELSE IF SameFingerprint(e, res[proc[h].new]) THEN "compare" ELSE "rmList"
    <3>1. proc' = [proc EXCEPT ![h].old = e, ![h].pc = pc]
      BY DEF SetFind
    <3>2. pc \in {"admit", "compare", "rmList"}
      OBVIOUS
    <3>. HIDE DEF e, pc
    <3>. QED BY <3>1, <3>2
  <2>. QED BY <2>1, <2>2 DEF HandlerState
<1>2. Sound(proc[h])
  BY DEF StoreShape
<1>3. Sound(proc[h])'
  BY <1>1, <1>2 DEF Sound, Inserted, SetFind, entries, Cached
<1>. QED BY <1>1, <1>3, PlaceMoves DEF SetFind, entries, StoreShape

LEMMA MoveShape ==
    ASSUME PayloadInv, StoreShape, NEW h \in Handler, Move(h)
    PROVE  StoreShape'
<1>1. proc[h].old \in elemSet /\ UNCHANGED <<made, res, items, elemSet, mem>> /\ Made' = Made
  BY DEF Move, At, StoreShape, Sound, entries, Made
<1>2. proc[h].old \in Made /\ Linking(list, proc[h].old) /\ Closed(list, Made)
  BY <1>1 DEF StoreShape, LinksOk
<1>3. Made \in SUBSET Entry
  BY HandlerFacts, EntryFacts
<1>4. Closed(list', Made) /\ StillLinking(list, list')
  BY <1>2, <1>3, MoveClosed DEF Move
<1>5. LinksOk'
  BY <1>1, <1>4 DEF StoreShape, LinksOk, StillLinking, Linking
<1>6. Cached' \subseteq Cached \cup {proc[h].new} /\ Keyed'
  BY <1>1 DEF StoreShape, Cached, Keyed
<1>. QED BY <1>1, <1>4, <1>5, <1>6, DoneSound, HandlerMoves DEF Move, StoreShape

LEMMA SetPushShape ==
    ASSUME PayloadInv, StoreShape, NEW h \in Handler, SetPush(h)
    PROVE  StoreShape'
<1>1. /\ UNCHANGED <<made, res, items, elemSet, mem>> /\ Made' = Made
      /\ proc[h].pc = "push" /\ proc[h].new \in Made
  BY HandlerFacts DEF SetPush, At, entries, Made, Holds, Building
<1>2. Closed(list, Made) /\ Made \in SUBSET Entry
  BY HandlerFacts, EntryFacts DEF StoreShape, LinksOk
<1>4. Closed(list', Made) /\ StillLinking(list, list') /\ Linking(list', proc[h].new)
  BY <1>1, <1>2, PushFrontClosed DEF SetPush
<1>5. LinksOk'
  BY <1>1, <1>4 DEF StoreShape, LinksOk, StillLinking, Linking
<1>6. Cached' \subseteq Cached \cup {proc[h].new} /\ Keyed'
  BY <1>1 DEF StoreShape, Cached, Keyed
<1>7. /\ \A p \in Proc \ {h} : proc'[p] = proc[p]
      /\ proc'[h].pc = "setElem" /\ proc'[h].new = proc[h].new
      /\ proc'[h].delta = proc[h].delta
  BY GotoFields DEF SetPush
<1>8. Sound(proc[h])'
  BY <1>1, <1>4, <1>7 DEF StoreShape, Sound, Inserted
<1>. QED BY <1>1, <1>4, <1>5, <1>6, <1>7, <1>8, HandlerMoves DEF StoreShape

LEMMA SetElemShape ==
    ASSUME PayloadInv, StoreShape, NEW h \in Handler, SetElem(h)
    PROVE  StoreShape'
<1>1. /\ UNCHANGED <<made, res, items, list, mem>> /\ Made' = Made
      /\ proc[h].pc = "setElem" /\ proc[h].new \in Made /\ elemSet' = elemSet \cup {proc[h].new}
  BY HandlerFacts DEF SetElem, At, Made, Holds, Building
<1>2. Linking(list, proc[h].new)
  BY <1>1 DEF StoreShape, Sound
<1>3. LinksOk' /\ StillLinking(list, list')
  BY <1>1, <1>2 DEF StoreShape, LinksOk, StillLinking
<1>4. Cached' \subseteq Cached \cup {proc[h].new} /\ Keyed'
  BY <1>1 DEF StoreShape, Cached, Keyed
<1>. QED BY <1>1, <1>3, <1>4, DoneSound, HandlerMoves DEF SetElem, StoreShape

LEMMA SetInsertShape ==
    ASSUME PayloadInv, StoreShape, NEW h \in Handler, SetInsert(h)
    PROVE  StoreShape'
<1>. DEFINE new == proc[h].new
            k   == KeyOf[res[new]]
<1>1. /\ UNCHANGED <<made, res, list, elemSet, mem>> /\ Made' = Made
      /\ proc[h].pc = "insert" /\ new \in Made /\ k \in Key
  BY HandlerFacts, EntryFacts DEF SetInsert, At, entries, Made, Holds, Building
<1>2. items' = [items EXCEPT ![k] = new] /\ Shape
  BY HandlerFacts DEF SetInsert
<1>3. Cached' \subseteq Cached \cup {new} /\ Keyed'
  BY <1>1, <1>2 DEF StoreShape, Cached, Keyed, Shape
<1>4. /\ \A p \in Proc \ {h} : proc'[p] = proc[p]
      /\ proc'[h].pc = "insMem" /\ proc'[h].new = new /\ proc'[h].delta = proc[h].delta
  BY HandlerFacts DEF SetInsert, Shape, HandlerState
<1>5. Sound(proc[h])'
  BY <1>1, <1>4 DEF StoreShape, Sound, Inserted
<1>6. LinksOk' /\ StillLinking(list, list')
  BY <1>1 DEF StoreShape, LinksOk, StillLinking
<1>. QED BY <1>1, <1>3, <1>4, <1>5, <1>6, HandlerMoves DEF StoreShape

\* The removal of an element that is known, or of none.
LEMMA RemoveListLinks ==
    ASSUME PayloadInv, StoreShape, NEW p \in Proc, RemoveList(p)
    PROVE  /\ UNCHANGED <<made, res, items, elemSet, mem>> /\ Made' = Made
           /\ LinksOk' /\ StillLinking(list, list')
<1>1. UNCHANGED <<made, res, items, elemSet, mem>> /\ Made' = Made
  BY DEF RemoveList, entries, Made
<1>2. Closed(list, Made) /\ Made \in SUBSET Entry
  BY EntryFacts DEF StoreShape, LinksOk, PayloadInv
<1>3. CASE proc[p].old \in elemSet
  <2>1. list' = Ring!Remove(list, proc[p].old) /\ proc[p].old \in Entry
        /\ Linking(list, proc[p].old)
    BY <1>2, <1>3 DEF RemoveList, StoreShape, LinksOk
  <2>2. Closed(list', Made) /\ StillLinking(list, list')
    BY <1>2, <2>1, RemoveClosed
  <2>. QED BY <1>1, <2>2 DEF StoreShape, LinksOk, StillLinking, Linking
<1>4. CASE proc[p].old \notin elemSet
  BY <1>1, <1>4 DEF RemoveList, StoreShape, LinksOk, StillLinking
<1>. QED BY <1>3, <1>4

LEMMA RemoveListShape ==
    ASSUME PayloadInv, StoreShape, NEW h \in Handler, RemoveList(h)
    PROVE  StoreShape'
<1>1. /\ UNCHANGED <<made, res, items, elemSet, mem>> /\ Made' = Made
      /\ LinksOk' /\ StillLinking(list, list')
  BY RemoveListLinks, HandlerFacts
<1>2. proc[h].pc = "rmList"
  BY DEF RemoveList, At
<1>3. Cached' \subseteq Cached \cup {proc[h].new} /\ Keyed'
  BY <1>1 DEF StoreShape, Cached, Keyed
<1>4. /\ \A p \in Proc \ {h} : proc'[p] = proc[p]
      /\ proc'[h].pc = "rmMap" /\ proc'[h].new = proc[h].new
      /\ proc'[h].delta = proc[h].delta
  BY GotoFields DEF RemoveList
<1>5. Sound(proc[h])'
  BY <1>1, <1>2, <1>4 DEF StoreShape, Sound, Inserted, Cached
<1>. QED BY <1>1, <1>3, <1>4, <1>5, HandlerMoves DEF StoreShape

LEMMA AfterRemoveFields ==
    ASSUME PayloadInv, NEW h \in Handler, AfterRemove(h)
    PROVE  /\ \A p \in Proc \ {h} : proc'[p] = proc[p]
           /\ proc'[h].pc = "admit" /\ proc'[h].new = proc[h].new /\ proc'[h].delta = 0
<1>1. h # Evictor
  BY StorageAssumption
<1>. QED BY <1>1, HandlerFacts DEF AfterRemove, HandlerState, Shape

LEMMA RemoveMapShape ==
    ASSUME PayloadInv, StoreShape, NEW h \in Handler, RemoveMap(h)
    PROVE  StoreShape'
<1>. DEFINE k == KeyOf[res[proc[h].old]]
<1>1. /\ UNCHANGED <<made, res, list, elemSet, mem>> /\ Made' = Made
      /\ proc[h].pc = "rmMap" /\ proc[h].old \in Made /\ k \in Key
  BY HandlerFacts, EntryFacts DEF RemoveMap, At, entries, Made, Holds
<1>2. LinksOk' /\ StillLinking(list, list')
  BY <1>1 DEF StoreShape, LinksOk, StillLinking
<1>3. CASE items[k] = Nil
  <2>1. AfterRemove(h) /\ UNCHANGED items
    BY <1>3 DEF RemoveMap
  <2>2. Sound(proc[h])'
    BY <1>1, <2>1, AfterRemoveFields DEF StoreShape, Sound, Inserted, Cached
  <2>. QED BY <1>1, <2>1, <2>2, AfterRemoveFields, PlaceMoves DEF StoreShape
<1>4. CASE items[k] # Nil
  <2>1. /\ \A p \in Proc \ {h} : proc'[p] = proc[p]
        /\ proc'[h].pc = "rmMem" /\ proc'[h].new = proc[h].new
    BY <1>4, HandlerFacts DEF RemoveMap, Shape, HandlerState
  <2>2. Cached' \subseteq Cached /\ Keyed'
    BY <1>1, <1>4, HandlerFacts DEF RemoveMap, Cached, Keyed, StoreShape, Shape
  <2>3. Sound(proc[h])'
    BY <1>1, <2>1, <2>2 DEF StoreShape, Sound, Inserted
  <2>. QED BY <1>1, <1>2, <2>1, <2>2, <2>3, HandlerMoves DEF StoreShape
<1>. QED BY <1>3, <1>4

LEMMA RemoveCountShape ==
    ASSUME PayloadInv, StoreShape, NEW h \in Handler, RemoveCount(h)
    PROVE  StoreShape'
<1>1. /\ UNCHANGED <<made, res, items, list, elemSet>> /\ proc[h].pc = "rmMem" /\ AfterRemove(h)
  BY DEF RemoveCount, At, entries
<1>2. mem' \in Int
  BY HandlerFacts DEF RemoveCount, HandlerState, StoreShape
<1>3. Sound(proc[h])'
  BY <1>1, AfterRemoveFields DEF StoreShape, Sound, Inserted, Cached
<1>. QED BY <1>1, <1>2, <1>3, AfterRemoveFields, PlaceMoves

LEMMA SetStartShape ==
    ASSUME PayloadInv, StoreShape, NEW h \in Handler, NEW r \in Resource, NEW v \in Version,
           SetStart(h, r, v)
    PROVE  StoreShape'
<1>. DEFINE e == made + 1
<1>1. /\ UNCHANGED <<items, list, elemSet, mem>> /\ Shape
      /\ Made' = Made \cup {e} /\ e \notin Made /\ e # Nil
      /\ \A d \in Made : res'[d] = res[d]
  <2>1. made \in Nat /\ e \in Entry
    BY HandlerFacts, StorageAssumption DEF SetStart, Shape, Entry
  <2>2. Made' = Made \cup {e} /\ e \notin Made
    BY <2>1 DEF SetStart, Made
  <2>3. \A d \in Made : res'[d] = res[d]
    BY <2>2 DEF SetStart, PayloadInv, Shape
  <2>. QED BY <2>1, <2>2, <2>3, RingFacts, HandlerFacts DEF SetStart
<1>2. /\ \A p \in Proc \ {h} : proc'[p] = proc[p]
      /\ proc'[h] = [Idle EXCEPT !.pc = "find", !.new = e]
  BY HandlerFacts DEF SetStart, Shape
<1>3. proc'[h].pc = "find" /\ proc'[h].new = e /\ proc'[h].delta = 0
  BY <1>2 DEF Idle
<1>. HIDE DEF e
<1>4. Cached' = Cached /\ Cached \subseteq Made
  BY <1>1, CachedMade DEF Cached
<1>5. Keyed'
  BY <1>1, <1>4 DEF StoreShape, Keyed, Cached
<1>6. LinksOk'
  BY <1>1 DEF StoreShape, LinksOk, Closed
<1>7. EvictorOk'
  <2>1. proc'[Evictor] = proc[Evictor]
    BY <1>2, StorageAssumption DEF Proc
  <2>2. EvictorState \subseteq EvictorState'
    BY <1>1 DEF EvictorState
  <2>. QED BY <1>1, <2>1, <2>2 DEF StoreShape, EvictorOk
<1>8. \A g \in Handler : g # h => proc'[g] = proc[g] /\ proc[g].new # e
  BY <1>1, <1>2, HandlerFacts DEF Proc, HandlerState
<1>9. ASSUME NEW g \in Handler PROVE Sound(proc[g])'
  <2>1. CASE g = h
    BY <1>1, <1>3, <1>4, <2>1 DEF Sound, Inserted
  <2>2. CASE g # h
    BY <1>1, <1>4, <1>8, <2>2 DEF StoreShape, Sound
  <2>. QED BY <2>1, <2>2
<1>10. NewOnce'
  BY <1>3, <1>8 DEF StoreShape, NewOnce
<1>. QED BY <1>1, <1>5, <1>6, <1>7, <1>9, <1>10 DEF StoreShape


\* A step of the evictor.
LEMMA EvictorMoves ==
    ASSUME PayloadInv, StoreShape, \A h \in Handler : proc'[h] = proc[h],
           UNCHANGED <<made, res, elemSet>>, Cached' \subseteq Cached, Keyed',
           StillLinking(list, list'), LinksOk', mem' \in Int, EvictorOk'
    PROVE  StoreShape'
<1>1. ASSUME NEW g \in Handler PROVE Sound(proc[g])'
  <2>1. proc'[g] = proc[g] /\ Sound(proc[g])
    BY DEF StoreShape
  <2>2. \A x : Sound(x) /\ (x.new # Nil \/ x.new = Nil) => Sound(x)'
    BY SoundKeeps
  <2>3. PICK x : x = proc[g]
    OBVIOUS
  <2>4. Sound(x)'
    BY <2>1, <2>2, <2>3
  <2>. QED BY <2>1, <2>3, <2>4 DEF Sound
<1>2. NewOnce'
  BY DEF StoreShape, NewOnce
<1>. QED BY <1>1, <1>2 DEF StoreShape

\* The evictor's own state after a step that takes it to s.
LEMMA EvictorGoes ==
    ASSUME PayloadInv, NEW s, proc' = [proc EXCEPT ![Evictor] = s], made' = made,
           s \in EvictorState, s.pc \in Evicting => s.old \in Made, s.pc # "rmMem" => s.delta = 0
    PROVE  EvictorOk' /\ \A h \in Handler : proc'[h] = proc[h]
<1>1. EvictorState' = EvictorState /\ Made' = Made
  BY DEF EvictorState, Made
<1>2. proc'[Evictor] = s /\ \A h \in Handler : proc'[h] = proc[h]
  BY StorageAssumption DEF PayloadInv, Shape, Proc
<1>. QED BY <1>1, <1>2 DEF EvictorOk

LEMMA EvictorGoto ==
    ASSUME PayloadInv, StoreShape, NEW pc, Goto(Evictor, pc), made' = made,
           pc \in {"idle", "outer", "len", "inner", "next", "rmMap"},
           pc = "rmMap" => proc[Evictor].old \in Made, proc[Evictor].pc # "rmMem"
    PROVE  EvictorOk' /\ \A h \in Handler : proc'[h] = proc[h]
<1>. DEFINE s == [proc[Evictor] EXCEPT !.pc = pc]
<1>1. proc[Evictor] \in EvictorState /\ proc[Evictor].delta = 0
  BY DEF StoreShape, EvictorOk
<1>2. s \in EvictorState
  BY <1>1, SMT DEF EvictorState, Evicting
<1>3. s.pc = pc /\ s.old = proc[Evictor].old /\ s.delta = 0
  BY <1>1 DEF EvictorState
<1>4. proc' = [proc EXCEPT ![Evictor] = s]
  BY DEF Goto, PayloadInv, Shape
<1>. HIDE DEF s
<1>. QED BY <1>2, <1>3, <1>4, EvictorGoes DEF Evicting

LEMMA EvictorDone ==
    ASSUME PayloadInv, Done(Evictor), made' = made
    PROVE  EvictorOk' /\ \A h \in Handler : proc'[h] = proc[h]
<1>1. Idle \in EvictorState
  BY SMT DEF Idle, EvictorState, Evicting
<1>2. Idle.pc = "idle" /\ Idle.delta = 0
  BY DEF Idle
<1>. QED BY <1>1, <1>2, EvictorGoes DEF Done, Evicting

LEMMA EvictorAfterRemove ==
    ASSUME PayloadInv, StoreShape, AfterRemove(Evictor), made' = made
    PROVE  EvictorOk' /\ \A h \in Handler : proc'[h] = proc[h]
<1>. DEFINE s == [proc[Evictor] EXCEPT !.pc = "inner", !.old = Nil, !.delta = 0, !.off = @ + 1]
<1>1. proc[Evictor] \in EvictorState
  BY DEF StoreShape, EvictorOk
<1>2. s \in EvictorState
  <2>1. "inner" \in {"idle", "outer", "len", "inner", "next"} \cup Evicting /\ 0 \in Int
    BY SMT
  <2>2. proc[Evictor].off + 1 \in Int
    BY <1>1 DEF EvictorState
  <2>. QED BY <1>1, <2>1, <2>2, Zenon DEF EvictorState
<1>3. s.pc = "inner" /\ s.delta = 0
  BY <1>1 DEF EvictorState
<1>4. proc' = [proc EXCEPT ![Evictor] = s]
  BY DEF AfterRemove, PayloadInv, Shape
<1>. HIDE DEF s
<1>. QED BY <1>2, <1>3, <1>4, EvictorGoes DEF Evicting

LEMMA EvictShape ==
    ASSUME PayloadInv, StoreShape, EvictTick \/ EvictStep
    PROVE  StoreShape'
<1>0. EvictorOk /\ LinksOk /\ Keyed /\ mem \in Int /\ StillLinking(list, list)
  BY DEF StoreShape, StillLinking
<1>1. ASSUME UNCHANGED <<made, res, items, list, elemSet>>, mem' \in Int, EvictorOk',
             \A h \in Handler : proc'[h] = proc[h]
      PROVE  StoreShape'
  <2>1. Cached' \subseteq Cached /\ Keyed' /\ LinksOk' /\ StillLinking(list, list')
    BY <1>0, <1>1 DEF Cached, Keyed, LinksOk, Made
  <2>. QED BY <1>1, <2>1, EvictorMoves
<1>2. CASE EvictTick
  BY <1>0, <1>1, <1>2, EvictorGoto DEF EvictTick, At, entries
<1>3. CASE EvictOuter
  <2>1. /\ proc[Evictor].pc = "outer" /\ (Goto(Evictor, "len") \/ Done(Evictor))
        /\ UNCHANGED <<made, res, items, list, elemSet, mem>>
    BY <1>3 DEF EvictOuter, At, entries
  <2>. QED BY <1>0, <1>1, <2>1, EvictorGoto, EvictorDone
<1>4. CASE EvictLen
  <2>. DEFINE pc == IF list.len = 0 THEN "outer" ELSE "inner"
              s  == [proc[Evictor] EXCEPT !.pc = pc, !.off = 0]
  <2>1. pc \in {"outer", "inner"}
    OBVIOUS
  <2>2. proc' = [proc EXCEPT ![Evictor] = s] /\ proc[Evictor].pc = "len"
    BY <1>4 DEF EvictLen, At, PayloadInv, Shape
  <2>. HIDE DEF pc
  <2>3. s \in EvictorState /\ s.pc = pc /\ s.delta = 0
    <3>1. proc[Evictor] \in EvictorState /\ proc[Evictor].delta = 0
      BY <1>0, <2>2 DEF EvictorOk
    <3>2. pc \in {"idle", "outer", "len", "inner", "next"} \cup Evicting /\ 0 \in Int
      BY <2>1
    <3>3. s \in EvictorState
      BY <3>1, <3>2, Zenon DEF EvictorState
    <3>. QED BY <3>1, <3>3 DEF EvictorState
  <2>. HIDE DEF s
  <2>4. EvictorOk' /\ \A h \in Handler : proc'[h] = proc[h]
    BY <1>4, <2>1, <2>2, <2>3, EvictorGoes DEF EvictLen, entries, Evicting
  <2>. QED BY <1>0, <1>1, <1>4, <2>4 DEF EvictLen, entries
<1>5. CASE EvictInner
  <2>1. /\ proc[Evictor].pc = "inner" /\ (Goto(Evictor, "next") \/ Goto(Evictor, "outer"))
        /\ UNCHANGED <<made, res, items, list, elemSet, mem>>
    BY <1>5 DEF EvictInner, At, entries
  <2>. QED BY <1>0, <1>1, <2>1, EvictorGoto
<1>6. CASE EvictNext
  <2>1. proc[Evictor].pc = "next" /\ UNCHANGED <<made, res, items, list, elemSet, mem>>
    BY <1>6 DEF EvictNext, At, entries
  <2>2. PICK e : e = Ring!NextAt(list, proc[Evictor].off)
    OBVIOUS
  <2>3. e \in Made \cup {Root, Nil}
    <3>1. proc[Evictor].off \in Int /\ Made \in SUBSET Entry /\ Closed(list, Made)
      BY <1>0, EntryFacts DEF EvictorOk, EvictorState, PayloadInv, LinksOk
    <3>. QED BY <2>2, <3>1, NextAtClosed
  <2>4. CASE UNCHANGED proc
    <3>1. EvictorOk'
      BY <1>0, <2>1, <2>4 DEF EvictorOk, EvictorState, Made
    <3>. QED BY <1>0, <1>1, <2>1, <2>4, <3>1
  <2>5. CASE Goto(Evictor, "outer")
    BY <1>0, <1>1, <2>1, <2>5, EvictorGoto
  <2>6. CASE e \in Made /\ proc' = [proc EXCEPT ![Evictor].pc = "rmList", ![Evictor].old = e]
    <3>. DEFINE s == [proc[Evictor] EXCEPT !.pc = "rmList", !.old = e]
    <3>1. proc' = [proc EXCEPT ![Evictor] = s]
      BY <2>6 DEF PayloadInv, Shape
    <3>2. s \in EvictorState /\ s.pc = "rmList" /\ s.old = e /\ s.delta = 0
      <4>1. proc[Evictor] \in EvictorState /\ proc[Evictor].delta = 0
        BY <1>0, <2>1 DEF EvictorOk
      <4>2. "rmList" \in {"idle", "outer", "len", "inner", "next"} \cup Evicting
        BY SMT DEF Evicting
      <4>3. s \in EvictorState
        BY <2>6, <4>1, <4>2, Zenon DEF EvictorState
      <4>. QED BY <4>1, <4>3 DEF EvictorState
    <3>. HIDE DEF s
    <3>3. EvictorOk' /\ \A h \in Handler : proc'[h] = proc[h]
      BY <2>1, <2>6, <3>1, <3>2, EvictorGoes DEF Evicting
    <3>. QED BY <1>0, <1>1, <2>1, <3>3
  <2>. QED BY <1>6, <2>2, <2>3, <2>4, <2>5, <2>6 DEF EvictNext
<1>7. CASE RemoveList(Evictor)
  <2>1. /\ UNCHANGED <<made, res, items, elemSet, mem>> /\ LinksOk' /\ StillLinking(list, list')
        /\ proc[Evictor].pc = "rmList" /\ Goto(Evictor, "rmMap")
    BY <1>7, RemoveListLinks DEF RemoveList, At, Proc
  <2>2. EvictorOk' /\ \A h \in Handler : proc'[h] = proc[h]
    BY <1>0, <2>1, EvictorGoto DEF EvictorOk, Evicting
  <2>3. Cached' \subseteq Cached /\ Keyed'
    BY <1>0, <2>1 DEF Cached, Keyed
  <2>. QED BY <1>0, <2>1, <2>2, <2>3, EvictorMoves
<1>8. CASE RemoveMap(Evictor)
  <2>. DEFINE k == KeyOf[res[proc[Evictor].old]]
  <2>1. /\ UNCHANGED <<made, res, list, elemSet, mem>> /\ proc[Evictor].pc = "rmMap"
        /\ proc[Evictor].old \in Made
    BY <1>0, <1>8 DEF RemoveMap, At, entries, EvictorOk, Evicting
  <2>2. k \in Key /\ items[k] \in Made \cup {Nil} /\ Shape
    BY <2>1, EntryFacts DEF PayloadInv
  <2>3. CASE items[k] = Nil
    BY <1>0, <1>1, <1>8, <2>1, <2>3, EvictorAfterRemove DEF RemoveMap
  <2>4. CASE items[k] # Nil
    <3>. DEFINE s == [proc[Evictor] EXCEPT !.pc = "rmMem", !.delta = -Weight(items[k])]
    <3>1. proc' = [proc EXCEPT ![Evictor] = s] /\ items' = [items EXCEPT ![k] = Nil]
      BY <1>8, <2>2, <2>4 DEF RemoveMap, Shape
    <3>2. -Weight(items[k]) \in Int
      BY <2>2, <2>4, EntryFacts
    <3>. HIDE DEF k
    <3>3. s \in EvictorState /\ s.pc = "rmMem" /\ s.old = proc[Evictor].old
      <4>1. proc[Evictor] \in EvictorState
        BY <1>0 DEF EvictorOk
      <4>2. "rmMem" \in {"idle", "outer", "len", "inner", "next"} \cup Evicting
        BY SMT DEF Evicting
      <4>3. s \in EvictorState
        BY <3>2, <4>1, <4>2, Zenon DEF EvictorState
      <4>. QED BY <4>1, <4>3 DEF EvictorState
    <3>. HIDE DEF s
    <3>4. EvictorOk' /\ \A h \in Handler : proc'[h] = proc[h]
      BY <2>1, <3>1, <3>3, EvictorGoes
    <3>5. Cached' \subseteq Cached /\ Keyed'
      BY <1>0, <2>1, <2>2, <3>1 DEF Cached, Keyed, Shape
    <3>6. LinksOk' /\ StillLinking(list, list')
      BY <1>0, <2>1 DEF LinksOk, Made
    <3>. QED BY <1>0, <2>1, <3>4, <3>5, <3>6, EvictorMoves
  <2>. QED BY <2>3, <2>4
<1>9. CASE RemoveCount(Evictor)
  <2>1. /\ UNCHANGED <<made, res, items, list, elemSet>> /\ AfterRemove(Evictor)
        /\ mem' = mem + proc[Evictor].delta
    BY <1>9 DEF RemoveCount, entries
  <2>2. mem' \in Int
    BY <1>0, <2>1 DEF EvictorOk, EvictorState
  <2>. QED BY <1>1, <2>1, <2>2, EvictorAfterRemove
<1>. QED
  BY <1>2, <1>3, <1>4, <1>5, <1>6, <1>7, <1>8, <1>9 DEF EvictStep, RemoveStep

\* Refreshes, the tick and Clear leave the processes alone.
LEMMA RestShape ==
    ASSUME PayloadInv, StoreShape, UNCHANGED <<proc, made, res, list, elemSet>>,
           Cached' \subseteq Cached, Keyed', mem' \in Int
    PROVE  StoreShape'
<1>1. EvictorOk'
  BY DEF StoreShape, EvictorOk, EvictorState, Made
<1>2. LinksOk' /\ StillLinking(list, list')
  BY DEF StoreShape, LinksOk, Made, StillLinking
<1>. QED BY <1>1, <1>2, EvictorMoves

LEMMA StoreStep ==
    ASSUME PayloadInv, StoreShape, [Next]_vars
    PROVE  StoreShape'
<1>1. ASSUME NEW h \in Handler, Request(h) PROVE StoreShape'
  BY <1>1, GetHitShape, SetStartShape DEF Request
<1>2. ASSUME NEW h \in Handler, HandlerStep(h) PROVE StoreShape'
  BY <1>2, SetFindShape, PlaceSteps, MoveShape, SetInsertShape, SetPushShape, SetElemShape,
     RemoveListShape, RemoveMapShape, RemoveCountShape DEF HandlerStep, RemoveStep
<1>3. ASSUME NEW e \in Entry, RefreshStart(e) \/ RefreshEnd(e) PROVE StoreShape'
  <2>1. UNCHANGED <<proc, made, res, items, list, elemSet, mem>>
    BY <1>3 DEF RefreshStart, RefreshEnd, RefreshStore, RefreshFail, entries
  <2>2. Cached' \subseteq Cached /\ Keyed' /\ mem' \in Int
    BY <2>1 DEF Cached, Keyed, StoreShape
  <2>. QED BY <2>1, <2>2, RestShape
<1>4. CASE MemTick \/ UNCHANGED vars
  <2>1. UNCHANGED <<proc, made, res, items, list, elemSet, mem>>
    BY <1>4 DEF MemTick, vars, entries
  <2>2. Cached' \subseteq Cached /\ Keyed' /\ mem' \in Int
    BY <2>1 DEF Cached, Keyed, StoreShape
  <2>. QED BY <2>1, <2>2, RestShape
<1>5. CASE Clear
  <2>1. UNCHANGED <<proc, made, res, list, elemSet>> /\ mem' = 0
    BY <1>5 DEF Clear, entries
  <2>2. Cached' = {} /\ Keyed'
    BY <1>5 DEF Clear, Cached, Keyed
  <2>. QED BY <2>1, <2>2, RestShape
<1>. QED BY <1>1, <1>2, <1>3, <1>4, <1>5, EvictShape DEF Next


(***************************************************************************)
(* The counter, when all payloads weigh the same and nothing was cleared.  *)
(***************************************************************************)
EvenWeights == \A v, w \in Version : WeightOf[v] = WeightOf[w]
W == IF Version = {} THEN 0 ELSE WeightOf[CHOOSE v \in Version : TRUE]
EvenOwed(s) == IF s.pc # "insMem" THEN s.delta ELSE IF s.old = Nil THEN W ELSE 0

Stored == SumFunctionOnSet([e \in Entry |-> W], Cached)
Balanced == mem + SumFunctionOnSet([p \in Proc |-> EvenOwed(proc[p])], Proc) = Stored

LEMMA EvenFacts ==
    ASSUME EvenWeights, PayloadInv, StoreShape
    PROVE  /\ W \in Int /\ \A e \in Made : Weight(e) = W
           /\ IsFiniteSet(Proc) /\ IsFiniteSet(Cached) /\ Cached \subseteq Made /\ Made \subseteq Entry
           /\ \A p \in Proc : EvenOwed(proc[p]) \in Int
           /\ \A p \in Proc : Owed(p) = EvenOwed(proc[p])
<1>1. W \in Int /\ \A v \in Version : WeightOf[v] = W
  BY StorageAssumption DEF W, EvenWeights
<1>2. \A e \in Made : Weight(e) = W
  BY <1>1 DEF PayloadInv, Shape, Weight
<1>3. IsFiniteSet(Proc)
  BY FS_AddElement, StorageAssumption DEF Proc
<1>4. Cached \subseteq Made /\ Made \subseteq Entry /\ IsFiniteSet(Cached)
  <2>1. Cached \subseteq Made /\ Made \subseteq Entry
    BY CachedMade, EntryFacts DEF PayloadInv
  <2>2. IsFiniteSet(1..made)
    BY FS_Interval DEF PayloadInv, Shape
  <2>. QED BY <2>1, <2>2, FS_Subset DEF Made
<1>5. ASSUME NEW p \in Proc
      PROVE  EvenOwed(proc[p]) \in Int /\ Owed(p) = EvenOwed(proc[p])
  <2>1. CASE p = Evictor
    BY <2>1, SMT DEF StoreShape, EvictorOk, EvictorState, Evicting, EvenOwed, Owed
  <2>2. CASE p \in Handler
    <3>1. proc[p].delta \in Int
      BY <2>2, HandlerFacts DEF HandlerState
    <3>2. proc[p].pc = "insMem" => proc[p].new \in Made /\ proc[p].old \in Made \cup {Nil}
      BY <2>2, HandlerFacts DEF HandlerState, Holds, Building
    <3>. QED BY <1>1, <1>2, <3>1, <3>2 DEF EvenOwed, Owed
  <2>. QED BY <2>1, <2>2 DEF Proc
<1>. QED BY <1>1, <1>2, <1>3, <1>4, <1>5

LEMMA ExactIsBalanced ==
    ASSUME EvenWeights, PayloadInv, StoreShape
    PROVE  MemExact <=> Balanced
<1>1. SumFunctionOnSet([p \in Proc |-> Owed(p)], Proc)
        = SumFunctionOnSet([p \in Proc |-> EvenOwed(proc[p])], Proc)
  <2>. DEFINE f == [p \in Proc |-> Owed(p)]
              g == [p \in Proc |-> EvenOwed(proc[p])]
  <2>1. IsFiniteSet(Proc) /\ \A x \in Proc : f[x] = g[x]
    BY EvenFacts
  <2>. HIDE DEF f, g
  <2>2. SumFunctionOnSet(f, Proc) = SumFunctionOnSet(g, Proc)
    BY <2>1, SumSame
  <2>. QED BY <2>2 DEF f, g
<1>2. SumFunctionOnSet([e \in Made |-> Weight(e)], Cached) = Stored
  <2>. DEFINE f == [e \in Made |-> Weight(e)]
              g == [e \in Entry |-> W]
  <2>1. IsFiniteSet(Cached) /\ \A x \in Cached : f[x] = g[x]
    BY EvenFacts
  <2>. HIDE DEF f, g
  <2>2. SumFunctionOnSet(f, Cached) = SumFunctionOnSet(g, Cached)
    BY <2>1, SumSame
  <2>. QED BY <2>2 DEF f, g, Stored
<1>. QED BY <1>1, <1>2 DEF MemExact, Balanced

\* What a step of process p does to mem and what p owes is what it does to the map.
LEMMA BalanceKeeps ==
    ASSUME EvenWeights, PayloadInv, StoreShape, Balanced, NEW p \in Proc, mem' \in Int,
           \A q \in Proc \ {p} : proc'[q] = proc[q],
           EvenOwed(proc'[p]) \in Int, NEW n \in Int, Stored' = Stored + n,
           mem' + EvenOwed(proc'[p]) = mem + EvenOwed(proc[p]) + n
    PROVE  Balanced'
<1>. DEFINE f == [q \in Proc |-> EvenOwed(proc[q])]
            g == [q \in Proc |-> EvenOwed(proc'[q])]
<1>1. \A q \in Proc : f[q] = EvenOwed(proc[q]) /\ g[q] = EvenOwed(proc'[q])
  OBVIOUS
<1>2. IsFiniteSet(Proc) /\ \A q \in Proc : f[q] \in Int /\ g[q] \in Int
  BY EvenFacts
<1>3. \A q \in Proc \ {p} : f[q] = g[q]
  BY <1>1
<1>4. Balanced <=> mem + SumFunctionOnSet(f, Proc) = Stored
  BY DEF Balanced
<1>5. Balanced' <=> mem' + SumFunctionOnSet(g, Proc) = Stored'
  BY DEF Balanced, EvenOwed
<1>. HIDE DEF f, g
<1>6. /\ SumFunctionOnSet(g, Proc) = SumFunctionOnSet(f, Proc) - f[p] + g[p]
      /\ SumFunctionOnSet(f, Proc) \in Int
  BY <1>2, <1>3, SumChange, SumInt
<1>7. mem \in Int /\ Stored \in Int
  BY <1>4, <1>6 DEF StoreShape
<1>. QED BY <1>1, <1>2, <1>4, <1>5, <1>6, <1>7

\* Most steps do neither.
LEMMA BalanceUnmoved ==
    ASSUME EvenWeights, PayloadInv, StoreShape, Balanced, UNCHANGED <<mem, items>>,
           NEW p \in Proc, \A q \in Proc \ {p} : proc'[q] = proc[q],
           proc'[p].pc # "insMem" /\ proc[p].pc # "insMem", proc'[p].delta = proc[p].delta
    PROVE  Balanced'
<1>1. Stored' = Stored /\ Stored \in Int
  <2>1. Cached' = Cached
    BY DEF Cached
  <2>. DEFINE g == [e \in Entry |-> W]
  <2>2. IsFiniteSet(Cached) /\ \A x \in Cached : g[x] \in Int
    BY EvenFacts
  <2>. HIDE DEF g
  <2>3. SumFunctionOnSet(g, Cached) \in Int
    BY <2>2, SumInt
  <2>. QED BY <2>1, <2>3 DEF g, Stored
<1>2. EvenOwed(proc'[p]) = EvenOwed(proc[p]) /\ EvenOwed(proc[p]) \in Int /\ mem \in Int
  BY EvenFacts DEF EvenOwed, StoreShape
<1>. QED BY <1>1, <1>2, BalanceKeeps

\* The weight of the map when an entry comes or goes.
LEMMA StoredChanges ==
    ASSUME EvenWeights, PayloadInv, StoreShape
    PROVE  /\ Stored \in Int
           /\ \A e \in Cached : Cached' = Cached \ {e} => Stored' = Stored - W
           /\ \A e \in Entry \ Cached : Cached' = Cached \cup {e} => Stored' = Stored + W
           /\ \A d \in Cached : \A e \in Entry \ Cached :
                 Cached' = (Cached \ {d}) \cup {e} => Stored' = Stored
<1>. DEFINE g == [e \in Entry |-> W]
            S(c) == SumFunctionOnSet(g, c)
<1>1. IsFiniteSet(Cached) /\ Cached \subseteq Entry /\ W \in Int /\ \A x \in Entry : g[x] = W
  BY EvenFacts
<1>2. Stored = S(Cached) /\ Stored' = S(Cached')
  BY DEF Stored
<1>. HIDE DEF g
<1>3. ASSUME NEW c \in SUBSET Entry, IsFiniteSet(c) PROVE S(c) \in Int
  <2>1. \A x \in c : g[x] \in Int
    BY <1>1
  <2>. QED BY <1>3, <2>1, SumInt
<1>4. ASSUME NEW c \in SUBSET Entry, IsFiniteSet(c), NEW e \in c
      PROVE  S(c) = W + S(c \ {e}) /\ IsFiniteSet(c \ {e}) /\ c \ {e} \in SUBSET Entry
  <2>1. \A x \in c : g[x] \in Int
    BY <1>1
  <2>2. S(c) = g[e] + S(c \ {e})
    BY <1>4, <2>1, SumRemove
  <2>. QED BY <1>1, <1>4, <2>2, FS_Subset
<1>5. ASSUME NEW c \in SUBSET Entry, IsFiniteSet(c), NEW e \in Entry \ c
      PROVE  S(c \cup {e}) = W + S(c)
  <2>1. \A x \in c \cup {e} : g[x] \in Int
    BY <1>1
  <2>2. S(c \cup {e}) = g[e] + S(c)
    BY <1>5, <2>1, SumAdd
  <2>. QED BY <1>1, <2>2
<1>. HIDE DEF S
<1>6. Stored \in Int
  BY <1>1, <1>2, <1>3
<1>7. ASSUME NEW e \in Cached, Cached' = Cached \ {e} PROVE Stored' = Stored - W
  <2>1. /\ S(Cached) = W + S(Cached \ {e}) /\ IsFiniteSet(Cached \ {e})
        /\ Cached \ {e} \in SUBSET Entry
    BY <1>1, <1>4
  <2>2. S(Cached \ {e}) \in Int
    BY <1>3, <2>1
  <2>3. Stored' = S(Cached \ {e})
    BY <1>2, <1>7
  <2>. QED BY <1>1, <1>2, <2>1, <2>2, <2>3
<1>8. ASSUME NEW e \in Entry \ Cached, Cached' = Cached \cup {e} PROVE Stored' = Stored + W
  BY <1>1, <1>2, <1>3, <1>5, <1>8
<1>9. ASSUME NEW d \in Cached, NEW e \in Entry \ Cached, Cached' = (Cached \ {d}) \cup {e}
      PROVE  Stored' = Stored
  <2>1. /\ S(Cached) = W + S(Cached \ {d}) /\ IsFiniteSet(Cached \ {d})
        /\ Cached \ {d} \in SUBSET Entry
    BY <1>1, <1>4
  <2>2. S((Cached \ {d}) \cup {e}) = W + S(Cached \ {d})
    BY <1>5, <2>1
  <2>. QED BY <1>2, <1>9, <2>1, <2>2
<1>. QED BY <1>6, <1>7, <1>8, <1>9


LEMMA InsertBalance ==
    ASSUME EvenWeights, PayloadInv, StoreShape, Balanced, NEW h \in Handler, SetInsert(h)
    PROVE  Balanced'
<1>. DEFINE new == proc[h].new
            k   == KeyOf[res[new]]
<1>1. mem' = mem /\ proc[h].pc = "insert" /\ new \in Made /\ k \in Key /\ h \in Proc /\ Shape
  BY HandlerFacts, EntryFacts DEF SetInsert, At, Holds, Building
<1>2. /\ items' = [items EXCEPT ![k] = new] /\ DOMAIN items = Key
      /\ items[k] \in Made \cup {Nil} /\ new # Nil /\ new \in Entry
  BY <1>1, EntryFacts DEF SetInsert, Shape
<1>3. new \notin Cached /\ proc[h].delta = 0
  BY <1>1, <1>2 DEF StoreShape, Sound, Inserted
<1>4. /\ \A p \in Proc \ {h} : proc'[p] = proc[p]
      /\ proc'[h].pc = "insMem" /\ proc'[h].old = items[k]
  BY <1>1, HandlerFacts DEF SetInsert, Shape, HandlerState
<1>. HIDE DEF k, new
<1>5. EvenOwed(proc[h]) = 0 /\ W \in Int /\ mem \in Int /\ Stored \in Int
  BY <1>1, <1>3, EvenFacts, StoredChanges DEF EvenOwed, StoreShape
<1>6. CASE items[k] = Nil
  <2>1. Cached' = Cached \cup {new}
    BY <1>1, <1>2, <1>6 DEF Cached
  <2>2. Stored' = Stored + W
    BY <1>2, <1>3, <2>1, StoredChanges
  <2>3. EvenOwed(proc'[h]) = W
    BY <1>4, <1>6 DEF EvenOwed
  <2>4. mem' \in Int /\ mem' + EvenOwed(proc'[h]) = mem + EvenOwed(proc[h]) + W
    BY <1>1, <1>5, <2>3
  <2>. QED BY <1>1, <1>4, <1>5, <2>2, <2>3, <2>4, BalanceKeeps
<1>7. CASE items[k] # Nil
  <2>1. items[k] \in Cached /\ \A j \in Key : items[j] = items[k] => j = k
    BY <1>1, <1>7 DEF Cached, StoreShape, Keyed
  <2>2. Cached' = (Cached \ {items[k]}) \cup {new}
    BY <1>1, <1>2, <2>1 DEF Cached
  <2>3. Stored' = Stored
    BY <1>2, <1>3, <2>1, <2>2, StoredChanges
  <2>4. EvenOwed(proc'[h]) = 0
    BY <1>4, <1>7 DEF EvenOwed
  <2>5. mem' \in Int /\ Stored' = Stored + 0 /\ mem' + EvenOwed(proc'[h]) = mem + EvenOwed(proc[h]) + 0
    BY <1>1, <1>5, <2>3, <2>4
  <2>. QED BY <1>1, <1>4, <1>5, <2>4, <2>5, BalanceKeeps
<1>. QED BY <1>6, <1>7

LEMMA CountBalance ==
    ASSUME EvenWeights, PayloadInv, StoreShape, Balanced, NEW h \in Handler, SetCount(h)
    PROVE  Balanced'
<1>1. /\ proc[h].pc = "insMem" /\ proc[h].new \in Made /\ proc[h].old \in Made \cup {Nil}
      /\ Goto(h, "push") /\ h \in Proc /\ Shape /\ proc[h].delta = 0
  BY HandlerFacts DEF SetCount, At, Holds, Building, HandlerState, StoreShape, Sound
<1>2. mem' = mem + EvenOwed(proc[h])
  <2>1. Weight(proc[h].new) = W /\ (proc[h].old # Nil => Weight(proc[h].old) = W) /\ W \in Int
    BY <1>1, EvenFacts
  <2>2. mem \in Int
    BY DEF StoreShape
  <2>. QED BY <1>1, <2>1, <2>2 DEF SetCount, EvenOwed
<1>3. /\ \A p \in Proc \ {h} : proc'[p] = proc[p]
      /\ proc'[h].pc = "push" /\ proc'[h].delta = 0
  BY <1>1, GotoFields
<1>4. EvenOwed(proc'[h]) = 0 /\ EvenOwed(proc[h]) \in Int /\ mem \in Int /\ Stored \in Int
  BY <1>1, <1>3, EvenFacts, StoredChanges DEF EvenOwed, StoreShape
<1>5. Stored' = Stored + 0
  <2>1. Cached' = Cached
    BY DEF SetCount, Cached
  <2>. QED BY <1>4, <2>1 DEF Stored
<1>6. mem' \in Int /\ mem' + EvenOwed(proc'[h]) = mem + EvenOwed(proc[h]) + 0
  BY <1>2, <1>4
<1>. QED BY <1>1, <1>3, <1>4, <1>5, <1>6, BalanceKeeps

\* Removes, of handlers and of the evictor.
LEMMA AfterRemoveOwes ==
    ASSUME PayloadInv, StoreShape, NEW p \in Proc, AfterRemove(p)
    PROVE  /\ \A q \in Proc \ {p} : proc'[q] = proc[q]
           /\ proc'[p].pc # "insMem" /\ proc'[p].delta = 0
<1>1. CASE p = Evictor
  BY <1>1 DEF AfterRemove, PayloadInv, Shape, StoreShape, EvictorOk, EvictorState
<1>2. CASE p \in Handler
  BY <1>2, AfterRemoveFields
<1>. QED BY <1>1, <1>2 DEF Proc

LEMMA ProcFacts ==
    ASSUME PayloadInv, StoreShape, NEW p \in Proc
    PROVE  /\ proc[p].delta \in Int /\ (proc[p].pc # "rmMem" => proc[p].delta = 0)
           /\ proc[p].pc = "rmMap" => proc[p].old \in Made
           /\ \A pc : Goto(p, pc) =>
                 /\ \A q \in Proc \ {p} : proc'[q] = proc[q]
                 /\ proc'[p].pc = pc /\ proc'[p].delta = proc[p].delta
<1>1. CASE p = Evictor
  BY <1>1, SMT DEF StoreShape, EvictorOk, EvictorState, Evicting, Goto, PayloadInv, Shape
<1>2. CASE p \in Handler
  <2>1. proc[p] \in HandlerState /\ Holds(proc[p]) /\ Sound(proc[p])
    BY <1>2, HandlerFacts DEF StoreShape
  <2>2. \A pc : Goto(p, pc) =>
                 /\ \A q \in Proc \ {p} : proc'[q] = proc[q]
                 /\ proc'[p].pc = pc /\ proc'[p].delta = proc[p].delta
    BY <1>2, GotoFields
  <2>. QED BY <2>1, <2>2 DEF HandlerState, Holds, Sound
<1>. QED BY <1>1, <1>2 DEF Proc

LEMMA RemoveBalance ==
    ASSUME EvenWeights, PayloadInv, StoreShape, Balanced, NEW p \in Proc, RemoveStep(p)
    PROVE  Balanced'
<1>1. CASE RemoveList(p)
  <2>1. UNCHANGED <<mem, items>> /\ proc[p].pc = "rmList" /\ Goto(p, "rmMap")
    BY <1>1 DEF RemoveList, At
  <2>. QED BY <2>1, ProcFacts, BalanceUnmoved
<1>2. CASE RemoveMap(p)
  <2>. DEFINE k == KeyOf[res[proc[p].old]]
  <2>1. mem' = mem /\ proc[p].pc = "rmMap" /\ proc[p].old \in Made /\ proc[p].delta = 0
    BY <1>2, ProcFacts DEF RemoveMap, At
  <2>2. k \in Key /\ items[k] \in Made \cup {Nil} /\ DOMAIN items = Key /\ DOMAIN proc = Proc
    BY <2>1, EntryFacts DEF PayloadInv, Shape
  <2>3. CASE items[k] = Nil
    <3>1. AfterRemove(p) /\ UNCHANGED <<mem, items>>
      BY <1>2, <2>3 DEF RemoveMap
    <3>. QED BY <2>1, <3>1, AfterRemoveOwes, BalanceUnmoved
  <2>4. CASE items[k] # Nil
    <3>1. /\ items' = [items EXCEPT ![k] = Nil]
          /\ proc' = [proc EXCEPT ![p].pc = "rmMem", ![p].delta = -Weight(items[k])]
      BY <1>2, <2>4 DEF RemoveMap
    <3>2. items[k] \in Made /\ Weight(items[k]) = W /\ W \in Int /\ mem \in Int /\ Stored \in Int
      BY <2>2, <2>4, EvenFacts, StoredChanges DEF StoreShape
    <3>. HIDE DEF k
    <3>3. /\ \A q \in Proc \ {p} : proc'[q] = proc[q]
          /\ proc'[p].pc = "rmMem" /\ proc'[p].delta = -W
      <4>1. \A d : [proc EXCEPT ![p].pc = "rmMem", ![p].delta = d][p]
                      = [proc[p] EXCEPT !.pc = "rmMem", !.delta = d]
        BY <2>2
      <4>2. proc[p] \in HandlerState \/ proc[p] \in EvictorState
        BY HandlerFacts DEF Proc, StoreShape, EvictorOk
      <4>3. DOMAIN proc[p] = {"pc", "new", "old", "off", "delta"}
        BY <4>2 DEF HandlerState, EvictorState
      <4>. QED BY <2>2, <3>1, <3>2, <4>1, <4>3
    <3>4. Cached' = Cached \ {items[k]} /\ items[k] \in Cached
      <4>1. items[k] \in Cached /\ \A j \in Key : items[j] = items[k] => j = k
        BY <2>2, <2>4 DEF Cached, StoreShape, Keyed
      <4>. QED BY <2>2, <3>1, <4>1 DEF Cached
    <3>5. Stored' = Stored - W
      BY <3>4, StoredChanges
    <3>6. /\ EvenOwed(proc'[p]) = -W /\ EvenOwed(proc[p]) = 0 /\ -W \in Int
      BY <2>1, <3>2, <3>3 DEF EvenOwed
    <3>7. /\ Stored' = Stored + (-W) /\ mem' \in Int
          /\ mem' + EvenOwed(proc'[p]) = mem + EvenOwed(proc[p]) + (-W)
      BY <2>1, <3>2, <3>5, <3>6
    <3>. QED BY <3>3, <3>6, <3>7, BalanceKeeps
  <2>. QED BY <2>3, <2>4
<1>3. CASE RemoveCount(p)
  <2>1. AfterRemove(p) /\ mem' = mem + proc[p].delta /\ proc[p].pc = "rmMem" /\ items' = items
    BY <1>3 DEF RemoveCount, At
  <2>2. /\ \A q \in Proc \ {p} : proc'[q] = proc[q]
        /\ proc'[p].pc # "insMem" /\ proc'[p].delta = 0 /\ proc[p].delta \in Int
    BY <2>1, AfterRemoveOwes, ProcFacts
  <2>3. EvenOwed(proc'[p]) = 0 /\ EvenOwed(proc[p]) = proc[p].delta /\ mem \in Int /\ Stored \in Int
    BY <2>1, <2>2, StoredChanges DEF EvenOwed, StoreShape
  <2>4. Stored' = Stored + 0
    <3>1. Cached' = Cached
      BY <2>1 DEF Cached
    <3>. QED BY <2>3, <3>1 DEF Stored
  <2>5. mem' \in Int /\ mem' + EvenOwed(proc'[p]) = mem + EvenOwed(proc[p]) + 0
    BY <2>1, <2>2, <2>3
  <2>. QED BY <2>2, <2>3, <2>4, <2>5, BalanceKeeps
<1>. QED BY <1>1, <1>2, <1>3 DEF RemoveStep


\* The other steps of a process add nothing to mem and leave the map alone.
LEMMA QuietBalance ==
    ASSUME EvenWeights, PayloadInv, StoreShape, Balanced, NEW p \in Proc,
           UNCHANGED <<mem, items>>, proc[p].pc \notin {"insMem", "rmMem"},
           \/ UNCHANGED proc
           \/ Done(p)
           \/ \E pc : pc # "insMem" /\ Goto(p, pc)
           \/ \E s : proc' = [proc EXCEPT ![p] = s] /\ s.pc # "insMem" /\ s.delta = 0
    PROVE  Balanced'
<1>1. proc[p].delta = 0 /\ DOMAIN proc = Proc
  BY ProcFacts DEF PayloadInv, Shape
<1>2. CASE UNCHANGED proc
  BY <1>2, BalanceUnmoved
<1>3. ASSUME NEW s, proc' = [proc EXCEPT ![p] = s], s.pc # "insMem", s.delta = 0
      PROVE  Balanced'
  BY <1>1, <1>3, BalanceUnmoved
<1>4. CASE Done(p)
  <2>1. Idle.pc # "insMem" /\ Idle.delta = 0
    BY DEF Idle
  <2>. QED BY <1>3, <1>4, <2>1 DEF Done
<1>5. ASSUME NEW pc, pc # "insMem", Goto(p, pc) PROVE Balanced'
  BY <1>1, <1>5, ProcFacts, BalanceUnmoved
<1>. QED BY <1>2, <1>3, <1>4, <1>5

LEMMA HandlerBalance ==
    ASSUME EvenWeights, PayloadInv, StoreShape, Balanced, NEW h \in Handler,
           Request(h) \/ HandlerStep(h)
    PROVE  Balanced'
<1>0. h \in Proc /\ proc[h] \in HandlerState /\ DOMAIN proc = Proc
  BY HandlerFacts DEF Shape
<1>1. CASE Request(h)
  <2>1. UNCHANGED <<mem, items>> /\ proc[h].pc = "idle"
    BY <1>1 DEF Request, GetHit, SetStart, At
  <2>2. \E s : proc' = [proc EXCEPT ![h] = s] /\ s.pc # "insMem" /\ s.delta = 0
    <3>1. \A e : /\ [Idle EXCEPT !.pc = "touch", !.old = e].pc # "insMem"
                 /\ [Idle EXCEPT !.pc = "touch", !.old = e].delta = 0
                 /\ [Idle EXCEPT !.pc = "find", !.new = e].pc # "insMem"
                 /\ [Idle EXCEPT !.pc = "find", !.new = e].delta = 0
      BY DEF Idle
    <3>2. \E e : \/ proc' = [proc EXCEPT ![h] = [Idle EXCEPT !.pc = "touch", !.old = e]]
                 \/ proc' = [proc EXCEPT ![h] = [Idle EXCEPT !.pc = "find", !.new = e]]
      BY <1>1 DEF Request, GetHit, SetStart
    <3>. QED BY <3>1, <3>2
  <2>. QED BY <1>0, <2>1, <2>2, QuietBalance
<1>2. CASE SetFind(h)
  <2>1. UNCHANGED <<mem, items>> /\ proc[h].pc = "find" /\ proc[h].delta = 0
    BY <1>0, <1>2, ProcFacts DEF SetFind, At
  <2>2. PICK e, pc : /\ proc' = [proc EXCEPT ![h].old = e, ![h].pc = pc]
                     /\ pc \in {"admit", "compare", "rmList"}
    <3>. DEFINE e == items[KeyOf[res[proc[h].new]]]
                pc == IF e = Nil THEN "admit"
                      ELSE IF SameFingerprint(e, res[proc[h].new]) THEN "compare" ELSE "rmList"
    <3>1. proc' = [proc EXCEPT ![h].old = e, ![h].pc = pc]
      BY <1>2 DEF SetFind
    <3>2. pc \in {"admit", "compare", "rmList"}
      OBVIOUS
    <3>. HIDE DEF e, pc
    <3>. QED BY <3>1, <3>2
  <2>3. proc' = [proc EXCEPT ![h] = [proc[h] EXCEPT !.old = e, !.pc = pc]]
    BY <1>0, <2>2
  <2>4. /\ [proc[h] EXCEPT !.old = e, !.pc = pc].pc # "insMem"
        /\ [proc[h] EXCEPT !.old = e, !.pc = pc].delta = 0
    BY <1>0, <2>1, <2>2 DEF HandlerState
  <2>. QED BY <1>0, <2>1, <2>3, <2>4, QuietBalance
<1>3. CASE SetInsert(h) \/ SetCount(h)
  BY <1>3, InsertBalance, CountBalance
<1>4. CASE RemoveStep(h)
  BY <1>0, <1>4, RemoveBalance
<1>5. CASE \/ SetCompare(h) \/ SetSwap(h) \/ Touch(h) \/ Move(h) \/ SetAdmit(h)
           \/ SetVictim(h) \/ SetPush(h) \/ SetElem(h)
  <2>1. UNCHANGED <<mem, items>> /\ proc[h].pc \notin {"insMem", "rmMem"}
    BY <1>5 DEF SetCompare, SetSwap, Touch, Move, SetAdmit, SetVictim, SetPush, SetElem, At
  <2>2. UNCHANGED proc \/ Done(h) \/ \E pc : pc # "insMem" /\ Goto(h, pc)
    <3>1. CASE SetCompare(h)
      <4>1. Goto(h, "touch") \/ Goto(h, "swap")
        BY <3>1 DEF SetCompare
      <4>. QED BY <4>1
    <3>2. CASE SetAdmit(h)
      <4>1. Goto(h, "victim") \/ Goto(h, "insert")
        BY <3>2 DEF SetAdmit
      <4>. QED BY <4>1
    <3>3. CASE Touch(h)
      BY <3>3 DEF Touch
    <3>4. CASE SetVictim(h)
      BY <3>4 DEF SetVictim
    <3>. QED BY <1>5, <3>1, <3>2, <3>3, <3>4 DEF SetSwap, Move, SetPush, SetElem
  <2>. QED BY <1>0, <2>1, <2>2, QuietBalance
<1>. QED BY <1>1, <1>2, <1>3, <1>4, <1>5 DEF HandlerStep

LEMMA EvictorBalance ==
    ASSUME EvenWeights, PayloadInv, StoreShape, Balanced, EvictTick \/ EvictStep
    PROVE  Balanced'
<1>0. Evictor \in Proc /\ proc[Evictor] \in EvictorState /\ DOMAIN proc = Proc
  BY DEF Proc, StoreShape, EvictorOk, PayloadInv, Shape
<1>1. CASE RemoveStep(Evictor)
  BY <1>0, <1>1, RemoveBalance
<1>2. CASE EvictTick \/ EvictOuter \/ EvictInner
  <2>1. UNCHANGED <<mem, items>> /\ proc[Evictor].pc \notin {"insMem", "rmMem"}
    BY <1>2 DEF EvictTick, EvictOuter, EvictInner, At
  <2>2. Done(Evictor) \/ \E pc : pc # "insMem" /\ Goto(Evictor, pc)
    <3>1. \/ Done(Evictor) \/ Goto(Evictor, "outer") \/ Goto(Evictor, "len")
          \/ Goto(Evictor, "next")
      BY <1>2 DEF EvictTick, EvictOuter, EvictInner
    <3>. QED BY <3>1
  <2>. QED BY <1>0, <2>1, <2>2, QuietBalance
<1>3. CASE EvictLen \/ EvictNext
  <2>1. /\ UNCHANGED <<mem, items>> /\ proc[Evictor].pc \notin {"insMem", "rmMem"}
        /\ proc[Evictor].delta = 0
    BY <1>0, <1>3, ProcFacts DEF EvictLen, EvictNext, At
  <2>2. CASE UNCHANGED proc \/ Goto(Evictor, "outer")
    BY <1>0, <2>1, <2>2, QuietBalance
  <2>3. ASSUME NEW pc, NEW o, NEW f, pc # "insMem",
               \/ proc' = [proc EXCEPT ![Evictor].pc = pc, ![Evictor].off = f]
               \/ proc' = [proc EXCEPT ![Evictor].pc = pc, ![Evictor].old = o]
        PROVE  Balanced'
    <3>. DEFINE s == [proc[Evictor] EXCEPT !.pc = pc, !.off = f]
                t == [proc[Evictor] EXCEPT !.pc = pc, !.old = o]
    <3>1. proc' = [proc EXCEPT ![Evictor] = s] \/ proc' = [proc EXCEPT ![Evictor] = t]
      BY <1>0, <2>3
    <3>2. s.pc # "insMem" /\ s.delta = 0 /\ t.pc # "insMem" /\ t.delta = 0
      BY <1>0, <2>1, <2>3 DEF EvictorState
    <3>. HIDE DEF s, t
    <3>. QED BY <1>0, <2>1, <3>1, <3>2, QuietBalance
  <2>4. CASE EvictLen
    <3>1. PICK pc : pc = IF list.len = 0 THEN "outer" ELSE "inner"
      OBVIOUS
    <3>2. proc' = [proc EXCEPT ![Evictor].pc = pc, ![Evictor].off = 0] /\ pc # "insMem"
      BY <2>4, <3>1 DEF EvictLen
    <3>. QED BY <2>3, <3>2
  <2>5. CASE EvictNext
    <3>1. PICK e : e = Ring!NextAt(list, proc[Evictor].off)
      OBVIOUS
    <3>2. \/ UNCHANGED proc \/ Goto(Evictor, "outer")
          \/ proc' = [proc EXCEPT ![Evictor].pc = "rmList", ![Evictor].old = e]
      BY <2>5, <3>1 DEF EvictNext
    <3>. QED BY <2>2, <2>3, <3>2
  <2>. QED BY <1>3, <2>4, <2>5
<1>. QED BY <1>1, <1>2, <1>3 DEF EvictStep

\* No Clear yet, and the balance holds.
Counted == clears \in Nat /\ (clears = 0 => Balanced)

LEMMA InitCounted == Init => Counted
<1>. SUFFICES ASSUME Init PROVE Balanced /\ clears \in Nat
  BY DEF Counted
<1>1. Cached = {} /\ mem = 0 /\ clears \in Nat /\ \A p \in Proc : proc[p] = Idle
  BY DEF Init, Cached
<1>2. \A p \in Proc : EvenOwed(proc[p]) = 0
  BY <1>1 DEF EvenOwed, Idle
<1>. DEFINE f == [p \in Proc |-> EvenOwed(proc[p])]
            S(P) == SumFunctionOnSet(f, P)
            B == {P \in SUBSET Proc : S(P) # 0}
<1>3. IsFiniteSet(Proc) /\ \A p \in Proc : f[p] = 0
  BY <1>2, FS_AddElement, StorageAssumption DEF Proc
<1>4. B = {}
  <2>1. SUFFICES ASSUME B # {} PROVE FALSE
    OBVIOUS
  <2>2. PICK T \in B : \A U \in B : ~ (U \subseteq T /\ U # T)
    <3>1. B \subseteq SUBSET Proc
      OBVIOUS
    <3>. HIDE DEF B
    <3>. QED BY <1>3, <2>1, <3>1, SmallestSubset
  <2>3. T # {} /\ T \subseteq Proc /\ IsFiniteSet(T)
    <3>1. T \subseteq Proc /\ IsFiniteSet(T)
      BY <1>3, <2>2, FS_Subset
    <3>. QED BY <2>2, <3>1, SumEmpty
  <2>. HIDE DEF f
  <2>4. First(T) \in T /\ S(T) = f[First(T)] + S(T \ {First(T)})
    BY <2>3, FirstIn, SumFirst
  <2>5. S(T \ {First(T)}) = 0
    BY <2>2, <2>3, <2>4
  <2>. QED BY <1>3, <2>2, <2>3, <2>4, <2>5
<1>5. S(Proc) = 0
  <2>. HIDE DEF f, S
  <2>. QED BY <1>4
<1>6. Stored = 0
  BY <1>1, SumEmpty DEF Stored
<1>. QED BY <1>1, <1>5, <1>6 DEF Balanced

LEMMA CountedStep ==
    ASSUME EvenWeights, PayloadInv, StoreShape, Counted, [Next]_vars
    PROVE  Counted'
<1>1. ASSUME UNCHANGED clears, clears = 0 => Balanced'
      PROVE  Counted'
  BY <1>1 DEF Counted
<1>2. ASSUME NEW h \in Handler, Request(h) \/ HandlerStep(h) PROVE Counted'
  <2>1. UNCHANGED clears
    BY <1>2 DEF Request, HandlerStep, RemoveStep, GetHit, SetStart, SetFind, SetCompare, SetSwap,
                Touch, Move, SetAdmit, SetVictim, SetInsert, SetCount, SetPush, SetElem,
                RemoveList, RemoveMap, RemoveCount, budget
  <2>. QED BY <1>1, <1>2, <2>1, HandlerBalance DEF Counted
<1>3. CASE EvictTick \/ EvictStep
  <2>1. UNCHANGED clears
    BY <1>3 DEF EvictTick, EvictStep, EvictOuter, EvictLen, EvictInner, EvictNext, RemoveStep,
                RemoveList, RemoveMap, RemoveCount, budget
  <2>. QED BY <1>1, <1>3, <2>1, EvictorBalance DEF Counted
<1>4. CASE MemTick \/ UNCHANGED vars \/ \E e \in Entry : RefreshStart(e) \/ RefreshEnd(e)
  <2>1. UNCHANGED <<clears, items, mem, proc>>
    BY <1>4 DEF MemTick, vars, budget, RefreshStart, RefreshEnd, RefreshFail, RefreshStore
  <2>2. Cached' = Cached
    BY <2>1 DEF Cached
  <2>3. Balanced => Balanced'
    BY <2>1, <2>2 DEF Balanced, Stored, EvenOwed
  <2>. QED BY <1>1, <2>1, <2>3 DEF Counted
<1>5. CASE Clear
  <2>1. clears' = clears + 1 /\ clears \in Nat
    BY <1>5 DEF Clear, Counted
  <2>. QED BY <2>1 DEF Counted
<1>. QED BY <1>2, <1>3, <1>4, <1>5 DEF Next

(***************************************************************************)
(* Until the storage is cleared, the shard's counter differs from what the *)
(* map holds by exactly the adds under way: of Sets past their insertion   *)
(* and of Removes past their deletion.  For any handlers that insert,      *)
(* replace, collide and remove at once, with the evictor among them, when  *)
(* every payload has the same weight (a swap of payloads of unequal weight *)
(* is not told to the counter).                                            *)
(***************************************************************************)
THEOREM StoreMemExact == EvenWeights => (Spec => [](clears = 0 => MemExact))
<1>. SUFFICES ASSUME EvenWeights PROVE Spec => [](clears = 0 => MemExact)
  OBVIOUS
<1>. DEFINE I == PayloadInv /\ StoreShape /\ Counted
<1>1. Init => I
  BY InitPayloadInv, InitStoreShape, InitCounted
<1>2. I /\ [Next]_vars => I'
  BY PayloadStep, StoreStep, CountedStep
<1>3. I => (clears = 0 => MemExact)
  BY ExactIsBalanced DEF Counted
<1>. QED BY <1>1, <1>2, <1>3, PTL DEF Spec

-------------------------------------------------------------------------------
(***************************************************************************)
(* One operation at a time: the list is the ring of the entries linked,    *)
(* the map and the list agree, and the entry used is at the front.         *)
(***************************************************************************)
\* The list is the ring of a sequence of the entries L.
Shows(l, L) == \E s : LP!Spells(l, s) /\ LP!Members(l.len, s) = L

LEMMA FirstNode ==
    ASSUME NEW l, NEW s, LP!Spells(l, s)
    PROVE  l.len > 0 => 1 \in 1..l.len /\ l.next[Root] = s[1]
<1>1. l \in LP!RingType /\ l.len \in Nat /\ s \in [1..l.len -> Entry] /\ LP!RingOf(l, s)
  BY DEF LP!Spells
<1>2. l.next[Root] = LP!NodeAt(l, s, 1) /\ \A k \in 1..l.len : LP!NodeAt(l, s, k) = s[k]
  BY <1>1, RingFacts, LP!RingLinks
<1>. QED BY <1>1, <1>2

LEMMA ShowsPush ==
    ASSUME NEW l, NEW L, Shows(l, L), NEW e \in Entry \ L
    PROVE  Shows(Ring!PushFront(l, e), L \cup {e}) /\ Ring!PushFront(l, e).next[Root] = e
<1>1. PICK s : LP!Spells(l, s) /\ LP!Members(l.len, s) = L
  BY DEF Shows
<1>2. PICK r, t : r = Ring!PushFront(l, e) /\ t = LP!Before(l.len, s, e)
  OBVIOUS
<1>3. r.len = l.len + 1 /\ LP!Spells(r, t) /\ LP!Members(l.len + 1, t) = L \cup {e}
  BY <1>1, <1>2, RingFacts, LP!PushesSpell
<1>4. l.len \in Nat
  BY <1>1 DEF LP!Spells
<1>5. r.next[Root] = t[1]
  BY <1>3, <1>4, FirstNode
<1>6. t[1] = e
  BY <1>2, <1>4 DEF LP!Before
<1>. QED BY <1>2, <1>3, <1>5, <1>6 DEF Shows

LEMMA ShowsRemove ==
    ASSUME NEW l, NEW L, Shows(l, L), NEW e \in L
    PROVE  Shows(Ring!Remove(l, e), L \ {e})
<1>1. PICK s : LP!Spells(l, s) /\ LP!Members(l.len, s) = L
  BY DEF Shows
<1>2. PICK r : r = Ring!Remove(l, e)
  OBVIOUS
<1>3. PICK k \in 1..l.len :
         /\ r.len = l.len - 1 /\ LP!Spells(r, LP!Cut(l.len, s, k))
         /\ LP!Members(l.len - 1, LP!Cut(l.len, s, k)) = L \ {e}
  BY <1>1, <1>2, RingFacts, LP!RemovesSpell
<1>. QED BY <1>2, <1>3 DEF Shows

LEMMA ShowsMove ==
    ASSUME NEW l, NEW L, Shows(l, L), NEW e \in L
    PROVE  Shows(Ring!MoveToFront(l, e), L) /\ Ring!MoveToFront(l, e).next[Root] = e
<1>1. PICK s : LP!Spells(l, s) /\ LP!Members(l.len, s) = L
  BY DEF Shows
<1>2. PICK r : r = Ring!MoveToFront(l, e)
  OBVIOUS
<1>3. PICK t :
         /\ \E k \in 1..l.len : t = LP!Before(l.len - 1, LP!Cut(l.len, s, k), e)
         /\ r.len = l.len /\ LP!Spells(r, t) /\ LP!Members(l.len, t) = L
  BY <1>1, <1>2, RingFacts, LP!MovesSpell
<1>4. l.len \in Nat /\ l.len > 0
  BY <1>1, <1>3 DEF LP!Spells
<1>5. r.next[Root] = t[1]
  BY <1>3, <1>4, FirstNode
<1>6. t[1] = e
  BY <1>3, <1>4 DEF LP!Before
<1>. QED BY <1>2, <1>3, <1>5, <1>6 DEF Shows

LEMMA ShowsLookups ==
    ASSUME NEW l, NEW L, Shows(l, L)
    PROVE  /\ L \subseteq Entry
           /\ \A e \in L : l.len < 2 => l.next[Root] = e
           /\ \A k \in Int : Ring!NextAt(l, k) \in L \cup {Nil}
           /\ Len(Ring!Walk(l)) = l.len /\ Ring!RingOf(l, Ring!Walk(l))
           /\ {Ring!Walk(l)[i] : i \in DOMAIN Ring!Walk(l)} = L
<1>1. PICK s : LP!Spells(l, s) /\ LP!Members(l.len, s) = L
  BY DEF Shows
<1>2. l \in LP!RingType /\ l.len \in Nat /\ s \in [1..l.len -> Entry] /\ LP!RingOf(l, s)
  BY <1>1 DEF LP!Spells
<1>3. L \subseteq Entry /\ \A k \in 1..l.len : s[k] \in L
  BY <1>1, <1>2 DEF LP!Members
<1>4. ASSUME NEW e \in L, l.len < 2 PROVE l.next[Root] = e
  <2>1. PICK i \in 1..l.len : e = s[i]
    BY <1>1 DEF LP!Members
  <2>2. i = 1 /\ l.len > 0
    BY <1>2, <1>4
  <2>. QED BY <1>1, <2>1, <2>2, FirstNode
<1>5. ASSUME NEW k \in Int PROVE Ring!NextAt(l, k) \in L \cup {Nil}
  <2>1. CASE k < 0 \/ k >= l.len
    BY <2>1 DEF Ring!NextAt
  <2>2. CASE ~ (k < 0 \/ k >= l.len)
    <3>1. k \in 0..(l.len - 1) /\ k + 1 \in 1..l.len
      BY <1>2, <2>2
    <3>2. LP!At(l, k) = s[k + 1]
      BY <1>2, <3>1, RingFacts, LP!AtRing
    <3>. QED BY <1>3, <2>2, <3>1, <3>2, RingFacts DEF Ring!NextAt
  <2>. QED BY <2>1, <2>2
<1>6. Ring!Walk(l) = s
  BY <1>1, RingFacts, LP!WalkSpelled
<1>7. Len(s) = l.len /\ DOMAIN s = 1..l.len /\ Ring!RingOf(l, s)
  BY <1>2, RingFacts
<1>8. {s[i] : i \in DOMAIN s} = L
  BY <1>1, <1>7 DEF LP!Members
<1>. QED BY <1>3, <1>4, <1>5, <1>6, <1>7, <1>8

\* What holds of the entries L in the list while x is the state of the one process that
\* is under way (or of an idle one): every stored entry is linked but the one just
\* inserted or about to be deleted; every linked one is known but the one just pushed,
\* and, before a Clear, stored; and where the process stands with its entries.
InTransit(x) == IF x.pc \in {"insMem", "push"} THEN {x.new}
                ELSE IF x.pc = "rmMap" THEN {x.old} ELSE {}
JustPushed(x) == IF x.pc = "setElem" THEN {x.new} ELSE {}
KeyFree(x) == items[KeyOf[res[x.new]]] = Nil
Agree(L, x) ==
    /\ Cached \subseteq L \cup InTransit(x)
    /\ L \subseteq elemSet \cup JustPushed(x)
    /\ clears = 0 => L \subseteq Cached
Place(L, x) ==
    /\ x.pc # "idle" => x.new \notin elemSet /\ (x.pc # "setElem" => x.new \notin L)
    /\ x.pc \in {"admit", "victim", "insert", "rmMem"} /\ x.new # Nil => KeyFree(x)
    /\ x.pc \in Inserted => x.new \in Cached
    /\ x.pc \in {"compare", "swap", "touch"} => x.old \in Cached
    /\ x.pc \in {"move", "rmList"} => x.old \in L
    /\ x.pc \in {"rmList", "rmMap"} /\ x.new # Nil => KeyOf[res[x.old]] = KeyOf[res[x.new]]
    /\ x.pc = "rmMap" => x.old \notin L /\ (clears = 0 => x.old \in Cached)
    /\ x.pc = "setElem" => list.next[Root] = x.new
Fits(L, x) == Agree(L, x) /\ Place(L, x)

OnlyActive(p) == \A q \in Proc \ {p} : proc[q].pc = "idle"
SerialInv == \E p \in Proc : OnlyActive(p) /\ \E L : Shows(list, L) /\ Fits(L, proc[p])

LEMMA InitSerial == Init => SerialInv
<1>. SUFFICES ASSUME Init PROVE SerialInv
  OBVIOUS
<1>1. /\ Cached = {} /\ elemSet = {} /\ Evictor \in Proc
      /\ \A p \in Proc : proc[p] = Idle
  BY DEF Init, Cached, Proc
<1>2. Shows(list, {})
  <2>1. LP!NewList = Ring!NewList
    BY DEF LP!NewList, Ring!NewList, LP!Node, Ring!Node
  <2>. DEFINE s == [i \in 1..0 |-> Root]
  <2>2. /\ list \in LP!RingType /\ list.len = 0
        /\ list.next[Root] = Root /\ list.prev[Root] = Root
    BY <2>1, RingFacts DEF Init, LP!NewList, LP!RingType, LP!Node
  <2>3. s \in [1..0 -> Entry]
    OBVIOUS
  <2>. HIDE DEF s
  <2>4. LP!RingOf(list, s) /\ LP!Members(0, s) = {}
    BY <2>2, <2>3 DEF LP!RingOf, LP!NodeAt, LP!Members
  <2>5. LP!Spells(list, s) /\ LP!Members(list.len, s) = {}
    BY <2>2, <2>3, <2>4 DEF LP!Spells
  <2>. QED BY <2>5, Zenon DEF Shows
<1>3. Idle.pc = "idle"
  BY DEF Idle
<1>4. Fits({}, Idle)
  BY <1>1, <1>3 DEF Fits, Agree, Place, InTransit, JustPushed, Inserted
<1>. QED BY <1>1, <1>2, <1>3, <1>4 DEF SerialInv, OnlyActive

\* No idle process says more than another.
LEMMA IdleFits ==
    ASSUME NEW L, NEW x, NEW y, x.pc = "idle", y.pc = "idle", Fits(L, x)
    PROVE  Fits(L, y)
BY DEF Fits, Agree, Place, InTransit, JustPushed, Inserted

\* With one operation at a time an operation starts only when nothing is under way.
LEMMA StartsAlone ==
    ASSUME MaxActive = 1, MayStart
    PROVE  \A p \in Proc : proc[p].pc = "idle"
<1>. DEFINE A == {p \in Proc : proc[p].pc # "idle"}
            B == {e \in Entry : refreshing[e] # Nil}
<1>1. IsFiniteSet(A) /\ IsFiniteSet(B)
  <2>1. IsFiniteSet(Proc) /\ IsFiniteSet(Entry)
    BY FS_AddElement, FS_Interval, StorageAssumption DEF Proc, Entry
  <2>. QED BY <2>1, FS_Subset
<1>2. Cardinality(A) \in Nat /\ Cardinality(B) \in Nat
  BY <1>1, FS_CardinalityType
<1>3. Cardinality(A) + Cardinality(B) < 1
  BY DEF MayStart, Active
<1>4. A = {}
  <2>. HIDE DEF A, B
  <2>. QED BY <1>1, <1>2, <1>3, FS_EmptySet
<1>. QED BY <1>4

\* The list holds what process p leaves in it.
Carries(p) == \E L : Shows(list, L) /\ Fits(L, proc[p])

\* What is known of the process under way.
LEMMA ActiveFacts ==
    ASSUME PayloadInv, StoreShape, NEW p \in Proc
    PROVE  /\ proc[p] \in HandlerState \/ proc[p] \in EvictorState
           /\ Nil \notin Made /\ elemSet \subseteq Made /\ Made \subseteq Entry /\ Shape
           /\ Cached \subseteq Made /\ DOMAIN proc = Proc
           /\ \A e \in Cached : KeyOf[res[e]] \in Key /\ items[KeyOf[res[e]]] = e
           /\ \A k \in Key : items[k] # Nil => items[k] \in Cached /\ KeyOf[res[items[k]]] = k
           /\ proc[p].pc \in Building /\ proc[p].new # Nil => proc[p].new \in Made
           /\ proc[p].pc \in Inserted \cup {"insert"} => proc[p].new \in Made
           /\ proc[p].new # Nil => p # Evictor
           /\ proc[p].off \in Int
<1>1. p = Evictor => proc[p] \in EvictorState
  BY DEF StoreShape, EvictorOk
<1>2. p \in Handler => proc[p] \in HandlerState /\ Holds(proc[p])
  BY HandlerFacts
<1>3. Shape /\ Cached \subseteq Made /\ elemSet \subseteq Made
  BY CachedMade DEF PayloadInv, StoreShape, LinksOk
<1>4. /\ \A e \in Cached : KeyOf[res[e]] \in Key /\ items[KeyOf[res[e]]] = e
      /\ \A k \in Key : items[k] # Nil => items[k] \in Cached /\ KeyOf[res[items[k]]] = k
  <2>1. Keyed
    BY DEF StoreShape
  <2>. QED BY <2>1 DEF Cached, Keyed
<1>5. p \in Handler \/ p = Evictor
  BY DEF Proc
<1>6. /\ proc[p].pc \in Building /\ proc[p].new # Nil => proc[p].new \in Made
      /\ proc[p].pc \in Inserted \cup {"insert"} => proc[p].new \in Made
      /\ proc[p].new # Nil => p # Evictor
      /\ proc[p].off \in Int
  <2>1. CASE p = Evictor
    BY <1>1, <2>1, SMT DEF EvictorState, Evicting, Inserted
  <2>2. CASE p \in Handler
    BY <1>2, <2>2, StorageAssumption DEF HandlerState, Holds, Building, Inserted
  <2>. QED BY <1>5, <2>1, <2>2
<1>7. (proc[p] \in HandlerState \/ proc[p] \in EvictorState) /\ DOMAIN proc = Proc
  BY <1>1, <1>2, <1>3, <1>5 DEF Shape
<1>8. Nil \notin Made /\ Made \subseteq Entry
  BY <1>3, EntryFacts
<1>. QED BY <1>3, <1>4, <1>6, <1>7, <1>8

\* The fields after a process went on at pc, or was done.
LEMMA GoesTo ==
    ASSUME PayloadInv, StoreShape, NEW p \in Proc, NEW pc, Goto(p, pc)
    PROVE  /\ \A q \in Proc \ {p} : proc'[q] = proc[q]
           /\ proc'[p].pc = pc /\ proc'[p].new = proc[p].new /\ proc'[p].old = proc[p].old
<1>1. (proc[p] \in HandlerState \/ proc[p] \in EvictorState) /\ DOMAIN proc = Proc
  BY ActiveFacts
<1>2. proc' = [proc EXCEPT ![p].pc = pc]
  BY DEF Goto
<1>. QED BY <1>1, <1>2 DEF HandlerState, EvictorState

LEMMA Ends ==
    ASSUME PayloadInv, StoreShape, NEW p \in Proc, Done(p)
    PROVE  /\ \A q \in Proc \ {p} : proc'[q] = proc[q]
           /\ proc'[p].pc = "idle"
<1>1. proc' = [proc EXCEPT ![p] = Idle] /\ DOMAIN proc = Proc
  BY ActiveFacts DEF Done
<1>. QED BY <1>1 DEF Idle

\* A step that leaves the list, the map and what entries know: it is enough that its
\* process stands where it may.
LEMMA StandsStill ==
    ASSUME NEW p \in Proc, NEW L, Shows(list, L), Fits(L, proc'[p]),
           UNCHANGED <<items, list, elemSet, res, clears>>
    PROVE  Carries(p)'
<1>1. PICK y : y = proc'[p]
  OBVIOUS
<1>2. Cached' = Cached
  BY DEF Cached
<1>3. Agree(L, y)' /\ Place(L, y)'
  BY <1>1, <1>2 DEF Fits, Agree, Place, KeyFree, InTransit, JustPushed
<1>4. Shows(list', L) /\ Fits(L, y)'
  BY <1>3 DEF Fits
<1>. QED BY <1>1, <1>4 DEF Carries, Fits, Agree, Place, KeyFree, InTransit, JustPushed


\* Steps of a Set or a Get that change its own place only.
LEMMA HandlerStands ==
    ASSUME PayloadInv, StoreShape, NEW h \in Handler, NEW L, Shows(list, L), Fits(L, proc[h]),
           \/ SetFind(h) \/ SetCompare(h) \/ SetSwap(h) \/ Touch(h) \/ SetAdmit(h)
           \/ SetVictim(h) \/ SetCount(h)
    PROVE  Carries(h)'
<1>0. h \in Proc /\ UNCHANGED <<items, list, elemSet, res, clears>>
  BY DEF Proc, SetFind, SetCompare, SetSwap, Touch, SetAdmit, SetVictim, SetCount, entries,
         budget
<1>1. SUFFICES Fits(L, proc'[h])
  BY <1>0, StandsStill
<1>2. CASE UNCHANGED proc
  BY <1>2
<1>3. CASE SetFind(h)
  <2>. DEFINE new == proc[h].new
              e   == items[KeyOf[res[new]]]
              pc  == IF e = Nil THEN "admit"
                     ELSE IF SameFingerprint(e, res[new]) THEN "compare" ELSE "rmList"
  <2>1. proc[h].pc = "find" /\ new \in Made /\ KeyOf[res[new]] \in Key
    BY <1>3, HandlerFacts, EntryFacts DEF SetFind, At, Holds, Building
  <2>2. proc'[h].new = new /\ proc'[h].old = e /\ proc'[h].pc = pc
    BY <1>3, HandlerFacts DEF SetFind, HandlerState, Shape
  <2>3. e # Nil => e \in Cached /\ KeyOf[res[e]] = KeyOf[res[new]]
    BY <1>0, <2>1, ActiveFacts
  <2>4. PICK y : y = proc'[h]
    OBVIOUS
  <2>5. Agree(L, proc[h]) /\ Place(L, proc[h])
    BY DEF Fits
  <2>6. pc \in {"admit", "compare", "rmList"} /\ (pc = "admit" <=> e = Nil)
    OBVIOUS
  <2>. HIDE DEF pc, e
  <2>7. Agree(L, y)
    BY <2>1, <2>2, <2>4, <2>5, <2>6 DEF Agree, InTransit, JustPushed
  <2>8. Place(L, y)
    BY <2>1, <2>2, <2>3, <2>4, <2>5, <2>6, <2>7
       DEF Place, Agree, KeyFree, InTransit, JustPushed, Inserted, e
  <2>. QED BY <2>4, <2>7, <2>8 DEF Fits
<1>4. ASSUME NEW pc, Goto(h, pc), \A y : /\ y.pc = pc /\ y.new = proc[h].new /\ y.old = proc[h].old
                                         => Fits(L, y)
      PROVE  Fits(L, proc'[h])
  BY <1>0, <1>4, GoesTo
<1>5. CASE SetCompare(h)
  <2>1. proc[h].pc = "compare" /\ (Goto(h, "touch") \/ Goto(h, "swap"))
    BY <1>5 DEF SetCompare, At
  <2>. QED BY <1>4, <2>1 DEF Fits, Agree, Place, InTransit, JustPushed, Inserted
<1>6. CASE SetSwap(h)
  <2>1. proc[h].pc = "swap" /\ Goto(h, "touch")
    BY <1>6 DEF SetSwap, At
  <2>. QED BY <1>4, <2>1 DEF Fits, Agree, Place, InTransit, JustPushed, Inserted
<1>7. ASSUME Done(h), Cached \subseteq L, L \subseteq elemSet, clears = 0 => L \subseteq Cached
      PROVE  Fits(L, proc'[h])
  BY <1>0, <1>7, Ends DEF Fits, Agree, Place, InTransit, JustPushed, Inserted
<1>8. CASE Touch(h)
  <2>1. proc[h].pc = "touch" /\ (Goto(h, "move") \/ Done(h))
    BY <1>8 DEF Touch, At
  <2>2. Cached \subseteq L /\ L \subseteq elemSet /\ (clears = 0 => L \subseteq Cached) /\ proc[h].old \in L
    BY <2>1 DEF Fits, Agree, Place, InTransit, JustPushed
  <2>3. CASE Done(h)
    BY <1>7, <2>2, <2>3
  <2>4. CASE Goto(h, "move")
    BY <1>4, <2>1, <2>2, <2>4 DEF Fits, Agree, Place, InTransit, JustPushed, Inserted
  <2>. QED BY <2>1, <2>3, <2>4
<1>9. CASE SetAdmit(h)
  <2>1. proc[h].pc = "admit" /\ (Goto(h, "victim") \/ Goto(h, "insert"))
    BY <1>9 DEF SetAdmit, At
  <2>. QED BY <1>4, <2>1 DEF Fits, Agree, Place, KeyFree, InTransit, JustPushed, Inserted
<1>10. CASE SetVictim(h)
  <2>1. proc[h].pc = "victim" /\ (UNCHANGED proc \/ Goto(h, "insert") \/ Done(h))
    BY <1>10 DEF SetVictim, At
  <2>2. Cached \subseteq L /\ L \subseteq elemSet /\ (clears = 0 => L \subseteq Cached)
    BY <2>1 DEF Fits, Agree, InTransit, JustPushed
  <2>3. CASE Goto(h, "insert")
    BY <1>4, <2>1, <2>3 DEF Fits, Agree, Place, KeyFree, InTransit, JustPushed, Inserted
  <2>. QED BY <1>2, <1>7, <2>1, <2>2, <2>3
<1>11. CASE SetCount(h)
  <2>1. proc[h].pc = "insMem" /\ Goto(h, "push")
    BY <1>11 DEF SetCount, At
  <2>. QED BY <1>4, <2>1 DEF Fits, Agree, Place, KeyFree, InTransit, JustPushed, Inserted
<1>. QED BY <1>3, <1>5, <1>6, <1>8, <1>9, <1>10, <1>11

\* The steps of a Set that insert its entry, link it, make it known, and a touch's move.
LEMMA HandlerLinks ==
    ASSUME PayloadInv, StoreShape, NEW h \in Handler, NEW L, Shows(list, L), Fits(L, proc[h]),
           SetInsert(h) \/ SetPush(h) \/ SetElem(h) \/ Move(h)
    PROVE  Carries(h)'
<1>0. h \in Proc /\ UNCHANGED <<res, clears>>
  BY DEF Proc, SetInsert, SetPush, SetElem, Move, entries, budget
<1>. DEFINE new == proc[h].new
<1>1. Agree(L, proc[h]) /\ Place(L, proc[h])
  BY DEF Fits
<1>2. PICK y : y = proc'[h]
  OBVIOUS
<1>3. ASSUME NEW M, Shows(list', M), Agree(M, y)', Place(M, y)' PROVE Carries(h)'
  <2>1. Fits(M, y)'
    BY <1>3 DEF Fits
  <2>. QED
    BY <1>2, <1>3, <2>1 DEF Carries, Fits, Agree, Place, KeyFree, InTransit, JustPushed
<1>4. CASE SetInsert(h)
  <2>1. /\ UNCHANGED <<list, elemSet>> /\ proc[h].pc = "insert" /\ new \in Made
        /\ KeyOf[res[new]] \in Key
    BY <1>0, <1>4, ActiveFacts, EntryFacts DEF SetInsert, At, entries
  <2>2. items' = [items EXCEPT ![KeyOf[res[new]]] = new]
    BY <1>4 DEF SetInsert
  <2>3. y.pc = "insMem" /\ y.new = new
    BY <1>2, <1>4, HandlerFacts DEF SetInsert, HandlerState, Shape
  <2>4. KeyFree(proc[h]) /\ new # Nil
    <3>1. new # Nil
      BY <1>0, <2>1, ActiveFacts
    <3>. QED BY <1>1, <2>1, <3>1 DEF Place
  <2>5. Cached' = Cached \cup {new}
    BY <1>0, <2>1, <2>2, <2>4, ActiveFacts DEF Cached, KeyFree, Shape
  <2>. HIDE DEF new
  <2>6. Agree(L, y)'
    BY <1>0, <1>1, <2>1, <2>3, <2>5 DEF Agree, InTransit, JustPushed
  <2>7. Place(L, y)'
    BY <1>1, <2>1, <2>3, <2>5 DEF Place, Inserted, new
  <2>. QED BY <1>3, <2>1, <2>6, <2>7
<1>5. CASE SetPush(h)
  <2>1. /\ UNCHANGED <<items, elemSet>> /\ proc[h].pc = "push" /\ new \in Entry
        /\ list' = Ring!PushFront(list, new) /\ Goto(h, "setElem")
    BY <1>0, <1>5, ActiveFacts DEF SetPush, At, entries, Inserted
  <2>2. y.pc = "setElem" /\ y.new = new
    BY <1>0, <1>2, <2>1, GoesTo
  <2>3. new \notin L /\ new \in Cached
    BY <1>1, <2>1 DEF Place, Inserted
  <2>4. PICK M : M = L \cup {new} /\ Shows(list', M) /\ list'.next[Root] = new
    BY <2>1, <2>3, ShowsPush
  <2>5. Cached' = Cached
    BY <2>1 DEF Cached
  <2>. HIDE DEF new
  <2>6. Agree(M, y)'
    BY <1>0, <1>1, <2>1, <2>2, <2>3, <2>4, <2>5 DEF Agree, InTransit, JustPushed, new
  <2>7. Place(M, y)'
    BY <1>1, <2>1, <2>2, <2>3, <2>4, <2>5 DEF Place, Inserted, new
  <2>. QED BY <1>3, <2>4, <2>6, <2>7
<1>6. CASE SetElem(h)
  <2>1. /\ UNCHANGED <<items, list>> /\ proc[h].pc = "setElem"
        /\ elemSet' = elemSet \cup {new} /\ Done(h)
    BY <1>6 DEF SetElem, At
  <2>2. y.pc = "idle" /\ Cached' = Cached
    BY <1>0, <1>2, <2>1, Ends DEF Cached
  <2>3. Agree(L, y)'
    BY <1>0, <1>1, <2>1, <2>2 DEF Agree, InTransit, JustPushed
  <2>4. Place(L, y)'
    BY <2>2 DEF Place, Inserted
  <2>. QED BY <1>3, <2>1, <2>3, <2>4
<1>7. CASE Move(h)
  <2>1. /\ UNCHANGED <<items, elemSet>> /\ proc[h].pc = "move"
        /\ list' = Ring!MoveToFront(list, proc[h].old) /\ Done(h)
    BY <1>7 DEF Move, At, entries
  <2>2. y.pc = "idle" /\ Cached' = Cached
    BY <1>0, <1>2, <2>1, Ends DEF Cached
  <2>3. Shows(list', L)
    BY <1>1, <2>1, ShowsMove DEF Place
  <2>4. Agree(L, y)'
    BY <1>0, <1>1, <2>1, <2>2 DEF Agree, InTransit, JustPushed
  <2>5. Place(L, y)'
    BY <2>2 DEF Place, Inserted
  <2>. QED BY <1>3, <2>3, <2>4, <2>5
<1>. QED BY <1>4, <1>5, <1>6, <1>7


\* Removes, of a Set that met a collision and of the evictor.
LEMMA AfterRemoveGoes ==
    ASSUME PayloadInv, StoreShape, NEW p \in Proc, AfterRemove(p)
    PROVE  /\ \A q \in Proc \ {p} : proc'[q] = proc[q]
           /\ proc'[p].new = proc[p].new
           /\ proc'[p].pc = IF p = Evictor THEN "inner" ELSE "admit"
<1>1. (proc[p] \in HandlerState \/ proc[p] \in EvictorState) /\ DOMAIN proc = Proc
  BY ActiveFacts
<1>2. CASE p = Evictor
  BY <1>1, <1>2 DEF AfterRemove, HandlerState, EvictorState
<1>3. CASE p # Evictor
  BY <1>1, <1>3 DEF AfterRemove, HandlerState, EvictorState
<1>. QED BY <1>2, <1>3

LEMMA RemoveLinks ==
    ASSUME PayloadInv, StoreShape, NEW p \in Proc, NEW L, Shows(list, L), Fits(L, proc[p]),
           RemoveStep(p)
    PROVE  Carries(p)'
<1>0. UNCHANGED <<res, elemSet, clears>>
  BY DEF RemoveStep, RemoveList, RemoveMap, RemoveCount, entries, budget
<1>. DEFINE new == proc[p].new
            old == proc[p].old
            k   == KeyOf[res[old]]
<1>1. Agree(L, proc[p]) /\ Place(L, proc[p])
  BY DEF Fits
<1>2. PICK y : y = proc'[p]
  OBVIOUS
<1>3. ASSUME NEW M, Shows(list', M), Agree(M, y)', Place(M, y)' PROVE Carries(p)'
  <2>1. Fits(M, y)'
    BY <1>3 DEF Fits
  <2>. QED
    BY <1>2, <1>3, <2>1 DEF Carries, Fits, Agree, Place, KeyFree, InTransit, JustPushed
<1>4. CASE RemoveList(p)
  <2>1. UNCHANGED items /\ proc[p].pc = "rmList" /\ Goto(p, "rmMap")
    BY <1>4 DEF RemoveList, At
  <2>2. y.pc = "rmMap" /\ y.new = new /\ y.old = old /\ Cached' = Cached
    BY <1>2, <2>1, GoesTo DEF Cached
  <2>3. old \in L /\ old \in elemSet
    BY <1>1, <2>1 DEF Place, Agree, JustPushed
  <2>4. list' = Ring!Remove(list, old)
    BY <1>4, <2>3 DEF RemoveList
  <2>5. PICK M : M = L \ {old} /\ Shows(list', M)
    <3>. HIDE DEF old
    <3>1. Shows(Ring!Remove(list, old), L \ {old})
      BY <2>3, ShowsRemove
    <3>. QED BY <2>4, <3>1
  <2>6. clears = 0 => old \in Cached
    BY <1>1, <2>3 DEF Agree
  <2>7. new # Nil => KeyOf[res[old]] = KeyOf[res[new]]
    BY <1>1, <2>1 DEF Place
  <2>8. new \notin elemSet /\ new \notin M
    BY <1>1, <2>1, <2>5 DEF Place
  <2>. HIDE DEF new, old, k
  <2>9. Cached \subseteq M \cup {old} /\ M \subseteq elemSet /\ (clears = 0 => M \subseteq Cached)
    BY <1>1, <2>1, <2>5 DEF Agree, InTransit, JustPushed
  <2>10. Agree(M, y)'
    BY <1>0, <2>1, <2>2, <2>9 DEF Agree, InTransit, JustPushed
  <2>11. Place(M, y)'
    BY <1>0, <2>2, <2>5, <2>6, <2>7, <2>8 DEF Place, Inserted
  <2>. QED BY <1>3, <2>5, <2>10, <2>11
<1>5. CASE RemoveMap(p)
  <2>1. UNCHANGED list /\ proc[p].pc = "rmMap" /\ old \in Made /\ k \in Key
    BY <1>5, ProcFacts, EntryFacts DEF RemoveMap, At, PayloadInv, entries
  <2>2. /\ Cached \subseteq L \cup {old} /\ L \subseteq elemSet /\ (clears = 0 => L \subseteq Cached)
        /\ old \notin L /\ (clears = 0 => old \in Cached)
        /\ new \notin elemSet /\ new \notin L /\ (new # Nil => k = KeyOf[res[new]])
    BY <1>1, <2>1 DEF Agree, Place, InTransit, JustPushed
  <2>3. \A e \in Cached : items[KeyOf[res[e]]] = e
    BY ActiveFacts
  <2>4. /\ Nil \notin Made
        /\ \A j \in Key : items[j] # Nil => items[j] \in Cached /\ KeyOf[res[items[j]]] = j
    BY ActiveFacts
  <2>5. ASSUME items'[k] = Nil, Cached' \subseteq L, clears = 0 => L \subseteq Cached',
               y.new = new, y.pc \in {"rmMem", "admit", "inner"}
        PROVE  Carries(p)'
    <3>. HIDE DEF new, old, k
    <3>1. Agree(L, y)'
      BY <1>0, <2>2, <2>5 DEF Agree, InTransit, JustPushed
    <3>2. Place(L, y)'
      BY <1>0, <2>2, <2>5 DEF Place, Inserted, KeyFree
    <3>. QED BY <1>3, <2>1, <3>1, <3>2
  <2>6. CASE items[k] = Nil
    <3>1. AfterRemove(p) /\ UNCHANGED items
      BY <1>5, <2>6 DEF RemoveMap
    <3>2. y.new = new /\ y.pc \in {"admit", "inner"}
      BY <1>2, <3>1, AfterRemoveGoes
    <3>3. old \notin Cached
      BY <2>1, <2>3, <2>4, <2>6
    <3>4. Cached' = Cached
      BY <3>1 DEF Cached
    <3>. HIDE DEF new, old, k
    <3>. QED BY <2>2, <2>5, <2>6, <3>1, <3>2, <3>3, <3>4
  <2>7. CASE items[k] # Nil
    <3>1. /\ items' = [items EXCEPT ![k] = Nil]
          /\ \E d : proc' = [proc EXCEPT ![p].pc = "rmMem", ![p].delta = d]
      BY <1>5, <2>7 DEF RemoveMap
    <3>2. y.new = new /\ y.pc = "rmMem"
      <4>1. (proc[p] \in HandlerState \/ proc[p] \in EvictorState) /\ DOMAIN proc = Proc
        BY ActiveFacts
      <4>. QED BY <1>2, <3>1, <4>1 DEF HandlerState, EvictorState
    <3>3. DOMAIN items = Key
      BY DEF PayloadInv, Shape
    <3>. HIDE DEF new, old
    <3>4. Cached' = Cached \ {items[k]} /\ items'[k] = Nil
      <4>1. \A j \in Key : items[j] = items[k] => j = k
        BY <2>1, <2>4, <2>7
      <4>. HIDE DEF k
      <4>. QED BY <2>1, <3>1, <3>3, <4>1 DEF Cached
    <3>5. old \in Cached => items[k] = old
      BY <2>3
    <3>. HIDE DEF k
    <3>. QED BY <2>2, <2>5, <3>2, <3>4, <3>5
  <2>. QED BY <2>6, <2>7
<1>6. CASE RemoveCount(p)
  <2>1. UNCHANGED <<items, list>> /\ proc[p].pc = "rmMem" /\ AfterRemove(p)
    BY <1>6 DEF RemoveCount, At, entries
  <2>2. y.new = new /\ y.pc = (IF p = Evictor THEN "inner" ELSE "admit") /\ Cached' = Cached
    BY <1>2, <2>1, AfterRemoveGoes DEF Cached
  <2>. HIDE DEF new, old, k
  <2>3. Agree(L, y)'
    BY <1>0, <1>1, <2>1, <2>2 DEF Agree, InTransit, JustPushed
  <2>4. Place(L, y)'
    BY <1>0, <1>1, <2>1, <2>2 DEF Place, Inserted, KeyFree, new
  <2>. QED BY <1>3, <2>1, <2>3, <2>4
<1>. QED BY <1>4, <1>5, <1>6 DEF RemoveStep

\* The evictor's own steps.
LEMMA EvictorStands ==
    ASSUME PayloadInv, StoreShape, NEW L, Shows(list, L), Fits(L, proc[Evictor]),
           EvictTick \/ EvictOuter \/ EvictLen \/ EvictInner \/ EvictNext
    PROVE  Carries(Evictor)'
<1>0. Evictor \in Proc /\ UNCHANGED <<items, list, elemSet, res, clears>>
  BY DEF Proc, EvictTick, EvictOuter, EvictLen, EvictInner, EvictNext, entries, budget
<1>1. SUFFICES Fits(L, proc'[Evictor])
  BY <1>0, StandsStill
<1>2. CASE UNCHANGED proc
  BY <1>2
<1>. DEFINE Own == {"idle", "outer", "len", "inner", "next"}
<1>3. /\ proc[Evictor].pc \in Own /\ proc[Evictor] \in EvictorState /\ DOMAIN proc = Proc
      /\ proc[Evictor].off \in Int /\ proc[Evictor].new = Nil
  <2>1. proc[Evictor].pc \in Own
    BY DEF EvictTick, EvictOuter, EvictLen, EvictInner, EvictNext, At
  <2>2. proc[Evictor] \in EvictorState /\ DOMAIN proc = Proc
    BY DEF StoreShape, EvictorOk, PayloadInv, Shape
  <2>. QED BY <2>1, <2>2 DEF EvictorState
<1>4. /\ Cached \subseteq L /\ L \subseteq elemSet /\ (clears = 0 => L \subseteq Cached)
      /\ L \subseteq Entry /\ Nil \notin Entry /\ Nil \notin elemSet /\ Nil \notin L
  <2>1. Nil \notin Made /\ elemSet \subseteq Made
    BY <1>0, ActiveFacts
  <2>2. L \subseteq Entry
    BY ShowsLookups
  <2>. QED BY <1>3, <2>1, <2>2, RingFacts DEF Fits, Agree, InTransit, JustPushed
<1>5. ASSUME NEW y, y.pc \in Own, y.new = Nil PROVE Fits(L, y)
  BY <1>4, <1>5 DEF Fits, Agree, Place, InTransit, JustPushed, Inserted
<1>6. ASSUME NEW pc \in Own, Goto(Evictor, pc) PROVE Fits(L, proc'[Evictor])
  BY <1>0, <1>3, <1>5, <1>6, GoesTo
<1>7. CASE Done(Evictor)
  <2>1. proc'[Evictor] = Idle
    BY <1>0, <1>3, <1>7 DEF Done
  <2>2. Idle.pc \in Own /\ Idle.new = Nil
    BY DEF Idle
  <2>. HIDE DEF Own
  <2>. QED BY <1>5, <2>1, <2>2
<1>8. CASE EvictTick \/ EvictOuter \/ EvictInner
  <2>1. \/ Done(Evictor) \/ Goto(Evictor, "outer") \/ Goto(Evictor, "len")
        \/ Goto(Evictor, "next")
    BY <1>8 DEF EvictTick, EvictOuter, EvictInner
  <2>. QED BY <1>6, <1>7, <2>1
<1>9. CASE EvictLen
  <2>1. PICK pc : pc = IF list.len = 0 THEN "outer" ELSE "inner"
    OBVIOUS
  <2>2. proc' = [proc EXCEPT ![Evictor].pc = pc, ![Evictor].off = 0] /\ pc \in Own
    BY <1>9, <2>1 DEF EvictLen
  <2>3. proc'[Evictor].pc = pc /\ proc'[Evictor].new = Nil
    BY <1>0, <1>3, <2>2 DEF EvictorState
  <2>. HIDE DEF Own
  <2>. QED BY <1>5, <2>2, <2>3
<1>10. CASE EvictNext
  <2>1. PICK e : e = Ring!NextAt(list, proc[Evictor].off)
    OBVIOUS
  <2>2. e \in L \cup {Nil}
    BY <1>3, <2>1, ShowsLookups
  <2>3. \/ UNCHANGED proc \/ Goto(Evictor, "outer")
        \/ e # Nil /\ proc' = [proc EXCEPT ![Evictor].pc = "rmList", ![Evictor].old = e]
    BY <1>10, <2>1 DEF EvictNext
  <2>4. CASE e # Nil /\ proc' = [proc EXCEPT ![Evictor].pc = "rmList", ![Evictor].old = e]
    <3>1. /\ proc'[Evictor].pc = "rmList" /\ proc'[Evictor].new = Nil /\ proc'[Evictor].old = e
      BY <1>0, <1>3, <2>4 DEF EvictorState
    <3>2. \A y : y.pc = "rmList" /\ y.new = Nil /\ y.old = e => Fits(L, y)
      BY <1>4, <2>2, <2>4 DEF Fits, Agree, Place, InTransit, JustPushed, Inserted
    <3>. QED BY <3>1, <3>2
  <2>. QED BY <1>2, <1>6, <2>3, <2>4
<1>. QED BY <1>8, <1>9, <1>10


\* What starts, starts alone.
LEMMA RequestStands ==
    ASSUME PayloadInv, StoreShape, NEW h \in Handler, NEW L, Shows(list, L), Fits(L, proc[h]),
           proc[h].pc = "idle", Request(h)
    PROVE  Carries(h)'
<1>0. h \in Proc /\ UNCHANGED <<items, list, elemSet, clears>> /\ Shape
  BY HandlerFacts DEF Request, GetHit, SetStart, entries, budget
<1>1. /\ Cached \subseteq L /\ L \subseteq elemSet /\ (clears = 0 => L \subseteq Cached)
      /\ Cached' = Cached /\ Nil \notin elemSet /\ elemSet \subseteq Made
  BY <1>0, ActiveFacts DEF Fits, Agree, InTransit, JustPushed, Cached
<1>2. ASSUME NEW r \in Resource, GetHit(h, r) PROVE Carries(h)'
  <2>. DEFINE e == items[KeyOf[r]]
  <2>1. e \in Cached /\ res' = res
    BY <1>2 DEF GetHit, Cached, Key, entries
  <2>2. proc'[h] = [Idle EXCEPT !.pc = "touch", !.old = e]
    BY <1>0, <1>2 DEF GetHit, Shape
  <2>3. proc'[h].pc = "touch" /\ proc'[h].old = e /\ proc'[h].new = Nil
    BY <2>2 DEF Idle
  <2>. HIDE DEF e
  <2>4. Fits(L, proc'[h])
    BY <1>1, <2>1, <2>3 DEF Fits, Agree, Place, InTransit, JustPushed, Inserted
  <2>. QED BY <1>0, <2>1, <2>4, StandsStill
<1>3. ASSUME NEW r \in Resource, NEW v \in Version, SetStart(h, r, v) PROVE Carries(h)'
  <2>. DEFINE e == made + 1
  <2>1. e \notin Made
    BY <1>0 DEF Shape, Made
  <2>2. proc'[h] = [Idle EXCEPT !.pc = "find", !.new = e]
    BY <1>0, <1>3 DEF SetStart, Shape
  <2>3. PICK y, d : y = proc'[h] /\ y.pc = "find" /\ y.new = d /\ d \notin Made
    BY <2>1, <2>2 DEF Idle
  <2>4. Agree(L, y)'
    BY <1>0, <1>1, <2>3 DEF Agree, InTransit, JustPushed
  <2>5. Place(L, y)'
    BY <1>0, <1>1, <2>3 DEF Place, Inserted
  <2>6. Shows(list', L) /\ Fits(L, y)'
    BY <1>0, <2>4, <2>5 DEF Fits
  <2>. QED
    BY <2>3, <2>6 DEF Carries, Fits, Agree, Place, KeyFree, InTransit, JustPushed
<1>. QED BY <1>2, <1>3 DEF Request

\* Each process changes only its own state.
LEMMA OthersStay ==
    ASSUME PayloadInv, StoreShape, NEW p \in Proc,
           \/ p \in Handler /\ (Request(p) \/ HandlerStep(p))
           \/ p = Evictor /\ (EvictTick \/ EvictStep)
    PROVE  \A q \in Proc \ {p} : proc'[q] = proc[q]
<1>1. DOMAIN proc = Proc
  BY DEF PayloadInv, Shape
<1>2. \A pc : Goto(p, pc) => \A q \in Proc \ {p} : proc'[q] = proc[q]
  BY <1>1 DEF Goto
<1>3. Done(p) => \A q \in Proc \ {p} : proc'[q] = proc[q]
  BY <1>1 DEF Done
<1>4. AfterRemove(p) => \A q \in Proc \ {p} : proc'[q] = proc[q]
  BY <1>1 DEF AfterRemove
<1>5. CASE RemoveStep(p)
  BY <1>1, <1>2, <1>4, <1>5 DEF RemoveStep, RemoveList, RemoveMap, RemoveCount
<1>6. CASE p \in Handler /\ Request(p)
  BY <1>1, <1>6 DEF Request, GetHit, SetStart
<1>7. CASE p \in Handler /\ HandlerStep(p)
  <2>1. CASE SetFind(p)
    BY <1>1, <2>1 DEF SetFind
  <2>2. CASE SetInsert(p)
    BY <1>1, <2>2 DEF SetInsert
  <2>3. CASE SetCompare(p)
    BY <1>2, <2>3 DEF SetCompare
  <2>4. CASE SetAdmit(p)
    BY <1>2, <2>4 DEF SetAdmit
  <2>5. CASE SetSwap(p) \/ Touch(p) \/ Move(p) \/ SetVictim(p) \/ SetCount(p) \/ SetPush(p)
             \/ SetElem(p)
    BY <1>2, <1>3, <2>5 DEF SetSwap, Touch, Move, SetVictim, SetCount, SetPush, SetElem
  <2>. QED BY <1>5, <1>7, <2>1, <2>2, <2>3, <2>4, <2>5 DEF HandlerStep
<1>8. CASE p = Evictor /\ (EvictTick \/ EvictStep)
  <2>1. CASE EvictTick
    BY <1>2, <1>8, <2>1 DEF EvictTick
  <2>2. CASE EvictOuter \/ EvictInner
    <3>1. Goto(p, "len") \/ Goto(p, "next") \/ Goto(p, "outer") \/ Done(p)
      BY <1>8, <2>2 DEF EvictOuter, EvictInner
    <3>. QED BY <1>2, <1>3, <3>1
  <2>3. CASE EvictLen
    BY <1>1, <1>8, <2>3 DEF EvictLen
  <2>4. CASE EvictNext
    BY <1>1, <1>2, <1>8, <2>4 DEF EvictNext
  <2>. QED BY <1>5, <1>8, <2>1, <2>2, <2>3, <2>4 DEF EvictStep
<1>. QED BY <1>6, <1>7, <1>8

\* A step of the evictor or of a handler.
LEMMA ProcessStep ==
    ASSUME PayloadInv, StoreShape, MaxActive = 1, NEW p \in Proc, OnlyActive(p), NEW L,
           Shows(list, L), Fits(L, proc[p]), NEW q \in Proc,
           \/ q \in Handler /\ (Request(q) \/ HandlerStep(q))
           \/ q = Evictor /\ (EvictTick \/ EvictStep)
    PROVE  SerialInv'
<1>1. OnlyActive(q) /\ Fits(L, proc[q]) /\ (Request(q) => proc[q].pc = "idle")
  <2>1. CASE proc[q].pc # "idle"
    <3>1. p = q
      BY <2>1 DEF OnlyActive
    <3>2. ~ Request(q)
      BY <2>1 DEF Request, GetHit, SetStart, At
    <3>. QED BY <3>1, <3>2
  <2>2. CASE proc[q].pc = "idle"
    <3>1. MayStart
      <4>1. CASE q \in Handler /\ Request(q)
        BY <4>1 DEF Request, GetHit, SetStart
      <4>2. CASE q \in Handler /\ HandlerStep(q)
        BY <2>2, <4>2 DEF HandlerStep, RemoveStep, RemoveList, RemoveMap, RemoveCount, SetFind,
           SetCompare, SetSwap, Touch, Move, SetAdmit, SetVictim, SetInsert, SetCount, SetPush,
           SetElem, At
      <4>3. CASE q = Evictor /\ EvictTick
        BY <4>3 DEF EvictTick
      <4>4. CASE q = Evictor /\ EvictStep
        BY <2>2, <4>4 DEF EvictStep, RemoveStep, RemoveList, RemoveMap, RemoveCount,
           EvictOuter, EvictLen, EvictInner, EvictNext, At
      <4>. QED BY <4>1, <4>2, <4>3, <4>4
    <3>2. \A o \in Proc : proc[o].pc = "idle"
      BY <3>1, StartsAlone
    <3>. QED BY <2>2, <3>2, IdleFits DEF OnlyActive
  <2>. QED BY <2>1, <2>2
<1>2. Carries(q)'
  <2>1. CASE q \in Handler /\ Request(q)
    BY <1>1, <2>1, RequestStands
  <2>2. CASE RemoveStep(q)
    BY <1>1, <2>2, RemoveLinks
  <2>3. CASE q \in Handler /\ HandlerStep(q)
    BY <1>1, <2>2, <2>3, HandlerStands, HandlerLinks DEF HandlerStep
  <2>4. CASE q = Evictor /\ (EvictTick \/ EvictStep)
    BY <1>1, <2>2, <2>4, EvictorStands DEF EvictStep
  <2>. QED BY <2>1, <2>3, <2>4
<1>3. OnlyActive(q)'
  BY <1>1, OthersStay DEF OnlyActive
<1>. QED BY <1>2, <1>3 DEF SerialInv, Carries

LEMMA SerialStep ==
    ASSUME PayloadInv, StoreShape, MaxActive = 1, SerialInv, clears \in Nat, [Next]_vars
    PROVE  SerialInv'
<1>1. PICK p \in Proc : OnlyActive(p) /\ \E L : Shows(list, L) /\ Fits(L, proc[p])
  BY DEF SerialInv
<1>2. PICK L : Shows(list, L) /\ Fits(L, proc[p])
  BY <1>1
<1>3. ASSUME NEW h \in Handler, Request(h) \/ HandlerStep(h) PROVE SerialInv'
  BY <1>1, <1>2, <1>3, ProcessStep DEF Proc
<1>4. CASE EvictTick \/ EvictStep
  BY <1>1, <1>2, <1>4, ProcessStep DEF Proc
<1>5. CASE MemTick \/ UNCHANGED vars \/ \E e \in Entry : RefreshStart(e) \/ RefreshEnd(e)
  <2>1. UNCHANGED <<clears, items, list, elemSet, res, proc>>
    BY <1>5 DEF MemTick, vars, budget, entries, RefreshStart, RefreshEnd, RefreshFail,
                RefreshStore
  <2>2. Fits(L, proc'[p])
    BY <1>2, <2>1
  <2>3. Carries(p)'
    BY <1>2, <2>1, <2>2, StandsStill
  <2>4. OnlyActive(p)'
    BY <1>1, <2>1 DEF OnlyActive
  <2>. QED BY <2>3, <2>4 DEF SerialInv, Carries
<1>6. CASE Clear
  <2>1. /\ UNCHANGED <<list, elemSet, res, proc>> /\ MayStart
        /\ clears' = clears + 1
    BY <1>6 DEF Clear, entries
  <2>2. Cached' = {}
    BY <1>6 DEF Clear, Cached
  <2>3. \A q \in Proc : proc[q].pc = "idle"
    BY <2>1, StartsAlone
  <2>4. PICK y : y = proc'[p] /\ y.pc = "idle"
    BY <2>1, <2>3
  <2>5. L \subseteq elemSet /\ clears' # 0
    BY <1>2, <2>1, <2>3 DEF Fits, Agree, JustPushed
  <2>6. Agree(L, y)' /\ Place(L, y)'
    BY <2>1, <2>2, <2>4, <2>5 DEF Agree, Place, InTransit, JustPushed, Inserted
  <2>7. Shows(list', L) /\ Fits(L, y)'
    BY <1>2, <2>1, <2>6 DEF Fits
  <2>8. Carries(p)'
    BY <2>4, <2>7 DEF Carries, Fits, Agree, Place, KeyFree, InTransit, JustPushed
  <2>9. OnlyActive(p)'
    BY <2>1, <2>3 DEF OnlyActive
  <2>. QED BY <2>8, <2>9 DEF SerialInv, Carries
<1>. QED BY <1>3, <1>4, <1>5, <1>6 DEF Next


LEMMA ClearsCounted == clears \in Nat /\ [Next]_vars => (clears \in Nat)'
<1>. SUFFICES ASSUME clears \in Nat, [Next]_vars PROVE clears' \in Nat
  OBVIOUS
<1>1. UNCHANGED clears \/ Clear
  BY DEF Next, Request, HandlerStep, RemoveStep, GetHit, SetStart, SetFind, SetCompare, SetSwap,
         Touch, Move, SetAdmit, SetVictim, SetInsert, SetCount, SetPush, SetElem, RemoveList,
         RemoveMap, RemoveCount, EvictTick, EvictStep, EvictOuter, EvictLen, EvictInner,
         EvictNext, RefreshStart, RefreshEnd, RefreshStore, RefreshFail, MemTick, vars, budget
<1>. QED BY <1>1 DEF Clear

SerialIInv == PayloadInv /\ StoreShape /\ clears \in Nat /\ SerialInv

LEMMA SerialInductive ==
    ASSUME MaxActive = 1
    PROVE  (Init => SerialIInv) /\ (SerialIInv /\ [Next]_vars => SerialIInv')
<1>1. Init => clears \in Nat
  BY DEF Init
<1>2. Init => SerialIInv
  BY <1>1, InitPayloadInv, InitStoreShape, InitSerial DEF SerialIInv
<1>3. SerialIInv /\ [Next]_vars => SerialIInv'
  BY PayloadStep, StoreStep, ClearsCounted, SerialStep DEF SerialIInv
<1>. QED BY <1>2, <1>3

(***************************************************************************)
(* With one operation under way at a time - any number of handlers, the    *)
(* evictor and the refreshes taking turns, Clears among them - the list's  *)
(* links are a ring of Len() entries in both directions after every step.  *)
(* (With two under way a touch may move an element just removed: it is     *)
(* then in the ring and not in Len(), and only StoreShape is left.)        *)
(***************************************************************************)
THEOREM SerialRing == MaxActive = 1 => (Spec => []RingSound)
<1>. SUFFICES ASSUME MaxActive = 1 PROVE Spec => []RingSound
  OBVIOUS
<1>1. SerialIInv => RingSound
  BY ShowsLookups DEF SerialIInv, SerialInv, RingSound
<1>. QED BY <1>1, SerialInductive, PTL DEF Spec

(***************************************************************************)
(* Between such operations the map and the list hold the same entries:     *)
(* whatever is stored is in the list, so the evictor can reach it, and     *)
(* until a Clear, which empties the map alone, nothing else is.            *)
(***************************************************************************)
THEOREM SerialAgree == MaxActive = 1 => (Spec => []MapListAgree)
<1>. SUFFICES ASSUME MaxActive = 1 PROVE Spec => []MapListAgree
  OBVIOUS
<1>1. SerialIInv => MapListAgree
  <2>. SUFFICES ASSUME SerialIInv, Quiet
                PROVE  Cached \subseteq Linked /\ (clears = 0 => Linked \subseteq Cached)
    BY DEF MapListAgree
  <2>1. PICK p \in Proc : proc[p].pc = "idle" /\ \E L : Shows(list, L) /\ Fits(L, proc[p])
    BY DEF SerialIInv, SerialInv, Quiet
  <2>2. PICK L : Shows(list, L) /\ Fits(L, proc[p])
    BY <2>1
  <2>3. Linked = L
    BY <2>2, ShowsLookups DEF Linked
  <2>. QED BY <2>1, <2>2, <2>3 DEF Fits, Agree, InTransit
<1>. QED BY <1>1, SerialInductive, PTL DEF Spec

(***************************************************************************)
(* A Get that hits and a Set whose entry was stored, one at a time, leave  *)
(* that entry at the front: also where the touch is skipped because the    *)
(* list is shorter than two, and where an equal payload was found.         *)
(***************************************************************************)
THEOREM SerialFront == MaxActive = 1 => (Spec => UsedIsFront)
<1>. SUFFICES ASSUME MaxActive = 1 PROVE Spec => UsedIsFront
  OBVIOUS
<1>. DEFINE Ok(h) ==
         /\ proc[h].pc \in {"touch", "move"} /\ proc'[h].pc = "idle"
               => list'.next[Root] = proc[h].old
         /\ proc[h].pc = "setElem" /\ proc'[h].pc = "idle"
               => list'.next[Root] = proc[h].new
<1>1. ASSUME SerialIInv, [Next]_vars, NEW h \in Handler PROVE Ok(h)
  <2>. SUFFICES ASSUME proc[h].pc \in {"touch", "move", "setElem"}, proc'[h].pc = "idle"
                PROVE  Ok(h)
    OBVIOUS
  <2>1. h \in Proc /\ PayloadInv /\ StoreShape
    BY <1>1 DEF Proc, SerialIInv
  <2>2. PICK L : Shows(list, L) /\ Fits(L, proc[h])
    BY <1>1, <2>1 DEF SerialIInv, SerialInv, OnlyActive
  <2>3. Touch(h) \/ Move(h) \/ SetElem(h)
    <3>1. \A q \in Proc \ {h} : ~ (q \in Handler /\ (Request(q) \/ HandlerStep(q)))
                              /\ ~ (q = Evictor /\ (EvictTick \/ EvictStep))
      BY <2>1, OthersStay
    <3>2. Evictor # h
      BY StorageAssumption
    <3>3. ~ UNCHANGED proc
      OBVIOUS
    <3>4. ~ MemTick /\ ~ Clear /\ ~ UNCHANGED vars
          /\ ~ \E e \in Entry : RefreshStart(e) \/ RefreshEnd(e)
      BY <3>3 DEF MemTick, Clear, vars, RefreshStart, RefreshEnd, RefreshFail, RefreshStore
    <3>5. Request(h) \/ HandlerStep(h)
      BY <1>1, <3>1, <3>2, <3>4 DEF Next, Proc
    <3>6. ~ Request(h)
      BY DEF Request, GetHit, SetStart, At
    <3>. QED
      BY <3>5, <3>6 DEF HandlerStep, RemoveStep, RemoveList, RemoveMap, RemoveCount, SetFind,
         SetCompare, SetSwap, SetAdmit, SetVictim, SetInsert, SetCount, SetPush, At
  <2>4. CASE Touch(h)
    <3>1. proc[h].pc = "touch" /\ UNCHANGED <<list, elemSet>>
      BY <2>4 DEF Touch, At, entries
    <3>2. proc[h].old \in L /\ proc[h].old \in elemSet
      BY <2>2, <3>1 DEF Fits, Agree, Place, InTransit, JustPushed
    <3>3. ~ Goto(h, "move")
      BY <2>1, GoesTo
    <3>4. ~ (list.len >= 2)
      BY <2>4, <3>2, <3>3 DEF Touch
    <3>5. list.len \in Nat
      BY <2>2 DEF Shows, LP!Spells
    <3>6. list.next[Root] = proc[h].old
      BY <2>2, <3>2, <3>4, <3>5, ShowsLookups
    <3>. QED BY <3>1, <3>6
  <2>5. CASE Move(h)
    <3>1. proc[h].pc = "move" /\ list' = Ring!MoveToFront(list, proc[h].old)
      BY <2>5 DEF Move, At
    <3>2. proc[h].old \in L
      BY <2>2, <3>1 DEF Fits, Place
    <3>. QED BY <2>2, <3>1, <3>2, ShowsMove
  <2>6. CASE SetElem(h)
    <3>1. proc[h].pc = "setElem" /\ UNCHANGED list
      BY <2>6 DEF SetElem, At
    <3>. QED BY <2>2, <3>1 DEF Fits, Place
  <2>. QED BY <2>3, <2>4, <2>5, <2>6
<1>2. SerialIInv /\ [Next]_vars => [\A h \in Handler : Ok(h)]_vars
  BY <1>1
<1>. QED BY <1>2, SerialInductive, PTL DEF Spec, UsedIsFront
================================================================================
