-------------------------------- MODULE LruList --------------------------------
(***************************************************************************)
(* Goroutines sharing one list.List (pkg/list/doubly_linked.go) under the  *)
(* discipline of its own test: a goroutine moves and removes only elements *)
(* it pushed itself and has not removed.  Every method body runs under the *)
(* list mutex and is one step; what the code reads BEFORE it takes the     *)
(* mutex (Len() < 2 in MoveToFront, Len() - 1 passed to Next) is a step of *)
(* its own, after which the other goroutines may run.                      *)
(*                                                                         *)
(* The element pool is never given an element back (FreeElement has no     *)
(* caller), so an element is pushed at most once in its life.              *)
(***************************************************************************)
EXTENDS RingList

CONSTANTS Goroutine  \* the goroutines

VARIABLES
    list,    \* the list, a record of RingType
    owner,   \* element -> the goroutine that pushed it, "fresh" or "removed"
    moving,  \* goroutine -> the element its MoveToFront is about to move, or Nil
    offset,  \* goroutine -> the offset it computed for Next, or NoOffset
    seen     \* goroutine -> what its last lookup returned (Nil: nothing)

vars == <<list, owner, moving, offset, seen>>

NoOffset == -2
ASSUME OwnerAssumption == {"fresh", "removed"} \cap Goroutine = {}

Live == {e \in Elem : owner[e] \in Goroutine}

TypeOK ==
    /\ list \in RingType
    /\ owner \in [Elem -> Goroutine \cup {"fresh", "removed"}]
    /\ moving \in [Goroutine -> Elem \cup {Nil}]
    /\ offset \in [Goroutine -> Int]
    /\ seen \in [Goroutine -> Node \cup {Nil}]

Init ==
    /\ list = NewList
    /\ owner = [e \in Elem |-> "fresh"]
    /\ moving = [g \in Goroutine |-> Nil]
    /\ offset = [g \in Goroutine |-> NoOffset]
    /\ seen = [g \in Goroutine |-> Nil]

\* g is between two calls.
Free(g) == moving[g] = Nil /\ offset[g] = NoOffset

DoPushFront(g, e) ==
    /\ Free(g) /\ owner[e] = "fresh"
    /\ list' = PushFront(list, e)
    /\ owner' = [owner EXCEPT ![e] = g]
    /\ UNCHANGED <<moving, offset, seen>>

DoPushBack(g, e) ==
    /\ Free(g) /\ owner[e] = "fresh"
    /\ list' = PushBack(list, e)
    /\ owner' = [owner EXCEPT ![e] = g]
    /\ UNCHANGED <<moving, offset, seen>>

DoRemove(g, e) ==
    /\ Free(g) /\ owner[e] = g
    /\ list' = Remove(list, e)
    /\ owner' = [owner EXCEPT ![e] = "removed"]
    /\ UNCHANGED <<moving, offset, seen>>

\* MoveToFront, before the mutex: gives up on a list shorter than two.
MoveCheck(g, e) ==
    /\ Free(g) /\ owner[e] = g
    /\ list.len >= 2
    /\ moving' = [moving EXCEPT ![g] = e]
    /\ UNCHANGED <<list, owner, offset, seen>>

\* MoveToFront, under the mutex: the length is not looked at again.
MoveLocked(g) ==
    /\ moving[g] # Nil
    /\ list' = MoveToFront(list, moving[g])
    /\ moving' = [moving EXCEPT ![g] = Nil]
    /\ UNCHANGED <<owner, offset, seen>>

\* l.Next(l.Len() - 1): the argument is computed first.
NextCheck(g) ==
    /\ Free(g) /\ list.len > 0
    /\ offset' = [offset EXCEPT ![g] = list.len - 1]
    /\ UNCHANGED <<list, owner, moving, seen>>

NextLocked(g) ==
    /\ offset[g] # NoOffset
    /\ seen' = [seen EXCEPT ![g] = NextAt(list, offset[g])]
    /\ offset' = [offset EXCEPT ![g] = NoOffset]
    /\ UNCHANGED <<list, owner, moving>>

DoBack(g) ==
    /\ Free(g)
    /\ seen' = [seen EXCEPT ![g] = Back(list)]
    /\ UNCHANGED <<list, owner, moving, offset>>

GoroutineStep(g) ==
    \/ \E e \in Elem : \/ DoPushFront(g, e) \/ DoPushBack(g, e)
                       \/ DoRemove(g, e)    \/ MoveCheck(g, e)
    \/ MoveLocked(g) \/ NextCheck(g) \/ NextLocked(g) \/ DoBack(g)

Next == \E g \in Goroutine : GoroutineStep(g)

Spec == Init /\ [][Next]_vars

-------------------------------------------------------------------------------
(***************************************************************************)
(* Properties                                                              *)
(***************************************************************************)

\* The test's "ring integrity: count must match Len()", in every state and in
\* both directions: Len() is not negative, and some sequence of exactly Len()
\* distinct elements, those pushed and not yet removed, is what a walk visits.
RingIntegrity ==
    /\ list.len \in Nat
    /\ \E s \in [1..list.len -> Elem] : RingOf(list, s) /\ {s[i] : i \in 1..list.len} = Live

\* Next and Back never hand out the sentinel (whose value is nil) nor an element
\* that was removed, although the offset given to Next may be out of date.
LookupsReturnLive ==
    [][\A g \in Goroutine : seen'[g] # seen[g] => seen'[g] \in Live' \cup {Nil}]_vars

\* The ring implements a sequence: read from Root it changes as the sequence does.
Recency == INSTANCE RecencyList WITH order <- Walk(list)
RefinesRecency == Recency!Spec
===============================================================================
