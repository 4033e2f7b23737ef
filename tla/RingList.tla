------------------------------- MODULE RingList -------------------------------
(***************************************************************************)
(* The intrusive doubly linked ring of pkg/list/doubly_linked.go, as pure  *)
(* operators on a record [next, prev, len].  A list is circular through a  *)
(* sentinel Root that holds no value; an element that was never pushed has *)
(* Nil links.  The links of an unlinked element are NOT cleared, so the    *)
(* operators follow whatever the stale links say, as the code does.        *)
(***************************************************************************)
EXTENDS Integers, FiniteSets

CONSTANTS Elem,  \* the elements a list may come to hold
          Root,  \* the sentinel, List.root
          Nil    \* the nil pointer

ASSUME RingAssumption ==
    /\ IsFiniteSet(Elem)
    /\ Root \notin Elem
    /\ Nil \notin Elem \cup {Root}

Node == Elem \cup {Root}
RingType == [next : [Node -> Node \cup {Nil}],
             prev : [Node -> Node \cup {Nil}],
             len  : Int]

\* New: the sentinel is linked to itself, no element is linked.
NewList ==
    LET links == [n \in Node |-> IF n = Root THEN Root ELSE Nil]
    IN  [next |-> links, prev |-> links, len |-> 0]

\* e.prev.next = e.next ; e.next.prev = e.prev  (e keeps its own links)
Detach(l, e) == [next |-> [l.next EXCEPT ![l.prev[e]] = l.next[e]],
                 prev |-> [l.prev EXCEPT ![l.next[e]] = l.prev[e]],
                 len  |-> l.len]

(***************************************************************************)
(* Variants ending in a V stand for slips a change to the code could make; *)
(* no specification uses them.                                             *)
(***************************************************************************)
LinkBackV(l, e) == [next |-> [l.next EXCEPT ![e] = Root, ![l.prev[Root]] = e],
                    prev |-> [l.prev EXCEPT ![e] = l.prev[Root]],  \* root.prev forgotten
                    len  |-> l.len]
AtV(l, k) == LET at[i \in 0..k + 1] == IF i = 0 THEN l.next[Root] ELSE l.next[at[i - 1]]
             IN  at[k + 1]                                         \* one step too far

\* Link e after Root; of two writes to one link the later one stands.
LinkFront(l, e) == [next |-> [l.next EXCEPT ![e] = l.next[Root], ![Root] = e],
                    prev |-> [l.prev EXCEPT ![e] = Root, ![l.next[Root]] = e],
                    len  |-> l.len]

\* Link e before Root.
LinkBack(l, e) == [next |-> [l.next EXCEPT ![e] = Root, ![l.prev[Root]] = e],
                   prev |-> [l.prev EXCEPT ![e] = l.prev[Root], ![Root] = e],
                   len  |-> l.len]

PushFront(l, e) == [LinkFront(l, e) EXCEPT !.len = @ + 1]
PushBack(l, e)  == [LinkBack(l, e) EXCEPT !.len = @ + 1]

RemoveV(l, e) == [next |-> [l.next EXCEPT ![l.prev[e]] = l.next[e]],
                  prev |-> l.prev,                                 \* one link forgotten
                  len  |-> l.len - 1]

\* The bodies of Remove and of MoveToFront once the mutex is held.
Remove(l, e)       == [Detach(l, e) EXCEPT !.len = @ - 1]
MoveToFrontV(l, e) == LinkBack(Detach(l, e), e)                    \* wrong end
MoveToFront(l, e)  == LinkFront(Detach(l, e), e)

\* Back: the last node, or Nil when the COUNTER says the list is empty.
Back(l) == IF l.len = 0 THEN Nil ELSE l.prev[Root]

\* The node k steps after the first one.
At(l, k) == LET at[i \in 0..k] == IF i = 0 THEN l.next[Root] ELSE l.next[at[i - 1]]
            IN  at[k]

\* Next(offset): the node at offset, or Nil when the COUNTER says there is none.
NextAt(l, offset) == IF offset < 0 \/ offset >= l.len THEN Nil ELSE At(l, offset)

-------------------------------------------------------------------------------
(***************************************************************************)
(* What a well-formed ring is.  RingOf(l, s): walking l from Root visits   *)
(* s[1], .., s[l.len] and comes back to Root, the same backwards, and no   *)
(* element is met twice.                                                   *)
(***************************************************************************)
NodeAt(l, s, i) == IF i \in 1..l.len THEN s[i] ELSE Root

RingOf(l, s) ==
    /\ \A i, j \in 1..l.len : s[i] = s[j] => i = j
    /\ \A i \in 0..l.len : /\ l.next[NodeAt(l, s, i)] = NodeAt(l, s, i + 1)
                           /\ l.prev[NodeAt(l, s, i + 1)] = NodeAt(l, s, i)

\* The elements met on the way from Root back to Root (cut after one element
\* too many when the walk does not come back).
Walk(l) ==
    LET n     == Cardinality(Elem)
        at[i \in 0..n] == IF i = 0 THEN l.next[Root]
                          ELSE IF at[i - 1] = Nil THEN Nil ELSE l.next[at[i - 1]]
        ends  == {i \in 0..n : at[i] \in {Root, Nil}}
        size  == IF ends = {} THEN n + 1 ELSE CHOOSE i \in ends : \A j \in ends : i <= j
    IN  [i \in 1..size |-> at[i - 1]]
===============================================================================
