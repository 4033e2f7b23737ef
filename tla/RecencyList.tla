------------------------------ MODULE RecencyList ------------------------------
(***************************************************************************)
(* What a list promises to the goroutines that share it: it is a sequence, *)
(* each call takes effect at once, and what is looked up is an element.    *)
(***************************************************************************)
EXTENDS SequencesExt

CONSTANTS Elem

VARIABLES order  \* the elements, front first

Init == order = << >>

PushFront(e)     == e \notin Range(order) /\ order' = <<e>> \o order
PushBack(e)      == e \notin Range(order) /\ order' = Append(order, e)
RemoveElement(e) == \E i \in DOMAIN order : order[i] = e /\ order' = RemoveAt(order, i)
MoveToFront(e)   == \E i \in DOMAIN order :
                       order[i] = e /\ order' = <<e>> \o RemoveAt(order, i)

Next == \E e \in Elem : PushFront(e) \/ PushBack(e) \/ RemoveElement(e) \/ MoveToFront(e)

Spec == Init /\ [][Next]_order
===============================================================================
