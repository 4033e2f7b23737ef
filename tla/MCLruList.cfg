\* 2 goroutines, 4 elements: a list of every length 0..4, stale neighbours included
CONSTANTS
    Elem = {e1, e2, e3, e4}
    Root = root
    Nil = nil
    Goroutine = {g1, g2}
SPECIFICATION Spec
SYMMETRY Symmetry
INVARIANTS RingIntegrity
PROPERTIES LookupsReturnLive RefinesRecency
CHECK_DEADLOCK FALSE
