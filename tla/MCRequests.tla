------------------------------- MODULE MCRequests -------------------------------
(* Two requests and a refresh at once, for a path with a rule and one without. *)
EXTENDS Requests, TLC
\* Two states are one when they differ only in which of the equal pooled objects
\* someone has (while the pools are sound), in the names of the entries, or in what a
\* handler that has only to release has read.
In(in, o) == IF o = Nil THEN Nil ELSE in[o]
EntryOf(p) ==
    LET e == proc[p].e
    IN  IF e = Nil \/ e \in {store[k] : k \in Key} THEN <<e # Nil>>
        ELSE IF p \in Req /\ (\E w \in Worker : proc[w].e = e /\ ~ At(w, "put")) THEN <<"the refreshed">>
        ELSE <<ent[e]>>
Held(p) ==
    LET s == proc[p]
    IN  IF s.pc = "put" THEN <<s.key, s.out, s.lm>>
        ELSE <<[s EXCEPT !.q = Nil, !.h = Nil, !.uh = Nil, !.buf = Nil, !.resp = Nil, !.e = Nil],
               In(inSlice, s.q), In(inSlice, s.h), In(inBuf, s.buf), In(inResp, s.resp), EntryOf(p)>>
View == <<enabled, epoch, [k \in Key |-> In(ent, store[k])],
          IF PoolsSound THEN [p \in Proc |-> Held(p)] ELSE <<pools, store, proc>>>>
Symmetry == Permutations(Req)
================================================================================
