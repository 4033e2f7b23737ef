---------------------------------- MODULE Probe ----------------------------------
(***************************************************************************)
(* The liveness probe.  Every call of IsAlive starts an asker, which       *)
(* offers the call's context to the watcher on an unbuffered channel, and  *)
(* waits for an answer on another one, for a time.  Nothing ties an answer *)
(* to its question: an answer the watcher still holds goes to whoever      *)
(* receives next.                                                          *)
(***************************************************************************)
EXTENDS Naturals

CONSTANTS
    ProbeCall   \* bound: the calls of IsAlive there are, each made once

VARIABLES
    served,   \* the server's flag, which the application's IsAlive reads
    probe,    \* call -> "new", "waits", "late" or "answered"
    asker,    \* call -> "none", "offers" or "gone"
    watcher,  \* "range", "asks" or "answers"
    isAlive,  \* what the watcher holds
    answer,   \* call -> what it returned
    truths,   \* call -> the values the flag had while it ran (history)
    disturbed \* some call was late, or ran while another did (history)

probeVars == <<served, probe, asker, watcher, isAlive, answer, truths, disturbed>>

Init ==
    /\ served = TRUE
    /\ probe = [c \in ProbeCall |-> "new"] /\ asker = [c \in ProbeCall |-> "none"]
    /\ watcher = "range" /\ isAlive = TRUE
    /\ answer = [c \in ProbeCall |-> FALSE] /\ truths = [c \in ProbeCall |-> {}]
    /\ disturbed = FALSE

Waiting == {c \in ProbeCall : probe[c] = "waits"}

-------------------------------------------------------------------------------
IsAlive(c) ==
    /\ probe[c] = "new"
    /\ probe' = [probe EXCEPT ![c] = "waits"]
    /\ asker' = [asker EXCEPT ![c] = "offers"]
    /\ truths' = [truths EXCEPT ![c] = {served}]
    /\ disturbed' = (disturbed \/ Waiting # {})
    /\ UNCHANGED <<served, watcher, isAlive, answer>>

\* A call that has returned has cancelled its context: its asker leaves - unless the
\* watcher is ready as well, and its select takes that branch.
AskerLeave(c) ==
    /\ asker[c] = "offers" /\ probe[c] # "waits"
    /\ asker' = [asker EXCEPT ![c] = "gone"]
    /\ UNCHANGED <<served, probe, watcher, isAlive, answer, truths, disturbed>>

Take(c) ==
    /\ asker[c] = "offers" /\ watcher = "range"
    /\ asker' = [asker EXCEPT ![c] = "gone"]
    /\ watcher' = "asks"
    /\ UNCHANGED <<served, probe, isAlive, answer, truths, disturbed>>

ComputeV ==                                      \* isAlive is declared before the loop
    /\ watcher = "asks"
    /\ watcher' = "answers" /\ isAlive' = (isAlive /\ served)
    /\ UNCHANGED <<served, probe, asker, answer, truths, disturbed>>
\* The watcher asks its service, the application: its server's flag.
Compute ==
    /\ watcher = "asks"
    /\ watcher' = "answers" /\ isAlive' = served
    /\ UNCHANGED <<served, probe, asker, answer, truths, disturbed>>

Answer(c) ==
    /\ probe[c] = "waits" /\ watcher = "answers"
    /\ answer' = [answer EXCEPT ![c] = isAlive]
    /\ probe' = [probe EXCEPT ![c] = "answered"]
    /\ watcher' = "range"
    /\ UNCHANGED <<served, asker, isAlive, truths, disturbed>>

Timeout(c) ==
    /\ probe[c] = "waits"
    /\ probe' = [probe EXCEPT ![c] = "late"]
    /\ disturbed' = TRUE
    /\ UNCHANGED <<served, asker, watcher, isAlive, answer, truths>>

\* The server comes and goes.
Turn ==
    /\ served' = ~ served
    /\ truths' = [c \in ProbeCall |-> IF c \in Waiting THEN truths[c] \cup {~ served}
                                                       ELSE truths[c]]
    /\ UNCHANGED <<probe, asker, watcher, isAlive, answer, disturbed>>

Next ==
    \/ \E c \in ProbeCall : IsAlive(c) \/ AskerLeave(c) \/ Take(c) \/ Answer(c) \/ Timeout(c)
    \/ Compute \/ Turn

-------------------------------------------------------------------------------
\* As long as no probe was ever late and no two ran at a time, an answer is one the
\* server's flag had while the probe waited.  (After a late one its answer waits in
\* the watcher's send, and the next probe takes it, however old it is by then.)
FreshUnlessLate ==
    ~ disturbed => \A c \in ProbeCall : probe[c] = "answered" => answer[c] \in truths[c]
===============================================================================
