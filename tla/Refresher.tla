-------------------------------- MODULE Refresher --------------------------------
(***************************************************************************)
(* The refresher's loops: two rate limiters, each a goroutine that waits   *)
(* for a token and offers it on an unbuffered channel, and the workers     *)
(* that take a scan token, look at a random entry, take an upstream token  *)
(* for a stale one, and start its revalidation (Requests has that).        *)
(***************************************************************************)
EXTENDS Naturals, FiniteSets

CONSTANTS
    RWorker,     \* workersNum of them, 4 in the code
    Rates,       \* what scan_rate and rate may be set to
    MaxInFlight  \* bound: revalidations under way

Limiter == {"scan", "upstream"}

VARIABLES
    rCtxDone,
    rate,        \* limiter -> its rate; its burst is a tenth of it
    limiter,     \* limiter -> "loop", "offer", "closed" or "gone"
    worker,      \* worker -> "scan", "upstream" or "stopped"
    inFlight,    \* revalidations under way
    scans, found, okNum, failed   \* whether the counters ever moved

refreshVars == <<rCtxDone, rate, limiter, worker, inFlight, scans, found, okNum, failed>>
counters == <<scans, found, okNum, failed>>

Init ==
    /\ rCtxDone = FALSE
    /\ rate \in [Limiter -> Rates]
    /\ limiter = [l \in Limiter |-> "loop"]
    /\ worker = [w \in RWorker |-> "scan"]
    /\ inFlight = 0
    /\ scans = FALSE /\ found = FALSE /\ okNum = FALSE /\ failed = FALSE

Burst(l) == rate[l] \div 10

-------------------------------------------------------------------------------
LimWaitV(l) ==                                   \* two tokens at a time
    /\ limiter[l] = "loop" /\ ~ rCtxDone
    /\ limiter' = [limiter EXCEPT ![l] = IF Burst(l) > 1 THEN "offer" ELSE "gone"]
    /\ UNCHANGED <<rCtxDone, rate, worker, inFlight, counters>>
\* The select's default: Wait fails when it would need more than the burst, and when
\* the context ends meanwhile - then the goroutine returns and the channel stays open.
LimWait(l) ==
    /\ limiter[l] = "loop" /\ ~ rCtxDone
    /\ limiter' = [limiter EXCEPT ![l] = IF Burst(l) > 0 THEN "offer" ELSE "gone"]
    /\ UNCHANGED <<rCtxDone, rate, worker, inFlight, counters>>
LimWaitFails(l) ==
    /\ limiter[l] = "loop" /\ rCtxDone
    /\ limiter' = [limiter EXCEPT ![l] = "gone"]
    /\ UNCHANGED <<rCtxDone, rate, worker, inFlight, counters>>

\* The outer select sees the cancel, and closes the channel.
LimClose(l) ==
    /\ limiter[l] = "loop" /\ rCtxDone
    /\ limiter' = [limiter EXCEPT ![l] = "closed"]
    /\ UNCHANGED <<rCtxDone, rate, worker, inFlight, counters>>

\* The inner select sees it, and does not.
LimLeave(l) ==
    /\ limiter[l] = "offer" /\ rCtxDone
    /\ limiter' = [limiter EXCEPT ![l] = "gone"]
    /\ UNCHANGED <<rCtxDone, rate, worker, inFlight, counters>>

\* A receive: the offered token, or the closed channel's nothing.
Receives(l) ==
    \/ limiter[l] = "offer" /\ limiter' = [limiter EXCEPT ![l] = "loop"]
    \/ limiter[l] = "closed" /\ UNCHANGED limiter

-------------------------------------------------------------------------------
WorkerStopV(w) ==                                \* the inner select waits for a token only
    /\ worker[w] = "scan" /\ rCtxDone
    /\ worker' = [worker EXCEPT ![w] = "stopped"]
    /\ UNCHANGED <<rCtxDone, rate, limiter, inFlight, counters>>
\* Both selects have the cancelled context for a branch.
WorkerStop(w) ==
    /\ worker[w] \in {"scan", "upstream"} /\ rCtxDone
    /\ worker' = [worker EXCEPT ![w] = "stopped"]
    /\ UNCHANGED <<rCtxDone, rate, limiter, inFlight, counters>>

\* Rand and ShouldBeRefreshed have their answer for the entry found.
Scan(w, stale) ==
    /\ worker[w] = "scan"
    /\ Receives("scan")
    /\ scans' = TRUE /\ found' = (found \/ stale)
    /\ worker' = IF stale THEN [worker EXCEPT ![w] = "upstream"] ELSE worker
    /\ UNCHANGED <<rCtxDone, rate, inFlight, okNum, failed>>

Revalidate(w) ==
    /\ worker[w] = "upstream" /\ inFlight < MaxInFlight
    /\ Receives("upstream")
    /\ worker' = [worker EXCEPT ![w] = "scan"]
    /\ inFlight' = inFlight + 1
    /\ UNCHANGED <<rCtxDone, rate, counters>>

Revalidated ==
    /\ inFlight > 0
    /\ inFlight' = inFlight - 1
    /\ \/ okNum' = TRUE /\ UNCHANGED failed
       \/ failed' = TRUE /\ UNCHANGED okNum
    /\ UNCHANGED <<rCtxDone, rate, limiter, worker, scans, found>>

Cancel ==
    /\ ~ rCtxDone /\ rCtxDone' = TRUE
    /\ UNCHANGED <<rate, limiter, worker, inFlight, counters>>

Next ==
    \/ \E l \in Limiter : LimWait(l) \/ LimWaitFails(l) \/ LimClose(l) \/ LimLeave(l)
    \/ \E w \in RWorker : WorkerStop(w) \/ Revalidate(w) \/ \E stale \in BOOLEAN : Scan(w, stale)
    \/ Revalidated \/ Cancel

\* With rates of 10 and more no worker waits for ever, with a stale entry it found or
\* for its next scan; with a scan rate below 10 - a burst of 0, with which every Wait
\* fails at once - not one entry is ever looked at, and with such an upstream rate not
\* one is refreshed, and a worker that finds a stale entry stays with it.
Scanning ==
    /\ \A w \in RWorker :
          Burst("upstream") > 0 /\ worker[w] = "upstream" ~> worker[w] # "upstream"
    /\ Burst("scan") > 0 ~> scans \/ rCtxDone
    /\ [](Burst("scan") = 0 /\ scans => rCtxDone)
    /\ [](Burst("upstream") = 0 /\ (okNum \/ failed) => rCtxDone)

\* After a cancel every worker ends, whichever of the two channels is closed and
\* whichever was left open with nobody to send on it, and every revalidation does.
RefresherEnds == rCtxDone ~> (\A w \in RWorker : worker[w] = "stopped") /\ inFlight = 0
===============================================================================
