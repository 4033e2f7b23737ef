-------------------------------- MODULE Counters --------------------------------
(***************************************************************************)
(* The controller's counters of requests and their way to the metrics and  *)
(* the logs: every second the writer loads a counter and THEN stores 0, so *)
(* a request counted in between is lost; what it loaded goes to the        *)
(* metrics, into the five-second report and into the hourly sums.  The     *)
(* refresher's counters take the same way, but are swapped for 0.          *)
(*                                                                         *)
(* One counter stands for the six (total, hits, misses, proxies, errors,   *)
(* totalDuration), which the writer treats alike and one after the other,  *)
(* and one hourly sum for the three windows.                               *)
(***************************************************************************)
EXTENDS Naturals

CONSTANTS
    LogInterval, \* logIntervalSecs: 5
    MaxServed    \* bound: requests, and refreshes, in all

VARIABLES
    requests,   \* requests so far (history)
    counter,    \* the atomic counter
    pc, loc,    \* the metrics writer, and what it loaded
    sumNum,     \* totalNum: not reported yet
    i,          \* ticks since the last report
    acc,        \* accHourly
    reported, hourly, counted, \* what the reports and the hours came to, and all loads (history)
    refreshes, refCounter, refAcc, refHourly   \* the same of the refresher

counterVars == <<requests, counter, pc, loc, sumNum, i, acc, reported, hourly, counted,
                 refreshes, refCounter, refAcc, refHourly>>
writerVars == <<sumNum, i, acc, reported, hourly, counted>>
refVars == <<refreshes, refCounter, refAcc, refHourly>>

Init ==
    /\ requests = 0 /\ counter = 0
    /\ pc = "select" /\ loc = 0 /\ sumNum = 0 /\ i = LogInterval /\ acc = 0
    /\ reported = 0 /\ hourly = 0 /\ counted = 0
    /\ refreshes = 0 /\ refCounter = 0 /\ refAcc = 0 /\ refHourly = 0

\* Index
Serve ==
    /\ requests < MaxServed
    /\ requests' = requests + 1 /\ counter' = counter + 1
    /\ UNCHANGED <<pc, loc, writerVars, refVars>>

Load ==
    /\ pc = "select"
    /\ loc' = counter /\ pc' = "store"
    /\ UNCHANGED <<requests, counter, writerVars, refVars>>

StoreV ==                                                \* the counter is not reset
    /\ pc = "store"
    /\ counter' = counter /\ pc' = "add"
    /\ UNCHANGED <<requests, loc, writerVars, refVars>>
Store ==
    /\ pc = "store"
    /\ counter' = 0 /\ pc' = "add"
    /\ UNCHANGED <<requests, loc, writerVars, refVars>>

\* The rest of the tick: every LogInterval ticks a report, which waits until there
\* is something to report.
Add ==
    LET sum == sumNum + loc
    IN  /\ pc = "add"
        /\ counted' = counted + loc /\ acc' = acc + loc
        /\ IF i = LogInterval /\ sum = 0 THEN sumNum' = 0 /\ UNCHANGED <<i, reported>>
           ELSE IF i = LogInterval THEN reported' = reported + sum /\ sumNum' = 0 /\ i' = 1
           ELSE sumNum' = sum /\ i' = i + 1 /\ UNCHANGED reported
        /\ pc' = "select" /\ loc' = 0
        /\ UNCHANGED <<requests, counter, hourly, refVars>>

Hour ==
    /\ pc = "select"
    /\ hourly' = hourly + acc /\ acc' = 0
    /\ UNCHANGED <<requests, counter, pc, loc, sumNum, i, reported, counted, refVars>>

-------------------------------------------------------------------------------
Refreshed ==
    /\ refreshes < MaxServed
    /\ refreshes' = refreshes + 1 /\ refCounter' = refCounter + 1
    /\ UNCHANGED <<requests, counter, pc, loc, writerVars, refAcc, refHourly>>

RefreshTick ==
    /\ refAcc' = refAcc + refCounter /\ refCounter' = 0
    /\ UNCHANGED <<requests, counter, pc, loc, writerVars, refreshes, refHourly>>

RefreshHour ==
    /\ refHourly' = refHourly + refAcc /\ refAcc' = 0
    /\ UNCHANGED <<requests, counter, pc, loc, writerVars, refreshes, refCounter>>

Next ==
    \/ Serve \/ Load \/ Store \/ Add \/ Hour
    \/ Refreshed \/ RefreshTick \/ RefreshHour

-------------------------------------------------------------------------------
\* No request is counted twice: what was loaded and what still counts is never more
\* than there were requests (it may be less); the reports and the hours differ from the loads
\* only by what waits for the next report or the hour's end; and of the refreshes none
\* is lost.
CountedOnce ==
    /\ counted + counter + (IF pc = "add" THEN loc ELSE 0) <= requests
    /\ reported + sumNum = counted /\ hourly + acc = counted
    /\ refHourly + refAcc + refCounter = refreshes
===============================================================================
