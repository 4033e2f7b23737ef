-------------------------------- MODULE MCService --------------------------------
(***************************************************************************)
(* Small instances of the parts of the service that share no state in the  *)
(* model, in one run: a behaviour is one of one part, chosen at the start, *)
(* with the others at rest.  The map is extended, the other parts are      *)
(* instances.                                                              *)
(***************************************************************************)
EXTENDS ShardedMap, Sequences, TLC

CONSTANTS
    Handler, Error, ErrCap,
    LogInterval, MaxServed,
    RWorker, Rates, MaxInFlight,
    Client, TTL, MaxTime, MaxTokens, Forever,
    ProbeCall

\* No token is the empty string that stands for none.
ASSUME ServiceAssumption == MaxTokens \in Nat /\ Forever \notin 1..MaxTokens


VARIABLES
    which,
    ctxDone, handler, errorsCh, dedupMap, prev, logger, trigger, writer,
    tickCh, tickClosed, ticker,
    requests, counter, pc, loc, sumNum, i, acc, reported, hourly, counted,
    refreshes, refCounter, refAcc, refHourly,
    rCtxDone, rate, limiter, worker, inFlight, scans, found, okNum, failed,
    time, token, expires, made, call, handed, cleared,
    served, probe, asker, watcher, isAlive, answer, truths, disturbed,
    main, exit, cfg, appCfg, shares, loaded, osSigs, done, started, app,
    serve, shut, alive, dumped, missed

E == INSTANCE ErrorLog
C == INSTANCE Counters
R == INSTANCE Refresher
T == INSTANCE ClearToken
P == INSTANCE Probe
L == INSTANCE Lifecycle

errVars == <<ctxDone, handler, errorsCh, dedupMap, prev, logger, trigger, writer,
             tickCh, tickClosed, ticker>>
counterVars == <<requests, counter, pc, loc, sumNum, i, acc, reported, hourly, counted,
                 refreshes, refCounter, refAcc, refHourly>>
refreshVars == <<rCtxDone, rate, limiter, worker, inFlight, scans, found, okNum, failed>>
tokenVars == <<time, token, expires, made, call, handed, cleared>>
probeVars == <<served, probe, asker, watcher, isAlive, answer, truths, disturbed>>
lifeVars == <<main, exit, cfg, appCfg, shares, loaded, osSigs, done, started, app,
              serve, shut, alive, dumped, missed>>
\* The map's are vars.
svars == <<which, errVars, counterVars, refreshVars, tokenVars, probeVars, lifeVars, vars>>

Part == {"errors", "counters", "refresher", "token", "probe", "lifecycle", "map"}

\* The refresher's rates are drawn at the start, and are low ones where it rests.
SInit ==
    /\ which \in Part
    /\ E!Init /\ C!Init /\ R!Init /\ T!Init /\ P!Init /\ L!Init /\ Init
    /\ which # "refresher" => \A l \in R!Limiter : R!Burst(l) = 0

SNext ==
    \/ /\ which = "errors" /\ E!Next
       /\ UNCHANGED <<which, counterVars, refreshVars, tokenVars, probeVars, lifeVars, vars>>
    \/ /\ which = "counters" /\ C!Next
       /\ UNCHANGED <<which, errVars, refreshVars, tokenVars, probeVars, lifeVars, vars>>
    \/ /\ which = "refresher" /\ R!Next
       /\ UNCHANGED <<which, errVars, counterVars, tokenVars, probeVars, lifeVars, vars>>
    \/ /\ which = "token" /\ T!Next
       /\ UNCHANGED <<which, errVars, counterVars, refreshVars, probeVars, lifeVars, vars>>
    \/ /\ which = "probe" /\ P!Next
       /\ UNCHANGED <<which, errVars, counterVars, refreshVars, tokenVars, lifeVars, vars>>
    \/ /\ which = "lifecycle" /\ L!Next
       /\ UNCHANGED <<which, errVars, counterVars, refreshVars, tokenVars, probeVars, vars>>
    \/ /\ which = "map" /\ Next
       /\ UNCHANGED <<which, errVars, counterVars, refreshVars, tokenVars, probeVars, lifeVars>>

-------------------------------------------------------------------------------
\* What the scheduling justifies: a goroutine that can go on does; a sender on a channel
\* is served in its turn, and a select does not pass over a branch that is ready again
\* and again (strong fairness of Send, LogError and LogStop).
ErrorsGoOn ==
    /\ \A h \in Handler : SF_errVars(which = "errors" /\ E!Send(h))
    /\ SF_errVars(which = "errors" /\ E!LogError)
    /\ SF_errVars(which = "errors" /\ E!LogStop)
    /\ WF_errVars(which = "errors" /\ E!LogTrigger)
    /\ WF_errVars(which = "errors" /\ (E!WriteStart \/ E!WriteEnd))
    /\ WF_errVars(which = "errors" /\ (E!TickerWake \/ E!TickerSend \/ E!TickerStop))

\* The limiters and the revalidations go on, and so does the cancel's branch of a worker
\* that stays ready; receivers are served in their turn (Revalidate).
RefresherGoesOn ==
    /\ \A l \in R!Limiter : WF_refreshVars(which = "refresher" /\ (\/ R!LimWait(l) \/ R!LimWaitFails(l)
                                                            \/ R!LimClose(l)))
    /\ \A w \in RWorker : /\ WF_refreshVars(which = "refresher" /\ R!WorkerStop(w))
                          /\ SF_refreshVars(which = "refresher" /\ R!Revalidate(w))
    /\ WF_refreshVars(which = "refresher" /\ \E w \in RWorker, stale \in BOOLEAN : R!Scan(w, stale))
    /\ WF_refreshVars(which = "refresher" /\ R!Revalidated)

\* Every step but the operator's and the signal's own.
ProcessGoesOn ==
    /\ WF_lifeVars(which = "lifecycle" /\ (L!LoadData \/ L!Start \/ L!Listen \/ L!Await
                                        \/ L!AwaitTimeout))
    /\ WF_lifeVars(which = "lifecycle" /\ main # "exited" /\ (\/ L!AppStart \/ L!Bind \/ L!ShutdownServer
                                                          \/ L!ServerEnd \/ L!AppStop))

MapGoesOn ==
    /\ \A t \in Thread : WF_vars(which = "map" /\ (AddLen(t) \/ AddMem(t)))
    /\ \A c \in Scanner : WF_vars(which = "map" /\ ScanStep(c))

SSpec == SInit /\ [][SNext]_svars /\ ErrorsGoOn /\ RefresherGoesOn /\ ProcessGoesOn /\ MapGoesOn

-------------------------------------------------------------------------------
HandlersGoOn == E!HandlersGoOn
LoggerEnds == E!LoggerEnds
CountedOnce == C!CountedOnce
Scanning == R!Scanning
RefresherEnds == R!RefresherEnds
SingleUse == T!SingleUse
FreshUnlessLate == P!FreshUnlessLate
ShutdownInOrder == L!ShutdownInOrder
ShutdownEnds == L!ShutdownEnds
===============================================================================
