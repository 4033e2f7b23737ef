-------------------------------- MODULE ErrorLog --------------------------------
(***************************************************************************)
(* How a request that fails gets its error logged: handlers send it to a   *)
(* bounded channel, the logger collects what comes by kind, and at a tick  *)
(* hands the collection to a writer through a trigger of capacity one.     *)
(* The tick is that of utils.NewTicker, whose goroutine is modelled here.  *)
(*                                                                         *)
(* Everyone may wait for the next in line: a handler for the channel, the  *)
(* logger for the trigger, the ticker for the logger.  The counts of a     *)
(* kind are left out.                                                      *)
(***************************************************************************)
EXTENDS Naturals, Sequences, FiniteSets

CONSTANTS
    Handler,
    Error,   \* kinds: err.Error()
    ErrCap   \* capacity of errorsCh, 8196 in the code

VARIABLES
    ctxDone,    \* the context is cancelled
    handler,    \* handler -> the error it is sending, or "none"
    errorsCh,
    dedupMap,   \* the kinds collected since the last tick
    prev,       \* the kinds handed over
    logger,     \* "select", "trigger" or "stopped"
    trigger,    \* tokens in writeTrigger
    writer,     \* "range" or "write"
    tickCh,     \* ticks in the ticker's channel, capacity one
    tickClosed,
    ticker      \* "wait", "send" or "stopped"

errVars == <<ctxDone, handler, errorsCh, dedupMap, prev, logger, trigger, writer,
             tickCh, tickClosed, ticker>>
logVars == <<dedupMap, prev, logger>>
tickVars == <<tickCh, tickClosed, ticker>>

\* NewTicker puts the first tick in before it returns.
Init ==
    /\ ctxDone = FALSE
    /\ handler = [h \in Handler |-> "none"]
    /\ errorsCh = <<>>
    /\ dedupMap = {} /\ prev = {} /\ logger = "select"
    /\ trigger = 0 /\ writer = "range"
    /\ tickCh = 1 /\ tickClosed = FALSE /\ ticker = "wait"

-------------------------------------------------------------------------------
\* respondThatServiceIsTemporaryUnavailable: the error first, the response after.
Report(h, e) ==
    /\ handler[h] = "none"
    /\ handler' = [handler EXCEPT ![h] = e]
    /\ UNCHANGED <<ctxDone, errorsCh, logVars, trigger, writer, tickVars>>

Send(h) ==
    /\ handler[h] # "none" /\ Len(errorsCh) < ErrCap
    /\ errorsCh' = Append(errorsCh, handler[h])
    /\ handler' = [handler EXCEPT ![h] = "none"]
    /\ UNCHANGED <<ctxDone, logVars, trigger, writer, tickVars>>

\* The logger's select; which of its ready branches it takes is open.
LogStop ==
    /\ logger = "select" /\ ctxDone
    /\ logger' = "stopped"
    /\ UNCHANGED <<ctxDone, handler, errorsCh, dedupMap, prev, trigger, writer, tickVars>>

LogError ==
    /\ logger = "select" /\ errorsCh # <<>>
    /\ dedupMap' = dedupMap \cup {Head(errorsCh)}
    /\ errorsCh' = Tail(errorsCh)
    /\ UNCHANGED <<ctxDone, handler, prev, logger, trigger, writer, tickVars>>

\* A closed tick channel is always ready.
LogTick ==
    /\ logger = "select" /\ (tickCh > 0 \/ tickClosed)
    /\ tickCh' = 0
    /\ prev' = dedupMap /\ dedupMap' = {}
    /\ logger' = "trigger"
    /\ UNCHANGED <<ctxDone, handler, errorsCh, trigger, writer, tickClosed, ticker>>

LogTrigger ==
    /\ logger = "trigger" /\ trigger = 0
    /\ trigger' = 1 /\ logger' = "select"
    /\ UNCHANGED <<ctxDone, handler, errorsCh, dedupMap, prev, writer, tickVars>>

WriteStartV ==                                           \* one batch is all it writes
    /\ writer = "range" /\ trigger = 1
    /\ trigger' = 0 /\ writer' = "done"
    /\ UNCHANGED <<ctxDone, handler, errorsCh, logVars, tickVars>>
\* The writer ranges over the trigger and logs what prev is when it gets there.
WriteStart ==
    /\ writer = "range" /\ trigger = 1
    /\ trigger' = 0 /\ writer' = "write"
    /\ UNCHANGED <<ctxDone, handler, errorsCh, logVars, tickVars>>

WriteEnd ==
    /\ writer = "write" /\ writer' = "range"
    /\ UNCHANGED <<ctxDone, handler, errorsCh, logVars, trigger, tickVars>>

-------------------------------------------------------------------------------
\* NewTicker: its send is not a branch of the select.
TickerWake ==
    /\ ticker = "wait"
    /\ ticker' = "send"
    /\ UNCHANGED <<ctxDone, handler, errorsCh, logVars, trigger, writer, tickCh, tickClosed>>

TickerSend ==
    /\ ticker = "send" /\ tickCh = 0
    /\ tickCh' = 1 /\ ticker' = "wait"
    /\ UNCHANGED <<ctxDone, handler, errorsCh, logVars, trigger, writer, tickClosed>>

TickerStop ==
    /\ ticker = "wait" /\ ctxDone
    /\ ticker' = "stopped" /\ tickClosed' = TRUE
    /\ UNCHANGED <<ctxDone, handler, errorsCh, logVars, trigger, writer, tickCh>>

Cancel ==
    /\ ~ ctxDone /\ ctxDone' = TRUE
    /\ UNCHANGED <<handler, errorsCh, logVars, trigger, writer, tickVars>>

Next ==
    \/ \E h \in Handler : Send(h) \/ \E e \in Error : Report(h, e)
    \/ LogStop \/ LogError \/ LogTick \/ LogTrigger \/ WriteStart \/ WriteEnd
    \/ TickerWake \/ TickerSend \/ TickerStop \/ Cancel

\* While the service runs no handler waits for ever with its error, and so with its
\* response: the channel is emptied, though the logger may be waiting for the writer
\* and the ticker for the logger.
HandlersGoOn == \A h \in Handler : handler[h] # "none" ~> handler[h] = "none" \/ ctxDone

\* After a cancel the logger ends, even if it was waiting for the writer, and so does
\* the ticker - or it stays in its send for good, its reader gone.
LoggerEnds ==
    ctxDone ~> /\ logger = "stopped"
               /\ ticker = "stopped" \/ (ticker = "send" /\ tickCh = 1)
===============================================================================
