-------------------------------- MODULE Lifecycle --------------------------------
(***************************************************************************)
(* The process from its start to its end: main, the application it starts, *)
(* the HTTP server below that, and the shutdown.  The configuration is     *)
(* shared by pointer: main, the application, the dumper and the server     *)
(* hold the same one - until the operator picks a yaml file in the         *)
(* interactive menu, which replaces the application's pointer only.        *)
(***************************************************************************)
EXTENDS Naturals

Cfg == [enabled : BOOLEAN, dump : BOOLEAN, mock : BOOLEAN, refresh : BOOLEAN]
Flag == {"unset", "on", "off"}

VARIABLES
    main,      \* "config", "load", "menu", "save", "start", "listen", "await", "exited"
    exit,      \* how main ended, "no" while it runs
    cfg,       \* main's, the dumper's, the database's and the server's configuration
    appCfg,    \* the application's own after a yaml choice
    shares,    \* the application still has cfg
    loaded,    \* what was loaded: "dump", "version", "mocks"
    osSigs,    \* signals in osSigsCh, capacity one
    done,      \* the root context, and with it every other, is cancelled
    started,   \* gracefulShutdown.Add(1) and app.Start
    app,       \* "idle", "starts", "runs", "stops" or "done"
    serve,     \* the server's goroutines: "none", "bind", "serves", "ended"
    shut,      \* "none", "waits", "ended"
    alive,     \* isServerAlive
    dumped,    \* "no", "stored" or "refused"
    missed     \* the server was told to shut down before it had a listener (history)

lifeVars == <<main, exit, cfg, appCfg, shares, loaded, osSigs, done, started, app,
              serve, shut, alive, dumped, missed>>
mainVars == <<main, exit, started>>
loadVars == <<cfg, appCfg, shares, loaded>>
appVars == <<app, serve, shut, alive, dumped, missed>>

NoCfg == [enabled |-> FALSE, dump |-> FALSE, mock |-> FALSE, refresh |-> FALSE]
App == IF shares THEN cfg ELSE appCfg

Init ==
    /\ main = "config" /\ exit = "no" /\ started = FALSE
    /\ cfg = NoCfg /\ appCfg = NoCfg /\ shares = TRUE /\ loaded = {}
    /\ osSigs = 0 /\ done = FALSE
    /\ app = "idle" /\ serve = "none" /\ shut = "none" /\ alive = FALSE
    /\ dumped = "no" /\ missed = FALSE

-------------------------------------------------------------------------------
\* loadCfg, with what one of the two files says; the -refresh flag sets what the -dump
\* flag says, "off" when that one is not given.
Overridden(c, dump, mocks, refresh) ==
    [enabled |-> c.enabled,
     dump    |-> IF dump = "unset" THEN c.dump ELSE dump = "on",
     mock    |-> IF mocks = "unset" THEN c.mock ELSE mocks = "on",
     refresh |-> IF refresh = "unset" THEN c.refresh ELSE dump = "on"]

LoadCfg(interactive) ==
    /\ main = "config"
    /\ \/ /\ \E c \in Cfg, dump, mocks, refresh \in Flag : cfg' = Overridden(c, dump, mocks, refresh)
          /\ main' = (IF interactive THEN "menu" ELSE "load") /\ UNCHANGED exit
       \/ \* neither file can be read
          main' = "exited" /\ exit' = "noConfig" /\ UNCHANGED cfg
    /\ UNCHANGED <<appCfg, shares, loaded, osSigs, done, started, appVars>>

\* LoadData without the menu.  A dump that fails to load is a warning.
LoadData ==
    /\ main = "load"
    /\ loaded' = loaded \cup (IF App.enabled /\ App.dump THEN {"dump"} ELSE {})
                        \cup (IF App.enabled /\ App.mock THEN {"mocks"} ELSE {})
    /\ main' = "start"
    /\ UNCHANGED <<cfg, appCfg, shares, exit, osSigs, done, started, appVars>>

\* loadDataInteractive.  What it loads it loads whatever the configuration says.
Menu ==
    /\ main = "menu"
    /\ \/ \E what \in {"version", "mocks"} : loaded' = loaded \cup {what} /\ main' = "save"
       \/ loaded' = loaded /\ main' = "save"
    /\ UNCHANGED <<cfg, appCfg, shares, exit, osSigs, done, started, appVars>>

\* The prompt was left, the version was not confirmed or could not be loaded, "Exit".
MenuEnd ==
    /\ main = "menu"
    /\ main' = "exited" /\ exit' = "byUser"
    /\ UNCHANGED <<loadVars, osSigs, done, started, appVars>>

\* A yaml file was picked or edited: the application has a configuration of its own,
\* without the flags, and its data is loaded as if there were no menu.
MenuYaml ==
    /\ main = "menu"
    /\ \E c \in Cfg : appCfg' = c
    /\ shares' = FALSE /\ main' = "load"
    /\ UNCHANGED <<cfg, loaded, exit, osSigs, done, started, appVars>>

\* "Save cache state to new dump version on termination?"
SavePrompt(yes) ==
    /\ main = "save"
    /\ cfg' = IF yes THEN [cfg EXCEPT !.dump = TRUE] ELSE cfg
    /\ main' = "start"
    /\ UNCHANGED <<appCfg, shares, loaded, exit, osSigs, done, started, appVars>>

\* main: Add(1), go app.Start, listen.
StartV ==                                        \* Add is forgotten
    /\ main = "start"
    /\ app' = "starts" /\ main' = "listen"
    /\ UNCHANGED <<started, loadVars, exit, osSigs, done, serve, shut, alive, dumped, missed>>
Start ==
    /\ main = "start"
    /\ started' = TRUE /\ app' = "starts" /\ main' = "listen"
    /\ UNCHANGED <<loadVars, exit, osSigs, done, serve, shut, alive, dumped, missed>>

-------------------------------------------------------------------------------
\* app.Start down to ListenAndServe: the flag is set before anything is served.
AppStart ==
    /\ app = "starts"
    /\ app' = "runs" /\ alive' = TRUE /\ serve' = "bind" /\ shut' = "waits"
    /\ UNCHANGED <<mainVars, loadVars, osSigs, done, dumped, missed>>

Bind ==
    /\ serve = "bind"
    /\ serve' \in {"serves", "ended"}            \* the port may be taken
    /\ UNCHANGED <<mainVars, loadVars, osSigs, done, app, shut, alive, dumped, missed>>

\* fasthttp's Shutdown closes the listener, with which the serving ends, and waits for
\* the requests at most ten seconds.  Without a listener it returns at once.
ShutdownServer ==
    /\ shut = "waits" /\ done
    /\ shut' = "ended"
    /\ missed' = (serve = "bind")
    /\ serve' = IF serve = "serves" THEN "ended" ELSE serve
    /\ UNCHANGED <<mainVars, loadVars, osSigs, done, app, alive, dumped>>

ServerEnd ==
    /\ app = "runs" /\ serve = "ended" /\ shut = "ended"
    /\ app' = "stops" /\ alive' = FALSE
    /\ UNCHANGED <<mainVars, loadVars, osSigs, done, serve, shut, dumped, missed>>

\* stop, and gc.Done: the application looks at its configuration, the dumper at its own.
AppStop ==
    /\ app = "stops"
    /\ dumped' = IF ~ (App.enabled /\ App.dump) THEN "no"
                 ELSE IF cfg.enabled /\ cfg.dump THEN "stored" ELSE "refused"
    /\ app' = "done"
    /\ UNCHANGED <<mainVars, loadVars, osSigs, done, serve, shut, alive, missed>>

-------------------------------------------------------------------------------
\* Notify comes before the data is loaded; a signal that comes meanwhile is kept, one
\* more is not.
Signal ==
    /\ main \in {"load", "menu", "save", "start", "listen", "await"}
    /\ osSigs = 0
    /\ osSigs' = 1
    /\ UNCHANGED <<mainVars, loadVars, done, appVars>>

Listen ==
    /\ main = "listen" /\ osSigs > 0
    /\ osSigs' = osSigs - 1
    /\ done' = TRUE /\ main' = "await"
    /\ UNCHANGED <<exit, started, loadVars, appVars>>

\* The wait group is empty.
Await ==
    /\ main = "await" /\ (started => app = "done")
    /\ main' = "exited" /\ exit' = "graceful"
    /\ UNCHANGED <<started, loadVars, osSigs, done, appVars>>

\* Five minutes: longer than the ten seconds of the shutdown and the minute of a dump
\* together, they pass only when the application waits for what never comes.
Stuck ==
    /\ app = "runs" /\ serve # "bind"
    /\ ~ (shut = "waits" /\ done)
    /\ ~ (shut = "ended" /\ serve = "ended")

AwaitTimeoutV ==                                 \* wg.Wait is called in line, before the select
    /\ main = "await" /\ Stuck /\ app = "done"
    /\ main' = "exited" /\ exit' = "timeout"
    /\ UNCHANGED <<started, loadVars, osSigs, done, appVars>>
AwaitTimeout ==
    /\ main = "await" /\ Stuck
    /\ main' = "exited" /\ exit' = "timeout"
    /\ UNCHANGED <<started, loadVars, osSigs, done, appVars>>

Next ==
    \/ \E interactive \in BOOLEAN : LoadCfg(interactive)
    \/ LoadData \/ Menu \/ MenuEnd \/ MenuYaml \/ \E yes \in BOOLEAN : SavePrompt(yes)
    \/ main # "exited" /\ (Start \/ AppStart \/ Bind \/ ShutdownServer \/ ServerEnd \/ AppStop)
    \/ Signal \/ Listen \/ Await \/ AwaitTimeout

-------------------------------------------------------------------------------
\* A graceful exit is one after the server ended and the dump was tried, which is then
\* stored exactly when the application's configuration and the dumper's both ask for
\* it: a yaml file picked in the menu can so lose a dump it enables.  The server's flag
\* is up whenever requests are served (a server that failed to bind has it up as well)
\* and down before the dump.  And an exit by timeout is one whose shutdown reached the
\* server before it had bound its port.
ShutdownInOrder ==
    /\ exit = "graceful" =>
          /\ app = "done" /\ serve = "ended"
          /\ dumped = "stored" <=> cfg.enabled /\ cfg.dump /\ App.enabled /\ App.dump
    /\ serve = "serves" => alive
    /\ dumped # "no" => ~ alive
    /\ exit = "timeout" => missed

\* A signal ends the process whenever it comes, also while the data is being loaded.
ShutdownEnds == osSigs > 0 /\ main \in {"load", "start", "listen"} ~> main = "exited"
===============================================================================
