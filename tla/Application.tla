----------------------------- MODULE Application -----------------------------
(***************************************************************************)
(* The desktop application (cmd/gui/main.go): the goroutine that owns the  *)
(* agent (agentLoop), the event loop that handles the window's actions one *)
(* at a time (run, handleAction), the -game-start hook (autoStartGame) and *)
(* the dedicated Minecraft servers they start (internal/mc/mc.go).         *)
(*                                                                         *)
(* They share app.mu, which no one keeps over a dial, a file or a process: *)
(* a step is one hold of the lock, one channel operation or one such call. *)
(* The agent itself is external here: a dial that fails or succeeds, and a *)
(* run that ends when it is cancelled or its connection breaks.            *)
(* A definition nothing uses, before another with the same parameters, is  *)
(* a faulty variant of it (the mutants of PROJECT.json).                   *)
(***************************************************************************)
EXTENDS Naturals, FiniteSets

CONSTANTS
    Settings,      \* values of the name and server address
    Unset,         \* no name yet: a fresh install
    MaxSaves,      \* bound on saved settings
    MaxServers     \* bound on dedicated servers started

ASSUME SettingsAssumption ==
    /\ Unset \notin Settings
    /\ MaxSaves \in Nat /\ MaxServers \in Nat

VARIABLES
    cfg,       \* name and server in app.cfg
    saves,     \* settings saved so far
    unsaved,   \* history: changed settings that could not be written
    loop,      \* where agentLoop is
    opts,      \* settings of the agent that agentLoop has
    cancel,    \* app.cancel: "none", "live", or "called" when it was called
    restart,   \* does restartCh, of capacity one, hold a token?
    slipped,   \* history: did signalRestart find the agent checked against
               \* restartCh already, but not yet its cancel in app.cancel?
    doing,     \* what the event loop and the hook are in the middle of
    held,      \* the server either has in a local variable, 0 for none
    hook,      \* was -game-start given?
    srv,       \* app.mcSrv, 0 for nil
    procs,     \* server processes that run
    started,   \* servers started so far
    late,      \* history: those started when quitting had begun
    quit       \* quit: "no", "begun", or "closed" as quitCh is

agentVars == <<loop, opts, cancel, restart, slipped>>
gameVars == <<held, srv, procs, started, late>>
vars == <<cfg, saves, unsaved, agentVars, doing, gameVars, hook, quit>>

Server == 1 .. MaxServers
Actor == {"window", "hook"}

Init ==
    /\ cfg \in Settings \union {Unset}
    /\ saves = 0
    /\ unsaved = FALSE
    /\ loop = "top"
    /\ opts = Unset
    /\ cancel = "none"
    /\ restart = FALSE
    /\ slipped = FALSE
    /\ hook \in BOOLEAN
    /\ doing = [a \in Actor |-> IF a = "hook" /\ ~hook THEN "done" ELSE "ready"]
    /\ held = [a \in Actor |-> 0]
    /\ srv = 0
    /\ procs = {}
    /\ started = 0
    /\ late = {}
    /\ quit = "no"

Running == doing["window"] # "exited"
Does(a, now) == doing' = [doing EXCEPT ![a] = now]

-----------------------------------------------------------------------------
(* agentLoop                                                               *)

\* A step of agentLoop from one place to another.
Moves(from, to) ==
    /\ Running
    /\ loop = from /\ loop' = to
    /\ UNCHANGED <<cfg, saves, unsaved, doing, gameVars, hook, quit>>

LoopTop ==
    /\ \/ cfg = Unset /\ Moves("top", "idle")
       \/ cfg # Unset /\ Moves("top", "options")
    /\ UNCHANGED <<opts, cancel, restart, slipped>>

\* agentOptions takes the lock again.
LoopOptions ==
    /\ Moves("options", "dial")
    /\ opts' = cfg
    /\ slipped' = FALSE
    /\ UNCHANGED <<cancel, restart>>

DialFails == Moves("dial", "wait") /\ UNCHANGED <<opts, cancel, restart, slipped>>
DialSucceeds == Moves("dial", "dialed") /\ UNCHANGED <<opts, cancel, restart, slipped>>

\* "Settings changed while we were dialing? Discard this stale agent."
PublishesStale == "publish"
AfterToken == "top"

LoopStale ==
    /\ \/ restart /\ Moves("dialed", AfterToken)
       \/ ~restart /\ Moves("dialed", "publish")
    /\ restart' = FALSE
    /\ slipped' = (~restart /\ doing["window"] = "wake")
    /\ UNCHANGED <<opts, cancel>>

LoopPublish ==
    /\ Moves("publish", "run")
    /\ cancel' = "live"
    /\ UNCHANGED <<opts, restart, slipped>>

\* Run returns: its context was cancelled, or its connection is gone.
RunCancelled ==
    /\ cancel = "called"
    /\ Moves("run", "ended")
    /\ UNCHANGED <<opts, cancel, restart, slipped>>

RunBreaks == Moves("run", "ended") /\ UNCHANGED <<opts, cancel, restart, slipped>>

LoopClear ==
    /\ Moves("ended", "wait")
    /\ cancel' = "none"
    /\ UNCHANGED <<opts, restart, slipped>>

\* Three seconds pass, or a token arrives; idle waits for a token only.
LoopWait == Moves("wait", "top") /\ UNCHANGED <<opts, cancel, restart, slipped>>

LoopWoken ==
    /\ restart
    /\ Moves("idle", "top") \/ Moves("wait", "top")
    /\ restart' = FALSE
    /\ UNCHANGED <<opts, cancel, slipped>>

AgentLoop ==
    \/ LoopTop \/ LoopOptions \/ DialFails \/ DialSucceeds \/ LoopStale \/ LoopPublish
    \/ RunCancelled \/ RunBreaks \/ LoopClear \/ LoopWait \/ LoopWoken

-----------------------------------------------------------------------------
(* saveSettings and signalRestart, on the event loop                       *)

At(now) == doing["window"] = now

SaveSettings ==
    /\ At("ready")
    /\ saves < MaxSaves
    /\ saves' = saves + 1
    /\ \E s \in Settings :
        /\ cfg' = s
        /\ Does("window", IF s # cfg THEN "write" ELSE "rewrite")
    /\ UNCHANGED <<unsaved, agentVars, gameVars, hook, quit>>

\* cfg.Save.  Where it fails, saveSettings returns with the settings changed.
WriteSettings ==
    /\ \/ At("write") /\ Does("window", "cancel") /\ UNCHANGED unsaved
       \/ At("write") /\ Does("window", "ready") /\ unsaved' = TRUE
       \/ At("rewrite") /\ Does("window", "ready") /\ UNCHANGED unsaved
    /\ UNCHANGED <<cfg, saves, agentVars, gameVars, hook, quit>>

Cancelled == IF cancel = "live" THEN "called" ELSE cancel

SignalCancel ==
    /\ At("cancel")
    /\ cancel' = Cancelled
    /\ slipped' = (slipped \/ loop = "publish")
    /\ Does("window", "wake")
    /\ UNCHANGED <<cfg, saves, unsaved, loop, opts, restart, gameVars, hook, quit>>

\* A token is put into restartCh unless it holds one already.
WakesRunning == restart \/ cancel # "none"
Wakes == TRUE

SignalWake ==
    /\ At("wake")
    /\ restart' = Wakes
    /\ Does("window", "ready")
    /\ UNCHANGED <<cfg, saves, unsaved, loop, opts, cancel, slipped, gameVars, hook, quit>>

-----------------------------------------------------------------------------
(* startGame, on the event loop or in the hook, and stopGame               *)

Ready(a) ==
    /\ Running
    /\ doing[a] = "ready"
    /\ a = "hook" => loop \in {"run", "ended"}   \* app.ag is set

AlreadySet == FALSE
Already == srv # 0 /\ srv \in procs    \* Server.Running

StartGame(a) ==
    /\ Ready(a)
    /\ started < MaxServers
    /\ ~Already
    /\ Does(a, "start")
    /\ UNCHANGED <<cfg, saves, unsaved, agentVars, gameVars, hook, quit>>

\* mc.StartServer, which may fail.
SpawnServer(a) ==
    /\ Running
    /\ doing[a] = "start"
    /\ started < MaxServers
    /\ started' = started + 1
    /\ procs' = procs \union {started'}
    /\ held' = [held EXCEPT ![a] = started']
    /\ late' = IF quit = "no" THEN late ELSE late \union {started'}
    /\ Does(a, "assign")
    /\ UNCHANGED <<cfg, saves, unsaved, agentVars, srv, hook, quit>>

\* The hook gives up after 40 seconds, or when a server runs already.
HookEnds ==
    /\ Running
    /\ doing["hook"] = "ready"
    /\ Does("hook", "done")
    /\ UNCHANGED <<cfg, saves, unsaved, agentVars, gameVars, hook, quit>>

After(a) == IF a = "window" THEN "ready" ELSE "done"

SpawnFails(a) ==
    /\ Running
    /\ doing[a] = "start"
    /\ Does(a, After(a))
    /\ UNCHANGED <<cfg, saves, unsaved, agentVars, gameVars, hook, quit>>

AssignServer(a) ==
    /\ Running
    /\ doing[a] = "assign"
    /\ srv' = held[a]
    /\ held' = [held EXCEPT ![a] = 0]
    /\ Does(a, After(a))
    /\ UNCHANGED <<cfg, saves, unsaved, agentVars, procs, started, late, hook, quit>>

\* The server is taken out of app.mcSrv ...
TakeServer(now) ==
    /\ srv' = 0
    /\ held' = [held EXCEPT !["window"] = srv]
    /\ Does("window", now)

StopGame ==
    /\ At("ready")
    /\ srv # 0
    /\ TakeServer("stop")
    /\ UNCHANGED <<cfg, saves, unsaved, agentVars, procs, started, late, hook, quit>>

\* ... and Stop waits until it ended, if necessary by killing it.
StopServer ==
    /\ procs' = procs \ {held["window"]}
    /\ held' = [held EXCEPT !["window"] = 0]
    /\ Does("window", "ready")
    /\ UNCHANGED <<cfg, saves, unsaved, agentVars, srv, started, late, hook>>

StopWaits ==
    /\ At("stop")
    /\ StopServer
    /\ UNCHANGED quit

\* A server ends of its own.
ServerEnds(p) ==
    /\ p \in procs
    /\ procs' = procs \ {p}
    /\ UNCHANGED <<cfg, saves, unsaved, agentVars, doing, held, srv, started, late, hook, quit>>

-----------------------------------------------------------------------------
(* quit                                                                    *)

KeepServer == Does("window", "close") /\ UNCHANGED <<srv, held>>
QuitTakes == TakeServer("close")

Quit ==
    /\ At("ready")
    /\ quit = "no"
    /\ quit' = "begun"
    /\ cancel' = Cancelled
    /\ QuitTakes
    /\ UNCHANGED <<cfg, saves, unsaved, loop, opts, restart, slipped, procs, started, late,
                   hook>>

QuitCloses ==
    /\ At("close")
    /\ StopServer
    /\ quit' = "closed"

\* quitCh is closed: but until select picks it, it may pick other actions.
Exit ==
    /\ At("ready")
    /\ quit = "closed"
    /\ Does("window", "exited")
    /\ UNCHANGED <<cfg, saves, unsaved, agentVars, gameVars, hook, quit>>

Window ==
    \/ SaveSettings \/ WriteSettings \/ SignalCancel \/ SignalWake
    \/ StopGame \/ StopWaits \/ Quit \/ QuitCloses \/ Exit

Next ==
    \/ AgentLoop
    \/ Window
    \/ HookEnds
    \/ \E a \in Actor : StartGame(a) \/ SpawnServer(a) \/ SpawnFails(a) \/ AssignServer(a)
    \/ \E p \in Server : ServerEnds(p)

Spec == Init /\ [][Next]_vars

-----------------------------------------------------------------------------
(* Properties                                                              *)

AppTypeOK ==
    /\ cfg \in Settings \union {Unset}
    /\ saves \in 0 .. MaxSaves
    /\ unsaved \in BOOLEAN
    /\ loop \in {"top", "idle", "options", "dial", "dialed", "publish", "run", "ended", "wait"}
    /\ opts \in Settings \union {Unset}
    /\ cancel \in {"none", "live", "called"}
    /\ cancel # "none" => loop \in {"run", "ended"}
    /\ restart \in BOOLEAN
    /\ slipped \in BOOLEAN
    /\ doing \in [Actor -> {"ready", "write", "rewrite", "cancel", "wake", "start",
                            "assign", "stop", "close", "done", "exited"}]
    /\ held \in [Actor -> 0 .. started]
    /\ hook \in BOOLEAN
    /\ started \in 0 .. MaxServers
    /\ srv \in 0 .. started
    /\ procs \subseteq 1 .. started
    /\ late \subseteq 1 .. started
    /\ quit \in {"no", "begun", "closed"}

\* The event loop is between changing the settings and having signalled it.
Saving == doing["window"] \in {"write", "cancel", "wake"}

\* Changed settings are never forgotten: an agent that was built from others
\* is discarded by the token that waits for its check, or has been cancelled.
\* Only if signalRestart slipped between that check and the publication of the
\* agent's cancel does the agent run on with its old settings (run
\* app_restart); then too the token is still there when it ends.
RestartPending ==
    ~unsaved /\ ~Saving /\ opts # cfg =>
        /\ loop \in {"dial", "dialed", "publish"} => restart
        /\ loop = "run" => cancel = "called" \/ (slipped /\ restart)

\* Without the hook, a running server is the one the panel shows and can
\* stop, or one being started or stopped, and there is at most one: they
\* would share a port and a world (startGame's check, stopGame, Stop).
ServerIsKnown ==
    ~hook => /\ procs \subseteq {srv, held["window"]}
             /\ Cardinality(procs) <= 1

\* Without the hook, a server that was started before quitting began does not
\* survive the application (quit: "stops the agent and the dedicated Minecraft
\* server", main.go:319-320).
QuitStopsServer == ~hook /\ ~Running => procs \subseteq late

\* Liveness.  The runtime schedules agentLoop and the event loop, three
\* seconds pass, and a server that is dialled over and over answers in the
\* end; a running agent need not end.
Fairness ==
    /\ WF_vars(LoopTop \/ LoopOptions \/ LoopStale \/ LoopPublish
                \/ LoopClear \/ LoopWait \/ LoopWoken)
    /\ WF_vars(DialFails \/ DialSucceeds)
    /\ SF_vars(DialSucceeds)
    /\ WF_vars(RunCancelled)
    /\ WF_vars(WriteSettings \/ SignalCancel \/ SignalWake \/ StopWaits)

FairSpec == Spec /\ Fairness

\* An application with settings gets an agent to run, also when they are saved
\* the moment agentLoop has found none (restartCh is buffered).
AgentComesUp ==
    cfg # Unset ~> (loop = "run" \/ unsaved \/ quit # "no")

-----------------------------------------------------------------------------
(* A statement of the sources that the interleaving breaks.                *)

\* "signalRestart cancels the running agent and wakes agentLoop to rebuild it
\* with the current settings" (main.go:345-346): once settings are saved and
\* signalled, no agent goes on running with others.
SettingsTakeEffect ==
    ~unsaved /\ ~Saving /\ loop = "run" /\ opts # cfg => cancel = "called"
=============================================================================
