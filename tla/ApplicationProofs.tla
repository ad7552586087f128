-------------------------- MODULE ApplicationProofs --------------------------
(***************************************************************************)
(* Theorems about Application, for any settings and bounds.  The types are *)
(* inductive alone; what is remembered of settings, and what is known of   *)
(* dedicated servers, each are relative to the types.  And about Shell,    *)
(* which shares no state with it, for queues of any length.                *)
(***************************************************************************)
EXTENDS Application, Shell, FiniteSetTheorems, TLAPS

Launches(a) == StartGame(a) \/ SpawnServer(a) \/ SpawnFails(a) \/ AssignServer(a)

-----------------------------------------------------------------------------
(* Types                                                                   *)

\* The application starts with values of the right types.
LEMMA InitType == Init => AppTypeOK
<1> SUFFICES ASSUME Init PROVE AppTypeOK
    OBVIOUS
<1>1. saves \in 0 .. MaxSaves /\ started \in 0 .. MaxServers
  BY SettingsAssumption DEF Init
<1>2. doing \in [Actor -> {"ready", "done"}]
  BY DEF Init
<1>3. held \in [Actor -> 0 .. started]
  BY DEF Init
<1>4. procs \subseteq 1 .. started /\ late \subseteq 1 .. started /\ srv \in 0 .. started
  BY DEF Init
<1> QED BY <1>1, <1>2, <1>3, <1>4 DEF Init, AppTypeOK

\* Each step of agentLoop keeps the types; only publishing sets app.cancel,
\* and it is cleared before the loop goes on.
LEMMA AgentLoopType == ASSUME AppTypeOK, AgentLoop PROVE AppTypeOK'
<1> USE SettingsAssumption DEF AppTypeOK, Moves, gameVars
<1>1. CASE LoopTop BY <1>1 DEF LoopTop
<1>2. CASE LoopOptions BY <1>2 DEF LoopOptions
<1>3. CASE DialFails BY <1>3 DEF DialFails
<1>4. CASE DialSucceeds BY <1>4 DEF DialSucceeds
<1>5. CASE LoopStale BY <1>5 DEF LoopStale, AfterToken
<1>6. CASE LoopPublish BY <1>6 DEF LoopPublish
<1>7. CASE RunCancelled BY <1>7 DEF RunCancelled
<1>8. CASE RunBreaks BY <1>8 DEF RunBreaks
<1>9. CASE LoopClear BY <1>9 DEF LoopClear
<1>10. CASE LoopWait BY <1>10 DEF LoopWait
<1>11. CASE LoopWoken BY <1>11 DEF LoopWoken
<1> QED BY <1>1, <1>2, <1>3, <1>4, <1>5, <1>6, <1>7, <1>8, <1>9, <1>10, <1>11
        DEF AgentLoop

\* What the event loop holds is replaced by something of the same type.
LEMMA HeldType ==
    ASSUME NEW S, NEW v \in S, held \in [Actor -> S], held' = [held EXCEPT !["window"] = v]
    PROVE  held' \in [Actor -> S]
OBVIOUS

\* A server is taken out of app.mcSrv into the event loop's hands.
LEMMA TakenType ==
    ASSUME AppTypeOK, NEW now, TakeServer(now)
    PROVE  srv' \in 0 .. started /\ held' \in [Actor -> 0 .. started]
<1>1. srv \in 0 .. started /\ held \in [Actor -> 0 .. started] /\ started \in Nat
  BY SettingsAssumption DEF AppTypeOK
<1>2. held' = [held EXCEPT !["window"] = srv] /\ srv' = 0
  BY DEF TakeServer
<1>3. held' \in [Actor -> 0 .. started] BY <1>1, <1>2, HeldType
<1>4. srv' \in 0 .. started BY <1>1, <1>2
<1> QED BY <1>3, <1>4

\* Waiting for the end of a server empties the event loop's hands.
LEMMA StoppedType ==
    ASSUME AppTypeOK, StopServer
    PROVE  procs' \subseteq 1 .. started /\ held' \in [Actor -> 0 .. started]
<1>1. held \in [Actor -> 0 .. started] /\ started \in Nat /\ procs \subseteq 1 .. started
  BY SettingsAssumption DEF AppTypeOK
<1>2. held' = [held EXCEPT !["window"] = 0] /\ procs' \subseteq procs
  BY DEF StopServer
<1>3. 0 \in 0 .. started BY <1>1
<1>4. held' \in [Actor -> 0 .. started] BY <1>1, <1>2, <1>3, HeldType
<1>5. procs' \subseteq 1 .. started BY <1>1, <1>2
<1> QED BY <1>4, <1>5

\* So does each step of the event loop.
LEMMA WindowType == ASSUME AppTypeOK, Window PROVE AppTypeOK'
<1> USE SettingsAssumption DEF AppTypeOK, At, Does, Actor, agentVars, gameVars
<1>1. CASE SaveSettings
  <2>1. saves' \in 0 .. MaxSaves BY <1>1 DEF SaveSettings
  <2>2. PICK s \in Settings :
          cfg' = s /\ Does("window", IF s # cfg THEN "write" ELSE "rewrite")
    BY <1>1 DEF SaveSettings
  <2> QED BY <1>1, <2>1, <2>2 DEF SaveSettings
<1>2. CASE WriteSettings
  <2>1. unsaved' \in BOOLEAN BY <1>2 DEF WriteSettings
  <2>2. PICK now \in {"cancel", "ready"} : Does("window", now) BY <1>2 DEF WriteSettings
  <2> QED BY <1>2, <2>1, <2>2 DEF WriteSettings
<1>3. CASE SignalCancel BY <1>3 DEF SignalCancel, Cancelled
<1>4. CASE SignalWake BY <1>4 DEF SignalWake, Wakes
<1>5. CASE StopGame
  <2>1. TakeServer("stop") BY <1>5 DEF StopGame
  <2>2. srv' \in 0 .. started /\ held' \in [Actor -> 0 .. started] BY <2>1, TakenType
  <2> QED BY <1>5, <2>2 DEF StopGame, TakeServer
<1>6. CASE StopWaits
  <2>1. procs' \subseteq 1 .. started /\ held' \in [Actor -> 0 .. started]
    BY <1>6, StoppedType DEF StopWaits
  <2> QED BY <1>6, <2>1 DEF StopWaits, StopServer
<1>7. CASE Quit
  <2>1. TakeServer("close") BY <1>7 DEF Quit, QuitTakes
  <2>2. srv' \in 0 .. started /\ held' \in [Actor -> 0 .. started] BY <2>1, TakenType
  <2> QED BY <1>7, <2>2 DEF Quit, QuitTakes, TakeServer, Cancelled
<1>8. CASE QuitCloses
  <2>1. procs' \subseteq 1 .. started /\ held' \in [Actor -> 0 .. started]
    BY <1>8, StoppedType DEF QuitCloses
  <2> QED BY <1>8, <2>1 DEF QuitCloses, StopServer
<1>9. CASE Exit BY <1>9 DEF Exit
<1> QED BY <1>1, <1>2, <1>3, <1>4, <1>5, <1>6, <1>7, <1>8, <1>9 DEF Window

\* So does whoever starts a server.
LEMMA LaunchType == ASSUME AppTypeOK, NEW a \in Actor, Launches(a) PROVE AppTypeOK'
<1> USE SettingsAssumption DEF AppTypeOK, Does, Actor, agentVars, gameVars
<1>1. CASE StartGame(a) BY <1>1 DEF StartGame, Ready
<1>2. CASE SpawnServer(a) BY <1>2 DEF SpawnServer
<1>3. CASE SpawnFails(a) BY <1>3 DEF SpawnFails, After
<1>4. CASE AssignServer(a) BY <1>4 DEF AssignServer, After
<1> QED BY <1>1, <1>2, <1>3, <1>4 DEF Launches

\* The types are inductive.
LEMMA NextType == AppTypeOK /\ [Next]_vars => AppTypeOK'
<1> SUFFICES ASSUME AppTypeOK, [Next]_vars PROVE AppTypeOK'
    OBVIOUS
<1>1. CASE UNCHANGED vars BY <1>1 DEF AppTypeOK, vars, agentVars, gameVars
<1>2. CASE AgentLoop BY <1>2, AgentLoopType
<1>3. CASE Window BY <1>3, WindowType
<1>4. CASE HookEnds BY <1>4 DEF HookEnds, Does, AppTypeOK, Actor, agentVars, gameVars
<1>5. ASSUME NEW a \in Actor, Launches(a) PROVE AppTypeOK'
  BY <1>5, LaunchType
<1>6. ASSUME NEW p \in Server, ServerEnds(p) PROVE AppTypeOK'
  BY <1>6 DEF ServerEnds, AppTypeOK, agentVars
<1> QED BY <1>1, <1>2, <1>3, <1>4, <1>5, <1>6 DEF Next, Launches

\* The application's state keeps its types, and app.cancel is set only while
\* an agent runs or has just ended.
THEOREM AppTypeCorrect == Spec => []AppTypeOK
BY InitType, NextType, PTL DEF Spec

-----------------------------------------------------------------------------
(* Settings                                                                *)

\* A token waits for an agent that has other settings, or it is cancelled.
TokenWaits ==
    /\ ~unsaved /\ ~Saving
    /\ loop \in {"dial", "dialed", "publish", "run"}
    /\ opts # cfg
    => restart \/ cancel = "called"

\* An agent with other settings that signalRestart did not cancel, although it
\* has looked for one, was past agentLoop's check and is marked as such.
SlipsAreSeen ==
    ~unsaved /\ opts # cfg /\ doing["window"] \notin {"write", "cancel"} =>
        /\ loop = "publish" => slipped
        /\ loop = "run" => cancel = "called" \/ slipped

RestartInv ==
    /\ loop = "run" => cancel # "none"
    /\ TokenWaits
    /\ SlipsAreSeen

\* No step of agentLoop forgets changed settings: the only one that takes a
\* token with an agent at hand drops that agent.
LEMMA AgentLoopRemembers ==
    ASSUME AppTypeOK, RestartInv, AgentLoop PROVE RestartInv'
<1> USE DEF AppTypeOK, RestartInv, TokenWaits, SlipsAreSeen, Saving, Moves
<1>1. CASE LoopTop BY <1>1 DEF LoopTop
<1>2. CASE LoopOptions BY <1>2 DEF LoopOptions
<1>3. CASE DialFails BY <1>3 DEF DialFails
<1>4. CASE DialSucceeds BY <1>4 DEF DialSucceeds
<1>5. CASE LoopStale BY <1>5 DEF LoopStale, AfterToken
<1>6. CASE LoopPublish BY <1>6 DEF LoopPublish
<1>7. CASE RunCancelled BY <1>7 DEF RunCancelled
<1>8. CASE RunBreaks BY <1>8 DEF RunBreaks
<1>9. CASE LoopClear BY <1>9 DEF LoopClear
<1>10. CASE LoopWait BY <1>10 DEF LoopWait
<1>11. CASE LoopWoken BY <1>11 DEF LoopWoken
<1> QED BY <1>1, <1>2, <1>3, <1>4, <1>5, <1>6, <1>7, <1>8, <1>9, <1>10, <1>11
        DEF AgentLoop

\* Nor does one of the event loop: while it saves nothing is claimed, and it
\* ends with a token in restartCh.
LEMMA WindowRemembers ==
    ASSUME AppTypeOK, RestartInv, Window PROVE RestartInv'
<1> USE DEF AppTypeOK, RestartInv, TokenWaits, SlipsAreSeen, Saving, At, Does, Actor, agentVars
<1>1. CASE SaveSettings BY <1>1 DEF SaveSettings
<1>2. CASE WriteSettings BY <1>2 DEF WriteSettings
<1>3. CASE SignalCancel BY <1>3 DEF SignalCancel, Cancelled
<1>4. CASE SignalWake BY <1>4 DEF SignalWake, Wakes
<1>5. CASE StopGame BY <1>5 DEF StopGame, TakeServer
<1>6. CASE StopWaits BY <1>6 DEF StopWaits, StopServer
<1>7. CASE Quit BY <1>7 DEF Quit, QuitTakes, TakeServer, Cancelled
<1>8. CASE QuitCloses BY <1>8 DEF QuitCloses, StopServer
<1>9. CASE Exit BY <1>9 DEF Exit
<1> QED BY <1>1, <1>2, <1>3, <1>4, <1>5, <1>6, <1>7, <1>8, <1>9 DEF Window

\* Starting a server disturbs neither the agent nor a save in progress.
LEMMA LaunchRemembers ==
    ASSUME AppTypeOK, RestartInv, NEW a \in Actor, Launches(a)
    PROVE  RestartInv'
<1> USE DEF AppTypeOK, RestartInv, TokenWaits, SlipsAreSeen, Saving, Does, Actor, agentVars
<1>1. CASE StartGame(a) BY <1>1 DEF StartGame, Ready
<1>2. CASE SpawnServer(a) BY <1>2 DEF SpawnServer
<1>3. CASE SpawnFails(a) BY <1>3 DEF SpawnFails, After
<1>4. CASE AssignServer(a) BY <1>4 DEF AssignServer, After
<1> QED BY <1>1, <1>2, <1>3, <1>4 DEF Launches

\* RestartInv is inductive relative to the types.
LEMMA NextRemembers == AppTypeOK /\ RestartInv /\ [Next]_vars => RestartInv'
<1> SUFFICES ASSUME AppTypeOK, RestartInv, [Next]_vars PROVE RestartInv'
    OBVIOUS
<1>1. CASE UNCHANGED vars BY <1>1 DEF RestartInv, TokenWaits, SlipsAreSeen, Saving, vars, agentVars
<1>2. CASE AgentLoop BY <1>2, AgentLoopRemembers
<1>3. CASE Window BY <1>3, WindowRemembers
<1>4. CASE HookEnds
  BY <1>4 DEF HookEnds, Does, AppTypeOK, RestartInv, TokenWaits, SlipsAreSeen, Saving, Actor,
        agentVars
<1>5. ASSUME NEW a \in Actor, Launches(a) PROVE RestartInv'
  BY <1>5, LaunchRemembers
<1>6. ASSUME NEW p \in Server, ServerEnds(p) PROVE RestartInv'
  BY <1>6 DEF ServerEnds, RestartInv, TokenWaits, SlipsAreSeen, Saving, agentVars
<1> QED BY <1>1, <1>2, <1>3, <1>4, <1>5, <1>6 DEF Next, Launches

\* Changed settings are never forgotten (signalRestart and agentLoop's stale
\* check): an agent that has others is discarded or cancelled, unless the
\* signal slipped between the check and the publication of its cancel; a
\* token then waits for its end.
THEOREM SettingsAreRemembered == Spec => []RestartPending
<1>1. Init => RestartInv
  BY DEF Init, RestartInv, TokenWaits, SlipsAreSeen
<1>2. AppTypeOK /\ RestartInv => RestartPending
  BY DEF AppTypeOK, RestartInv, TokenWaits, SlipsAreSeen, RestartPending, Saving
<1> QED BY <1>1, <1>2, AppTypeCorrect, NextRemembers, PTL DEF Spec

\* Settings saved the moment agentLoop has found none wake it: while it sits
\* idle although there are settings, a token waits for it, or the event loop is
\* about to put one there (restartCh is buffered, so none is lost).
NoLostWakeUp == loop = "idle" /\ cfg # Unset /\ ~unsaved => restart \/ Saving

\* A step of agentLoop enters idle without settings, and takes a token with it
\* when it leaves.
LEMMA AgentLoopWakes == ASSUME AppTypeOK, NoLostWakeUp, AgentLoop PROVE NoLostWakeUp'
BY DEF NoLostWakeUp, Saving, AgentLoop, Moves, LoopTop, LoopOptions, DialFails, DialSucceeds,
   LoopStale, AfterToken, LoopPublish, RunCancelled, RunBreaks, LoopClear, LoopWait, LoopWoken

\* The event loop ends a save with a token.
LEMMA WindowWakes == ASSUME AppTypeOK, NoLostWakeUp, Window PROVE NoLostWakeUp'
<1> USE DEF AppTypeOK, NoLostWakeUp, Saving, At, Does, Actor, agentVars
<1>1. CASE SaveSettings BY <1>1 DEF SaveSettings
<1>2. CASE WriteSettings BY <1>2 DEF WriteSettings
<1>3. CASE SignalCancel BY <1>3 DEF SignalCancel
<1>4. CASE SignalWake BY <1>4 DEF SignalWake, Wakes
<1>5. CASE StopGame BY <1>5 DEF StopGame, TakeServer
<1>6. CASE StopWaits BY <1>6 DEF StopWaits, StopServer
<1>7. CASE Quit BY <1>7 DEF Quit, QuitTakes, TakeServer
<1>8. CASE QuitCloses BY <1>8 DEF QuitCloses, StopServer
<1>9. CASE Exit BY <1>9 DEF Exit
<1> QED BY <1>1, <1>2, <1>3, <1>4, <1>5, <1>6, <1>7, <1>8, <1>9 DEF Window

\* Whoever starts a server is not in the middle of a save.
LEMMA LaunchWakes ==
    ASSUME AppTypeOK, NoLostWakeUp, NEW a \in Actor, Launches(a)
    PROVE  NoLostWakeUp'
<1> USE DEF AppTypeOK, NoLostWakeUp, Saving, Does, Actor, agentVars
<1>1. CASE StartGame(a) BY <1>1 DEF StartGame, Ready
<1>2. CASE SpawnServer(a) BY <1>2 DEF SpawnServer
<1>3. CASE SpawnFails(a) BY <1>3 DEF SpawnFails, After
<1>4. CASE AssignServer(a) BY <1>4 DEF AssignServer, After
<1> QED BY <1>1, <1>2, <1>3, <1>4 DEF Launches

\* agentLoop never sleeps through settings (its wait for restartCh, against
\* saveSettings and signalRestart): what makes an agent come up at all.
THEOREM WakeUpsAreNotLost == Spec => []NoLostWakeUp
<1>1. Init => NoLostWakeUp
  BY DEF Init, NoLostWakeUp
<1>2. AppTypeOK /\ NoLostWakeUp /\ [Next]_vars => NoLostWakeUp'
  <2> SUFFICES ASSUME AppTypeOK, NoLostWakeUp, [Next]_vars PROVE NoLostWakeUp'
    OBVIOUS
  <2>1. CASE UNCHANGED vars BY <2>1 DEF NoLostWakeUp, Saving, vars, agentVars
  <2>2. CASE AgentLoop BY <2>2, AgentLoopWakes
  <2>3. CASE Window BY <2>3, WindowWakes
  <2>4. CASE HookEnds
    BY <2>4 DEF HookEnds, Does, AppTypeOK, NoLostWakeUp, Saving, Actor, agentVars
  <2>5. ASSUME NEW a \in Actor, Launches(a) PROVE NoLostWakeUp'
    BY <2>5, LaunchWakes
  <2>6. ASSUME NEW p \in Server, ServerEnds(p) PROVE NoLostWakeUp'
    BY <2>6 DEF ServerEnds, NoLostWakeUp, Saving, agentVars
  <2> QED BY <2>1, <2>2, <2>3, <2>4, <2>5, <2>6 DEF Next, Launches
<1> QED BY <1>1, <1>2, AppTypeCorrect, PTL DEF Spec

-----------------------------------------------------------------------------
(* Dedicated servers                                                       *)

\* Without the hook: what the event loop holds and knows at each place.  It
\* starts a server only if none runs, and what it stops it took out of
\* app.mcSrv; once quitCh is closed, only late servers run.
GameInv ==
    ~hook =>
        /\ doing["hook"] = "done"
        /\ procs \subseteq {srv, held["window"]}
        /\ \A p, q \in procs : p = q
        /\ doing["window"] \in {"assign", "stop", "close"} \/ held["window"] = 0
        /\ doing["window"] = "start" => procs = {}
        /\ doing["window"] = "assign" => srv \notin procs
        /\ doing["window"] \in {"stop", "close"} => srv = 0
        /\ doing["window"] = "close" <=> quit = "begun"
        /\ doing["window"] = "exited" => quit = "closed"
        /\ quit = "closed" => procs \subseteq late

\* The application starts without a server.
LEMMA InitGame == Init => GameInv
BY DEF Init, GameInv, Actor

\* agentLoop has nothing to do with servers.
LEMMA AgentLoopGame == ASSUME GameInv, AgentLoop PROVE GameInv'
BY DEF GameInv, AgentLoop, Moves, gameVars, LoopTop, LoopOptions, DialFails, DialSucceeds,
       LoopStale, LoopPublish, RunCancelled, RunBreaks, LoopClear, LoopWait, LoopWoken

\* The event loop stops a server it has taken before it does anything else.
LEMMA WindowGame == ASSUME AppTypeOK, GameInv, Window PROVE GameInv'
<1>1. /\ doing = [x \in Actor |-> doing[x]]
      /\ held = [x \in Actor |-> held[x]]
  BY SettingsAssumption DEF AppTypeOK
<1>2. 0 \notin procs BY SettingsAssumption DEF AppTypeOK
<1> USE DEF GameInv, At, Does, Actor, gameVars
<1>3. CASE SaveSettings BY <1>1, <1>3 DEF SaveSettings
<1>4. CASE WriteSettings BY <1>1, <1>4 DEF WriteSettings
<1>5. CASE SignalCancel BY <1>1, <1>5 DEF SignalCancel
<1>6. CASE SignalWake BY <1>1, <1>6 DEF SignalWake
<1>7. CASE StopGame BY <1>1, <1>2, <1>7 DEF StopGame, TakeServer
<1>8. CASE StopWaits BY <1>1, <1>2, <1>8 DEF StopWaits, StopServer
<1>9. CASE Quit BY <1>1, <1>2, <1>9 DEF Quit, QuitTakes, TakeServer
<1>10. CASE QuitCloses BY <1>1, <1>2, <1>10 DEF QuitCloses, StopServer
<1>11. CASE Exit BY <1>1, <1>11 DEF Exit
<1> QED BY <1>3, <1>4, <1>5, <1>6, <1>7, <1>8, <1>9, <1>10, <1>11 DEF Window

\* Where no server runs, the next one started is the only one, and stored.
LEMMA LaunchGame == ASSUME AppTypeOK, GameInv, NEW a \in Actor, Launches(a) PROVE GameInv'
<1>1. /\ doing = [x \in Actor |-> doing[x]]
      /\ held = [x \in Actor |-> held[x]]
  BY SettingsAssumption DEF AppTypeOK
<1>2. started \in Nat /\ srv \in 0 .. started /\ 0 \notin procs
  BY SettingsAssumption DEF AppTypeOK
<1>3. ~hook => a = "window"
  BY DEF Launches, StartGame, Ready, SpawnServer, SpawnFails, AssignServer, GameInv, Actor
<1> USE DEF GameInv, Does, Actor, gameVars
<1>4. CASE StartGame(a) BY <1>1, <1>2, <1>3, <1>4 DEF StartGame, Ready, Already
<1>5. CASE SpawnServer(a)
  <2> SUFFICES ASSUME ~hook PROVE GameInv'
    BY <1>5 DEF SpawnServer
  <2>1. /\ a = "window" /\ doing["window"] = "start" /\ procs = {}
        /\ started' = started + 1 /\ srv # started' /\ srv' = srv
        /\ procs' = {started'} /\ hook' = hook /\ quit' = quit
    BY <1>2, <1>3, <1>5 DEF SpawnServer
  <2>2. /\ held'["window"] = started'
        /\ doing'["window"] = "assign" /\ doing'["hook"] = "done"
    BY <1>1, <1>5, <2>1 DEF SpawnServer
  <2>3. quit = "closed" => started' \in late'
    BY <1>5 DEF SpawnServer
  <2> QED BY <2>1, <2>2, <2>3
<1>6. CASE SpawnFails(a) BY <1>1, <1>3, <1>6 DEF SpawnFails, After
<1>7. CASE AssignServer(a) BY <1>1, <1>3, <1>7 DEF AssignServer, After
<1> QED BY <1>4, <1>5, <1>6, <1>7 DEF Launches

\* GameInv is inductive relative to the types.
LEMMA NextGame == AppTypeOK /\ GameInv /\ [Next]_vars => GameInv'
<1> SUFFICES ASSUME AppTypeOK, GameInv, [Next]_vars PROVE GameInv'
    OBVIOUS
<1>1. CASE UNCHANGED vars BY <1>1 DEF GameInv, vars, gameVars
<1>2. CASE AgentLoop BY <1>2, AgentLoopGame
<1>3. CASE Window BY <1>3, WindowGame
<1>4. CASE HookEnds
  <2>1. doing["hook"] = "ready" /\ hook' = hook BY <1>4 DEF HookEnds
  <2> QED BY <1>4, <2>1 DEF HookEnds, Does, AppTypeOK, GameInv, Actor, gameVars
<1>5. ASSUME NEW a \in Actor, Launches(a) PROVE GameInv'
  BY <1>5, LaunchGame
<1>6. ASSUME NEW p \in Server, ServerEnds(p) PROVE GameInv'
  BY <1>6 DEF ServerEnds, GameInv
<1> QED BY <1>1, <1>2, <1>3, <1>4, <1>5, <1>6 DEF Next, Launches

\* A set without two different members has at most one.
LEMMA AtMostOne ==
    ASSUME NEW S, \A p, q \in S : p = q PROVE Cardinality(S) <= 1
<1>1. CASE S = {} BY <1>1, FS_EmptySet
<1>2. CASE S # {}
  <2>1. PICK p \in S : S = {p} BY <1>2
  <2>2. Cardinality({p}) = 1 BY FS_Singleton
  <2> QED BY <2>1, <2>2
<1> QED BY <1>1, <1>2

\* The panel shows and can stop every running server, and there is at most one
\* (startGame, stopGame), if the application was started without the hook.
THEOREM ServersAreKnown == Spec => []ServerIsKnown
<1>1. GameInv => ServerIsKnown
  BY AtMostOne DEF GameInv, ServerIsKnown
<1> QED BY <1>1, InitGame, AppTypeCorrect, NextGame, PTL DEF Spec

\* No server that was started before quitting began outlives the application
\* (quit), if it was started without the hook.
THEOREM QuitLeavesNoServer == Spec => []QuitStopsServer
<1>1. GameInv => QuitStopsServer
  BY DEF GameInv, QuitStopsServer, Running
<1> QED BY <1>1, InitGame, AppTypeCorrect, NextGame, PTL DEF Spec

-----------------------------------------------------------------------------
(* Quitting: the event loop between the window and the tray (Shell)        *)

\* Is there a quit in a channel?
QuitIn(queue) == \E i \in 1 .. Len(queue) : queue[i] = "quit"

\* A quit is on its way to the event loop.
QuitOnItsWay == QuitIn(actions) \/ QuitIn(menu) \/ relay = "quit"

ShellTypeOK ==
    /\ actions \in Seq({"quit", "other"})
    /\ menu \in Seq({"open", "quit"})
    /\ relay \in {"none", "open", "quit", "closed"}
    /\ shell \in {"select", "window", "tray", "exit"}
    /\ quitting \in BOOLEAN /\ stopped \in BOOLEAN /\ wanted \in BOOLEAN

\* Neither channel ever holds more than it has slots, so that the threads of
\* the window and the tray never block on one (Host.actions, Tray.selCh).
QueuesFit == Len(actions) <= ActionSlots /\ Len(menu) <= MenuSlots

\* The tray outlives the event loop's select: doneCh and selCh are not closed
\* under it, so that it does not quit for that reason.
TrayOutlives ==
    shell \in {"select", "window"} =>
        ~stopped /\ tray \notin {"asked", "gone"} /\ relay # "closed"

\* No quit is lost: one that was not dropped has been taken, or is on its way
\* to an event loop that still takes what is on its way.
QuitIsKept == wanted /\ shell = "select" => quitting \/ QuitOnItsWay

\* Nothing but a quit, or a window that ended, makes the application quit; it
\* does not leave its loop without.
QuitIsMeant ==
    /\ QuitOnItsWay => wanted
    /\ quitting /\ shell = "select" => wanted \/ window = "gone"
    /\ shell # "select" => quitting

ShellInv == ShellTypeOK /\ QueuesFit /\ TrayOutlives /\ QuitIsKept /\ QuitIsMeant

\* What a channel holds after a send,
LEMMA SendToQueue ==
    ASSUME NEW D, NEW queue \in Seq(D), NEW item \in D
    PROVE  /\ Append(queue, item) \in Seq(D)
           /\ Len(Append(queue, item)) = Len(queue) + 1
           /\ QuitIn(Append(queue, item)) <=> QuitIn(queue) \/ item = "quit"
<1>1. /\ Append(queue, item) \in Seq(D)
      /\ Len(queue) \in Nat /\ Len(Append(queue, item)) = Len(queue) + 1
      /\ \A i \in 1 .. Len(queue) : Append(queue, item)[i] = queue[i]
      /\ Append(queue, item)[Len(queue) + 1] = item
    OBVIOUS
<1> QED BY <1>1 DEF QuitIn

\* and after a receive.
LEMMA ReceiveFromQueue ==
    ASSUME NEW D, NEW queue \in Seq(D), queue # <<>>
    PROVE  /\ Head(queue) \in D /\ Tail(queue) \in Seq(D)
           /\ Len(Tail(queue)) = Len(queue) - 1
           /\ QuitIn(queue) <=> Head(queue) = "quit" \/ QuitIn(Tail(queue))
<1>1. /\ Head(queue) \in D /\ Tail(queue) \in Seq(D)
      /\ Len(queue) \in Nat \ {0} /\ Len(Tail(queue)) = Len(queue) - 1
      /\ Head(queue) = queue[1]
      /\ \A i \in 1 .. Len(queue) - 1 : Tail(queue)[i] = queue[i + 1]
    OBVIOUS
<1>2. ASSUME QuitIn(queue) PROVE Head(queue) = "quit" \/ QuitIn(Tail(queue))
  <2>1. PICK i \in 1 .. Len(queue) : queue[i] = "quit"
    BY <1>2 DEF QuitIn
  <2>2. CASE i = 1 BY <1>1, <2>1, <2>2
  <2>3. CASE i # 1
    <3>1. i - 1 \in 1 .. Len(queue) - 1 /\ Tail(queue)[i - 1] = "quit"
      BY <1>1, <2>1, <2>3
    <3> QED BY <1>1, <3>1 DEF QuitIn
  <2> QED BY <2>2, <2>3
<1>3. ASSUME Head(queue) = "quit" \/ QuitIn(Tail(queue)) PROVE QuitIn(queue)
    BY <1>1, <1>3 DEF QuitIn
<1> QED BY <1>1, <1>2, <1>3

\* The application starts with nothing to take.
LEMMA ShellStarts == ShellInit => ShellInv
<1> SUFFICES ASSUME ShellInit PROVE ShellInv
    OBVIOUS
<1>1. ~QuitIn(actions) /\ ~QuitIn(menu) /\ relay = "none"
    BY DEF ShellInit, QuitIn
<1>2. ShellTypeOK
  <2>1. actions \in Seq({"quit", "other"}) /\ menu \in Seq({"open", "quit"})
    BY DEF ShellInit
  <2>2. quitting \in BOOLEAN /\ stopped \in BOOLEAN /\ wanted \in BOOLEAN
    BY DEF ShellInit
  <2>3. relay \in {"none", "open", "quit", "closed"} /\ shell = "select"
    BY DEF ShellInit
  <2> QED BY <2>1, <2>2, <2>3 DEF ShellTypeOK
<1>3. QueuesFit
    BY ShellAssumption DEF ShellInit, QueuesFit
<1>4. TrayOutlives
    BY DEF ShellInit, TrayOutlives
<1>5. QuitIsKept /\ QuitIsMeant
    BY <1>1 DEF ShellInit, QuitIsKept, QuitIsMeant, QuitOnItsWay
<1> QED BY <1>2, <1>3, <1>4, <1>5 DEF ShellInv

\* The window puts a click into its channel, or drops it.
LEMMA WindowActionSends ==
    ASSUME ShellTypeOK, WindowAction
    PROVE  \/ UNCHANGED <<actions, wanted>>
           \/ /\ Len(actions) < ActionSlots
              /\ actions' \in Seq({"quit", "other"}) /\ Len(actions') = Len(actions) + 1
              /\ \/ QuitIn(actions') /\ wanted'
                 \/ (QuitIn(actions') <=> QuitIn(actions)) /\ wanted' = wanted
<1>1. PICK act \in {"quit", "other"} :
        IF Len(actions) < ActionSlots
        THEN actions' = Append(actions, act) /\ wanted' = (wanted \/ act = "quit")
        ELSE UNCHANGED <<actions, wanted>>
    BY DEF WindowAction
<1>2. CASE Len(actions) < ActionSlots
  <2>1. actions \in Seq({"quit", "other"}) /\ wanted \in BOOLEAN
    BY DEF ShellTypeOK
  <2>2. /\ Append(actions, act) \in Seq({"quit", "other"})
        /\ Len(Append(actions, act)) = Len(actions) + 1
        /\ QuitIn(Append(actions, act)) <=> QuitIn(actions) \/ act = "quit"
    BY <2>1, SendToQueue
  <2>3. actions' = Append(actions, act)
    BY <1>1, <1>2
  <2>4. CASE act = "quit"
    BY <1>1, <1>2, <2>2, <2>3, <2>4
  <2>5. CASE act # "quit"
    <3>1. wanted' = wanted
      BY <1>1, <1>2, <2>1, <2>5
    <3> QED BY <1>2, <2>2, <2>3, <2>5, <3>1
  <2> QED BY <2>4, <2>5
<1>3. CASE ~(Len(actions) < ActionSlots)
    BY <1>1, <1>3
<1> QED BY <1>2, <1>3

\* The tray likewise.
LEMMA MenuChoiceSends ==
    ASSUME ShellTypeOK, MenuChoice
    PROVE  \/ UNCHANGED <<menu, wanted>>
           \/ /\ Len(menu) < MenuSlots
              /\ menu' \in Seq({"open", "quit"}) /\ Len(menu') = Len(menu) + 1
              /\ \/ QuitIn(menu') /\ wanted'
                 \/ (QuitIn(menu') <=> QuitIn(menu)) /\ wanted' = wanted
<1>1. PICK id \in {"open", "quit"} :
        IF Len(menu) < MenuSlots
        THEN menu' = Append(menu, id) /\ wanted' = (wanted \/ id = "quit")
        ELSE UNCHANGED <<menu, wanted>>
    BY DEF MenuChoice
<1>2. CASE Len(menu) < MenuSlots
  <2>1. menu \in Seq({"open", "quit"}) /\ wanted \in BOOLEAN
    BY DEF ShellTypeOK
  <2>2. /\ Append(menu, id) \in Seq({"open", "quit"})
        /\ Len(Append(menu, id)) = Len(menu) + 1
        /\ QuitIn(Append(menu, id)) <=> QuitIn(menu) \/ id = "quit"
    BY <2>1, SendToQueue
  <2>3. menu' = Append(menu, id)
    BY <1>1, <1>2
  <2>4. CASE id = "quit"
    BY <1>1, <1>2, <2>2, <2>3, <2>4
  <2>5. CASE id # "quit"
    <3>1. wanted' = wanted
      BY <1>1, <1>2, <2>1, <2>5
    <3> QED BY <1>2, <2>2, <2>3, <2>5, <3>1
  <2> QED BY <2>4, <2>5
<1>3. CASE ~(Len(menu) < MenuSlots)
    BY <1>1, <1>3
<1> QED BY <1>2, <1>3

\* What a step does to the channels, and what it does to the event loop, keeps
\* each its part of the types.
LEMMA ShellTypes ==
    ASSUME ShellInv, ShellNext PROVE ShellTypeOK' /\ QueuesFit'
<1> USE ShellAssumption DEF ShellInv, ShellTypeOK, QueuesFit
<1>1. CASE WindowAction
  <2>1. wanted' \in BOOLEAN /\ UNCHANGED <<menu, relay, shell, quitting, stopped>>
    BY <1>1 DEF WindowAction
  <2>2. actions' \in Seq({"quit", "other"}) /\ Len(actions') <= ActionSlots
    BY <1>1, <2>1, WindowActionSends
  <2> QED BY <2>1, <2>2
<1>2. CASE MenuChoice
  <2>1. wanted' \in BOOLEAN /\ UNCHANGED <<actions, relay, shell, quitting, stopped>>
    BY <1>2 DEF MenuChoice
  <2>2. menu' \in Seq({"open", "quit"}) /\ Len(menu') <= MenuSlots
    BY <1>2, <2>1, MenuChoiceSends
  <2> QED BY <2>1, <2>2
<1>3. CASE CloseButton \/ WindowEnds \/ Hangs \/ TrayStarts
    BY <1>3 DEF CloseButton, WindowEnds, Hangs, TrayStarts
<1>4. CASE TrayQuits \/ StopTray \/ ShellExit
  <2>1. stopped' \in BOOLEAN
    BY <1>4 DEF TrayQuits, StopTray, ShellExit
  <2>2. /\ UNCHANGED <<actions, menu, relay, quitting, wanted>>
        /\ shell' \in {"select", "window", "tray", "exit"}
    BY <1>4 DEF TrayQuits, StopTray, ShellExit
  <2> QED BY <2>1, <2>2
<1>5. CASE Relays
  <2>1. UNCHANGED <<actions, shell, quitting, stopped, wanted>>
    BY <1>5 DEF Relays
  <2>2. /\ relay' \in {"none", "open", "quit", "closed"}
        /\ menu' \in Seq({"open", "quit"}) /\ Len(menu') <= MenuSlots
    BY <1>5, ReceiveFromQueue DEF Relays
  <2> QED BY <2>1, <2>2
<1>6. CASE TakeAction
  <2>1. quitting' \in BOOLEAN /\ UNCHANGED <<menu, relay, shell, stopped, wanted>>
    BY <1>6 DEF TakeAction
  <2>2. actions' \in Seq({"quit", "other"}) /\ Len(actions') <= ActionSlots
    BY <1>6, ReceiveFromQueue DEF TakeAction
  <2> QED BY <2>1, <2>2
<1>7. CASE TakeChoice
  <2>1. quitting' \in BOOLEAN /\ UNCHANGED <<actions, menu, shell, stopped, wanted>>
    BY <1>7 DEF TakeChoice
  <2>2. relay' \in {"none", "closed"}
    BY <1>7 DEF TakeChoice
  <2> QED BY <2>1, <2>2
<1>8. CASE TakeWindowDone
    BY <1>8 DEF TakeWindowDone
<1>9. CASE TakeQuit
    BY <1>9 DEF TakeQuit
<1> QED BY <1>1, <1>2, <1>3, <1>4, <1>5, <1>6, <1>7, <1>8, <1>9 DEF ShellNext

\* doneCh and selCh are closed when the event loop asks for it.
LEMMA TrayKept == ASSUME ShellInv, ShellNext PROVE TrayOutlives'
<1> USE DEF ShellInv, ShellTypeOK, TrayOutlives
<1>1. CASE WindowAction \/ CloseButton \/ WindowEnds \/ Hangs \/ TrayStarts \/ MenuChoice
    BY <1>1 DEF WindowAction, CloseButton, WindowEnds, Hangs, TrayStarts, MenuChoice
<1>2. CASE TrayQuits \/ StopTray \/ ShellExit
    BY <1>2 DEF TrayQuits, StopTray, ShellExit
<1>3. CASE Relays
  <2>1. ~stopped => relay' \in {"open", "quit"}
    BY <1>3, ReceiveFromQueue DEF Relays
  <2>2. UNCHANGED <<tray, shell, stopped>>
    BY <1>3 DEF Relays
  <2> QED BY <2>1, <2>2
<1>4. CASE TakeAction \/ TakeChoice \/ TakeWindowDone \/ TakeQuit
    BY <1>4 DEF TakeAction, TakeChoice, TakeWindowDone, TakeQuit
<1> QED BY <1>1, <1>2, <1>3, <1>4 DEF ShellNext

\* A step on a channel takes a quit no further than to the next place.
LEMMA QuitsPass ==
    ASSUME ShellInv, WindowAction \/ MenuChoice \/ Relays \/ TakeAction \/ TakeChoice
    PROVE  QuitIsKept' /\ QuitIsMeant'
<1> USE DEF QuitIsKept, QuitIsMeant, QuitOnItsWay
<1>1. CASE WindowAction
  <2>1. /\ UNCHANGED <<window, menu, relay, shell, quitting>>
        /\ \/ UNCHANGED <<actions, wanted>>
           \/ QuitIn(actions') /\ wanted'
           \/ (QuitIn(actions') <=> QuitIn(actions)) /\ wanted' = wanted
    BY <1>1, WindowActionSends DEF WindowAction, ShellInv, ShellTypeOK
  <2> QED BY <2>1 DEF ShellInv
<1>2. CASE MenuChoice
  <2>1. /\ UNCHANGED <<window, actions, relay, shell, quitting>>
        /\ \/ UNCHANGED <<menu, wanted>>
           \/ QuitIn(menu') /\ wanted'
           \/ (QuitIn(menu') <=> QuitIn(menu)) /\ wanted' = wanted
    BY <1>2, MenuChoiceSends DEF MenuChoice, ShellInv, ShellTypeOK
  <2> QED BY <2>1 DEF ShellInv
<1>3. CASE Relays
  <2>1. /\ UNCHANGED <<window, actions, shell, quitting, wanted>> /\ relay # "quit"
        /\ QuitIn(menu) <=> QuitIn(menu') \/ relay' = "quit"
    BY <1>3, ReceiveFromQueue DEF Relays, ShellInv, ShellTypeOK
  <2> QED BY <2>1 DEF ShellInv
<1>4. CASE TakeAction
  <2>1. /\ UNCHANGED <<window, menu, relay, shell, wanted>> /\ shell = "select"
        /\ \/ QuitIn(actions) /\ quitting' /\ (QuitIn(actions') => QuitIn(actions))
           \/ (QuitIn(actions') <=> QuitIn(actions)) /\ quitting' = quitting
    BY <1>4, ReceiveFromQueue DEF TakeAction, ShellInv, ShellTypeOK
  <2> QED BY <2>1 DEF ShellInv
<1>5. CASE TakeChoice
  <2>1. UNCHANGED <<actions, menu, shell, wanted>> /\ shell = "select"
    BY <1>5 DEF TakeChoice
  <2>2. \/ relay = "quit" /\ quitting' /\ relay' # "quit"
        \/ relay # "quit" /\ quitting' = quitting /\ relay' # "quit"
    BY <1>5 DEF TakeChoice, ShellInv, ShellTypeOK, TrayOutlives
  <2>3. window = "gone" => window' = "gone"
    BY <1>5 DEF TakeChoice
  <2> QED BY <2>1, <2>2, <2>3 DEF ShellInv
<1> QED BY <1>1, <1>2, <1>3, <1>4, <1>5

\* Other steps leave the channels alone, and the event loop leaves select for
\* quitCh only and never comes back.
LEMMA QuitsStay ==
    ASSUME ShellInv,
           \/ CloseButton \/ WindowEnds \/ Hangs \/ TrayStarts \/ TrayQuits
           \/ TakeWindowDone \/ TakeQuit \/ StopTray \/ ShellExit
    PROVE  QuitIsKept' /\ QuitIsMeant'
<1>1. UNCHANGED <<actions, menu, relay, wanted>>
    BY DEF CloseButton, WindowEnds, Hangs, TrayStarts, TrayQuits, TakeWindowDone, TakeQuit,
       StopTray, ShellExit
<1>2. /\ shell' = "select" => shell = "select"
      /\ quitting => quitting'
      /\ shell' = "select" => (quitting' => quitting \/ window' = "gone")
      /\ shell' = "select" => (window = "gone" => window' = "gone")
      /\ shell' # "select" => shell # "select" \/ quitting'
    BY DEF CloseButton, WindowEnds, Hangs, TrayStarts, TrayQuits, TakeWindowDone, TakeQuit,
       StopTray, ShellExit
<1> QED BY <1>1, <1>2 DEF ShellInv, QuitIsKept, QuitIsMeant, QuitOnItsWay

\* The shell's invariant holds throughout.
LEMMA ShellAlways == ShellSpec => []ShellInv
<1>1. ShellInv /\ [ShellNext]_shellVars => ShellInv'
  <2> SUFFICES ASSUME ShellInv, [ShellNext]_shellVars PROVE ShellInv'
    OBVIOUS
  <2>1. CASE UNCHANGED shellVars
    BY <2>1 DEF shellVars, ShellInv, ShellTypeOK, QueuesFit, TrayOutlives, QuitIsKept,
       QuitIsMeant, QuitOnItsWay
  <2>2. CASE ShellNext
    <3>1. QuitIsKept' /\ QuitIsMeant'
      BY <2>2, QuitsPass, QuitsStay DEF ShellNext
    <3> QED BY <2>2, <3>1, ShellTypes, TrayKept DEF ShellInv
  <2> QED BY <2>1, <2>2
<1> QED BY <1>1, ShellStarts, PTL DEF ShellSpec

\* A quit from the window or the tray is not lost between the channels, also
\* when a thread hangs or ends; what remains of "it is taken" is fairness.
THEOREM NoQuitIsLost == ShellSpec => [](QuitIsKept /\ QueuesFit)
BY ShellAlways, PTL DEF ShellInv

\* The application ends only for a quit or an ended window, and the tray is
\* there until it does (run's select over actions, selections, done and quitCh).
THEOREM QuitsForAReason == ShellSpec => [](QuitIsMeant /\ TrayOutlives)
BY ShellAlways, PTL DEF ShellInv
=============================================================================
