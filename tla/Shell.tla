-------------------------------- MODULE Shell --------------------------------
(***************************************************************************)
(* The window, the tray icon and the event loop between them: Host         *)
(* (internal/webviewhost/host.go), Tray (internal/tray/tray.go) and run    *)
(* (cmd/gui/main.go).                                                      *)
(*                                                                         *)
(* Each of the window and the tray has a thread that never blocks: what    *)
(* the user does goes into a channel, or is dropped when that is full.     *)
(* The event loop takes one thing at a time and shuts both down in the     *)
(* end, waiting no longer than two seconds for each: a thread may hang.    *)
(* What the handlers of actions do is in Application.                      *)
(*                                                                         *)
(* A definition nothing uses, before another with the same parameters, is  *)
(* a faulty variant of it (the mutants of PROJECT.json).                   *)
(***************************************************************************)
EXTENDS Naturals, Sequences

CONSTANTS
    ActionSlots,  \* capacity of Host.actions: 16
    MenuSlots,    \* capacity of Tray.selCh: 4
    MaxClicks     \* bound on what the user does

ASSUME ShellAssumption ==
    ActionSlots \in Nat \ {0} /\ MenuSlots \in Nat \ {0} /\ MaxClicks \in Nat

VARIABLES
    window,    \* "shown", "hidden", "asked" to terminate, "gone"
    tray,      \* "new", "shown", "asked" to quit, "gone"
    hung,      \* threads that do not react any more
    actions,   \* h.actions
    menu,      \* t.selCh
    relay,     \* the choice the relaying goroutine offers on selCh, if any
    shell,     \* where the event loop is
    quitting,  \* is quitCh closed?
    stopped,   \* is the tray's doneCh closed?
    wanted,    \* history: a quit that was not dropped
    clicks

shellVars == <<window, tray, hung, actions, menu, relay, shell, quitting, stopped, wanted, clicks>>

ShellInit ==
    /\ window = "shown" /\ tray = "new" /\ hung = {}
    /\ actions = <<>> /\ menu = <<>> /\ relay = "none"
    /\ shell = "select" /\ quitting = FALSE /\ stopped = FALSE /\ wanted = FALSE
    /\ clicks = 0

-----------------------------------------------------------------------------
(* The window                                                              *)

WindowUp == window \in {"shown", "hidden"}

Click ==
    /\ clicks < MaxClicks
    /\ clicks' = clicks + 1

\* handleAction of the host.
WindowAction ==
    /\ Click
    /\ window = "shown" /\ "window" \notin hung
    /\ \E act \in {"quit", "other"} :
        IF Len(actions) < ActionSlots
        THEN /\ actions' = Append(actions, act)
             /\ wanted' = (wanted \/ act = "quit")
        ELSE UNCHANGED <<actions, wanted>>
    /\ UNCHANGED <<window, tray, hung, menu, relay, shell, quitting, stopped>>

\* hostWndProc: closing and minimising hide the window.
CloseButton ==
    /\ window = "shown" /\ "window" \notin hung
    /\ window' = "hidden"
    /\ UNCHANGED <<tray, hung, actions, menu, relay, shell, quitting, stopped, wanted, clicks>>

\* Something else destroys the window, or it does what Terminate asked for.
WindowEnds ==
    /\ window # "gone" /\ "window" \notin hung
    /\ window' = "gone"
    /\ UNCHANGED <<tray, hung, actions, menu, relay, shell, quitting, stopped, wanted, clicks>>

WindowTerminates == window = "asked" /\ WindowEnds

Hangs ==
    /\ \E thread \in {"window", "tray"} : hung' = hung \union {thread}
    /\ UNCHANGED <<window, tray, actions, menu, relay, shell, quitting, stopped, wanted, clicks>>

-----------------------------------------------------------------------------
(* The tray                                                                *)

\* Run creates the message window and adds the icon.
TrayStarts ==
    /\ tray = "new" /\ "tray" \notin hung
    /\ tray' = "shown"
    /\ UNCHANGED <<window, hung, actions, menu, relay, shell, quitting, stopped, wanted, clicks>>

\* showMenu with a choice, or a double click, which opens.
MenuChoice ==
    /\ Click
    /\ tray = "shown" /\ "tray" \notin hung
    /\ \E id \in {"open", "quit"} :
        IF Len(menu) < MenuSlots
        THEN /\ menu' = Append(menu, id)
             /\ wanted' = (wanted \/ id = "quit")
        ELSE UNCHANGED <<menu, wanted>>
    /\ UNCHANGED <<window, tray, hung, actions, relay, shell, quitting, stopped>>

\* The pump gets the posted quit message, and Run returns.
TrayQuits ==
    /\ tray = "asked" /\ "tray" \notin hung
    /\ tray' = "gone"
    /\ stopped' = TRUE
    /\ UNCHANGED <<window, hung, actions, menu, relay, shell, quitting, wanted, clicks>>

\* The goroutine in run that calls Select and offers the choice; it may see
\* doneCh although choices are left, and then closes selCh.
Relays ==
    /\ relay = "none"
    /\ \/ /\ menu # <<>>
          /\ relay' = Head(menu)
          /\ menu' = Tail(menu)
       \/ /\ stopped
          /\ relay' = "closed"
          /\ UNCHANGED menu
    /\ UNCHANGED <<window, tray, hung, actions, shell, quitting, stopped, wanted, clicks>>

-----------------------------------------------------------------------------
(* The event loop of run                                                   *)

\* Handlers of other actions return; quit closes quitCh.
TakeAction ==
    /\ shell = "select"
    /\ actions # <<>>
    /\ actions' = Tail(actions)
    /\ quitting' = (quitting \/ Head(actions) = "quit")
    /\ UNCHANGED <<window, tray, hung, menu, relay, shell, stopped, wanted, clicks>>

TakeChoice ==
    /\ shell = "select"
    /\ relay # "none"
    /\ quitting' = (quitting \/ relay \in {"quit", "closed"})
    /\ window' = IF relay = "open" /\ window = "hidden" /\ "window" \notin hung
                 THEN "shown" ELSE window
    /\ relay' = IF relay = "closed" THEN "closed" ELSE "none"
    /\ UNCHANGED <<tray, hung, actions, menu, shell, stopped, wanted, clicks>>

TakeWindowDone ==
    /\ shell = "select"
    /\ window = "gone"
    /\ quitting' = TRUE
    /\ UNCHANGED <<window, tray, hung, actions, menu, relay, shell, stopped, wanted, clicks>>

\* ui.Close
TakeQuit ==
    /\ shell = "select"
    /\ quitting
    /\ window' = IF WindowUp THEN "asked" ELSE window
    /\ shell' = "window"
    /\ UNCHANGED <<tray, hung, actions, menu, relay, quitting, stopped, wanted, clicks>>

DoneOnly(done) == done
DoneOrTimeout(done) == TRUE

\* tr.Stop; before there is a window it closes doneCh itself.
StopTray ==
    /\ shell = "window"
    /\ DoneOrTimeout(window = "gone")
    /\ tray' = IF tray = "shown" THEN "asked" ELSE tray
    /\ stopped' = (stopped \/ tray = "new")
    /\ shell' = "tray"
    /\ UNCHANGED <<window, hung, actions, menu, relay, quitting, wanted, clicks>>

\* tr.Delete, installPendingUpdate and the end of the process.
ShellExit ==
    /\ shell = "tray"
    /\ DoneOrTimeout(stopped)
    /\ shell' = "exit"
    /\ stopped' = TRUE
    /\ UNCHANGED <<window, tray, hung, actions, menu, relay, quitting, wanted, clicks>>

Alive == shell # "exit"

ShellNext ==
    \/ WindowAction \/ CloseButton \/ WindowEnds \/ Hangs
    \/ TrayStarts \/ MenuChoice \/ TrayQuits \/ Relays
    \/ TakeAction \/ TakeChoice \/ TakeWindowDone \/ TakeQuit \/ StopTray \/ ShellExit

\* Channels are served in turn: select chooses among what is ready at random.
ShellFairness ==
    /\ WF_shellVars(Alive /\ (TrayStarts \/ TrayQuits))
    /\ WF_shellVars(Alive /\ WindowTerminates)
    /\ WF_shellVars(Alive /\ Relays)
    /\ SF_shellVars(TakeAction) /\ SF_shellVars(TakeChoice) /\ SF_shellVars(TakeQuit)
    /\ WF_shellVars(TakeWindowDone) /\ WF_shellVars(StopTray) /\ WF_shellVars(ShellExit)

ShellSpec == ShellInit /\ [][ShellNext]_shellVars /\ ShellFairness

-----------------------------------------------------------------------------
(* Properties                                                              *)

\* Whoever asks to quit, in the window or in the tray's menu, gets the
\* process to end, unless the channel was full and the click dropped: also
\* when the window or the tray hangs, or ends first.
QuitIsTaken == wanted ~> shell = "exit"
=============================================================================
