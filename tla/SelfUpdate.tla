----------------------------- MODULE SelfUpdate -----------------------------
(***************************************************************************)
(* Self-update (internal/update, and checkUpdate, installPendingUpdate and *)
(* the start of run in cmd/gui/main.go): copies of the application, their  *)
(* checks, the temp directory they share, and the install scripts that     *)
(* outlive them.                                                           *)
(*                                                                         *)
(* External, as the code relies on it: an executable cannot be overwritten *)
(* while a copy of it runs, an open file cannot be removed, the command    *)
(* interpreter reads a script line by line, and a copy of the application  *)
(* has exited before its script has slept for a second.                    *)
(*                                                                         *)
(* A definition nothing uses, before another with the same parameters, is  *)
(* a faulty variant of it (the mutants of PROJECT.json).                   *)
(***************************************************************************)
EXTENDS Naturals, Sequences, FiniteSets

CONSTANTS
    Release,      \* the versions the update feed may name
    Shipped,      \* the version that was installed by hand
    MaxStarts,    \* bound on starts by the user
    MaxChecks,    \* bound on checks, in all copies together
    MaxErrors     \* bound on copies that cannot list or remove a file

Version == Release \union {Shipped}

ASSUME VersionAssumption == \A v \in Version : v \in Seq(Nat)
ASSUME BoundAssumption == MaxStarts \in Nat /\ MaxChecks \in Nat /\ MaxErrors \in Nat

\* Every script comes from a check, and starts one copy.
Copy == 1 .. MaxStarts + MaxChecks
Check == 1 .. MaxChecks

Exe(c) == [kind |-> "exe", of |-> c]
Bat(p) == [kind |-> "bat", of |-> p]

VARIABLES
    installed,  \* the version at the path that is run, Broken if it is no program
    temp,       \* what the temp directory has under the name eliauk-update-*
    copies,     \* copies of the application started so far
    status,     \* what each copy does
    ver,        \* the version each copy is
    sweep,      \* what CleanupStale has still to remove
    unswept,    \* history: the copies whose CleanupStale met an error
    staged,     \* app.updExe: the check that downloaded it, 0 if none
    check,      \* the goroutines that run checkUpdate
    script,     \* where the install script of each copy is
    swaps,      \* what it installs
    users,      \* starts by the user so far
    overlap     \* history: did the user ever start a copy while another ran,
                \* or while an install script had not yet relaunched one?

copyVars == <<copies, status, ver, sweep, unswept, users, overlap>>
scriptVars == <<script, swaps>>
vars == <<installed, temp, copyVars, staged, check, scriptVars>>

Broken == <<>>
Alive(p) == status[p] \in {"boot", "sweep", "up", "quit", "exiting"}
NobodyAlive == \A p \in Copy : ~Alive(p)
Scripted(p) == script[p] \in {"wait", "start"}

Init ==
    /\ installed = Shipped
    /\ temp = {}
    /\ copies = 0
    /\ status = [p \in Copy |-> "new"]
    /\ ver = [p \in Copy |-> Shipped]
    /\ sweep = [p \in Copy |-> {}]
    /\ unswept = {}
    /\ staged = [p \in Copy |-> 0]
    /\ check = [c \in Check |-> [at |-> "off", by |-> 0, rel |-> Shipped, whole |-> FALSE]]
    /\ script = [p \in Copy |-> "none"]
    /\ swaps = [p \in Copy |-> 0]
    /\ users = 0
    /\ overlap = FALSE

-----------------------------------------------------------------------------
(* Starting, cleaning up and quitting                                      *)

Launch ==
    /\ copies' = copies + 1
    /\ status' = [status EXCEPT ![copies + 1] = "boot"]
    /\ ver' = [ver EXCEPT ![copies + 1] = installed]

UserStarts ==
    /\ users < MaxStarts
    /\ users' = users + 1
    /\ Launch
    /\ overlap' = (overlap \/ ~NobodyAlive \/ \E p \in Copy : Scripted(p))
    /\ UNCHANGED <<installed, temp, sweep, unswept, staged, check, scriptVars>>

StaleScripts == {t \in temp : t.kind = "bat"}
Stale == temp

SweepError(p) ==
    /\ unswept' = unswept \union {p}
    /\ Cardinality(unswept') <= MaxErrors

\* CleanupStale lists the directory, if that can be read ...
ListStale(p) ==
    /\ status[p] = "boot"
    /\ status' = [status EXCEPT ![p] = "sweep"]
    /\ \/ sweep' = [sweep EXCEPT ![p] = Stale] /\ UNCHANGED unswept
       \/ UNCHANGED sweep /\ SweepError(p)
    /\ UNCHANGED <<installed, temp, copies, ver, staged, check, scriptVars, users, overlap>>

Open(t) == t.kind = "exe" /\ check[t.of].at = "download"

\* ... and removes what it listed.  It ignores the errors of Remove, of which
\* an open file is a certain cause.
RemoveStale(p) ==
    /\ status[p] = "sweep"
    /\ \E t \in sweep[p] :
        /\ sweep' = [sweep EXCEPT ![p] = @ \ {t}]
        /\ \/ temp' = (IF Open(t) THEN temp ELSE temp \ {t}) /\ UNCHANGED unswept
           \/ SweepError(p) /\ UNCHANGED temp
    /\ UNCHANGED <<installed, copies, status, ver, staged, check, scriptVars, users, overlap>>

Ready(p) ==
    /\ status[p] = "sweep"
    /\ sweep[p] = {}
    /\ status' = [status EXCEPT ![p] = "up"]
    /\ UNCHANGED <<installed, temp, copies, ver, sweep, unswept, staged, check, scriptVars,
                   users, overlap>>

\* quit: the teardown in run, during which checks go on.
Quit(p) ==
    /\ status[p] = "up"
    /\ status' = [status EXCEPT ![p] = "quit"]
    /\ UNCHANGED <<installed, temp, copies, ver, sweep, unswept, staged, check, scriptVars,
                   users, overlap>>

\* installPendingUpdate and Install: the script is written and started.
ArmScript(p) ==
    /\ status[p] = "quit"
    /\ staged[p] # 0
    /\ temp' = temp \union {Bat(p)}
    /\ script' = [script EXCEPT ![p] = "wait"]
    /\ swaps' = [swaps EXCEPT ![p] = staged[p]]
    /\ status' = [status EXCEPT ![p] = "exiting"]
    /\ UNCHANGED <<installed, copies, ver, sweep, unswept, staged, check, users, overlap>>

\* What a process had in memory goes with it.
Ends(p) ==
    /\ status' = [status EXCEPT ![p] = "gone"]
    /\ sweep' = [sweep EXCEPT ![p] = {}]
    /\ staged' = [staged EXCEPT ![p] = 0]
    /\ check' = [c \in Check |->
                   IF check[c].by = p THEN [check[c] EXCEPT !.at = "done"] ELSE check[c]]
    /\ UNCHANGED <<installed, temp, copies, ver, unswept, scriptVars, users, overlap>>

\* The end of run: the script was started, there is none, or Install failed.
Exit(p) == status[p] \in {"quit", "exiting"} /\ Ends(p)

Kill(p) == status[p] \in {"boot", "sweep", "up"} /\ Ends(p)

-----------------------------------------------------------------------------
(* checkUpdate                                                             *)

Part(v, i) == IF i \in DOMAIN v THEN v[i] ELSE 0

NotOlder(next, current) ==
    \A i \in DOMAIN next \union DOMAIN current :
        Part(next, i) < Part(current, i) =>
            \E j \in 1 .. i - 1 : Part(next, j) > Part(current, j)

\* The first part that differs decides; what is not there counts as zero.
Newer(next, current) ==
    \E i \in DOMAIN next \union DOMAIN current :
        /\ Part(next, i) > Part(current, i)
        /\ \A j \in 1 .. i - 1 : Part(next, j) = Part(current, j)

\* A goroutine per click on the button.
BeginCheck(p, c) ==
    /\ status[p] = "up"
    /\ check[c].at = "off"
    /\ c > 1 => check[c - 1].at # "off"
    /\ check' = [check EXCEPT ![c].at = "begin", ![c].by = p]
    /\ UNCHANGED <<installed, temp, copyVars, staged, scriptVars>>

At(c, place) == check[c].at = place

\* setUpdate, which sets what is staged and what the user is told as one.
SetUpdate(c, exe) == staged' = [staged EXCEPT ![check[c].by] = exe]

ClearUpdate(c) ==
    /\ At(c, "begin")
    /\ SetUpdate(c, 0)
    /\ check' = [check EXCEPT ![c].at = "fetch"]
    /\ UNCHANGED <<installed, temp, copyVars, scriptVars>>

\* No feed, no answer, no valid signature or no news: any stage may end it.
GiveUp(c) ==
    /\ At(c, "fetch") \/ At(c, "create")
    /\ SetUpdate(c, 0)
    /\ check' = [check EXCEPT ![c].at = "done"]
    /\ UNCHANGED <<installed, temp, copyVars, scriptVars>>

\* Check, Verify and Newer: a manifest worth a download.
FetchManifest(c) ==
    /\ At(c, "fetch")
    /\ \E r \in Release :
        /\ Newer(r, ver[check[c].by])
        /\ check' = [check EXCEPT ![c].at = "create", ![c].rel = r]
    /\ SetUpdate(c, 0)
    /\ UNCHANGED <<installed, temp, copyVars, scriptVars>>

\* Download
CreateTemp(c) ==
    /\ At(c, "create")
    /\ temp' = temp \union {Exe(c)}
    /\ check' = [check EXCEPT ![c].at = "download"]
    /\ UNCHANGED <<installed, copyVars, staged, scriptVars>>

\* The body came to its end without an error, and has the right digest.
Intact(whole) == whole

Downloaded(c) ==
    /\ At(c, "download")
    /\ \E whole \in BOOLEAN :
        /\ Intact(whole)
        /\ check' = [check EXCEPT ![c].at = "stage", ![c].whole = whole]
    /\ UNCHANGED <<installed, temp, copyVars, staged, scriptVars>>

DownloadFails(c) ==
    /\ At(c, "download")
    /\ temp' = temp \ {Exe(c)}
    /\ SetUpdate(c, 0)
    /\ check' = [check EXCEPT ![c].at = "done"]
    /\ UNCHANGED <<installed, copyVars, scriptVars>>

Stage(c) ==
    /\ At(c, "stage")
    /\ SetUpdate(c, c)
    /\ check' = [check EXCEPT ![c].at = "done"]
    /\ UNCHANGED <<installed, temp, copyVars, scriptVars>>

-----------------------------------------------------------------------------
(* The install script (installScript).  Each line is read from the file.   *)

AtLineAtOnce(p, line) == script[p] = line /\ Bat(p) \in temp

AtLine(p, line) ==
    /\ script[p] = line
    /\ status[p] = "gone"
    /\ Bat(p) \in temp

\* What the executable is after copy /y, which fails if the file it copies is
\* gone, or the one it overwrites is in use.
Swapped(p) ==
    IF Exe(swaps[p]) \notin temp \/ ~NobodyAlive THEN installed
    ELSE IF check[swaps[p]].whole THEN check[swaps[p]].rel
    ELSE Broken

OnlyIfCopied(p) == IF Swapped(p) = installed THEN "done" ELSE "start"
Regardless(p) == "start"

CopyLine(p) ==
    /\ AtLine(p, "wait")
    /\ installed' = Swapped(p)
    /\ script' = [script EXCEPT ![p] = Regardless(p)]
    /\ UNCHANGED <<temp, copyVars, staged, check, swaps>>

StartLine(p) ==
    /\ AtLine(p, "start")
    /\ Launch
    /\ script' = [script EXCEPT ![p] = "del"]
    /\ UNCHANGED <<installed, temp, sweep, unswept, staged, check, swaps, users, overlap>>

DelLine(p) ==
    /\ AtLine(p, "del")
    /\ temp' = temp \ {Exe(swaps[p])}
    /\ script' = [script EXCEPT ![p] = "done"]
    /\ UNCHANGED <<installed, copyVars, staged, check, swaps>>

\* The interpreter stops when the file it executes was removed.
NoLine(p) ==
    /\ script[p] \in {"wait", "start", "del"}
    /\ Bat(p) \notin temp
    /\ script' = [script EXCEPT ![p] = "done"]
    /\ UNCHANGED <<installed, temp, copyVars, staged, check, swaps>>

Script(p) == CopyLine(p) \/ StartLine(p) \/ DelLine(p) \/ NoLine(p)

-----------------------------------------------------------------------------

Next ==
    \/ UserStarts
    \/ \E p \in Copy :
        \/ ListStale(p) \/ RemoveStale(p) \/ Ready(p)
        \/ Quit(p) \/ ArmScript(p) \/ Exit(p) \/ Kill(p)
        \/ Script(p)
        \/ \E c \in Check : BeginCheck(p, c)
    \/ \E c \in Check :
        \/ ClearUpdate(c) \/ GiveUp(c) \/ FetchManifest(c)
        \/ CreateTemp(c) \/ Downloaded(c) \/ DownloadFails(c) \/ Stage(c)

Spec == Init /\ [][Next]_vars

\* The system runs a script it has started, and lets a process end.
Fairness == \A p \in Copy : WF_vars(Script(p)) /\ WF_vars(Exit(p))

FairSpec == Spec /\ Fairness

-----------------------------------------------------------------------------
(* Properties                                                              *)

\* "Downloaded, will be installed on exit" (main.go:977): what is staged stays
\* where it is, however many checks ran at once and whatever was killed, and is
\* what the script installs.  Nothing of that holds once the user started a
\* copy while another ran, or so soon after quitting that the install script
\* still waited: its CleanupStale removes executable and script, and the
\* announced update is lost until the next check (UserStarts, ListStale).
PromiseKept ==
    ~overlap => \A p \in Copy :
        /\ Alive(p) /\ staged[p] # 0 => Exe(staged[p]) \in temp
        /\ script[p] = "wait" => {Exe(swaps[p]), Bat(p)} \subseteq temp
        /\ script[p] = "start" => installed = check[swaps[p]].rel

\* Nothing an earlier copy or its script left in the temp directory survives
\* the start of the next one whose CleanupStale meets no error, wherever the
\* earlier one was killed, and whatever earlier clean-ups had to leave.
StartsClean ==
    ~overlap => \A p \in Copy \ unswept : status[p] = "up" =>
        \A t \in temp : t.kind = "exe" /\ check[t.of].by = p

\* The order of versions: the first part in which they differ decides.
Later(v, w) ==
    LET differ == {i \in DOMAIN v \union DOMAIN w : Part(v, i) # Part(w, i)}
    IN  \E i \in differ : Part(v, i) > Part(w, i) /\ \A j \in differ : i <= j

\* Updates only go forward, and never to the installed version under another
\* name, which would repeat for ever.  Only copies started as above, each with
\* an update of its own, can install the older one last.
OnlyForward ==
    [][installed' # installed => overlap \/ Later(installed', installed)]_vars

\* After an update the application comes back, whether or not the executable
\* could be replaced, and although its own start removes the running script.
ComesBack ==
    (\E p \in Copy : script[p] = "wait" /\ Bat(p) \in temp) ~> ~NobodyAlive
=============================================================================
