----------------------------- MODULE SavedFiles -----------------------------
(***************************************************************************)
(* The files the application keeps: its settings (internal/config, Save's  *)
(* callers in cmd/gui), its identity (crypto.LoadOrCreate), the server     *)
(* list of the Minecraft launcher and the properties of the dedicated      *)
(* server (internal/mc), while the process may end between any two steps.  *)
(*                                                                         *)
(* A file is written as os.WriteFile does: opened, which empties it, and   *)
(* then written at once.  Either may fail.  The window and the -game-start *)
(* hook work at the same time; agentLoop owns the identity.                *)
(*                                                                         *)
(* A definition nothing uses, before another with the same parameters, is  *)
(* a faulty variant of it (the mutants of PROJECT.json).                   *)
(***************************************************************************)
EXTENDS Naturals

CONSTANTS
    ServerAddress,  \* addresses the user can add to the launcher's list
    Room,         \* rooms, which an added entry is named after
    MaxChanges,   \* bound on changes of the settings
    MaxStarts,    \* bound on starts of the application
    MaxKeys       \* bound on keys that are generated

ASSUME AddressAssumption == "elsewhere" \notin ServerAddress /\ ServerAddress # {}
ASSUME FilesAssumption == MaxChanges \in Nat /\ MaxStarts \in Nat /\ MaxKeys \in Nat

Actor == {"window", "hook"}

\* What is in a file.  "torn" is empty, or the mixture that two writers left:
\* no loader accepts either.
Content(S) == [is : {"absent", "torn", "whole"}, has : S]
Torn(nothing) == [is |-> "torn", has |-> nothing]
Whole(value) == [is |-> "whole", has |-> value]
Absent(nothing) == [is |-> "absent", has |-> nothing]

\* Two entries the user has: one is at an address that can be added again.
Entry == [ip : ServerAddress \union {"elsewhere"}, name : Room \union {"mine"}]
Elsewhere == [ip |-> "elsewhere", name |-> "mine"]
UserList == {Elsewhere, [ip |-> CHOOSE a \in ServerAddress : TRUE, name |-> "mine"]}

\* Lines of server.properties: the three the code has defaults for, with the
\* user's value or the default, and all the others.
Line == {"defaults", "own", "others"}

VARIABLES
    app,        \* is the application running?
    starts,     \* starts so far
    had,        \* did the user have a list and properties before the first?
    cfg,        \* app.cfg, as the number of the last change
    config,     \* config.json
    list,       \* servers.dat
    bak,        \* servers.dat.bak
    props,      \* server.properties
    identity,   \* the key file
    at,         \* where the window and the hook are
    raw,        \* the settings each is about to write
    lines,      \* the properties each is about to write
    entries,    \* the list the window is about to write
    loop,       \* where agentLoop is with the identity
    key,        \* the key it generated or loaded
    keys,       \* keys generated so far
    reported,   \* the newest settings of which a save succeeded
    used,       \* every key an agent has run with
    clashed     \* did both actors ever write at once?

configVars == <<cfg, config, raw, reported>>
listVars == <<list, bak, entries>>
propsVars == <<props, lines>>
keyVars == <<identity, loop, key, keys, used>>
fileVars == <<app, starts, had, configVars, listVars, propsVars, keyVars, at, clashed>>

FilesInit ==
    /\ app = "down"
    /\ starts = 0
    /\ cfg = 0
    /\ config = Absent(0)
    /\ had \in BOOLEAN
    /\ list = IF had THEN Whole(UserList) ELSE Absent({})
    /\ bak = Absent({})
    /\ props = IF had THEN Whole({"own", "others"}) ELSE Absent({})
    /\ identity = Absent(0)
    /\ at = [a \in Actor |-> "idle"]
    /\ raw = [a \in Actor |-> 0]
    /\ lines = [a \in Actor |-> {}]
    /\ entries = {}
    /\ loop = "off"
    /\ key = 0
    /\ keys = 0
    /\ reported = 0
    /\ used = {}
    /\ clashed = FALSE

-----------------------------------------------------------------------------
(* Writing a file, and the steps of an actor                               *)

\* What the file may be after its writer has written: a file that somebody
\* else has written since this writer opened it keeps the end of what is longer.
Written(file, value, nothing) ==
    IF file.is = "torn" THEN {Whole(value)} ELSE {Whole(value), Torn(nothing)}

\* The hook runs once; the window takes the next action.
Rest(a) == IF a = "hook" THEN "done" ELSE "idle"
Resting(a) == at[a] \in {"idle", "done"}

Proceeds(a, from, to) == at[a] \in from /\ at' = [at EXCEPT ![a] = to]

\* A step that finds the file closed to it: the error is shown, nothing done.
Refused(a, places) ==
    /\ Proceeds(a, places, Rest(a))
    /\ UNCHANGED <<app, starts, had, configVars, listVars, propsVars, keyVars, clashed>>

\* A write that fails leaves the file empty; the error is shown.
Fails(a, places) == Refused(a, places)

Begins(a) ==
    /\ app = "up"
    /\ clashed' = (clashed \/ \E b \in Actor \ {a} : ~Resting(b))
    /\ UNCHANGED <<app, starts, had, keyVars, listVars>>

-----------------------------------------------------------------------------
(* Settings: saveSettings, persistGamePaths, persistLauncher, Config.Save  *)

\* The hook only saves the paths of the server it started.
ChangeSettings(a) ==
    /\ Proceeds(a, IF a = "window" THEN {"idle", "started"} ELSE {"started"}, "changed")
    /\ cfg < MaxChanges
    /\ Begins(a)
    /\ cfg' = cfg + 1
    /\ UNCHANGED <<config, raw, reported, propsVars>>

EncodeSettings(a) ==
    /\ Proceeds(a, {"changed"}, "encoded")
    /\ raw' = [raw EXCEPT ![a] = cfg]
    /\ UNCHANGED <<app, starts, had, cfg, config, reported, listVars, propsVars, keyVars, clashed>>

OpenConfig(a) ==
    \/ /\ Proceeds(a, {"encoded"}, "config open")
       /\ config' = Torn(0)
       /\ UNCHANGED <<app, starts, had, cfg, raw, reported, listVars, propsVars, keyVars, clashed>>
    \/ Refused(a, {"encoded"})

WriteConfig(a) ==
    \/ /\ Proceeds(a, {"config open"}, Rest(a))
       /\ config' \in Written(config, raw[a], 0)
       /\ reported' = IF raw[a] > reported THEN raw[a] ELSE reported
       /\ UNCHANGED <<app, starts, had, cfg, raw, listVars, propsVars, keyVars, clashed>>
    \/ Fails(a, {"config open"})

-----------------------------------------------------------------------------
(* server.properties: PrepareServerDir, which StartServer calls first      *)

\* Lines with a key that has a default are replaced, whatever their value, and
\* the defaults that are missing are added; the rest is kept.
OnlyReplaced(old) == {IF l = "own" THEN "defaults" ELSE l : l \in old}
MergedLines(old) == {"defaults"} \union (old \ {"own"})

\* A file that is empty has no lines, and one that is there but cannot be read
\* is taken for one that has none; nothing is reported.
ReadProps(a) ==
    /\ Proceeds(a, {"idle"}, "merged")
    /\ Begins(a)
    /\ \E old \in {props.has, {}} : lines' = [lines EXCEPT ![a] = MergedLines(old)]
    /\ UNCHANGED <<configVars, props>>

OpenProps(a) ==
    \/ /\ Proceeds(a, {"merged"}, "props open")
       /\ props' = Torn({})
       /\ UNCHANGED <<app, starts, had, configVars, lines, listVars, keyVars, clashed>>
    \/ Refused(a, {"merged"})

WriteProps(a) ==
    \/ /\ Proceeds(a, {"props open"}, "started")
       /\ props' \in Written(props, lines[a], {})
       /\ UNCHANGED <<app, starts, had, configVars, lines, listVars, keyVars, clashed>>
    \/ Fails(a, {"props open"})

\* The process of the server could not be started.
StartFails(a) == Refused(a, {"started"})

-----------------------------------------------------------------------------
(* servers.dat: AddServerToLauncher, which only the window calls           *)

\* An entry with the address gets the new name, or a new one is appended.
Merged(old, ip, name) ==
    IF \E e \in old : e.ip = ip
    THEN {IF e.ip = ip THEN [e EXCEPT !.name = name] ELSE e : e \in old}
    ELSE old \union {[ip |-> ip, name |-> name]}

NeverUnreadable(file) == FALSE
Unreadable(file) == file.is = "torn"

\* readServersDat: no file is an empty list, one it cannot read is an error.
ReadList ==
    /\ ~Unreadable(list)
    /\ Proceeds("window", {"idle"}, IF list.is = "absent" THEN "backed up" ELSE "listed")
    /\ app = "up"
    /\ \E ip \in ServerAddress, name \in Room : entries' = Merged(list.has, ip, name)
    /\ UNCHANGED <<app, starts, had, configVars, list, bak, propsVars, keyVars, clashed>>

\* copyFile
OpenBackup ==
    \/ /\ Proceeds("window", {"listed"}, "bak open")
       /\ bak' = Torn({})
       /\ UNCHANGED <<app, starts, had, configVars, list, entries, propsVars, keyVars, clashed>>
    \/ Refused("window", {"listed"})

CopyBackup ==
    \/ /\ Proceeds("window", {"bak open"}, "backed up")
       /\ bak' = list
       /\ UNCHANGED <<app, starts, had, configVars, list, entries, propsVars, keyVars, clashed>>
    \/ Fails("window", {"bak open"})

OpenList ==
    \/ /\ Proceeds("window", {"backed up"}, "list open")
       /\ list' = Torn({})
       /\ UNCHANGED <<app, starts, had, configVars, bak, entries, propsVars, keyVars, clashed>>
    \/ Refused("window", {"backed up"})

WriteList ==
    \/ /\ Proceeds("window", {"list open"}, "idle")
       /\ list' \in Written(list, entries, {})
       /\ UNCHANGED <<app, starts, had, configVars, bak, entries, propsVars, keyVars, clashed>>
    \/ Fails("window", {"list open"})

AddServer == ReadList \/ OpenBackup \/ CopyBackup \/ OpenList \/ WriteList

-----------------------------------------------------------------------------
(* The identity: LoadOrCreate, at each attempt to make an agent            *)

\* An agent, which registers with its key's fingerprint, runs if there is one.
KeyUsed == used' = IF loop' = "running" THEN used \union {key'} ELSE used

RunsAnyway == "running"
NoAgent == "off"

\* A file that is too short is an error; no key is made to replace it.
LoadIdentity ==
    /\ app = "up"
    /\ loop = "off"
    /\ \/ /\ identity.is = "absent"
          /\ keys < MaxKeys
          /\ keys' = keys + 1 /\ key' = keys' /\ loop' = "generated"
       \/ /\ identity.is = "whole"
          /\ UNCHANGED keys /\ key' = identity.has /\ loop' = "running"
    /\ KeyUsed
    /\ UNCHANGED <<app, starts, had, configVars, listVars, propsVars, at, identity, clashed>>

OpenIdentity ==
    /\ loop = "generated"
    /\ \/ identity' = Torn(0) /\ loop' = "key open"
       \/ UNCHANGED identity /\ loop' = NoAgent
    /\ UNCHANGED key
    /\ KeyUsed
    /\ UNCHANGED <<app, starts, had, configVars, listVars, propsVars, at, keys, clashed>>

WriteIdentity ==
    /\ loop = "key open"
    /\ \/ identity' = Whole(key) /\ loop' = "running"
       \/ UNCHANGED identity /\ loop' = NoAgent
    /\ UNCHANGED key
    /\ KeyUsed
    /\ UNCHANGED <<app, starts, had, configVars, listVars, propsVars, at, keys, clashed>>

AgentEnds ==
    /\ loop = "running"
    /\ loop' = "off"
    /\ UNCHANGED <<app, starts, had, configVars, listVars, propsVars, at, identity, key, keys, used, clashed>>

-----------------------------------------------------------------------------
(* The process                                                             *)

AnyLoadable(file) == TRUE
Loadable(file) == file.is # "torn"

\* config.Load: no file is a first run, one it cannot parse ends the start.
Start ==
    /\ app = "down"
    /\ starts < MaxStarts
    /\ starts' = starts + 1
    /\ Loadable(config)
    /\ app' = "up"
    /\ cfg' = config.has
    /\ UNCHANGED <<had, config, raw, reported, listVars, propsVars, keyVars, at, clashed>>

\* The process quits or is killed, whatever its goroutines are doing.
End ==
    /\ app = "up"
    /\ app' = "down"
    /\ at' = [a \in Actor |-> "idle"]
    /\ raw' = [a \in Actor |-> 0]
    /\ lines' = [a \in Actor |-> {}]
    /\ entries' = {}
    /\ loop' = "off"
    /\ key' = 0
    /\ cfg' = 0
    /\ UNCHANGED <<starts, had, config, list, bak, props, identity, keys, reported, used, clashed>>

FilesNext ==
    \/ \E a \in Actor :
        \/ ChangeSettings(a) \/ EncodeSettings(a) \/ OpenConfig(a) \/ WriteConfig(a)
        \/ ReadProps(a) \/ OpenProps(a) \/ WriteProps(a) \/ StartFails(a)
    \/ AddServer
    \/ LoadIdentity \/ OpenIdentity \/ WriteIdentity \/ AgentEnds
    \/ Start \/ End

FilesSpec == FilesInit /\ [][FilesNext]_fileVars

-----------------------------------------------------------------------------
(* Properties                                                              *)

Place == {"idle", "done", "changed", "encoded", "config open", "merged", "props open", "started",
          "listed", "bak open", "backed up", "list open"}

\* "A corrupt file is an error so the user gets a message instead of silently
\* losing their settings": once settings were saved the application never
\* comes up with none, and, unless the hook saved at the same time as the
\* window, never with older ones than the user was told were saved.
SettingsSurvive ==
    app = "up" /\ reported > 0 => cfg > 0 /\ (clashed \/ cfg >= reported)

\* A client has one fingerprint for ever: whatever key an agent has used is in
\* the file, and no other key is ever used.
IdentityKept == \A k \in used : identity = Whole(k)

\* The user's own entry is in the list or, when the list is damaged, in the
\* backup, wherever an earlier change of the list was cut off.
ListRecoverable == had => Elsewhere \in list.has \union bak.has

\* PrepareServerDir writes the properties "so a server started from dir binds
\* the expected port": where StartServer goes on to start the process the three
\* settings are in the file, whatever became of earlier writings of it and
\* whether it could be read, unless the hook and the window start one at once.
StartsConfigured ==
    \A a \in Actor : at[a] = "started" /\ ~clashed => "defaults" \in props.has
=============================================================================
