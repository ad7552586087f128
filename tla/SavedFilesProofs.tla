---------------------------- MODULE SavedFilesProofs ----------------------------
(***************************************************************************)
(* Theorems about SavedFiles, for any settings, rooms, addresses and keys, *)
(* any number of starts, and the process ending between any two steps.     *)
(* Each file has its own invariant; Alone is for the two with two writers. *)
(***************************************************************************)
EXTENDS SavedFiles, TLAPS

\* The steps of an actor that have to do with settings or properties.
ActorStep(a) ==
    \/ ChangeSettings(a) \/ EncodeSettings(a) \/ OpenConfig(a) \/ WriteConfig(a)
    \/ ReadProps(a) \/ OpenProps(a) \/ WriteProps(a) \/ StartFails(a)

\* Those of agentLoop.
KeyStep == LoadIdentity \/ OpenIdentity \/ WriteIdentity \/ AgentEnds

\* What is in a file, field by field.
LEMMA Contents ==
    ASSUME NEW S, NEW v \in S
    PROVE  /\ Whole(v) \in Content(S) /\ Whole(v).is = "whole" /\ Whole(v).has = v
           /\ Torn(v) \in Content(S) /\ Torn(v).is = "torn" /\ Torn(v).has = v
           /\ Absent(v) \in Content(S) /\ Absent(v).is = "absent" /\ Absent(v).has = v
           /\ \A f \in Content(S) : f.is \in {"absent", "torn", "whole"} /\ f.has \in S
           /\ \A f \in Content(S) : f.is = "whole" /\ f.has = v => f = Whole(v)
BY DEF Whole, Torn, Absent, Content

-----------------------------------------------------------------------------
(* The identity                                                            *)

KeyInv ==
    /\ identity \in Content(Nat) /\ key \in Nat /\ keys \in Nat /\ used \subseteq Nat
    /\ \A k \in used : identity.is = "whole" /\ identity.has = k
    /\ loop \in {"generated", "key open"} => used = {}

\* Steps of agentLoop.
LEMMA KeyStepKeeps == KeyInv /\ KeyStep => KeyInv'
<1> SUFFICES ASSUME KeyInv, KeyStep PROVE KeyInv'
    OBVIOUS
<1> USE DEF KeyInv
<1>1. identity.is \in {"absent", "torn", "whole"} /\ identity.has \in Nat
    BY Contents
<1>2. CASE LoadIdentity
  <2>1. used' = IF loop' = "running" THEN used \union {key'} ELSE used
    BY <1>2 DEF LoadIdentity, KeyUsed
  <2>2. CASE identity.is = "absent"
    <3>1. used = {} /\ used' = {} /\ loop' = "generated" /\ key' = keys + 1 /\ keys' = keys + 1
      BY <1>2, <2>1, <2>2 DEF LoadIdentity
    <3> QED BY <1>2, <2>2, <3>1 DEF LoadIdentity
  <2>3. CASE identity.is = "whole"
    <3>1. used' = used \union {identity.has} /\ key' = identity.has /\ keys' = keys
      BY <1>2, <2>1, <2>3 DEF LoadIdentity
    <3> QED BY <1>1, <1>2, <2>3, <3>1 DEF LoadIdentity
  <2> QED BY <1>2, <2>2, <2>3 DEF LoadIdentity
<1>3. CASE OpenIdentity
  <2>1. used' = used /\ used = {}
    BY <1>3 DEF OpenIdentity, KeyUsed, NoAgent
  <2>2. identity' \in Content(Nat)
    <3>1. Torn(0) \in Content(Nat)
      BY Contents
    <3> QED BY <1>3, <3>1 DEF OpenIdentity
  <2> QED BY <1>3, <2>1, <2>2 DEF OpenIdentity
<1>4. CASE WriteIdentity
  <2>1. used = {} /\ key' = key /\ keys' = keys
    BY <1>4 DEF WriteIdentity
  <2>2. CASE identity' = Whole(key) /\ loop' = "running"
    <3>1. used' = {key}
      BY <1>4, <2>1, <2>2 DEF WriteIdentity, KeyUsed
    <3>2. identity' \in Content(Nat) /\ identity'.is = "whole" /\ identity'.has = key
      BY <2>2, Contents
    <3> QED BY <2>1, <2>2, <3>1, <3>2
  <2>3. CASE UNCHANGED identity /\ loop' = NoAgent
    <3>1. used' = used
      BY <1>4, <2>3 DEF WriteIdentity, KeyUsed, NoAgent
    <3> QED BY <2>1, <2>3, <3>1 DEF NoAgent
  <2> QED BY <1>4, <2>2, <2>3 DEF WriteIdentity
<1>5. CASE AgentEnds
    BY <1>5 DEF AgentEnds
<1> QED BY <1>2, <1>3, <1>4, <1>5 DEF KeyStep

\* No other step touches the key file, and only the end of the process agentLoop.
LEMMA OthersKeepKey == KeyInv /\ [FilesNext]_fileVars /\ ~KeyStep => KeyInv'
<1> SUFFICES ASSUME KeyInv, [FilesNext]_fileVars, ~KeyStep PROVE KeyInv'
    OBVIOUS
<1>1. CASE End
    BY <1>1 DEF End, KeyInv
<1>2. CASE UNCHANGED keyVars
    BY <1>2 DEF keyVars, KeyInv
<1>3. ASSUME NEW a \in Actor, ActorStep(a) PROVE UNCHANGED keyVars
    BY <1>3 DEF ActorStep, ChangeSettings, EncodeSettings, OpenConfig, WriteConfig, ReadProps,
       OpenProps, WriteProps, StartFails, Refused, Fails, Begins
<1>4. ASSUME AddServer PROVE UNCHANGED keyVars
    BY <1>4 DEF AddServer, ReadList, OpenBackup, CopyBackup, OpenList, WriteList, Refused, Fails
<1>5. ASSUME Start PROVE UNCHANGED keyVars
    BY <1>5 DEF Start
<1>6. ASSUME UNCHANGED fileVars PROVE UNCHANGED keyVars
    BY <1>6 DEF fileVars
<1> QED
    BY <1>1, <1>2, <1>3, <1>4, <1>5, <1>6 DEF FilesNext, KeyStep, ActorStep

\* A client keeps its fingerprint (LoadOrCreate), for any number of keys.
THEOREM IdentityIsKept == FilesSpec => []IdentityKept
<1>1. FilesInit => KeyInv
    BY Contents DEF FilesInit, KeyInv
<1>2. KeyInv => IdentityKept
    BY Contents DEF KeyInv, IdentityKept
<1> QED
    BY <1>1, <1>2, KeyStepKeeps, OthersKeepKey, PTL DEF FilesSpec

-----------------------------------------------------------------------------
(* The launcher's list                                                     *)

ListInv ==
    /\ at \in [Actor -> Place]
    /\ had =>
        /\ list.is \in {"whole", "torn"}
        /\ list.is = "whole" => Elsewhere \in list.has
        /\ list.is = "torn" => Elsewhere \in bak.has
        /\ at["window"] \in {"listed", "bak open"} => list.is = "whole" /\ Elsewhere \in entries
        /\ at["window"] \in {"backed up", "list open"} =>
            Elsewhere \in bak.has /\ Elsewhere \in entries

\* The user's entry survives a merge: it is at another address.
LEMMA MergedKeeps ==
    ASSUME NEW old, Elsewhere \in old, NEW ip \in ServerAddress, NEW name
    PROVE  Elsewhere \in Merged(old, ip, name)
<1>1. Elsewhere.ip # ip
    BY AddressAssumption DEF Elsewhere
<1> QED BY <1>1 DEF Merged

\* Changing the list.
LEMMA AddServerKeeps == ListInv /\ AddServer => ListInv'
<1> SUFFICES ASSUME ListInv, AddServer PROVE ListInv'
    OBVIOUS
<1> USE DEF ListInv, Torn, Whole
<1>1. "window" \in Actor /\ Rest("window") = "idle"
    BY DEF Actor, Rest
<1>2. \A p \in {"idle", "listed", "bak open", "backed up", "list open"} : p \in Place
    BY DEF Place
<1>3. CASE ReadList
  <2>1. had' = had /\ list' = list /\ bak' = bak /\ ~Unreadable(list)
    BY <1>3 DEF ReadList
  <2>2. /\ at' \in [Actor -> Place]
        /\ at'["window"] = IF list.is = "absent" THEN "backed up" ELSE "listed"
    BY <1>1, <1>2, <1>3 DEF ReadList, Proceeds
  <2>3. PICK ip \in ServerAddress, name \in Room : entries' = Merged(list.has, ip, name)
    BY <1>3 DEF ReadList
  <2> QED BY <2>1, <2>2, <2>3, MergedKeeps DEF Unreadable
<1>4. CASE Refused("window", {"listed"}) \/ Refused("window", {"backed up"})
  <2>1. UNCHANGED <<had, listVars>> /\ at' \in [Actor -> Place] /\ at'["window"] = "idle"
    BY <1>1, <1>2, <1>4 DEF Refused, Proceeds
  <2> QED BY <2>1 DEF listVars
<1>5. CASE Fails("window", {"bak open"}) \/ Fails("window", {"list open"})
  <2>1. UNCHANGED <<had, listVars>> /\ at' \in [Actor -> Place] /\ at'["window"] = "idle"
    BY <1>1, <1>2, <1>5 DEF Fails, Refused, Proceeds
  <2> QED BY <2>1 DEF listVars
<1>6. CASE OpenBackup /\ bak' = Torn({})
  <2>1. CASE Proceeds("window", {"listed"}, "bak open") /\ UNCHANGED <<had, list, entries>>
    <3>1. at' \in [Actor -> Place] /\ at["window"] = "listed" /\ at'["window"] = "bak open"
      BY <1>1, <1>2, <2>1 DEF Proceeds
    <3> QED BY <2>1, <3>1
  <2> QED BY <1>4, <1>6, <2>1 DEF OpenBackup
<1>7. CASE CopyBackup /\ bak' = list
  <2>1. CASE Proceeds("window", {"bak open"}, "backed up") /\ UNCHANGED <<had, list, entries>>
    <3>1. at' \in [Actor -> Place] /\ at["window"] = "bak open" /\ at'["window"] = "backed up"
      BY <1>1, <1>2, <2>1 DEF Proceeds
    <3> QED BY <1>7, <2>1, <3>1
  <2> QED BY <1>5, <1>7, <2>1 DEF CopyBackup
<1>8. CASE OpenList /\ list' = Torn({})
  <2>1. CASE Proceeds("window", {"backed up"}, "list open") /\ UNCHANGED <<had, bak, entries>>
    <3>1. at' \in [Actor -> Place] /\ at["window"] = "backed up" /\ at'["window"] = "list open"
      BY <1>1, <1>2, <2>1 DEF Proceeds
    <3> QED BY <1>8, <2>1, <3>1
  <2> QED BY <1>4, <1>8, <2>1 DEF OpenList
<1>9. CASE WriteList /\ list' \in Written(list, entries, {})
  <2>1. CASE Proceeds("window", {"list open"}, "idle") /\ UNCHANGED <<had, bak, entries>>
    <3>1. at' \in [Actor -> Place] /\ at["window"] = "list open" /\ at'["window"] = "idle"
      BY <1>1, <1>2, <2>1 DEF Proceeds
    <3>2. \/ list'.is = "whole" /\ list'.has = entries
          \/ list'.is = "torn"
      <4>1. list' \in {Whole(entries), Torn({})}
        BY <1>9, Zenon DEF Written
      <4>2. Whole(entries).is = "whole" /\ Whole(entries).has = entries
        BY DEF Whole
      <4>3. Torn({}).is = "torn"
        BY DEF Torn
      <4> HIDE DEF ListInv, Torn, Whole
      <4> QED BY <4>1, <4>2, <4>3
    <3> QED BY <2>1, <3>1, <3>2
  <2> QED BY <1>5, <1>9, <2>1 DEF WriteList
<1> QED
    BY <1>3, <1>4, <1>5, <1>6, <1>7, <1>8, <1>9
    DEF AddServer, OpenBackup, CopyBackup, OpenList, WriteList

\* A step of the other files leaves the window where the list is not open, or
\* does not move it.
LEMMA ActorStepMoves ==
    ASSUME at \in [Actor -> Place], NEW a \in Actor, ActorStep(a)
    PROVE  /\ at' \in [Actor -> Place]
           /\ at'[a] \notin {"listed", "bak open", "backed up", "list open"}
           /\ \A b \in Actor \ {a} : at'[b] = at[b]
           /\ UNCHANGED <<had, listVars>>
<1>1. UNCHANGED <<had, listVars>>
    BY DEF ActorStep, ChangeSettings, EncodeSettings, OpenConfig, WriteConfig, ReadProps,
       OpenProps, WriteProps, StartFails, Refused, Fails, Begins
<1> USE DEF Proceeds, Place
<1>2. CASE ChangeSettings(a) BY <1>1, <1>2 DEF ChangeSettings
<1>3. CASE EncodeSettings(a) BY <1>1, <1>3 DEF EncodeSettings
<1>4. CASE OpenConfig(a) BY <1>1, <1>4 DEF OpenConfig, Refused, Rest
<1>5. CASE WriteConfig(a) BY <1>1, <1>5 DEF WriteConfig, Fails, Refused, Rest
<1>6. CASE ReadProps(a) BY <1>1, <1>6 DEF ReadProps
<1>7. CASE OpenProps(a) BY <1>1, <1>7 DEF OpenProps, Refused, Rest
<1>8. CASE WriteProps(a) BY <1>1, <1>8 DEF WriteProps, Fails, Refused, Rest
<1>9. CASE StartFails(a) BY <1>1, <1>9 DEF StartFails, Refused, Rest
<1> QED
    BY <1>2, <1>3, <1>4, <1>5, <1>6, <1>7, <1>8, <1>9 DEF ActorStep

\* Every step keeps the list's invariant.
LEMMA ListStep == ListInv /\ [FilesNext]_fileVars => ListInv'
<1> SUFFICES ASSUME ListInv, [FilesNext]_fileVars PROVE ListInv'
    OBVIOUS
<1>1. CASE End
    BY <1>1 DEF End, ListInv, Place, Actor
<1>2. CASE UNCHANGED <<had, listVars, at>>
    BY <1>2 DEF listVars, ListInv
<1>3. ASSUME NEW a \in Actor, ActorStep(a) PROVE ListInv'
  <2>1. "window" \in Actor
    BY DEF Actor
  <2> QED BY <1>3, <2>1, ActorStepMoves DEF ListInv, listVars
<1>4. CASE AddServer
    BY <1>4, AddServerKeeps
<1>5. ASSUME KeyStep \/ Start \/ UNCHANGED fileVars PROVE UNCHANGED <<had, listVars, at>>
    BY <1>5 DEF KeyStep, LoadIdentity, OpenIdentity, WriteIdentity, AgentEnds, Start, fileVars
<1> QED
    BY <1>1, <1>2, <1>3, <1>4, <1>5 DEF FilesNext, ActorStep, KeyStep

\* The user's own entry is never lost (AddServerToLauncher with its backup).
THEOREM ListIsRecoverable == FilesSpec => []ListRecoverable
<1>1. FilesInit => ListInv
  <2>1. Elsewhere \in UserList
    BY DEF UserList
  <2> QED
    BY <2>1 DEF FilesInit, ListInv, Whole, Actor, Place
<1>2. ListInv => ListRecoverable
    BY DEF ListInv, ListRecoverable
<1> QED
    BY <1>1, <1>2, ListStep, PTL DEF FilesSpec

-----------------------------------------------------------------------------
(* Who is at work with settings or properties.  Unless two ever were at    *)
(* once, nobody else is while one is.                                      *)

Busy(a) == at[a] \in {"changed", "encoded", "config open", "merged", "props open", "started"}

Alone ==
    /\ at \in [Actor -> Place]
    /\ \A a \in Actor : Busy(a) => app = "up"
    /\ ~clashed => \A a, b \in Actor : Busy(a) /\ Busy(b) => a = b

\* A step of the launcher's list leaves the window idle or at the list.
LEMMA AddServerMoves ==
    ASSUME at \in [Actor -> Place], AddServer
    PROVE  /\ at' \in [Actor -> Place]
           /\ at'["window"] \in {"idle", "listed", "bak open", "backed up", "list open"}
           /\ \A b \in Actor \ {"window"} : at'[b] = at[b]
           /\ UNCHANGED <<app, clashed, configVars, propsVars>>
<1> USE DEF Proceeds, Place, Actor, Rest, Busy
<1>1. UNCHANGED <<app, clashed, configVars, propsVars>>
    BY DEF AddServer, ReadList, OpenBackup, CopyBackup, OpenList, WriteList, Refused, Fails
<1>2. CASE ReadList BY <1>1, <1>2 DEF ReadList
<1>3. CASE OpenBackup BY <1>1, <1>3 DEF OpenBackup, Refused
<1>4. CASE CopyBackup BY <1>1, <1>4 DEF CopyBackup, Refused, Fails
<1>5. CASE OpenList BY <1>1, <1>5 DEF OpenList, Refused
<1>6. CASE WriteList BY <1>1, <1>6 DEF WriteList, Refused, Fails
<1> QED BY <1>2, <1>3, <1>4, <1>5, <1>6 DEF AddServer

\* A step that begins something: unless there was a clash, nobody else is at work.
LEMMA BeginsAlone ==
    ASSUME Alone, NEW a \in Actor, at' \in [Actor -> Place], Begins(a),
           \A b \in Actor \ {a} : at'[b] = at[b]
    PROVE  Alone' /\ (~clashed' => ~clashed /\ \A b \in Actor \ {a} : ~Busy(b))
BY DEF Alone, Begins, Busy, Resting

\* A step that goes on with what was begun.
LEMMA GoesOnAlone ==
    ASSUME Alone, NEW a \in Actor, at' \in [Actor -> Place], Busy(a), UNCHANGED <<app, clashed>>,
           \A b \in Actor \ {a} : at'[b] = at[b]
    PROVE  Alone'
BY DEF Alone, Busy

\* A clash stays on record.
LEMMA ActorStepClash ==
    ASSUME NEW a \in Actor, ActorStep(a)
    PROVE  ~clashed' => ~clashed
<1>1. CASE ChangeSettings(a) \/ ReadProps(a)
  <2>1. Begins(a)
    BY <1>1 DEF ChangeSettings, ReadProps
  <2> QED BY <2>1, Zenon DEF Begins
<1>2. CASE \/ EncodeSettings(a) \/ OpenConfig(a) \/ WriteConfig(a) \/ OpenProps(a)
           \/ WriteProps(a) \/ StartFails(a)
  <2>1. clashed' = clashed
    BY <1>2 DEF EncodeSettings, OpenConfig, WriteConfig, OpenProps, WriteProps, StartFails,
       Refused, Fails
  <2> QED BY <2>1, Zenon
<1> QED BY <1>1, <1>2 DEF ActorStep

\* Where a step of an actor leads.
LEMMA ActorStepAlone ==
    ASSUME Alone, NEW a \in Actor, ActorStep(a)
    PROVE  Alone'
<1>1. /\ at' \in [Actor -> Place] /\ \A b \in Actor \ {a} : at'[b] = at[b]
    BY ActorStepMoves DEF Alone
<1>2. CASE ChangeSettings(a) \/ ReadProps(a)
    BY <1>1, <1>2, BeginsAlone DEF ChangeSettings, ReadProps
<1>3. ASSUME EncodeSettings(a) \/ OpenConfig(a) \/ WriteConfig(a) \/ OpenProps(a)
             \/ WriteProps(a) \/ StartFails(a)
      PROVE  Busy(a) /\ UNCHANGED <<app, clashed>>
    BY <1>3 DEF EncodeSettings, OpenConfig, WriteConfig, OpenProps, WriteProps, StartFails,
       Refused, Fails, Proceeds, Busy
<1> QED BY <1>1, <1>2, <1>3, GoesOnAlone DEF ActorStep

\* Every step keeps what Alone says.
LEMMA AloneStep == Alone /\ [FilesNext]_fileVars => Alone'
<1> SUFFICES ASSUME Alone, [FilesNext]_fileVars PROVE Alone'
    OBVIOUS
<1>1. CASE End
    BY <1>1 DEF End, Alone, Busy, Place
<1>2. CASE Start
    BY <1>2 DEF Start, Alone, Busy
<1>3. CASE AddServer
  <2>1. /\ at' \in [Actor -> Place] /\ UNCHANGED <<app, clashed>>
        /\ at'["window"] \in {"idle", "listed", "bak open", "backed up", "list open"}
        /\ at'["hook"] = at["hook"]
    BY <1>3, AddServerMoves DEF Alone, Actor
  <2> QED BY <2>1 DEF Alone, Busy, Actor
<1>4. CASE UNCHANGED <<app, at, clashed>>
    BY <1>4 DEF Alone, Busy
<1>5. ASSUME KeyStep \/ UNCHANGED fileVars PROVE UNCHANGED <<app, at, clashed>>
    BY <1>5 DEF KeyStep, LoadIdentity, OpenIdentity, WriteIdentity, AgentEnds, fileVars
<1> QED
    BY <1>1, <1>2, <1>3, <1>4, <1>5, ActorStepAlone DEF FilesNext, ActorStep, KeyStep

\* Nobody is at work at first.
LEMMA AloneInit == FilesInit => Alone
BY DEF FilesInit, Alone, Busy, Place

-----------------------------------------------------------------------------
(* The settings                                                            *)

Encoded(a) == at[a] \in {"encoded", "config open"}

ConfigType ==
    cfg \in Nat /\ reported \in Nat /\ raw \in [Actor -> Nat] /\ config \in Content(Nat)

\* What is saved are settings that somebody changed.
Counted ==
    /\ \A a \in Actor : at[a] = "changed" \/ Encoded(a) => cfg > 0
    /\ \A a \in Actor : Encoded(a) => 0 < raw[a] /\ raw[a] <= cfg
    /\ config.is = "absent" => reported = 0
    /\ config.is = "whole" => config.has > 0
    /\ app = "up" /\ reported > 0 => cfg > 0

\* Unless both were at it, nothing older than what was saved is about to be.
Newest ==
    ~clashed =>
        /\ config.is = "whole" => config.has >= reported
        /\ app = "up" => cfg >= reported
        /\ \A a \in Actor : Encoded(a) => raw[a] >= reported

ConfigInv == Alone /\ ConfigType /\ Counted /\ Newest

\* Changing and encoding the settings.
LEMMA ChangeKeeps ==
    ASSUME ConfigInv, NEW a \in Actor, ChangeSettings(a) \/ EncodeSettings(a)
    PROVE  ConfigInv'
<1>1. Alone' /\ at' \in [Actor -> Place] /\ \A b \in Actor \ {a} : at'[b] = at[b]
    BY ActorStepAlone, ActorStepMoves DEF ConfigInv, Alone, ActorStep
<1>2. \A b \in Actor \ {a} : Encoded(b)' <=> Encoded(b)
    BY <1>1 DEF Encoded
<1> USE DEF ConfigInv, ConfigType
<1>3. CASE ChangeSettings(a)
  <2>1. /\ at'[a] = "changed" /\ cfg' = cfg + 1 /\ UNCHANGED <<app, config, raw, reported>>
        /\ ~clashed' => ~clashed
    BY <1>3, BeginsAlone, <1>1 DEF ChangeSettings, Proceeds, Begins, Alone
  <2>2. ~(Encoded(a)')
    BY <2>1 DEF Encoded
  <2>3. Counted'
    BY <1>1, <1>2, <2>1, <2>2 DEF Counted
  <2>4. Newest'
    BY <1>1, <1>2, <2>1, <2>2 DEF Newest
  <2> QED BY <1>1, <2>1, <2>3, <2>4
<1>4. CASE EncodeSettings(a)
  <2>1. /\ at[a] = "changed" /\ at'[a] = "encoded"
        /\ UNCHANGED <<app, cfg, config, reported, clashed>>
    BY <1>4 DEF EncodeSettings, Proceeds, Alone
  <2>2. /\ raw' \in [Actor -> Nat] /\ raw'[a] = cfg
        /\ \A b \in Actor \ {a} : raw'[b] = raw[b]
    BY <1>4 DEF EncodeSettings
  <2>3. app = "up" /\ Encoded(a)' /\ cfg > 0
    BY <2>1 DEF Alone, Busy, Encoded, Counted
  <2>4. Counted'
    BY <1>1, <1>2, <2>1, <2>2, <2>3 DEF Counted
  <2>5. Newest'
    BY <1>1, <1>2, <2>1, <2>2, <2>3 DEF Newest
  <2> QED BY <1>1, <2>1, <2>2, <2>4, <2>5
<1> QED BY <1>3, <1>4

\* Writing them.
LEMMA SaveKeeps ==
    ASSUME ConfigInv, NEW a \in Actor, OpenConfig(a) \/ WriteConfig(a)
    PROVE  ConfigInv'
<1> USE DEF ConfigInv, ConfigType
<1>1. Alone' /\ at' \in [Actor -> Place] /\ \A b \in Actor \ {a} : at'[b] = at[b]
    BY ActorStepAlone, ActorStepMoves DEF Alone, ActorStep
<1>2. Encoded(a) /\ at'[a] \in {"config open", "idle", "done"}
    BY DEF OpenConfig, WriteConfig, Refused, Fails, Proceeds, Encoded, Rest, Alone
<1>3. UNCHANGED <<app, cfg, raw, clashed>> /\ app = "up" /\ raw[a] \in Nat /\ raw[a] > 0
    BY <1>2 DEF OpenConfig, WriteConfig, Refused, Fails, configVars, Alone,
       Busy, Encoded, Counted
<1>4. \A b \in Actor : at'[b] = "changed" \/ Encoded(b)' => at[b] = "changed" \/ Encoded(b)
    BY <1>1, <1>2 DEF Encoded
<1>5. \A b \in Actor : Encoded(b)' => Encoded(b)
    BY <1>1, <1>2 DEF Encoded
<1>6. CASE UNCHANGED <<config, reported>>
  <2>1. Counted' BY <1>3, <1>4, <1>5, <1>6 DEF Counted
  <2>2. Newest' BY <1>3, <1>5, <1>6 DEF Newest
  <2> QED BY <1>1, <1>3, <1>6, <2>1, <2>2
<1>7. CASE config' = Torn(0) /\ UNCHANGED reported
  <2>1. config' \in Content(Nat) /\ config'.is = "torn"
    BY <1>7, Contents
  <2>2. Counted' BY <1>3, <1>4, <1>5, <1>7, <2>1 DEF Counted
  <2>3. Newest' BY <1>3, <1>5, <1>7, <2>1 DEF Newest
  <2> QED BY <1>1, <1>3, <1>7, <2>1, <2>2, <2>3
<1>8. CASE /\ WriteConfig(a)
           /\ config' \in Written(config, raw[a], 0)
           /\ reported' = IF raw[a] > reported THEN raw[a] ELSE reported
  <2>1. config' = Whole(raw[a]) \/ config' = Torn(0)
    BY <1>8, Zenon DEF Written
  <2>2. Whole(raw[a]) \in Content(Nat) /\ Whole(raw[a]).is = "whole" /\ Whole(raw[a]).has = raw[a]
    BY <1>3, Contents
  <2>3. Torn(0) \in Content(Nat) /\ Torn(0).is = "torn"
    BY Contents
  <2>4. /\ config' \in Content(Nat)
        /\ config'.is = "torn" \/ (config'.is = "whole" /\ config'.has = raw[a])
    BY <2>1, <2>2, <2>3
  <2>5. ~(Encoded(a)')
    BY <1>8 DEF WriteConfig, Fails, Refused, Proceeds, Rest, Alone, Encoded
  <2>6. ~clashed => \A b \in Actor \ {a} : ~Encoded(b)
    BY <1>2 DEF Alone, Busy, Encoded
  <2>7. raw[a] <= cfg /\ (~clashed => raw[a] >= reported)
    BY <1>2 DEF Counted, Newest
  <2>8. Counted'
    BY <1>3, <1>4, <1>5, <1>8, <2>4, <2>7 DEF Counted
  <2>9. Newest'
    BY <1>3, <1>5, <1>8, <2>4, <2>5, <2>6, <2>7 DEF Newest
  <2> QED BY <1>1, <1>3, <1>8, <2>4, <2>8, <2>9
<1> QED
    BY <1>6, <1>7, <1>8 DEF OpenConfig, WriteConfig, Refused, Fails, configVars

\* The process starts with the settings in the file.
LEMMA StartKeeps ==
    ASSUME ConfigInv, Start
    PROVE  ConfigInv'
<1>1. Alone'
    BY AloneStep DEF ConfigInv, FilesNext
<1>2. /\ app = "down" /\ app' = "up" /\ config.is # "torn" /\ cfg' = config.has
      /\ UNCHANGED <<config, raw, reported, at, clashed>>
    BY DEF Start, Loadable
<1>3. \A a \in Actor : ~Busy(a)
    BY <1>2 DEF ConfigInv, Alone
<1>4. config.is \in {"absent", "whole"} /\ config.has \in Nat
    BY <1>2, Contents DEF ConfigInv, ConfigType
<1>5. \A a \in Actor : at'[a] # "changed" /\ ~(Encoded(a)')
    BY <1>2, <1>3 DEF Busy, Encoded
<1> QED BY <1>1, <1>2, <1>4, <1>5 DEF ConfigInv, ConfigType, Counted, Newest

\* It ends.
LEMMA EndKeeps ==
    ASSUME ConfigInv, End
    PROVE  ConfigInv'
<1>1. Alone'
    BY AloneStep DEF ConfigInv, FilesNext
<1>2. /\ app' = "down" /\ cfg' = 0 /\ raw' = [a \in Actor |-> 0]
      /\ at' = [a \in Actor |-> "idle"] /\ UNCHANGED <<config, reported, clashed>>
    BY DEF End
<1>3. \A a \in Actor : at'[a] # "changed" /\ ~(Encoded(a)')
    BY <1>2 DEF Encoded
<1> QED BY <1>1, <1>2, <1>3 DEF ConfigInv, ConfigType, Counted, Newest

\* Every step keeps the invariant of the settings.
LEMMA ConfigStep == ConfigInv /\ [FilesNext]_fileVars => ConfigInv'
<1> SUFFICES ASSUME ConfigInv, [FilesNext]_fileVars PROVE ConfigInv'
    OBVIOUS
<1>1. Alone'
    BY AloneStep DEF ConfigInv
<1>2. ASSUME NEW a \in Actor, ReadProps(a) \/ OpenProps(a) \/ WriteProps(a) \/ StartFails(a)
      PROVE  ConfigInv'
  <2>1. /\ at' \in [Actor -> Place] /\ \A b \in Actor \ {a} : at'[b] = at[b]
    BY <1>2, ActorStepMoves DEF ConfigInv, Alone, ActorStep
  <2>2. at'[a] \in {"merged", "props open", "started", "idle", "done"}
    BY <1>2 DEF ReadProps, OpenProps, WriteProps, StartFails, Refused, Fails, Proceeds, Rest,
       ConfigInv, Alone
  <2>3. UNCHANGED <<app, configVars>>
    BY <1>2 DEF ReadProps, OpenProps, WriteProps, StartFails, Refused, Fails, Begins
  <2>8. ~clashed' => ~clashed
    BY <1>2, ActorStepClash DEF ActorStep
  <2>4. at'[a] # "changed" /\ ~(Encoded(a)')
    BY <2>2 DEF Encoded
  <2>5. \A b \in Actor \ {a} : Encoded(b)' <=> Encoded(b)
    BY <2>1 DEF Encoded
  <2>6. Counted'
    BY <2>1, <2>3, <2>4, <2>5 DEF Counted, ConfigInv, ConfigType, configVars
  <2>7. Newest'
    BY <2>1, <2>3, <2>4, <2>5, <2>8 DEF Newest, ConfigInv, ConfigType, configVars
  <2> QED BY <1>1, <2>3, <2>6, <2>7 DEF ConfigInv, ConfigType, configVars
<1>3. CASE AddServer
  <2>1. /\ at' \in [Actor -> Place] /\ UNCHANGED <<app, clashed, configVars>>
        /\ at'["window"] \in {"idle", "listed", "bak open", "backed up", "list open"}
        /\ at'["hook"] = at["hook"]
    BY <1>3, AddServerMoves DEF ConfigInv, Alone, Actor
  <2> QED BY <1>1, <2>1 DEF ConfigInv, ConfigType, Counted, Newest, configVars, Encoded, Actor
<1>4. CASE UNCHANGED <<app, at, configVars, clashed>>
    BY <1>1, <1>4 DEF ConfigInv, ConfigType, Counted, Newest, configVars, Encoded
<1>5. ASSUME KeyStep \/ UNCHANGED fileVars PROVE UNCHANGED <<app, at, configVars, clashed>>
    BY <1>5 DEF KeyStep, LoadIdentity, OpenIdentity, WriteIdentity, AgentEnds, fileVars
<1> QED
    BY <1>2, <1>3, <1>4, <1>5, ChangeKeeps, SaveKeeps, StartKeeps, EndKeeps
    DEF FilesNext, KeyStep

\* Settings that were saved are found again, or missed with an error (Save and
\* Load), for any number of changes and starts.
THEOREM SettingsAreKept == FilesSpec => []SettingsSurvive
<1>1. FilesInit => ConfigInv
    BY AloneInit, Contents DEF FilesInit, ConfigInv, ConfigType, Counted, Newest, Encoded
<1>2. ConfigInv => SettingsSurvive
    BY DEF ConfigInv, ConfigType, Counted, Newest, SettingsSurvive
<1> QED
    BY <1>1, <1>2, ConfigStep, PTL DEF FilesSpec

-----------------------------------------------------------------------------
(* server.properties                                                       *)

LinesInv ==
    /\ Alone
    /\ DOMAIN lines = Actor
    /\ \A a \in Actor : at[a] \in {"merged", "props open"} => "defaults" \in lines[a]
    /\ ~clashed =>
        \A a \in Actor :
            /\ at[a] = "props open" => props.is = "torn"
            /\ at[a] = "started" => "defaults" \in props.has

\* Whoever is nowhere near the properties after a step that leaves them as they
\* are, or is where it was, does them no harm.
LEMMA PropsUntouched ==
    ASSUME LinesInv, Alone', UNCHANGED props, DOMAIN lines' = Actor, ~clashed' => ~clashed,
           \A b \in Actor :
             at'[b] \in {"merged", "props open", "started"} =>
                at'[b] = at[b] /\ lines'[b] = lines[b]
    PROVE  LinesInv'
BY DEF LinesInv

\* Reading, opening and writing them.
LEMMA PropsKeep ==
    ASSUME LinesInv, NEW a \in Actor, ReadProps(a) \/ OpenProps(a) \/ WriteProps(a)
    PROVE  LinesInv'
<1>1. Alone' /\ at' \in [Actor -> Place] /\ \A b \in Actor \ {a} : at'[b] = at[b]
    BY ActorStepAlone, ActorStepMoves DEF LinesInv, Alone, ActorStep
<1>2. CASE ReadProps(a)
  <2>1. /\ at'[a] = "merged" /\ UNCHANGED props
    BY <1>2 DEF ReadProps, Proceeds, Begins, LinesInv, Alone
  <2>2. /\ DOMAIN lines' = Actor /\ "defaults" \in lines'[a]
        /\ \A b \in Actor \ {a} : lines'[b] = lines[b]
    BY <1>2 DEF ReadProps, LinesInv, MergedLines
  <2>3. ~clashed' => ~clashed
    BY <1>2, ActorStepClash DEF ActorStep
  <2> QED BY <1>1, <2>1, <2>2, <2>3 DEF LinesInv
<1>3. CASE Refused(a, {"merged"}) \/ Refused(a, {"props open"})
  <2>1. at'[a] \in {"idle", "done"} /\ UNCHANGED <<props, lines, clashed>>
    BY <1>3 DEF Refused, Proceeds, Rest, LinesInv, Alone, propsVars
  <2> QED BY <1>1, <2>1, PropsUntouched DEF LinesInv
<1>4. CASE Proceeds(a, {"merged"}, "props open") /\ props' = Torn({})
           /\ UNCHANGED <<lines, clashed>>
  <2>1. at[a] = "merged" /\ at'[a] = "props open" /\ props'.is = "torn"
    BY <1>4 DEF Proceeds, LinesInv, Alone, Torn
  <2>2. ~clashed => \A b \in Actor \ {a} : at[b] # "started"
    BY <2>1 DEF LinesInv, Alone, Busy
  <2> QED BY <1>1, <1>4, <2>1, <2>2 DEF LinesInv
<1>5. CASE Proceeds(a, {"props open"}, "started") /\ props' \in Written(props, lines[a], {})
           /\ UNCHANGED <<lines, clashed>>
  <2>1. at[a] = "props open" /\ at'[a] = "started"
    BY <1>5 DEF Proceeds, LinesInv, Alone
  <2>2. ~clashed => props'.has = lines[a]
    <3> SUFFICES ASSUME ~clashed PROVE props'.has = lines[a]
      OBVIOUS
    <3>1. props.is = "torn"
      BY <2>1 DEF LinesInv
    <3>2. props' = Whole(lines[a])
      BY <1>5, <3>1, Zenon DEF Written
    <3> QED BY <3>2 DEF Whole
  <2>3. ~clashed => \A b \in Actor \ {a} : at[b] \notin {"props open", "started"}
    BY <2>1 DEF LinesInv, Alone, Busy
  <2> QED BY <1>1, <1>5, <2>1, <2>2, <2>3 DEF LinesInv
<1> QED BY <1>2, <1>3, <1>4, <1>5 DEF OpenProps, WriteProps, Fails

\* The steps of the other files.
LEMMA OthersKeepLines ==
    ASSUME LinesInv, NEW a \in Actor,
           \/ ChangeSettings(a) \/ EncodeSettings(a) \/ OpenConfig(a) \/ WriteConfig(a)
           \/ StartFails(a)
    PROVE  LinesInv'
<1>1. Alone' /\ at' \in [Actor -> Place] /\ \A b \in Actor \ {a} : at'[b] = at[b]
    BY ActorStepAlone, ActorStepMoves DEF LinesInv, Alone, ActorStep
<1>2. ~clashed' => ~clashed
    BY ActorStepClash DEF ActorStep
<1>3. UNCHANGED <<props, lines>>
    BY DEF ChangeSettings, EncodeSettings, OpenConfig, WriteConfig, StartFails, Refused, Fails,
       Begins, propsVars
<1>4. at'[a] \in {"changed", "encoded", "config open", "idle", "done"}
    BY DEF ChangeSettings, EncodeSettings, OpenConfig, WriteConfig, StartFails, Refused, Fails,
       Proceeds, Rest, LinesInv, Alone
<1> QED BY <1>1, <1>2, <1>3, <1>4, PropsUntouched DEF LinesInv

\* Every step keeps the invariant of the properties.
LEMMA LinesStep == LinesInv /\ [FilesNext]_fileVars => LinesInv'
<1> SUFFICES ASSUME LinesInv, [FilesNext]_fileVars PROVE LinesInv'
    OBVIOUS
<1>1. Alone'
    BY AloneStep DEF LinesInv
<1>2. CASE End
  <2>1. /\ at' = [b \in Actor |-> "idle"] /\ lines' = [b \in Actor |-> {}]
        /\ UNCHANGED <<props, clashed>>
    BY <1>2 DEF End
  <2>2. DOMAIN lines' = Actor /\ \A b \in Actor : at'[b] = "idle"
    BY <2>1
  <2> QED BY <1>1, <2>1, <2>2, PropsUntouched
<1>3. CASE AddServer
  <2>1. /\ at'["window"] \in {"idle", "listed", "bak open", "backed up", "list open"}
        /\ at'["hook"] = at["hook"] /\ UNCHANGED <<clashed, propsVars>>
    BY <1>3, AddServerMoves DEF LinesInv, Alone, Actor
  <2> QED BY <1>1, <2>1, PropsUntouched DEF LinesInv, propsVars, Actor
<1>4. CASE UNCHANGED <<at, propsVars, clashed>>
    BY <1>1, <1>4, PropsUntouched DEF LinesInv, propsVars
<1>5. ASSUME KeyStep \/ Start \/ UNCHANGED fileVars
      PROVE  UNCHANGED <<at, propsVars, clashed>>
    BY <1>5 DEF KeyStep, LoadIdentity, OpenIdentity, WriteIdentity, AgentEnds, Start, fileVars
<1> QED
    BY <1>2, <1>3, <1>4, <1>5, PropsKeep, OthersKeepLines DEF FilesNext, KeyStep

\* Where StartServer goes on to start the process, the settings the code needs
\* are in server.properties (PrepareServerDir), however often one is started and
\* whatever failed before.
THEOREM StartsAreConfigured == FilesSpec => []StartsConfigured
<1>1. FilesInit => LinesInv
  <2> SUFFICES ASSUME FilesInit PROVE LinesInv
    OBVIOUS
  <2>1. DOMAIN lines = Actor /\ \A a \in Actor : at[a] = "idle"
    BY DEF FilesInit
  <2> QED BY <2>1, AloneInit DEF LinesInv
<1>2. LinesInv => StartsConfigured
    BY DEF LinesInv, StartsConfigured
<1> QED
    BY <1>1, <1>2, LinesStep, PTL DEF FilesSpec
=============================================================================
