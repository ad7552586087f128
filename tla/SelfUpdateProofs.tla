---------------------------- MODULE SelfUpdateProofs ----------------------------
(***************************************************************************)
(* Theorems about SelfUpdate, for any versions, any number of copies and   *)
(* of checks at once, and copies that are killed at any point; and about   *)
(* the order of version numbers of any length.                             *)
(***************************************************************************)
EXTENDS SelfUpdate, WellFoundedInduction, TLAPS

Thing == {Exe(c) : c \in Check} \union {Bat(p) : p \in Copy}

CheckState ==
    [at : {"off", "begin", "fetch", "create", "download", "stage", "done"},
     by : Nat, rel : Version, whole : BOOLEAN]

TypeInv ==
    /\ installed \in Version
    /\ temp \subseteq Thing
    /\ copies \in Nat
    /\ status \in [Copy -> {"new", "boot", "sweep", "up", "quit", "exiting", "gone"}]
    /\ ver \in [Copy -> Version]
    /\ sweep \in [Copy -> SUBSET Thing]
    /\ staged \in [Copy -> 0 .. MaxChecks]
    /\ check \in [Check -> CheckState]
    /\ script \in [Copy -> {"none", "wait", "start", "del", "done"}]
    /\ swaps \in [Copy -> 0 .. MaxChecks]

\* A copy that has not been started is new, and a script outlives its copy.
Phases ==
    \A p \in Copy :
        /\ p > copies => status[p] = "new"
        /\ status[p] \notin {"exiting", "gone"} => script[p] = "none"
        /\ status[p] # "gone" => script[p] \in {"none", "wait", "done"}

Running(p) == status[p] \in {"up", "quit", "exiting"}

\* A check that ended with something to install in copy p.
Chosen(p, c) ==
    /\ c \in Check
    /\ check[c].by = p /\ check[c].at = "done" /\ check[c].whole
    /\ Newer(check[c].rel, ver[p])

CheckOK(c) ==
    /\ check[c].at \notin {"off", "done"} => check[c].by \in Copy /\ Running(check[c].by)
    /\ check[c].at = "stage" => check[c].whole
    /\ check[c].at \in {"create", "download", "stage"} =>
        Newer(check[c].rel, ver[check[c].by])

CopyOK(p) ==
    /\ staged[p] # 0 => Running(p) /\ Chosen(p, staged[p])
    /\ script[p] # "none" => Chosen(p, swaps[p])

\* A copy, or a script that has not started the next one yet.
Active(p) == Alive(p) \/ Scripted(p)

\* What holds as long as nobody starts a copy beside another or a script.
Tidy ==
    /\ \A p, q \in Copy : Active(p) /\ Active(q) => p = q
    /\ \A p \in Copy : Active(p) /\ script[p] # "start" => ver[p] = installed
    /\ \A c \in Check : check[c].at \in {"download", "stage"} => Exe(c) \in temp
    /\ \A p \in Copy \ unswept : status[p] = "sweep" => temp \subseteq sweep[p]
    /\ \A p \in Copy : staged[p] # 0 => Exe(staged[p]) \in temp
    /\ \A p \in Copy : script[p] = "wait" => Exe(swaps[p]) \in temp /\ Bat(p) \in temp
    /\ \A p \in Copy : script[p] = "start" => installed = check[swaps[p]].rel
    /\ \A p \in Copy \ unswept : status[p] = "up" =>
        \A t \in temp : t.kind = "exe" /\ check[t.of].by = p

UpdateInv ==
    /\ TypeInv /\ Phases
    /\ \A c \in Check : CheckOK(c)
    /\ \A p \in Copy : CopyOK(p)
    /\ ~overlap => Tidy

\* Checks and copies are numbers; zero is none.
LEMMA Numbers ==
    /\ Copy \subseteq Nat /\ 0 \notin Copy
    /\ \A c \in Check : c \in 0 .. MaxChecks /\ c # 0
    /\ \A c \in 0 .. MaxChecks : c # 0 => c \in Check
BY BoundAssumption DEF Copy, Check

\* What is in the temp directory has a name of its own.
LEMMA Names ==
    /\ \A c \in Check : Exe(c) \in Thing /\ Exe(c).kind = "exe" /\ Exe(c).of = c
    /\ \A p \in Copy : Bat(p) \in Thing /\ Bat(p).kind = "bat" /\ Bat(p).of = p
    /\ \A t \in Thing : (t.kind = "exe" /\ t.of \in Check /\ t = Exe(t.of)) \/ t.kind = "bat"
<1>1. \A c \in Check : Exe(c) \in Thing /\ Exe(c).kind = "exe" /\ Exe(c).of = c
    BY DEF Thing, Exe
<1>2. \A p \in Copy : Bat(p) \in Thing /\ Bat(p).kind = "bat" /\ Bat(p).of = p
    BY DEF Thing, Bat
<1>3. ASSUME NEW t \in Thing
      PROVE  (t.kind = "exe" /\ t.of \in Check /\ t = Exe(t.of)) \/ t.kind = "bat"
  <2>1. CASE \E c \in Check : t = Exe(c)
    BY <1>1, <2>1
  <2>2. CASE \E p \in Copy : t = Bat(p)
    BY <1>2, <2>2
  <2> QED BY <2>1, <2>2 DEF Thing
<1> QED BY <1>1, <1>2, <1>3

\* A running copy is alive, and nobody else is active beside one that is alive.
LEMMA AloneAlive ==
    ASSUME ~overlap => Tidy, NEW p \in Copy, Active(p)
    PROVE  ~overlap => \A q \in Copy : Active(q) => q = p
BY DEF Tidy

-----------------------------------------------------------------------------
(* Checks                                                                  *)

\* A step of a check c that has not ended, in a running copy p.
LEMMA CheckKeeps ==
    ASSUME UpdateInv, NEW c \in Check, NEW p \in Copy, Running(p),
           UNCHANGED <<installed, copyVars, scriptVars>>,
           check' \in [Check -> CheckState], \A d \in Check \ {c} : check'[d] = check[d],
           check[c].at # "done", check[c].by = p \/ check[c].at = "off",
           check'[c].by = p, CheckOK(c)',
           staged' \in [Copy -> 0 .. MaxChecks], \A q \in Copy \ {p} : staged'[q] = staged[q],
           staged'[p] = 0 \/ staged'[p] = staged[p] \/ (staged'[p] = c /\ Chosen(p, c)'),
           temp' \subseteq temp \union {Exe(c)}, temp \ {Exe(c)} \subseteq temp',
           ~overlap /\ (staged'[p] = c \/ check'[c].at \in {"download", "stage"})
             => Exe(c) \in temp'
    PROVE  UpdateInv'
<1> USE DEF UpdateInv, copyVars, scriptVars
<1>1. TypeInv'
    BY Names DEF TypeInv
<1>2. Phases'
    BY DEF Phases
<1>3. \A d \in Check : CheckOK(d)'
    BY DEF CheckOK, Running
<1>4. \A q \in Copy : \A d : Chosen(q, d) => d \in Check /\ check'[d] = check[d] /\ d # c
    BY DEF Chosen
<1>5. \A q \in Copy : CopyOK(q)'
  <2> SUFFICES ASSUME NEW q \in Copy PROVE CopyOK(q)'
    OBVIOUS
  <2>1. CopyOK(q) /\ (Running(q)' <=> Running(q))
    BY DEF Running
  <2>2. script'[q] # "none" => Chosen(q, swaps[q])'
    BY <1>4, <2>1 DEF CopyOK, Chosen
  <2>3. CASE staged'[q] = staged[q]
    BY <1>4, <2>1, <2>2, <2>3 DEF CopyOK, Chosen
  <2>4. CASE staged'[q] = 0
    BY <2>2, <2>4 DEF CopyOK
  <2>5. CASE q = p /\ staged'[q] = c /\ Chosen(p, c)'
    BY <2>1, <2>2, <2>5 DEF CopyOK, Chosen
  <2> QED BY <2>3, <2>4, <2>5
<1>6. ~overlap' => Tidy'
  <2> SUFFICES ASSUME ~overlap PROVE Tidy'
    OBVIOUS
  <2>1. Tidy
    OBVIOUS
  <2>2. Active(p) /\ \A q \in Copy : Active(q) => q = p
    BY <2>1 DEF Tidy, Active, Alive, Running
  <2>3. \A q \in Copy : Active(q)' <=> Active(q)
    BY DEF Active, Alive, Scripted
  <2>4. \A q \in Copy : status[q] # "sweep"
    BY <2>2 DEF Running, Active, Alive
  <2>5. \A q \in Copy : script[q] \in {"wait", "start"} => Chosen(q, swaps[q]) /\ swaps[q] # c
    BY <1>4 DEF CopyOK
  <2>6. \A q \in Copy : script[q] = "wait" => Exe(swaps[q]) \in temp' /\ Bat(q) \in temp'
    <3>1. ASSUME NEW q \in Copy, script[q] = "wait"
          PROVE  Exe(swaps[q]) # Exe(c) /\ Bat(q) # Exe(c)
      BY <2>5, <3>1, Names DEF Chosen
    <3> QED BY <2>1, <3>1 DEF Tidy
  <2>7. \A q \in Copy : script[q] = "start" => installed = check'[swaps[q]].rel
    BY <2>1, <2>5 DEF Tidy, Chosen
  <2>8. \A q \in Copy : staged'[q] # 0 => Exe(staged'[q]) \in temp'
    <3>1. ASSUME NEW q \in Copy, staged'[q] # 0, staged'[q] = staged[q]
          PROVE  Exe(staged[q]) # Exe(c) /\ Exe(staged[q]) \in temp
      BY <1>4, <2>1, <3>1, Names DEF CopyOK, Chosen, Tidy
    <3> QED BY <3>1
  <2>9. \A d \in Check : check'[d].at \in {"download", "stage"} => Exe(d) \in temp'
    <3>1. \A d \in Check \ {c} : Exe(d) # Exe(c)
      BY Names
    <3> QED BY <2>1, <3>1 DEF Tidy
  <2>10. ASSUME NEW q \in Copy \ unswept, status[q] = "up", NEW t \in temp'
         PROVE  t.kind = "exe" /\ check'[t.of].by = q
    <3>1. q = p
      BY <2>2, <2>10 DEF Active, Alive
    <3>2. CASE t \in temp
      <4>1. t.kind = "exe" /\ check[t.of].by = q
        BY <2>1, <2>10, <3>2 DEF Tidy
      <4>2. t.of \in Check
        BY <3>2, <4>1, Names DEF TypeInv
      <4> QED BY <3>1, <4>1, <4>2
    <3>3. CASE t = Exe(c)
      BY <3>1, <3>3, Names
    <3> QED BY <3>2, <3>3
  <2>11. \A q \in Copy : Active(q) /\ script[q] # "start" => ver[q] = installed
    BY <2>1 DEF Tidy
  <2> QED
    BY <2>2, <2>3, <2>4, <2>6, <2>7, <2>8, <2>9, <2>10, <2>11 DEF Tidy
<1> QED BY <1>1, <1>2, <1>3, <1>5, <1>6

\* One record of a check is replaced.
LEMMA CheckReplaced ==
    ASSUME check \in [Check -> CheckState], NEW c \in Check, NEW r \in CheckState,
           check' = [check EXCEPT ![c] = r]
    PROVE  /\ check' \in [Check -> CheckState] /\ check'[c] = r
           /\ \A d \in Check \ {c} : check'[d] = check[d]
OBVIOUS

\* One number of what is staged is replaced.
LEMMA StagedReplaced ==
    ASSUME staged \in [Copy -> 0 .. MaxChecks], NEW p \in Copy, NEW c \in 0 .. MaxChecks,
           staged' = [staged EXCEPT ![p] = c]
    PROVE  /\ staged' \in [Copy -> 0 .. MaxChecks] /\ staged'[p] = c
           /\ \A q \in Copy \ {p} : staged'[q] = staged[q]
OBVIOUS

\* A click on the button.
LEMMA BeginCheckKeeps ==
    ASSUME UpdateInv, NEW p \in Copy, NEW c \in Check, BeginCheck(p, c)
    PROVE  UpdateInv'
<1> USE DEF UpdateInv, TypeInv, BeginCheck
<1>1. check[c] \in CheckState /\ p \in Nat
    BY Numbers
<1>2. /\ check' \in [Check -> CheckState] /\ check'[c].at = "begin" /\ check'[c].by = p
      /\ \A d \in Check \ {c} : check'[d] = check[d]
    BY <1>1 DEF CheckState
<1>3. Running(p) /\ UNCHANGED <<installed, copyVars, scriptVars, staged, temp>>
    BY DEF Running
<1>4. CheckOK(c)'
    BY <1>2, <1>3 DEF CheckOK, Running, copyVars
<1>5. staged[p] # c
    BY Numbers DEF CopyOK, Chosen
<1> QED BY <1>2, <1>3, <1>4, <1>5, CheckKeeps

\* The steps of a check.
LEMMA CheckStepKeeps ==
    ASSUME UpdateInv, NEW c \in Check,
           \/ ClearUpdate(c) \/ GiveUp(c) \/ FetchManifest(c)
           \/ CreateTemp(c) \/ Downloaded(c) \/ DownloadFails(c) \/ Stage(c)
    PROVE  UpdateInv'
<1> USE DEF UpdateInv, TypeInv, At
<1>1. check[c].at \notin {"off", "done"}
    BY DEF ClearUpdate, GiveUp, FetchManifest, CreateTemp, Downloaded, DownloadFails, Stage
<1>2. PICK p \in Copy : p = check[c].by /\ Running(p) /\ check[c] \in CheckState
    BY <1>1 DEF CheckOK
<1>3. UNCHANGED <<installed, copyVars, scriptVars>>
    BY DEF ClearUpdate, GiveUp, FetchManifest, CreateTemp, Downloaded, DownloadFails, Stage
<1>4. staged[p] # c /\ 0 \in 0 .. MaxChecks /\ c \in 0 .. MaxChecks /\ c # 0
    BY <1>1, <1>2, Numbers, BoundAssumption DEF CopyOK, Chosen
<1>5. ~overlap /\ check[c].at \in {"download", "stage"} => Exe(c) \in temp
    BY DEF Tidy
<1>6. CheckOK(c)
    OBVIOUS
<1>7. CASE ClearUpdate(c) \/ GiveUp(c)
  <2>1. /\ check' \in [Check -> CheckState] /\ check'[c].at \in {"fetch", "done"}
        /\ check'[c].by = p /\ \A d \in Check \ {c} : check'[d] = check[d]
    BY <1>2, <1>7 DEF ClearUpdate, GiveUp, CheckState
  <2>2. staged' = [staged EXCEPT ![p] = 0] /\ temp' = temp
    BY <1>2, <1>7 DEF ClearUpdate, GiveUp, SetUpdate
  <2>3. /\ staged' \in [Copy -> 0 .. MaxChecks] /\ staged'[p] = 0
        /\ \A q \in Copy \ {p} : staged'[q] = staged[q]
    BY <1>2, <1>4, <2>2, StagedReplaced
  <2>4. CheckOK(c)'
    BY <1>2, <1>3, <2>1 DEF CheckOK, Running, copyVars
  <2> QED BY <1>1, <1>2, <1>3, <1>4, <2>1, <2>2, <2>3, <2>4, CheckKeeps
<1>8. CASE FetchManifest(c)
  <2>1. PICK r \in Release : /\ Newer(r, ver[p])
                             /\ check' = [check EXCEPT ![c].at = "create", ![c].rel = r]
    BY <1>2, <1>8 DEF FetchManifest
  <2>2. /\ check' \in [Check -> CheckState] /\ check'[c].at = "create" /\ check'[c].rel = r
        /\ check'[c].by = p /\ \A d \in Check \ {c} : check'[d] = check[d]
    BY <1>2, <2>1 DEF CheckState, Version
  <2>3. staged' = [staged EXCEPT ![p] = 0] /\ temp' = temp
    BY <1>2, <1>8 DEF FetchManifest, SetUpdate
  <2>4. /\ staged' \in [Copy -> 0 .. MaxChecks] /\ staged'[p] = 0
        /\ \A q \in Copy \ {p} : staged'[q] = staged[q]
    BY <1>2, <1>4, <2>3, StagedReplaced
  <2>5. CheckOK(c)'
    BY <1>2, <1>3, <2>1, <2>2 DEF CheckOK, Running, copyVars
  <2> QED BY <1>1, <1>2, <1>3, <1>4, <2>2, <2>3, <2>4, <2>5, CheckKeeps
<1>9. CASE CreateTemp(c)
  <2>1. /\ check' \in [Check -> CheckState] /\ check'[c].at = "download"
        /\ check'[c].rel = check[c].rel /\ check'[c].by = p
        /\ \A d \in Check \ {c} : check'[d] = check[d]
    BY <1>2, <1>9 DEF CreateTemp, CheckState
  <2>2. staged' = staged /\ temp' = temp \union {Exe(c)}
    BY <1>9 DEF CreateTemp
  <2>3. CheckOK(c)'
    BY <1>2, <1>3, <1>6, <1>9, <2>1 DEF CreateTemp, CheckOK, Running, copyVars
  <2> QED BY <1>1, <1>2, <1>3, <1>4, <2>1, <2>2, <2>3, CheckKeeps
<1>10. CASE Downloaded(c)
  <2>1. check' = [check EXCEPT ![c].at = "stage", ![c].whole = TRUE]
    <3>1. PICK whole \in BOOLEAN :
            /\ whole
            /\ check' = [check EXCEPT ![c].at = "stage", ![c].whole = whole]
      BY <1>10 DEF Downloaded, Intact
    <3>2. whole = TRUE
      BY <3>1, Zenon
    <3> QED BY <3>1, <3>2
  <2>2. /\ check' \in [Check -> CheckState] /\ check'[c].at = "stage" /\ check'[c].whole
        /\ check'[c].rel = check[c].rel /\ check'[c].by = p
        /\ \A d \in Check \ {c} : check'[d] = check[d]
    BY <1>2, <2>1 DEF CheckState
  <2>3. staged' = staged /\ temp' = temp /\ check[c].at = "download"
    BY <1>10 DEF Downloaded
  <2>4. CheckOK(c)'
    BY <1>2, <1>3, <1>6, <2>2, <2>3 DEF CheckOK, Running, copyVars
  <2> QED BY <1>1, <1>2, <1>3, <1>4, <1>5, <2>2, <2>3, <2>4, CheckKeeps
<1>11. CASE DownloadFails(c)
  <2>1. /\ check' \in [Check -> CheckState] /\ check'[c].at = "done" /\ check'[c].by = p
        /\ \A d \in Check \ {c} : check'[d] = check[d]
    BY <1>2, <1>11 DEF DownloadFails, CheckState
  <2>2. staged' = [staged EXCEPT ![p] = 0] /\ temp' = temp \ {Exe(c)}
    BY <1>2, <1>11 DEF DownloadFails, SetUpdate
  <2>3. /\ staged' \in [Copy -> 0 .. MaxChecks] /\ staged'[p] = 0
        /\ \A q \in Copy \ {p} : staged'[q] = staged[q]
    BY <1>2, <1>4, <2>2, StagedReplaced
  <2>4. CheckOK(c)'
    BY <2>1 DEF CheckOK
  <2> QED BY <1>1, <1>2, <1>3, <1>4, <2>1, <2>2, <2>3, <2>4, CheckKeeps
<1>12. CASE Stage(c)
  <2>1. /\ check' \in [Check -> CheckState] /\ check'[c].at = "done" /\ check'[c].by = p
        /\ check'[c].rel = check[c].rel /\ check'[c].whole = check[c].whole
        /\ \A d \in Check \ {c} : check'[d] = check[d]
    BY <1>2, <1>12 DEF Stage, CheckState
  <2>2. staged' = [staged EXCEPT ![p] = c] /\ temp' = temp /\ check[c].at = "stage"
    BY <1>2, <1>12 DEF Stage, SetUpdate
  <2>3. /\ staged' \in [Copy -> 0 .. MaxChecks] /\ staged'[p] = c
        /\ \A q \in Copy \ {p} : staged'[q] = staged[q]
    BY <1>2, <1>4, <2>2, StagedReplaced
  <2>4. CheckOK(c)'
    BY <2>1 DEF CheckOK
  <2>5. Chosen(p, c)'
    BY <1>2, <1>3, <1>6, <2>1, <2>2 DEF CheckOK, Chosen, copyVars
  <2> QED BY <1>1, <1>2, <1>3, <1>4, <1>5, <2>1, <2>2, <2>3, <2>4, <2>5, CheckKeeps
<1> QED BY <1>7, <1>8, <1>9, <1>10, <1>11, <1>12

-----------------------------------------------------------------------------
(* Copies                                                                  *)

\* A copy is started while no other is alive, or one beside another.
LEMMA LaunchKeeps ==
    ASSUME UpdateInv, Launch, UNCHANGED <<installed, temp, sweep, unswept, staged, check, swaps>>,
           script' \in [Copy -> {"none", "wait", "start", "del", "done"}],
           \A p \in Copy : script'[p] # script[p] => script[p] = "start" /\ script'[p] = "del",
           ~overlap' => ~overlap /\ NobodyAlive /\ \A p \in Copy : ~(Scripted(p)')
    PROVE  UpdateInv'
<1> DEFINE n == copies + 1
<1> USE DEF UpdateInv
<1>1. /\ status' \in [Copy -> {"new", "boot", "sweep", "up", "quit", "exiting", "gone"}]
      /\ ver' \in [Copy -> Version] /\ copies' = n /\ n \in Nat
      /\ \A p \in Copy : p # n => status'[p] = status[p] /\ ver'[p] = ver[p]
      /\ n \in Copy => status'[n] = "boot" /\ ver'[n] = installed
  <2>1. copies' = n /\ n \in Nat
    BY DEF Launch, TypeInv
  <2>2. /\ status' = [status EXCEPT ![n] = "boot"] /\ ver' = [ver EXCEPT ![n] = installed]
        /\ DOMAIN status = Copy /\ DOMAIN ver = Copy
    BY DEF Launch, TypeInv
  <2> HIDE DEF n
  <2>3. /\ status' \in [Copy -> {"new", "boot", "sweep", "up", "quit", "exiting", "gone"}]
        /\ ver' \in [Copy -> Version]
    BY <2>2 DEF TypeInv
  <2>4. /\ \A p \in Copy : p # n => status'[p] = status[p] /\ ver'[p] = ver[p]
        /\ n \in Copy => status'[n] = "boot" /\ ver'[n] = installed
    BY <2>2
  <2> QED BY <2>1, <2>3, <2>4
<1>2. TypeInv'
    BY <1>1 DEF TypeInv
<1>3. n \in Copy => status[n] = "new" /\ script[n] = "none" /\ script'[n] = "none"
    BY Numbers DEF TypeInv, Phases
<1>4. Phases'
  <2>1. \A p \in Copy : p > n => p > copies /\ p # n
    BY Numbers DEF TypeInv
  <2> QED BY <1>1, <1>3, <2>1 DEF Phases
<1>5. \A p \in Copy : Running(p) => p # n /\ Running(p)'
    BY <1>1, <1>3 DEF Running
<1>6. \A c \in Check : CheckOK(c)'
    BY <1>1, <1>5 DEF CheckOK
<1>7. \A p \in Copy : CopyOK(p)'
  <2> SUFFICES ASSUME NEW p \in Copy PROVE CopyOK(p)'
    OBVIOUS
  <2>1. CopyOK(p) /\ (script'[p] # "none" => script[p] # "none" /\ p # n)
    BY <1>3
  <2> QED BY <1>1, <1>5, <2>1 DEF CopyOK, Chosen
<1>8. ~overlap' => Tidy'
  <2> SUFFICES ASSUME ~overlap' PROVE Tidy'
    OBVIOUS
  <2>1. Tidy /\ \A p \in Copy : ~Alive(p) /\ script'[p] \notin {"wait", "start"}
    BY DEF NobodyAlive, Scripted
  <2>2. \A p \in Copy : Active(p)' => p = n
    BY <1>1, <2>1 DEF Active, Alive, Scripted
  <2>3. \A p \in Copy : status'[p] \notin {"sweep", "up"}
    BY <1>1, <2>1 DEF Alive
  <2> QED BY <1>1, <2>1, <2>2, <2>3 DEF Tidy
<1> QED BY <1>2, <1>4, <1>6, <1>7, <1>8

\* A copy lists what is stale.
LEMMA ListStaleKeeps ==
    ASSUME UpdateInv, NEW p \in Copy, ListStale(p)
    PROVE  UpdateInv'
<1> USE DEF UpdateInv, TypeInv
<1>1. /\ status' \in [Copy -> {"new", "boot", "sweep", "up", "quit", "exiting", "gone"}]
      /\ status[p] = "boot" /\ status'[p] = "sweep"
      /\ \A q \in Copy \ {p} : status'[q] = status[q]
      /\ UNCHANGED <<installed, temp, copies, ver, staged, check, scriptVars, users, overlap>>
    BY DEF ListStale
<1>2. /\ sweep' \in [Copy -> SUBSET Thing]
      /\ p \notin unswept' => sweep'[p] = temp
      /\ \A q \in Copy \ {p} : sweep'[q] = sweep[q]
      /\ unswept \subseteq unswept'
    BY DEF ListStale, Stale, SweepError
<1>3. TypeInv'
    BY <1>1, <1>2 DEF scriptVars
<1>4. Phases'
    BY <1>1 DEF Phases, scriptVars
<1>5. \A q \in Copy : Running(q)' <=> Running(q)
    BY <1>1 DEF Running
<1>6. \A c \in Check : CheckOK(c)'
    BY <1>1, <1>5 DEF CheckOK
<1>7. \A q \in Copy : CopyOK(q)'
    BY <1>1, <1>5 DEF CopyOK, Chosen, scriptVars
<1>8. ~overlap' => Tidy'
  <2>1. \A q \in Copy : Active(q)' <=> Active(q)
    BY <1>1 DEF Active, Alive, Scripted, scriptVars
  <2>2. \A q \in Copy : status'[q] = "up" => status[q] = "up"
    BY <1>1
  <2>3. \A q \in Copy : status'[q] = "sweep" => q = p \/ status[q] = "sweep"
    BY <1>1, <1>2
  <2> QED BY <1>1, <1>2, <2>1, <2>2, <2>3 DEF Tidy, scriptVars
<1> QED BY <1>3, <1>4, <1>6, <1>7, <1>8

\* It removes one of them.
LEMMA RemoveStaleKeeps ==
    ASSUME UpdateInv, NEW p \in Copy, RemoveStale(p)
    PROVE  UpdateInv'
<1> USE DEF UpdateInv, TypeInv
<1>1. PICK t \in sweep[p] :
            /\ sweep' = [sweep EXCEPT ![p] = @ \ {t}]
            /\ unswept \subseteq unswept'
            /\ \/ temp' = IF Open(t) THEN temp ELSE temp \ {t}
               \/ temp' = temp /\ p \in unswept'
    BY DEF RemoveStale, SweepError
<1>2. /\ status[p] = "sweep"
      /\ UNCHANGED <<installed, copies, status, ver, staged, check, scriptVars, users, overlap>>
    BY DEF RemoveStale
<1>3. /\ sweep' \in [Copy -> SUBSET Thing] /\ sweep'[p] = sweep[p] \ {t}
      /\ \A q \in Copy \ {p} : sweep'[q] = sweep[q]
    BY <1>1
<1>4. temp' \subseteq temp
    BY <1>1
<1>5. TypeInv' /\ Phases'
    BY <1>2, <1>3, <1>4 DEF Phases, scriptVars
<1>6. \A c \in Check : CheckOK(c)'
    BY <1>2 DEF CheckOK, Running
<1>7. \A q \in Copy : CopyOK(q)'
    BY <1>2 DEF CopyOK, Chosen, Running, scriptVars
<1>8. ~overlap' => Tidy'
  <2> SUFFICES ASSUME ~overlap PROVE Tidy'
    BY <1>2
  <2>1. Tidy /\ \A q \in Copy : Active(q) => q = p
    BY <1>2 DEF Tidy, Active, Alive
  <2>2. \A q \in Copy : ~Running(q) /\ staged[q] = 0
    BY <1>2, <2>1 DEF Active, Alive, Running, CopyOK
  <2>3. \A q \in Copy : script[q] \notin {"wait", "start"}
    BY <1>2, <2>1 DEF Active, Scripted, Phases
  <2>4. \A c \in Check : check[c].at \in {"off", "done"}
    BY <2>2 DEF CheckOK
  <2>5. ~Open(t)
    BY <1>1, <2>4, Names DEF Open
  <2>6. p \notin unswept' => temp \subseteq sweep[p] /\ temp' \subseteq sweep'[p]
    BY <1>1, <1>2, <1>3, <2>1, <2>5 DEF Tidy
  <2>7. \A q \in Copy : status[q] \in {"sweep", "up"} => q = p
    BY <2>1 DEF Active, Alive
  <2>8. \A q \in Copy : (Active(q)' <=> Active(q))
    BY <1>2 DEF Active, Alive, Scripted, scriptVars
  <2>9. \A c \in Check : check[c].at \notin {"download", "stage"}
    BY <2>4
  <2> QED
    BY <1>1, <1>2, <2>1, <2>2, <2>3, <2>6, <2>7, <2>8, <2>9 DEF Tidy, scriptVars
<1> QED BY <1>5, <1>6, <1>7, <1>8

\* It is ready once there is nothing left to remove.
LEMMA ReadyKeeps ==
    ASSUME UpdateInv, NEW p \in Copy, Ready(p)
    PROVE  UpdateInv'
<1> USE DEF UpdateInv, TypeInv
<1>1. /\ status' \in [Copy -> {"new", "boot", "sweep", "up", "quit", "exiting", "gone"}]
      /\ status[p] = "sweep" /\ sweep[p] = {} /\ status'[p] = "up"
      /\ \A q \in Copy \ {p} : status'[q] = status[q]
      /\ UNCHANGED <<installed, temp, copies, ver, sweep, unswept, staged, check>>
      /\ UNCHANGED <<scriptVars, unswept, users, overlap>>
    BY DEF Ready
<1>2. TypeInv' /\ Phases'
    BY <1>1 DEF Phases, scriptVars
<1>3. \A q \in Copy : Running(q) => Running(q)'
    BY <1>1 DEF Running
<1>4. \A c \in Check : CheckOK(c)'
    BY <1>1, <1>3 DEF CheckOK
<1>5. \A q \in Copy : CopyOK(q)'
    BY <1>1, <1>3 DEF CopyOK, Chosen, scriptVars
<1>6. ~overlap' => Tidy'
  <2> SUFFICES ASSUME ~overlap PROVE Tidy'
    BY <1>1
  <2>1. Tidy /\ (p \notin unswept => temp = {})
    BY <1>1 DEF Tidy
  <2>2. \A q \in Copy : Active(q)' <=> Active(q)
    BY <1>1 DEF Active, Alive, Scripted, scriptVars
  <2>3. \A q \in Copy : status'[q] = "sweep" => status[q] = "sweep"
    BY <1>1
  <2> QED BY <1>1, <2>1, <2>2, <2>3 DEF Tidy, scriptVars
<1> QED BY <1>2, <1>4, <1>5, <1>6

\* Its window goes.
LEMMA QuitKeeps ==
    ASSUME UpdateInv, NEW p \in Copy, Quit(p)
    PROVE  UpdateInv'
<1> USE DEF UpdateInv, TypeInv
<1>1. /\ status' \in [Copy -> {"new", "boot", "sweep", "up", "quit", "exiting", "gone"}]
      /\ status[p] = "up" /\ status'[p] = "quit"
      /\ \A q \in Copy \ {p} : status'[q] = status[q]
      /\ UNCHANGED <<installed, temp, copies, ver, sweep, unswept, staged, check>>
      /\ UNCHANGED <<scriptVars, unswept, users, overlap>>
    BY DEF Quit
<1>2. TypeInv' /\ Phases'
    BY <1>1 DEF Phases, scriptVars
<1>3. \A q \in Copy : Running(q) <=> Running(q)'
    BY <1>1 DEF Running
<1>4. \A c \in Check : CheckOK(c)'
    BY <1>1, <1>3 DEF CheckOK
<1>5. \A q \in Copy : CopyOK(q)'
    BY <1>1, <1>3 DEF CopyOK, Chosen, scriptVars
<1>6. ~overlap' => Tidy'
  <2>1. \A q \in Copy : Active(q)' <=> Active(q)
    BY <1>1 DEF Active, Alive, Scripted, scriptVars
  <2>2. \A q \in Copy : /\ status'[q] = "sweep" => status[q] = "sweep"
                        /\ status'[q] = "up" => status[q] = "up"
    BY <1>1
  <2> QED BY <1>1, <2>1, <2>2 DEF Tidy, scriptVars
<1> QED BY <1>2, <1>4, <1>5, <1>6

\* It writes and starts its install script.
LEMMA ArmScriptKeeps ==
    ASSUME UpdateInv, NEW p \in Copy, ArmScript(p)
    PROVE  UpdateInv'
<1> USE DEF UpdateInv, TypeInv
<1>1. /\ status' \in [Copy -> {"new", "boot", "sweep", "up", "quit", "exiting", "gone"}]
      /\ status[p] = "quit" /\ status'[p] = "exiting"
      /\ \A q \in Copy \ {p} : status'[q] = status[q]
      /\ UNCHANGED <<installed, copies, ver, sweep, unswept, staged, check, users, overlap>>
    BY DEF ArmScript
<1>2. /\ script' \in [Copy -> {"none", "wait", "start", "del", "done"}] /\ script'[p] = "wait"
      /\ swaps' \in [Copy -> 0 .. MaxChecks] /\ swaps'[p] = staged[p] /\ staged[p] # 0
      /\ \A q \in Copy \ {p} : script'[q] = script[q] /\ swaps'[q] = swaps[q]
      /\ temp' = temp \union {Bat(p)}
    BY DEF ArmScript
<1>3. TypeInv' /\ Phases'
    BY <1>1, <1>2, Names DEF Phases
<1>4. \A q \in Copy : Running(q) <=> Running(q)'
    BY <1>1 DEF Running
<1>5. \A c \in Check : CheckOK(c)'
    BY <1>1, <1>4 DEF CheckOK
<1>6. \A q \in Copy : CopyOK(q)'
    BY <1>1, <1>2, <1>4 DEF CopyOK, Chosen
<1>7. ~overlap' => Tidy'
  <2> SUFFICES ASSUME ~overlap PROVE Tidy'
    BY <1>1
  <2>1. Tidy /\ \A q \in Copy : Active(q) => q = p
    BY <1>1 DEF Tidy, Active, Alive
  <2>2. \A q \in Copy : Active(q)' => q = p
    BY <1>1, <1>2, <2>1 DEF Active, Alive, Scripted
  <2>3. \A q \in Copy : status'[q] \notin {"sweep", "up"}
    BY <1>1, <2>1 DEF Active, Alive
  <2>4. Active(p) /\ script[p] = "none"
    BY <1>1 DEF Active, Alive, Phases
  <2>5. \A q \in Copy : script'[q] # "start"
    BY <1>1, <1>2, <2>1 DEF Active, Scripted
  <2> QED BY <1>1, <1>2, <2>1, <2>2, <2>3, <2>4, <2>5 DEF Tidy
<1> QED BY <1>3, <1>5, <1>6, <1>7

\* Its process ends.
LEMMA EndsKeeps ==
    ASSUME UpdateInv, NEW p \in Copy, Alive(p), Ends(p)
    PROVE  UpdateInv'
<1> USE DEF UpdateInv, TypeInv
<1>1. /\ status' \in [Copy -> {"new", "boot", "sweep", "up", "quit", "exiting", "gone"}]
      /\ status'[p] = "gone" /\ \A q \in Copy \ {p} : status'[q] = status[q]
      /\ staged' \in [Copy -> 0 .. MaxChecks] /\ staged'[p] = 0
      /\ \A q \in Copy \ {p} : staged'[q] = staged[q]
      /\ sweep' \in [Copy -> SUBSET Thing] /\ \A q \in Copy \ {p} : sweep'[q] = sweep[q]
    BY BoundAssumption DEF Ends
<1>2. UNCHANGED <<installed, temp, copies, ver, scriptVars, unswept, users, overlap>>
    BY DEF Ends
<1>3. ASSUME NEW c \in Check
      PROVE  /\ check'[c] \in CheckState
             /\ check'[c].by = check[c].by /\ check'[c].rel = check[c].rel
             /\ check'[c].whole = check[c].whole
             /\ check'[c].at = IF check[c].by = p THEN "done" ELSE check[c].at
  <2>1. check[c] \in CheckState
    OBVIOUS
  <2>2. check'[c] = IF check[c].by = p THEN [check[c] EXCEPT !.at = "done"] ELSE check[c]
    BY DEF Ends
  <2> QED BY <2>1, <2>2 DEF CheckState
<1>4. check' \in [Check -> CheckState]
  <2>1. DOMAIN check' = Check /\ check' = [c \in Check |-> check'[c]]
    BY DEF Ends
  <2> QED BY <1>3, <2>1
<1>5. TypeInv'
    BY <1>1, <1>2, <1>4 DEF scriptVars
<1>6. Phases'
  <2>1. Phases /\ ~(p > copies)
    BY DEF Phases, Alive
  <2> QED BY <1>1, <1>2, <2>1 DEF Phases, scriptVars
<1>7. \A q \in Copy \ {p} : Running(q)' <=> Running(q)
    BY <1>1 DEF Running
<1>8. \A c \in Check : CheckOK(c)'
    BY <1>2, <1>3, <1>7 DEF CheckOK
<1>9. \A q \in Copy : CopyOK(q)'
    BY <1>1, <1>2, <1>3, <1>7 DEF CopyOK, Chosen, scriptVars
<1>10. ~overlap' => Tidy'
  <2> SUFFICES ASSUME ~overlap PROVE Tidy'
    BY <1>2
  <2>1. Tidy
    OBVIOUS
  <2>2. \A q \in Copy : Active(q)' => Active(q)
    BY <1>1, <1>2 DEF Active, Alive, Scripted, scriptVars
  <2>3. \A q \in Copy : status'[q] \in {"sweep", "up"} => q # p
    BY <1>1
  <2>4. \A q \in Copy : script[q] = "start" => installed = check'[swaps[q]].rel
    BY <1>3, <2>1 DEF Tidy, CopyOK, Chosen
  <2>5. \A q \in Copy \ unswept, t \in temp :
          status'[q] = "up" => t.kind = "exe" /\ check'[t.of].by = q
    <3>1. ASSUME NEW q \in Copy \ unswept, NEW t \in temp, status'[q] = "up"
          PROVE  t.kind = "exe" /\ check'[t.of].by = q
      <4>1. t.kind = "exe" /\ check[t.of].by = q
        BY <1>1, <2>1, <2>3, <3>1 DEF Tidy
      <4>2. t.of \in Check
        BY <4>1, Names
      <4> QED BY <1>3, <4>1, <4>2
    <3> QED BY <3>1
  <2>6. \A c \in Check : check'[c].at \in {"download", "stage"} => Exe(c) \in temp
    BY <1>3, <2>1 DEF Tidy
  <2>7. \A q \in Copy : staged'[q] # 0 => Exe(staged'[q]) \in temp
    BY <1>1, <2>1 DEF Tidy
  <2> QED
    BY <1>1, <1>2, <2>1, <2>2, <2>3, <2>4, <2>5, <2>6, <2>7 DEF Tidy, scriptVars
<1> QED BY <1>5, <1>6, <1>8, <1>9, <1>10

-----------------------------------------------------------------------------
(* The script                                                              *)

\* copy /y
LEMMA CopyLineKeeps ==
    ASSUME UpdateInv, NEW p \in Copy, CopyLine(p)
    PROVE  /\ UpdateInv'
           /\ ~overlap => installed' = check[swaps[p]].rel
<1> USE DEF UpdateInv, TypeInv
<1>1. /\ script[p] = "wait" /\ status[p] = "gone" /\ installed' = Swapped(p)
      /\ UNCHANGED <<temp, copyVars, staged, check, swaps>>
    BY DEF CopyLine, AtLine
<1>2. /\ script' \in [Copy -> {"none", "wait", "start", "del", "done"}]
      /\ script'[p] = "start" /\ \A q \in Copy \ {p} : script'[q] = script[q]
    BY DEF CopyLine, Regardless
<1>3. Chosen(p, swaps[p])
    BY <1>1 DEF CopyOK
<1>4. check[swaps[p]].rel \in Version
    BY <1>3 DEF Chosen, CheckState
<1>5. installed' \in {installed, check[swaps[p]].rel}
    BY <1>1, <1>3 DEF Swapped, Chosen
<1>6. TypeInv' /\ Phases'
    BY <1>1, <1>2, <1>4, <1>5 DEF Phases, copyVars
<1>7. \A c \in Check : CheckOK(c)'
    BY <1>1 DEF CheckOK, Running, copyVars
<1>8. \A q \in Copy : CopyOK(q)'
    BY <1>1, <1>2, <1>3 DEF CopyOK, Chosen, Running, copyVars
<1>9. ASSUME ~overlap
      PROVE  /\ Tidy /\ installed' = check[swaps[p]].rel
             /\ \A q \in Copy : Active(q) => q = p
  <2>1. Tidy
    BY <1>9
  <2>2. \A q \in Copy : Active(q) => q = p
    BY <1>1, <2>1 DEF Tidy, Active, Scripted
  <2>3. NobodyAlive
    BY <1>1, <2>2 DEF NobodyAlive, Active, Alive
  <2>4. Exe(swaps[p]) \in temp
    BY <1>1, <2>1 DEF Tidy
  <2> QED BY <1>1, <1>3, <2>1, <2>2, <2>3, <2>4 DEF Swapped, Chosen
<1>10. ~overlap' => Tidy'
  <2> SUFFICES ASSUME ~overlap PROVE Tidy'
    BY <1>1 DEF copyVars
  <2>1. \A q \in Copy : Active(q)' => q = p
    BY <1>1, <1>2, <1>9 DEF Active, Alive, Scripted, copyVars
  <2>2. \A q \in Copy : script'[q] = "start" => q = p
    BY <1>2, <1>9 DEF Active, Scripted
  <2>3. \A q \in Copy : script'[q] # "wait"
    BY <1>2, <1>9 DEF Active, Scripted
  <2> QED BY <1>1, <1>2, <1>9, <2>1, <2>2, <2>3 DEF Tidy, copyVars
<1> QED BY <1>6, <1>7, <1>8, <1>9, <1>10

\* start
LEMMA StartLineKeeps ==
    ASSUME UpdateInv, NEW p \in Copy, StartLine(p)
    PROVE  UpdateInv'
<1> USE DEF UpdateInv
<1>1. /\ script[p] = "start" /\ status[p] = "gone" /\ Launch
      /\ UNCHANGED <<installed, temp, sweep, unswept, staged, check, swaps, overlap>>
    BY DEF StartLine, AtLine
<1>2. /\ script' \in [Copy -> {"none", "wait", "start", "del", "done"}]
      /\ script'[p] = "del" /\ \A q \in Copy \ {p} : script'[q] = script[q]
    BY DEF StartLine, TypeInv
<1>3. ~overlap => NobodyAlive /\ \A q \in Copy : script'[q] \notin {"wait", "start"}
    BY <1>1, <1>2 DEF Tidy, Active, Scripted, NobodyAlive, Alive
<1>4. ~overlap' => ~overlap /\ NobodyAlive /\ \A q \in Copy : ~(Scripted(q)')
    BY <1>1, <1>3 DEF Scripted
<1>5. \A q \in Copy : script'[q] # script[q] => script[q] = "start" /\ script'[q] = "del"
    BY <1>1, <1>2
<1> QED BY <1>1, <1>2, <1>4, <1>5, LaunchKeeps

\* del
LEMMA DelLineKeeps ==
    ASSUME UpdateInv, NEW p \in Copy, DelLine(p)
    PROVE  UpdateInv'
<1> USE DEF UpdateInv, TypeInv
<1>1. /\ script[p] = "del" /\ status[p] = "gone" /\ temp' = temp \ {Exe(swaps[p])}
      /\ UNCHANGED <<installed, copyVars, staged, check, swaps>>
    BY DEF DelLine, AtLine
<1>2. /\ script' \in [Copy -> {"none", "wait", "start", "del", "done"}]
      /\ script'[p] = "done" /\ \A q \in Copy \ {p} : script'[q] = script[q]
    BY DEF DelLine
<1>3. Chosen(p, swaps[p])
    BY <1>1 DEF CopyOK
<1>4. TypeInv' /\ Phases'
    BY <1>1, <1>2 DEF Phases, copyVars
<1>5. \A c \in Check : CheckOK(c)'
    BY <1>1 DEF CheckOK, Running, copyVars
<1>6. \A q \in Copy : CopyOK(q)'
    BY <1>1, <1>2, <1>3 DEF CopyOK, Chosen, Running, copyVars
<1>7. ~overlap' => Tidy'
  <2> SUFFICES ASSUME ~overlap PROVE Tidy'
    BY <1>1 DEF copyVars
  <2>1. Tidy /\ swaps[p] \in Check
    BY <1>3 DEF Chosen
  <2>2. \A c \in Check : c # swaps[p] => Exe(c) # Exe(swaps[p])
    BY <2>1, Names
  <2>3. \A c \in Check : check[c].at \in {"download", "stage"} => Exe(c) \in temp'
    BY <1>1, <1>3, <2>1, <2>2 DEF Tidy, Chosen
  <2>4. \A q \in Copy : staged[q] # 0 => Exe(staged[q]) \in temp'
    <3>1. \A q \in Copy : staged[q] # 0 => staged[q] \in Check /\ staged[q] # swaps[p]
      BY <1>1, <1>3 DEF CopyOK, Chosen, Running
    <3> QED BY <1>1, <2>1, <2>2, <3>1 DEF Tidy
  <2>5. \A q \in Copy : script'[q] = "wait" => Exe(swaps[q]) \in temp' /\ Bat(q) \in temp'
    <3>1. ASSUME NEW q \in Copy, script'[q] = "wait"
          PROVE  /\ script[q] = "wait" /\ swaps[q] \in Check /\ swaps[q] # swaps[p]
                 /\ Bat(q) # Exe(swaps[p])
      BY <1>1, <1>2, <1>3, <2>1, <3>1, Names DEF CopyOK, Chosen
    <3> QED BY <1>1, <2>1, <2>2, <3>1 DEF Tidy
  <2>6. \A q \in Copy : /\ Active(q)' <=> Active(q)
                        /\ script'[q] = "start" <=> script[q] = "start"
    BY <1>1, <1>2 DEF Active, Alive, Scripted, copyVars
  <2> QED
    BY <1>1, <2>1, <2>3, <2>4, <2>5, <2>6 DEF Tidy, copyVars
<1> QED BY <1>4, <1>5, <1>6, <1>7

\* There is no next line.
LEMMA NoLineKeeps ==
    ASSUME UpdateInv, NEW p \in Copy, NoLine(p)
    PROVE  UpdateInv'
<1> USE DEF UpdateInv, TypeInv
<1>1. /\ script[p] \in {"wait", "start", "del"}
      /\ UNCHANGED <<installed, temp, copyVars, staged, check, swaps>>
    BY DEF NoLine
<1>2. /\ script' \in [Copy -> {"none", "wait", "start", "del", "done"}]
      /\ script'[p] = "done" /\ \A q \in Copy \ {p} : script'[q] = script[q]
    BY DEF NoLine
<1>3. TypeInv' /\ Phases'
    BY <1>1, <1>2 DEF Phases, copyVars
<1>4. \A c \in Check : CheckOK(c)'
    BY <1>1 DEF CheckOK, Running, copyVars
<1>5. \A q \in Copy : CopyOK(q)'
    BY <1>1, <1>2 DEF CopyOK, Chosen, Running, copyVars
<1>6. ~overlap' => Tidy'
  <2> SUFFICES ASSUME ~overlap PROVE Tidy'
    BY <1>1 DEF copyVars
  <2>1. Tidy
    OBVIOUS
  <2>2. \A q \in Copy : Active(q)' => Active(q)
    BY <1>1, <1>2 DEF Active, Alive, Scripted, copyVars
  <2>3. \A q \in Copy : script'[q] \in {"wait", "start"} => script'[q] = script[q]
    BY <1>2
  <2>4. \A q \in Copy : Active(q)' /\ script'[q] # "start" => script[q] # "start"
    BY <1>1, <1>2 DEF Active, Alive, Scripted, Phases, copyVars
  <2> QED BY <1>1, <2>1, <2>2, <2>3, <2>4 DEF Tidy, copyVars
<1> QED BY <1>3, <1>4, <1>5, <1>6

-----------------------------------------------------------------------------
(* The whole                                                               *)

\* The user starts a copy.
LEMMA UserStartsKeeps ==
    ASSUME UpdateInv, UserStarts
    PROVE  UpdateInv'
<1>1. Launch /\ UNCHANGED <<installed, temp, sweep, unswept, staged, check, scriptVars>>
    BY DEF UserStarts
<1>2. overlap' = (overlap \/ ~NobodyAlive \/ \E p \in Copy : Scripted(p))
    BY DEF UserStarts
<1>3. ~overlap' => ~overlap /\ NobodyAlive /\ \A p \in Copy : ~Scripted(p)
    BY <1>2, Zenon
<1>4. \A p \in Copy : Scripted(p)' <=> Scripted(p)
    BY <1>1 DEF Scripted, scriptVars
<1> QED BY <1>1, <1>3, <1>4, LaunchKeeps DEF scriptVars, UpdateInv, TypeInv

\* Every step keeps the invariant.
LEMMA UpdateStep == UpdateInv /\ [Next]_vars => UpdateInv'
<1> SUFFICES ASSUME UpdateInv, [Next]_vars PROVE UpdateInv'
    OBVIOUS
<1>1. CASE UNCHANGED vars
    BY <1>1 DEF vars, copyVars, scriptVars, UpdateInv, TypeInv, Phases, CheckOK, CopyOK, Chosen,
       Running, Tidy, Active, Alive, Scripted
<1>2. ASSUME NEW p \in Copy, Exit(p) \/ Kill(p) PROVE UpdateInv'
    BY <1>2, EndsKeeps DEF Exit, Kill, Alive
<1>3. ASSUME NEW p \in Copy, Script(p) PROVE UpdateInv'
    BY <1>3, CopyLineKeeps, StartLineKeeps, DelLineKeeps, NoLineKeeps DEF Script
<1> QED
    BY <1>1, <1>2, <1>3, UserStartsKeeps, ListStaleKeeps, RemoveStaleKeeps, ReadyKeeps,
       QuitKeeps, ArmScriptKeeps, BeginCheckKeeps, CheckStepKeeps DEF Next

\* Nothing is staged, scripted or in the temp directory at first.
LEMMA UpdateInit == Init => UpdateInv
<1> SUFFICES ASSUME Init PROVE UpdateInv
    OBVIOUS
<1>1. TypeInv
    BY BoundAssumption DEF Init, TypeInv, Version, CheckState
<1>2. Phases
    BY Numbers DEF Init, Phases
<1>3. \A c \in Check : CheckOK(c)
    BY DEF Init, CheckOK
<1>4. \A p \in Copy : CopyOK(p)
    BY DEF Init, CopyOK
<1>5. Tidy
    BY DEF Init, Tidy, Active, Alive, Scripted
<1> QED BY <1>1, <1>2, <1>3, <1>4, <1>5 DEF UpdateInv

\* "Downloaded, will be installed on exit" (checkUpdate): as long as no copy is
\* started beside another or while an install script still waits, for any
\* number of checks at once and any kills.
THEOREM AnnouncedIsInstalled == Spec => []PromiseKept
<1>1. UpdateInv => PromiseKept
    BY DEF UpdateInv, Tidy, PromiseKept
<1> QED
    BY <1>1, UpdateInit, UpdateStep, PTL DEF Spec

\* What an earlier copy or its script left is gone once a copy is up
\* whose CleanupStale met no error, wherever the earlier one was killed.
THEOREM StartsAreClean == Spec => []StartsClean
<1>1. UpdateInv => StartsClean
    BY DEF UpdateInv, Tidy, StartsClean
<1> QED
    BY <1>1, UpdateInit, UpdateStep, PTL DEF Spec

\* The comparison of versions agrees with the order of their first different
\* parts, however many parts they have.
LEMMA NewerIsLater ==
    ASSUME NEW v \in Seq(Nat), NEW w \in Seq(Nat), Newer(v, w)
    PROVE  Later(v, w)
<1>1. /\ DOMAIN v = 1 .. Len(v) /\ DOMAIN w = 1 .. Len(w)
      /\ Len(v) \in Nat /\ Len(w) \in Nat
    OBVIOUS
<1>2. \A i \in Nat : Part(v, i) \in Nat /\ Part(w, i) \in Nat
    BY <1>1 DEF Part
<1>3. PICK i \in DOMAIN v \union DOMAIN w :
        Part(v, i) > Part(w, i) /\ \A j \in 1 .. i - 1 : Part(v, j) = Part(w, j)
    BY DEF Newer
<1> DEFINE differ == {k \in DOMAIN v \union DOMAIN w : Part(v, k) # Part(w, k)}
<1>4. i \in Nat /\ i \in differ
  <2>1. i \in Nat
    BY <1>1
  <2>2. Part(v, i) # Part(w, i)
    BY <1>2, <1>3, <2>1
  <2> QED BY <2>1, <2>2
<1>5. \A j \in differ : i <= j
  <2> SUFFICES ASSUME NEW j \in differ, ~(i <= j) PROVE FALSE
    OBVIOUS
  <2>1. j \in 1 .. i - 1
    BY <1>1, <1>4
  <2> QED BY <1>3, <2>1
<1> QED BY <1>3, <1>4, <1>5 DEF Later

\* Two version numbers that differ in some part are ordered (not-there being
\* zero, 1.0 and 1.0.0 do not differ).
Differ(v, w) == {i \in DOMAIN v \union DOMAIN w : Part(v, i) # Part(w, i)}

\* The parts of a version, and where it has any that count.
LEMMA Parts ==
    ASSUME NEW v \in Seq(Nat)
    PROVE  /\ DOMAIN v \subseteq Nat \ {0}
           /\ \A i \in Nat : Part(v, i) \in Nat
           /\ \A i \in Nat : Part(v, i) # 0 => i \in DOMAIN v
BY DEF Part

\* No version is newer than itself,
LEMMA NewerIsIrreflexive == ASSUME NEW v \in Seq(Nat) PROVE ~Newer(v, v)
BY Parts DEF Newer

\* one newer than a newer one is newer,
LEMMA NewerIsTransitive ==
    ASSUME NEW u \in Seq(Nat), NEW v \in Seq(Nat), NEW w \in Seq(Nat), Newer(u, v), Newer(v, w)
    PROVE  Newer(u, w)
<1>1. PICK i \in DOMAIN u \union DOMAIN v :
        Part(u, i) > Part(v, i) /\ \A k \in 1 .. i - 1 : Part(u, k) = Part(v, k)
    BY DEF Newer
<1>2. PICK j \in DOMAIN v \union DOMAIN w :
        Part(v, j) > Part(w, j) /\ \A k \in 1 .. j - 1 : Part(v, k) = Part(w, k)
    BY DEF Newer
<1>3. i \in Nat \ {0} /\ j \in Nat \ {0}
    BY Parts
<1>4. \A k \in Nat : Part(u, k) \in Nat /\ Part(v, k) \in Nat /\ Part(w, k) \in Nat
    BY Parts
<1>5. ASSUME NEW k \in Nat, Part(u, k) > Part(w, k),
             \A l \in 1 .. k - 1 : Part(u, l) = Part(w, l)
      PROVE  Newer(u, w)
  <2>1. k \in DOMAIN u
    BY <1>4, <1>5, Parts
  <2> QED BY <1>5, <2>1 DEF Newer
<1>6. CASE i < j
  <2>1. Part(u, i) > Part(w, i)
    BY <1>1, <1>2, <1>3, <1>4, <1>6
  <2>2. \A l \in 1 .. i - 1 : Part(u, l) = Part(w, l)
    BY <1>1, <1>2, <1>3, <1>6
  <2> QED BY <1>3, <1>5, <2>1, <2>2
<1>7. CASE i = j
  <2>1. Part(u, i) > Part(w, i)
    BY <1>1, <1>2, <1>3, <1>4, <1>7
  <2>2. \A l \in 1 .. i - 1 : Part(u, l) = Part(w, l)
    BY <1>1, <1>2, <1>3, <1>7
  <2> QED BY <1>3, <1>5, <2>1, <2>2
<1>8. CASE j < i
  <2>1. Part(u, j) > Part(w, j)
    BY <1>1, <1>2, <1>3, <1>4, <1>8
  <2>2. \A l \in 1 .. j - 1 : Part(u, l) = Part(w, l)
    BY <1>1, <1>2, <1>3, <1>8
  <2> QED BY <1>3, <1>5, <2>1, <2>2
<1> QED BY <1>3, <1>6, <1>7, <1>8

\* and of two that differ one is newer: at the first part in which they do.
LEMMA NewerIsTotal ==
    ASSUME NEW v \in Seq(Nat), NEW w \in Seq(Nat), Differ(v, w) # {}
    PROVE  Newer(v, w) \/ Newer(w, v)
<1>1. Differ(v, w) \subseteq Nat
    BY Parts DEF Differ
<1>2. PICK i \in Differ(v, w) : \A j \in Differ(v, w) : ~(j < i)
  <2>1. PICK i \in Differ(v, w) :
          \A j \in Differ(v, w) : ~(<<j, i>> \in OpToRel(<, Nat))
    BY <1>1, NatLessThanWellFounded, WFMin
  <2> QED BY <1>1, <2>1 DEF OpToRel
<1>3. i \in Nat /\ i \in DOMAIN v \union DOMAIN w /\ Part(v, i) # Part(w, i)
    BY <1>1 DEF Differ
<1>4. \A j \in 1 .. i - 1 : Part(v, j) = Part(w, j)
  <2> SUFFICES ASSUME NEW j \in 1 .. i - 1, Part(v, j) # Part(w, j) PROVE FALSE
    OBVIOUS
  <2>1. j \in Nat /\ j < i
    BY <1>3
  <2>2. j \in DOMAIN v \union DOMAIN w
    BY <2>1, Parts
  <2> QED BY <1>2, <2>1, <2>2 DEF Differ
<1>5. Part(v, i) > Part(w, i) \/ Part(w, i) > Part(v, i)
    BY <1>3, Parts
<1> QED BY <1>3, <1>4, <1>5 DEF Newer

\* The comparison is an order of the versions (Newer): what an update decides
\* on does not depend on where it is asked, nor on the number of parts.
THEOREM NewerIsAnOrder ==
    \A u, v, w \in Seq(Nat) :
        /\ ~Newer(v, v)
        /\ Newer(u, v) /\ Newer(v, w) => Newer(u, w)
        /\ Newer(v, w) \/ Newer(w, v) <=> Differ(v, w) # {}
<1> SUFFICES ASSUME NEW u \in Seq(Nat), NEW v \in Seq(Nat), NEW w \in Seq(Nat)
             PROVE  /\ ~Newer(v, v)
                    /\ Newer(u, v) /\ Newer(v, w) => Newer(u, w)
                    /\ Newer(v, w) \/ Newer(w, v) <=> Differ(v, w) # {}
    OBVIOUS
<1>1. ASSUME NEW x \in Seq(Nat), NEW y \in Seq(Nat), Newer(x, y) PROVE Differ(x, y) # {}
  <2>1. PICK i \in DOMAIN x \union DOMAIN y : Part(x, i) > Part(y, i)
    BY <1>1 DEF Newer
  <2>2. i \in Nat
    BY Parts
  <2>3. Part(x, i) # Part(y, i)
    BY <2>1, <2>2, Parts
  <2> QED BY <2>3 DEF Differ
<1>2. Differ(v, w) = Differ(w, v)
    BY DEF Differ
<1> QED BY <1>1, <1>2, NewerIsIrreflexive, NewerIsTransitive, NewerIsTotal

\* Without copies side by side, a step that changes the installed program is
\* that of a script, and puts a newer version there.
LEMMA InstallsNewer ==
    ASSUME UpdateInv, [Next]_vars, installed' # installed, ~overlap
    PROVE  /\ installed \in Seq(Nat) /\ installed' \in Seq(Nat)
           /\ Newer(installed', installed)
<1>1. PICK p \in Copy : CopyLine(p)
    BY DEF Next, vars, UserStarts, ListStale, RemoveStale, Ready, Quit, ArmScript, Exit,
       Kill, Ends, Script, StartLine, DelLine, NoLine, BeginCheck, ClearUpdate, GiveUp,
       FetchManifest, CreateTemp, Downloaded, DownloadFails, Stage
<1>2. installed' = check[swaps[p]].rel
    BY <1>1, CopyLineKeeps
<1>3. Chosen(p, swaps[p]) /\ ver[p] = installed
    BY <1>1 DEF UpdateInv, Tidy, CopyOK, CopyLine, AtLine, Active, Scripted
<1>4. installed \in Version /\ installed' \in Version
    BY <1>2, <1>3 DEF UpdateInv, TypeInv, Chosen, CheckState
<1> QED BY <1>2, <1>3, <1>4, VersionAssumption DEF Chosen

\* Updates only go forward (Newer), for versions of any length, unless two
\* copies ran side by side.
THEOREM UpdatesGoForward == Spec => OnlyForward
<1>1. ASSUME UpdateInv, [Next]_vars
      PROVE  [installed' # installed => overlap \/ Later(installed', installed)]_vars
  <2> SUFFICES ASSUME installed' # installed, ~overlap PROVE Later(installed', installed)
    OBVIOUS
  <2> QED BY <1>1, InstallsNewer, NewerIsLater
<1> QED
    BY <1>1, UpdateInit, UpdateStep, PTL DEF Spec, OnlyForward

\* Overlap is never forgotten.
LEMMA OverlapStays == [Next]_vars /\ overlap => overlap'
BY DEF Next, vars, copyVars, UserStarts, ListStale, RemoveStale, Ready, Quit, ArmScript, Exit,
   Kill, Ends, Script, CopyLine, StartLine, DelLine, NoLine, BeginCheck, ClearUpdate, GiveUp,
   FetchManifest, CreateTemp, Downloaded, DownloadFails, Stage

\* Is the installed program beyond some version, or that version?
Beyond(v) == overlap \/ Newer(installed, v)
AtLeast(v) == overlap \/ installed = v \/ Newer(installed, v)

\* Over any number of updates nobody falls back behind a version that was once
\* installed, and none that was left is installed again: there is no round of
\* updates that the check of every single one (Newer) would let through.
THEOREM NoUpdateFallsBack ==
    ASSUME NEW v \in Version
    PROVE  Spec => /\ [](installed = v => []AtLeast(v))
                   /\ [](Beyond(v) => []Beyond(v))
<1> v \in Seq(Nat)
    BY VersionAssumption
<1>1. ASSUME UpdateInv, [Next]_vars
      PROVE  /\ AtLeast(v) => AtLeast(v)'
             /\ Beyond(v) => Beyond(v)'
  <2>1. CASE overlap
    BY <1>1, <2>1, OverlapStays DEF AtLeast, Beyond
  <2>2. CASE ~overlap /\ installed' = installed
    BY <2>2 DEF AtLeast, Beyond
  <2>3. CASE ~overlap /\ installed' # installed
    <3>1. /\ Newer(installed', installed)
          /\ installed \in Seq(Nat) /\ installed' \in Seq(Nat)
      BY <1>1, <2>3, InstallsNewer
    <3>2. Newer(installed, v) => Newer(installed', v)
      BY <3>1, NewerIsTransitive
    <3> QED BY <2>3, <3>1, <3>2 DEF AtLeast, Beyond
  <2> QED BY <2>1, <2>2, <2>3
<1>2. installed = v => AtLeast(v)
    BY DEF AtLeast
<1> QED BY <1>1, <1>2, UpdateInit, UpdateStep, PTL DEF Spec
=============================================================================
