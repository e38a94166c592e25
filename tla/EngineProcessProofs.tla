------------------------- MODULE EngineProcessProofs -------------------------
(***************************************************************************)
(* Theorems about EngineProcess: the types, that one engine serves at a    *)
(* time, that a poisoned one is replaced, and that one failure leaves a    *)
(* runtime to go back to.                                                  *)
(***************************************************************************)
EXTENDS EngineProcess, TLAPS

Place == {"off", "begun", "checked", "claiming", "claimed", "ended"} \cup Serving
Exit == {Ok, Poisoned, RestartRequested}
Outcome == {Ok, Failed, Poisoned, RestartRequested, Killed}

\* The types of what a process's end changes, apart from the rest.
ProcessTypes ==
  /\ at \in [Processes -> Place]
  /\ port \in Processes \cup {Nobody}
  /\ decided \in [Processes -> SUBSET Caller]
  /\ watchdogs \in [Processes -> SUBSET Exit]
  /\ status \in [Processes -> Outcome]

\* Whoever serves has the port, which is one.
ServerHasPort == \A p \in Processes : at[p] \in Serving => port = p

(***************************************************************************)
(* Why a poisoned process does not end with 0: as long as no shutdown was  *)
(* asked for, no watchdog has the code 0, a process that was told to stop  *)
(* has another one, and its reason is no shutdown, so that nobody finds    *)
(* the exit taken by one.                                                  *)
(***************************************************************************)
ExitSound(p) ==
  /\ decided[p] \subseteq asked[p]
  /\ "poison" \in asked[p] => at[p] \in {"running", "stopping", "ended"}
  /\ at[p] = "stopping" => ~running[p]
  /\ asked[p] \cap Shutdowns = {} =>
       /\ reason[p] \notin Shutdowns
       /\ Ok \notin watchdogs[p]
       /\ at[p] \in {"running", "stopping"} /\ ~running[p] => code[p] # Ok
  /\ at[p] = "ended" /\ "poison" \in asked[p] /\ asked[p] \cap Shutdowns = {} => status[p] # Ok

ExitsSound == \A p \in Processes : ExitSound(p)

\* What is being installed is a version.
GoalIsVersion == \A s \in Shells : step[s] = "install" => goal[s] \in Versions

IInv == TypeOK /\ GoalIsVersion /\ ServerHasPort /\ ExitsSound

-----------------------------------------------------------------------------
(***************************************************************************)
(* What a process's end, its start and the steps of a shell do.            *)
(***************************************************************************)
LEMMA EndedKeeps ==
  ASSUME IInv, NEW p \in Processes, NEW outcome \in Outcome, Ended(p, outcome),
         UNCHANGED <<running, code, reason, asked>>,
         outcome = Ok => "poison" \notin asked[p] \/ asked[p] \cap Shutdowns # {}
  PROVE  ProcessTypes' /\ ServerHasPort' /\ ExitsSound'
<1>1. ProcessTypes'
  BY DEF IInv, TypeOK, ProcessTypes, Ended, Place, Exit, Outcome
<1>2. ServerHasPort'
  BY ProcessesAssumption DEF IInv, TypeOK, ServerHasPort, Ended, Serving
<1>3. ASSUME NEW q \in Processes PROVE ExitSound(q)'
  <2>1. CASE q = p
    BY <2>1 DEF IInv, TypeOK, ExitsSound, ExitSound, Ended
  <2>2. CASE q # p
    BY <2>2 DEF IInv, TypeOK, ExitsSound, ExitSound, Ended
  <2> QED BY <2>1, <2>2
<1> QED BY <1>1, <1>2, <1>3 DEF ExitsSound

LEMMA SpawnedKeeps ==
  ASSUME IInv, NEW p \in Processes, Spawned(p), asked' = asked
  PROVE  ProcessTypes' /\ ServerHasPort' /\ ExitsSound'
<1>1. ProcessTypes'
  BY DEF IInv, TypeOK, ProcessTypes, Spawned, Goes, Place, Exit, Outcome
<1>2. ServerHasPort'
  BY DEF IInv, TypeOK, ServerHasPort, Spawned, Goes, Serving
<1>3. ASSUME NEW q \in Processes PROVE ExitSound(q)'
  <2>1. CASE q = p
    BY <2>1 DEF IInv, TypeOK, ExitsSound, ExitSound, Spawned, Goes
  <2>2. CASE q # p
    BY <2>2 DEF IInv, TypeOK, ExitsSound, ExitSound, Spawned, Goes
  <2> QED BY <2>1, <2>2
<1> QED BY <1>1, <1>2, <1>3 DEF ExitsSound

\* A process that goes on: from one place to another, before it is asked to end.
LEMMA GoingKeeps ==
  ASSUME IInv, NEW p \in Processes, NEW from \in Place, NEW to \in Place, Goes(p, from, to),
         from \notin {"running", "stopping", "ended"}, to \notin {"running", "stopping", "ended"},
         UNCHANGED <<running, code, reason, asked, status, decided, watchdogs>>,
         port' \in Processes \cup {Nobody}, port' = port \/ port = Nobody,
         to \in Serving => port' = p
  PROVE  ProcessTypes' /\ ServerHasPort' /\ ExitsSound'
<1>1. ProcessTypes'
  BY DEF IInv, TypeOK, ProcessTypes, Goes, Place, Exit, Outcome
<1>2. ServerHasPort'
  BY ProcessesAssumption DEF IInv, TypeOK, ServerHasPort, Goes
<1>3. ASSUME NEW q \in Processes PROVE ExitSound(q)'
  <2>1. CASE q = p
    BY <2>1 DEF IInv, TypeOK, ExitsSound, ExitSound, Goes
  <2>2. CASE q # p
    BY <2>2 DEF IInv, TypeOK, ExitsSound, ExitSound, Goes
  <2> QED BY <2>1, <2>2
<1> QED BY <1>1, <1>2, <1>3 DEF ExitsSound

LEMMA UntouchedKeeps ==
  ASSUME IInv, UNCHANGED <<at, port, running, code, reason, decided, watchdogs, status, asked>>
  PROVE  ProcessTypes' /\ ServerHasPort' /\ ExitsSound'
BY DEF IInv, TypeOK, ProcessTypes, ServerHasPort, ExitsSound, ExitSound, Place, Exit, Outcome

LEMMA StoreTypes ==
  ASSUME StoreTypeOK, GoalIsVersion, NEW s \in Shells,
         \/ BeginsUpgrade(s) \/ BeginsRollback(s) \/ BeginsRepair(s)
         \/ Installs(s) \/ Notes(s) \/ RollsBack(s) \/ Keeps(s) \/ Flips(s) \/ WritesPath(s)
         \/ InstallFails(s) \/ ShellKilled(s)
  PROVE  StoreTypeOK' /\ GoalIsVersion'
<1> USE DEF StoreTypeOK, GoalIsVersion, Advance, Step, Link
<1>1. CASE BeginsUpgrade(s) BY <1>1 DEF BeginsUpgrade
<1>2. CASE BeginsRollback(s) BY <1>2 DEF BeginsRollback
<1>3. CASE BeginsRepair(s) BY <1>3 DEF BeginsRepair
<1>4. CASE Installs(s) BY <1>4 DEF Installs
<1>5. CASE Notes(s) BY <1>5 DEF Notes
<1>6. CASE RollsBack(s) BY <1>6 DEF RollsBack
<1>7. CASE Keeps(s) BY <1>7 DEF Keeps
<1>8. CASE Flips(s) BY <1>8 DEF Flips
<1>9. CASE WritesPath(s) BY <1>9 DEF WritesPath
<1>10. CASE InstallFails(s) BY <1>10 DEF InstallFails
<1>11. CASE ShellKilled(s) BY <1>11 DEF ShellKilled
<1> QED BY <1>1, <1>2, <1>3, <1>4, <1>5, <1>6, <1>7, <1>8, <1>9, <1>10, <1>11

LEMMA StoreKeeps ==
  ASSUME IInv, UNCHANGED storeVars
  PROVE  StoreTypeOK' /\ GoalIsVersion'
BY DEF IInv, TypeOK, StoreTypeOK, GoalIsVersion, storeVars, Link, Step

LEMMA SpendTypes ==
  ASSUME IInv, NEW what \in Bounded, Spend(what)
  PROVE  left' \in [Bounded -> Nat]
<1>1. left \in [Bounded -> Nat] /\ left[what] - 1 \in Nat
  BY DEF IInv, TypeOK, Spend
<1> QED BY <1>1 DEF Spend

\* The types of the launcher, the PID file and the requests.
OtherTypes ==
  /\ pidFile \in Processes \cup {Nobody}
  /\ running \in [Processes -> BOOLEAN]
  /\ code \in [Processes -> Exit]
  /\ reason \in [Processes -> Caller \cup {"normal"}]
  /\ version \in [Processes -> Link]
  /\ child \in Processes \cup {Nobody}
  /\ due \in BOOLEAN
  /\ leaving \in BOOLEAN
  /\ asked \in [Processes -> SUBSET Caller]
  /\ left \in [Bounded -> Nat]

LEMMA Together ==
  ASSUME StoreTypeOK', GoalIsVersion', OtherTypes', ProcessTypes', ServerHasPort', ExitsSound'
  PROVE  IInv'
BY DEF IInv, TypeOK, OtherTypes, ProcessTypes, Place, Exit, Outcome

-----------------------------------------------------------------------------
(***************************************************************************)
(* One lemma for each part of the life of a process.                       *)
(***************************************************************************)
LEMMA InitSound == Init => IInv
<1> SUFFICES ASSUME Init PROVE IInv
  OBVIOUS
<1>1. TypeOK
  BY BudgetsAssumption DEF Init, StoreInit, TypeOK, StoreTypeOK, Serving, Link, Step, Caller
<1>2. GoalIsVersion /\ ServerHasPort
  BY DEF Init, StoreInit, GoalIsVersion, ServerHasPort, Serving
<1>3. ExitsSound
  BY DEF Init, ExitsSound, ExitSound, Shutdowns
<1> QED BY <1>1, <1>2, <1>3 DEF IInv

LEMMA StartKeeps ==
  ASSUME IInv, NEW p \in Processes,
         \/ ManualStart(p) \/ Spawns(p) \/ Checks(p) \/ Claims(p) \/ WritesPid(p) \/ Binds(p)
         \/ Runs(p) \/ LoadFails(p)
  PROVE  IInv'
<1> USE DEF exits, launcherVars
<1>1. CASE ManualStart(p)
  <2>1. OtherTypes'
    BY <1>1, SpendTypes DEF Bounded, ManualStart, Spawned, OtherTypes, IInv, TypeOK, StoreTypeOK, Exit
  <2> QED BY <1>1, <2>1, SpawnedKeeps, StoreKeeps, Together DEF ManualStart
<1>2. CASE Spawns(p)
  <2>1. OtherTypes'
    BY <1>2 DEF Spawns, Spawned, OtherTypes, IInv, TypeOK, StoreTypeOK, Exit
  <2> QED BY <1>2, <2>1, SpawnedKeeps, StoreKeeps, Together DEF Spawns
<1>3. CASE Checks(p)
  <2>1. OtherTypes'
    BY <1>3 DEF Checks, OtherTypes, IInv, TypeOK, Exit
  <2>2. CASE Alive(pidFile)
    <3>1. "poison" \notin asked[p]
      BY <1>3 DEF Checks, IInv, ExitsSound, ExitSound
    <3> QED BY <1>3, <2>1, <2>2, <3>1, EndedKeeps, StoreKeeps, Together DEF Checks, Outcome
  <2>3. CASE ~Alive(pidFile)
    <3>1. ProcessTypes' /\ ServerHasPort' /\ ExitsSound'
      BY <1>3, <2>3, GoingKeeps DEF Checks, Place, Serving, IInv, TypeOK
    <3> QED BY <1>3, <2>1, <3>1, StoreKeeps, Together DEF Checks
  <2> QED BY <2>2, <2>3
<1>4. CASE Claims(p)
  <2>1. OtherTypes'
    BY <1>4 DEF Claims, OtherTypes, IInv, TypeOK, Exit
  <2>2. StoreTypeOK' /\ GoalIsVersion'
    BY <1>4 DEF Claims, IInv, TypeOK, StoreTypeOK, GoalIsVersion, Link, Step
  <2>3. CASE Alive(pidFile)
    BY <1>4, <2>1, <2>2, <2>3, EndedKeeps, Together DEF Claims, Outcome, Ok, Failed
  <2>4. CASE ~Alive(pidFile)
    <3>1. ProcessTypes' /\ ServerHasPort' /\ ExitsSound'
      BY <1>4, <2>4, GoingKeeps DEF Claims, Place, Serving, IInv, TypeOK
    <3> QED BY <2>1, <2>2, <3>1, Together
  <2> QED BY <2>3, <2>4
<1>5. CASE WritesPid(p)
  <2>1. OtherTypes'
    BY <1>5 DEF WritesPid, OtherTypes, IInv, TypeOK, Exit
  <2>2. ProcessTypes' /\ ServerHasPort' /\ ExitsSound'
    BY <1>5, GoingKeeps DEF WritesPid, Place, Serving, IInv, TypeOK
  <2> QED BY <1>5, <2>1, <2>2, StoreKeeps, Together DEF WritesPid
<1>6. CASE Binds(p)
  <2>1. OtherTypes'
    BY <1>6 DEF Binds, OtherTypes, IInv, TypeOK, Exit
  <2>2. CASE port = Nobody
    <3>1. ProcessTypes' /\ ServerHasPort' /\ ExitsSound'
      BY <1>6, <2>2, GoingKeeps DEF Binds, Place, Serving, IInv, TypeOK
    <3> QED BY <1>6, <2>1, <3>1, StoreKeeps, Together DEF Binds
  <2>3. CASE port # Nobody
    BY <1>6, <2>1, <2>3, EndedKeeps, StoreKeeps, Together DEF Binds, Outcome, Ok, Failed
  <2> QED BY <2>2, <2>3
<1>7. CASE Runs(p)
  <2>1. OtherTypes' /\ ProcessTypes'
    BY <1>7 DEF Runs, Goes, OtherTypes, ProcessTypes, IInv, TypeOK, Place, Serving, Exit, Outcome
  <2>2. ServerHasPort'
    BY <1>7 DEF Runs, Goes, ServerHasPort, IInv, TypeOK, Serving
  <2>3. ExitsSound'
    BY <1>7 DEF Runs, Goes, ExitsSound, ExitSound, IInv, TypeOK
  <2> QED BY <1>7, <2>1, <2>2, <2>3, StoreKeeps, Together DEF Runs
<1>8. CASE LoadFails(p)
  <2>1. OtherTypes'
    BY <1>8, SpendTypes DEF Bounded, LoadFails, OtherTypes, IInv, TypeOK, Exit
  <2> QED BY <1>8, <2>1, EndedKeeps, StoreKeeps, Together DEF LoadFails, Outcome, Ok, Failed
<1> QED BY <1>1, <1>2, <1>3, <1>4, <1>5, <1>6, <1>7, <1>8

LEMMA RequestKeeps ==
  ASSUME IInv, NEW p \in Processes, NEW k \in Caller,
         AsksTooEarly(p) \/ AsksExit(p, k) \/ WritesExit(p, k)
  PROVE  IInv'
<1> USE DEF exits, launcherVars
<1>1. CASE AsksTooEarly(p)
  <2>1. OtherTypes' /\ ProcessTypes'
    BY <1>1, SpendTypes DEF Bounded, AsksTooEarly, processVars, OtherTypes, ProcessTypes, IInv, TypeOK, Place,
       Exit, Outcome, Caller
  <2>2. ServerHasPort'
    BY <1>1 DEF AsksTooEarly, processVars, ServerHasPort, IInv
  <2>3. ExitsSound'
    BY <1>1 DEF AsksTooEarly, processVars, ExitsSound, ExitSound, IInv, TypeOK, Shutdowns
  <2> QED BY <1>1, <2>1, <2>2, <2>3, StoreKeeps, Together DEF AsksTooEarly
<1>2. CASE AsksExit(p, k)
  <2>1. OtherTypes' /\ ProcessTypes'
    <3>1. OtherTypes'
      <4>1. code[p] \in Exit
        BY DEF IInv, TypeOK, Exit
      <4>2. left' \in [Bounded -> Nat]
        BY <1>2, SpendTypes DEF Bounded, AsksExit
      <4> QED BY <1>2, <4>2 DEF AsksExit, Stopped, OtherTypes, IInv, TypeOK, Exit
    <3>2. ProcessTypes'
      BY <1>2 DEF AsksExit, Stopped, ProcessTypes, IInv, TypeOK, Place, Exit, Outcome
    <3> QED BY <3>1, <3>2
  <2>2. ServerHasPort'
    BY <1>2 DEF AsksExit, ServerHasPort, IInv
  <2>3. ASSUME NEW q \in Processes, q # p PROVE ExitSound(q)'
    BY <1>2, <2>3 DEF AsksExit, Stopped, ExitsSound, ExitSound, IInv, TypeOK
  <2>4. ExitSound(p)'
    <3>1. ExitSound(p) /\ at[p] \in Serving
      BY <1>2 DEF AsksExit, ExitsSound, IInv
    <3>2. CASE Wins(p, k)
      BY <1>2, <3>1, <3>2 DEF AsksExit, ExitSound, IInv, TypeOK, Serving
    <3>3. CASE ~Wins(p, k)
      BY <1>2, <3>1, <3>3 DEF AsksExit, ExitSound, IInv, TypeOK, Serving, Stopped, Wins
    <3> QED BY <3>2, <3>3
  <2> QED BY <1>2, <2>1, <2>2, <2>3, <2>4, StoreKeeps, Together DEF AsksExit, ExitsSound
<1>3. CASE WritesExit(p, k)
  <2>0. CodeOf(k) \in Exit /\ (CodeOf(k) = Ok => k \in Shutdowns)
    BY DEF CodeOf, Exit, Caller, Shutdowns, Ok, Poisoned, RestartRequested
  <2>1. OtherTypes' /\ ProcessTypes'
    BY <1>3, <2>0 DEF WritesExit, Stopped, OtherTypes, ProcessTypes, IInv, TypeOK, Place, Exit,
       Outcome
  <2>2. ServerHasPort'
    BY <1>3 DEF WritesExit, ServerHasPort, IInv
  <2>3. ASSUME NEW q \in Processes, q # p PROVE ExitSound(q)'
    BY <1>3, <2>3 DEF WritesExit, Stopped, ExitsSound, ExitSound, IInv, TypeOK
  <2>4. ExitSound(p)'
    <3>1. ExitSound(p)
      BY DEF ExitsSound, IInv
    <3> QED BY <1>3, <3>1, <2>0 DEF WritesExit, Stopped, ExitSound, IInv, TypeOK
  <2> QED BY <1>3, <2>1, <2>2, <2>3, <2>4, StoreKeeps, Together DEF WritesExit, ExitsSound
<1> QED BY <1>1, <1>2, <1>3

LEMMA EndKeeps ==
  ASSUME IInv, NEW p \in Processes, Leaves(p) \/ Exits(p) \/ WatchdogFires(p) \/ Crashes(p)
  PROVE  IInv'
<1> USE DEF exits, launcherVars
<1>0. ExitSound(p)
  BY DEF IInv, ExitsSound
<1>1. CASE Leaves(p)
  <2>1. OtherTypes' /\ ProcessTypes'
    BY <1>1 DEF Leaves, Goes, OtherTypes, ProcessTypes, IInv, TypeOK, Place, Exit, Outcome, Serving
  <2>2. ServerHasPort'
    BY <1>1 DEF Leaves, Goes, ServerHasPort, IInv, TypeOK, Serving
  <2>3. ExitsSound'
    BY <1>1 DEF Leaves, Goes, ExitsSound, ExitSound, IInv, TypeOK
  <2> QED BY <1>1, <2>1, <2>2, <2>3, StoreKeeps, Together DEF Leaves
<1>2. CASE Exits(p)
  <2>1. OtherTypes'
    BY <1>2 DEF Exits, OtherTypes, IInv, TypeOK, Exit
  <2>2. code[p] \in Outcome /\ (code[p] = Ok => asked[p] \cap Shutdowns # {})
    BY <1>0, <1>2 DEF Exits, ExitSound, IInv, TypeOK, Outcome
  <2> QED BY <1>2, <2>1, <2>2, EndedKeeps, StoreKeeps, Together DEF Exits, FinalCode
<1>3. CASE WatchdogFires(p)
  <2>1. OtherTypes'
    BY <1>3 DEF WatchdogFires, OtherTypes, IInv, TypeOK, Exit
  <2>2. PICK c \in watchdogs[p] : Ended(p, c)
    BY <1>3 DEF WatchdogFires
  <2>3. c \in Outcome /\ (c = Ok => asked[p] \cap Shutdowns # {})
    BY <1>0, <2>2 DEF ExitSound, IInv, TypeOK, Outcome
  <2> QED BY <1>3, <2>1, <2>2, <2>3, EndedKeeps, StoreKeeps, Together DEF WatchdogFires
<1>4. CASE Crashes(p)
  <2>1. OtherTypes'
    BY <1>4, SpendTypes DEF Bounded, Crashes, OtherTypes, IInv, TypeOK, Exit
  <2> QED BY <1>4, <2>1, EndedKeeps, StoreKeeps, Together DEF Crashes, Outcome, Ok, Killed
<1> QED BY <1>1, <1>2, <1>3, <1>4

LEMMA SupervisorKeeps ==
  ASSUME IInv, SeesExit
  PROVE  IInv'
<1>1. OtherTypes'
  BY DEF SeesExit, processVars, OtherTypes, IInv, TypeOK, Exit
<1> QED BY <1>1, UntouchedKeeps, StoreKeeps, Together DEF SeesExit, processVars

\* A service that is stopped or started takes the launcher's child with it.
LEMMA ServiceKeeps ==
  ASSUME IInv, NEW s \in Shells, Shell(s), ServiceStops \/ ServiceStarts,
         UNCHANGED <<works, currentLink, previousLink, pythonPath, goal, noted, left>>,
         \E from, to \in Step : Advance(s, from, to) /\ to # "install"
  PROVE  IInv'
<1>1. StoreTypeOK' /\ GoalIsVersion'
  BY DEF IInv, TypeOK, StoreTypeOK, GoalIsVersion, Advance, Step, Link
<1>2. OtherTypes'
  BY DEF ServiceStops, ServiceStarts, OtherTypes, IInv, TypeOK, Exit
<1>3. CASE Alive(child)
  <2>1. child \in Processes
    BY <1>3 DEF Alive, IInv, TypeOK
  <2> QED BY <1>1, <1>2, <1>3, <2>1, EndedKeeps, Together
        DEF ServiceStops, ServiceStarts, Outcome, Ok, Killed
<1>4. CASE ~Alive(child)
  BY <1>1, <1>2, <1>4, UntouchedKeeps, Together DEF ServiceStops, ServiceStarts
<1> QED BY <1>3, <1>4

LEMMA ShellKeeps ==
  ASSUME IInv, NEW s \in Shells, Shell(s)
  PROVE  IInv'
<1> DEFINE Stores ==
      \/ BeginsUpgrade(s) \/ BeginsRollback(s) \/ BeginsRepair(s)
      \/ Installs(s) \/ Notes(s) \/ RollsBack(s) \/ Keeps(s) \/ Flips(s) \/ WritesPath(s)
      \/ InstallFails(s) \/ ShellKilled(s)
<1>1. ASSUME Stores, UNCHANGED <<processVars, launcherVars, asked>>, left' \in [Bounded -> Nat]
      PROVE  IInv'
  <2>1. StoreTypeOK' /\ GoalIsVersion'
    BY <1>1, StoreTypes DEF IInv, TypeOK
  <2>2. OtherTypes'
    BY <1>1 DEF processVars, launcherVars, OtherTypes, IInv, TypeOK, Exit
  <2> QED BY <1>1, <2>1, <2>2, UntouchedKeeps, Together DEF processVars
<1>2. CASE /\ BeginsUpgrade(s) \/ BeginsRollback(s) \/ BeginsRepair(s)
           /\ Spend("shells")
           /\ UNCHANGED <<processVars, launcherVars, asked>>
  BY <1>1, <1>2, SpendTypes DEF Bounded
<1>3. CASE /\ Installs(s) \/ Notes(s) \/ RollsBack(s) \/ Keeps(s) \/ Flips(s) \/ WritesPath(s)
           /\ UNCHANGED <<processVars, launcherVars, asked, left>>
  BY <1>1, <1>3 DEF IInv, TypeOK
<1>4. CASE /\ InstallFails(s) \/ ShellKilled(s)
           /\ Spend("faults")
           /\ UNCHANGED <<processVars, launcherVars, asked>>
  BY <1>1, <1>4, SpendTypes DEF Bounded
<1>5. CASE /\ Advance(s, "stop", "note") \/ Advance(s, "halt", "back")
           /\ ServiceStops
           /\ UNCHANGED <<works, currentLink, previousLink, pythonPath, goal, noted, left>>
  BY <1>5, ServiceKeeps DEF Step
<1>6. CASE /\ Advance(s, "start", "idle")
           /\ ServiceStarts
           /\ UNCHANGED <<works, currentLink, previousLink, pythonPath, goal, noted, left>>
  BY <1>6, ServiceKeeps DEF Step
<1> QED BY <1>2, <1>3, <1>4, <1>5, <1>6 DEF Shell

LEMMA NextSound == IInv /\ [Next]_vars => IInv'
<1> SUFFICES ASSUME IInv, [Next]_vars PROVE IInv'
  OBVIOUS
<1>1. ASSUME NEW p \in Processes, Steps(p) PROVE IInv'
  BY <1>1, StartKeeps, RequestKeeps, EndKeeps DEF Steps
<1>2. ASSUME NEW p \in Processes,
             LoadFails(p) \/ Exits(p) \/ WatchdogFires(p) \/ Crashes(p) \/ ManualStart(p) \/ Spawns(p)
      PROVE  IInv'
  BY <1>2, StartKeeps, EndKeeps
<1>3. ASSUME NEW p \in Processes, AsksTooEarly(p) \/ \E k \in Caller : AsksExit(p, k) PROVE IInv'
  BY <1>3, RequestKeeps DEF Caller
<1>4. CASE UNCHANGED vars
  <2>1. OtherTypes'
    BY <1>4 DEF vars, processVars, launcherVars, OtherTypes, IInv, TypeOK, Exit
  <2> QED BY <1>4, <2>1, UntouchedKeeps, StoreKeeps, Together DEF vars, processVars
<1> QED BY <1>1, <1>2, <1>3, <1>4, SupervisorKeeps, ShellKeeps DEF Next

-----------------------------------------------------------------------------
\* The inductive invariant holds for every set of processes, shells and versions.
THEOREM Inductive == Spec => []IInv
BY InitSound, NextSound, PTL DEF Spec

\* Every variable has its type; in particular an exit code is one of those that
\* request_process_exit writes.
THEOREM TypeCorrect == Spec => []TypeOK
BY Inductive, PTL DEF IInv

\* serve, for every number of engines started at once: two never serve.
THEOREM OneServes == Spec => []OneServer
<1>1. IInv => OneServer
  BY DEF IInv, ServerHasPort, OneServer
<1> QED BY <1>1, Inductive, PTL

\* request_process_exit, for every number and order of requests from any thread: a
\* poisoned process that nobody asked to shut down ends with a code other than 0.
THEOREM PoisonedReplaced == Spec => []PoisonedIsReplaced
<1>1. IInv => PoisonedIsReplaced
  BY DEF IInv, ExitsSound, ExitSound, PoisonedIsReplaced
<1> QED BY <1>1, Inductive, PTL

-----------------------------------------------------------------------------
(***************************************************************************)
(* One failure leaves a runtime to go back to.  Up to the failure both     *)
(* links name versions that start, and different ones but for the moment   *)
(* in which current has been noted in previous (Whole).  What is left      *)
(* after it is MendsItself: while no link names a version that starts the  *)
(* goal does, and the next step but one makes it current.                  *)
(***************************************************************************)
OneFailure == \A b \in Budgets : b["faults"] <= 1

Whole(s) ==
  /\ currentLink \in works
  /\ step[s] # "flip" => previousLink \in works /\ previousLink # currentLink
  /\ step[s] = "flip" => previousLink \in works /\ previousLink # goal[s]
  /\ step[s] \in {"keep", "flip"} => goal[s] \in works
  /\ step[s] = "keep" /\ noted[s] = currentLink => goal[s] # currentLink

MendsItself(s) ==
  /\ step[s] # "flip" => currentLink \in works \/ previousLink \in works
  /\ step[s] \in {"stop", "note"} => goal[s] \in works
  /\ step[s] = "keep" /\ noted[s] = currentLink => currentLink \in works \/ goal[s] \in works
  /\ step[s] = "flip" => goal[s] \in works \/ previousLink \in works

WayInv(s) ==
  /\ currentLink \in Versions
  /\ step[s] \in {"stop", "note", "keep", "flip"} => goal[s] \in Versions
  /\ step[s] = "keep" => noted[s] = currentLink \/ (noted[s] = NoVersion /\ goal[s] = currentLink)
  /\ left["faults"] = 0 \/ (left["faults"] = 1 /\ Whole(s))
  /\ MendsItself(s)

\* What a step of the store's own does, when there is one shell.
LEMMA StoreMends ==
  ASSUME StoreTypeOK, GoalIsVersion, NEW s \in Shells, WayInv(s), left["faults"] \in Nat,
         left'["faults"] = left["faults"],
         \/ BeginsUpgrade(s) \/ BeginsRollback(s) \/ BeginsRepair(s)
         \/ Installs(s) \/ Notes(s) \/ RollsBack(s) \/ Keeps(s) \/ Flips(s) \/ WritesPath(s)
  PROVE  WayInv(s)'
<1> USE VersionsAssumption DEF StoreTypeOK, Advance, Link, WayInv, Whole, MendsItself
<1>1. CASE BeginsUpgrade(s) BY <1>1 DEF BeginsUpgrade
<1>2. CASE BeginsRollback(s) BY <1>2 DEF BeginsRollback
<1>3. CASE BeginsRepair(s) BY <1>3 DEF BeginsRepair
<1>4. CASE Installs(s) BY <1>4 DEF Installs, GoalIsVersion
<1>5. CASE Notes(s) BY <1>5 DEF Notes
<1>6. CASE RollsBack(s) BY <1>6 DEF RollsBack
<1>7. CASE Keeps(s) BY <1>7 DEF Keeps
<1>8. CASE Flips(s) BY <1>8 DEF Flips
<1>9. CASE WritesPath(s) BY <1>9 DEF WritesPath
<1> QED BY <1>1, <1>2, <1>3, <1>4, <1>5, <1>6, <1>7, <1>8, <1>9

\* The one failure, wherever it comes.
LEMMA FailureMends ==
  ASSUME StoreTypeOK, NEW s \in Shells, WayInv(s), Whole(s), left'["faults"] = 0,
         InstallFails(s) \/ ShellKilled(s)
  PROVE  WayInv(s)'
<1> USE DEF StoreTypeOK, Advance, Link, WayInv, Whole, MendsItself
<1>1. CASE InstallFails(s) BY <1>1 DEF InstallFails
<1>2. CASE ShellKilled(s) BY <1>2 DEF ShellKilled
<1> QED BY <1>1, <1>2

LEMMA WayStays ==
  ASSUME NEW s, WayInv(s), UNCHANGED <<works, currentLink, previousLink, step, goal, noted>>,
         left'["faults"] = left["faults"] \/ left'["faults"] = 0
  PROVE  WayInv(s)'
BY DEF WayInv, Whole, MendsItself

LEMMA SpendsOne ==
  ASSUME TypeOK, NEW what \in Bounded, Spend(what)
  PROVE  IF what = "faults" THEN left["faults"] # 0 /\ left'["faults"] = left["faults"] - 1
                            ELSE left'["faults"] = left["faults"]
<1>1. left \in [Bounded -> Nat] /\ "faults" \in Bounded
  BY DEF TypeOK, Bounded
<1>2. CASE what = "faults"
  BY <1>1, <1>2 DEF Spend
<1>3. CASE what # "faults"
  BY <1>1, <1>3 DEF Spend
<1> QED BY <1>2, <1>3

LEMMA WayNext ==
  ASSUME NEW s, Shells = {s}, IInv, WayInv(s), [Next]_vars
  PROVE  WayInv(s)'
<1>0. TypeOK /\ StoreTypeOK /\ GoalIsVersion /\ left["faults"] \in Nat
  BY DEF IInv, TypeOK, Bounded
<1> DEFINE Same == UNCHANGED <<works, currentLink, previousLink, step, goal, noted>>
<1>1. ASSUME NEW p \in Processes, Steps(p) \/ Exits(p) \/ WatchdogFires(p) \/ Spawns(p)
      PROVE  WayInv(s)'
  <2>1. Same /\ UNCHANGED left
    BY <1>1 DEF Steps, Checks, Claims, WritesPid, Binds, Runs, Leaves, WritesExit, Exits, WatchdogFires,
       Spawns, storeVars
  <2> QED BY <2>1, WayStays
<1>2. ASSUME NEW p \in Processes, LoadFails(p) \/ Crashes(p) \/ ManualStart(p) \/ AsksTooEarly(p)
             \/ \E k \in Caller : AsksExit(p, k)
      PROVE  WayInv(s)'
  <2>1. Same /\ \E what \in Bounded : Spend(what)
    BY <1>2 DEF LoadFails, Crashes, ManualStart, AsksTooEarly, AsksExit, storeVars, Bounded
  <2>2. left'["faults"] = left["faults"] \/ left'["faults"] = 0
    BY <1>0, <2>1, SpendsOne DEF WayInv
  <2> QED BY <2>1, <2>2, WayStays
<1>3. CASE SeesExit \/ UNCHANGED vars
  <2>1. Same /\ UNCHANGED left
    BY <1>3 DEF SeesExit, storeVars, vars
  <2> QED BY <2>1, WayStays
<1>4. CASE Shell(s)
  <2>1. CASE /\ BeginsUpgrade(s) \/ BeginsRollback(s) \/ BeginsRepair(s)
             /\ Spend("shells")
             /\ UNCHANGED <<processVars, launcherVars, asked>>
    <3>1. left'["faults"] = left["faults"]
      BY <1>0, <2>1, SpendsOne DEF Bounded
    <3> QED BY <1>0, <2>1, <3>1, StoreMends
  <2>2. CASE /\ Installs(s) \/ Notes(s) \/ RollsBack(s) \/ Keeps(s) \/ Flips(s) \/ WritesPath(s)
             /\ UNCHANGED <<processVars, launcherVars, asked, left>>
    BY <1>0, <2>2, StoreMends
  <2>3. CASE /\ InstallFails(s) \/ ShellKilled(s)
             /\ Spend("faults")
             /\ UNCHANGED <<processVars, launcherVars, asked>>
    <3>1. left["faults"] = 1 /\ Whole(s) /\ left'["faults"] = 0
      BY <1>0, <2>3, SpendsOne DEF Bounded, WayInv
    <3> QED BY <1>0, <2>3, <3>1, FailureMends
  <2>4. CASE /\ \/ Advance(s, "stop", "note") \/ Advance(s, "halt", "back")
                \/ Advance(s, "start", "idle")
             /\ UNCHANGED <<works, currentLink, previousLink, pythonPath, goal, noted, left>>
    BY <1>0, <2>4 DEF StoreTypeOK, Advance, WayInv, Whole, MendsItself
  <2> QED BY <1>4, <2>1, <2>2, <2>3, <2>4 DEF Shell
<1> QED BY <1>1, <1>2, <1>3, <1>4 DEF Next

\* upgrade, rollback and repair of one terminal at a time, with one failure of an
\* installation or one kill between any two steps: for every number of versions and
\* of upgrades and rollbacks there stays a runtime that starts to go back to.
THEOREM FailureLeavesWayBack ==
  ASSUME NEW s, Shells = {s}, OneFailure
  PROVE  Spec => []WayBack
<1>1. Init => WayInv(s)
  <2> SUFFICES ASSUME Init PROVE WayInv(s)
    OBVIOUS
  <2>1. left["faults"] \in Nat /\ left["faults"] <= 1
    BY BudgetsAssumption DEF Init, OneFailure, Bounded
  <2>2. left["faults"] = 0 \/ left["faults"] = 1
    BY <2>1
  <2> QED BY <2>2 DEF Init, StoreInit, WayInv, Whole, MendsItself
<1>2. IInv /\ WayInv(s) /\ [Next]_vars => WayInv(s)'
  BY WayNext
<1>3. StoreTypeOK /\ WayInv(s) => WayBack
  BY DEF StoreTypeOK, WayInv, MendsItself, WayBack
<1>4. IInv => StoreTypeOK
  BY DEF IInv, TypeOK
<1> QED BY <1>1, <1>2, <1>3, <1>4, Inductive, PTL DEF Spec
=============================================================================
