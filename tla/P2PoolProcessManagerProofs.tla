--------------------- MODULE P2PoolProcessManagerProofs ---------------------
(***************************************************************************)
(* Proofs about the supervisor of P2PoolProcessManager, for every value of *)
(* the constants allowed by ConstantsAssumption.                           *)
(***************************************************************************)
EXTENDS P2PoolProcessManager, TLAPS

(* Labels of a thread inside KillProcess().                                *)
KillLabels == {"kill", "poll", "reap"}

(* The monitor checks or sleeps only with m_httpFailures below the limit:  *)
(* reaching it sends the monitor to Restart(), and only a respawn (which  *)
(* clears it) or Start() brings the monitor back to its loop.             *)
HttpBelowLimit ==
    pc["mon"] \in {"check", "sleep"} => httpFailures < MaxHttpFailures

(* While Stop() kills the worker the monitor thread has ended.             *)
StopAfterJoin == pc["host"] \in KillLabels => pc["mon"] \in {"none", "done"}

(* A thread in KillProcess()'s wait loop or reap has a target, and after   *)
(* SIGKILL that target has exited.                                         *)
KillTarget ==
    \A t \in Threads :
        /\ pc[t] \in {"poll", "reap"} => pid # 0
        /\ pc[t] = "reap" => proc[pid] = "exited"

(* Restart() respawns only after m_pid has been cleared.                   *)
SpawnAfterClear == pc["mon"] = "spawn" => pid = 0

(* Every worker of the current episode but the one m_pid names has been   *)
(* killed (or has exited).                                                 *)
EpisodeDead == \A p \in episode : p # pid => proc[p] # "run"

IInv ==
    /\ TypeOK
    /\ HttpBelowLimit
    /\ PidNamesOwnChild
    /\ MonitorOwned
    /\ StopAfterJoin
    /\ KillTarget
    /\ SpawnAfterClear
    /\ EpisodeDead

-----------------------------------------------------------------------------
USE ConstantsAssumption

LEMMA InitIInv == Init => IInv
<1> SUFFICES ASSUME Init PROVE IInv
  OBVIOUS
<1>1. TypeOK
  <2>1. pc \in [Threads -> HostLabels \cup MonLabels]
    BY DEF Init, Threads, HostLabels, MonLabels
  <2>2. pc["host"] \in HostLabels /\ pc["mon"] \in MonLabels
    BY DEF Init, Threads, HostLabels, MonLabels
  <2>3. waited \in [Threads -> 0..GracePolls]
    BY DEF Init, Threads
  <2>4. proc \in [Pids -> ProcStates]
    BY DEF Init, ProcStates
  <2>5. /\ running \in BOOLEAN /\ stopMonitoring \in BOOLEAN
        /\ interrupted \in BOOLEAN /\ monitorThread \in {"null", "thread"}
        /\ reason \in {"dead", "http"}
    BY Zenon DEF Init
  <2>6. /\ pid \in Pids \cup {0} /\ restartAttempts \in Nat
        /\ httpFailures \in 0..MaxHttpFailures /\ episode \subseteq Pids
        /\ starts \in 0..MaxStarts
    BY DEF Init
  <2>7. QED
    BY <2>1, <2>2, <2>3, <2>4, <2>5, <2>6 DEF TypeOK
<1>2. HttpBelowLimit /\ PidNamesOwnChild /\ MonitorOwned /\ StopAfterJoin
  BY DEF Init, Threads, HttpBelowLimit, PidNamesOwnChild, MonitorOwned,
         StopAfterJoin, KillLabels
<1>3. KillTarget /\ SpawnAfterClear /\ EpisodeDead
  BY DEF Init, Threads, KillTarget, SpawnAfterClear, EpisodeDead
<1>4. QED
  BY <1>1, <1>2, <1>3 DEF IInv

(* The Boolean fields of TypeOK, and the rest of it.                       *)
TypeBool ==
    /\ running \in BOOLEAN
    /\ stopMonitoring \in BOOLEAN
    /\ interrupted \in BOOLEAN

TypeData ==
    /\ pid \in Pids \cup {0}
    /\ monitorThread \in {"null", "thread"}
    /\ pc \in [Threads -> HostLabels \cup MonLabels]
    /\ pc["host"] \in HostLabels
    /\ pc["mon"] \in MonLabels
    /\ reason \in {"dead", "http"}
    /\ waited \in [Threads -> 0..GracePolls]
    /\ restartAttempts \in Nat
    /\ httpFailures \in 0..MaxHttpFailures
    /\ proc \in [Pids -> ProcStates]
    /\ episode \subseteq Pids
    /\ starts \in 0..MaxStarts

LEMMA TypeSplit == TypeOK <=> TypeBool /\ TypeData
BY Zenon DEF TypeOK, TypeBool, TypeData

(* Every action leaves the Boolean fields Boolean.                         *)
LEMMA NextTypeBool == TypeBool /\ [Next]_vars => TypeBool'
<1> SUFFICES ASSUME TypeBool, [Next]_vars PROVE TypeBool'
  OBVIOUS
<1> USE DEF TypeBool
<1>1. CASE Start
  BY <1>1, Zenon DEF Start
<1>2. CASE StopBegin
  BY <1>2, Zenon DEF StopBegin
<1>3. CASE StopJoin
  BY <1>3, Zenon DEF StopJoin
<1>4. CASE MonitorCheck
  BY <1>4, Zenon DEF MonitorCheck
<1>5. CASE MonitorRestart
  BY <1>5, Zenon DEF MonitorRestart
<1>6. CASE MonitorBackoff
  BY <1>6, Zenon DEF MonitorBackoff
<1>7. CASE MonitorSpawn
  BY <1>7, Zenon DEF MonitorSpawn
<1>8. CASE MonitorSleep
  BY <1>8, Zenon DEF MonitorSleep
<1>9. ASSUME NEW t \in Threads, KillStep(t) PROVE TypeBool'
  BY <1>9, Zenon DEF KillStep, KillTerm, KillPoll, KillEscalate, KillReap,
                     KillProcessWin, KillReturn
<1>10. ASSUME NEW p \in Pids, WorkerExit(p) PROVE TypeBool'
  BY <1>10, Zenon DEF WorkerExit
<1>11. CASE UNCHANGED vars
  BY <1>11, Zenon DEF vars
<1>12. QED
  BY <1>1, <1>2, <1>3, <1>4, <1>5, <1>6, <1>7, <1>8, <1>9, <1>10, <1>11, Zenon
  DEF Next, StopStep, MonitorStep, Threads

(* IInv without the Boolean fields, which NextTypeBool handles.            *)
IRest ==
    /\ TypeData /\ HttpBelowLimit /\ PidNamesOwnChild /\ MonitorOwned
    /\ StopAfterJoin /\ KillTarget /\ SpawnAfterClear /\ EpisodeDead

LEMMA IInvSplit == IInv <=> TypeBool /\ IRest
BY TypeSplit, Zenon DEF IInv, IRest

LEMMA NextIRest == TypeBool /\ IRest /\ [Next]_vars => IRest'
<1> SUFFICES ASSUME TypeBool, IRest, [Next]_vars PROVE IRest'
  OBVIOUS
<1> USE DEF IRest, TypeBool, TypeData, HttpBelowLimit, PidNamesOwnChild,
            MonitorOwned, StopAfterJoin, KillTarget, SpawnAfterClear,
            EpisodeDead, Threads, HostLabels, MonLabels, ProcStates,
            KillLabels, FreePids
<1>1. CASE Start
  <2>1. PICK p \in FreePids :
          /\ proc' = [proc EXCEPT ![p] = "run"]
          /\ pid' = p
          /\ episode' = {p}
    BY <1>1, Zenon DEF Start
  <2>2. pc["mon"] \in {"none", "done"} /\ pc["host"] = "idle"
    BY <1>1 DEF Start
  <2>3. pc' = [pc EXCEPT !["mon"] = "check"] /\ httpFailures' = 0
        /\ running' /\ monitorThread' = "thread"
    BY <1>1 DEF Start
  <2>4. TypeData'
    BY <1>1, <2>1, <2>3 DEF Start
  <2>5. HttpBelowLimit' /\ StopAfterJoin' /\ SpawnAfterClear' /\ MonitorOwned'
    BY <2>2, <2>3
  <2>6. KillTarget'
    BY <2>2, <2>3
  <2>7. PidNamesOwnChild' /\ EpisodeDead'
    BY <2>1
  <2>8. QED
    BY <2>4, <2>5, <2>6, <2>7
<1>2. CASE StopBegin
  BY <1>2 DEF StopBegin
<1>3. CASE StopJoin
  <2>1. pc' = [pc EXCEPT !["host"] = "kill"] /\ pc["mon"] \in {"none", "done"}
        /\ pc["host"] = "join"
    BY <1>3 DEF StopJoin
  <2>2. UNCHANGED <<running, pid, stopMonitoring, interrupted, reason, waited,
                   restartAttempts, httpFailures, proc, episode, starts>>
        /\ monitorThread' = "null"
    BY <1>3 DEF StopJoin
  <2>3. TypeData'
    BY <2>1, <2>2
  <2>4. HttpBelowLimit' /\ StopAfterJoin' /\ SpawnAfterClear' /\ MonitorOwned'
    BY <2>1, <2>2
  <2>5. KillTarget' /\ PidNamesOwnChild' /\ EpisodeDead'
    BY <2>1, <2>2
  <2>6. QED
    BY <2>3, <2>4, <2>5
<1>4. CASE MonitorCheck
  BY <1>4 DEF MonitorCheck, ProbeHealth, IsProcessAlive, HttpServed
<1>5. CASE MonitorRestart
  <2>1. /\ pc["mon"] = "restart"
        /\ restartAttempts' = restartAttempts + 1
        /\ UNCHANGED <<pid, stopMonitoring, interrupted, monitorThread, reason,
                       waited, httpFailures, proc, episode, starts>>
    BY <1>5 DEF MonitorRestart
  <2>2. CASE running' = FALSE /\ pc' = [pc EXCEPT !["mon"] = "done"]
    BY <2>1, <2>2
  <2>3. CASE pc' = [pc EXCEPT !["mon"] = "backoff"] /\ UNCHANGED running
    BY <2>1, <2>3
  <2>4. QED
    BY <1>5, <2>2, <2>3, Zenon DEF MonitorRestart
<1>6. CASE MonitorBackoff
  BY <1>6 DEF MonitorBackoff, Interruptible
<1>7. CASE MonitorSpawn
  <2>1. /\ pc["mon"] = "spawn"
        /\ UNCHANGED <<stopMonitoring, interrupted, monitorThread, reason,
                       waited, restartAttempts, starts>>
    BY <1>7 DEF MonitorSpawn
  <2>2. pid = 0 /\ running /\ monitorThread = "thread"
        /\ pc["host"] \notin KillLabels
    BY <2>1
  <2>3. ASSUME NEW p \in FreePids,
               proc' = [proc EXCEPT ![p] = "run"], pid' = p,
               episode' = episode \cup {p}, running' = TRUE,
               httpFailures' = 0,
               pc' = [pc EXCEPT !["mon"] = IF reason = "dead" THEN "check"
                                                              ELSE "sleep"]
        PROVE IRest'
    <3>1. TypeData'
      BY <2>1, <2>3
    <3>2. EpisodeDead'
      BY <2>1, <2>2, <2>3, ConstantsAssumption
    <3>3. HttpBelowLimit' /\ PidNamesOwnChild' /\ MonitorOwned'
          /\ StopAfterJoin' /\ KillTarget' /\ SpawnAfterClear'
      BY <2>1, <2>2, <2>3
    <3>4. QED
      BY <3>1, <3>2, <3>3
  <2>4. CASE /\ running' = FALSE
             /\ pc' = [pc EXCEPT !["mon"] = "done"]
             /\ UNCHANGED <<pid, httpFailures, proc, episode>>
    BY <2>1, <2>2, <2>4
  <2>5. QED
    BY <1>7, <2>3, <2>4, Zenon DEF MonitorSpawn
<1>8. CASE MonitorSleep
  BY <1>8 DEF MonitorSleep, Interruptible
<1>9. ASSUME NEW t \in Threads, KillTerm(t) PROVE IRest'
  BY <1>9 DEF KillTerm, KillReturn
<1>10. ASSUME NEW t \in Threads, KillPoll(t) PROVE IRest'
  BY <1>10 DEF KillPoll, KillReturn, Interruptible, IsProcessAlive
<1>11. ASSUME NEW t \in Threads, KillEscalate(t) PROVE IRest'
  BY <1>11 DEF KillEscalate
<1>12. ASSUME NEW t \in Threads, KillReap(t) PROVE IRest'
  BY <1>12 DEF KillReap, KillReturn, Interruptible
<1>13. ASSUME NEW t \in Threads, KillProcessWin(t) PROVE IRest'
  BY <1>13 DEF KillProcessWin, KillReturn
<1>14. ASSUME NEW p \in Pids, WorkerExit(p) PROVE IRest'
  BY <1>14 DEF WorkerExit
<1>15. CASE UNCHANGED vars
  BY <1>15 DEF vars
<1>16. QED
  BY <1>1, <1>2, <1>3, <1>4, <1>5, <1>6, <1>7, <1>8, <1>9, <1>10, <1>11,
     <1>12, <1>13, <1>14, <1>15, Zenon
  DEF Next, StopStep, MonitorStep, KillStep

LEMMA NextIInv == IInv /\ [Next]_vars => IInv'
<1> SUFFICES ASSUME IInv, [Next]_vars PROVE IInv'
  OBVIOUS
<1>1. TypeBool /\ IRest
  BY IInvSplit
<1>2. TypeBool' /\ IRest'
  BY <1>1, NextTypeBool, NextIRest
<1>3. QED
  BY <1>2, Zenon DEF IInv, IRest, TypeOK, TypeBool, TypeData

(* IInv holds in every reachable state.                                    *)
LEMMA IInvInvariant == Spec => []IInv
BY InitIInv, NextIInv, PTL DEF Spec

(* Type correctness of the supervisor's fields: m_pid, the counters, the   *)
(* thread's program counter and every child's state keep their types      *)
(* through every interleaving of Start, Stop, the monitor and the worker. *)
THEOREM TypeCorrect == Spec => []TypeOK
BY IInvInvariant, PTL DEF IInv

(* Whenever m_pid is non-zero it names a child the manager forked and has *)
(* not reaped: every KillProcess() return clears m_pid, and only          *)
(* waitpid() in KillProcess() (or the handle's close) frees the pid.     *)
THEOREM PidOwned == Spec => []PidNamesOwnChild
BY IInvInvariant, PTL DEF IInv

(* While the monitor thread is inside its loop the manager is running and  *)
(* owns the thread object: Stop() joins the thread before deleting it and *)
(* before clearing m_running.                                             *)
THEOREM MonitorOwnedInvariant == Spec => []MonitorOwned
BY IInvInvariant, PTL DEF IInv

(* A step on which Stop() returns leaves no worker of the episode running. *)
LEMMA StopStepSafe ==
    IInv /\ [Next]_vars => (StopCompletes => \A p \in episode : proc'[p] # "run")
<1> SUFFICES ASSUME IInv, [Next]_vars, StopCompletes,
                    NEW q \in episode
             PROVE proc'[q] # "run"
  OBVIOUS
<1> USE DEF IInv, TypeOK, Threads, HostLabels, MonLabels, ProcStates,
            StopCompletes, ConstantsAssumption
<1>1. ASSUME NEW t \in Threads, KillStep(t) PROVE proc'[q] # "run"
  <2>1. t = "host"
    BY <1>1, Zenon DEF KillStep, KillTerm, KillPoll, KillEscalate, KillReap,
                       KillProcessWin, KillReturn
  <2>2. pid # 0 => proc[pid] # "free"
    BY DEF PidNamesOwnChild
  <2>3. \A p \in episode : p # pid => proc[p] # "run"
    BY DEF EpisodeDead
  <2>4. CASE KillTerm(t)
    BY <2>1, <2>2, <2>3, <2>4 DEF KillTerm, KillReturn
  <2>5. CASE KillPoll(t)
    BY <2>1, <2>3, <2>5 DEF KillPoll, KillReturn, IsProcessAlive, Interruptible
  <2>6. CASE KillEscalate(t)
    BY <2>1, <2>6 DEF KillEscalate
  <2>7. CASE KillReap(t)
    <3>1. proc[pid] = "exited"
      BY <2>1, <2>7 DEF KillReap, KillTarget
    <3>2. QED
      BY <2>1, <2>3, <2>7, <3>1 DEF KillReap, KillReturn, Interruptible
  <2>8. CASE KillProcessWin(t)
    <3>1. CASE pid = 0
      <4>1. proc' = proc /\ q # pid
        BY <2>8, <3>1 DEF KillProcessWin
      <4>2. QED
        BY <2>3, <4>1
    <3>2. CASE pid # 0
      <4>1. proc' = [proc EXCEPT ![pid] = "free"]
        BY <2>8, <3>2 DEF KillProcessWin
      <4>2. QED
        BY <2>3, <4>1
    <3>3. QED
      BY <3>1, <3>2
  <2>9. QED
    BY <1>1, <2>4, <2>5, <2>6, <2>7, <2>8, Zenon DEF KillStep
<1>2. ~(Start \/ StopBegin \/ StopJoin \/ MonitorCheck \/ MonitorRestart
        \/ MonitorBackoff \/ MonitorSpawn \/ MonitorSleep
        \/ (\E p \in Pids : WorkerExit(p)) \/ UNCHANGED vars)
  BY DEF Start, StopBegin, StopJoin, MonitorCheck, ProbeHealth,
         MonitorRestart, MonitorBackoff, MonitorSpawn, MonitorSleep,
         WorkerExit, vars
<1>3. QED
  BY <1>1, <1>2 DEF Next, StopStep, MonitorStep

(* Stop() never returns while a worker it started (in this Start/Stop      *)
(* episode, the first one or a respawn) is still running: KillProcess()   *)
(* on m_pid kills the current one, and each respawn in Restart() first    *)
(* killed the one before.                                                 *)
THEOREM StopNoWorker == Spec => StopLeavesNoWorker
<1>1. IInv /\ [Next]_vars
        => [StopCompletes => \A p \in episode : proc'[p] # "run"]_vars
  BY StopStepSafe
<1>2. QED
  BY <1>1, IInvInvariant, PTL DEF Spec, StopLeavesNoWorker


-----------------------------------------------------------------------------
(* The refinement of the spec's supervisor state machine (P2PoolSupervisor)*)

(* Labels of the monitor inside Restart() after the attempt was counted.   *)
CountedLabels == {"backoff", "kill", "poll", "reap", "spawn"}

(* A live monitor, seen from outside Stop(), has not been told to stop:   *)
(* only Stop() raises m_stopMonitoring and interrupts, and it returns only *)
(* after the join; Start() lowers both for the next monitor.               *)
StopCancels ==
    pc["mon"] \notin {"none", "done"} /\ pc["host"] = "idle"
        => ~stopMonitoring /\ ~interrupted

(* Inside Restart(), past the counter, m_restartAttempts is positive: so   *)
(* a failed respawn leaves a non-zero count, which tells Failed from       *)
(* Stopped.                                                                *)
AttemptCounted == pc["mon"] \in CountedLabels => restartAttempts > 0

PhaseInv == IInv /\ StopCancels /\ AttemptCounted

LEMMA InitPhaseInv == Init => PhaseInv
<1> SUFFICES ASSUME Init PROVE PhaseInv
  OBVIOUS
<1>1. StopCancels /\ AttemptCounted
  BY DEF Init, Threads, StopCancels, AttemptCounted, CountedLabels
<1>2. QED
  BY <1>1, InitIInv DEF PhaseInv

LEMMA NextPhaseRest ==
    PhaseInv /\ [Next]_vars => (StopCancels /\ AttemptCounted)'
<1> SUFFICES ASSUME PhaseInv, [Next]_vars PROVE (StopCancels /\ AttemptCounted)'
  OBVIOUS
<1> USE DEF PhaseInv, IInv, TypeOK, Threads, HostLabels, MonLabels,
            StopCancels, AttemptCounted, CountedLabels
<1>1. CASE Start
  BY <1>1 DEF Start
<1>2. CASE StopBegin
  BY <1>2 DEF StopBegin
<1>3. CASE StopJoin
  BY <1>3 DEF StopJoin
<1>4. CASE MonitorCheck
  BY <1>4 DEF MonitorCheck, ProbeHealth
<1>5. CASE MonitorRestart
  BY <1>5 DEF MonitorRestart
<1>6. CASE MonitorBackoff
  BY <1>6 DEF MonitorBackoff
<1>7. CASE MonitorSpawn
  BY <1>7 DEF MonitorSpawn
<1>8. CASE MonitorSleep
  BY <1>8 DEF MonitorSleep
<1>9. CASE KillStep("host")
  <2>1. pc["mon"] \in {"none", "done"}
    BY <1>9 DEF KillStep, KillTerm, KillPoll, KillEscalate, KillReap,
                KillProcessWin, StopAfterJoin, KillLabels
  <2>2. pc'["mon"] = pc["mon"] /\ UNCHANGED <<stopMonitoring, interrupted>>
    BY <1>9 DEF KillStep, KillTerm, KillPoll, KillEscalate, KillReap,
                KillProcessWin, KillReturn
  <2>3. QED
    BY <2>1, <2>2
<1>10. CASE KillStep("mon")
  BY <1>10 DEF KillStep, KillTerm, KillPoll, KillEscalate, KillReap,
               KillProcessWin, KillReturn
<1>11. ASSUME NEW p \in Pids, WorkerExit(p) PROVE (StopCancels /\ AttemptCounted)'
  BY <1>11 DEF WorkerExit
<1>12. CASE UNCHANGED vars
  BY <1>12 DEF vars
<1>13. QED
  BY <1>1, <1>2, <1>3, <1>4, <1>5, <1>6, <1>7, <1>8, <1>9, <1>10, <1>11,
     <1>12 DEF Next, StopStep, MonitorStep

LEMMA PhaseInvInvariant == Spec => []PhaseInv
<1>1. PhaseInv /\ [Next]_vars => PhaseInv'
  BY NextIInv, NextPhaseRest DEF PhaseInv
<1>2. QED
  BY <1>1, InitPhaseInv, PTL DEF Spec


(* Every step of the manager is a step of the spec's state machine on      *)
(* SupervisorPhase, or leaves it alone.                                    *)
LEMMA PhaseStep == PhaseInv /\ [Next]_vars => [Abs!Next]_SupervisorPhase
<1> SUFFICES ASSUME PhaseInv, [Next]_vars PROVE [Abs!Next]_SupervisorPhase
  OBVIOUS
<1> USE DEF PhaseInv, IInv, TypeOK, Threads, HostLabels, MonLabels,
            StopCancels, AttemptCounted, CountedLabels, MonitorOwned,
            SupervisorPhase, Abs!Next, Abs!Start, Abs!Stop, Abs!Fail,
            Abs!Recover, Abs!GiveUp
<1>1. CASE Start
  BY <1>1 DEF Start
<1>2. CASE StopBegin
  BY <1>2 DEF StopBegin
<1>3. CASE StopJoin
  BY <1>3 DEF StopJoin
<1>4. CASE MonitorCheck
  BY <1>4 DEF MonitorCheck, ProbeHealth
<1>5. CASE MonitorRestart
  BY <1>5 DEF MonitorRestart
<1>6. CASE MonitorBackoff
  BY <1>6 DEF MonitorBackoff, Interruptible
<1>7. CASE MonitorSpawn
  BY <1>7 DEF MonitorSpawn
<1>8. CASE MonitorSleep
  BY <1>8 DEF MonitorSleep, Interruptible
<1>9. CASE KillStep("host")
  BY <1>9 DEF KillStep, KillTerm, KillPoll, KillEscalate, KillReap,
              KillProcessWin, KillReturn
<1>10. CASE KillStep("mon")
  BY <1>10 DEF KillStep, KillTerm, KillPoll, KillEscalate, KillReap,
               KillProcessWin, KillReturn, Interruptible
<1>11. ASSUME NEW p \in Pids, WorkerExit(p) PROVE [Abs!Next]_SupervisorPhase
  BY <1>11 DEF WorkerExit
<1>12. CASE UNCHANGED vars
  BY <1>12 DEF vars
<1>13. QED
  BY <1>1, <1>2, <1>3, <1>4, <1>5, <1>6, <1>7, <1>8, <1>9, <1>10, <1>11,
     <1>12 DEF Next, StopStep, MonitorStep

(* P2PoolProcessManager implements the supervisor state machine of spec    *)
(* section 3: started Stopped, every interleaving of Start(), Stop(), the  *)
(* monitor's loop with Restart() and KillProcess() on both threads, and the *)
(* worker's exits moves SupervisorPhase only along Start, Stop, Fail,      *)
(* Recover and GiveUp, the race of Stop() with a give-up included.         *)
THEOREM SupervisorImplemented == Spec => Abs!Spec
<1>1. Init => Abs!Init
  BY DEF Init, Abs!Init, SupervisorPhase
<1>2. QED
  BY <1>1, PhaseStep, PhaseInvInvariant, PTL DEF Spec, Abs!Spec

====
