------------------------ MODULE P2PoolProcessManager ------------------------
(***************************************************************************)
(* The worker supervisor of src/p2pool_manager.cpp: P2PoolProcessManager's *)
(* Start/Stop, the monitor thread (MonitorThread, Restart, CheckHttpHealth) *)
(* and the platform process controller (SpawnProcess, KillProcess,         *)
(* IsProcessAlive) for both halves of the #ifdef WIN32.                    *)
(*                                                                         *)
(* Two threads share the manager's fields: the host thread calling Start() *)
(* and Stop() (serialised by m_mutex) and the monitor thread, which takes  *)
(* no lock at all.  An action is one run of code between two points where *)
(* the other thread, or the worker, can observe or change something: the  *)
(* MilliSleep() calls (boost interruption points), the waits of           *)
(* KillProcess() and the join of Stop().  The OS keeps a table of process *)
(* slots: a slot is "free", holds a "run"ning worker, or an "exited" one   *)
(* that has not been released yet (a zombie on POSIX, a process object    *)
(* kept by an open handle on win32).  Configuration, start time, logging   *)
(* and the argument vector are left out: no property tells them apart.    *)
(***************************************************************************)
EXTENDS Naturals, FiniteSets

CONSTANTS
    Pids,                \* process-table slots fork()/CreateProcess may return
    Platform,            \* "posix" or "win32": which half of #ifdef WIN32 is built
    MaxRestartAttempts,  \* MAX_RESTART_ATTEMPTS (5)
    MaxHttpFailures,     \* MAX_HTTP_FAILURES (3)
    GracePolls,          \* GRACEFUL_SHUTDOWN_WAIT_MS / 100 (50) polls after SIGTERM
    MaxStarts            \* bound: successful Start() calls the host makes

ASSUME ConstantsAssumption ==
    /\ IsFiniteSet(Pids)
    /\ Pids \subseteq Nat \ {0}
    /\ Platform \in {"posix", "win32"}
    /\ MaxRestartAttempts \in Nat \ {0}
    /\ MaxHttpFailures \in Nat \ {0}
    /\ GracePolls \in Nat \ {0}
    /\ MaxStarts \in Nat

VARIABLES
    running,          \* m_running
    pid,              \* m_pid, 0 for none; on win32 m_processHandle is non-NULL
                      \* exactly when pid # 0 (set and cleared together)
    stopMonitoring,   \* m_stopMonitoring
    interrupted,      \* a boost interrupt() pending on the monitor thread
    monitorThread,    \* m_monitorThread: "null" or "thread"
    pc,               \* pc["host"], pc["mon"]: where each thread is
    reason,           \* why the monitor called Restart(): "dead" or "http"
    waited,           \* waited[t]: polls done by KillProcess() in thread t
    restartAttempts,  \* m_restartAttempts
    httpFailures,     \* m_httpFailures
    proc,             \* proc[p]: "free", "run" or "exited"
    episode,          \* history: the pids spawned since the last Start()
    starts            \* history: successful Start() calls so far

vars == <<running, pid, stopMonitoring, interrupted, monitorThread, pc, reason,
          waited, restartAttempts, httpFailures, proc, episode, starts>>

Threads == {"host", "mon"}

HostLabels == {"idle", "join", "kill", "poll", "reap"}

MonLabels == {"none", "check", "restart", "backoff", "kill", "poll", "reap",
              "spawn", "sleep", "done"}

ProcStates == {"free", "run", "exited"}

FreePids == {p \in Pids : proc[p] = "free"}

-----------------------------------------------------------------------------
(* IsProcessAlive asking only whether the process object still exists.   *)
IsProcessAliveByObject(p) == p # 0 /\ proc[p] # "free"

(* IsProcessAlive(m_pid).  POSIX asks kill(pid, 0), which succeeds for a   *)
(* child that has exited but was never reaped; win32 asks the handle.      *)
IsProcessAlive(p) ==
    /\ p # 0
    /\ IF Platform = "posix" THEN proc[p] # "free" ELSE proc[p] = "run"

(* CheckHttpHealth() GETs 127.0.0.1:37889/stats: it can only get a 200    *)
(* if some worker process is running and listening on that port.          *)
HttpServed == \E q \in Pids : proc[q] = "run"

(* MilliSleep() is a boost interruption point: with an interrupt pending  *)
(* on the monitor thread it throws thread_interrupted, and MonitorThread() *)
(* leaves its loop.  The host thread is never interrupted.                 *)
Interruptible(t) == t = "mon" /\ interrupted

(* KillProcess()'s return with Restart() forgetting to clear m_pid.       *)
KillReturnKeepPid(t) ==
    IF t = "host"
    THEN /\ running' = FALSE
         /\ pid' = 0
         /\ restartAttempts' = 0
         /\ pc' = [pc EXCEPT !["host"] = "idle"]
    ELSE /\ pc' = [pc EXCEPT ![t] = "spawn"]
         /\ UNCHANGED <<running, restartAttempts, pid>>

(* Stop() that leaves m_restartAttempts as it found it.                   *)
KillReturnNoReset(t) ==
    IF t = "host"
    THEN /\ running' = FALSE
         /\ pid' = 0
         /\ pc' = [pc EXCEPT !["host"] = "idle"]
         /\ UNCHANGED restartAttempts
    ELSE /\ pid' = 0
         /\ pc' = [pc EXCEPT ![t] = "spawn"]
         /\ UNCHANGED <<running, restartAttempts>>

(* What KillProcess()'s caller does once it returns: Stop() clears the     *)
(* lifecycle state and returns; Restart() clears m_pid and respawns.       *)
KillReturn(t) ==
    IF t = "host"
    THEN /\ running' = FALSE
         /\ pid' = 0
         /\ restartAttempts' = 0
         /\ pc' = [pc EXCEPT !["host"] = "idle"]
    ELSE /\ pid' = 0
         /\ pc' = [pc EXCEPT ![t] = "spawn"]
         /\ UNCHANGED <<running, restartAttempts>>

-----------------------------------------------------------------------------
Init ==
    /\ running = FALSE
    /\ pid = 0
    /\ stopMonitoring = FALSE
    /\ interrupted = FALSE
    /\ monitorThread = "null"
    /\ pc = [t \in Threads |-> IF t = "host" THEN "idle" ELSE "none"]
    /\ reason = "dead"
    /\ waited = [t \in Threads |-> 0]
    /\ restartAttempts = 0
    /\ httpFailures = 0
    /\ proc = [p \in Pids |-> "free"]
    /\ episode = {}
    /\ starts = 0

(* Start(config) with a valid configuration on a stopped manager: spawn    *)
(* the worker, then a fresh monitor thread.  Start on a running manager,   *)
(* a rejected configuration and a failed fork() change nothing.  Note     *)
(* that m_restartAttempts is not reset.                                    *)
Start ==
    /\ pc["host"] = "idle"
    /\ ~running
    /\ starts < MaxStarts
    /\ \E p \in FreePids :
          /\ proc' = [proc EXCEPT ![p] = "run"]
          /\ pid' = p
          /\ episode' = {p}
    /\ running' = TRUE
    /\ httpFailures' = 0
    /\ stopMonitoring' = FALSE
    /\ monitorThread' = "thread"
    /\ interrupted' = FALSE
    /\ pc' = [pc EXCEPT !["mon"] = "check"]
    /\ starts' = starts + 1
    /\ UNCHANGED <<reason, waited, restartAttempts>>

(* Stop() that forgets to signal the monitor thread.                      *)
StopBeginNoSignal ==
    /\ pc["host"] = "idle"
    /\ running
    /\ pc' = [pc EXCEPT !["host"] = "join"]
    /\ UNCHANGED <<running, pid, monitorThread, reason, waited, stopMonitoring,
                   interrupted, restartAttempts, httpFailures, proc, episode,
                   starts>>

(* Stop() on a running manager, up to the join: raise m_stopMonitoring and *)
(* interrupt the monitor thread.  Stop() on a stopped manager returns.     *)
StopBegin ==
    /\ pc["host"] = "idle"
    /\ running
    /\ stopMonitoring' = TRUE
    /\ interrupted' = (monitorThread = "thread" \/ interrupted)
    /\ pc' = [pc EXCEPT !["host"] = "join"]
    /\ UNCHANGED <<running, pid, monitorThread, reason, waited,
                   restartAttempts, httpFailures, proc, episode, starts>>

(* Stop() that deletes the thread object without joining it.             *)
StopJoinNoWait ==
    /\ pc["host"] = "join"
    /\ monitorThread' = "null"
    /\ pc' = [pc EXCEPT !["host"] = "kill"]
    /\ UNCHANGED <<running, pid, stopMonitoring, interrupted, reason, waited,
                   restartAttempts, httpFailures, proc, episode, starts>>

(* m_monitorThread->join(); delete; then KillProcess().                    *)
StopJoin ==
    /\ pc["host"] = "join"
    /\ pc["mon"] \in {"none", "done"}
    /\ monitorThread' = "null"
    /\ pc' = [pc EXCEPT !["host"] = "kill"]
    /\ UNCHANGED <<running, pid, stopMonitoring, interrupted, reason, waited,
                   restartAttempts, httpFailures, proc, episode, starts>>

-----------------------------------------------------------------------------
(* CheckHttpHealth() and what the loop does with its answer: a 200 resets *)
(* both counters; a failure counts, and at MAX_HTTP_FAILURES calls         *)
(* Restart(); an exception (obtain_event_base() throws) is caught and the  *)
(* tick ends in the handler's sleep.                                       *)
ProbeHealthPastLimit ==
    \/ /\ HttpServed
       /\ httpFailures' = 0
       /\ restartAttempts' = 0
       /\ pc' = [pc EXCEPT !["mon"] = "sleep"]
       /\ UNCHANGED reason
    \/ /\ httpFailures' = httpFailures + 1
       /\ IF httpFailures + 1 > MaxHttpFailures
          THEN /\ pc' = [pc EXCEPT !["mon"] = "restart"]
               /\ reason' = "http"
          ELSE /\ pc' = [pc EXCEPT !["mon"] = "sleep"]
               /\ UNCHANGED reason
       /\ UNCHANGED restartAttempts
    \/ /\ pc' = [pc EXCEPT !["mon"] = "sleep"]
       /\ UNCHANGED <<reason, restartAttempts, httpFailures>>

ProbeHealth ==
    \/ /\ HttpServed
       /\ httpFailures' = 0
       /\ restartAttempts' = 0
       /\ pc' = [pc EXCEPT !["mon"] = "sleep"]
       /\ UNCHANGED reason
    \/ /\ httpFailures' = httpFailures + 1
       /\ IF httpFailures + 1 >= MaxHttpFailures
          THEN /\ pc' = [pc EXCEPT !["mon"] = "restart"]
               /\ reason' = "http"
          ELSE /\ pc' = [pc EXCEPT !["mon"] = "sleep"]
               /\ UNCHANGED reason
       /\ UNCHANGED restartAttempts
    \/ /\ pc' = [pc EXCEPT !["mon"] = "sleep"]
       /\ UNCHANGED <<reason, restartAttempts, httpFailures>>

(* One pass of MonitorThread()'s loop up to Restart() or the sleep: the    *)
(* stop flag, IsProcessAlive(m_pid), then the HTTP probe.                  *)
MonitorCheck ==
    /\ pc["mon"] = "check"
    /\ \/ /\ stopMonitoring
          /\ pc' = [pc EXCEPT !["mon"] = "done"]
          /\ UNCHANGED <<reason, restartAttempts, httpFailures>>
       \/ /\ ~stopMonitoring
          /\ ~IsProcessAlive(pid)
          /\ pc' = [pc EXCEPT !["mon"] = "restart"]
          /\ reason' = "dead"
          /\ UNCHANGED <<restartAttempts, httpFailures>>
       \/ /\ ~stopMonitoring
          /\ IsProcessAlive(pid)
          /\ ProbeHealth
    /\ UNCHANGED <<running, pid, stopMonitoring, interrupted, monitorThread,
                   waited, proc, episode, starts>>

(* Restart(): count the attempt; past MAX_RESTART_ATTEMPTS give up, clear  *)
(* m_running and return false, and MonitorThread() breaks out of its loop. *)
(* The worker and m_pid are left as they are.                              *)
MonitorRestart ==
    /\ pc["mon"] = "restart"
    /\ restartAttempts' = restartAttempts + 1
    /\ \/ /\ restartAttempts + 1 > MaxRestartAttempts
          /\ running' = FALSE
          /\ pc' = [pc EXCEPT !["mon"] = "done"]
       \/ /\ restartAttempts + 1 <= MaxRestartAttempts
          /\ pc' = [pc EXCEPT !["mon"] = "backoff"]
          /\ UNCHANGED running
    /\ UNCHANGED <<pid, stopMonitoring, interrupted, monitorThread, reason,
                   waited, httpFailures, proc, episode, starts>>

(* MilliSleep(backoffMs), then KillProcess() if m_pid != 0.                *)
MonitorBackoff ==
    /\ pc["mon"] = "backoff"
    /\ \/ /\ Interruptible("mon")
          /\ pc' = [pc EXCEPT !["mon"] = "done"]
       \/ /\ ~Interruptible("mon")
          /\ pc' = [pc EXCEPT !["mon"] = IF pid # 0 THEN "kill" ELSE "spawn"]
    /\ UNCHANGED <<running, pid, stopMonitoring, interrupted, monitorThread,
                   reason, waited, restartAttempts, httpFailures, proc,
                   episode, starts>>

(* SpawnProcess(m_lastConfig) in Restart(), and MonitorThread()'s next     *)
(* move: after a death it loops at once (continue), after HTTP failures   *)
(* it falls through to the tick's sleep.  A failed fork() clears           *)
(* m_running and the monitor breaks out of its loop.                      *)
MonitorSpawn ==
    /\ pc["mon"] = "spawn"
    /\ \/ /\ \E p \in FreePids :
                /\ proc' = [proc EXCEPT ![p] = "run"]
                /\ pid' = p
                /\ episode' = episode \cup {p}
          /\ running' = TRUE
          /\ httpFailures' = 0
          /\ pc' = [pc EXCEPT !["mon"] = IF reason = "dead" THEN "check"
                                                            ELSE "sleep"]
       \/ /\ running' = FALSE
          /\ pc' = [pc EXCEPT !["mon"] = "done"]
          /\ UNCHANGED <<pid, httpFailures, proc, episode>>
    /\ UNCHANGED <<stopMonitoring, interrupted, monitorThread, reason, waited,
                   restartAttempts, starts>>

(* MilliSleep(HEALTH_CHECK_INTERVAL_MS), in the loop or in the handler of  *)
(* std::exception.                                                         *)
MonitorSleep ==
    /\ pc["mon"] = "sleep"
    /\ pc' = [pc EXCEPT !["mon"] = IF Interruptible("mon") THEN "done"
                                                         ELSE "check"]
    /\ UNCHANGED <<running, pid, stopMonitoring, interrupted, monitorThread,
                   reason, waited, restartAttempts, httpFailures, proc,
                   episode, starts>>

-----------------------------------------------------------------------------
(* POSIX KillProcess() in thread t: kill(m_pid, SIGTERM).  It fails only   *)
(* when m_pid is 0 or names no process; then KillProcess() returns.       *)
KillTerm(t) ==
    /\ Platform = "posix"
    /\ pc[t] = "kill"
    /\ IF pid # 0 /\ proc[pid] # "free"
       THEN /\ pc' = [pc EXCEPT ![t] = "poll"]
            /\ waited' = [waited EXCEPT ![t] = 0]
            /\ UNCHANGED <<running, pid, restartAttempts>>
       ELSE /\ KillReturn(t)
            /\ UNCHANGED waited
    /\ UNCHANGED <<stopMonitoring, interrupted, monitorThread, reason,
                   httpFailures, proc, episode, starts>>

(* One turn of the wait loop: if !IsProcessAlive(m_pid) return, else      *)
(* MilliSleep(100).  For the manager's own child the return is never      *)
(* taken: an exited child stays a zombie, and kill(pid, 0) succeeds.       *)
KillPoll(t) ==
    /\ Platform = "posix"
    /\ pc[t] = "poll"
    /\ waited[t] < GracePolls
    /\ IF ~IsProcessAlive(pid)
       THEN /\ KillReturn(t)
            /\ UNCHANGED waited
       ELSE \/ /\ Interruptible(t)
               /\ pc' = [pc EXCEPT ![t] = "done"]
               /\ UNCHANGED <<running, pid, restartAttempts, waited>>
            \/ /\ ~Interruptible(t)
               /\ waited' = [waited EXCEPT ![t] = @ + 1]
               /\ UNCHANGED <<running, pid, restartAttempts, pc>>
    /\ UNCHANGED <<stopMonitoring, interrupted, monitorThread, reason,
                   httpFailures, proc, episode, starts>>

(* The grace period is over, but no SIGKILL is sent.                      *)
KillEscalateNoSignal(t) ==
    /\ Platform = "posix"
    /\ pc[t] = "poll"
    /\ waited[t] = GracePolls
    /\ pc' = [pc EXCEPT ![t] = "reap"]
    /\ UNCHANGED <<running, pid, stopMonitoring, interrupted, monitorThread,
                   reason, waited, restartAttempts, httpFailures, proc, episode,
                   starts>>

(* The grace period is over: kill(m_pid, SIGKILL).                         *)
KillEscalate(t) ==
    /\ Platform = "posix"
    /\ pc[t] = "poll"
    /\ waited[t] = GracePolls
    /\ proc' = [proc EXCEPT ![pid] = "exited"]
    /\ pc' = [pc EXCEPT ![t] = "reap"]
    /\ UNCHANGED <<running, pid, stopMonitoring, interrupted, monitorThread,
                   reason, waited, restartAttempts, httpFailures, episode,
                   starts>>

(* MilliSleep(500), then waitpid(m_pid, WNOHANG) releases the zombie (it  *)
(* leaves a child that still runs alone).                                  *)
KillReap(t) ==
    /\ Platform = "posix"
    /\ pc[t] = "reap"
    /\ \/ /\ Interruptible(t)
          /\ pc' = [pc EXCEPT ![t] = "done"]
          /\ UNCHANGED <<running, pid, restartAttempts, proc>>
       \/ /\ ~Interruptible(t)
          /\ proc' = [proc EXCEPT ![pid] = IF @ = "exited" THEN "free" ELSE @]
          /\ KillReturn(t)
    /\ UNCHANGED <<stopMonitoring, interrupted, monitorThread, reason, waited,
                   httpFailures, episode, starts>>

(* win32 KillProcess() that closes the handle without TerminateProcess(). *)
KillProcessWinNoTerminate(t) ==
    /\ Platform = "win32"
    /\ pc[t] = "kill"
    /\ IF pid = 0
       THEN UNCHANGED proc
       ELSE proc' = [proc EXCEPT ![pid] = IF @ = "exited" THEN "free" ELSE @]
    /\ KillReturn(t)
    /\ UNCHANGED <<stopMonitoring, interrupted, monitorThread, reason, waited,
                   httpFailures, episode, starts>>

(* win32 KillProcess(): nothing to do without a handle; else wait for the  *)
(* process (it exited) or TerminateProcess() it, then CloseHandle().  No   *)
(* wait in it is a boost interruption point.                               *)
KillProcessWin(t) ==
    /\ Platform = "win32"
    /\ pc[t] = "kill"
    /\ IF pid = 0
       THEN UNCHANGED proc
       ELSE proc' = [proc EXCEPT ![pid] = "free"]
    /\ KillReturn(t)
    /\ UNCHANGED <<stopMonitoring, interrupted, monitorThread, reason, waited,
                   httpFailures, episode, starts>>

(* The worker exits or crashes: on its own, after SIGTERM, or because      *)
(* execv() failed in the child.                                            *)
WorkerExit(p) ==
    /\ proc[p] = "run"
    /\ proc' = [proc EXCEPT ![p] = "exited"]
    /\ UNCHANGED <<running, pid, stopMonitoring, interrupted, monitorThread,
                   pc, reason, waited, restartAttempts, httpFailures,
                   episode, starts>>

-----------------------------------------------------------------------------
KillStep(t) ==
    KillTerm(t) \/ KillPoll(t) \/ KillEscalate(t) \/ KillReap(t)
    \/ KillProcessWin(t)

MonitorStep ==
    \/ MonitorCheck \/ MonitorRestart \/ MonitorBackoff \/ MonitorSpawn
    \/ MonitorSleep \/ KillStep("mon")

StopStep == StopJoin \/ KillStep("host")

Next ==
    \/ Start \/ StopBegin \/ StopStep
    \/ MonitorStep
    \/ \E p \in Pids : WorkerExit(p)

Spec == Init /\ [][Next]_vars

(* The monitor thread is scheduled by the OS and its sleeps end; a host    *)
(* thread inside Stop() runs on.  Start(), Stop() and the worker's exits   *)
(* are never forced.                                                       *)
FairSpec == Spec /\ WF_vars(MonitorStep) /\ WF_vars(StopStep)

-----------------------------------------------------------------------------
(* Every variable holds a value of its kind; m_httpFailures never passes  *)
(* MAX_HTTP_FAILURES (the monitor restarts when it reaches it).            *)
TypeOK ==
    /\ running \in BOOLEAN
    /\ pid \in Pids \cup {0}
    /\ stopMonitoring \in BOOLEAN
    /\ interrupted \in BOOLEAN
    /\ monitorThread \in {"null", "thread"}
    /\ pc \in [Threads -> HostLabels \cup MonLabels]
    /\ pc["host"] \in HostLabels
    /\ pc["mon"] \in MonLabels
    /\ reason \in {"dead", "http"}
    /\ waited \in [Threads -> 0..GracePolls]
    /\ restartAttempts \in Nat
    /\ httpFailures \in 0..MaxHttpFailures
    /\ proc \in [Pids -> ProcStates]
    /\ episode \subseteq Pids
    /\ starts \in 0..MaxStarts

(* m_pid never names a process-table slot that has been released: after   *)
(* waitpid()/CloseHandle() in KillProcess() the caller clears m_pid before *)
(* anything else runs, so no later kill() or wait can hit a process the OS *)
(* has handed to somebody else under the same pid.                         *)
PidNamesOwnChild == pid # 0 => proc[pid] # "free"

(* The monitor thread that is alive is the one m_monitorThread holds, and  *)
(* it only runs while m_running is set: Stop() joins it before clearing    *)
(* m_running, and Restart() clears m_running only on the way out of the    *)
(* loop.  So Start() never starts a second monitor next to a live one.    *)
MonitorOwned ==
    pc["mon"] \notin {"none", "done"} => running /\ monitorThread = "thread"

(* A Stop() that found the manager running returns only when no worker    *)
(* spawned since the last Start() is still running: the join keeps the    *)
(* monitor from respawning behind KillProcess(), and KillProcess() escalates*)
(* to SIGKILL / TerminateProcess.                                          *)
StopCompletes == pc["host"] # "idle" /\ pc'["host"] = "idle"

StopLeavesNoWorker ==
    [][StopCompletes => \A p \in episode : proc'[p] # "run"]_vars

(* Stop() returns: the join does not wait forever on the monitor thread.   *)
StopTerminates == pc["host"] = "join" ~> pc["host"] = "idle"

(* A worker that exits while the manager runs is noticed: eventually the  *)
(* monitor has replaced it (m_pid changed) or the manager is not running.  *)
CrashRecovered ==
    \A p \in Pids :
        (running /\ pid = p /\ proc[p] = "exited") ~> (~running \/ pid # p)

(* The manager supervises one worker at a time: at most one spawned        *)
(* process is running.                                                     *)
AtMostOneWorker == Cardinality({p \in Pids : proc[p] = "run"}) <= 1

(* Start() allocates a new boost::thread for the monitor only when        *)
(* m_monitorThread holds none: Stop() deletes the old object after joining *)
(* it, and nothing else may drop the last pointer to it.                   *)
MonitorThreadNotLeaked ==
    [][starts' # starts => monitorThread = "null"]_vars

(* A running manager has its restart budget: after a fresh Start() the     *)
(* monitor may still restart the worker (spec: Failed is terminal only     *)
(* until a fresh Start).                                                   *)
RunningHasRestartBudget == running => restartAttempts <= MaxRestartAttempts

(* A monitor tick that finds the worker exited goes to Restart() at once   *)
(* rather than probing HTTP.                                               *)
DeathDetectedAtNextTick ==
    [][(/\ pc["mon"] = "check" /\ pc'["mon"] # "check"
        /\ ~stopMonitoring /\ pid # 0 /\ proc[pid] = "exited")
       => pc'["mon"] = "restart"]_vars

-----------------------------------------------------------------------------
(* The supervisor state of spec section 3 that the fields stand for.  A    *)
(* host thread inside Stop() has cancelled monitoring: Stopped.  Outside   *)
(* Stop(), m_running tells Running from not; a manager that is not running *)
(* is Stopped when m_restartAttempts is 0 (as Stop() and the constructor   *)
(* leave it) and Failed when the monitor gave up or failed to respawn      *)
(* (Restart() counted an attempt first).  A running manager whose monitor  *)
(* is inside Restart() or its KillProcess() is Restarting.                 *)
SupervisorPhase ==
    IF pc["host"] # "idle" \/ (~running /\ restartAttempts = 0) THEN "stopped"
    ELSE IF ~running THEN "failed"
    ELSE IF pc["mon"] \in {"restart", "backoff", "kill", "poll", "reap", "spawn"}
         THEN "restarting"
    ELSE "running"

Abs == INSTANCE P2PoolSupervisor WITH phase <- SupervisorPhase

(* The manager implements the supervisor state machine of the spec: every *)
(* step of Start(), Stop(), the monitor's loop and Restart(), of           *)
(* KillProcess() on either thread and of the worker is a transition the    *)
(* spec allows between the states the fields stand for, or leaves that     *)
(* state alone, and a Restarting supervisor always resolves.               *)
SupervisorRefined == Abs!FairSpec

=============================================================================
