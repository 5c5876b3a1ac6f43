------------------------- MODULE P2PoolManualRestart -------------------------
(***************************************************************************)
(* The public P2PoolProcessManager::Restart() called by a host thread      *)
(* ("manual") while the supervisor of P2PoolProcessManager runs.  Restart() *)
(* takes no lock, so the caller's steps interleave with the monitor's own  *)
(* Restart(), with Start()/Stop() on the "host" thread and with the        *)
(* worker.  Its KillProcess() is the shared KillStep("manual"), whose      *)
(* return is Restart()'s (KillReturn).  The caller is not a boost thread   *)
(* that Stop() interrupts, so its sleeps always run to their end.          *)
(***************************************************************************)
EXTENDS P2PoolProcessManager

CONSTANT MaxManualRestarts   \* bound: Restart() calls the host makes

VARIABLE manualCalls         \* Restart() calls made so far (bounded)

mvars == <<vars, manualCalls>>

AllThreads == Threads \cup {"manual"}

MInit ==
    /\ running = FALSE
    /\ pid = 0
    /\ stopMonitoring = FALSE
    /\ interrupted = FALSE
    /\ monitorThread = "null"
    /\ pc = [t \in AllThreads |-> IF t = "mon" THEN "none" ELSE "idle"]
    /\ reason = "dead"
    /\ waited = [t \in AllThreads |-> 0]
    /\ restartAttempts = 0
    /\ httpFailures = 0
    /\ proc = [p \in Pids |-> "free"]
    /\ episode = {}
    /\ starts = 0
    /\ manualCalls = 0

(* Restart() up to its backoff: count the attempt and, past               *)
(* MAX_RESTART_ATTEMPTS, clear m_running and return false.                 *)
ManualRestart ==
    /\ pc["manual"] = "idle"
    /\ manualCalls < MaxManualRestarts
    /\ manualCalls' = manualCalls + 1
    /\ restartAttempts' = restartAttempts + 1
    /\ IF restartAttempts + 1 > MaxRestartAttempts
       THEN /\ running' = FALSE
            /\ UNCHANGED pc
       ELSE /\ pc' = [pc EXCEPT !["manual"] = "backoff"]
            /\ UNCHANGED running
    /\ UNCHANGED <<pid, stopMonitoring, interrupted, monitorThread, reason,
                   waited, httpFailures, proc, episode, starts>>

(* MilliSleep(backoffMs), then KillProcess() if m_pid != 0.                *)
ManualBackoff ==
    /\ pc["manual"] = "backoff"
    /\ pc' = [pc EXCEPT !["manual"] = IF pid # 0 THEN "kill" ELSE "spawn"]
    /\ UNCHANGED <<running, pid, stopMonitoring, interrupted, monitorThread,
                   reason, waited, restartAttempts, httpFailures, proc,
                   episode, starts, manualCalls>>

(* SpawnProcess(m_lastConfig) and Restart()'s return.                     *)
ManualSpawn ==
    /\ pc["manual"] = "spawn"
    /\ \/ /\ \E p \in FreePids :
                /\ proc' = [proc EXCEPT ![p] = "run"]
                /\ pid' = p
                /\ episode' = episode \cup {p}
          /\ running' = TRUE
          /\ httpFailures' = 0
       \/ /\ running' = FALSE
          /\ UNCHANGED <<pid, httpFailures, proc, episode>>
    /\ pc' = [pc EXCEPT !["manual"] = "idle"]
    /\ UNCHANGED <<stopMonitoring, interrupted, monitorThread, reason, waited,
                   restartAttempts, starts, manualCalls>>

ManualStep ==
    \/ ManualRestart \/ ManualBackoff \/ ManualSpawn
    \/ KillStep("manual") /\ UNCHANGED manualCalls

MNext == (Next /\ UNCHANGED manualCalls) \/ ManualStep

MSpec == MInit /\ [][MNext]_mvars

=============================================================================
