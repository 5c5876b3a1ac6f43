# TLA+ models of the P2Pool supervisor

This directory holds TLA+ specifications of the P2Pool integration in
`src/src/`. The parts covered are the process manager, its health monitor, the
status cache and the JSON-RPC client. Each model comes with TLC configurations that check it on
small instances, and TLAPS proofs of its main safety properties for all values
of the constants.

## The system

| Part | Source | What it does |
|---|---|---|
| Supervisor | `p2pool_manager.cpp` `Start`, `Stop`, `Restart` | Owns `m_pid`, `m_running`, the counters and the `boost::thread*` monitor. `Start` and `Stop` run on host threads under `m_mutex`. |
| Health monitor | `MonitorThread` | Runs a loop on its own thread, with no lock. Each tick checks the stop flag, checks `IsProcessAlive(m_pid)`, then `CheckHttpHealth()`. On a death, or at `MAX_HTTP_FAILURES` failed probes, it calls `Restart()`, then sleeps. |
| Restart policy | `Restart` | Counts the attempt and gives up past `MAX_RESTART_ATTEMPTS` (clears `m_running`). Otherwise it sleeps the backoff, kills the old worker, clears `m_pid` and spawns. |
| Process controller | `SpawnProcess`, `KillProcess`, `IsProcessAlive` (POSIX and WIN32) | POSIX: fork/exec; SIGTERM, then poll `kill(pid,0)` every 100 ms for 5 s; then SIGKILL, sleep 500 ms, `waitpid(WNOHANG)`. WIN32: `CreateProcess`, `WaitForSingleObject`, then `TerminateProcess`. |
| Status cache | `p2pool_status.cpp` | Read-through cache of `/stats` with a 5 s TTL, under its own mutex. The TTL is measured with `GetTime()`. |
| RPC client | `p2pool_client.cpp` | One JSON-RPC POST per call, with failure classification. Also decodes the results of `get_share_template` and `submit_share`. |

How the parts interact:

- `Start` spawns a worker and a monitor thread.
- The monitor restarts the worker through the process controller.
- `Stop` sets `m_stopMonitoring`, interrupts and joins the monitor, then kills the worker.
- Boost's `MilliSleep` is an interruption point, so an interrupt ends the monitor at its next sleep (backoff, tick, or a `KillProcess` poll).
- The status cache and the RPC client share no state with the supervisor.

## Modules

| Module | Models |
|---|---|
| `P2PoolProcessManager` | Supervisor, monitor, restart policy, process controller (both platforms, selected by the constant `Platform`) |
| `MCP2PoolProcessManager` | TLC instance: `Pids = 1..3` |
| `P2PoolProcessManagerProofs` | Inductive invariant and theorems for the supervisor, and the refinement proof |
| `P2PoolSupervisor` | The spec's supervisor state machine (Stopped, Running, Restarting, Failed) |
| `P2PoolManualRestart` | The manager with a host thread calling the public `Restart()` |
| `MCP2PoolManualRestart` | TLC instance of it: `Pids = 1..3` |
| `P2PoolClient` | `CallMethod` classification and the decoding in `SubmitShare` and `GetBlockTemplate` |
| `P2PoolStatusCache` | The status cache, with a real clock and a steppable wall clock |
| `MCP2PoolStatusCache` | TLC instance: two stats documents, symmetric |
| `P2PoolStatusCacheProofs` | Staleness, freshness and type theorems for the cache |
| `P2PoolClientProofs` | Type, verdict and template theorems for the client |

### P2PoolProcessManager

There are two threads, `"host"` (Start/Stop) and `"mon"` (MonitorThread).
Each has a program counter in `pc`, because the host and the monitor
interleave at these points:

- the join;
- every sleep;
- every step of `KillProcess` (`kill` → `poll` → `reap`), which either thread may run.

`Start` and the first half of `Stop` are atomic steps because they hold
`m_mutex`. The monitor takes no lock.

| Variable | Code |
|---|---|
| `running`, `pid`, `stopMonitoring`, `restartAttempts`, `httpFailures` | the fields of the same names |
| `monitorThread` | whether `m_monitorThread` is set |
| `interrupted` | a pending `interrupt()` |
| `reason` | whether the current `Restart()` follows a death or HTTP failures (after a death the loop `continue`s, otherwise it sleeps) |
| `waited[t]` | the poll count of the grace loop |
| `proc[p]` | each child: `"free"` (unused or reaped), `"run"`, or `"exited"` (a zombie until reaped) |
| `episode`, `starts` | history: the workers spawned since the last `Start()`, and a bound on `Start()` calls |

Actions and the code they model:

| Action | Code | Lines |
|---|---|---|
| `Start` | `Start` | 121-166 |
| `StopBegin`, `StopJoin` | `Stop`; the kill and the resets run through `KillStep("host")` and `KillReturn` | 168-196 |
| `MonitorCheck` | the stop flag and the liveness check | 540-550 |
| `ProbeHealth` | the HTTP probe | 552-572 |
| `MonitorRestart` | the attempt counter and give-up | 198-209 |
| `MonitorBackoff` | the backoff sleep, and the kill only if `m_pid != 0` | 211-221 |
| `MonitorSpawn` | the respawn, or a failed fork | 223-235 |
| `MonitorSleep` | the tick sleep or the exception handler's sleep | 574-583 |
| `KillTerm`, `KillPoll`, `KillEscalate`, `KillReap` | POSIX `KillProcess` | 320-351 |
| `KillProcessWin` | WIN32 `KillProcess` | 435-463 |

`IsProcessAlive` is `kill(pid,0)` on POSIX, which is true for a zombie. On
WIN32 it is true only for a running process. `WorkerExit(p)` is the worker
crashing or exiting on SIGTERM. A free pid is any unused pid in `Pids`, so pid
reuse after a reap is included.

Abstractions:

- SIGKILL ends the worker in the same step, so a worker slow to die after SIGKILL is not modelled (the ELSE of `KillReap` is unreachable). On WIN32, `TerminateProcess` is taken to succeed.
- Timing values (backoff length, 5 s tick, 5000 ms grace) become one interruptible step each. The grace loop keeps its shape with `GracePolls` polls.
- `CheckHttpHealth` answers 200 only if some child runs. It may also fail, or throw.

### P2PoolSupervisor and the refinement

`P2PoolSupervisor` has one variable, `phase`, and the transitions of spec
sections 3 and 4.3: `Start` (from Stopped or Failed), `Stop` (from any other
state), `Fail` (Running to Restarting), `Recover` and `GiveUp`. Its `FairSpec`
adds weak fairness of `Recover \/ GiveUp`, because Restarting always resolves.

`P2PoolProcessManager` maps its fields to a phase with `SupervisorPhase`:

- Stopped: the host is inside `Stop()`, or the manager is not running with `m_restartAttempts = 0`. That is how `Stop()` and the constructor leave it.
- Failed: not running with a counted attempt, after a give-up or a failed respawn.
- Restarting: running, with the monitor inside `Restart()` or its `KillProcess()`.
- Running: running otherwise.

`SupervisorRefined` is `Abs!FairSpec` under `Abs == INSTANCE P2PoolSupervisor
WITH phase <- SupervisorPhase`. Both supervisor runs check it.

### P2PoolManualRestart

The public `Restart()` takes no lock. This module adds a third thread,
`"manual"`, that calls it:

- `ManualRestart`: count the attempt, or give up.
- `ManualBackoff`: the backoff sleep. The caller is not interrupted by `Stop()`.
- `KillStep("manual")`: the shared `KillProcess()` steps. `KillReturn` takes Restart()'s branch for every thread but `"host"`.
- `ManualSpawn`: the respawn.

Every other step is the manager's. `MaxManualRestarts` bounds the calls.

### P2PoolClient

The client keeps no state between calls, so each call is one step. Its input
is any reply from a finite set of shapes:

- whether the request was sent;
- the HTTP status (0, 200 or 500);
- the body: unparsable, a non-object, or an object;
- for an object: its `error`, whether it has other keys, and its `result`.

A result is a record holding its JSON kind and the keys the decoder reads.
For each key, "absent" or the kind of its value. The operators follow the code:

- `CallMethod`: the throw order of lines 99-126, as an ordered `IF` chain (a `CASE` with overlapping guards would choose any true arm, not the first).
- `SubmitShare`: the branches of lines 184-216, in their order. A `get_str()` on a non-string throws and yields `Error`.
- `GetBlockTemplate`: the unconditional `get_str()` at line 138 first.

`SpecCallSucceeds` and `SpecTemplateUsable` state spec sections 4.2 and 6
independently of the code, so properties can compare the two.

### P2PoolStatusCache

- Each public call holds `m_mutex` throughout, so each call is one step.
- `now` is the real time. `wall` is `GetTime()`, which ticks with `now` and may be stepped by `ClockStep` (at most `MaxForwardStep` ahead and `MaxBackStep` back).
- `FetchResults` is what `FetchStatus` can return: the defaults, the worker's figures, or connected with zero figures (a 200 reply whose JSON is not an object).
- `served`, `fetchedAt` and `fetchedFrom` are history variables. They record each answer, its real age, and what the worker served at the fetch it came from.

## Runs

| Run | Cfg | Expect | Shows |
|---|---|---|---|
| posix_supervisor | `MCPosix.cfg` | pass | `TypeOK`, `PidNamesOwnChild`, `MonitorOwned`, `StopLeavesNoWorker`, `StopTerminates` |
| win32_supervisor | `MCWin32.cfg` | pass | `CrashRecovered` (a crashed worker is replaced or the supervisor stops), `StopLeavesNoWorker` |
| orphan_worker | `MCOrphanWorker.cfg` | violation | `AtMostOneWorker`: give-up, then Stop (a no-op), then Start runs a second worker |
| restart_budget | `MCRestartBudget.cfg` | violation | `RunningHasRestartBudget`: Start does not reset `m_restartAttempts` |
| zombie_alive | `MCZombieAlive.cfg` | violation | `DeathDetectedAtNextTick`: a crash is invisible to `kill(pid,0)` |
| status_clock_steps | `MCStatusClockSteps.cfg` | pass | `FailedFetchNotServed` (an answer fetched from no worker is the disconnected default, never an earlier worker's figures), `BoundedStaleness`: with forward and backward clock steps, every answer is a fetched snapshot younger than TTL plus the total step back |
| status_clock_back | `MCStatusClockBack.cfg` | violation | `FreshRead` fails after a backward clock step |
| client_decoding | `MCClient.cfg` | pass | `RefusalReported` (a "rejected" or "stale" status reaches the miner as that refusal, never as Accepted), `FailedCallNeverAccepted` (no failed call gives a share verdict), `TemplateOnlyFromUsable` (a template only from a usable reply, with the right target) |
| client_false_share | `MCClientFalseShare.cfg` | violation | `FalseNeverAccepted`: a boolean `false` is reported Accepted |
| client_header_template | `MCClientHeaderTemplate.cfg` | violation | `HeaderTemplateUsable`: a blob under `header` gives `std::nullopt`, the fallback is dead |
| thread_leak | `MCThreadLeak.cfg` | violation | `MonitorThreadNotLeaked`: `Start()` after a give-up overwrites an undeleted `m_monitorThread` |
| manual_restart_race | `MCManualRestartRace.cfg` | violation | `AtMostOneWorker`: an unlocked `Restart()` racing `Start()` or the monitor forks a second worker |

The supervisor runs (posix_supervisor, win32_supervisor) also check
`SupervisorRefined`.

### Bounds

The supervisor runs use:

- 3 pids, which is enough for the old worker, a respawn and a second `Start`;
- `MAX_RESTART_ATTEMPTS = 2`, so both the backoff and the give-up branch are reached;
- `MAX_HTTP_FAILURES = 2`, so the threshold is reached after a below-threshold failure;
- 2 grace polls, so both the poll and the escalation happen;
- 2 `Start()` calls, so restart-after-stop and restart-after-give-up both happen.

The host-`Restart()` runs use one `Start()` and one `Restart()` call. That is
enough for the race, and keeps the counterexamples free of the orphan that a
second `Start()` makes on its own.

The client run enumerates every reply shape: 205 for `submit_share` and 1,327
for `get_share_template`. It covers each key present and absent. `status`,
`message`, `blocktemplate_blob`, `difficulty` and `target` also get a value of
the wrong JSON type. `header`, `seed_hash` and `height` do not: a wrong type
there throws in `get_str()` or `get_int64()` just as a missing key does.

The cache run uses a TTL of 5 with 12 real seconds. That is more than two TTL
periods, so both hits and expiries occur. It allows two clock steps of up to 3 s either way, so the bound of
`BoundedStaleness` is TTL + 6. TLC reaches an age of 10 = TTL + 6 - 1, so the
bound is tight on this instance, and a `<=` in the cache-hit test breaks it.

### Fairness

`FairSpec` assumes weak fairness of the monitor's steps and of the host's steps
inside `Stop()`:

- The OS schedules the monitor thread, and its sleeps end.
- A thread inside `Stop()` continues.

`Start`, `StopBegin` and worker exits are not fair, because the host and the
worker may never act.

`CHECK_DEADLOCK FALSE` is set because a given-up supervisor with no host
call is a real terminal state.

## Proofs

`P2PoolProcessManagerProofs` proves, for every value of the constants allowed
by `ConstantsAssumption`:

- `TypeCorrect`: `Spec => []TypeOK`
- `PidOwned`: `Spec => []PidNamesOwnChild`
- `MonitorOwnedInvariant`: `Spec => []MonitorOwned`
- `StopNoWorker`: `Spec => StopLeavesNoWorker`

The inductive invariant `IInv` is `TypeOK` strengthened with:

- `HttpBelowLimit`: the monitor checks or sleeps only below the failure limit. This keeps the counter in its type.
- `StopAfterJoin`: while the host kills, the monitor has ended.
- `KillTarget`: a thread that polls or reaps has a target, and after SIGKILL that target has exited.
- `SpawnAfterClear`: a respawn happens only with `m_pid = 0`.
- `EpisodeDead`: every worker of the episode other than `m_pid` is not running.

`EpisodeDead` is what makes `StopLeavesNoWorker` provable. When `Stop()` returns,
its own `KillProcess` has dealt with `m_pid`, and `EpisodeDead` covers every
earlier worker. `SpawnAfterClear` is what keeps `EpisodeDead` true across a
respawn. TLC checked `IInv` as an invariant on both platforms before the proof.
The Boolean fields of `TypeOK` are proved separately (`NextTypeBool`, with Zenon).

`P2PoolStatusCacheProofs` proves `StalenessBounded`: `Spec => []BoundedStaleness`
for every TTL and every clock bound. It assumes only
`Epoch >= TTL + BackBudget`, where `BackBudget = MaxBackStep * MaxClockSteps`.
In other words, the host starts at least that long after the epoch, which any
real clock satisfies. The inductive invariant `IInv` adds to `TypeOK`, with
`BackSoFar = MaxBackStep * clockSteps`:

- `WallAhead`: `wall - now >= Epoch - BackSoFar`. So before the first fetch,
  `wall - 0` is never below the TTL, and `m_lastUpdate = 0` never produces a
  cache hit of defaults that no fetch made.
- `LastUpdateBehind`: `wall - m_lastUpdate >= now - fetchedAt - BackSoFar`.
  A cache hit (`wall - m_lastUpdate < TTL`) therefore has a real age below
  TTL plus the steps back.
- `ServedPast`: no answer is from the future.

TLC checked `IInv` on the run's instance (1.7 million states) before the proof.
The proofs keep `BackBudget` and `BackSoFar` opaque, with a lemma
(`BackSoFarBounds`) giving their range and the effect of a clock step. This
keeps the arithmetic linear for the SMT solver.

`FreshUnderMonotoneClock` is the corollary for `MaxBackStep = 0` and
`Epoch >= TTL`: `Spec => []FreshRead`. The status_clock_back run shows that it
fails without the first assumption.

`FailedFetchDisconnected` proves `Spec => []FailedFetchNotServed` with no
assumption on the constants or the clock. Its invariant adds `CachedFromFetch`:
`m_cachedStatus` taken from a fetch that found no worker is the default
status. A cache hit then serves that default, and a refetch from no worker
produces it (`FetchDown`). The same two conjuncts are also part of `IInv`.

`P2PoolClientProofs` proves the three invariants of the client_decoding run,
for every reply in the reply sets: `RefusalReportedInvariant`
(`RefusalReported`), `ShareVerdictOnlyOnSuccess` (`FailedCallNeverAccepted`)
and `TemplateOnlyFromUsableReply` (`TemplateOnlyFromUsable`). The client has no
state across calls, so each call re-establishes the invariants, and the
invariants are inductive as they stand. The work is in the lemmas:

- `CallValueSucceeds`: `CallMethod` returns only for a sent 200 object without a string error.
- `ShareVerdictNeedsValue`: a non-`Error` verdict is reached only past `CallMethod`.
- `CallValueIff`: for an object result, `CallMethod` returns exactly when the spec counts the call a success.
- `RefusalOfReply`: `SubmitShare` answers Rejected (Stale) exactly for a successful object result with that status and a string message or none.
- `StrBlobIsObject`: a string `blocktemplate_blob` occurs only in a result object.
- `TemplateUsable`: a returned template meets `SpecTemplateUsable`, with the target the worker sent.

`SupervisorImplemented` proves `Spec => Abs!Spec`, the safety part of
`SupervisorRefined`, for all constants:

- `Init` maps to Stopped.
- `PhaseStep` shows that each action is an abstract step or leaves the phase unchanged.

It needs two more invariants, proved inductive together with `IInv` as `PhaseInv`:

- `StopCancels`: a live monitor seen outside `Stop()` has not been told to stop. Without it, an interrupted backoff would seem to end the monitor while the phase is still Running.
- `AttemptCounted`: inside `Restart()` past its counter, `m_restartAttempts > 0`. This makes a failed respawn map to Failed and not Stopped.

What stays with TLC:

- The liveness properties (`StopTerminates`, `CrashRecovered`, and the fairness part of `SupervisorRefined`). TLAPS does not handle the fairness or `ENABLED` reasoning they need.
- The violations, which are counterexamples.
- The client's `FalseNeverAccepted` and `HeaderTemplateUsable` are false of the code, and the runs show it.

## Not modelled

- The getters and `m_startTime`. They read state, or write data that no property distinguishes.
- The lost update of `m_restartAttempts++` when two `Restart()` calls race. The model makes each increment atomic.
- `ParseUrl` in the client's constructor: string splitting and a `std::stoi` port.
- Binary path lookup and argument building (string and filesystem work).
- The allocator shim in `compat/new_delete.cpp`: forwarding to malloc/free, with no state.
- libevent itself. `CheckHttpHealth` is its outcome, and a client call takes its reply as input.

## Plan for later work

1. A passing run with a host `Restart()` once its race is fixed. Today the extended model fails `AtMostOneWorker` and `StopLeavesNoWorker`.
2. A lost-update model of the unlocked counters.
3. The status fetch's field fallbacks, checked against the spec's stats schema.
