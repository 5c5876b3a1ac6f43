-------------------------- MODULE P2PoolStatusCache --------------------------
(***************************************************************************)
(* P2PoolStatusMonitor (src/src/p2pool_status.{h,cpp}): a read-through     *)
(* cache of the worker's /stats snapshot, kept for CACHE_TTL_SECONDS.      *)
(*                                                                         *)
(* Every public call holds m_mutex for its whole length, FetchStatus()     *)
(* included, so each call is one atomic step and the callers' threads need *)
(* no model of their own.  The freshness test compares GetTime() values:   *)
(* the wall clock, which an NTP step or an operator can move backwards or  *)
(* forwards.  The model keeps two clocks: now, the real (monotonic) time,  *)
(* and wall, what GetTime() returns.  A fetched snapshot is abstracted to  *)
(* the stats value the worker served (a model value of Stats) or "zero",   *)
(* the P2PoolStatus() defaults; which JSON keys carried which field is     *)
(* left out.                                                               *)
(***************************************************************************)
EXTENDS Integers

CONSTANTS
    Stats,            \* stats documents the worker may serve
    TTL,              \* CACHE_TTL_SECONDS
    Epoch,            \* GetTime() when the host starts
    MaxTime,          \* bound on real seconds
    MaxForwardStep,   \* largest forward step of the wall clock
    MaxBackStep,      \* largest backward step of the wall clock
    MaxClockSteps     \* bound on the number of clock steps

ASSUME CacheAssumption ==
    /\ TTL \in Nat \ {0}
    /\ Epoch \in Nat
    /\ MaxTime \in Nat
    /\ MaxForwardStep \in Nat
    /\ MaxBackStep \in Nat
    /\ MaxClockSteps \in Nat
    /\ "zero" \notin Stats
    /\ "down" \notin Stats

VARIABLES
    now,          \* real seconds since the host started
    wall,         \* GetTime()
    clockSteps,   \* clock steps so far (bounded)
    server,       \* what the worker's /stats serves: "down" or a document
    cached,       \* m_cachedStatus: [connected, stats]
    lastUpdate,   \* m_lastUpdate
    fetchedAt,    \* history: real time of the fetch behind m_cachedStatus
    fetchedFrom,  \* history: what the worker served at that fetch
    served        \* history: the last GetStatus() answer, its real time,
                  \* and the real time and worker state of the fetch it
                  \* came from (Never before any)

vars == <<now, wall, clockSteps, server, cached, lastUpdate, fetchedAt,
          fetchedFrom, served>>

Status == [connected : BOOLEAN, stats : Stats \cup {"zero"}]

(* P2PoolStatus(): connected = false and every numeric field zero.        *)
Disconnected == [connected |-> FALSE, stats |-> "zero"]

(* A fetch that is not yet made: m_lastUpdate = 0 stands for it.           *)
Never == -1

-----------------------------------------------------------------------------
(* What FetchStatus() may return.  With no worker listening, the           *)
(* connection fails or the request times out: the default status.  With a  *)
(* worker, the request may still fail (timeout, a non-200 answer, an empty *)
(* or unparsable body): the default status; a 200 answer that parses gives *)
(* connected = true with the worker's figures, or with no figure at all    *)
(* when the JSON is not an object.                                         *)
FetchResults ==
    IF server = "down"
    THEN {Disconnected}
    ELSE {Disconnected, [connected |-> TRUE, stats |-> server],
          [connected |-> TRUE, stats |-> "zero"]}

Init ==
    /\ now = 0
    /\ wall = Epoch
    /\ clockSteps = 0
    /\ server \in Stats \cup {"down"}
    /\ cached = Disconnected
    /\ lastUpdate = 0
    /\ fetchedAt = Never
    /\ fetchedFrom = "down"
    /\ served = [fetchedAt |-> Never, at |-> Never, source |-> "down",
                 status |-> Disconnected]

-----------------------------------------------------------------------------
(* GetStatus() that keeps the last snapshot when a fetch fails.           *)
GetStatusKeepOnFailure ==
    IF wall - lastUpdate < TTL
    THEN /\ served' = [fetchedAt |-> fetchedAt, at |-> now,
                       source |-> fetchedFrom, status |-> cached]
         /\ UNCHANGED <<cached, lastUpdate, fetchedAt, fetchedFrom>>
    ELSE \E s \in FetchResults :
         /\ cached' = IF s.connected THEN s ELSE cached
         /\ lastUpdate' = wall
         /\ fetchedAt' = now
         /\ fetchedFrom' = server
         /\ served' = [fetchedAt |-> now, at |-> now, source |-> server,
                       status |-> cached']

(* GetStatus() that also serves a snapshot exactly TTL seconds old.        *)
GetStatusUpToTTL ==
    IF wall - lastUpdate <= TTL
    THEN /\ served' = [fetchedAt |-> fetchedAt, at |-> now,
                       source |-> fetchedFrom, status |-> cached]
         /\ UNCHANGED <<cached, lastUpdate, fetchedAt, fetchedFrom>>
    ELSE \E s \in FetchResults :
         /\ cached' = s
         /\ lastUpdate' = wall
         /\ fetchedAt' = now
         /\ fetchedFrom' = server
         /\ served' = [fetchedAt |-> now, at |-> now, source |-> server,
                       status |-> s]

(* GetStatus() (and IsReady(), which returns its connected field): serve   *)
(* m_cachedStatus while now - m_lastUpdate < CACHE_TTL_SECONDS, else fetch *)
(* and store the new snapshot with m_lastUpdate = now.                     *)
GetStatus ==
    IF wall - lastUpdate < TTL
    THEN /\ served' = [fetchedAt |-> fetchedAt, at |-> now,
                       source |-> fetchedFrom, status |-> cached]
         /\ UNCHANGED <<cached, lastUpdate, fetchedAt, fetchedFrom>>
    ELSE \E s \in FetchResults :
         /\ cached' = s
         /\ lastUpdate' = wall
         /\ fetchedAt' = now
         /\ fetchedFrom' = server
         /\ served' = [fetchedAt |-> now, at |-> now, source |-> server,
                       status |-> s]

GetStatusStep ==
    /\ GetStatus
    /\ UNCHANGED <<now, wall, clockSteps, server>>

(* RefreshStatus(): fetch unconditionally; m_lastUpdate = GetTime().       *)
RefreshStatus ==
    /\ cached' \in FetchResults
    /\ lastUpdate' = wall
    /\ fetchedAt' = now
    /\ fetchedFrom' = server
    /\ UNCHANGED <<now, wall, clockSteps, server, served>>

-----------------------------------------------------------------------------
(* The environment: a second passes, the wall clock is stepped, and the    *)
(* worker comes, goes or changes its figures.                              *)
Tick ==
    /\ now < MaxTime
    /\ now' = now + 1
    /\ wall' = wall + 1
    /\ UNCHANGED <<clockSteps, server, cached, lastUpdate, fetchedAt,
                   fetchedFrom, served>>

ClockStep ==
    /\ clockSteps < MaxClockSteps
    /\ \E d \in (-MaxBackStep)..MaxForwardStep :
          /\ d # 0
          /\ wall' = wall + d
    /\ clockSteps' = clockSteps + 1
    /\ UNCHANGED <<now, server, cached, lastUpdate, fetchedAt, fetchedFrom,
                   served>>

ServerChange ==
    /\ server' \in (Stats \cup {"down"}) \ {server}
    /\ UNCHANGED <<now, wall, clockSteps, cached, lastUpdate, fetchedAt,
                   fetchedFrom, served>>

Next ==
    \/ GetStatusStep
    \/ RefreshStatus
    \/ Tick
    \/ ClockStep
    \/ ServerChange

Spec == Init /\ [][Next]_vars

-----------------------------------------------------------------------------
TypeOK ==
    /\ now \in 0..MaxTime
    /\ wall \in Int
    /\ clockSteps \in 0..MaxClockSteps
    /\ server \in Stats \cup {"down"}
    /\ cached \in Status
    /\ lastUpdate \in Int
    /\ fetchedAt \in {Never} \cup 0..MaxTime
    /\ fetchedFrom \in Stats \cup {"down"}
    /\ served \in [fetchedAt : {Never} \cup 0..MaxTime,
                  at : {Never} \cup 0..MaxTime,
                  source : Stats \cup {"down"}, status : Status]

(* The status cache's promise (CACHE_TTL_SECONDS, "cached for 5 seconds"): *)
(* every answer of GetStatus() comes from a fetch made less than TTL real  *)
(* seconds before it, and never from the defaults no fetch produced.  The  *)
(* code measures the age on the wall clock, so this can only hold while    *)
(* that clock does not run backwards.                                      *)
FreshRead ==
    served.at # Never =>
        /\ served.fetchedAt # Never
        /\ served.at - served.fetchedAt < TTL

(* An answer of GetStatus() computed from a fetch that found no worker    *)
(* says disconnected and carries no figures: the cache never keeps the     *)
(* statistics of an earlier worker over a failed fetch, so IsReady() and   *)
(* the RPC report a dead worker once the snapshot taken after its death    *)
(* is served, however long ago the last good fetch was.                   *)
FailedFetchNotServed ==
    served.at # Never /\ served.source = "down" =>
        served.status = Disconnected

(* The most the wall clock can be stepped back in all.                     *)
BackBudget == MaxBackStep * MaxClockSteps

(* What the cache still promises when the wall clock may be stepped back   *)
(* (an NTP correction, an operator): every answer of GetStatus() comes     *)
(* from a fetch, never from the defaults no fetch produced, and is younger *)
(* than TTL plus the most the clock can have been stepped back in all.     *)
(* The cache-hit test now - m_lastUpdate < CACHE_TTL_SECONDS misjudges the *)
(* age by exactly the steps taken since the fetch.                         *)
BoundedStaleness ==
    served.at # Never =>
        /\ served.fetchedAt # Never
        /\ served.at - served.fetchedAt < TTL + BackBudget

====
