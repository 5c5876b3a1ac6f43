----------------------- MODULE P2PoolStatusCacheProofs -----------------------
(***************************************************************************)
(* Proofs about the status cache for every TTL and every bound: under any *)
(* steps of the wall clock, GetStatus() serves only fetched snapshots, at *)
(* most TTL plus the total step back old (with a clock that never runs    *)
(* backwards, younger than TTL), and an answer fetched from no worker is  *)
(* the disconnected default.                                               *)
(***************************************************************************)
EXTENDS P2PoolStatusCache, TLAPS

(* The most the wall clock can have been stepped back so far.            *)
BackSoFar == MaxBackStep * clockSteps

(* GetTime() is at least the host's start time plus the real time since,   *)
(* less what the clock was stepped back.                                   *)
WallAhead == wall - now >= Epoch - BackSoFar

(* m_lastUpdate lags GetTime() by at least the real age of the cached      *)
(* snapshot, less what the clock was stepped back; before any fetch it is  *)
(* still 0.                                                                *)
LastUpdateBehind ==
    /\ fetchedAt = Never => lastUpdate = 0
    /\ fetchedAt # Never => /\ fetchedAt <= now
                            /\ wall - lastUpdate >= now - fetchedAt - BackSoFar

(* An answer is never from the future.                                     *)
ServedPast == served.at # Never => served.at <= now

(* m_cachedStatus taken from a fetch that found no worker is the default  *)
(* P2PoolStatus() (so is the initial one).                                 *)
CachedFromFetch == fetchedFrom = "down" => cached = Disconnected

IInv == /\ TypeOK /\ WallAhead /\ LastUpdateBehind /\ ServedPast
        /\ BoundedStaleness /\ CachedFromFetch /\ FailedFetchNotServed

USE CacheAssumption

(* The steps back taken so far are at most the steps back allowed in all, *)
(* and a clock step adds at most one MaxBackStep to them.                  *)
LEMMA BackSoFarBounds ==
    ASSUME clockSteps \in 0..MaxClockSteps
    PROVE  /\ BackBudget \in Nat
           /\ BackSoFar \in Nat
           /\ BackSoFar <= BackBudget
           /\ MaxBackStep * (clockSteps + 1) = BackSoFar + MaxBackStep
  BY DEF BackSoFar, BackBudget

(* Under the assumption that the host starts at least TTL plus every       *)
(* allowed step back after the epoch.                                      *)
LEMMA InitIInv ==
    ASSUME Epoch >= TTL + BackBudget
    PROVE  Init => IInv
<1> SUFFICES ASSUME Init PROVE IInv
  OBVIOUS
<1>1. Disconnected \in Status
  BY Zenon DEF Disconnected, Status
<1>2. TypeOK
  BY <1>1 DEF Init, TypeOK, Never
<1>3. QED
  BY <1>2 DEF Init, IInv, WallAhead, LastUpdateBehind, ServedPast,
              BoundedStaleness, CachedFromFetch, FailedFetchNotServed,
              BackSoFar, Never

(* Every fetch result is a Status.                                         *)
LEMMA FetchResultsType ==
    ASSUME server \in Stats \cup {"down"}
    PROVE  FetchResults \subseteq Status
<1>1. Disconnected \in Status
  BY Zenon DEF Disconnected, Status
<1>2. [connected |-> TRUE, stats |-> "zero"] \in Status
  BY Zenon DEF Status
<1>3. CASE server \in Stats
  <2>1. [connected |-> TRUE, stats |-> server] \in Status
    BY <1>3, Zenon DEF Status
  <2>2. QED
    BY <1>1, <1>2, <2>1, <1>3 DEF FetchResults
<1>4. CASE server = "down"
  BY <1>1, <1>4 DEF FetchResults
<1>5. QED
  BY <1>3, <1>4

(* With no worker listening, every fetch gives the default status.         *)
LEMMA FetchDown ==
    ASSUME server = "down"
    PROVE  FetchResults = {Disconnected}
  BY DEF FetchResults

LEMMA NextIInv ==
    ASSUME Epoch >= TTL + BackBudget
    PROVE  IInv /\ [Next]_vars => IInv'
<1> SUFFICES ASSUME IInv, [Next]_vars PROVE IInv'
  OBVIOUS
<1>0. /\ BackBudget \in Nat
      /\ BackSoFar \in Nat
      /\ BackSoFar <= BackBudget
  BY BackSoFarBounds DEF IInv, TypeOK
<1> USE DEF IInv, TypeOK, WallAhead, LastUpdateBehind, ServedPast,
            BoundedStaleness, Never
<1>1. CASE GetStatusStep
  <2> UNCHANGED BackSoFar
    BY <1>1 DEF GetStatusStep, BackSoFar
  <2>0. UNCHANGED <<now, wall, clockSteps, server>>
    BY <1>1 DEF GetStatusStep
  <2>1. CASE wall - lastUpdate < TTL
    <3>1. fetchedAt # Never
      BY <1>0, <2>1
    <3>2. now - fetchedAt < TTL + BackBudget
      BY <1>0, <2>1, <3>1
    <3>3. /\ served' = [fetchedAt |-> fetchedAt, at |-> now,
                       source |-> fetchedFrom, status |-> cached]
          /\ UNCHANGED <<cached, lastUpdate, fetchedAt, fetchedFrom>>
      BY <1>1, <2>1 DEF GetStatusStep, GetStatus
    <3>4. QED
      BY <2>0, <3>1, <3>2, <3>3 DEF CachedFromFetch, FailedFetchNotServed
  <2>2. CASE ~(wall - lastUpdate < TTL)
    <3>1. PICK r \in FetchResults :
            /\ cached' = r
            /\ lastUpdate' = wall
            /\ fetchedAt' = now
            /\ fetchedFrom' = server
            /\ served' = [fetchedAt |-> now, at |-> now, source |-> server,
                          status |-> r]
      BY <1>1, <2>2 DEF GetStatusStep, GetStatus
    <3>2. r \in Status
      BY <3>1, FetchResultsType
    <3>3. server = "down" => r = Disconnected
      BY <3>1, FetchDown
    <3>4. QED
      BY <1>0, <2>0, <3>1, <3>2, <3>3 DEF CachedFromFetch, FailedFetchNotServed
  <2>3. QED
    BY <2>1, <2>2
<1>2. CASE RefreshStatus
  <2> UNCHANGED BackSoFar
    BY <1>2 DEF RefreshStatus, BackSoFar
  <2>1. server = "down" => cached' = Disconnected
    BY <1>2, FetchDown DEF RefreshStatus
  <2> QED
    BY <1>0, <1>2, <2>1, FetchResultsType
       DEF RefreshStatus, CachedFromFetch, FailedFetchNotServed
<1>3. CASE Tick
  <2>1. UNCHANGED BackSoFar
    BY <1>3 DEF Tick, BackSoFar
  <2>2. /\ now' = now + 1 /\ wall' = wall + 1 /\ now < MaxTime
        /\ UNCHANGED <<clockSteps, server, cached, lastUpdate, fetchedAt,
                       fetchedFrom, served>>
    BY <1>3 DEF Tick
  <2>3. TypeOK'
    BY <2>2
  <2>4. (WallAhead /\ LastUpdateBehind /\ ServedPast /\ BoundedStaleness)'
    BY <1>0, <2>1, <2>2
  <2>6. (CachedFromFetch /\ FailedFetchNotServed)'
    BY <2>2 DEF CachedFromFetch, FailedFetchNotServed
  <2>5. QED
    BY <2>3, <2>4, <2>6
<1>4. CASE ClockStep
  <2>1. BackSoFar' = BackSoFar + MaxBackStep
    BY <1>4, BackSoFarBounds DEF ClockStep, BackSoFar
  <2>2. PICK d \in (-MaxBackStep)..MaxForwardStep : wall' = wall + d
    BY <1>4 DEF ClockStep
  <2>3. UNCHANGED <<now, server, cached, lastUpdate, fetchedAt, fetchedFrom,
                    served>>
    BY <1>4 DEF ClockStep
  <2>4. TypeOK'
    BY <1>4, <2>2, <2>3 DEF ClockStep
  <2>5. WallAhead'
    BY <1>0, <2>1, <2>2, <2>3
  <2>6. LastUpdateBehind'
    BY <1>0, <2>1, <2>2, <2>3
  <2>7. (ServedPast /\ BoundedStaleness /\ CachedFromFetch
         /\ FailedFetchNotServed)'
    BY <2>3 DEF CachedFromFetch, FailedFetchNotServed
  <2>8. QED
    BY <2>4, <2>5, <2>6, <2>7
<1>5. CASE ServerChange
  <2> UNCHANGED BackSoFar
    BY <1>5 DEF ServerChange, BackSoFar
  <2> QED
    BY <1>5 DEF ServerChange, CachedFromFetch, FailedFetchNotServed
<1>6. CASE UNCHANGED vars
  <2> UNCHANGED BackSoFar
    BY <1>6 DEF vars, BackSoFar
  <2> QED
    BY <1>6 DEF vars, CachedFromFetch, FailedFetchNotServed
<1>7. QED
  BY <1>1, <1>2, <1>3, <1>4, <1>5, <1>6 DEF Next

(* Whatever steps the wall clock takes, as long as the host starts at      *)
(* least TTL plus every allowed step back after the epoch (true of any     *)
(* real clock), GetStatus() answers only with fetched snapshots, and their *)
(* age is below TTL plus the total the clock was stepped back.             *)
THEOREM StalenessBounded ==
    ASSUME Epoch >= TTL + BackBudget
    PROVE  Spec => []BoundedStaleness
<1>1. Init => IInv
  BY InitIInv
<1>2. IInv /\ [Next]_vars => IInv'
  BY NextIInv
<1>3. IInv => BoundedStaleness
  BY DEF IInv
<1>4. QED
  BY <1>1, <1>2, <1>3, PTL DEF Spec

(* With a wall clock that only runs forward (NTP slews, or steps it ahead) *)
(* and a host started after 1970-01-01T00:00:05, every answer of          *)
(* GetStatus() comes from a fetch less than CACHE_TTL_SECONDS old: the    *)
(* check now - m_lastUpdate < CACHE_TTL_SECONDS then bounds the real age. *)
THEOREM FreshUnderMonotoneClock ==
    ASSUME MaxBackStep = 0, Epoch >= TTL
    PROVE  Spec => []FreshRead
<1>1. Epoch >= TTL + BackBudget /\ BackBudget = 0
  BY DEF BackBudget
<1>2. BoundedStaleness => FreshRead
  BY <1>1 DEF BoundedStaleness, FreshRead
<1>3. QED
  BY <1>1, <1>2, StalenessBounded, PTL

(* Under any clock and any constants, a GetStatus() answer computed from a *)
(* fetch that found no worker is the disconnected default: neither a cache *)
(* hit nor a refetch hands out the figures of an earlier worker.           *)
THEOREM FailedFetchDisconnected == Spec => []FailedFetchNotServed
<1> DEFINE FInv == CachedFromFetch /\ FailedFetchNotServed
<1>1. Init => FInv
  BY DEF Init, CachedFromFetch, FailedFetchNotServed
<1>2. FInv /\ [Next]_vars => FInv'
  <2> SUFFICES ASSUME FInv, [Next]_vars PROVE FInv'
    OBVIOUS
  <2> USE DEF CachedFromFetch, FailedFetchNotServed
  <2>1. CASE GetStatusStep
    <3>1. CASE wall - lastUpdate < TTL
      BY <2>1, <3>1 DEF GetStatusStep, GetStatus
    <3>2. CASE ~(wall - lastUpdate < TTL)
      <4>1. PICK r \in FetchResults :
              /\ cached' = r
              /\ fetchedFrom' = server
              /\ served' = [fetchedAt |-> now, at |-> now, source |-> server,
                            status |-> r]
        BY <2>1, <3>2 DEF GetStatusStep, GetStatus
      <4>2. server = "down" => r = Disconnected
        BY <4>1, FetchDown
      <4>3. QED
        BY <4>1, <4>2
    <3>3. QED
      BY <3>1, <3>2
  <2>2. CASE RefreshStatus
    BY <2>2, FetchDown DEF RefreshStatus
  <2>3. CASE Tick \/ ClockStep \/ ServerChange \/ UNCHANGED vars
    BY <2>3 DEF Tick, ClockStep, ServerChange, vars
  <2>4. QED
    BY <2>1, <2>2, <2>3 DEF Next
<1>3. QED
  BY <1>1, <1>2, PTL DEF Spec

====
