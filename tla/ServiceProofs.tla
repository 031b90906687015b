---------------------------- MODULE ServiceProofs ----------------------------
(***************************************************************************)
(* What holds of the services around the hubs for every number of threads, *)
(* processes and stocks: the home snapshot, the breaker of the REST calls, *)
(* the cache of preferences, the refresh of the prices, the caches of the  *)
(* program ranking, the limit-up watch, the degradation gate and the start *)
(* of a process; and of the harness that runs one of them at a time.       *)
(***************************************************************************)
EXTENDS MCServices, ClientHubProofs, FiniteSetTheorems, WellFoundedInduction, TLAPS

-----------------------------------------------------------------------------
(* The home snapshot: whoever builds is the one whose event is in flight.  *)

Claimed == \A w \in Workers : at[w] # "idle" => inflight = w

HomeInv == at \in [Workers -> {"idle", "build", "put", "redis", "release"}] /\ Claimed

LEMMA InitClaimed == HomeInit => HomeInv
  BY DEF HomeInit, HomeInv, Claimed

LEMMA TryClaimStep ==
    ASSUME HomeInv, NEW w \in Workers, TryClaim(w)
    PROVE  HomeInv'
  BY HomeAssumption DEF HomeInv, Claimed, TryClaim

LEMMA RefreshAsyncStep ==
    ASSUME HomeInv, RefreshAsync
    PROVE  HomeInv'
  <1>1. CASE \E w \in Workers : TryClaim(w)
    BY <1>1, TryClaimStep
  <1>2. CASE UNCHANGED <<inflight, at>>
    BY <1>2 DEF HomeInv, Claimed
  <1> QED
    BY <1>1, <1>2 DEF RefreshAsync

LEMMA WorkStepClaimed ==
    ASSUME HomeInv, NEW w \in Workers, WorkStep(w)
    PROVE  HomeInv'
  <1>1. CASE Build(w)
    BY <1>1 DEF HomeInv, Claimed, Build
  <1>2. CASE PersistMem(w)
    BY <1>2 DEF HomeInv, Claimed, PersistMem
  <1>3. CASE PersistRedis(w)
    BY <1>3 DEF HomeInv, Claimed, PersistRedis
  <1>4. CASE Release(w)
    BY <1>4 DEF HomeInv, Claimed, Release
  <1> QED
    BY <1>1, <1>2, <1>3, <1>4 DEF WorkStep

LEMMA GetStepClaimed ==
    ASSUME HomeInv, NEW g \in Getters, GetStep(g)
    PROVE  HomeInv'
  <1>1. CASE GetMem(g)
    <2>1. CASE RefreshAsync
      BY <2>1, RefreshAsyncStep
    <2>2. CASE UNCHANGED <<inflight, at>>
      BY <2>2 DEF HomeInv, Claimed
    <2> QED
      BY <1>1, <2>1, <2>2 DEF GetMem
  <1>2. CASE GetMiss(g)
    BY <1>2, RefreshAsyncStep DEF GetMiss
  <1>3. CASE GetRedis(g) \/ GetPut(g) \/ GetLook(g) \/ GetWait(g)
    BY <1>3 DEF GetRedis, GetPut, GetLook, GetWait, HomeInv, Claimed
  <1> QED
    BY <1>1, <1>2, <1>3 DEF GetStep

LEMMA NextClaimed ==
    ASSUME HomeInv, [HomeNext]_homeVars
    PROVE  HomeInv'
  <1>1. CASE SourcesChange \/ MemAges \/ RedisExpires
    BY <1>1 DEF SourcesChange, MemAges, RedisExpires, HomeInv, Claimed
  <1>2. CASE \E w \in Workers : RefreshSync(w)
    BY <1>2, TryClaimStep DEF RefreshSync
  <1>3. CASE \E w \in Workers : WorkStep(w)
    BY <1>3, WorkStepClaimed
  <1>4. CASE \E g \in Getters : GetStep(g)
    BY <1>4, GetStepClaimed
  <1>5. CASE UNCHANGED homeVars
    BY <1>5 DEF homeVars, HomeInv, Claimed
  <1> QED
    BY <1>1, <1>2, <1>3, <1>4, <1>5 DEF HomeNext, WorkStep, GetStep

\* At most one thread is between its claim and its release, however many
\* refreshers and requests there are (part08 68-84): payloads are persisted in
\* the order in which they were built.
THEOREM OneRefreshHolds == HomeSpec => []OneRefresh
  <1>1. HomeInv => OneRefresh
    BY DEF HomeInv, Claimed, OneRefresh
  <1> QED
    BY <1>1, InitClaimed, NextClaimed, PTL DEF HomeSpec

LEMMA InitHome == HomeInit => HomeTypeOK
  BY HomeAssumption DEF HomeInit, HomeTypeOK, Payload, Versions

LEMMA HomeWorks ==
    ASSUME HomeTypeOK, NEW w \in Workers, RefreshSync(w) \/ WorkStep(w)
    PROVE  HomeTypeOK'
  <1>1. CASE RefreshSync(w)
    BY <1>1 DEF HomeTypeOK, RefreshSync, TryClaim
  <1>2. CASE Build(w)
    BY <1>2, HomeAssumption DEF HomeTypeOK, Build, Payload, Versions
  <1>3. CASE PersistMem(w) \/ PersistRedis(w)
    BY <1>3 DEF HomeTypeOK, PersistMem, PersistRedis
  <1>4. CASE Release(w)
    BY <1>4 DEF HomeTypeOK, Release, Payload
  <1> QED
    BY <1>1, <1>2, <1>3, <1>4 DEF WorkStep

LEMMA HomeAsks ==
    ASSUME HomeTypeOK, NEW g \in Getters, GetStep(g)
    PROVE  HomeTypeOK'
  <1>1. ASSUME RefreshAsync
        PROVE  /\ inflight' \in Workers \cup {Nothing}
               /\ at' \in [Workers -> {"idle", "build", "put", "redis", "release"}]
    BY <1>1 DEF RefreshAsync, TryClaim, HomeTypeOK
  <1>2. CASE GetMem(g)
    BY <1>1, <1>2 DEF HomeTypeOK, GetMem, Goto
  <1>3. CASE GetMiss(g)
    BY <1>1, <1>3 DEF HomeTypeOK, GetMiss, Goto
  <1>4. CASE GetRedis(g) \/ GetPut(g)
    BY <1>4 DEF HomeTypeOK, GetRedis, GetPut, Goto, Payload
  <1>5. CASE GetLook(g) \/ GetWait(g)
    BY <1>5 DEF HomeTypeOK, GetLook, GetWait, Goto
  <1> QED
    BY <1>2, <1>3, <1>4, <1>5 DEF GetStep

LEMMA NextHome ==
    ASSUME HomeTypeOK, [HomeNext]_homeVars
    PROVE  HomeTypeOK'
  <1>1. CASE SourcesChange \/ MemAges \/ RedisExpires
    BY <1>1, HomeAssumption
    DEF SourcesChange, MemAges, RedisExpires, HomeTypeOK, Payload, Versions
  <1>2. CASE \E w \in Workers : RefreshSync(w) \/ WorkStep(w)
    BY <1>2, HomeWorks
  <1>3. CASE \E g \in Getters : GetStep(g)
    BY <1>3, HomeAsks
  <1>4. CASE UNCHANGED homeVars
    BY <1>4 DEF homeVars, HomeTypeOK
  <1> QED
    BY <1>1, <1>2, <1>3, <1>4 DEF HomeNext, WorkStep, GetStep

\* The types of the two caches, of the workers and of the requests.
THEOREM HomeTyped == HomeSpec => []HomeTypeOK
  BY InitHome, NextHome, PTL DEF HomeSpec

-----------------------------------------------------------------------------
(* The breaker: the time since a failure and the time left to wait add up  *)
(* to the delay, until the breaker recovers.                               *)

BackedOff == failCount > 0 => wait + since >= Delay[failCount]

BreakerInv == BreakerTypeOK /\ BackedOff

LEMMA InitBackedOff == BreakerInit => BreakerInv
  BY BreakerAssumption DEF BreakerInit, BreakerInv, BreakerTypeOK, BackedOff

LEMMA DelayType == \A n \in 1 .. CapFails : Delay[n] \in Nat /\ Delay[n] <= Cap
  BY BreakerAssumption

LEMMA TimePassesStep ==
    ASSUME BreakerInv, TimePasses
    PROVE  BreakerInv'
  <1>1. BreakerTypeOK'
    BY BreakerAssumption DEF BreakerInv, BreakerTypeOK, TimePasses
  <1>2. BackedOff'
    <2> SUFFICES ASSUME failCount > 0
                 PROVE  wait' + since' >= Delay[failCount]
      BY DEF TimePasses, BackedOff
    <2>1. failCount \in 1 .. CapFails /\ wait \in Nat /\ since \in Nat /\ since <= Cap /\ Cap \in Nat
      BY BreakerAssumption DEF BreakerInv, BreakerTypeOK
    <2>2. Delay[failCount] \in Nat /\ Delay[failCount] <= Cap
      BY <2>1, DelayType
    <2>3. wait + since >= Delay[failCount]
      BY DEF BreakerInv, BackedOff
    <2> QED
      BY <2>1, <2>2, <2>3 DEF TimePasses
  <1> QED
    BY <1>1, <1>2 DEF BreakerInv

LEMMA MarkFailureStep ==
    ASSUME BreakerInv, NEW c \in Fetchers, MarkFailure(c)
    PROVE  BreakerInv'
  <1>1. failCount' \in 1 .. CapFails
    BY BreakerAssumption DEF BreakerInv, BreakerTypeOK, MarkFailure
  <1>2. Delay[failCount'] \in Nat /\ Delay[failCount'] <= Cap
    BY <1>1, DelayType
  <1>3. PICK j \in 0 .. Jitter : wait' = Delay[failCount'] + j
    BY DEF MarkFailure
  <1>4. wait' \in 0 .. Cap + Jitter /\ wait' >= Delay[failCount']
    BY <1>2, <1>3, BreakerAssumption
  <1> QED
    BY <1>1, <1>2, <1>4, BreakerAssumption
    DEF BreakerInv, BreakerTypeOK, BackedOff, MarkFailure

LEMMA MarkSuccessStep ==
    ASSUME BreakerInv, NEW c \in Fetchers, MarkSuccess(c)
    PROVE  BreakerInv'
  <1>1. CASE failCount' = 0
    BY <1>1, BreakerAssumption DEF BreakerInv, BreakerTypeOK, BackedOff, MarkSuccess
  <1>2. CASE failCount' # 0
    <2>1. UNCHANGED <<failCount, wait, since, good>> /\ streak' = streak + 1
      BY <1>2 DEF MarkSuccess
    <2>2. streak + 1 < Threshold
      BY <1>2, BreakerAssumption DEF MarkSuccess, BreakerInv, BreakerTypeOK
    <2> QED
      BY <2>1, <2>2, BreakerAssumption DEF BreakerInv, BreakerTypeOK, BackedOff, MarkSuccess
  <1> QED
    BY <1>1, <1>2

LEMMA NextBackedOff ==
    ASSUME BreakerInv, [BreakerNext]_breakerVars
    PROVE  BreakerInv'
  <1>1. CASE EndpointChanges
    BY <1>1 DEF EndpointChanges, BreakerInv, BreakerTypeOK, BackedOff
  <1>2. CASE TimePasses
    BY <1>2, TimePassesStep
  <1>3. CASE \E c \in Fetchers : AllowCall(c) \/ SoftError(c)
    BY <1>3 DEF AllowCall, SoftError, BreakerInv, BreakerTypeOK, BackedOff
  <1>4. CASE \E c \in Fetchers : MarkSuccess(c)
    BY <1>4, MarkSuccessStep
  <1>5. CASE \E c \in Fetchers : MarkFailure(c)
    BY <1>5, MarkFailureStep
  <1>6. CASE UNCHANGED breakerVars
    BY <1>6 DEF breakerVars, BreakerInv, BreakerTypeOK, BackedOff
  <1> QED
    BY <1>1, <1>2, <1>3, <1>4, <1>5, <1>6 DEF BreakerNext

\* A step that begins a call leaves the delay behind it.
LEMMA CallWaits ==
    ASSUME BreakerInv, BreakerNext, fetching' \ fetching # {}, failCount > 0
    PROVE  since >= Delay[failCount]
  <1>1. PICK c \in Fetchers : AllowCall(c)
    BY DEF BreakerNext, EndpointChanges, TimePasses, MarkSuccess, MarkFailure, SoftError
  <1>2. wait = 0 /\ wait + since >= Delay[failCount] /\ since \in Nat
    BY <1>1 DEF AllowCall, BreakerInv, BackedOff, BreakerTypeOK
  <1> QED
    BY <1>2

\* The back-off is kept for every schedule of delays, every jitter and any
\* number of threads whose calls overlap failures and recoveries (part01
\* 1418-1487).
THEOREM BackoffHeld == BreakerSpec => BackoffHolds
  <1>1. BreakerInv /\ [BreakerNext]_breakerVars =>
            [fetching' \ fetching # {} /\ failCount > 0 => since >= Delay[failCount]]_breakerVars
    BY CallWaits
  <1> QED
    BY <1>1, InitBackedOff, NextBackedOff, PTL DEF BreakerSpec, BackoffHolds

\* The types of the breaker, among them that the streak stays below the
\* number of successes that makes it recover.
THEOREM BreakerTyped == BreakerSpec => []BreakerTypeOK
  <1>1. BreakerInv => BreakerTypeOK
    BY DEF BreakerInv
  <1> QED
    BY <1>1, InitBackedOff, NextBackedOff, PTL DEF BreakerSpec

-----------------------------------------------------------------------------
(* The preferences: what a process holds is not older than it looks.       *)

\* What is in use was replaced no longer ago than it was asked for.
NotOlder(e) == e.is # row => replaced[e.is] <= e.age

PrefInv ==
    /\ PrefTypeOK
    /\ \A n \in Prefs : n >= row => replaced[n] = 0
    /\ \A p \in Processes : NotOlder(cache[p])
    /\ \A r \in Readers : reader[r].at = "fill" => NotOlder(reader[r])

LEMMA OlderType ==
    /\ 0 \in Ages /\ Ttl \in Ages
    /\ \A a \in Ages : Older(a) \in Ages
    /\ \A a, b \in Ages : a <= b => Older(a) <= Older(b)
  BY PrefAssumption DEF Ages, Older

LEMMA InitPref == PrefInit => PrefInv
  BY PrefAssumption, OlderType
  DEF PrefInit, PrefInv, PrefTypeOK, NotOlder, NoEntry, AtRest, Prefs, Ages

LEMMA TickPref ==
    ASSUME PrefInv, Tick
    PROVE  PrefInv'
  <1>1. row \in Prefs /\ row' = row /\ evicting' = evicting
    BY DEF PrefInv, PrefTypeOK, Tick
  <1>2. ASSUME NEW n \in Prefs
        PROVE  /\ replaced'[n] \in Ages
               /\ n >= row => replaced'[n] = 0
               /\ n # row => replaced'[n] = Older(replaced[n]) \/ replaced'[n] = 0
    <2>1. n \in Nat /\ row \in Nat /\ replaced[n] \in Ages
      BY <1>1, PrefAssumption DEF Prefs, PrefInv, PrefTypeOK
    <2>2. replaced'[n] = IF n < row THEN Older(replaced[n]) ELSE 0
      BY DEF Tick
    <2> QED
      BY <2>1, <2>2, OlderType
  <1>3. ASSUME NEW age \in Ages, NEW is \in Prefs, is # row => replaced[is] <= age
        PROVE  is # row => replaced'[is] <= Older(age)
    <2>1. replaced[is] \in Ages /\ Older(age) \in Ages
      BY OlderType DEF PrefInv, PrefTypeOK
    <2>2. is # row => Older(replaced[is]) <= Older(age)
      BY <1>3, <2>1, OlderType
    <2>3. 0 <= Older(age)
      BY <2>1, PrefAssumption DEF Ages
    <2> QED
      BY <1>2, <2>2, <2>3
  <1>4. ASSUME NEW p \in Processes
        PROVE  /\ cache'[p] \in [age : Ages, is : Prefs]
               /\ NotOlder(cache[p])'
    <2>1. cache[p].age \in Ages /\ cache[p].is \in Prefs /\ cache[p] \in [age : Ages, is : Prefs]
      BY DEF PrefInv, PrefTypeOK
    <2>2. cache'[p] = [age |-> Older(cache[p].age), is |-> cache[p].is]
      BY <2>1 DEF Tick
    <2>3. cache[p].is # row => replaced[cache[p].is] <= cache[p].age
      BY DEF PrefInv, NotOlder
    <2> QED
      BY <1>1, <1>3, <2>1, <2>2, <2>3, OlderType DEF NotOlder
  <1>5. ASSUME NEW r \in Readers
        PROVE  /\ reader'[r] \in [at : {"idle", "query", "fill"}, age : Ages, is : Prefs]
               /\ reader'[r].at = "fill" => NotOlder(reader[r])'
    <2>1. /\ reader[r] \in [at : {"idle", "query", "fill"}, age : Ages, is : Prefs]
          /\ reader[r].age \in Ages /\ reader[r].is \in Prefs
      BY DEF PrefInv, PrefTypeOK
    <2>2. CASE reader[r].at = "idle"
      BY <2>2, OlderType, PrefAssumption DEF Tick, AtRest, Prefs
    <2>3. CASE reader[r].at # "idle"
      <3>1. reader'[r] = [at |-> reader[r].at, age |-> Older(reader[r].age), is |-> reader[r].is]
        BY <2>1, <2>3 DEF Tick
      <3>2. reader[r].at = "fill" => (reader[r].is # row => replaced[reader[r].is] <= reader[r].age)
        BY DEF PrefInv, NotOlder
      <3> QED
        BY <1>1, <1>3, <2>1, <3>1, <3>2, OlderType DEF NotOlder
    <2> QED
      BY <2>2, <2>3
  <1> QED
    BY <1>1, <1>2, <1>4, <1>5 DEF PrefInv, PrefTypeOK, Tick

LEMMA ReadPref ==
    ASSUME PrefInv, NEW r \in Readers, GetPref(r) \/ Query(r)
    PROVE  PrefInv'
  <1>1. ASSUME NEW s \in Readers
        PROVE  /\ reader'[s] \in [at : {"idle", "query", "fill"}, age : Ages, is : Prefs]
               /\ reader'[s].at = "fill" => NotOlder(reader[s])'
    <2>1. /\ reader[s] \in [at : {"idle", "query", "fill"}, age : Ages, is : Prefs]
          /\ row \in Prefs /\ row' = row /\ replaced' = replaced
      BY DEF PrefInv, PrefTypeOK, GetPref, Query
    <2>2. CASE reader'[s] = reader[s]
      BY <2>1, <2>2 DEF PrefInv, NotOlder
    <2>3. CASE reader'[s] \in {[at |-> "query", age |-> 0, is |-> 0], AtRest}
      <3>1. 0 \in Ages /\ 0 \in Prefs
        BY OlderType, PrefAssumption DEF Prefs
      <3> QED
        BY <2>3, <3>1 DEF AtRest
    <2>4. CASE reader'[s] = [reader[s] EXCEPT !.at = "fill", !.is = row]
      <3>1. reader'[s] = [at |-> "fill", age |-> reader[s].age, is |-> row]
        BY <2>1, <2>4
      <3> QED
        BY <2>1, <3>1 DEF NotOlder
    <2>5. reader'[s] # reader[s] => s = r
      BY DEF GetPref, Query, PrefInv, PrefTypeOK
    <2>6. CASE s = r /\ GetPref(r)
      BY <2>3, <2>6 DEF GetPref, PrefInv, PrefTypeOK
    <2>7. CASE s = r /\ Query(r)
      <3>1. reader'[r] = [reader[r] EXCEPT !.at = "fill", !.is = row] \/ reader'[r] = AtRest
        BY <2>7 DEF Query, PrefInv, PrefTypeOK
      <3> QED
        BY <2>3, <2>4, <2>7, <3>1
    <2> QED
      BY <2>2, <2>5, <2>6, <2>7
  <1>2. reader' \in [Readers -> [at : {"idle", "query", "fill"}, age : Ages, is : Prefs]]
    BY <1>1 DEF GetPref, Query, PrefInv, PrefTypeOK
  <1> QED
    BY <1>1, <1>2 DEF PrefInv, PrefTypeOK, NotOlder, GetPref, Query

LEMMA FillPref ==
    ASSUME PrefInv, NEW r \in Readers, Fill(r)
    PROVE  PrefInv'
  <1>1. /\ reader[r] \in [at : {"idle", "query", "fill"}, age : Ages, is : Prefs]
        /\ reader[r].at = "fill" /\ NotOlder(reader[r]) /\ ProcessOf[r] \in Processes
    BY PrefAssumption DEF PrefInv, PrefTypeOK, Fill
  <1>2. ASSUME NEW p \in Processes
        PROVE  cache'[p] \in [age : Ages, is : Prefs] /\ NotOlder(cache[p])'
    BY <1>1 DEF PrefInv, PrefTypeOK, NotOlder, Fill
  <1>3. AtRest \in [at : {"idle", "query", "fill"}, age : Ages, is : Prefs] /\ AtRest.at # "fill"
    BY OlderType, PrefAssumption DEF AtRest, Prefs
  <1>4. ASSUME NEW s \in Readers
        PROVE  /\ reader'[s] \in [at : {"idle", "query", "fill"}, age : Ages, is : Prefs]
               /\ reader'[s].at = "fill" => NotOlder(reader[s])'
    BY <1>3 DEF PrefInv, PrefTypeOK, NotOlder, Fill
  <1> QED
    BY <1>2, <1>4 DEF PrefInv, PrefTypeOK, Fill

LEMMA UpsertPref ==
    ASSUME PrefInv, NEW p \in Processes, Upsert(p)
    PROVE  PrefInv'
  <1>1. row \in Nat /\ row' \in Prefs /\ row' = row + 1 /\ replaced' = replaced
    BY PrefAssumption DEF PrefInv, PrefTypeOK, Prefs, Upsert
  <1>2. replaced[row] = 0
    BY DEF PrefInv, PrefTypeOK, Prefs
  <1>3. ASSUME NEW e, e.age \in Ages, NotOlder(e)
        PROVE  e.is # row' => replaced'[e.is] <= e.age
    BY <1>1, <1>2, <1>3, PrefAssumption DEF NotOlder, Ages
  <1>4. \A q \in Processes : NotOlder(cache[q])'
    BY <1>3 DEF PrefInv, PrefTypeOK, NotOlder, Upsert
  <1>5. \A r \in Readers : reader'[r].at = "fill" => NotOlder(reader[r])'
    BY <1>3 DEF PrefInv, PrefTypeOK, NotOlder, Upsert
  <1>6. \A n \in Prefs : n >= row' => replaced'[n] = 0
    BY <1>1 DEF PrefInv, Prefs
  <1> QED
    BY <1>1, <1>4, <1>5, <1>6 DEF PrefInv, PrefTypeOK, Upsert

LEMMA EvictPref ==
    ASSUME PrefInv, NEW p \in Processes, Evict(p)
    PROVE  PrefInv'
  <1>1. NoEntry \in [age : Ages, is : Prefs] /\ NoEntry.age = Ttl /\ NoEntry.is = 0 /\ 0 \in Prefs
    BY OlderType, PrefAssumption DEF NoEntry, Prefs
  <1>2. ASSUME NEW q \in Processes
        PROVE  cache'[q] \in [age : Ages, is : Prefs] /\ NotOlder(cache[q])'
    <2>1. CASE cache'[q] = cache[q]
      BY <2>1 DEF Evict, PrefInv, PrefTypeOK, NotOlder
    <2>2. CASE cache'[q] = NoEntry
      <3>1. replaced[0] <= Ttl
        BY <1>1, PrefAssumption DEF PrefInv, PrefTypeOK, Ages
      <3> QED
        BY <1>1, <2>2, <3>1 DEF Evict, NotOlder
    <2> QED
      BY <2>1, <2>2 DEF Evict, PrefInv, PrefTypeOK
  <1> QED
    BY <1>2 DEF Evict, PrefInv, PrefTypeOK, NotOlder

LEMMA NextPref ==
    ASSUME PrefInv, [PrefNext]_prefVars
    PROVE  PrefInv'
  <1>1. CASE Tick
    BY <1>1, TickPref
  <1>2. CASE \E r \in Readers : GetPref(r) \/ Query(r)
    BY <1>2, ReadPref
  <1>3. CASE \E r \in Readers : Fill(r)
    BY <1>3, FillPref
  <1>4. CASE \E p \in Processes : Upsert(p)
    BY <1>4, UpsertPref
  <1>5. CASE \E p \in Processes : Evict(p)
    BY <1>5, EvictPref
  <1>6. CASE UNCHANGED prefVars
    BY <1>6 DEF prefVars, PrefInv, PrefTypeOK, NotOlder
  <1> QED
    BY <1>1, <1>2, <1>3, <1>4, <1>5, <1>6 DEF PrefNext

\* In every process, and for any number of reads and upserts at once, a cached
\* preference that is still served was replaced less than a time to live ago
\* (notification_pref.py 93-155).
THEOREM PrefServedRecently == PrefSpec => []ServedRecently
  <1>1. PrefInv => ServedRecently
    <2> SUFFICES ASSUME PrefInv, NEW p \in Processes, cache[p].age < Ttl, cache[p].is # row
                 PROVE  replaced[cache[p].is] < Ttl
      BY DEF ServedRecently
    <2>1. cache[p].age \in Ages /\ replaced[cache[p].is] \in Ages
      BY DEF PrefInv, PrefTypeOK
    <2>2. replaced[cache[p].is] <= cache[p].age
      BY DEF PrefInv, NotOlder
    <2> QED
      BY <2>1, <2>2, PrefAssumption DEF Ages
  <1> QED
    BY <1>1, InitPref, NextPref, PTL DEF PrefSpec

\* The types of the row, the processes' caches and the readers' locals.
THEOREM PrefTyped == PrefSpec => []PrefTypeOK
  <1>1. PrefInv => PrefTypeOK
    BY DEF PrefInv
  <1> QED
    BY <1>1, InitPref, NextPref, PTL DEF PrefSpec

-----------------------------------------------------------------------------
(* The refresh of the prices: a refresher's rows go up.                    *)

\* The rows it holds are before the one it writes next, and that is the first
\* of those that are left.
InOrder(p) ==
    /\ stage[p] # "write" => held[p] = {} /\ next[p] = 0
    /\ next[p] # 0 => /\ \A c \in held[p] : c < next[p]
                      /\ \A c \in batch[p] \ held[p] : next[p] <= c

RefreshInv ==
    /\ RefreshTypeOK
    /\ \A p \in Refreshers : InOrder(p)
    /\ \A r \in Rankers : stage[r] = "idle" => held[r] = {} /\ next[r] = 0

LEMMA StocksNat == Stocks \in SUBSET Nat /\ 0 \notin Stocks /\ \A c \in Stocks : c <= N /\ c >= 1
  BY RefreshAssumption DEF Stocks

LEMMA InitRefresh == RefreshInit => RefreshInv
  <1> SUFFICES ASSUME RefreshInit PROVE RefreshInv
    OBVIOUS
  <1>1. hot \in SUBSET Stocks /\ 1 \in 1 .. MaxRetry
    BY RefreshAssumption DEF RefreshInit, Stocks
  <1>2. RefreshTypeOK
    BY <1>1 DEF RefreshInit, RefreshTypeOK
  <1> QED
    BY <1>2 DEF RefreshInit, RefreshInv, InOrder, Writers

\* The next row is one of the rows, for a refresher the first of them.
LEMMA NextRowsType ==
    ASSUME NEW w \in Writers, NEW rest \in SUBSET Stocks, NEW c \in NextRows(w, rest)
    PROVE  /\ c \in Stocks \cup {0}
           /\ c # 0 => c \in rest
           /\ c # 0 /\ w \in Refreshers => \A d \in rest : c <= d
  BY RefreshAssumption DEF NextRows

LEMMA IdleStep ==
    ASSUME RefreshInv, NEW w \in Writers, Idle(w), UNCHANGED <<quiet, hot, offset, due>>
    PROVE  RefreshInv'
  <1>1. RefreshTypeOK'
    BY RefreshAssumption DEF RefreshInv, RefreshTypeOK, Idle, Writers
  <1>2. \A p \in Refreshers : InOrder(p)'
    BY DEF RefreshInv, RefreshTypeOK, InOrder, Idle, Writers
  <1>3. \A r \in Rankers : stage'[r] = "idle" => held'[r] = {} /\ next'[r] = 0
    BY DEF RefreshInv, RefreshTypeOK, Idle, Writers
  <1> QED
    BY <1>1, <1>2, <1>3 DEF RefreshInv

\* A writer that holds nothing begins to write.
LEMMA WriteStep ==
    ASSUME RefreshInv, NEW w \in Writers, NEW rest \in SUBSET Stocks, Write(w, rest),
           stage[w] # "write", UNCHANGED <<quiet, hot, offset, held, attempt, due>>
    PROVE  RefreshInv'
  <1>1. PICK c \in NextRows(w, rest) : next' = [next EXCEPT ![w] = c]
    BY DEF Write
  <1>2. c \in Stocks \cup {0} /\ (c # 0 /\ w \in Refreshers => \A d \in rest : c <= d)
    BY <1>1, NextRowsType
  <1>3. RefreshTypeOK'
    BY <1>1, <1>2 DEF RefreshInv, RefreshTypeOK, Write
  <1>4. ASSUME NEW p \in Refreshers
        PROVE  InOrder(p)'
    <2>1. CASE p = w
      BY <1>1, <1>2, <2>1 DEF RefreshInv, RefreshTypeOK, InOrder, Write
    <2>2. CASE p # w
      BY <1>1, <2>2 DEF RefreshInv, RefreshTypeOK, InOrder, Write, Writers
    <2> QED
      BY <2>1, <2>2
  <1>5. \A r \in Rankers : stage'[r] = "idle" => held'[r] = {} /\ next'[r] = 0
    BY <1>1 DEF RefreshInv, RefreshTypeOK, Write, Writers
  <1> QED
    BY <1>3, <1>4, <1>5 DEF RefreshInv

LEMMA WriteRowStep ==
    ASSUME RefreshInv, NEW w \in Writers, WriteRow(w)
    PROVE  RefreshInv'
  <1>1. PICK c \in NextRows(w, batch[w] \ held'[w]) : next' = [next EXCEPT ![w] = c]
    BY DEF WriteRow
  <1>2. /\ next[w] \in Stocks /\ batch[w] \in SUBSET Stocks /\ held[w] \in SUBSET Stocks
        /\ held'[w] = held[w] \cup {next[w]}
    BY DEF RefreshInv, RefreshTypeOK, WriteRow
  <1>3. /\ c \in Stocks \cup {0} /\ (c # 0 => c \in batch[w] \ held'[w])
        /\ c # 0 /\ w \in Refreshers => \A d \in batch[w] \ held'[w] : c <= d
    BY <1>1, <1>2, NextRowsType
  <1>4. RefreshTypeOK'
    BY <1>1, <1>2, <1>3 DEF RefreshInv, RefreshTypeOK, WriteRow
  <1>5. ASSUME NEW p \in Refreshers
        PROVE  InOrder(p)'
    <2>1. CASE p = w
      <3>1. next'[p] = c /\ stage'[p] = "write" /\ batch'[p] = batch[p]
        BY <1>1, <2>1 DEF RefreshInv, RefreshTypeOK, WriteRow
      <3>2. ASSUME c # 0
            PROVE  \A d \in held'[p] : d < c
        <4>1. next[p] <= c /\ next[p] # c /\ c \in Stocks
          BY <1>2, <1>3, <2>1, <3>2 DEF RefreshInv, InOrder, WriteRow
        <4>2. \A d \in held[p] : d < next[p]
          BY <2>1 DEF RefreshInv, InOrder, WriteRow
        <4>3. held[p] \in SUBSET Nat /\ next[p] \in Nat /\ c \in Nat
          BY <1>2, <2>1, <4>1, StocksNat
        <4>4. held'[p] = held[p] \cup {next[p]} /\ next[p] < c
          BY <1>2, <2>1, <4>1, <4>3
        <4> QED
          BY <4>2, <4>3, <4>4
      <3> QED
        BY <1>3, <2>1, <3>1, <3>2 DEF InOrder
    <2>2. CASE p # w
      BY <1>1, <2>2 DEF RefreshInv, RefreshTypeOK, InOrder, WriteRow, Writers
    <2> QED
      BY <2>1, <2>2
  <1>6. \A r \in Rankers : stage'[r] = "idle" => held'[r] = {} /\ next'[r] = 0
    BY <1>1 DEF RefreshInv, RefreshTypeOK, WriteRow, Writers
  <1> QED
    BY <1>4, <1>5, <1>6 DEF RefreshInv

LEMMA VictimStep ==
    ASSUME RefreshInv, NEW w \in Writers, DeadlockVictim(w)
    PROVE  RefreshInv'
  <1>1. CASE w \in Refreshers /\ attempt[w] < MaxRetry
    <2>1. /\ stage' = [stage EXCEPT ![w] = "pause"] /\ held' = [held EXCEPT ![w] = {}]
          /\ next' = [next EXCEPT ![w] = 0] /\ attempt' = [attempt EXCEPT ![w] = @ + 1]
          /\ UNCHANGED <<batch, quiet, hot, offset, due>>
      BY <1>1 DEF DeadlockVictim
    <2>2. RefreshTypeOK'
      BY <1>1, <2>1, RefreshAssumption DEF RefreshInv, RefreshTypeOK, Writers
    <2> QED
      BY <1>1, <2>1, <2>2, RefreshAssumption DEF RefreshInv, RefreshTypeOK, InOrder, Writers
  <1>2. CASE ~(w \in Refreshers /\ attempt[w] < MaxRetry)
    BY <1>2, IdleStep DEF DeadlockVictim
  <1> QED
    BY <1>1, <1>2

LEMMA ColdCount ==
    /\ Cardinality(Cold) \in Nat
    /\ Cold # {} => Cardinality(Cold) > 0
  <1>1. IsFiniteSet(Cold)
    <2>1. IsFiniteSet(1 .. N) /\ Cold \in SUBSET (1 .. N)
      BY FS_Interval, RefreshAssumption DEF Cold, Stocks
    <2> QED
      BY <2>1, FS_Subset
  <1> QED
    BY <1>1, FS_CardinalityType, FS_EmptySet

\* A refresher that begins, and everything that no transaction notices.
LEMMA StartStep ==
    ASSUME RefreshInv, NEW p \in Refreshers, RefreshFull(p) \/ RefreshFocus(p)
    PROVE  RefreshInv'
  <1>1. PICK cs \in SUBSET Stocks : Start(p, cs)
    BY RefreshAssumption
    DEF RefreshFull, RefreshFocus, RefreshInv, RefreshTypeOK, ColdPick, Cold, Stocks
  <1>2. stage[p] = "idle" /\ UNCHANGED <<quiet, hot, held, next, attempt>> /\ due' \in SUBSET Refreshers
    BY DEF RefreshFull, RefreshFocus, RefreshInv, RefreshTypeOK
  <1>3. offset' \in [Refreshers -> Nat]
    <2>1. offset \in [Refreshers -> Nat]
      BY DEF RefreshInv, RefreshTypeOK
    <2>2. CASE UNCHANGED offset
      BY <2>1, <2>2
    <2>3. CASE Cold # {} /\ RefreshFull(p)
      <3>1. Cardinality(Cold) \in Nat /\ Cardinality(Cold) > 0
        BY <2>3, ColdCount
      <3>2. Min2(ColdBatch, Cardinality(Cold)) \in Nat
        BY <3>1, RefreshAssumption DEF Min2
      <3>3. \A a, b \in Nat : a % Cardinality(Cold) \in Nat /\ a + b \in Nat
        BY <3>1
      <3> QED
        BY <2>1, <2>2, <2>3, <3>2, <3>3 DEF RefreshFull
    <2> QED
      BY <2>2, <2>3 DEF RefreshFull, RefreshFocus
  <1>4. RefreshTypeOK'
    BY <1>1, <1>2, <1>3 DEF Start, RefreshInv, RefreshTypeOK
  <1> QED
    BY <1>1, <1>2, <1>4, RefreshAssumption DEF Start, RefreshInv, RefreshTypeOK, InOrder, Writers

LEMMA FetchedStep ==
    ASSUME RefreshInv, NEW p \in Refreshers, Fetched(p)
    PROVE  RefreshInv'
  <1>1. p \in Writers /\ batch[p] \in SUBSET Stocks
    BY DEF Writers, RefreshInv, RefreshTypeOK
  <1>2. PICK missing \in SUBSET batch[p] :
            IF missing = batch[p]
            THEN Idle(p)
            ELSE Write(p, batch[p] \ missing) /\ UNCHANGED <<held, attempt>>
    BY DEF Fetched
  <1>3. CASE missing = batch[p]
    BY <1>1, <1>2, <1>3, IdleStep DEF Fetched
  <1>4. CASE missing # batch[p]
    BY <1>1, <1>2, <1>4, WriteStep DEF Fetched
  <1> QED
    BY <1>3, <1>4

LEMMA NextRefresh ==
    ASSUME RefreshInv, [RefreshNext]_refreshVars
    PROVE  RefreshInv'
  <1>1. CASE Quiet \/ RanksChange \/ UNCHANGED refreshVars \/ \E p \in Refreshers : FullDue(p)
    BY <1>1, RefreshAssumption
    DEF Quiet, RanksChange, FullDue, refreshVars, RefreshInv, RefreshTypeOK, InOrder, Stocks
  <1>2. CASE \E p \in Refreshers : RefreshFull(p) \/ RefreshFocus(p)
    BY <1>2, StartStep
  <1>3. CASE \E p \in Refreshers : Fetched(p)
    BY <1>3, FetchedStep
  <1>4. ASSUME NEW p \in Refreshers, Again(p)
        PROVE  RefreshInv'
    BY <1>4, WriteStep DEF Again, Writers, RefreshInv, RefreshTypeOK
  <1>5. ASSUME NEW r \in Rankers, RankingWrites(r)
        PROVE  RefreshInv'
    <2>1. PICK cs \in FocusLists : Write(r, cs)
      BY <1>5 DEF RankingWrites
    <2> QED
      BY <1>5, <2>1, WriteStep, RefreshAssumption DEF RankingWrites, Writers, Stocks
  <1>6. CASE \E w \in Writers : WriteRow(w)
    BY <1>6, WriteRowStep
  <1>7. CASE \E w \in Writers : Commit(w)
    BY <1>7, IdleStep DEF Commit
  <1>8. CASE \E w \in Writers : DeadlockVictim(w)
    BY <1>8, VictimStep
  <1> QED
    BY <1>1, <1>2, <1>3, <1>4, <1>5, <1>6, <1>7, <1>8 DEF RefreshNext

\* A set of natural numbers has a least.
LEMMA Least ==
    ASSUME NEW T, T \subseteq Nat, T # {}
    PROVE  \E x \in T : \A y \in T : x <= y
  <1>1. PICK x \in T : \A y \in T : <<y, x>> \notin OpToRel(<, Nat)
    BY WFMin, NatLessThanWellFounded, Zenon
  <1>2. \A y \in T : ~(y < x)
    <2>1. ASSUME NEW y \in T, y < x
          PROVE  <<y, x>> \in OpToRel(<, Nat)
      BY <2>1, Zenon DEF OpToRel
    <2> QED
      BY <1>1, <2>1
  <1> QED
    BY <1>2

\* A set of natural numbers up to N has a largest.
LEMMA Largest ==
    ASSUME NEW T \in SUBSET Stocks, T # {}
    PROVE  \E c \in T : \A d \in T : d <= c
  <1> DEFINE Below == {N - c : c \in T}
  <1>1. \A c \in T : c \in Nat /\ c <= N /\ N - c \in Nat /\ N \in Nat
    BY StocksNat, RefreshAssumption
  <1>2. Below \subseteq Nat /\ Below # {}
    BY <1>1
  <1>3. PICK x \in Below : \A y \in Below : x <= y
    <2> HIDE DEF Below
    <2> QED
      BY <1>2, Least
  <1>4. PICK c \in T : x = N - c
    OBVIOUS
  <1>5. \A d \in T : N - c <= N - d
    BY <1>3, <1>4
  <1> QED
    BY <1>1, <1>5

\* Whoever a waiting refresher waits for, if that waits too, waits for a later row.
LEMMA WaitsGoUp ==
    ASSUME RefreshInv, NEW p \in Refreshers, NEW q \in Refreshers, Waits(p, q), next[q] # 0
    PROVE  next[p] < next[q]
  BY DEF RefreshInv, InOrder, Waits

\* However many processes refresh however many stocks, and whatever the
\* rankings have locked, no refreshers wait for each other in a circle, so it
\* takes a ranking to make a deadlock (state.py 238-243).
THEOREM RefreshersNeverCircle == RefreshSpec => []RefreshersOrdered
  <1>1. RefreshInv => RefreshersOrdered
    <2> SUFFICES ASSUME RefreshInv, NEW circle \in SUBSET Refreshers, Circle(circle), circle # {}
                 PROVE  FALSE
      BY DEF RefreshersOrdered
    <2> DEFINE T == {next[p] : p \in circle}
    <2>1. \A p \in circle : next[p] \in Stocks
      BY DEF Circle, Waits, RefreshInv, RefreshTypeOK, Writers
    <2>2. T \in SUBSET Stocks /\ T # {}
      BY <2>1
    <2>3. PICK c \in T : \A d \in T : d <= c
      BY <2>2, Largest
    <2>4. PICK p \in circle : c = next[p]
      OBVIOUS
    <2>5. PICK q \in circle : Waits(p, q)
      BY DEF Circle
    <2>6. next[q] <= next[p]
      BY <2>3, <2>4
    <2>7. next[p] \in Nat /\ next[q] \in Nat /\ next[q] # 0
      BY <2>1, StocksNat
    <2>8. next[p] < next[q]
      BY <2>5, <2>7, WaitsGoUp
    <2> QED
      BY <2>6, <2>7, <2>8
  <1> QED
    BY <1>1, InitRefresh, NextRefresh, PTL DEF RefreshSpec

\* Where the rotation of a process stands, among the cold stocks.
LEMMA RemainderTypes ==
    ASSUME NEW n \in Nat, n > 0, NEW x \in Nat
    PROVE  /\ x % n \in Nat /\ x % n < n
           /\ x < n => x % n = x
           /\ x >= n /\ x < 2 * n => x % n = x - n
  OBVIOUS

LEMMA PositionBelow ==
    ASSUME NEW c \in Cold
    PROVE  Position(c) \in Nat /\ Position(c) < Cardinality(Cold)
  <1> DEFINE Before == {d \in Cold : d < c}
  <1>1. IsFiniteSet(Cold)
    <2>1. IsFiniteSet(1 .. N) /\ Cold \in SUBSET (1 .. N)
      BY FS_Interval, RefreshAssumption DEF Cold, Stocks
    <2> QED
      BY <2>1, FS_Subset
  <1>2. Before \in SUBSET Cold /\ c \notin Before
    BY StocksNat DEF Cold
  <1>3. Before # Cold
    BY <1>2
  <1>4. /\ Cardinality(Before) \in Nat /\ Cardinality(Cold) \in Nat
        /\ Cardinality(Before) < Cardinality(Cold)
    <2>1. IsFiniteSet(Before) /\ Cardinality(Before) <= Cardinality(Cold)
      BY <1>1, <1>2, FS_Subset
    <2>2. Cardinality(Before) # Cardinality(Cold)
      BY <1>1, <1>2, <1>3, FS_Subset
    <2> HIDE DEF Before
    <2>3. Cardinality(Before) \in Nat /\ Cardinality(Cold) \in Nat
      BY <1>1, <2>1, FS_CardinalityType
    <2> QED
      BY <2>1, <2>2, <2>3
  <1>5. Position(c) = Cardinality(Before)
    BY DEF Position, Cold
  <1> QED
    BY <1>4, <1>5

\* A rotation that takes `take` of n and stands `s` before, `t` after: a
\* position d further on is taken or comes nearer by the whole part.
LEMMA RotationArithmetic ==
    ASSUME NEW n \in Nat, n > 0, NEW take \in Nat, take <= n,
           NEW s \in Nat, s < n, NEW x \in Nat, x < n,
           (x + n - s) % n >= take
    PROVE  (x + n - (((s + take) % n) % n)) % n = ((x + n - s) % n) - take
  <1> DEFINE t == (s + take) % n
             d == (x + n - s) % n
  <1>1. d \in Nat /\ d < n /\ d >= take /\ (d = x - s \/ d = x + n - s)
    <2>1. CASE x >= s
      BY <2>1, RemainderTypes
    <2>2. CASE x < s
      BY <2>2, RemainderTypes
    <2> QED
      BY <2>1, <2>2
  <1>2. t \in Nat /\ t < n /\ (s + take < n => t = s + take) /\ (s + take >= n => t = s + take - n)
    <2>1. CASE s + take < n
      BY <2>1, RemainderTypes
    <2>2. CASE s + take >= n
      <3>1. s + take \in Nat /\ s + take < 2 * n
        BY <1>1
      <3> QED
        BY <2>2, <3>1, RemainderTypes
    <2> QED
      BY <2>1, <2>2
  <1>3. t % n = t
    <2> HIDE DEF t
    <2> QED
      BY <1>2, RemainderTypes
  <1>4. x + n - t \in Nat /\ (x + n - t) % n = d - take
    <2> HIDE DEF t, d
    <2>1. x + n - t \in Nat /\ x + n - t < 2 * n
      BY <1>2
    <2>2. x + n - t = d - take \/ x + n - t = d - take + n
      BY <1>1, <1>2
    <2>3. d - take \in Nat /\ d - take < n
      BY <1>1
    <2> QED
      BY <2>1, <2>2, <2>3, RemainderTypes
  <1> QED
    BY <1>3, <1>4

\* The offset of a process moves by its own full refresh alone.
LEMMA OffsetMoves ==
    ASSUME RefreshInv, [RefreshNext]_refreshVars, NEW p \in Refreshers, ~RefreshFull(p)
    PROVE  UNCHANGED offset[p]
  <1>1. ASSUME NEW q \in Refreshers, RefreshFull(q)
        PROVE  UNCHANGED offset[p]
    <2>1. q # p
      BY <1>1
    <2> QED
      BY <1>1, <2>1 DEF RefreshFull, RefreshInv, RefreshTypeOK
  <1>2. CASE UNCHANGED offset
    BY <1>2
  <1>3. ASSUME NEW q \in Refreshers, FullDue(q) \/ RefreshFocus(q) \/ Fetched(q) \/ Again(q)
        PROVE  UNCHANGED offset
    BY <1>3, Zenon DEF FullDue, RefreshFocus, Fetched, Again
  <1>4. ASSUME NEW w \in Writers, WriteRow(w) \/ Commit(w) \/ DeadlockVictim(w)
        PROVE  UNCHANGED offset
    BY <1>4, Zenon DEF WriteRow, Commit, DeadlockVictim
  <1>5. Quiet \/ RanksChange \/ (\E r \in Rankers : RankingWrites(r)) => UNCHANGED offset
    BY Zenon DEF Quiet, RanksChange, RankingWrites
  <1>6. UNCHANGED refreshVars => UNCHANGED offset
    BY DEF refreshVars
  <1> QED
    BY <1>1, <1>2, <1>3, <1>4, <1>5, <1>6, Zenon DEF RefreshNext

\* The distances are told by the ranks and the offset.
LEMMA SameAhead ==
    ASSUME NEW p \in Refreshers, NEW c \in Stocks, UNCHANGED <<hot, offset[p]>>
    PROVE  UNCHANGED Ahead(p, c)
  BY DEF Ahead, Position, Cold

LEMMA FullTakesOrNears ==
    ASSUME RefreshInv, NEW p \in Refreshers, NEW c \in Stocks, RefreshFull(p), c \notin batch'[p]
    PROVE  Ahead(p, c)' = Ahead(p, c) - ColdBatch
  <1> DEFINE n == Cardinality(Cold)
             take == Min2(ColdBatch, n)
             start == offset[p] % n
  <1>1. batch \in [Writers -> SUBSET Stocks] /\ offset \in [Refreshers -> Nat] /\ p \in Writers
    BY DEF RefreshInv, RefreshTypeOK, Writers
  <1>2. UNCHANGED hot /\ ColdBatch \in Nat
    BY RefreshAssumption DEF RefreshFull
  <1>3. c \in Cold
    <2>1. hot \subseteq batch'[p]
      BY <1>1 DEF RefreshFull, Start
    <2> QED
      BY <2>1 DEF Cold
  <1>4. n \in Nat /\ n > 0 /\ offset[p] \in Nat /\ start \in Nat /\ start < n
    <2>1. n \in Nat /\ n > 0 /\ offset[p] \in Nat
      BY <1>1, <1>3, ColdCount
    <2> HIDE DEF n
    <2> QED
      BY <2>1, RemainderTypes
  <1>5. Position(c) \in Nat /\ Position(c) < n
    BY <1>3, PositionBelow
  <1>6. Ahead(p, c) = (Position(c) + n - start) % n
    BY DEF Ahead
  <1>7. Position(c)' = Position(c) /\ Cardinality(Cold)' = n
    BY <1>2 DEF Position, Cold
  <1>8. Ahead(p, c)' = (Position(c) + n - (offset'[p] % n)) % n
    BY <1>7 DEF Ahead
  <1>9. CASE ColdBatch = 0
    <2>1. UNCHANGED offset
      BY <1>9 DEF RefreshFull
    <2>2. Ahead(p, c)' = Ahead(p, c)
      BY <1>6, <1>8, <2>1
    <2>3. Ahead(p, c) \in Nat
      <3> HIDE DEF n, start
      <3>1. Position(c) + n - start \in Nat
        BY <1>4, <1>5
      <3> QED
        BY <1>4, <1>6, <3>1, RemainderTypes
    <2> QED
      BY <1>9, <2>2, <2>3
  <1>10. CASE ColdBatch # 0
    <2>1. /\ Start(p, hot \cup ColdPick(start, take))
          /\ offset' = [offset EXCEPT ![p] = (start + take) % n]
      BY <1>3, <1>10 DEF RefreshFull
    <2>2. c \notin ColdPick(start, take) /\ offset'[p] = (start + take) % n
      BY <1>1, <2>1 DEF Start
    <2>3. ~((Position(c) + n - start) % n < take)
      BY <1>3, <2>2 DEF ColdPick
    <2>4. take \in Nat /\ take <= n /\ (take = ColdBatch \/ take = n)
      <3> HIDE DEF n
      <3> QED
        BY <1>2, <1>4 DEF Min2
    <2> HIDE DEF n, take, start
    <2>5. (Position(c) + n - start) % n \in Nat /\ (Position(c) + n - start) % n < n
      <3>1. Position(c) + n - start \in Nat
        BY <1>4, <1>5
      <3> QED
        BY <1>4, <3>1, RemainderTypes
    <2>6. (Position(c) + n - start) % n >= take /\ take = ColdBatch
      BY <1>4, <2>3, <2>4, <2>5
    <2>7. (Position(c) + n - (((start + take) % n) % n)) % n = ((Position(c) + n - start) % n) - take
      <3> DEFINE x == Position(c)
      <3> HIDE DEF x
      <3>1. x \in Nat /\ x < n /\ (x + n - start) % n >= take
        BY <1>5, <2>6 DEF x
      <3>2. (x + n - (((start + take) % n) % n)) % n = ((x + n - start) % n) - take
        BY <1>4, <2>4, <3>1, RotationArithmetic
      <3> QED
        BY <3>2 DEF x
    <2> QED
      BY <1>6, <1>8, <2>2, <2>6, <2>7
  <1> QED
    BY <1>9, <1>10

\* However many stocks, processes and stocks a batch: a full refresh takes a
\* stock or comes a whole batch nearer to it, and nothing else but a change of
\* the ranks moves the rotation, so that a stock waits for as many full
\* refreshes as there are batches, and none is passed over where the list ends
\* (state.py 303-324).
THEOREM NonePassedOver == RefreshSpec => RotationPassesNone
  <1>1. ASSUME RefreshInv, [RefreshNext]_refreshVars, NEW p \in Refreshers, NEW c \in Stocks
        PROVE  /\ RefreshFull(p) => c \in batch'[p] \/ Ahead(p, c)' = Ahead(p, c) - ColdBatch
               /\ c \in Cold /\ ~RefreshFull(p) /\ UNCHANGED hot => UNCHANGED Ahead(p, c)
    <2>1. RefreshFull(p) /\ c \notin batch'[p] => Ahead(p, c)' = Ahead(p, c) - ColdBatch
      BY <1>1, FullTakesOrNears
    <2>2. ~RefreshFull(p) /\ UNCHANGED hot => UNCHANGED Ahead(p, c)
      BY <1>1, OffsetMoves, SameAhead
    <2> QED
      BY <2>1, <2>2, Zenon
  <1>2. RefreshInv /\ [RefreshNext]_refreshVars
            => [\A p \in Refreshers, c \in Stocks :
                    /\ RefreshFull(p) => c \in batch'[p] \/ Ahead(p, c)' = Ahead(p, c) - ColdBatch
                    /\ c \in Cold /\ ~RefreshFull(p) /\ UNCHANGED hot => UNCHANGED Ahead(p, c)]_refreshVars
    BY <1>1, Zenon
  <1> QED
    BY <1>2, InitRefresh, NextRefresh, PTL DEF RefreshSpec, RotationPassesNone

\* The types of the refresh.
THEOREM RefreshTyped == RefreshSpec => []RefreshTypeOK
  <1>1. RefreshInv => RefreshTypeOK
    BY DEF RefreshInv
  <1> QED
    BY <1>1, InitRefresh, NextRefresh, PTL DEF RefreshSpec

-----------------------------------------------------------------------------
(* The program ranking: how old what is in memory and in Redis can be.     *)

\* What a process serves as fresh was younger than one time to live when it was
\* stamped, wherever it came from.
MemoryYoung == \A h \in Hosts :
    memory[h] # None /\ memory[h].since < ProgramTtl =>
        memory[h].age < memory[h].since + ProgramTtl

\* Redis forgets a payload one time to live after it was computed.
SharedYoung == shared # None => shared.age + shared.left <= ProgramTtl

RankInv == RankTypeOK /\ MemoryYoung /\ SharedYoung /\ UnmarkedIsRecent

LEMMA InitRank == RankInit => RankInv
  BY RankingAssumption
  DEF RankInit, RankInv, RankTypeOK, MemoryYoung, SharedYoung, UnmarkedIsRecent, PayloadAges

\* A record of the memory, and of Redis, is told from None.
LEMMA Records ==
    /\ \A a \in PayloadAges, s \in 0 .. ProgramTtl : [age |-> a, since |-> s] \in Kept \ {None}
    /\ \A a \in PayloadAges, l \in 1 .. ProgramTtl : [age |-> a, left |-> l] \in Stored \ {None}
    /\ \A k \in Kept : k.age \in PayloadAges /\ k.since \in 0 .. ProgramTtl
    /\ \A s \in Stored : s.age \in PayloadAges /\ s.left \in 1 .. ProgramTtl
  BY RankingAssumption DEF Kept, Stored

\* Memory takes a payload younger than one time to live, with any stamp.
LEMMA KeepYoung ==
    ASSUME RankInv, NEW r \in Requests, NEW a \in Nat, NEW s \in 0 .. ProgramTtl,
           a < ProgramTtl, Keep(r, a, s)
    PROVE  memory' \in [Hosts -> Kept \cup {None}] /\ MemoryYoung'
  <1>1. a \in PayloadAges /\ HostOf[r] \in Hosts
    BY RankingAssumption DEF PayloadAges
  <1>2. [age |-> a, since |-> s] \in Kept
    BY <1>1, Records
  <1>3. memory' \in [Hosts -> Kept \cup {None}]
    BY <1>1, <1>2 DEF Keep, RankInv, RankTypeOK
  <1>4. ASSUME NEW h \in Hosts, memory'[h] # None, memory'[h].since < ProgramTtl
        PROVE  memory'[h].age < memory'[h].since + ProgramTtl
    <2>1. CASE h = HostOf[r]
      <3>1. memory'[h] = [age |-> a, since |-> s]
        BY <1>1, <2>1 DEF Keep, RankInv, RankTypeOK
      <3> QED
        BY <3>1, RankingAssumption
    <2>2. CASE h # HostOf[r]
      <3>1. memory'[h] = memory[h]
        BY <2>2 DEF Keep, RankInv, RankTypeOK
      <3> QED
        BY <1>4, <3>1 DEF RankInv, MemoryYoung
    <2> QED
      BY <2>1, <2>2
  <1> QED
    BY <1>3, <1>4 DEF MemoryYoung

\* What Redis answers is younger than one time to live.
LEMMA FromRedis ==
    ASSUME RankInv, shared # None
    PROVE  shared.age \in Nat /\ shared.age < ProgramTtl /\ shared.age \in PayloadAges
  <1>1. shared \in Stored
    BY DEF RankInv, RankTypeOK
  <1>2. shared.age \in PayloadAges /\ shared.left \in 1 .. ProgramTtl
    BY <1>1, Records
  <1> QED
    BY <1>2, RankingAssumption DEF RankInv, SharedYoung, PayloadAges

\* What a process serves as fresh is younger than two.
LEMMA FromMemory ==
    ASSUME RankInv, NEW r \in Requests, Fresh(r)
    PROVE  Recall(r).age \in PayloadAges /\ Recall(r).age < 2 * ProgramTtl
  <1>1. HostOf[r] \in Hosts
    BY RankingAssumption
  <1>2. Recall(r) \in Kept
    BY <1>1 DEF Fresh, Recall, RankInv, RankTypeOK
  <1>3. Recall(r).age \in PayloadAges /\ Recall(r).since \in 0 .. ProgramTtl
    BY <1>2, Records
  <1>4. Recall(r).age < Recall(r).since + ProgramTtl /\ Recall(r).since < ProgramTtl
    BY <1>1 DEF Fresh, Recall, RankInv, MemoryYoung
  <1> QED
    BY <1>3, <1>4, RankingAssumption DEF PayloadAges

\* A step that keeps Redis and what requests wait for well typed, and takes
\* its answer and its memory from the right places, preserves the invariant.
LEMMA Preserved ==
    ASSUME RankInv,
           UNCHANGED memory \/ (memory' \in [Hosts -> Kept \cup {None}] /\ MemoryYoung'),
           UNCHANGED shared \/ shared' = [age |-> 0, left |-> ProgramTtl],
           UNCHANGED answer \/ (answer' \in PayloadAges /\ answer' < 2 * ProgramTtl),
           flight' \in [Hosts -> Requests \cup {None}],
           rq' \in [Requests -> {"idle", "redis", "claim", "compute", "publish", "release", "wait"}],
           began' \in [Requests -> 0 .. ProgramTtl],
           event' \in [Requests -> Requests \cup {None}]
    PROVE  RankInv'
  <1>1. memory' \in [Hosts -> Kept \cup {None}] /\ MemoryYoung'
    BY DEF RankInv, RankTypeOK, MemoryYoung
  <1>2. shared' \in Stored \cup {None} /\ SharedYoung'
    <2>1. CASE UNCHANGED shared
      BY <2>1 DEF RankInv, RankTypeOK, SharedYoung
    <2>2. CASE shared' = [age |-> 0, left |-> ProgramTtl]
      <3>1. 0 \in PayloadAges /\ ProgramTtl \in 1 .. ProgramTtl
        BY RankingAssumption DEF PayloadAges
      <3> QED
        BY <2>2, <3>1, Records, RankingAssumption DEF SharedYoung
    <2> QED
      BY <2>1, <2>2
  <1>3. answer' \in PayloadAges /\ UnmarkedIsRecent'
    BY DEF RankInv, RankTypeOK, UnmarkedIsRecent
  <1> QED
    BY <1>1, <1>2, <1>3 DEF RankInv, RankTypeOK

LEMMA RequestStep ==
    ASSUME RankInv, NEW r \in Requests,
           \/ GetRanking(r) \/ ReadRedis(r) \/ Claim(r) \/ Compute(r) \/ Publish(r)
           \/ ComputeFails(r) \/ SetEvent(r) \/ Awoken(r) \/ WaitTimesOut(r)
    PROVE  RankInv'
  <1> USE DEF Go
  <1>0. /\ 0 \in Nat /\ 0 < ProgramTtl /\ 0 \in 0 .. ProgramTtl
        /\ 0 \in PayloadAges /\ 0 < 2 * ProgramTtl /\ HostOf[r] \in Hosts
        /\ \A n \in Nat : n < ProgramTtl => n < 2 * ProgramTtl
    BY RankingAssumption DEF PayloadAges
  <1>1. RankTypeOK
    BY DEF RankInv
  <1>2. CASE GetRanking(r)
    BY <1>0, <1>1, <1>2, FromMemory, Preserved DEF GetRanking, RankTypeOK
  <1>3. CASE ReadRedis(r)
    <2>1. CASE shared # None /\ Keep(r, shared.age, began[r]) /\ answer' = shared.age
      <3>1. began[r] \in 0 .. ProgramTtl
        BY <1>1 DEF RankTypeOK
      <3>2. memory' \in [Hosts -> Kept \cup {None}] /\ MemoryYoung'
        BY <2>1, <3>1, FromRedis, KeepYoung
      <3>3. answer' \in PayloadAges /\ answer' < 2 * ProgramTtl
        BY <1>0, <2>1, FromRedis
      <3> QED
        BY <1>1, <1>3, <3>2, <3>3, Preserved DEF ReadRedis, RankTypeOK
    <2>2. CASE UNCHANGED <<memory, answer>>
      BY <1>1, <1>3, <2>2, Preserved DEF ReadRedis, RankTypeOK
    <2> QED
      BY <1>3, <2>1, <2>2 DEF ReadRedis
  <1>4. CASE Claim(r)
    BY <1>0, <1>1, <1>4, Preserved DEF Claim, RankTypeOK
  <1>5. CASE Compute(r)
    <2>1. memory' \in [Hosts -> Kept \cup {None}] /\ MemoryYoung'
      BY <1>0, <1>5, KeepYoung DEF Compute
    <2> QED
      BY <1>0, <1>1, <1>5, <2>1, Preserved DEF Compute, RankTypeOK
  <1>6. CASE Publish(r)
    BY <1>1, <1>6, Preserved DEF Publish, RankTypeOK
  <1>7. CASE ComputeFails(r)
    <2>1. UNCHANGED memory \/ (memory' \in [Hosts -> Kept \cup {None}] /\ MemoryYoung')
      BY <1>0, <1>7, FromRedis, KeepYoung DEF ComputeFails
    <2> QED
      BY <1>1, <1>7, <2>1, Preserved DEF ComputeFails, RankTypeOK
  <1>8. CASE SetEvent(r)
    BY <1>0, <1>1, <1>8, Preserved DEF SetEvent, RankTypeOK
  <1>9. CASE Awoken(r)
    <2>1. UNCHANGED memory \/ (memory' \in [Hosts -> Kept \cup {None}] /\ MemoryYoung')
      BY <1>0, <1>9, FromRedis, KeepYoung DEF Awoken
    <2>2. UNCHANGED answer \/ (answer' \in PayloadAges /\ answer' < 2 * ProgramTtl)
      BY <1>0, <1>9, FromRedis, FromMemory DEF Awoken
    <2> QED
      BY <1>1, <1>9, <2>1, <2>2, Preserved DEF Awoken, RankTypeOK
  <1>10. CASE WaitTimesOut(r)
    BY <1>1, <1>10, Preserved DEF WaitTimesOut, RankTypeOK
  <1> QED
    BY <1>2, <1>3, <1>4, <1>5, <1>6, <1>7, <1>8, <1>9, <1>10

\* One tick adds one to an age and to the time it is measured against.
LEMMA TickStep ==
    ASSUME RankInv, RankTick
    PROVE  RankInv'
  <1>1. RankTypeOK /\ ProgramTtl \in Nat \ {0}
    BY RankingAssumption DEF RankInv
  <1>2. /\ \A a \in PayloadAges : Aged(a, 2 * ProgramTtl) \in PayloadAges /\ Aged(a, 2 * ProgramTtl) <= a + 1
        /\ \A s \in 0 .. ProgramTtl :
             /\ Aged(s, ProgramTtl) \in 0 .. ProgramTtl
             /\ Aged(s, ProgramTtl) < ProgramTtl => Aged(s, ProgramTtl) = s + 1 /\ s < ProgramTtl
    BY <1>1 DEF Aged, PayloadAges
  <1>3. ASSUME NEW h \in Hosts
        PROVE  /\ memory'[h] \in Kept \cup {None}
               /\ memory'[h] # None /\ memory'[h].since < ProgramTtl =>
                    memory'[h].age < memory'[h].since + ProgramTtl
    <2>1. CASE memory[h] = None
      BY <2>1 DEF RankTick
    <2>2. CASE memory[h] # None
      <3>1. memory[h] \in Kept
        BY <1>1, <2>2 DEF RankTypeOK
      <3>2. memory[h].age \in PayloadAges /\ memory[h].since \in 0 .. ProgramTtl
        BY <3>1, Records
      <3>3. memory'[h] = [age |-> Aged(memory[h].age, 2 * ProgramTtl),
                          since |-> Aged(memory[h].since, ProgramTtl)]
        BY <2>2 DEF RankTick
      <3>4. memory'[h] \in Kept
        BY <1>2, <3>2, <3>3, Records
      <3>5. memory[h].since < ProgramTtl => memory[h].age < memory[h].since + ProgramTtl
        BY <2>2 DEF RankInv, MemoryYoung
      <3>6. memory'[h].age <= memory[h].age + 1
        BY <1>2, <3>2, <3>3
      <3>7. memory'[h].since < ProgramTtl =>
                memory'[h].since = memory[h].since + 1 /\ memory[h].since < ProgramTtl
        BY <1>2, <3>2, <3>3
      <3>8. memory'[h].age \in Nat /\ memory[h].age \in Nat /\ memory[h].since \in Nat
        BY <1>1, <1>2, <3>2, <3>3 DEF PayloadAges
      <3> QED
        BY <1>1, <3>4, <3>5, <3>6, <3>7, <3>8
    <2> QED
      BY <2>1, <2>2
  <1>4. memory' \in [Hosts -> Kept \cup {None}] /\ MemoryYoung'
    BY <1>3 DEF RankTick, MemoryYoung
  <1>5. shared' \in Stored \cup {None} /\ SharedYoung'
    <2>1. CASE shared' = None
      BY <2>1 DEF SharedYoung
    <2>2. CASE shared # None /\ shared.left # 1
      <3>1. shared \in Stored
        BY <1>1, <2>2 DEF RankTypeOK
      <3>2. shared.age \in PayloadAges /\ shared.left \in 1 .. ProgramTtl
        BY <3>1, Records
      <3>3. shared' = [age |-> Aged(shared.age, 2 * ProgramTtl), left |-> shared.left - 1]
        BY <2>2 DEF RankTick
      <3>4. shared.left - 1 \in 1 .. ProgramTtl
        BY <1>1, <2>2, <3>2
      <3>5. shared' \in Stored
        BY <1>2, <3>2, <3>3, <3>4, Records
      <3>6. shared'.age <= shared.age + 1 /\ shared'.left = shared.left - 1
        BY <1>2, <3>2, <3>3
      <3>7. shared'.age \in Nat /\ shared.age \in Nat /\ shared.left \in Nat
        BY <1>1, <1>2, <3>2, <3>3 DEF PayloadAges
      <3>8. shared.age + shared.left <= ProgramTtl
        BY <2>2 DEF RankInv, SharedYoung
      <3> QED
        BY <1>1, <3>5, <3>6, <3>7, <3>8 DEF SharedYoung
    <2> QED
      BY <2>1, <2>2 DEF RankTick
  <1>6. began' \in [Requests -> 0 .. ProgramTtl]
    <2>1. ASSUME NEW r \in Requests
          PROVE  (IF rq[r] = "redis" THEN Aged(began[r], ProgramTtl) ELSE 0) \in 0 .. ProgramTtl
      BY <1>1, <1>2 DEF RankTypeOK
    <2> QED
      BY <2>1 DEF RankTick
  <1> QED
    BY <1>1, <1>4, <1>5, <1>6 DEF RankInv, RankTypeOK, RankTick, UnmarkedIsRecent

LEMMA NextRank ==
    ASSUME RankInv, [RankNext]_rankVars
    PROVE  RankInv'
  <1>1. CASE UNCHANGED rankVars
    BY <1>1 DEF rankVars, RankInv, RankTypeOK, MemoryYoung, SharedYoung, UnmarkedIsRecent
  <1>2. CASE RankTick
    BY <1>2, TickStep
  <1>3. CASE \E r \in Requests :
                \/ GetRanking(r) \/ ReadRedis(r) \/ Claim(r) \/ Compute(r) \/ Publish(r)
                \/ ComputeFails(r) \/ SetEvent(r) \/ Awoken(r) \/ WaitTimesOut(r)
    BY <1>3, RequestStep
  <1> QED
    BY <1>1, <1>2, <1>3 DEF RankNext

\* However many processes pass the ranking on to each other through Redis and
\* put it back into memory with new stamps, an answer that is not marked was
\* computed less than twice the time to live ago (get_ranking_program).
THEOREM AnswersRecent == RankSpec => []UnmarkedIsRecent
  <1>1. RankInv => UnmarkedIsRecent
    BY DEF RankInv
  <1> QED
    BY <1>1, InitRank, NextRank, PTL DEF RankSpec

\* The types of the caches and of the requests.
THEOREM RankTyped == RankSpec => []RankTypeOK
  <1>1. RankInv => RankTypeOK
    BY DEF RankInv
  <1> QED
    BY <1>1, InitRank, NextRank, PTL DEF RankSpec

-----------------------------------------------------------------------------
(* The single flight of the program ranking: who computes is whose event   *)
(* is in flight, and who waits does so for the one who computes.           *)

Leading(r) == rq[r] \in {"compute", "publish", "release"}

FlightInv ==
    /\ RankTypeOK
    /\ \A r \in Requests : Leading(r) => flight[HostOf[r]] = r
    /\ \A h \in Hosts : flight[h] # None => HostOf[flight[h]] = h /\ Leading(flight[h])
    /\ \A r \in Requests : event[r] # None => rq[r] = "wait" /\ flight[HostOf[r]] = event[r]

LEMMA InitFlight == RankInit => FlightInv
  <1> SUFFICES ASSUME RankInit PROVE FlightInv
    OBVIOUS
  <1>1. RankTypeOK
    BY InitRank DEF RankInv
  <1> QED
    BY <1>1, RankingAssumption DEF RankInit, FlightInv, Leading

\* A step of a request that neither leads before nor after it, and of one that
\* leads on, leave the event in flight alone.
LEMMA FlightRests ==
    ASSUME FlightInv, RankTypeOK', NEW r \in Requests, NEW place, UNCHANGED <<flight, event>>,
           rq' = [rq EXCEPT ![r] = place],
           Leading(r) <=> place \in {"compute", "publish", "release"},
           event[r] = None
    PROVE  FlightInv'
  <1>1. \A s \in Requests : Leading(s)' <=> Leading(s)
    BY DEF FlightInv, RankTypeOK, Leading
  <1>2. \A s \in Requests : s # r => rq'[s] = rq[s]
    BY DEF FlightInv, RankTypeOK
  <1>3. \A h \in Hosts : flight[h] # None => flight[h] \in Requests
    BY DEF FlightInv, RankTypeOK
  <1> QED
    BY <1>1, <1>2, <1>3 DEF FlightInv

LEMMA ClaimFlight ==
    ASSUME FlightInv, RankTypeOK', NEW r \in Requests, Claim(r)
    PROVE  FlightInv'
  <1>1. /\ rq[r] = "claim" /\ event[r] = None /\ HostOf[r] \in Hosts /\ r # None
        /\ flight \in [Hosts -> Requests \cup {None}] /\ event \in [Requests -> Requests \cup {None}]
        /\ rq \in [Requests -> {"idle", "redis", "claim", "compute", "publish", "release", "wait"}]
    BY RankingAssumption DEF Claim, FlightInv, RankTypeOK
  <1>2. CASE flight[HostOf[r]] = None
    <2>1. /\ flight' = [flight EXCEPT ![HostOf[r]] = r] /\ event' = event
          /\ rq' = [rq EXCEPT ![r] = "compute"]
      BY <1>2 DEF Claim, Go
    <2>2. \A s \in Requests : s # r => (Leading(s)' <=> Leading(s))
      BY <1>1, <2>1 DEF Leading
    <2>3. Leading(r)' /\ ~Leading(r)
      BY <1>1, <2>1 DEF Leading
    <2>4. \A s \in Requests : Leading(s) => HostOf[s] # HostOf[r]
      BY <1>2, RankingAssumption DEF FlightInv
    <2>5. \A s \in Requests : Leading(s)' => flight'[HostOf[s]] = s
      BY <1>1, <2>1, <2>2, <2>4, RankingAssumption DEF FlightInv
    <2>6. \A h \in Hosts : flight'[h] # None => HostOf[flight'[h]] = h /\ Leading(flight[h])'
      <3> SUFFICES ASSUME NEW h \in Hosts, flight'[h] # None
                   PROVE  HostOf[flight'[h]] = h /\ rq'[flight'[h]] \in {"compute", "publish", "release"}
        BY DEF Leading
      <3>1. CASE h = HostOf[r]
        BY <1>1, <2>1, <3>1
      <3>2. CASE h # HostOf[r]
        <4>1. flight'[h] = flight[h] /\ flight[h] \in Requests
          BY <1>1, <2>1, <3>2
        <4>2. HostOf[flight[h]] = h /\ rq[flight[h]] \in {"compute", "publish", "release"}
          BY <4>1 DEF FlightInv, Leading
        <4>3. flight[h] # r
          BY <1>1, <4>2
        <4> QED
          BY <1>1, <2>1, <4>1, <4>2, <4>3
      <3> QED
        BY <3>1, <3>2
    <2>7. \A s \in Requests : event'[s] # None => rq'[s] = "wait" /\ flight'[HostOf[s]] = event'[s]
      BY <1>1, <1>2, <2>1, RankingAssumption DEF FlightInv
    <2> QED
      BY <2>5, <2>6, <2>7 DEF FlightInv
  <1>3. CASE flight[HostOf[r]] # None
    <2>1. /\ event' = [event EXCEPT ![r] = flight[HostOf[r]]] /\ flight' = flight
          /\ rq' = [rq EXCEPT ![r] = "wait"]
      BY <1>3 DEF Claim, Go
    <2>2. \A s \in Requests : Leading(s)' <=> Leading(s)
      BY <1>1, <2>1 DEF Leading
    <2>3. \A h \in Hosts : flight[h] # None => flight[h] \in Requests
      BY <1>1
    <2>4. \A s \in Requests : event'[s] # None => rq'[s] = "wait" /\ flight'[HostOf[s]] = event'[s]
      BY <1>1, <2>1 DEF FlightInv
    <2> QED
      BY <2>1, <2>2, <2>3, <2>4 DEF FlightInv
  <1> QED
    BY <1>2, <1>3

\* The end of a flight: nobody else of the process leads, and its waiters are
\* told.
LEMMA SetEventFlight ==
    ASSUME FlightInv, RankTypeOK', NEW r \in Requests, SetEvent(r)
    PROVE  FlightInv'
  <1>1. /\ rq[r] = "release" /\ Leading(r) /\ HostOf[r] \in Hosts /\ flight[HostOf[r]] = r
        /\ flight \in [Hosts -> Requests \cup {None}] /\ event \in [Requests -> Requests \cup {None}]
        /\ rq \in [Requests -> {"idle", "redis", "claim", "compute", "publish", "release", "wait"}]
        /\ r # None
    BY RankingAssumption DEF SetEvent, FlightInv, RankTypeOK, Leading
  <1>2. /\ flight' = [flight EXCEPT ![HostOf[r]] = None]
        /\ rq' = [rq EXCEPT ![r] = "idle"]
        /\ \A s \in Requests : event'[s] = IF event[s] = r THEN None ELSE event[s]
    BY <1>1 DEF SetEvent, Go
  <1>3. \A s \in Requests : Leading(s)' => s # r /\ Leading(s)
    BY <1>1, <1>2 DEF Leading
  <1>4. \A s \in Requests : Leading(s)' => flight'[HostOf[s]] = s
    <2> SUFFICES ASSUME NEW s \in Requests, Leading(s)'
                 PROVE  flight'[HostOf[s]] = s
      OBVIOUS
    <2>1. s # r /\ flight[HostOf[s]] = s /\ HostOf[s] \in Hosts
      BY <1>3, RankingAssumption DEF FlightInv
    <2>2. HostOf[s] # HostOf[r]
      BY <1>1, <2>1
    <2> QED
      BY <1>1, <1>2, <2>1, <2>2
  <1>5. ASSUME NEW h \in Hosts, flight'[h] # None
        PROVE  HostOf[flight'[h]] = h /\ Leading(flight[h])'
    <2>1. h # HostOf[r]
      BY <1>1, <1>2, <1>5, Zenon
    <2>2. flight'[h] = flight[h] /\ flight[h] \in Requests
      BY <1>1, <1>2, <1>5, <2>1
    <2>3. HostOf[flight[h]] = h /\ rq[flight[h]] \in {"compute", "publish", "release"}
      BY <1>5, <2>2 DEF FlightInv, Leading
    <2>4. flight[h] # r
      BY <2>1, <2>3
    <2> QED
      BY <1>1, <1>2, <2>2, <2>3, <2>4 DEF Leading
  <1>6. ASSUME NEW s \in Requests, event'[s] # None
        PROVE  rq'[s] = "wait" /\ flight'[HostOf[s]] = event'[s]
    <2>1. event[s] # r /\ event'[s] = event[s] /\ event[s] # None
      BY <1>2, <1>6
    <2>2. rq[s] = "wait" /\ flight[HostOf[s]] = event[s] /\ HostOf[s] \in Hosts
      BY <2>1, RankingAssumption DEF FlightInv
    <2>3. HostOf[s] # HostOf[r] /\ s # r
      BY <1>1, <2>1, <2>2
    <2> QED
      BY <1>1, <1>2, <2>1, <2>2, <2>3
  <1> QED
    BY <1>4, <1>5, <1>6 DEF FlightInv

LEMMA NextFlight ==
    ASSUME RankInv, FlightInv, [RankNext]_rankVars
    PROVE  FlightInv'
  <1>1. RankTypeOK'
    BY NextRank DEF RankInv
  <1>2. ASSUME NEW r \in Requests, GetRanking(r) \/ ReadRedis(r) \/ Awoken(r)
        PROVE  FlightInv'
    <2>1. UNCHANGED <<flight, event>> /\ event[r] = None /\ rq \in [Requests -> {"idle", "redis",
              "claim", "compute", "publish", "release", "wait"}]
      BY <1>2 DEF GetRanking, ReadRedis, Awoken, FlightInv, RankTypeOK
    <2>2. ~Leading(r)
      BY <1>2 DEF GetRanking, ReadRedis, Awoken, Leading
    <2>3. \E place \in {"idle", "redis", "claim"} : rq' = [rq EXCEPT ![r] = place]
      <3>1. CASE UNCHANGED rq
        <4>1. rq' = [rq EXCEPT ![r] = rq[r]]
          BY <2>1, <3>1
        <4>2. CASE GetRanking(r)
          BY <4>1, <4>2 DEF GetRanking
        <4>3. CASE ReadRedis(r)
          BY <4>1, <4>3 DEF ReadRedis
        <4>4. CASE Awoken(r)
          BY <2>1, <3>1, <4>4 DEF Awoken, Go
        <4> QED
          BY <1>2, <4>2, <4>3, <4>4
      <3>2. CASE Go(r, "idle") \/ Go(r, "redis") \/ Go(r, "claim")
        BY <3>2 DEF Go
      <3> QED
        BY <1>2, <3>1, <3>2 DEF GetRanking, ReadRedis, Awoken
    <2> QED
      BY <1>1, <2>1, <2>2, <2>3, FlightRests
  <1>3. ASSUME NEW r \in Requests, Compute(r) \/ Publish(r) \/ ComputeFails(r)
        PROVE  FlightInv'
    <2>1. UNCHANGED <<flight, event>> /\ Leading(r) /\ event[r] = None
      BY <1>3 DEF Compute, Publish, ComputeFails, Leading, FlightInv
    <2>2. rq' = [rq EXCEPT ![r] = "publish"] \/ rq' = [rq EXCEPT ![r] = "release"]
      BY <1>3 DEF Compute, Publish, ComputeFails, Go
    <2> QED
      BY <1>1, <2>1, <2>2, FlightRests
  <1>4. ASSUME NEW r \in Requests, WaitTimesOut(r)
        PROVE  FlightInv'
    <2>1. /\ rq[r] = "wait" /\ rq' = [rq EXCEPT ![r] = "idle"] /\ UNCHANGED flight
          /\ event' = [event EXCEPT ![r] = None]
      BY <1>4 DEF WaitTimesOut, Go
    <2>2. \A s \in Requests : Leading(s)' <=> Leading(s)
      BY <2>1 DEF FlightInv, RankTypeOK, Leading
    <2>3. \A h \in Hosts : flight[h] # None => flight[h] \in Requests
      BY DEF FlightInv, RankTypeOK
    <2>4. \A s \in Requests : event'[s] # None => rq'[s] = "wait" /\ flight'[HostOf[s]] = event'[s]
      BY <2>1 DEF FlightInv, RankTypeOK
    <2> QED
      BY <1>1, <2>1, <2>2, <2>3, <2>4 DEF FlightInv
  <1>5. CASE RankTick \/ UNCHANGED rankVars
    <2>1. UNCHANGED <<flight, rq, event>>
      BY <1>5 DEF RankTick, rankVars
    <2> QED
      BY <1>1, <2>1 DEF FlightInv, Leading
  <1> QED
    BY <1>1, <1>2, <1>3, <1>4, <1>5, ClaimFlight, SetEventFlight DEF RankNext

\* At most one request of a process computes the ranking, and whoever waits in
\* vain has only the time-out to blame: the request it waits for is of its own
\* process and has still to set the event, in whatever order requests time
\* out, fail and take the place flight (part06 700-800).
THEOREM RankingFlight ==
    RankSpec => [](/\ \A r, s \in Requests : Leading(r) /\ Leading(s) /\ HostOf[r] = HostOf[s] => r = s
                   /\ \A r \in Requests : event[r] # None =>
                        HostOf[event[r]] = HostOf[r] /\ Leading(event[r]))
  <1>1. FlightInv => /\ \A r, s \in Requests :
                            Leading(r) /\ Leading(s) /\ HostOf[r] = HostOf[s] => r = s
                     /\ \A r \in Requests : event[r] # None =>
                            HostOf[event[r]] = HostOf[r] /\ Leading(event[r])
    <2> SUFFICES ASSUME FlightInv
                 PROVE  /\ \A r, s \in Requests :
                               Leading(r) /\ Leading(s) /\ HostOf[r] = HostOf[s] => r = s
                        /\ \A r \in Requests : event[r] # None =>
                               HostOf[event[r]] = HostOf[r] /\ Leading(event[r])
      OBVIOUS
    <2>1. \A r, s \in Requests : Leading(r) /\ Leading(s) /\ HostOf[r] = HostOf[s] => r = s
      BY DEF FlightInv
    <2>2. ASSUME NEW r \in Requests, event[r] # None
          PROVE  HostOf[event[r]] = HostOf[r] /\ Leading(event[r])
      <3>1. HostOf[r] \in Hosts /\ flight[HostOf[r]] = event[r]
        BY <2>2, RankingAssumption DEF FlightInv
      <3> QED
        BY <2>2, <3>1 DEF FlightInv
    <2> QED
      BY <2>1, <2>2
  <1> QED
    BY <1>1, InitRank, NextRank, InitFlight, NextFlight, PTL DEF RankSpec

-----------------------------------------------------------------------------
(* The limit-up watch: a stock is said to be off its limit only when it was *)
(* seen there or its failed probe was taken for it, wherever that is said:  *)
(* in what a scan has seen, in the releases it found, in the list and in    *)
(* the table.                                                               *)

Off == wereOff \cup misread

SeenOff == \A t \in Threads : \A c \in Watched : scan[t].seen[c] = "off" => c \in Off

NewsOff == \A t \in Threads : scan[t].news \subseteq Off

LimitInv ==
    /\ LimitTypeOK
    /\ Watched \ atLimit \subseteq wereOff
    /\ events \subseteq Off /\ rows \subseteq Off
    /\ SeenOff /\ NewsOff

Scans == [at : Steps, seen : Seen, state : Seen, free : SUBSET Watched,
          news : SUBSET Watched, back : SUBSET Watched]

LEMMA NoScanType ==
    /\ NoScan \in Scans
    /\ NoScan.news = {} /\ \A c \in Watched : NoScan.seen[c] = "none"
  BY DEF Scans, NoScan, Steps, Seen, Unseen

LEMMA InitLimit == LimitInit => LimitInv
  <1> SUFFICES ASSUME LimitInit PROVE LimitInv
    OBVIOUS
  <1>1. Unseen \in Seen
    BY DEF Unseen, Seen
  <1>2. LimitTypeOK
    BY <1>1, NoScanType DEF LimitInit, LimitTypeOK, Scans
  <1>3. SeenOff /\ NewsOff
    BY NoScanType DEF LimitInit, SeenOff, NewsOff
  <1> QED
    BY <1>2, <1>3 DEF LimitInit, LimitInv

\* What is known of the stocks may grow while the scans stay as they are.
LEMMA GrowingOff ==
    ASSUME LimitInv, LimitTypeOK', Off \subseteq Off', UNCHANGED scan,
           Watched \ atLimit' \subseteq wereOff', events' \subseteq Off', rows' \subseteq Off'
    PROVE  LimitInv'
  BY DEF LimitInv, SeenOff, NewsOff

\* A step of one scan.
LEMMA OneScan ==
    ASSUME LimitInv, NEW t \in Threads, NEW r \in Scans, Becomes(t, r),
           UNCHANGED <<atLimit, ranked, calm, wereOff>>,
           tracked' \in Seen, cooling' \subseteq Watched, scanned' \in BOOLEAN,
           Off \subseteq Off', misread' \subseteq Watched,
           events' \subseteq Off', rows' \subseteq Off', r.news \subseteq Off',
           \A c \in Watched : r.seen[c] = "off" => c \in Off'
    PROVE  LimitInv'
  <1>1. scan \in [Threads -> Scans] /\ scan' = [scan EXCEPT ![t] = r]
    BY DEF LimitInv, LimitTypeOK, Scans, Becomes
  <1>2. scan' \in [Threads -> Scans]
    BY <1>1
  <1>3. wereOff' \subseteq Watched /\ Off' \subseteq Watched
    BY DEF LimitInv, LimitTypeOK, Off
  <1>4. LimitTypeOK'
    BY <1>2, <1>3 DEF LimitInv, LimitTypeOK, Scans
  <1>5. SeenOff'
    BY <1>1 DEF LimitInv, SeenOff
  <1>6. NewsOff'
    BY <1>1 DEF LimitInv, NewsOff
  <1> QED
    BY <1>4, <1>5, <1>6 DEF LimitInv

LEMMA OldScan ==
    ASSUME LimitInv, NEW t \in Threads
    PROVE  /\ scan[t] \in Scans /\ scan[t].news \subseteq Off
           /\ \A c \in Watched : scan[t].seen[c] = "off" => c \in Off
           /\ tracked \in Seen /\ cooling \subseteq Watched /\ scanned \in BOOLEAN
           /\ misread \subseteq Watched /\ wereOff \subseteq Watched
           /\ events \subseteq Off /\ rows \subseteq Off /\ events \subseteq Watched
  BY DEF LimitInv, LimitTypeOK, SeenOff, NewsOff, Scans

LEMMA MarketMovesOff ==
    ASSUME LimitInv, NEW c \in Watched, MarketMoves(c)
    PROVE  LimitInv'
  <1>1. LimitTypeOK'
    BY DEF LimitInv, LimitTypeOK, MarketMoves
  <1>2. Off \subseteq Off'
    BY DEF MarketMoves, Off
  <1>3. Watched \ atLimit' \subseteq wereOff'
    BY DEF MarketMoves
  <1>4. UNCHANGED <<scan, events, rows>>
    BY DEF MarketMoves
  <1> QED
    BY <1>1, <1>2, <1>3, <1>4, GrowingOff DEF LimitInv

LEMMA OthersWriteOff ==
    ASSUME LimitInv, NEW c \in Watched, OthersWrite(c)
    PROVE  LimitInv'
  <1>1. LimitTypeOK'
    BY DEF LimitInv, LimitTypeOK, OthersWrite
  <1>2. UNCHANGED <<scan, events, atLimit, wereOff, misread>> /\ rows' \subseteq rows \cup {c}
        /\ c \in rows \cup wereOff
    BY DEF OthersWrite
  <1>3. rows' \subseteq Off' /\ Off' = Off
    BY <1>2 DEF Off, LimitInv
  <1> QED
    BY <1>1, <1>2, <1>3, GrowingOff DEF LimitInv

LEMMA TimeOff ==
    ASSUME LimitInv, Rest \/ Elapse \/ \E c \in Watched : CoolDown(c)
    PROVE  LimitInv'
  <1>1. LimitTypeOK'
    BY DEF LimitInv, LimitTypeOK, Rest, Elapse, CoolDown
  <1>2. UNCHANGED <<scan, events, rows, atLimit, wereOff, misread>>
    BY DEF Rest, Elapse, CoolDown
  <1>3. Off' = Off
    BY <1>2 DEF Off
  <1> QED
    BY <1>1, <1>2, <1>3, GrowingOff DEF LimitInv

LEMMA RestartOff ==
    ASSUME LimitInv, Restart
    PROVE  LimitInv'
  <1>1. LimitTypeOK'
    BY NoScanType DEF LimitInv, LimitTypeOK, Restart, Scans, Seen, Unseen
  <1>2. SeenOff' /\ NewsOff'
    BY NoScanType DEF Restart, SeenOff, NewsOff
  <1>3. events' \in {rows, {}} /\ UNCHANGED <<rows, atLimit, wereOff, misread>>
    BY DEF Restart
  <1>4. Off' = Off
    BY <1>3 DEF Off
  <1> QED
    BY <1>1, <1>2, <1>3, <1>4 DEF LimitInv

LEMMA BeginOff ==
    ASSUME LimitInv, NEW t \in Threads, Begin(t)
    PROVE  LimitInv'
  <1>1. UNCHANGED <<atLimit, ranked, calm, tracked, events, rows, cooling, wereOff, misread>>
        /\ scanned' = TRUE
    BY Zenon DEF Begin
  <1>2. Off' = Off
    BY <1>1 DEF Off
  <1>3. CASE UNCHANGED scan
    <2>1. LimitTypeOK'
      BY <1>1, <1>3 DEF LimitInv, LimitTypeOK
    <2> QED
      BY <1>1, <1>2, <1>3, <2>1, GrowingOff DEF LimitInv
  <1>4. ASSUME NEW got \in SUBSET ranked,
               Becomes(t, [scan[t] EXCEPT !.at = "prev", !.free = Watched \ cooling,
                            !.seen = [c \in Watched |-> IF c \in got THEN Is(c) ELSE "none"]])
        PROVE  LimitInv'
    <2>1. PICK seen : seen = [c \in Watched |-> IF c \in got THEN Is(c) ELSE "none"]
      BY Zenon
    <2>2. seen \in Seen /\ \A c \in Watched : seen[c] = "off" => c \in Off
      BY <2>1 DEF Seen, Is, LimitInv, Off
    <2>3. PICK r : r = [scan[t] EXCEPT !.at = "prev", !.free = Watched \ cooling, !.seen = seen]
      BY Zenon
    <2>4. Becomes(t, r)
      BY <1>4, <2>1, <2>3, Zenon
    <2>5. r \in Scans /\ r.seen = seen /\ r.news = scan[t].news
      BY <2>2, <2>3, OldScan DEF Scans, Steps
    <2> QED
      BY <1>1, <1>2, <2>2, <2>4, <2>5, OldScan, OneScan
  <1> QED
    BY <1>3, <1>4, Zenon DEF Begin

LEMMA ReadPrevOff ==
    ASSUME LimitInv, NEW t \in Threads, ReadPrev(t)
    PROVE  LimitInv'
  <1>1. UNCHANGED <<atLimit, ranked, calm, tracked, events, rows, cooling, scanned, wereOff,
                    misread>>
    BY Zenon DEF ReadPrev
  <1>2. Off' = Off
    BY <1>1 DEF Off
  <1>3. PICK goes : goes = IF Missing(tracked, scan[t].seen) = {} THEN "diff" ELSE "probe"
    BY Zenon
  <1>4. PICK r : r = [scan[t] EXCEPT !.state = tracked, !.at = goes]
    BY Zenon
  <1>5. Becomes(t, r)
    BY <1>3, <1>4, Zenon DEF ReadPrev
  <1>6. goes \in Steps
    BY <1>3 DEF Steps
  <1>7. r \in Scans /\ r.seen = scan[t].seen /\ r.news = scan[t].news
    BY <1>4, <1>6, OldScan DEF Scans
  <1> QED
    BY <1>1, <1>2, <1>5, <1>7, OldScan, OneScan

\* A failed probe that is taken for a price puts its stock among the misread.
LEMMA ProbeOff ==
    ASSUME LimitInv, NEW t \in Threads, Probe(t)
    PROVE  LimitInv'
  <1>1. UNCHANGED <<atLimit, ranked, calm, tracked, events, rows, cooling, scanned, wereOff>>
    BY Zenon DEF Probe
  <1>2. PICK missing : missing = Missing(scan[t].state, scan[t].seen)
    BY Zenon
  <1>3. PICK answers \in Seen :
            /\ \A c \in Watched \ missing : answers[c] = scan[t].seen[c]
            /\ misread' = misread \cup {c \in missing \ wereOff : answers[c] = "off"}
            /\ Becomes(t, [scan[t] EXCEPT !.at = "diff", !.seen = answers])
    BY <1>2, Zenon DEF Probe
  <1>4. missing \subseteq Watched
    BY <1>2 DEF Missing
  <1>5. misread' \subseteq Watched
    BY <1>3, <1>4, OldScan
  <1>6. Off \subseteq Off'
    BY <1>1, <1>3 DEF Off
  <1>7. \A c \in Watched : answers[c] = "off" => c \in Off'
    BY <1>1, <1>3, <1>6, OldScan DEF Off
  <1>8. PICK r : r = [scan[t] EXCEPT !.at = "diff", !.seen = answers]
    BY Zenon
  <1>9. r \in Scans /\ r.seen = answers /\ r.news = scan[t].news /\ Becomes(t, r)
    <2>1. Becomes(t, r)
      BY <1>3, <1>8, Zenon
    <2> QED
      BY <1>8, <2>1, OldScan DEF Scans, Steps
  <1> QED
    BY <1>1, <1>5, <1>6, <1>7, <1>9, OldScan, OneScan

\* The releases a scan finds have been seen below their limit.
LEMMA DiffOff ==
    ASSUME LimitInv, NEW t \in Threads, Diff(t)
    PROVE  LimitInv'
  <1>1. PICK news : news = scan[t].free \cap
                        {c \in Watched : scan[t].state[c] = "up" /\ scan[t].seen[c] = "off"}
    BY Zenon
  <1>2. UNCHANGED <<atLimit, ranked, calm, tracked, events, rows, scanned, wereOff, misread>>
    BY Zenon DEF Diff, Noted
  <1>3. news \subseteq Watched /\ news \subseteq Off /\ Off' = Off
    BY <1>1, <1>2, OldScan DEF Off
  <1>4. PICK kept : kept = NextState(scan[t].state, scan[t].seen)
    BY Zenon
  <1>5. kept \in Seen
    BY <1>4, OldScan DEF NextState, Scans, Seen
  <1>6. cooling' = cooling \cup news
        /\ scan' = [u \in Threads |->
            IF u = t THEN [scan[t] EXCEPT !.at = "broken", !.news = news, !.free = {},
                                          !.state = kept]
                     ELSE [scan[u] EXCEPT !.free = @ \ news]]
    BY <1>1, <1>4, Zenon DEF Diff, Noted
  <1>7. PICK r : r = [scan[t] EXCEPT !.at = "broken", !.news = news, !.free = {}, !.state = kept]
    BY Zenon
  <1>8. r \in Scans /\ r.news = news /\ r.seen = scan[t].seen
    BY <1>3, <1>5, <1>7, OldScan DEF Scans, Steps
  <1>9. scan'[t] = r /\ scan' = [u \in Threads |-> scan'[u]]
    BY <1>6, <1>7, Zenon
  <1>10. ASSUME NEW u \in Threads, u # t
         PROVE  scan'[u] \in Scans /\ scan'[u].news = scan[u].news /\ scan'[u].seen = scan[u].seen
    BY <1>6, <1>10, OldScan DEF Scans
  <1>11. scan' \in [Threads -> Scans]
    BY <1>8, <1>9, <1>10
  <1>12. LimitTypeOK'
    BY <1>2, <1>3, <1>6, <1>11 DEF LimitInv, LimitTypeOK, Scans
  <1>13. SeenOff' /\ NewsOff'
    BY <1>3, <1>8, <1>9, <1>10, OldScan DEF SeenOff, NewsOff
  <1> QED
    BY <1>2, <1>3, <1>12, <1>13 DEF LimitInv

LEMMA ReadBrokenOff ==
    ASSUME LimitInv, NEW t \in Threads, ReadBroken(t)
    PROVE  LimitInv'
  <1>1. UNCHANGED <<atLimit, ranked, calm, tracked, events, rows, cooling, scanned, wereOff,
                    misread>>
    BY Zenon DEF ReadBroken, Found
  <1>2. Off' = Off
    BY <1>1 DEF Off
  <1>3. PICK back : back = {c \in events : scan[t].seen[c] = "up"}
    BY Zenon
  <1>4. PICK goes : goes = IF scan[t].news = {} THEN "commit" ELSE "save"
    BY Zenon
  <1>5. PICK r : r = [scan[t] EXCEPT !.at = goes, !.seen = Unseen, !.back = back]
    BY Zenon
  <1>6. Becomes(t, r)
    BY <1>3, <1>4, <1>5, Zenon DEF ReadBroken, Found
  <1>7. back \subseteq Watched /\ goes \in Steps
    BY <1>3, <1>4, OldScan DEF Steps
  <1>8. Unseen \in Seen /\ \A c \in Watched : Unseen[c] = "none"
    BY DEF Unseen, Seen
  <1>9. r \in Scans /\ r.seen = Unseen /\ r.news = scan[t].news
    BY <1>5, <1>7, <1>8, OldScan DEF Scans
  <1> QED
    BY <1>1, <1>2, <1>6, <1>8, <1>9, OldScan, OneScan

LEMMA SaveOff ==
    ASSUME LimitInv, NEW t \in Threads, Save(t)
    PROVE  LimitInv'
  <1>1. UNCHANGED <<atLimit, ranked, calm, tracked, events, cooling, scanned, wereOff, misread>>
        /\ rows' \subseteq rows \cup scan[t].news
    BY DEF Save
  <1>2. Off' = Off
    BY <1>1 DEF Off
  <1>3. PICK r : r = [scan[t] EXCEPT !.at = "commit"]
    BY Zenon
  <1>4. Becomes(t, r)
    BY <1>3, Zenon DEF Save
  <1>5. r \in Scans /\ r.seen = scan[t].seen /\ r.news = scan[t].news
    BY <1>3, OldScan DEF Scans, Steps
  <1> QED
    BY <1>1, <1>2, <1>4, <1>5, OldScan, OneScan

LEMMA ScanEnds ==
    ASSUME LimitInv, NEW t \in Threads, PutState(t) \/ Delete(t)
    PROVE  LimitInv'
  <1>1. UNCHANGED <<atLimit, ranked, calm, cooling, scanned, wereOff, misread>>
    BY Zenon DEF PutState, Delete
  <1>2. Off' = Off
    BY <1>1 DEF Off
  <1>3. events' \subseteq events \cup scan[t].news /\ rows' \subseteq rows
        /\ tracked' \in {tracked, scan[t].state}
    BY DEF PutState, Delete
  <1>4. PICK r : r = [NoScan EXCEPT !.at = "delete", !.back = scan[t].back]
    BY Zenon
  <1>5. Becomes(t, NoScan) \/ Becomes(t, r)
    BY <1>4, Zenon DEF PutState, Delete
  <1>6. r \in Scans /\ r.seen = NoScan.seen /\ r.news = NoScan.news
    BY <1>4, NoScanType, OldScan DEF Scans, Steps
  <1>7. tracked' \in Seen
    BY <1>3, OldScan DEF Scans
  <1> QED
    BY <1>1, <1>2, <1>3, <1>5, <1>6, <1>7, NoScanType, OldScan, OneScan

LEMMA NextLimit ==
    ASSUME LimitInv, [LimitNext]_limitVars
    PROVE  LimitInv'
  <1>1. CASE UNCHANGED limitVars
    BY <1>1 DEF limitVars, LimitInv, LimitTypeOK, SeenOff, NewsOff, Off
  <1>2. CASE \E c \in Watched : MarketMoves(c) \/ OthersWrite(c) \/ CoolDown(c)
    BY <1>2, MarketMovesOff, OthersWriteOff, TimeOff
  <1>3. CASE Rest \/ Elapse \/ Restart
    BY <1>3, TimeOff, RestartOff
  <1>4. CASE \E t \in Threads : Begin(t) \/ ReadPrev(t) \/ Probe(t) \/ Diff(t)
                                \/ ReadBroken(t) \/ Save(t) \/ PutState(t) \/ Delete(t)
    BY <1>4, BeginOff, ReadPrevOff, ProbeOff, DiffOff, ReadBrokenOff, SaveOff, ScanEnds
  <1> QED
    BY <1>1, <1>2, <1>3, <1>4 DEF LimitNext

\* Whatever scans overlap, whatever a restart loads and other processes write,
\* a stock is listed as released only if it was below its limit or a failed
\* probe of it was taken for a price (_scan_limit_up_break).
THEOREM ListedWereReleased == LimitSpec => []ListedWereOff
  <1>1. LimitInv => ListedWereOff
    BY DEF LimitInv, ListedWereOff, Off
  <1> QED
    BY <1>1, InitLimit, NextLimit, PTL DEF LimitSpec

\* The types of the scans and of what they share.
THEOREM LimitTyped == LimitSpec => []LimitTypeOK
  <1>1. LimitInv => LimitTypeOK
    BY DEF LimitInv
  <1> QED
    BY <1>1, InitLimit, NextLimit, PTL DEF LimitSpec

-----------------------------------------------------------------------------
(* The degradation gate.                                                   *)

\* Total is what its definition says, on every initial part of the window.
TotalRec(g, m) ==
    g = [n \in 0 .. m |->
            IF n = 0 THEN [calls |-> 0, errors |-> 0]
            ELSE [calls  |-> g[n - 1].calls + window[n].calls,
                  errors |-> g[n - 1].errors + window[n].errors]]

LEMMA TotalExists == \A m \in 0 .. Width : \E g : TotalRec(g, m)
  <1> DEFINE Bad == {m \in 0 .. Width : ~ \E g : TotalRec(g, m)}
  <1> SUFFICES ASSUME Bad # {} PROVE FALSE
    OBVIOUS
  <1>1. Bad \subseteq Nat
    BY GateAssumption
  <1>2. PICK b \in Bad : \A m \in Bad : b <= m
    <2> HIDE DEF Bad
    <2> QED
      BY <1>1, Least
  <1>3. b \in 0 .. Width /\ Width \in Nat
    BY GateAssumption
  <1>4. CASE b = 0
    <2>1. TotalRec([n \in 0 .. 0 |-> [calls |-> 0, errors |-> 0]], 0)
      BY DEF TotalRec
    <2> QED
      BY <1>4, <2>1
  <1>5. CASE b # 0
    <2>1. b - 1 \in 0 .. Width /\ b - 1 \notin Bad
      BY <1>1, <1>2, <1>3, <1>5
    <2>2. PICK g : TotalRec(g, b - 1)
      BY <2>1
    <2> DEFINE h == [n \in 0 .. b |->
                        IF n = 0 THEN [calls |-> 0, errors |-> 0]
                        ELSE [calls  |-> g[n - 1].calls + window[n].calls,
                              errors |-> g[n - 1].errors + window[n].errors]]
    <2>3. ASSUME NEW n \in 0 .. b - 1
          PROVE  h[n] = g[n]
      BY <1>3, <2>2 DEF TotalRec
    <2>4. TotalRec(h, b)
      <3>1. \A n \in 0 .. b : n # 0 => n - 1 \in 0 .. b - 1
        BY <1>3
      <3>2. \A n \in 0 .. b : n # 0 => h[n - 1] = g[n - 1]
        BY <2>3, <3>1
      <3> QED
        BY <3>2 DEF TotalRec
    <2> QED
      BY <2>4
  <1> QED
    BY <1>4, <1>5

LEMMA TotalIs == TotalRec(Total, Width)
  <1>1. Width \in 0 .. Width
    BY GateAssumption
  <1>2. \E g : TotalRec(g, Width)
    BY <1>1, TotalExists
  <1>3. Total = CHOOSE g : TotalRec(g, Width)
    BY Zenon DEF Total, TotalRec
  <1> QED
    BY <1>2, <1>3, Zenon

\* A window without errors has a total without errors.
LEMMA CleanTotal ==
    ASSUME GateTypeOK, \A i \in 1 .. Width : window[i].errors = 0
    PROVE  \A n \in 0 .. Width : Total[n].calls \in Nat /\ Total[n].errors = 0
  <1> DEFINE Bad == {n \in 0 .. Width : ~(Total[n].calls \in Nat /\ Total[n].errors = 0)}
  <1> SUFFICES ASSUME Bad # {} PROVE FALSE
    OBVIOUS
  <1>1. Bad \subseteq Nat
    BY GateAssumption
  <1>2. PICK b \in Bad : \A m \in Bad : b <= m
    <2> HIDE DEF Bad
    <2> QED
      BY <1>1, Least
  <1>3. b \in 0 .. Width /\ Width \in Nat
    BY GateAssumption
  <1>4. Total[b] = IF b = 0 THEN [calls |-> 0, errors |-> 0]
                   ELSE [calls  |-> Total[b - 1].calls + window[b].calls,
                         errors |-> Total[b - 1].errors + window[b].errors]
    BY <1>3, TotalIs DEF TotalRec
  <1>5. CASE b = 0
    BY <1>4, <1>5
  <1>6. CASE b # 0
    <2>1. b - 1 \in 0 .. Width /\ b - 1 \notin Bad /\ b \in 1 .. Width
      BY <1>1, <1>2, <1>3, <1>6
    <2>2. Total[b - 1].calls \in Nat /\ Total[b - 1].errors = 0
      BY <2>1
    <2>3. window[b].calls \in Nat /\ window[b].errors = 0
      BY <2>1, GateAssumption DEF GateTypeOK, Bucket
    <2>4. Total[b].calls \in Nat /\ Total[b].errors = 0
      BY <1>4, <1>6, <2>2, <2>3
    <2> QED
      BY <2>4
  <1> QED
    BY <1>5, <1>6

LEMMA CleanIsFine ==
    ASSUME GateTypeOK, NEW n \in 1 .. Width, \A i \in 1 .. Width : window[i].errors = 0
    PROVE  ~Degraded(n)
  <1> SUFFICES ASSUME Degraded(n) PROVE FALSE
    OBVIOUS
  <1>1. Total[n].calls \in Nat /\ Total[n].errors = 0
    BY CleanTotal, GateAssumption
  <1>2. PICK calls \in Nat : calls = Total[n].calls
    BY <1>1
  <1>3. calls >= MinCalls /\ 0 * RateDen >= RateNum * calls
    BY <1>1, <1>2 DEF Degraded
  <1>4. calls > 0 /\ 0 * RateDen = 0
    BY <1>3, GateAssumption
  <1>5. RateNum * calls > 0
    <2>1. \A k, m \in Nat : k > 0 /\ m > 0 => k * m > 0
      OBVIOUS
    <2> QED
      BY <1>4, <2>1, GateAssumption
  <1>6. RateNum * calls \in Nat
    BY GateAssumption
  <1> QED
    BY <1>3, <1>4, <1>5, <1>6

\* The gate is shut exactly while the last Required evaluations were all bad, and
\* a call of the poller that is under way is one still to be counted.
GateInv == GateTypeOK /\ (gateShut <=> gateStreak = Required) /\ (calling => ranks > 0)

LEMMA InitGate == GateInit => GateInv
  <1> SUFFICES ASSUME GateInit PROVE GateInv
    OBVIOUS
  <1>1. GateTypeOK
    <2>1. Empty \in Bucket
      BY GateAssumption DEF Bucket, Empty
    <2>2. window \in [1 .. Width -> Bucket] /\ gateStreak \in 0 .. Required
      BY <2>1, GateAssumption DEF GateInit
    <2>3. /\ up \in BOOLEAN /\ crowd \in BOOLEAN /\ evalDue \in BOOLEAN /\ gateShut \in BOOLEAN
          /\ calling \in BOOLEAN /\ lull \in BOOLEAN /\ asking \in BOOLEAN
      BY Zenon DEF GateInit
    <2>4. ranks \in 0 .. RankCalls /\ programs \in 0 .. ProgramCalls /\ pause \in 0 .. Width
      BY GateAssumption DEF GateInit
    <2> QED
      BY <2>2, <2>3, <2>4, Zenon DEF GateTypeOK
  <1>2. ~gateShut /\ gateStreak # Required /\ ~calling
    BY GateAssumption DEF GateInit
  <1> QED
    BY <1>1, <1>2 DEF GateInv

LEMMA EvaluateStep ==
    ASSUME GateInv, NEW n, Evaluate(n)
    PROVE  /\ gateStreak' \in 0 .. Required /\ evalDue' \in BOOLEAN /\ gateShut' \in BOOLEAN
           /\ gateShut' <=> gateStreak' = Required
  <1>1. StreakAfter(n) \in 0 .. Required
    BY GateAssumption DEF StreakAfter, GateInv, GateTypeOK
  <1>2. CASE evalDue
    <2>1. gateStreak' = StreakAfter(n) /\ evalDue' = FALSE /\ gateShut' = (gateStreak' >= Required)
      BY <1>2, Zenon DEF Evaluate
    <2>2. gateStreak' >= Required <=> gateStreak' = Required
      BY <1>1, <2>1, GateAssumption
    <2>3. CASE gateStreak' >= Required
      <3>1. gateShut' = TRUE
        BY <2>1, <2>3
      <3> QED
        BY <1>1, <2>1, <2>2, <2>3, <3>1, Zenon
    <2>4. CASE ~(gateStreak' >= Required)
      <3>1. (gateStreak' >= Required) = FALSE
        BY <2>4
      <3>2. gateShut' = FALSE
        BY <2>1, <3>1, Zenon
      <3> QED
        BY <1>1, <2>1, <2>2, <2>4, <3>2, Zenon
    <2> QED
      BY <2>3, <2>4
  <1>3. CASE ~evalDue
    BY <1>3 DEF Evaluate, judgeVars, GateInv, GateTypeOK
  <1> QED
    BY <1>2, <1>3

LEMMA ObserveStep ==
    ASSUME GateTypeOK, NEW ok \in BOOLEAN, Observe(ok)
    PROVE  window' \in [1 .. Width -> Bucket]
  <1>1. 1 \in 1 .. Width /\ window[1].calls \in 0 .. MaxCalls /\ window[1].errors \in 0 .. MaxCalls
        /\ window[1].errors <= window[1].calls
    BY GateAssumption DEF GateTypeOK, Bucket
  <1>2. [calls |-> window[1].calls + 1, errors |-> window[1].errors + IF ok THEN 0 ELSE 1] \in Bucket
    BY <1>1, GateAssumption DEF Observe, Bucket
  <1> QED
    BY <1>1, <1>2 DEF Observe, GateTypeOK

LEMMA ForgetStep ==
    ASSUME GateTypeOK, NEW n \in 1 .. Width, Forget(n)
    PROVE  window' \in [1 .. Width -> Bucket]
  BY GateAssumption DEF Forget, GateTypeOK, Bucket, Empty

LEMMA LeftStep ==
    ASSUME GateTypeOK, NEW first \in 0 .. RankCalls, NEW second \in 0 .. ProgramCalls,
           Left(first, second)
    PROVE  /\ ranks' \in 0 .. RankCalls /\ programs' \in 0 .. ProgramCalls
           /\ pause' \in 0 .. Width /\ lull' \in BOOLEAN
  <1>1. ranks' = first /\ programs' = second
    BY DEF Left
  <1>2. CASE first + second = 0
    <2>1. pause' = (IF crowd THEN 0 ELSE Width)
      BY <1>2 DEF Left
    <2>2. lull' = ~crowd
      BY <1>2, Zenon DEF Left
    <2>3. lull' \in BOOLEAN
      BY <2>2, Zenon DEF GateTypeOK
    <2> QED
      BY <1>1, <2>1, <2>3, GateAssumption
  <1>3. CASE first + second # 0
    BY <1>1, <1>3 DEF Left, GateTypeOK
  <1> QED
    BY <1>2, <1>3

\* The types in two parts: of what is judged, and of the rest.
Judging == /\ evalDue \in BOOLEAN /\ gateStreak \in 0 .. Required /\ gateShut \in BOOLEAN
           /\ gateShut <=> gateStreak = Required
Rounds  == /\ ranks \in 0 .. RankCalls /\ programs \in 0 .. ProgramCalls /\ pause \in 0 .. Width
           /\ calling \in BOOLEAN /\ lull \in BOOLEAN /\ (calling => ranks > 0)
Around  == up \in BOOLEAN /\ crowd \in BOOLEAN /\ asking \in BOOLEAN
Counted == window \in [1 .. Width -> Bucket]

LEMMA GateParts == GateInv <=> Judging /\ Rounds /\ Around /\ Counted
  <1>1. GateInv => Judging /\ Rounds /\ Around /\ Counted
    BY Zenon DEF GateInv, GateTypeOK, Judging, Rounds, Around, Counted
  <1>2. Judging /\ Rounds /\ Around /\ Counted => GateInv
    BY Zenon DEF GateInv, GateTypeOK, Judging, Rounds, Around, Counted
  <1> QED
    BY <1>1, <1>2

\* What a step leaves alone keeps its part.
LEMMA PartsRest ==
    /\ Judging /\ UNCHANGED judgeVars => Judging'
    /\ Rounds /\ UNCHANGED roundVars => Rounds'
    /\ Counted /\ UNCHANGED window => Counted'
  BY DEF Judging, Rounds, Counted, judgeVars, roundVars

LEMMA JudgingStep ==
    ASSUME GateInv, NEW n, Evaluate(n)
    PROVE  Judging'
  BY EvaluateStep DEF Judging

LEMMA PollerSteps ==
    ASSUME GateInv, PollerStep
    PROVE  GateInv'
  <1>1. GateTypeOK /\ Judging /\ Rounds /\ Around /\ Counted
    BY GateParts DEF GateInv
  <1>2. CASE RoundStarts
    <2>1. PICK first \in {0, RankCalls}, second \in {0, ProgramCalls} : Left(first, second)
      BY <1>2 DEF RoundStarts
    <2>2. first \in 0 .. RankCalls /\ second \in 0 .. ProgramCalls
      BY GateAssumption
    <2>3. UNCHANGED <<up, crowd, window, judgeVars, calling, asking>>
      BY <1>2 DEF RoundStarts
    <2>4. Rounds'
      <3>1. calling' \in BOOLEAN /\ ~calling'
        BY <1>1, <1>2, <2>3 DEF Rounds, RoundStarts
      <3> QED
        BY <1>1, <2>1, <2>2, <3>1, LeftStep DEF Rounds
    <2>5. Judging' /\ Counted'
      BY <1>1, <2>3, PartsRest
    <2>6. Around'
      BY <1>1, <2>3 DEF Around
    <2> QED
      BY <2>4, <2>5, <2>6, GateParts, PTL
  <1>3. CASE RankCall
    <2>1. Evaluate(Width) /\ UNCHANGED <<up, crowd, asking>> /\ ranks > 0 /\ ~calling
      BY <1>3, Zenon DEF RankCall
    <2>2. Judging'
      BY <2>1, JudgingStep
    <2>3. ranks - 1 \in 0 .. RankCalls /\ programs \in 0 .. ProgramCalls
      BY <1>1, <2>1, GateAssumption DEF Rounds
    <2>4. Around'
      BY <1>1, <2>1 DEF Around
    <2>5. CASE gateShut'
      <3>1. Observe(FALSE) /\ Left(ranks - 1, programs) /\ UNCHANGED calling
        BY <1>3, <2>5, Zenon DEF RankCall
      <3>2. Counted'
        BY <1>1, <3>1, ObserveStep DEF Counted
      <3>3. Rounds'
        BY <1>1, <2>1, <2>3, <3>1, LeftStep DEF Rounds
      <3> QED
        BY <2>2, <2>4, <3>2, <3>3, GateParts, PTL
    <2>6. CASE ~gateShut'
      <3>1. calling' = TRUE /\ UNCHANGED <<window, ranks, programs, pause, lull>>
        BY <1>3, <2>6, Zenon DEF RankCall
      <3>2. Counted'
        BY <1>1, <3>1, PartsRest
      <3>3. Rounds'
        BY <1>1, <2>1, <3>1 DEF Rounds
      <3> QED
        BY <2>2, <2>4, <3>2, <3>3, GateParts, PTL
    <2> QED
      BY <2>5, <2>6
  <1>4. CASE RankAnswered \/ ProgramCall
    <2>1. /\ Observe(up) /\ UNCHANGED <<up, crowd, judgeVars, asking>>
          /\ \/ calling /\ calling' = FALSE /\ Left(ranks - 1, programs)
             \/ /\ ranks = 0 /\ UNCHANGED calling
                /\ Left(0, programs - 1) /\ programs > 0
      BY <1>4, Zenon DEF RankAnswered, ProgramCall
    <2>2. Counted' /\ Judging'
      BY <1>1, <2>1, ObserveStep, PartsRest DEF Counted, Around
    <2>3. Around' /\ calling' \in BOOLEAN /\ ~calling'
      <3>1. Around'
        BY <1>1, <2>1 DEF Around
      <3>2. CASE calling' = FALSE
        BY <3>1, <3>2
      <3>3. CASE ranks = 0 /\ UNCHANGED calling
        BY <1>1, <3>1, <3>3 DEF Rounds
      <3> QED
        BY <2>1, <3>2, <3>3
    <2>4. Rounds'
      <3>1. CASE calling /\ Left(ranks - 1, programs)
        <4>1. ranks - 1 \in 0 .. RankCalls /\ programs \in 0 .. ProgramCalls
          BY <1>1, <3>1, GateAssumption DEF Rounds
        <4> QED
          BY <1>1, <2>3, <3>1, <4>1, LeftStep DEF Rounds
      <3>2. CASE Left(0, programs - 1) /\ programs > 0
        <4>1. 0 \in 0 .. RankCalls /\ programs - 1 \in 0 .. ProgramCalls
          BY <1>1, <3>2, GateAssumption DEF Rounds
        <4> QED
          BY <1>1, <2>3, <3>2, <4>1, LeftStep DEF Rounds
      <3> QED
        BY <2>1, <3>1, <3>2
    <2> QED
      BY <2>2, <2>3, <2>4, GateParts, PTL
  <1> QED
    BY <1>2, <1>3, <1>4 DEF PollerStep

LEMMA RequestSteps ==
    ASSUME GateInv, Request \/ Ask \/ Answered \/ OtherCall
    PROVE  GateInv'
  <1>1. GateTypeOK /\ Judging /\ Rounds /\ Around /\ Counted
    BY GateParts DEF GateInv
  <1>2. /\ UNCHANGED roundVars /\ UNCHANGED <<up, crowd>>
        /\ asking' = asking \/ asking' = FALSE \/ asking' = TRUE
        /\ Evaluate(Width) \/ UNCHANGED judgeVars
        /\ Observe(FALSE) \/ Observe(up) \/ UNCHANGED window
    BY Zenon DEF Request, Ask, Answered, OtherCall
  <1>3. Judging'
    BY <1>1, <1>2, JudgingStep, PartsRest
  <1>4. Counted'
    BY <1>1, <1>2, ObserveStep, PartsRest DEF Counted, Around
  <1>5. Rounds'
    BY <1>1, <1>2, PartsRest
  <1>6. Around'
    BY <1>1, <1>2 DEF Around
  <1> QED
    BY <1>3, <1>4, <1>5, <1>6, GateParts, PTL

LEMMA NextGate ==
    ASSUME GateInv, [GateNext]_gateVars
    PROVE  GateInv'
  <1>0. GateTypeOK /\ Judging /\ Rounds /\ Around /\ Counted
    BY GateParts DEF GateInv
  <1>1. CASE UNCHANGED gateVars
    <2>1. UNCHANGED <<up, crowd, window, asking>> /\ UNCHANGED judgeVars /\ UNCHANGED roundVars
      BY <1>1 DEF gateVars
    <2>2. Around'
      BY <1>0, <2>1 DEF Around
    <2>3. Judging' /\ Rounds' /\ Counted'
      BY <1>0, <2>1, PartsRest
    <2> QED
      BY <2>2, <2>3, GateParts, PTL
  <1>2. CASE GateTick
    <2>1. Counted'
      BY <1>0, <1>2, GateAssumption DEF GateTick, Counted, Bucket, Empty
    <2>2. Judging' /\ Around'
      BY <1>0, <1>2 DEF GateTick, Judging, Around
    <2>3. pause' \in 0 .. Width
      BY <1>0, <1>2, GateAssumption DEF GateTick, Rounds
    <2>4. Rounds'
      BY <1>0, <1>2, <2>3 DEF GateTick, Rounds
    <2> QED
      BY <2>1, <2>2, <2>4, GateParts, PTL
  <1>3. CASE KisChanges \/ CrowdChanges
    <2>1. /\ up' \in BOOLEAN /\ crowd' \in BOOLEAN /\ lull' \in BOOLEAN
          /\ UNCHANGED <<window, ranks, programs, calling, pause, asking>> /\ UNCHANGED judgeVars
      <3>1. CASE KisChanges
        BY <1>0, <3>1, Zenon DEF KisChanges, roundVars, Around, Rounds
      <3>2. CASE CrowdChanges
        BY <1>0, <3>2, Zenon DEF CrowdChanges, Around
      <3> QED
        BY <1>3, <3>1, <3>2
    <2>2. Rounds' /\ Around'
      BY <1>0, <2>1 DEF Rounds, Around
    <2>3. Judging' /\ Counted'
      BY <1>0, <2>1, PartsRest
    <2> QED
      BY <2>2, <2>3, GateParts, PTL
  <1>4. ASSUME NEW n \in 1 .. Width, ReadMetrics(n) \/ ReadStatus(n)
        PROVE  GateInv'
    <2>1. /\ Forget(n) /\ (Evaluate(n) \/ Evaluate(Width))
          /\ UNCHANGED roundVars /\ UNCHANGED <<up, crowd, asking>>
      BY <1>4, Zenon DEF ReadMetrics, ReadStatus
    <2>2. Judging'
      BY <2>1, JudgingStep
    <2>3. Counted'
      BY <1>0, <2>1, ForgetStep DEF Counted
    <2>4. Rounds' /\ Around'
      BY <1>0, <2>1, PartsRest DEF Around
    <2> QED
      BY <2>2, <2>3, <2>4, GateParts, PTL
  <1> QED
    BY <1>1, <1>2, <1>3, <1>4, PollerSteps, RequestSteps DEF GateNext, PollerStep

\* The types of the window and of the gate.
THEOREM GateTyped == GateSpec => []GateTypeOK
  <1>1. GateInv => GateTypeOK
    BY DEF GateInv
  <1> QED
    BY <1>1, InitGate, NextGate, PTL DEF GateSpec

\* A window is judged by this step.
Judged == evalDue /\ ~evalDue'

LEMMA JudgedClean ==
    ASSUME GateInv, GateNext, Judged, \A i \in 1 .. Width : window[i].errors = 0
    PROVE  ~gateShut'
  <1>1. PICK n \in 1 .. Width : Evaluate(n)
    <2>1. Width \in 1 .. Width
      BY GateAssumption
    <2>2. ~(\/ GateTick \/ KisChanges \/ CrowdChanges \/ RoundStarts \/ RankAnswered
            \/ ProgramCall \/ Answered \/ OtherCall)
      BY DEF Judged, GateTick, KisChanges, CrowdChanges, RoundStarts, RankAnswered, ProgramCall,
             Answered, OtherCall, judgeVars
    <2>3. (RankCall \/ Request \/ Ask) => Evaluate(Width)
      BY Zenon DEF RankCall, Request, Ask
    <2>4. \A n \in 1 .. Width : ReadMetrics(n) \/ ReadStatus(n) => Evaluate(n) \/ Evaluate(Width)
      BY Zenon DEF ReadMetrics, ReadStatus
    <2> QED
      BY <2>1, <2>2, <2>3, <2>4, Zenon DEF GateNext
  <1>2. ~Degraded(n)
    BY <1>1, CleanIsFine DEF GateInv
  <1> QED
    <2>1. gateStreak' = StreakAfter(n) /\ gateShut' = (gateStreak' >= Required)
      BY <1>1, Zenon DEF Evaluate, Judged
    <2>2. gateStreak' = 0
      BY <1>2, <2>1, Zenon DEF StreakAfter
    <2>3. ~(gateStreak' >= Required)
      BY <2>2, GateAssumption
    <2> QED
      BY <2>1, <2>3, Zenon

\* Whoever asks, and however much of the window a reader of the statistics has
\* pruned: one evaluation of a window without errors opens the gate, however long
\* it was shut (is_kis_degraded).
THEOREM CleanWindowOpens ==
    GateSpec => [][Judged /\ (\A i \in 1 .. Width : window[i].errors = 0) => ~gateShut']_gateVars
  <1>1. GateInv /\ [GateNext]_gateVars =>
            [Judged /\ (\A i \in 1 .. Width : window[i].errors = 0) => ~gateShut']_gateVars
    BY JudgedClean
  <1> QED
    BY <1>1, InitGate, NextGate, PTL DEF GateSpec

-----------------------------------------------------------------------------
(* The start of a process.                                                 *)

\* The flags apart, for the sake of the provers.
LifeFlags == allowed \in BOOLEAN /\ busy \in BOOLEAN /\ fresh \in BOOLEAN
LifeRest ==
    /\ env \subseteq Flags /\ step \in 1 .. Len(Heavy) + 1 /\ started = {}
    /\ stamp \in {"recent", "old"} /\ lister \in [Listers -> {"idle", "due"}]
    /\ waiting \in Nat /\ starts \in 0 .. MaxStarts /\ errors \in 0 .. MaxErrors
LifespanInv == LifeFlags /\ LifeRest

LEMMA PollersAreFive == Len(Heavy) = 5
  BY DEF Heavy

LEMMA InitLifespan == LifespanInit => LifespanInv
  <1>1. LifespanInit => LifeFlags
    BY Zenon DEF LifespanInit, LifeFlags
  <1>2. LifespanInit => LifeRest
    BY PollersAreFive, LifespanAssumption DEF LifespanInit, LifeRest
  <1> QED
    BY <1>1, <1>2 DEF LifespanInv

LEMMA NextLifespan ==
    ASSUME LifespanInv, [LifespanNext]_lifeVars
    PROVE  LifespanInv'
  <1>1. LifeFlags'
    BY Zenon DEF LifespanInv, LifeFlags, LifespanNext, lifeVars, startVars, StartPoller, StartsAgain,
                 ListFinds, ListStarts, Acquire, PricesWritten, RefreshFails, Minute, Hours
  <1>2. LifeRest'
    <2> USE LifespanAssumption DEF LifespanInv, LifeRest
    <2>1. CASE UNCHANGED lifeVars
      BY <2>1 DEF lifeVars, startVars
    <2>2. CASE StartPoller
      BY <2>2, PollersAreFive DEF StartPoller, Serving, EnvTruthy
    <2>3. CASE StartsAgain
      BY <2>3, PollersAreFive DEF StartsAgain
    <2>4. CASE \E r \in Listers : ListFinds(r) \/ ListStarts(r)
      BY <2>4 DEF ListFinds, ListStarts, startVars
    <2>5. CASE Acquire
      BY <2>5 DEF Acquire, startVars
    <2>6. CASE PricesWritten
      BY <2>6 DEF PricesWritten, startVars
    <2>7. CASE RefreshFails
      BY <2>7 DEF RefreshFails, startVars
    <2>8. CASE Minute \/ Hours
      BY <2>8 DEF Minute, Hours, startVars
    <2> QED
      BY <2>1, <2>2, <2>3, <2>4, <2>5, <2>6, <2>7, <2>8 DEF LifespanNext
  <1> QED
    BY <1>1, <1>2 DEF LifespanInv

\* The types of the start-up and of the requests.
THEOREM LifespanTyped == LifespanSpec => []LifespanTypeOK
  <1>1. LifespanInv => LifespanTypeOK
    BY Zenon DEF LifespanInv, LifeFlags, LifeRest, LifespanTypeOK
  <1> QED
    BY <1>1, InitLifespan, NextLifespan, PTL DEF LifespanSpec

\* What the run of the docstring of _lifespan finds in one environment is so in
\* every one: no process ever starts one of the pollers (_env_truthy).
THEOREM NoPollerStarts == LifespanSpec => [](started = {})
  <1>1. LifespanInv => started = {}
    BY DEF LifespanInv, LifeRest
  <1> QED
    BY <1>1, InitLifespan, NextLifespan, PTL DEF LifespanSpec

-----------------------------------------------------------------------------
(* The harness of the services: one part runs, the others rest.  Each part *)
(* keeps its own invariant in either case.                                 *)

Parts == {"home", "homeWs", "stockFlow", "gate", "breaker", "prefs", "limitUp", "refresh",
          "lifespan", "ranking"}

HomeParts    == HomeTypeOK /\ HomeInv /\ HomeWsInv /\ FlowInv
CallParts    == GateInv /\ BreakerInv /\ PrefInv /\ LimitInv
StartParts   == RefreshInv /\ LifespanInv /\ RankInv /\ FlightInv
ServicesInv  == part \in Parts /\ HomeParts /\ CallParts /\ StartParts

\* A snapshot at rest is one that nobody builds.
LEMMA HomeStarts == HomeStart => HomeTypeOK /\ HomeInv
  <1>1. CASE part = "home"
    BY <1>1, InitHome, InitClaimed DEF HomeStart
  <1>2. CASE part # "home"
    BY <1>2, HomeAssumption DEF HomeStart, HomeTypeOK, HomeInv, Claimed, Payload, Versions
  <1> QED
    BY <1>1, <1>2

LEMMA InitServices == Init => ServicesInv
  <1> SUFFICES ASSUME Init PROVE ServicesInv
    OBVIOUS
  <1>1. HomeParts
    BY HomeStarts, HomeWsInitInv, FlowInitInv DEF Init, HomeWsStart, FlowStart, HomeParts
  <1>2. CallParts
    BY InitGate, InitBackedOff, InitPref, InitLimit
    DEF Init, GateStart, BreakerStart, LimitStart, CallParts
  <1>3. StartParts
    BY InitRefresh, InitLifespan, InitRank, InitFlight
    DEF Init, RefreshStart, LifeStart, StartParts
  <1> QED
    BY <1>1, <1>2, <1>3 DEF Init, ServicesInv, Parts

\* A step of the harness is a step of one part, or rests, for each of them.
LEMMA PartSteps ==
    ASSUME [Next]_vars
    PROVE  /\ [HomeNext]_homeVars /\ [HomeWsNext]_homeWsVars /\ [FlowNext]_flowVars
           /\ [GateNext]_gateVars /\ [BreakerNext]_breakerVars /\ [PrefNext]_prefVars
           /\ [LimitNext]_limitVars /\ [RefreshNext]_refreshVars
           /\ [LifespanNext]_lifeVars /\ [RankNext]_rankVars
           /\ part' = part
  BY DEF Next, vars

LEMMA NextServices == ServicesInv /\ [Next]_vars => ServicesInv'
  <1> SUFFICES ASSUME ServicesInv, [Next]_vars PROVE ServicesInv'
    OBVIOUS
  <1>1. HomeParts'
    BY PartSteps, NextHome, NextClaimed, HomeWsStep, FlowStep DEF ServicesInv, HomeParts
  <1>2. CallParts'
    BY PartSteps, NextGate, NextBackedOff, NextPref, NextLimit DEF ServicesInv, CallParts
  <1>3. StartParts'
    BY PartSteps, NextRefresh, NextLifespan, NextRank, NextFlight DEF ServicesInv, StartParts
  <1> QED
    BY <1>1, <1>2, <1>3, PartSteps DEF ServicesInv

\* Whatever part the harness runs, that part is well typed.
THEOREM ServicesTyped == Spec => []ServicesTypeOK
  <1>1. ServicesInv => ServicesTypeOK
    <2> SUFFICES ASSUME ServicesInv PROVE ServicesTypeOK
      OBVIOUS
    <2>1. HomeTypeOK /\ HomeWsTypeOK /\ FlowTypeOK /\ GateTypeOK /\ BreakerTypeOK
      BY DEF ServicesInv, HomeParts, CallParts, HomeWsInv, FlowInv, GateInv, BreakerInv
    <2>2. PrefTypeOK /\ LimitTypeOK /\ RefreshTypeOK /\ RankTypeOK
      BY DEF ServicesInv, CallParts, StartParts, PrefInv, LimitInv, RefreshInv, RankInv
    <2>3. LifespanTypeOK
      BY Zenon DEF ServicesInv, StartParts, LifespanInv, LifeFlags, LifeRest, LifespanTypeOK
    <2> QED
      BY <2>1, <2>2, <2>3 DEF ServicesInv, ServicesTypeOK, Parts
  <1> QED
    BY <1>1, InitServices, NextServices, PTL DEF Spec
=============================================================================
