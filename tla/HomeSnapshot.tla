---------------------------- MODULE HomeSnapshot ----------------------------
(***************************************************************************)
(* The home snapshot of part08_home_ws_prewarm.py: one payload aggregated  *)
(* from many sources, kept in memory and in Redis, rebuilt by at most one  *)
(* thread at a time and served from whatever is at hand.                   *)
(*                                                                         *)
(* A payload is the version of the sources it was built from.  Redis has   *)
(* three keys for it, always set together; the one that lives longest      *)
(* decides what a reader finds.                                            *)
(***************************************************************************)
EXTENDS Naturals, FiniteSets

CONSTANTS
    Workers,    \* threads that build: GET's workers, the refresher, prewarm
    Getters,    \* requests GET /api/home/snapshot
    Nothing,    \* no payload, no event
    MaxVersion, \* bound: changes of the sources
    MaxFails    \* bound: builds that raise

ASSUME HomeAssumption ==
    /\ Nothing \notin Workers /\ Nothing \notin Nat
    /\ MaxVersion \in Nat /\ MaxFails \in Nat

VARIABLES
    world,    \* what the sources say now
    mem,      \* _HOME_SNAPSHOT_CACHE["data"]
    memAge,   \* age of its "ts": within mem_ttl, within MAX_STALE_SEC, or beyond
    redis,    \* what the Redis keys hold
    inflight, \* _HOME_SNAPSHOT_INFLIGHT: the worker whose event it is
    at,       \* at[w]: where the worker stands
    built,    \* built[w]: its payload
    get,      \* get[g]: where the request stands
    found,    \* found[g]: the payload it read from Redis
    awaited,  \* awaited[g]: the event it waits for
    fails     \* history

homeVars == <<world, mem, memAge, redis, inflight, at, built, get, found, awaited, fails>>

Versions == 0 .. MaxVersion
Payload  == Versions \cup {Nothing}

HomeTypeOK ==
    /\ world \in Versions /\ mem \in Payload /\ redis \in Payload
    /\ memAge \in {"fresh", "stale", "dead"}
    /\ inflight \in Workers \cup {Nothing}
    /\ at \in [Workers -> {"idle", "build", "put", "redis", "release"}]
    /\ built \in [Workers -> Payload]
    /\ get \in [Getters -> {"idle", "redis", "put", "miss", "look", "wait"}]
    /\ found \in [Getters -> Payload]
    /\ awaited \in [Getters -> Workers \cup {Nothing}]
    /\ fails \in 0 .. MaxFails

HomeInit ==
    /\ world = 0 /\ mem = Nothing /\ memAge = "dead" /\ redis \in {Nothing, 0}
    /\ inflight = Nothing
    /\ at = [w \in Workers |-> "idle"] /\ built = [w \in Workers |-> Nothing]
    /\ get = [g \in Getters |-> "idle"] /\ found = [g \in Getters |-> Nothing]
    /\ awaited = [g \in Getters |-> Nothing]
    /\ fails = 0

-----------------------------------------------------------------------------
(* The environment.                                                        *)

SourcesChange ==
    /\ world < MaxVersion
    /\ world' = world + 1
    /\ UNCHANGED <<mem, memAge, redis, inflight, at, built, get, found, awaited, fails>>

MemAges ==
    /\ mem # Nothing /\ memAge # "dead"
    /\ memAge' = IF memAge = "fresh" THEN "stale" ELSE "dead"
    /\ UNCHANGED <<world, mem, redis, inflight, at, built, get, found, awaited, fails>>

\* The last of the three keys expires.
RedisExpires ==
    /\ redis # Nothing
    /\ redis' = Nothing
    /\ UNCHANGED <<world, mem, memAge, inflight, at, built, get, found, awaited, fails>>

-----------------------------------------------------------------------------
(* Building: claim, build, persist, push, release.                         *)

\* Mutant: the event in flight is not looked at.
TryClaimBlind(w) ==
    /\ at[w] = "idle"
    /\ inflight' = w
    /\ at' = [at EXCEPT ![w] = "build"]

\* _home_snapshot_try_claim by a thread that then builds.
TryClaim(w) ==
    /\ at[w] = "idle"
    /\ inflight = Nothing
    /\ inflight' = w
    /\ at' = [at EXCEPT ![w] = "build"]

\* _refresh_home_snapshot_sync, called by the refresher and by prewarm; a
\* refused claim returns or raises without an effect.
RefreshSync(w) ==
    /\ TryClaim(w)
    /\ UNCHANGED <<world, mem, memAge, redis, built, get, found, awaited, fails>>

\* Mutant: a failed build does not release its claim.
BuildForgetsRelease(w) ==
    /\ at[w] = "build"
    /\ \/ /\ at' = [at EXCEPT ![w] = "put"]
          /\ built' = [built EXCEPT ![w] = world]
          /\ UNCHANGED fails
       \/ /\ fails < MaxFails
          /\ fails' = fails + 1
          /\ at' = [at EXCEPT ![w] = "idle"]
          /\ UNCHANGED built
    /\ UNCHANGED <<world, mem, memAge, redis, inflight, get, found, awaited>>

\* _build_home_snapshot_payload returns what the sources said, or raises; both
\* ways lead to the finally clause.
Build(w) ==
    /\ at[w] = "build"
    /\ \/ /\ at' = [at EXCEPT ![w] = "put"]
          /\ built' = [built EXCEPT ![w] = world]
          /\ UNCHANGED fails
       \/ /\ fails < MaxFails
          /\ fails' = fails + 1
          /\ at' = [at EXCEPT ![w] = "release"]
          /\ UNCHANGED built
    /\ UNCHANGED <<world, mem, memAge, redis, inflight, get, found, awaited>>

\* _persist_home_snapshot: first the memory, under the lock, then Redis.
PersistMem(w) ==
    /\ at[w] = "put"
    /\ mem' = built[w] /\ memAge' = "fresh"
    /\ at' = [at EXCEPT ![w] = "redis"]
    /\ UNCHANGED <<world, redis, inflight, built, get, found, awaited, fails>>

PersistRedis(w) ==
    /\ at[w] = "redis"
    /\ redis' = built[w]
    /\ at' = [at EXCEPT ![w] = "release"]
    /\ UNCHANGED <<world, mem, memAge, inflight, built, get, found, awaited, fails>>

\* _home_snapshot_release: only an event that is still one's own is cleared.
Release(w) ==
    /\ at[w] = "release"
    /\ inflight' = IF inflight = w THEN Nothing ELSE inflight
    /\ at' = [at EXCEPT ![w] = "idle"]
    /\ built' = [built EXCEPT ![w] = Nothing]
    /\ UNCHANGED <<world, mem, memAge, redis, get, found, awaited, fails>>

-----------------------------------------------------------------------------
(* get_home_snapshot.                                                      *)

Goto(g, where) == get' = [get EXCEPT ![g] = where]

\* _refresh_home_snapshot_async: a refused claim is no error.
RefreshAsync ==
    \/ \E w \in Workers : TryClaim(w)
    \/ inflight # Nothing /\ UNCHANGED <<inflight, at>>

\* Memory first: fresh is served, stale is served and refreshed.
GetMem(g) ==
    /\ get[g] = "idle"
    /\ \/ /\ mem # Nothing /\ memAge = "fresh"
          /\ UNCHANGED <<get, inflight, at>>
       \/ /\ mem # Nothing /\ memAge = "stale"
          /\ RefreshAsync
          /\ UNCHANGED get
       \/ /\ mem = Nothing \/ memAge = "dead"
          /\ Goto(g, "redis")
          /\ UNCHANGED <<inflight, at>>
    /\ UNCHANGED <<world, mem, memAge, redis, built, found, awaited, fails>>

\* _home_snapshot_redis_get_best.
GetRedis(g) ==
    /\ get[g] = "redis"
    /\ found' = [found EXCEPT ![g] = redis]
    /\ Goto(g, IF redis = Nothing THEN "miss" ELSE "put")
    /\ UNCHANGED <<world, mem, memAge, redis, inflight, at, built, awaited, fails>>

\* What Redis had becomes the memory's fresh payload, whatever is there by now.
GetPut(g) ==
    /\ get[g] = "put"
    /\ mem' = found[g] /\ memAge' = "fresh"
    /\ found' = [found EXCEPT ![g] = Nothing]
    /\ Goto(g, "idle")
    /\ UNCHANGED <<world, redis, inflight, at, built, awaited, fails>>

GetMiss(g) ==
    /\ get[g] = "miss"
    /\ RefreshAsync
    /\ Goto(g, "look")
    /\ UNCHANGED <<world, mem, memAge, redis, built, found, awaited, fails>>

\* The event in flight, read again under the lock; without one, the answer is
\* old memory or the warm-up payload.
GetLook(g) ==
    /\ get[g] = "look"
    /\ awaited' = [awaited EXCEPT ![g] = inflight]
    /\ Goto(g, IF inflight = Nothing THEN "idle" ELSE "wait")
    /\ UNCHANGED <<world, mem, memAge, redis, inflight, at, built, found, fails>>

\* inflight.wait returns when the event is set or after WAIT_ON_MISS_SEC; both
\* answer from the memory, from old memory or with the warm-up payload.
GetWait(g) ==
    /\ get[g] = "wait"
    /\ awaited' = [awaited EXCEPT ![g] = Nothing]
    /\ Goto(g, "idle")
    /\ UNCHANGED <<world, mem, memAge, redis, inflight, at, built, found, fails>>

WorkStep(w) == Build(w) \/ PersistMem(w) \/ PersistRedis(w) \/ Release(w)
GetStep(g)  == GetMem(g) \/ GetRedis(g) \/ GetPut(g) \/ GetMiss(g) \/ GetLook(g) \/ GetWait(g)

HomeNext ==
    \/ SourcesChange \/ MemAges \/ RedisExpires
    \/ \E w \in Workers : RefreshSync(w) \/ Build(w) \/ PersistMem(w) \/ PersistRedis(w) \/ Release(w)
    \/ \E g \in Getters :
        GetMem(g) \/ GetRedis(g) \/ GetPut(g) \/ GetMiss(g) \/ GetLook(g) \/ GetWait(g)

\* Threads run, keys expire, and somebody asks for the page now and then.  The
\* background refresher owes nothing: it skips while the KIS API is degraded
\* or nobody has the page open.
HomeFairness ==
    /\ WF_homeVars(MemAges) /\ WF_homeVars(RedisExpires)
    /\ \A w \in Workers : WF_homeVars(WorkStep(w))
    /\ \A g \in Getters : WF_homeVars(GetStep(g))

HomeSpec == HomeInit /\ [][HomeNext]_homeVars /\ HomeFairness
-----------------------------------------------------------------------------
(* Properties.                                                             *)

\* One refresh at a time: no two threads are between claim and release, so
\* payloads are persisted in the order in which they were built.
OneRefresh == \A v, w \in Workers : at[v] # "idle" /\ at[w] # "idle" => v = w

\* Once the sources rest, what is served catches up with them for good,
\* although a request that misses the stale window puts an old Redis payload
\* back as fresh without asking for a refresh (part08 222-227).
SnapshotCatchesUp == <>[](mem = world)
=============================================================================
