---------------------------- MODULE RankingCache ----------------------------
(***************************************************************************)
(* GET /api/stocks/ranking/program (get_ranking_program of                 *)
(* part06_surge_investor_program.py): a payload that takes many calls of   *)
(* KIS is kept in the memory of each process and in Redis, for ProgramTtl each,   *)
(* and computed by one request of a process at a time; the others wait for *)
(* it, and all fall back on what is old but marked as such.                *)
(*                                                                         *)
(* A payload is represented by its age.  Time is counted in ticks; ages    *)
(* stop at the first value that no longer matters.  Redis may be out of    *)
(* reach at any time: it then answers nothing and stores nothing.          *)
(***************************************************************************)
EXTENDS Integers

CONSTANTS Requests,    \* request threads
          Hosts,       \* worker processes
          HostOf,      \* HostOf[r]: the process request r runs in
          ProgramTtl,  \* _program_ttl: of memory and of Redis, in ticks
          None         \* no payload, no request

PayloadAges == 0 .. 2 * ProgramTtl
Kept   == [age : PayloadAges, since : 0 .. ProgramTtl]
Stored == [age : PayloadAges, left : 1 .. ProgramTtl]

ASSUME RankingAssumption ==
    /\ ProgramTtl \in Nat \ {0}
    /\ HostOf \in [Requests -> Hosts]
    /\ None \notin Requests \cup Kept \cup Stored

Aged(age, limit) == IF age < limit THEN age + 1 ELSE age

VARIABLES
    memory,   \* memory[h]: payload and stamp of _PROGRAM_CACHE, or None
    shared,   \* the payload in Redis and the time it has left, or None
    flight,   \* flight[h]: the request that computes (_PROGRAM_INFLIGHT), or None
    rq,       \* where each request is
    began,    \* began[r]: how long ago request r took the time (now_ts), until it
              \* has asked Redis
    event,    \* event[r]: the request r waits for, or None once it is done
    answer    \* history: the age of the payload in the last answer that was not
              \* marked _stale

rankVars == <<memory, shared, flight, rq, began, event, answer>>

RankTypeOK ==
    /\ memory \in [Hosts -> Kept \cup {None}]
    /\ shared \in Stored \cup {None}
    /\ flight \in [Hosts -> Requests \cup {None}]
    /\ rq \in [Requests -> {"idle", "redis", "claim", "compute", "publish", "release", "wait"}]
    /\ began \in [Requests -> 0 .. ProgramTtl]
    /\ event \in [Requests -> Requests \cup {None}]
    /\ answer \in PayloadAges

RankInit ==
    /\ memory = [h \in Hosts |-> None]
    /\ shared = None
    /\ flight = [h \in Hosts |-> None]
    /\ rq = [r \in Requests |-> "idle"]
    /\ began = [r \in Requests |-> 0]
    /\ event = [r \in Requests |-> None]
    /\ answer = 0

-----------------------------------------------------------------------------
Recall(r) == memory[HostOf[r]]
Fresh(r)  == Recall(r) # None /\ Recall(r).since < ProgramTtl
Keep(r, age, since) == memory' = [memory EXCEPT ![HostOf[r]] = [age |-> age, since |-> since]]

Go(r, next) == rq' = [rq EXCEPT ![r] = next]

\* With the lock: a payload in memory younger than ProgramTtl is the answer.
GetRanking(r) ==
    /\ rq[r] = "idle"
    /\ began' = [began EXCEPT ![r] = 0]
    /\ \/ /\ Fresh(r)
          /\ answer' = Recall(r).age
          /\ UNCHANGED rq
       \/ /\ ~Fresh(r)
          /\ Go(r, "redis")
          /\ UNCHANGED answer
    /\ UNCHANGED <<memory, shared, flight, event>>

\* Redis: what it has goes into memory, stamped with the time the request took.
ReadRedis(r) ==
    /\ rq[r] = "redis"
    /\ \/ /\ shared # None
          /\ Keep(r, shared.age, began[r])
          /\ answer' = shared.age
          /\ Go(r, "idle")
       \/ /\ Go(r, "claim")
          /\ UNCHANGED <<memory, answer>>
    /\ UNCHANGED <<shared, flight, began, event>>

\* With the lock: the first request computes, the others wait.
Claim(r) ==
    /\ rq[r] = "claim"
    /\ \/ /\ flight[HostOf[r]] = None
          /\ flight' = [flight EXCEPT ![HostOf[r]] = r]
          /\ Go(r, "compute")
          /\ UNCHANGED event
       \/ /\ flight[HostOf[r]] # None
          /\ event' = [event EXCEPT ![r] = flight[HostOf[r]]]
          /\ Go(r, "wait")
          /\ UNCHANGED flight
    /\ UNCHANGED <<memory, shared, began, answer>>

-----------------------------------------------------------------------------
(* The request that computes.                                              *)

Compute(r) ==
    /\ rq[r] = "compute"
    /\ Keep(r, 0, 0)
    /\ answer' = 0
    /\ Go(r, "publish")
    /\ UNCHANGED <<shared, flight, began, event>>

Publish(r) ==
    /\ rq[r] = "publish"
    /\ \/ shared' = [age |-> 0, left |-> ProgramTtl]
       \/ UNCHANGED shared
    /\ Go(r, "release")
    /\ UNCHANGED <<memory, flight, began, event, answer>>

\* An exception: Redis once more, then what was in memory, however old, or 503.
\* The answer is marked; what goes from Redis into memory is stamped anew.
ComputeFails(r) ==
    /\ rq[r] = "compute"
    /\ \/ /\ shared # None
          /\ Keep(r, shared.age, 0)
       \/ UNCHANGED memory
    /\ Go(r, "release")
    /\ UNCHANGED <<shared, flight, began, event, answer>>

\* finally: the event in flight, whosoever it is, is taken down and set.
SetEvent(r) ==
    LET done == flight[HostOf[r]] IN
    /\ rq[r] = "release"
    /\ flight' = [flight EXCEPT ![HostOf[r]] = None]
    /\ event' = [s \in Requests |-> IF event[s] = done THEN None ELSE event[s]]
    /\ Go(r, "idle")
    /\ UNCHANGED <<memory, shared, began, answer>>

-----------------------------------------------------------------------------
(* The requests that wait.                                                 *)

\* Mutant: whatever is in memory after the event, as get_ranking_strength has it.
AwokenTrusts(r) ==
    /\ rq[r] = "wait" /\ event[r] = None
    /\ \/ /\ Recall(r) # None
          /\ answer' = Recall(r).age
          /\ UNCHANGED memory
       \/ /\ Recall(r) = None
          /\ shared # None
          /\ Keep(r, shared.age, 0)
          /\ answer' = shared.age
       \/ /\ Recall(r) = None
          /\ UNCHANGED <<memory, answer>>
    /\ Go(r, "idle")
    /\ UNCHANGED <<shared, flight, began, event>>

\* The event was set in time: memory if it is fresh by now, else Redis, else
\* what was in memory before, marked, or 503.
Awoken(r) ==
    /\ rq[r] = "wait" /\ event[r] = None
    /\ \/ /\ Fresh(r)
          /\ answer' = Recall(r).age
          /\ UNCHANGED memory
       \/ /\ ~Fresh(r)
          /\ shared # None
          /\ Keep(r, shared.age, 0)
          /\ answer' = shared.age
       \/ /\ ~Fresh(r)
          /\ UNCHANGED <<memory, answer>>
    /\ Go(r, "idle")
    /\ UNCHANGED <<shared, flight, began, event>>

\* The wait timed out: what was in memory before, marked, or 503.
WaitTimesOut(r) ==
    /\ rq[r] = "wait"
    /\ Go(r, "idle")
    /\ event' = [event EXCEPT ![r] = None]
    /\ UNCHANGED <<memory, shared, flight, began, answer>>

-----------------------------------------------------------------------------
\* Time passes, but for a request that has a payload to put into Redis.
RankTick ==
    /\ \A r \in Requests : rq[r] # "publish"
    /\ memory' = [h \in Hosts |->
                    IF memory[h] = None THEN None
                    ELSE [age |-> Aged(memory[h].age, 2 * ProgramTtl),
                          since |-> Aged(memory[h].since, ProgramTtl)]]
    /\ shared' = IF shared = None THEN None
                 ELSE IF shared.left = 1 THEN None
                 ELSE [age |-> Aged(shared.age, 2 * ProgramTtl), left |-> shared.left - 1]
    /\ began' = [r \in Requests |-> IF rq[r] = "redis" THEN Aged(began[r], ProgramTtl) ELSE 0]
    /\ UNCHANGED <<flight, rq, event, answer>>

RankNext ==
    \/ \E r \in Requests :
        \/ GetRanking(r) \/ ReadRedis(r) \/ Claim(r)
        \/ Compute(r) \/ Publish(r) \/ ComputeFails(r) \/ SetEvent(r)
        \/ Awoken(r) \/ WaitTimesOut(r)
    \/ RankTick

RankSpec == RankInit /\ [][RankNext]_rankVars
-----------------------------------------------------------------------------
\* An answer that is not marked stale was computed less than twice ProgramTtl ago,
\* although payloads are passed on between processes, put back into memory with
\* a new stamp after failures, and answered to requests that waited for others.
UnmarkedIsRecent == answer < 2 * ProgramTtl
=============================================================================
