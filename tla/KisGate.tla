------------------------------ MODULE KisGate ------------------------------
(***************************************************************************)
(* The degradation gate of KIS REST (monitoring.is_kis_degraded), what     *)
(* feeds it and what it shuts: the wrapper of KISCollector._get records    *)
(* every call, and while the gate is shut _get refuses the calls of its    *)
(* target TR ids, which are recorded as errors.  The poller of the hot     *)
(* rankings, the one poller of KIS REST that runs whatever the environment *)
(* says, calls a target TR id in the first part of each of its rounds and  *)
(* another one in the second.                                              *)
(*                                                                         *)
(* Time is counted in evaluation intervals.  The window is a sequence of   *)
(* Width intervals, the current one first, each with its calls and errors. *)
(***************************************************************************)
EXTENDS Naturals, Sequences

CONSTANTS
    Width,      \* KIS_DEGRADE_WINDOW_SEC, in evaluation intervals
    MinCalls,   \* KIS_DEGRADE_MIN_CALLS
    RateNum,    \* KIS_DEGRADE_FAILURE_RATE = RateNum / RateDen
    RateDen,
    Required,   \* KIS_DEGRADE_CONSEC_WINDOWS
    RankCalls,    \* calls of a target TR id in a round of the poller
    ProgramCalls, \* calls of another TR id in the same round
    MaxCalls    \* bound: calls recorded in one interval

\* max(1, ..) of the counts; a rate of zero would call every busy window bad.
ASSUME GateAssumption ==
    /\ Width \in Nat \ {0} /\ MinCalls \in Nat \ {0} /\ Required \in Nat \ {0}
    /\ RateNum \in Nat \ {0} /\ RateDen \in Nat \ {0}
    /\ RankCalls \in Nat /\ ProgramCalls \in Nat /\ MaxCalls \in Nat

VARIABLES
    up,         \* calls that are made succeed
    crowd,      \* the market is open, or users' requests call KIS
    window,     \* _KIS_WINDOW
    evalDue,    \* KIS_DEGRADE_EVAL_INTERVAL_SEC has passed since "last_eval_ts"
    gateStreak, \* _KIS_DEGRADE_STATE["streak"], at most Required
    gateShut,   \* _KIS_DEGRADE_STATE["active"]
    ranks,      \* calls of the first part of the poller's round still to be made
    programs,   \* and of the second part
    calling,    \* a call of the first part has passed the gate and is under way
    pause,      \* intervals the poller still sleeps
    lull,       \* crowd has been false since its last round
    asking      \* a request's call is under way

roundVars == <<ranks, programs, calling, pause, lull>>
judgeVars == <<evalDue, gateStreak, gateShut>>
gateVars  == <<up, crowd, window, judgeVars, roundVars, asking>>

Bucket == {b \in [calls : 0 .. MaxCalls, errors : 0 .. MaxCalls] : b.errors <= b.calls}
Empty  == [calls |-> 0, errors |-> 0]

GateTypeOK ==
    /\ up \in BOOLEAN /\ crowd \in BOOLEAN /\ evalDue \in BOOLEAN /\ gateShut \in BOOLEAN
    /\ window \in [1 .. Width -> Bucket]
    /\ gateStreak \in 0 .. Required
    /\ ranks \in 0 .. RankCalls /\ programs \in 0 .. ProgramCalls /\ pause \in 0 .. Width
    /\ calling \in BOOLEAN /\ lull \in BOOLEAN /\ asking \in BOOLEAN

GateInit ==
    /\ up \in BOOLEAN /\ crowd \in BOOLEAN
    /\ window = [i \in 1 .. Width |-> Empty]
    /\ evalDue = TRUE /\ gateStreak = 0 /\ gateShut = FALSE
    /\ ranks = 0 /\ programs = 0 /\ calling = FALSE /\ pause = 0 /\ lull = FALSE
    /\ asking = FALSE

-----------------------------------------------------------------------------
(* is_kis_degraded, called by every call of a target TR id, by the          *)
(* middleware for every request to /api/ and by _kis_rest_should_skip.      *)

\* Calls, or errors, in the last n intervals.
Total[n \in 0 .. Width] ==
    IF n = 0 THEN [calls |-> 0, errors |-> 0]
    ELSE [calls  |-> Total[n - 1].calls + window[n].calls,
          errors |-> Total[n - 1].errors + window[n].errors]

Degraded(n) == /\ Total[n].calls >= MinCalls
               /\ Total[n].errors * RateDen >= RateNum * Total[n].calls

\* The windows in a row that were bad, once the last n intervals are judged.
StreakAfter(n) == IF ~Degraded(n) THEN 0
                  ELSE IF gateStreak < Required THEN gateStreak + 1 ELSE gateStreak

\* Mutant: too few calls are no reason to change anything.
EvaluateIfEnough(n) ==
    IF evalDue /\ Total[n].calls >= MinCalls
    THEN /\ gateStreak' = StreakAfter(n)
         /\ gateShut' = (gateStreak' >= Required)
         /\ evalDue' = FALSE
    ELSE UNCHANGED judgeVars

\* Evaluated at most once per interval, over the last n of them.
Evaluate(n) ==
    IF evalDue
    THEN /\ gateStreak' = StreakAfter(n)
         /\ gateShut' = (gateStreak' >= Required)
         /\ evalDue' = FALSE
    ELSE UNCHANGED judgeVars

\* observe_kis_call, which the wrapper of _get calls with every result.
Observe(ok) ==
    /\ window[1].calls < MaxCalls
    /\ window' = [window EXCEPT ![1] = [calls |-> @.calls + 1,
                                        errors |-> @.errors + IF ok THEN 0 ELSE 1]]

-----------------------------------------------------------------------------
\* An interval passes; the poller sleeps between its rounds.
GateTick ==
    /\ evalDue' = TRUE
    /\ window' = [i \in 1 .. Width |-> IF i = 1 THEN Empty ELSE window[i - 1]]
    /\ pause' = IF pause = 0 THEN 0 ELSE pause - 1
    /\ UNCHANGED <<up, crowd, gateStreak, gateShut, ranks, programs, calling, lull, asking>>

KisChanges ==
    /\ up' = ~up
    /\ UNCHANGED <<crowd, window, judgeVars, roundVars, asking>>

CrowdChanges ==
    /\ crowd' = ~crowd
    /\ lull' = FALSE
    /\ UNCHANGED <<up, window, judgeVars, ranks, programs, calling, pause, asking>>

-----------------------------------------------------------------------------
(* The poller of the hot rankings, whom nothing stops.  Its worker threads  *)
(* make the calls of a part of a round in any order: here one by one.       *)

\* What is left of the round.  After it the poller sleeps less than an interval
\* while the market is open, and no less than the window while it is not.
Left(first, second) ==
    /\ ranks' = first /\ programs' = second
    /\ IF first + second = 0
       THEN pause' = (IF crowd THEN 0 ELSE Width) /\ lull' = ~crowd
       ELSE UNCHANGED <<pause, lull>>

\* refresh_hot_rankings: a part whose result is cached, here or in Redis, makes
\* no calls.  No result lives as long as the poller sleeps while the market is
\* closed, so that it finds one only if a request has asked for it: this is the
\* one process of the Dockerfile, with no other poller that shares its Redis.
RoundStarts ==
    /\ ranks = 0 /\ programs = 0 /\ pause = 0
    /\ \E first \in {0, RankCalls}, second \in {0, ProgramCalls} :
        /\ lull => first = RankCalls /\ second = ProgramCalls
        /\ Left(first, second)
    /\ UNCHANGED <<up, crowd, window, judgeVars, calling, asking>>

\* _get for a target TR id: while the gate is shut the call is refused, with a
\* result that is recorded like any other.
RankCall ==
    /\ ranks > 0 /\ ~calling
    /\ Evaluate(Width)
    /\ IF gateShut'
       THEN Observe(FALSE) /\ Left(ranks - 1, programs) /\ UNCHANGED calling
       ELSE calling' = TRUE /\ UNCHANGED <<window, ranks, programs, pause, lull>>
    /\ UNCHANGED <<up, crowd, asking>>

\* The answer of KIS, or an error: a timeout, an HTTP status, a full semaphore.
RankAnswered ==
    /\ calling
    /\ Observe(up)
    /\ calling' = FALSE
    /\ Left(ranks - 1, programs)
    /\ UNCHANGED <<up, crowd, judgeVars, asking>>

ProgramCall ==
    /\ ranks = 0 /\ programs > 0
    /\ Observe(up)
    /\ Left(0, programs - 1)
    /\ UNCHANGED <<up, crowd, judgeVars, calling, asking>>

-----------------------------------------------------------------------------
(* Requests.                                                                *)

\* The middleware, after a request to /api/ that calls nothing of KIS, or a
\* handler that skips its calls because the gate is shut.
Request ==
    /\ Evaluate(Width)
    /\ UNCHANGED <<up, crowd, window, roundVars, asking>>

\* A handler calls a target TR id.
Ask ==
    /\ crowd /\ ~asking
    /\ Evaluate(Width)
    /\ IF gateShut' THEN Observe(FALSE) /\ UNCHANGED asking
                  ELSE asking' = TRUE /\ UNCHANGED window
    /\ UNCHANGED <<up, crowd, roundVars>>

Answered ==
    /\ asking
    /\ Observe(up)
    /\ asking' = FALSE
    /\ UNCHANGED <<up, crowd, judgeVars, roundVars>>

\* A handler's call of any other TR id.
OtherCall ==
    /\ crowd
    /\ Observe(up)
    /\ UNCHANGED <<up, crowd, judgeVars, roundVars, asking>>

\* What is older than n intervals leaves the deque.
Forget(n) == window' = [i \in 1 .. Width |-> IF i <= n THEN window[i] ELSE Empty]

\* /api/ops/metrics with a window_sec of n intervals: the deque is pruned, and
\* the gate evaluated over what is left.
ReadMetrics(n) ==
    /\ Forget(n)
    /\ Evaluate(n)
    /\ UNCHANGED <<up, crowd, roundVars, asking>>

\* /api/ops/kis-status: evaluated first, then pruned.
ReadStatus(n) ==
    /\ Forget(n)
    /\ Evaluate(Width)
    /\ UNCHANGED <<up, crowd, roundVars, asking>>

GateNext ==
    \/ GateTick \/ KisChanges \/ CrowdChanges
    \/ RoundStarts \/ RankCall \/ RankAnswered \/ ProgramCall
    \/ Request \/ Ask \/ Answered \/ OtherCall
    \/ \E n \in 1 .. Width : ReadMetrics(n) \/ ReadStatus(n)

\* The thread of the poller goes on: it starts its rounds and makes their calls.
PollerStep == RoundStarts \/ RankCall \/ RankAnswered \/ ProgramCall

\* Time passes, the poller goes on, and calls end (they have a timeout).
GateFairness == WF_gateVars(GateTick) /\ WF_gateVars(PollerStep) /\ WF_gateVars(Answered)

GateSpec == GateInit /\ [][GateNext]_gateVars /\ GateFairness
-----------------------------------------------------------------------------
(* Properties.                                                              *)

\* Once the market has closed and users have gone, the gate does not stay shut
\* although the calls it refuses count as errors (app_server 112-118): the
\* poller sleeps no less than the window (part07 297-298, 374-379), so that its
\* next round is judged by an empty one (monitoring 388-405).  With KIS up the
\* gate then opens for good.  While the market is open refusals may keep it shut.
GateReopens ==
    /\ <>[]~crowd => []<>~gateShut
    /\ <>[](up /\ ~crowd) => <>[]~gateShut
=============================================================================
