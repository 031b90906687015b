---------------------------- MODULE RestBreaker ----------------------------
(***************************************************************************)
(* The circuit breaker of the KIS REST fetches of part01_realtime_base.py, *)
(* for one key (kind and code).  Its three functions take the lock each on *)
(* their own, so any number of threads may be between the question whether *)
(* to call and the mark that tells the outcome.  Time is counted in units  *)
(* of the base back-off.                                                   *)
(***************************************************************************)
EXTENDS Naturals

CONSTANTS
    Fetchers,   \* threads that fetch
    Cap,        \* _KIS_REST_ERROR_MAX_BACKOFF_SEC
    Jitter,     \* the largest jitter, rounded up
    Threshold,  \* _KIS_REST_SUCCESS_THRESHOLD
    CapFails,   \* bound: failures counted; by then the delay is Cap
    Delay       \* Delay[n]: the back-off after n failures, without its jitter

ASSUME BreakerAssumption ==
    /\ Cap \in Nat /\ Jitter \in Nat /\ Threshold \in Nat \ {0} /\ CapFails \in Nat \ {0}
    /\ Delay \in [1 .. CapFails -> 0 .. Cap]

VARIABLES
    good,       \* the endpoint answers
    failCount,  \* "fail_count"
    wait,       \* how far "next_retry_ts" is ahead
    streak,     \* "success_streak"
    fetching,   \* threads whose call is under way
    since       \* history: time since a failure was last marked, at most Cap

breakerVars == <<good, failCount, wait, streak, fetching, since>>

BreakerTypeOK ==
    /\ good \in BOOLEAN
    /\ failCount \in 0 .. CapFails
    /\ wait \in 0 .. Cap + Jitter
    /\ streak \in 0 .. Threshold - 1
    /\ fetching \in SUBSET Fetchers
    /\ since \in 0 .. Cap

BreakerInit ==
    /\ good \in BOOLEAN
    /\ failCount = 0 /\ wait = 0 /\ streak = 0 /\ fetching = {} /\ since = Cap

\* min(MAX_BACKOFF, BASE * 2 ** (n - 1)): the Delay of the code.
Doubling == [n \in 1 .. CapFails |-> IF 2 ^ (n - 1) < Cap THEN 2 ^ (n - 1) ELSE Cap]

-----------------------------------------------------------------------------
EndpointChanges == good' = ~good /\ UNCHANGED <<failCount, wait, streak, fetching, since>>

TimePasses ==
    /\ wait' = IF wait > 0 THEN wait - 1 ELSE 0
    /\ since' = IF since < Cap THEN since + 1 ELSE Cap
    /\ UNCHANGED <<good, failCount, streak, fetching>>

\* _kis_rest_allow_call, and the call begins.
AllowCall(c) ==
    /\ c \notin fetching
    /\ wait = 0
    /\ fetching' = fetching \cup {c}
    /\ UNCHANGED <<good, failCount, wait, streak, since>>

\* Mutant: a success below the threshold ends the cooldown.
MarkSuccessEndsCooldown(c) ==
    /\ c \in fetching /\ good
    /\ fetching' = fetching \ {c}
    /\ wait' = 0
    /\ IF failCount = 0 \/ streak + 1 >= Threshold
       THEN failCount' = 0 /\ streak' = 0
       ELSE streak' = streak + 1 /\ UNCHANGED failCount
    /\ UNCHANGED <<good, since>>

\* Mutant: the streak is not carried over.
MarkSuccessForgets(c) ==
    /\ c \in fetching /\ good
    /\ fetching' = fetching \ {c}
    /\ IF failCount = 0 \/ streak + 1 >= Threshold
       THEN failCount' = 0 /\ wait' = 0 /\ streak' = 0
       ELSE streak' = 0 /\ UNCHANGED <<failCount, wait>>
    /\ UNCHANGED <<good, since>>

\* Mutant: > for >=.
MarkSuccessOffByOne(c) ==
    /\ c \in fetching /\ good
    /\ fetching' = fetching \ {c}
    /\ IF failCount = 0 \/ streak + 1 > Threshold
       THEN failCount' = 0 /\ wait' = 0 /\ streak' = 0
       ELSE streak' = streak + 1 /\ UNCHANGED <<failCount, wait>>
    /\ UNCHANGED <<good, since>>

\* _kis_rest_mark_success: healthy, or recovered by enough successes in a row.
MarkSuccess(c) ==
    /\ c \in fetching /\ good
    /\ fetching' = fetching \ {c}
    /\ IF failCount = 0 \/ streak + 1 >= Threshold
       THEN failCount' = 0 /\ wait' = 0 /\ streak' = 0
       ELSE streak' = streak + 1 /\ UNCHANGED <<failCount, wait>>
    /\ UNCHANGED <<good, since>>

\* _kis_rest_mark_failure: also of a call that began before earlier failures.
MarkFailure(c) ==
    /\ c \in fetching /\ ~good
    /\ fetching' = fetching \ {c}
    /\ failCount' = IF failCount < CapFails THEN failCount + 1 ELSE CapFails
    /\ \E j \in 0 .. Jitter : wait' = Delay[failCount'] + j
    /\ streak' = 0 /\ since' = 0
    /\ UNCHANGED good

\* A soft error (the call was refused locally) is not marked at all.
SoftError(c) ==
    /\ c \in fetching /\ ~good
    /\ fetching' = fetching \ {c}
    /\ UNCHANGED <<good, failCount, wait, streak, since>>

BreakerNext ==
    \/ EndpointChanges \/ TimePasses
    \/ \E c \in Fetchers : AllowCall(c) \/ MarkSuccess(c) \/ MarkFailure(c) \/ SoftError(c)

\* Time passes, calls end, and somebody asks for the code again and again.
BreakerFairness ==
    /\ WF_breakerVars(TimePasses)
    /\ \A c \in Fetchers :
        /\ WF_breakerVars(AllowCall(c))
        /\ WF_breakerVars(MarkSuccess(c) \/ MarkFailure(c) \/ SoftError(c))

BreakerSpec == BreakerInit /\ [][BreakerNext]_breakerVars /\ BreakerFairness
-----------------------------------------------------------------------------
(* Properties.                                                             *)

\* Until the breaker has recovered, no call begins within the delay that the
\* number of failures asks for, counted from the last failure, whatever calls
\* were under way when it failed and succeed later (part01 1438-1466).
BackoffHolds ==
    [][fetching' \ fetching # {} /\ failCount > 0 => since >= Delay[failCount]]_breakerVars

\* Once the endpoint answers for good the breaker recovers for good, although
\* it takes Threshold successes in a row and calls are rare in a cooldown.
BreakerRecovers == (<>[]good) => <>[](failCount = 0)
=============================================================================
