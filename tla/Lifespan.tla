------------------------------ MODULE Lifespan ------------------------------
(***************************************************************************)
(* The start of one server process (app_server.py, _lifespan): which of    *)
(* the background pollers it starts, and who refreshes the stocks' prices  *)
(* when their poller does not run: GET /api/stocks, which starts a refresh *)
(* of its own when the last one is more than a minute old                  *)
(* (part02_list_theme_market.py).                                          *)
(***************************************************************************)
EXTENDS Integers, Sequences

CONSTANTS Listers,     \* request threads of GET /api/stocks
          MaxStarts,   \* bound: restarts of the process
          MaxErrors    \* bound: refreshes that raise

ASSUME LifespanAssumption == MaxStarts \in Nat /\ MaxErrors \in Nat

\* The pollers _lifespan starts one after the other, each named for what its
\* variable SKIP_.. skips; "LIGHT" is SERVER_LIGHT_STARTUP.
Heavy == <<"timeline", "limitUp", "prices", "etf", "home">>
Pollers == {Heavy[i] : i \in 1 .. Len(Heavy)}
Flags == Pollers \cup {"LIGHT"}

VARIABLES
    env,      \* the flags that are set in the environment of the process
    step,     \* the poller _lifespan comes to next; past the last one it serves
    started,  \* pollers that were started
    allowed,  \* _is_refresh_allowed(): a trading day, between 8:30 and 16:30
    stamp,    \* _LAST_PRICE_REFRESH_AT is "recent", or "old": more than 60 s ago
    lister,   \* where each request is: "idle", or "due": it found a refresh due
    waiting,  \* refresh threads that have not tried the lock yet
    busy,     \* _BG_REFRESH_LOCK is held: a refresh is under way
    fresh,    \* history: the prices were refreshed a short while ago
    starts, errors   \* bounds

startVars == <<env, step, started>>
lifeVars  == <<startVars, allowed, stamp, lister, waiting, busy, fresh, starts, errors>>

Serving == step > Len(Heavy)

LifespanTypeOK ==
    /\ env \subseteq Flags
    /\ step \in 1 .. Len(Heavy) + 1
    /\ started \subseteq Pollers
    /\ allowed \in BOOLEAN /\ busy \in BOOLEAN /\ fresh \in BOOLEAN
    /\ stamp \in {"recent", "old"}
    /\ lister \in [Listers -> {"idle", "due"}]
    /\ waiting \in Nat
    /\ starts \in 0 .. MaxStarts /\ errors \in 0 .. MaxErrors

LifespanInit ==
    /\ env \in SUBSET Flags
    /\ step = 1 /\ started = {}
    /\ allowed \in BOOLEAN /\ stamp = "old"
    /\ lister = [r \in Listers |-> "idle"]
    /\ waiting = 0 /\ busy = FALSE /\ fresh = FALSE
    /\ starts = 0 /\ errors = 0

-----------------------------------------------------------------------------
(* Start-up.                                                               *)

\* _env_truthy(flag).  @asynccontextmanager, meant for the function below it,
\* decorates this one: a call returns an object, which is true whatever the
\* environment says.
EnvTruthy(flag) == TRUE

\* if not (light or _env_truthy(SKIP_..)): start_.._poller().
StartPoller ==
    /\ ~Serving
    /\ step' = step + 1
    /\ started' = IF EnvTruthy("LIGHT") \/ EnvTruthy(Heavy[step]) THEN started
                  ELSE started \cup {Heavy[step]}
    /\ UNCHANGED <<env, allowed, stamp, lister, waiting, busy, fresh, starts, errors>>

\* The process is killed and started again, in the same environment.
StartsAgain ==
    /\ starts < MaxStarts
    /\ starts' = starts + 1
    /\ step' = 1 /\ started' = {}
    /\ stamp' = "old"
    /\ lister' = [r \in Listers |-> "idle"]
    /\ waiting' = 0 /\ busy' = FALSE
    /\ UNCHANGED <<env, allowed, fresh, errors>>

-----------------------------------------------------------------------------
(* GET /api/stocks.                                                        *)

\* Mutant: the condition on the poller the other way round.
ListFindsPolled(r) ==
    /\ Serving /\ lister[r] = "idle"
    /\ "prices" \in started /\ allowed /\ stamp = "old"
    /\ lister' = [lister EXCEPT ![r] = "due"]
    /\ UNCHANGED <<startVars, allowed, stamp, waiting, busy, fresh, starts, errors>>

\* No poller, trading hours, and the last refresh is more than a minute old.
ListFinds(r) ==
    /\ Serving /\ lister[r] = "idle"
    /\ "prices" \notin started /\ allowed /\ stamp = "old"
    /\ lister' = [lister EXCEPT ![r] = "due"]
    /\ UNCHANGED <<startVars, allowed, stamp, waiting, busy, fresh, starts, errors>>

\* The stamp first ("against duplicates": another request may have got as far),
\* then a thread.
ListStarts(r) ==
    /\ lister[r] = "due"
    /\ lister' = [lister EXCEPT ![r] = "idle"]
    /\ stamp' = "recent"
    /\ waiting' = waiting + 1
    /\ UNCHANGED <<startVars, allowed, busy, fresh, starts, errors>>

\* _bg_refresh_prices: a thread that finds the lock taken returns.
Acquire ==
    /\ waiting > 0
    /\ waiting' = waiting - 1
    /\ busy' = TRUE
    /\ UNCHANGED <<startVars, allowed, stamp, lister, fresh, starts, errors>>

\* The prices are written, the stamp is renewed.
PricesWritten ==
    /\ busy
    /\ busy' = FALSE
    /\ stamp' = "recent" /\ fresh' = TRUE
    /\ UNCHANGED <<startVars, allowed, lister, waiting, starts, errors>>

\* An exception is logged; finally releases the lock.
RefreshFails ==
    /\ busy
    /\ errors < MaxErrors
    /\ errors' = errors + 1
    /\ busy' = FALSE
    /\ UNCHANGED <<startVars, allowed, stamp, lister, waiting, fresh, starts>>

\* A minute passes; nothing under way takes that long, but a refresh may.
Minute ==
    /\ stamp' = "old" /\ fresh' = FALSE
    /\ waiting = 0 /\ \A r \in Listers : lister[r] = "idle"
    /\ UNCHANGED <<startVars, allowed, lister, waiting, busy, starts, errors>>

\* Trading hours begin or end.
Hours ==
    /\ allowed' = ~allowed
    /\ UNCHANGED <<startVars, stamp, lister, waiting, busy, fresh, starts, errors>>

-----------------------------------------------------------------------------
LifespanNext ==
    \/ StartPoller \/ StartsAgain
    \/ \E r \in Listers : ListFinds(r) \/ ListStarts(r)
    \/ Acquire \/ PricesWritten \/ RefreshFails \/ Minute \/ Hours

\* Start-up and threads go on, time passes, and somebody lists the stocks.
LifespanFairness ==
    /\ WF_lifeVars(StartPoller) /\ WF_lifeVars(Acquire) /\ WF_lifeVars(PricesWritten)
    /\ WF_lifeVars(Minute)
    /\ \A r \in Listers : WF_lifeVars(ListFinds(r)) /\ WF_lifeVars(ListStarts(r))

LifespanSpec == LifespanInit /\ [][LifespanNext]_lifeVars /\ LifespanFairness

-----------------------------------------------------------------------------
\* What the docstring of _lifespan says: SERVER_LIGHT_STARTUP skips the heavy
\* pollers, SKIP_.. skips one of them; all others run once the process serves.
PollersAsConfigured ==
    Serving => started = {p \in Pollers : "LIGHT" \notin env /\ p \notin env}

\* Whatever runs in the background: while it is trading hours and people look
\* at the list of stocks, its prices are refreshed again and again, although
\* refreshes fail, requests come to the same decision at the same time, and the
\* stamp that keeps them apart is set before anything was refreshed.
PricesKeepComing == <>[]allowed => []<>fresh
=============================================================================
