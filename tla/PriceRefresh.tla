---------------------------- MODULE PriceRefresh ----------------------------
(***************************************************************************)
(* The refresh of price_today (state.py): every worker process refreshes   *)
(* the hot stocks and a rotating batch of the others, or the stocks        *)
(* somebody looks at, and writes the prices in one transaction, a row at a *)
(* time in the order of the codes.  The ranking endpoints write the same   *)
(* table in the order of the ranking (part04).  Postgres keeps the rows    *)
(* locked until the commit, and aborts one of the transactions that wait   *)
(* for each other.  _BG_REFRESH_LOCK admits one refresh per process; one   *)
(* that finds it taken is skipped, which changes nothing.                  *)
(***************************************************************************)
EXTENDS Naturals, FiniteSets

CONSTANTS
    N,           \* the stocks are 1 .. N, in the order of their codes
    Refreshers,   \* worker processes
    Rankers,     \* threads that run _upsert_ranking_to_db
    HotSets,     \* sets that the _BG_REFRESH_HOT_COUNT hottest stocks can be
    ColdBatch,   \* _BG_REFRESH_COLD_BATCH
    MaxRetry,    \* max_retry
    FocusLists,  \* the sets of stocks a focus refresh or a ranking is about
    MaxMissing   \* bound: stocks without an answer in one refresh, unless all

ASSUME RefreshAssumption ==
    /\ N \in Nat \ {0} /\ ColdBatch \in Nat /\ MaxRetry \in Nat \ {0}
    /\ Refreshers \cap Rankers = {}
    /\ HotSets \subseteq SUBSET (1 .. N)
    /\ \A cs \in FocusLists : cs \subseteq 1 .. N /\ cs # {}

VARIABLES
    quiet,     \* stocks keep their ranks, KIS answers, no ranking is written
    hot,       \* the stocks with the largest trading value
    offset,    \* offset[p]: _BG_REFRESH_ROTATE_OFFSET
    stage,     \* stage[w]: where the writer stands
    batch,     \* batch[w]: the stocks it refreshes, then those with a price
    held,      \* held[w]: the rows its transaction has written
    next,      \* next[w]: the row its statement writes, 0 after the last
    attempt,   \* attempt[p]: of _write_price_today_batch
    due        \* processes whose poller owes a full refresh: last_full_ts

refreshVars == <<quiet, hot, offset, stage, batch, held, next, attempt, due>>

Stocks  == 1 .. N
Writers == Refreshers \cup Rankers

RefreshTypeOK ==
    /\ quiet \in BOOLEAN
    /\ hot \in SUBSET Stocks
    /\ offset \in [Refreshers -> Nat]
    /\ stage \in [Writers -> {"idle", "fetch", "write", "pause"}]
    /\ batch \in [Writers -> SUBSET Stocks]
    /\ held \in [Writers -> SUBSET Stocks]
    /\ next \in [Writers -> Stocks \cup {0}]
    /\ attempt \in [Refreshers -> 1 .. MaxRetry]
    /\ due \in SUBSET Refreshers

RefreshInit ==
    /\ quiet = FALSE /\ hot \in HotSets
    /\ offset = [p \in Refreshers |-> 0]
    /\ stage = [w \in Writers |-> "idle"]
    /\ batch = [w \in Writers |-> {}] /\ held = [w \in Writers |-> {}]
    /\ next = [w \in Writers |-> 0]
    /\ attempt = [p \in Refreshers |-> 1]
    /\ due = {}

-----------------------------------------------------------------------------
Quiet ==
    /\ quiet' = TRUE
    /\ UNCHANGED <<hot, offset, stage, batch, held, next, attempt, due>>

RanksChange ==
    /\ ~quiet
    /\ hot' \in HotSets
    /\ UNCHANGED <<quiet, offset, stage, batch, held, next, attempt, due>>

-----------------------------------------------------------------------------
(* _bg_refresh_prices and bg_refresh_prices_for_codes.                     *)

\* The stocks that are not hot, by position: what all_codes leaves in order.
Position(c) == Cardinality({d \in Stocks \ hot : d < c})
Cold        == Stocks \ hot

Min2(a, b) == IF a < b THEN a ELSE b

\* The cold stocks at the positions from the offset on, past the end from the
\* beginning again.
ColdPick(start, take) ==
    {c \in Cold : (Position(c) + Cardinality(Cold) - start) % Cardinality(Cold) < take}

\* _PRICE_REFRESH_FALLBACK_FULL_SEC have passed.
FullDue(p) ==
    /\ due' = due \cup {p}
    /\ UNCHANGED <<quiet, hot, offset, stage, batch, held, next, attempt>>

Start(p, cs) ==
    /\ stage' = [stage EXCEPT ![p] = "fetch"]
    /\ batch' = [batch EXCEPT ![p] = cs]

\* Mutant: the picked part is not passed over.
RefreshFullInPlace(p) ==
    /\ stage[p] = "idle"
    /\ IF Cold = {} \/ ColdBatch = 0
       THEN Start(p, hot) /\ UNCHANGED offset
       ELSE LET n == Cardinality(Cold)
                take == Min2(ColdBatch, n)
                start == offset[p] % n IN
            /\ Start(p, hot \cup ColdPick(start, take))
            /\ offset' = [offset EXCEPT ![p] = start]
    /\ due' \in {due, due \ {p}}
    /\ UNCHANGED <<quiet, hot, held, next, attempt>>

\* _pick_refresh_codes: hot stocks and the next part of the rotation.  It runs
\* for the poller or for a request (part02 17), which the poller does not count.
RefreshFull(p) ==
    /\ stage[p] = "idle"
    /\ IF Cold = {} \/ ColdBatch = 0
       THEN Start(p, hot) /\ UNCHANGED offset
       ELSE LET n == Cardinality(Cold)
                take == Min2(ColdBatch, n)
                start == offset[p] % n IN
            /\ Start(p, hot \cup ColdPick(start, take))
            /\ offset' = [offset EXCEPT ![p] = (start + take) % n]
    /\ due' \in {due, due \ {p}}
    /\ UNCHANGED <<quiet, hot, held, next, attempt>>

\* Only the poller does it, and then the full refresh if that is due.
RefreshFocus(p) ==
    /\ stage[p] = "idle" /\ p \notin due
    /\ \E cs \in FocusLists : Start(p, cs)
    /\ UNCHANGED <<quiet, hot, offset, held, next, attempt, due>>

\* Mutant: the rows are written in the order in which the prices came.
NextRowsAsTheyCame(w, rows) == IF rows = {} THEN {0} ELSE rows

\* The row to write next: the prices of a refresh are sorted by code, those of
\* a ranking come as ranked.
NextRows(w, rows) ==
    IF rows = {} THEN {0}
    ELSE IF w \in Rankers THEN rows
    ELSE {c \in rows : \A d \in rows : c <= d}

Write(w, cs) ==
    /\ stage' = [stage EXCEPT ![w] = "write"]
    /\ batch' = [batch EXCEPT ![w] = cs]
    /\ \E c \in NextRows(w, cs) : next' = [next EXCEPT ![w] = c]

Idle(w) ==
    /\ stage' = [stage EXCEPT ![w] = "idle"]
    /\ batch' = [batch EXCEPT ![w] = {}]
    /\ held' = [held EXCEPT ![w] = {}]
    /\ next' = [next EXCEPT ![w] = 0]
    /\ attempt' = IF w \in Refreshers THEN [attempt EXCEPT ![w] = 1] ELSE attempt

\* The prices come back, some of them empty; without any nothing is written.
Fetched(p) ==
    /\ stage[p] = "fetch"
    /\ \E missing \in SUBSET batch[p] :
        /\ Cardinality(missing) <= MaxMissing \/ missing = batch[p]
        /\ quiet => missing = {}
        /\ IF missing = batch[p]
           THEN Idle(p)
           ELSE Write(p, batch[p] \ missing) /\ UNCHANGED <<held, attempt>>
    /\ UNCHANGED <<quiet, hot, offset, due>>

\* _upsert_ranking_to_db.
RankingWrites(r) ==
    /\ ~quiet
    /\ stage[r] = "idle"
    /\ \E cs \in FocusLists : Write(r, cs)
    /\ UNCHANGED <<quiet, hot, offset, held, attempt, due>>

-----------------------------------------------------------------------------
(* The transactions.                                                       *)

Waits(w, v) == v # w /\ next[w] \in held[v]

\* An upsert locks its row, unless another transaction has.
WriteRow(w) ==
    /\ stage[w] = "write" /\ next[w] # 0
    /\ \A v \in Writers : ~Waits(w, v)
    /\ held' = [held EXCEPT ![w] = @ \cup {next[w]}]
    /\ \E c \in NextRows(w, batch[w] \ held'[w]) : next' = [next EXCEPT ![w] = c]
    /\ UNCHANGED <<quiet, hot, offset, stage, batch, attempt, due>>

Commit(w) ==
    /\ stage[w] = "write" /\ next[w] = 0
    /\ Idle(w)
    /\ UNCHANGED <<quiet, hot, offset, due>>

\* Writers that wait for each other in a circle.
Circle(ws) == \A w \in ws : (\E v \in ws : Waits(w, v)) /\ (\E v \in ws : Waits(v, w))

\* A victim loses what it wrote; a refresh is tried again a few times.
DeadlockVictim(w) ==
    /\ \E ws \in SUBSET Writers : w \in ws /\ Circle(ws)
    /\ IF w \in Refreshers /\ attempt[w] < MaxRetry
       THEN /\ stage' = [stage EXCEPT ![w] = "pause"]
            /\ held' = [held EXCEPT ![w] = {}]
            /\ next' = [next EXCEPT ![w] = 0]
            /\ attempt' = [attempt EXCEPT ![w] = @ + 1]
            /\ UNCHANGED batch
       ELSE Idle(w)
    /\ UNCHANGED <<quiet, hot, offset, due>>

Again(p) ==
    /\ stage[p] = "pause"
    /\ Write(p, batch[p])
    /\ UNCHANGED <<quiet, hot, offset, held, attempt, due>>

RefreshStep(w) ==
    \/ w \in Refreshers /\ (Fetched(w) \/ Again(w))
    \/ WriteRow(w) \/ Commit(w) \/ DeadlockVictim(w)

RefreshNext ==
    \/ Quiet \/ RanksChange
    \/ \E p \in Refreshers : FullDue(p) \/ RefreshFull(p) \/ RefreshFocus(p) \/ Fetched(p) \/ Again(p)
    \/ \E r \in Rankers : RankingWrites(r)
    \/ \E w \in Writers : WriteRow(w) \/ Commit(w) \/ DeadlockVictim(w)

\* Refreshes and transactions go on; time passes, and the poller then does the
\* full refresh it owes, unless a request's has the lock.
RefreshFairness ==
    \A p \in Refreshers :
        /\ WF_refreshVars(RefreshStep(p))
        /\ WF_refreshVars(FullDue(p)) /\ WF_refreshVars(p \in due /\ RefreshFull(p))

RefreshSpec == RefreshInit /\ [][RefreshNext]_refreshVars /\ RefreshFairness
-----------------------------------------------------------------------------
(* Properties.                                                             *)

\* Refreshes of different processes never wait for each other in a circle,
\* whatever they and the rankings have locked: with the rows sorted it takes a
\* ranking to make a deadlock (state.py 238).
RefreshersOrdered ==
    \A ws \in SUBSET Refreshers : Circle(ws) => ws = {}

\* How many cold stocks the rotation of p has left before it comes to c.
Ahead(p, c) ==
    LET n == Cardinality(Cold) IN (Position(c) + n - (offset[p] % n)) % n

\* A full refresh takes a stock or comes a whole batch nearer to it, and nothing
\* else but a change of the ranks moves the rotation: no stock is passed over,
\* where the list of the cold stocks ends or where a focus refresh, a request or
\* a retry comes between (state.py 303-324).
RotationPassesNone ==
    [][\A p \in Refreshers, c \in Stocks :
        /\ RefreshFull(p) => c \in batch'[p] \/ Ahead(p, c)' = Ahead(p, c) - ColdBatch
        /\ c \in Cold /\ ~RefreshFull(p) /\ UNCHANGED hot => UNCHANGED Ahead(p, c)]_refreshVars

\* The transaction of a process that has written c is committed.
Refreshed(p, c) == stage[p] = "write" /\ next[p] = 0 /\ c \in held[p] /\ stage'[p] = "idle"

\* Once things stay quiet and no ranking is being written, every stock is
\* written again and again, whatever the rotations, focus refreshes, deadlocks
\* and retries did before (state.py 303-324).
RefreshedAgain ==
    (<>[](quiet /\ \A r \in Rankers : stage[r] = "idle"))
        => \A c \in Stocks : []<><<\E p \in Refreshers : Refreshed(p, c)>>_refreshVars
=============================================================================
