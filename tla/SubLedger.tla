------------------------------ MODULE SubLedger ------------------------------
(***************************************************************************)
(* The demand-driven life of order book subscriptions: HTTP and WS         *)
(* handlers (Clients) add a code to the order book hub and then touch its  *)
(* record in the ledger (services/kis_sub_ledger.py); a sweeper thread     *)
(* takes a snapshot of the stale codes, removes them from the hub, and     *)
(* then has the ledger prune what is stale by a second snapshot.  The hub  *)
(* is represented by its desired set, CodeSet.                               *)
(*                                                                         *)
(* first_ts and last_ts are kept as ages, which stop at the first value    *)
(* past both thresholds.                                                   *)
(***************************************************************************)
EXTENDS CodeSet, Integers

CONSTANTS Clients,   \* request handlers
          Idle,      \* IDLE_SEC
          Dwell,     \* DWELL_SEC
          MaxCalls,  \* bound: requests in a behaviour
          None       \* Python's None

ASSUME ThresholdAssumption == Idle \in Nat /\ Dwell \in Nat
ASSUME BoundAssumption     == MaxCalls \in Nat

MaxAge == (IF Idle > Dwell THEN Idle ELSE Dwell) + 1
Record == [age : 0 .. MaxAge, dwell : 0 .. MaxAge]

ASSUME NoneAssumption == None \notin Record /\ None \notin Codes

VARIABLES
    records,    \* records[x]: the ledger's record of code x, or None
    touching,   \* touching[c]: the code client c is about to touch, or None
    spc,        \* where the sweeper is
    stale,      \* the stale codes of its first snapshot
    doomed,     \* those of prune_stale's own snapshot
    calls,      \* bound
    since,      \* history: codes touched since the first snapshot
    slipped     \* history: prune dropped a code that was touched since the
                \* first snapshot, or that became stale after it

vars == <<codes, records, touching, spc, stale, doomed, calls, since, slipped>>

TypeOK ==
    /\ codes \in SUBSET Codes
    /\ records \in [Codes -> Record \cup {None}]
    /\ touching \in [Clients -> Codes \cup {None}]
    /\ spc \in {"snapshot", "remove", "prune", "pop"}
    /\ stale \in SUBSET Codes
    /\ doomed \in SUBSET Codes
    /\ calls \in 0 .. MaxCalls
    /\ since \in SUBSET Codes
    /\ slipped \in BOOLEAN

Init ==
    /\ codes = {}
    /\ records = [x \in Codes |-> None]
    /\ touching = [c \in Clients |-> None]
    /\ spc = "snapshot" /\ stale = {} /\ doomed = {}
    /\ calls = 0 /\ since = {} /\ slipped = FALSE

-----------------------------------------------------------------------------
(* The ledger.                                                             *)

Tracked == {x \in Codes : records[x] # None}

\* Mutant: idle or dwelt long enough, for idle and dwelt long enough.
IsStaleEither(r) == r.age > Idle \/ r.dwell > Dwell

IsStale(r) == r.age > Idle /\ r.dwell > Dwell

\* snapshot(), under the lock.
StaleCodes == {x \in Tracked : IsStale(records[x])}

\* Mutant: first_ts is not set.
TouchNoFirst(x) ==
    records' = [records EXCEPT ![x] =
        [age |-> 0, dwell |-> IF records[x] = None THEN None ELSE records[x].dwell]]

\* touch(): a new record, or a fresh last_ts.
Touch(x) ==
    records' = [records EXCEPT ![x] =
        [age |-> 0, dwell |-> IF records[x] = None THEN 0 ELSE records[x].dwell]]

\* Time passes.
Older(n) == IF n < MaxAge THEN n + 1 ELSE n
Tick ==
    /\ \E x \in Tracked : records[x].age < MaxAge
    /\ records' = [x \in Codes |->
          IF records[x] = None THEN None
          ELSE [age |-> Older(records[x].age), dwell |-> Older(records[x].dwell)]]
    /\ UNCHANGED <<codes, touching, spc, stale, doomed, calls, since, slipped>>

-----------------------------------------------------------------------------
(* Requests.                                                               *)

Begin(c, x) ==
    /\ touching[c] = None
    /\ calls < MaxCalls
    /\ calls' = calls + 1
    /\ touching' = [touching EXCEPT ![c] = x]
    /\ UNCHANGED <<records, spc, stale, doomed, since, slipped>>

\* _ensure_orderbook_subscription: add_codes first ..
OrderbookRequest(c, x) == Begin(c, x) /\ Add(x)

\* _ensure_rt_subscription: the RT hub, which the sweeper leaves alone.
PriceRequest(c, x) == Begin(c, x) /\ UNCHANGED codes

\* .. and then touch, either way.
FinishRequest(c) ==
    /\ touching[c] # None
    /\ Touch(touching[c])
    /\ since' = since \cup {touching[c]}
    /\ touching' = [touching EXCEPT ![c] = None]
    /\ UNCHANGED <<codes, spc, stale, doomed, calls, slipped>>

-----------------------------------------------------------------------------
(* _sub_ledger_sweep_loop.                                                 *)

Snapshot ==
    /\ spc = "snapshot"
    /\ stale' = StaleCodes
    /\ since' = {}
    /\ spc' = IF stale' = {} THEN "prune" ELSE "remove"
    /\ UNCHANGED <<codes, records, touching, doomed, calls, slipped>>

\* Mutant: the stale codes are pruned, and left in the hub.
RemoveStaleNot ==
    /\ spc = "remove"
    /\ spc' = "prune"
    /\ UNCHANGED <<codes, records, touching, stale, doomed, calls, since, slipped>>

RemoveStale ==
    /\ spc = "remove"
    /\ Remove(stale)
    /\ spc' = "prune"
    /\ UNCHANGED <<records, touching, stale, doomed, calls, since, slipped>>

\* prune_stale: a snapshot of its own ..
Prune ==
    /\ spc = "prune"
    /\ doomed' = StaleCodes
    /\ spc' = "pop"
    /\ UNCHANGED <<codes, records, touching, stale, calls, since, slipped>>

\* Mutant: only the pruning is repeated.
PopOnce ==
    /\ spc = "pop"
    /\ records' = [x \in Codes |-> IF x \in doomed THEN None ELSE records[x]]
    /\ slipped' = (slipped \/ \E x \in doomed \cap Tracked : x \notin stale \/ x \in since)
    /\ spc' = "pop"
    /\ doomed' = {}
    /\ UNCHANGED <<codes, touching, stale, calls, since>>

\* .. and the lock again to pop it; then sleep.
Pop ==
    /\ spc = "pop"
    /\ records' = [x \in Codes |-> IF x \in doomed THEN None ELSE records[x]]
    /\ slipped' = (slipped \/ \E x \in doomed \cap Tracked : x \notin stale \/ x \in since)
    /\ spc' = "snapshot"
    /\ doomed' = {}
    /\ UNCHANGED <<codes, touching, stale, calls, since>>

Sweeper == Snapshot \/ RemoveStale \/ Prune \/ Pop

Next ==
    \/ Tick
    \/ \E c \in Clients :
        \/ \E x \in Codes : OrderbookRequest(c, x) \/ PriceRequest(c, x)
        \/ FinishRequest(c)
    \/ Snapshot \/ RemoveStale \/ Prune \/ Pop

Spec == Init /\ [][Next]_vars

\* Time passes, a request in progress returns, and the daemon thread runs.
Fairness ==
    /\ WF_vars(Tick)
    /\ WF_vars(Sweeper)
    /\ \A c \in Clients : WF_vars(FinishRequest(c))

FairSpec == Spec /\ Fairness

-----------------------------------------------------------------------------
(* Properties.                                                             *)

Pending == {touching[c] : c \in Clients} \ {None}

\* A code in the hub is one the sweeper will find: it has a record, or a
\* request is about to give it one.  Only a slip of the sweeper, between its
\* two snapshots or before its pop, can lose the record alone.
TrackedUnlessSlipped == slipped \/ codes \subseteq Tracked \cup Pending

\* The sweeper takes from the hub what was idle, and known for long enough,
\* when it looked: a code touched since may lose its subscription (the next
\* request restores it), any other may not.
SweptOnlyWhenIdle ==
    [][\A x \in codes \ codes' :
        \/ x \in since
        \/ records[x].age > Idle /\ records[x].dwell > Dwell]_vars

\* When requests stop, every subscription is given up, unless a slip lost one.
EventuallySwept == <>[](slipped \/ codes = {})

\* "The sweeper periodically removes stale codes from the order book hub"
\* (part01 1138): a code in the hub never loses its record.
NeverUntracked == codes \subseteq Tracked \cup Pending
=============================================================================
