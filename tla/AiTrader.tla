------------------------------ MODULE AiTrader ------------------------------
(***************************************************************************)
(* The virtual trading account of scripts/ai_trader: place_order.py and    *)
(* init_db.py on the tables ai_trader_state, _positions and _orders of one *)
(* agent.  Every order is an operating-system process that reads the       *)
(* latest state row and the position, validates, and writes everything in  *)
(* one transaction at READ COMMITTED, without locking what it read; it     *)
(* waits for the row locks of others where it writes what they wrote.      *)
(* init_db --reset deletes in one transaction too, but each of its DELETEs *)
(* lists the rows that are committed when it starts.                       *)
(*                                                                         *)
(* The orders table is kept by its sums, and of a state row what the next  *)
(* order reads.  Cash is in won; average price, invested amount and        *)
(* realised profit, which the code keeps as fractions, are in 1/Scale won. *)
(***************************************************************************)
EXTENDS FillSimulator, FiniteSets, FiniteSetsExt

CONSTANTS Codes,        \* stock codes
          Procs,        \* processes running place_order
          Slots,        \* slot timestamps, ordered as the strings are
          Quotes,       \* quotes get_price may return
          Caps,         \* market capitalisations it may return (hts_avls)
          Qtys,         \* quantities ordered
          InitialCash,  \* --initial-cash of init_db
          Scale,        \* fractions of a won kept
          MaxOrders,    \* bound: orders placed in a behaviour
          MaxResets,    \* bound: runs of init_db --reset
          None          \* Python's None: no such row

Row == [cash : Int, realized : Int]
Position == [id : Nat, qty : Int, invested : Int, avg : Int]
Order == [side : Sides, code : Codes, qty : Qtys, quote : Quotes, cap : Caps, slot : Slots]
Seen == [cash : Int, realized : Int, pos : Position \cup {None}, at : Nat]
Listed == [net : Int, pnl : Int, traded : [Codes -> Int], id : Nat,
           slots : SUBSET Slots, at : Nat]

ASSUME InputAssumption ==
    /\ Slots \subseteq Nat
    /\ Qtys \subseteq Nat \ {0}
    /\ Quotes \subseteq Nat \ {0}
    /\ Caps \subseteq Nat
ASSUME MoneyAssumption == InitialCash \in Nat /\ Scale \in Nat \ {0}
ASSUME NoneAssumption ==
    None \notin Row /\ None \notin Position /\ None \notin Order /\ None \notin Seen
ASSUME LimitAssumption == MaxOrders \in Nat /\ MaxResets \in Nat
ASSUME CodesAssumption == IsFiniteSet(Codes)

\* The fractions of a won kept are fine enough: what one order leaves a
\* multiple of grain[k - 1] the next can divide by any number of shares it may
\* hold by then, and grain[k] is left.  The code divides floating-point
\* numbers; here a division that did not come out even would be cut off.
Fine(grain) ==
    /\ grain[0] = Scale
    /\ \A k \in 1 .. MaxOrders : \A q \in Qtys : \A n \in 1 .. k * q :
            grain[k - 1] % (grain[k] * n) = 0
ASSUME ScaleAssumption == \E grain \in [0 .. MaxOrders -> 1 .. Scale] : Fine(grain)

VARIABLES
    state,      \* state[s]: the ai_trader_state row of slot s, or None
    positions,  \* positions[c]: the ai_trader_positions row of code c, or None
    nextId,     \* the next positions.id
    net,        \* sum over ai_trader_orders of sells' minus buys' net_amount
    pnl,        \* sum over ai_trader_orders of pnl_realized
    traded,     \* traded[c]: sum of quantities bought minus sold
    pc, order, seen, \* each process: where it is, its order, what it read
    admin,      \* where init_db is: the DELETE it is at, or the bootstrap
    doomed,     \* what its DELETEs have listed so far
    orders, resets, \* bounds
    version,    \* transactions committed so far
    inOrder     \* every commit so far was serial and in slot order, and none
                \* came while a reset was open

tables == <<state, positions, nextId, net, pnl, traded>>
procs  == <<pc, order, seen>>
reset  == <<admin, doomed>>
vars   == <<tables, procs, reset, orders, resets, version, inOrder>>

TypeOK ==
    /\ state \in [Slots -> Row \cup {None}]
    /\ positions \in [Codes -> Position \cup {None}]
    /\ nextId \in Nat
    /\ net \in Int /\ pnl \in Int
    /\ traded \in [Codes -> Int]
    /\ pc \in [Procs -> {"idle", "state", "position", "write", "commit"}]
    /\ order \in [Procs -> Order \cup {None}]
    /\ seen \in [Procs -> Seen \cup {None}]
    /\ admin \in {"idle", "orders", "positions", "state", "count", "insert"}
    /\ doomed \in Listed
    /\ orders \in 0 .. MaxOrders
    /\ resets \in 0 .. MaxResets
    /\ version \in Nat
    /\ inOrder \in BOOLEAN

Bootstrap == [cash |-> InitialCash, realized |-> 0]

Nothing == [net |-> 0, pnl |-> 0, traded |-> [c \in Codes |-> 0], id |-> 0,
            slots |-> {}, at |-> 0]

\* Tables as init_db left them: one bootstrap row, at some slot.
Init ==
    /\ \E s \in Slots : state = [t \in Slots |-> IF t = s THEN Bootstrap ELSE None]
    /\ positions = [c \in Codes |-> None] /\ nextId = 1
    /\ net = 0 /\ pnl = 0 /\ traded = [c \in Codes |-> 0]
    /\ pc = [p \in Procs |-> "idle"]
    /\ order = [p \in Procs |-> None] /\ seen = [p \in Procs |-> None]
    /\ admin = "idle" /\ doomed = Nothing
    /\ orders = 0 /\ resets = 0 /\ version = 0 /\ inOrder = TRUE

-----------------------------------------------------------------------------
Rows == {s \in Slots : state[s] # None}

\* ORDER BY slot_ts DESC, id DESC LIMIT 1; (agent_id, slot_ts) is unique.
IsLatest(s) == s \in Rows /\ \A t \in Rows : t <= s

\* Mutant: the average price of a first buy leaves the commission out.
BuyPositionAtFill(o, snap, id) ==
    LET good == [id |-> id, qty |-> o.qty,
                 invested |-> Scale * NetAmount("buy", o.quote, o.cap, o.qty),
                 avg |-> Scale * FillPrice("buy", o.quote, o.cap)]
    IN  IF snap = None THEN good
        ELSE [good EXCEPT !.qty = @ + snap.qty, !.invested = @ + snap.invested,
                          !.avg = (good.invested + snap.invested) \div (o.qty + snap.qty)]

\* A code's position as the order will leave it, from the snapshot it read.
BuyPosition(o, snap, id) ==
    LET paid     == Scale * NetAmount("buy", o.quote, o.cap, o.qty)
        qty      == IF snap = None THEN o.qty ELSE snap.qty + o.qty
        invested == IF snap = None THEN paid ELSE snap.invested + paid
    IN  [id |-> id, qty |-> qty, invested |-> invested, avg |-> invested \div qty]

\* Mutant: a partial sale takes its proceeds, not its cost, from what is invested.
SellPositionAtProceeds(o, snap) ==
    [id |-> snap.id, qty |-> snap.qty - o.qty, avg |-> snap.avg,
     invested |-> snap.invested - Scale * NetAmount("sell", o.quote, o.cap, o.qty)]

SellPosition(o, snap) ==
    LET left == snap.qty - o.qty
    IN  [id |-> snap.id, qty |-> left, invested |-> (snap.invested * left) \div snap.qty,
         avg |-> snap.avg]

\* Mutant: the selling tax is left out of the realised profit.
SellPnlWithoutTax(o, snap) ==
    LET gross == FillPrice("sell", o.quote, o.cap) * o.qty
    IN  Scale * (gross - Commission(gross)) - snap.avg * o.qty

\* (fill_price - avg) * qty - commission - tax
SellPnl(o, snap) ==
    Scale * NetAmount("sell", o.quote, o.cap, o.qty) - snap.avg * o.qty

-----------------------------------------------------------------------------
(* place_order.main                                                        *)

\* Arguments parsed, market open, order filled.
Place(p, o) ==
    /\ pc[p] = "idle"
    /\ orders < MaxOrders
    /\ orders' = orders + 1
    /\ order' = [order EXCEPT ![p] = o]
    /\ pc' = [pc EXCEPT ![p] = "state"]
    /\ UNCHANGED <<tables, seen, reset, resets, version, inOrder>>

Finish(p) ==
    /\ pc' = [pc EXCEPT ![p] = "idle"]
    /\ order' = [order EXCEPT ![p] = None]
    /\ seen' = [seen EXCEPT ![p] = None]

\* _get_latest_state; without any row, no cash.
ReadState(p) ==
    /\ pc[p] = "state"
    /\ \/ \E s \in Rows :
            /\ IsLatest(s)
            /\ seen' = [seen EXCEPT ![p] =
                  [cash |-> state[s].cash, realized |-> state[s].realized,
                   pos |-> None, at |-> version]]
       \/ /\ Rows = {}
          /\ seen' = [seen EXCEPT ![p] =
                  [cash |-> 0, realized |-> 0, pos |-> None, at |-> version]]
    /\ pc' = [pc EXCEPT ![p] = "position"]
    /\ UNCHANGED <<tables, order, reset, orders, resets, version, inOrder>>

\* Mutant: the order is checked at the quote, not at what the fill costs.
CanPayQuote(o, cash) == cash >= o.quote * o.qty

CanPay(o, cash) == cash >= NetAmount("buy", o.quote, o.cap, o.qty)
CanDeliver(o, pos) == pos # None /\ pos.qty >= o.qty
Valid(o, cash, pos) ==
    IF o.side = "buy" THEN CanPay(o, cash) ELSE CanDeliver(o, pos)

\* _get_position and the validation; an invalid order ends here.
ReadPosition(p) ==
    LET pos == positions[order[p].code] IN
    /\ pc[p] = "position"
    /\ \/ /\ Valid(order[p], seen[p].cash, pos)
          /\ seen' = [seen EXCEPT ![p].pos = pos]
          /\ pc' = [pc EXCEPT ![p] = "write"]
          /\ UNCHANGED order
       \/ /\ ~Valid(order[p], seen[p].cash, pos)
          /\ Finish(p)
    /\ UNCHANGED <<tables, reset, orders, resets, version, inOrder>>

\* INSERT of a first buy hits UNIQUE (agent_id, code): the transaction fails.
Duplicate(p) ==
    /\ order[p].side = "buy"
    /\ seen[p].pos = None
    /\ positions[order[p].code] # None

\* UPDATE or DELETE .. WHERE id: nothing when the row read is gone.
StillThere(p) ==
    LET row == positions[order[p].code]
    IN  row # None /\ row.id = seen[p].pos.id

\* The position written by p, or the present one if there is none to write to.
WrittenPosition(p) ==
    LET o    == order[p]
        snap == seen[p].pos
    IN  IF snap = None THEN BuyPosition(o, snap, nextId)
        ELSE IF ~StillThere(p) THEN positions[o.code]
        ELSE IF o.side = "buy" THEN BuyPosition(o, snap, snap.id)
        ELSE IF snap.qty = o.qty THEN None
        ELSE SellPosition(o, snap)

\* Mutant: cash moves by the gross amount.
NewCashGross(o, cash) ==
    IF o.side = "buy" THEN cash - FillPrice("buy", o.quote, o.cap) * o.qty
    ELSE cash + FillPrice("sell", o.quote, o.cap) * o.qty

NewCash(o, cash) ==
    IF o.side = "buy" THEN cash - NetAmount("buy", o.quote, o.cap, o.qty)
    ELSE cash + NetAmount("sell", o.quote, o.cap, o.qty)

\* The position row p inserts, or updates or deletes by its id, which locks it.
Touches(p) == seen[p].pos = None \/ StillThere(p)

\* Another order holds that row, or a new row of the same code.
HeldByOther(p) ==
    \E q \in Procs \ {p} :
        pc[q] = "commit" /\ order[q].code = order[p].code /\ Touches(q)

\* DELETE FROM ai_trader_positions has been through, and lists the row p updates.
HeldByReset(p) == admin = "state" /\ seen[p].pos # None /\ seen[p].pos.id < doomed.id

\* The order row, the position, the prices and SELECT MAX(total_value), none of
\* it committed: it waits for whoever holds the position.  Without any row, MAX
\* is NULL and float(None) ends the process.
Update(p) ==
    /\ pc[p] = "write"
    /\ Rows # {}
    /\ ~Duplicate(p)
    /\ Touches(p) => ~HeldByOther(p) /\ ~HeldByReset(p)
    /\ pc' = [pc EXCEPT ![p] = "commit"]
    /\ UNCHANGED <<tables, order, seen, reset, orders, resets, version, inOrder>>

\* The state row, and the commit that shows all of it.  (On a slot another order has just
\* written, ON CONFLICT waits for its commit; on one the reset deletes, the
\* later of the two waits, so the row goes or stays as they commit.)
Commit(p) ==
    LET o        == order[p]
        gain     == IF o.side = "buy" THEN 0 ELSE SellPnl(o, seen[p].pos)
    IN  /\ pc[p] = "commit"
        /\ positions' = [positions EXCEPT ![o.code] = WrittenPosition(p)]
        /\ nextId' = IF seen[p].pos = None THEN nextId + 1 ELSE nextId
        /\ net' = IF o.side = "buy" THEN net - NetAmount("buy", o.quote, o.cap, o.qty)
                  ELSE net + NetAmount("sell", o.quote, o.cap, o.qty)
        /\ pnl' = pnl + gain
        /\ traded' = [traded EXCEPT ![o.code] = IF o.side = "buy" THEN @ + o.qty ELSE @ - o.qty]
        /\ state' = [state EXCEPT ![o.slot] =
                  [cash |-> NewCash(o, seen[p].cash), realized |-> seen[p].realized + gain]]
        /\ inOrder' = (inOrder /\ seen[p].at = version /\ \A s \in Rows : s <= o.slot)
        /\ version' = version + 1
        /\ Finish(p)
        /\ UNCHANGED <<reset, orders, resets>>

\* One of these errors, or the process killed before its commit: rolled back.
Abort(p) ==
    /\ pc[p] # "idle"
    /\ Finish(p)
    /\ UNCHANGED <<tables, reset, orders, resets, version, inOrder>>

-----------------------------------------------------------------------------
(* init_db.main                                                            *)

\* --reset: DELETE FROM ai_trader_orders lists the orders committed by now.
DeleteOrders ==
    /\ admin = "idle"
    /\ resets < MaxResets
    /\ resets' = resets + 1
    /\ admin' = "orders"
    /\ doomed' = [Nothing EXCEPT !.net = net, !.pnl = pnl, !.traded = traded, !.at = version]
    /\ UNCHANGED <<tables, procs, orders, version, inOrder>>

\* DELETE FROM ai_trader_positions lists the rows, of ids given out by now.
DeletePositions ==
    /\ admin = "orders"
    /\ admin' = "positions"
    /\ doomed' = [doomed EXCEPT !.id = nextId]
    /\ UNCHANGED <<tables, procs, orders, resets, version, inOrder>>

\* It waits for the orders that have updated or deleted one; then DELETE FROM
\* ai_trader_state lists its rows.
DeleteState ==
    /\ admin = "positions"
    /\ \A p \in Procs : pc[p] = "commit" /\ seen[p].pos # None /\ StillThere(p)
            => seen[p].pos.id >= doomed.id
    /\ admin' = "state"
    /\ doomed' = [doomed EXCEPT !.slots = Rows]
    /\ UNCHANGED <<tables, procs, orders, resets, version, inOrder>>

\* The commit: what was listed is gone, and what an order committed meanwhile
\* where its DELETE no longer looked stays.
ResetCommit ==
    /\ admin = "state"
    /\ admin' = "count"
    /\ doomed' = Nothing
    /\ state' = [s \in Slots |-> IF s \in doomed.slots THEN None ELSE state[s]]
    /\ positions' = [c \in Codes |->
            IF positions[c] # None /\ positions[c].id < doomed.id THEN None ELSE positions[c]]
    /\ net' = net - doomed.net /\ pnl' = pnl - doomed.pnl
    /\ traded' = [c \in Codes |-> traded[c] - doomed.traded[c]]
    /\ inOrder' = (inOrder /\ doomed.at = version)
    /\ version' = version + 1
    /\ UNCHANGED <<nextId, procs, orders, resets>>

\* _bootstrap_initial_state, where a run without --reset begins: SELECT COUNT(*) ..
CountRows ==
    /\ admin \in {"idle", "count"}
    /\ admin' = IF Rows = {} THEN "insert" ELSE "idle"
    /\ UNCHANGED <<tables, procs, doomed, orders, resets, version, inOrder>>

\* .. and INSERT, which fails on a slot that exists.
InsertBootstrap(s) ==
    /\ admin = "insert"
    /\ admin' = "idle"
    /\ IF state[s] = None
       THEN /\ state' = [state EXCEPT ![s] = Bootstrap]
            /\ version' = version + 1
            /\ inOrder' = (inOrder /\ Rows = {})
       ELSE UNCHANGED <<state, version, inOrder>>
    /\ UNCHANGED <<positions, nextId, net, pnl, traded, procs, doomed, orders, resets>>

\* init_db fails or is killed: what it has not committed is rolled back.
AdminFails ==
    /\ admin # "idle"
    /\ admin' = "idle" /\ doomed' = Nothing
    /\ UNCHANGED <<tables, procs, orders, resets, version, inOrder>>

-----------------------------------------------------------------------------
Next ==
    \/ \E p \in Procs :
        \/ \E o \in Order : Place(p, o)
        \/ ReadState(p) \/ ReadPosition(p) \/ Update(p) \/ Commit(p) \/ Abort(p)
    \/ DeleteOrders \/ DeletePositions \/ DeleteState \/ ResetCommit
    \/ CountRows \/ (\E s \in Slots : InsertBootstrap(s)) \/ AdminFails

Spec == Init /\ [][Next]_vars

-----------------------------------------------------------------------------
(* Properties.                                                             *)

\* No interleaving of orders, resets and crashes makes a recorded cash amount
\* negative or leaves a position row without shares (place_order 164-179,
\* 236-240).
NoOverdraft ==
    /\ \A s \in Rows : state[s].cash >= 0
    /\ \A c \in Codes : positions[c] # None => positions[c].qty > 0

Cost == [c \in Codes |-> IF positions[c] = None THEN 0 ELSE positions[c].invested]
Held(c) == IF positions[c] = None THEN 0 ELSE positions[c].qty

\* "DB 4 tables updated consistently" (place_order 2): the latest state row,
\* the positions and the order history tell the same story.
Consistent ==
    \A s \in Rows : IsLatest(s) =>
        /\ state[s].cash = InitialCash + net
        /\ state[s].realized = pnl
        /\ \A c \in Codes : Held(c) = traded[c]

\* That holds as long as each order commits before the next one reads, the
\* slots given to --slot-ts do not go backwards, and no order commits between
\* the DELETEs of a reset (init_db 203-207) and its commit: there what the
\* DELETEs have not listed stays.
ConsistentInOrder == inOrder => Consistent

\* Conservation: what is invested was paid from the initial cash and the
\* realised profit, through weighted averages, partial sales and resets whose
\* DELETEs wait for orders that then fail (place_order 207-252, init_db 203-207).
BooksBalance ==
    inOrder => \A s \in Rows : IsLatest(s) =>
        Scale * state[s].cash + SumFunction(Cost)
            = Scale * InitialCash + state[s].realized

\* The stored average price is the stored cost per share, whatever races.
AverageIsCost ==
    \A c \in Codes : positions[c] # None =>
        positions[c].invested = positions[c].qty * positions[c].avg
-----------------------------------------------------------------------------
(* While orders and resets are serial the tables implement an account on   *)
(* which each is one step.                                                 *)

LatestRow == state[CHOOSE s \in Rows : IsLatest(s)]
Money  == IF Rows = {} THEN 0 ELSE LatestRow.cash
Earned == IF Rows = {} THEN 0 ELSE LatestRow.realized
Shares == [c \in Codes |-> Held(c)]

Books == INSTANCE Account WITH
            open <- Rows # {}, cash <- Money, shares <- Shares, cost <- Cost,
            profit <- Earned, ordered <- inOrder

\* Read, validated, averaged and written to four tables by processes that race,
\* wait for each other or crash, each order that follows the one before is one
\* step of an account, taken wholly or not at all: none is paid twice, oversold,
\* or sold at another cost than the average of what was bought (place_order 2,
\* 164-265).  A reset that nobody commits into leaves nothing (init_db 203-210).
ImplementsAccount == Books!AccountSpec
=============================================================================
