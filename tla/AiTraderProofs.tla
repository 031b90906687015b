--------------------------- MODULE AiTraderProofs ---------------------------
(***************************************************************************)
(* What holds of the trading account for every set of codes, processes,    *)
(* slots, quotes and quantities.                                           *)
(***************************************************************************)
EXTENDS AiTrader, FiniteSetTheorems, WellFoundedInduction, TLAPS

-----------------------------------------------------------------------------
(* Amounts.                                                                *)

\* round() of a natural number of units is a natural number.
LEMMA RoundDivNat ==
    ASSUME NEW n \in Nat, NEW d \in Nat \ {0}
    PROVE  RoundDiv(n, d) \in Nat
  <1>1. n \div d \in Nat /\ n % d \in 0 .. d - 1
    OBVIOUS
  <1>2. (n \div d) % 2 \in Nat
    BY <1>1
  <1> QED
    BY <1>1, <1>2 DEF RoundDiv

\* Commission and tax never exceed the proceeds of a sale, however small.
LEMMA SaleCharges ==
    ASSUME NEW g \in Nat
    PROVE  /\ Commission(g) \in Nat
           /\ SellTax(g) \in Nat
           /\ Commission(g) + SellTax(g) <= g
  <1>1. Commission(g) \in Nat /\ SellTax(g) \in Nat
    BY RoundDivNat DEF Commission, SellTax
  <1> QED
    BY <1>1 DEF Commission, SellTax, RoundDiv

\* A fill has a price, and both its net amounts are amounts of money.
LEMMA FillPriceNat ==
    ASSUME NEW side, NEW quote \in Nat, NEW hts \in Nat
    PROVE  FillPrice(side, quote, hts) \in Nat
  <1> DEFINE bp == SlippageRate(CapEok(hts))
  <1>1. bp \in {15, 20, 30}
    BY DEF SlippageRate
  <1>2. quote * (10000 + bp) \in Nat /\ quote * (10000 - bp) \in Nat
    BY <1>1
  <1>3. /\ RoundDiv(quote * (10000 + bp), 10000) \in Nat
        /\ RoundDiv(quote * (10000 - bp), 10000) \in Nat
    BY <1>2, RoundDivNat
  <1> QED
    BY <1>3 DEF FillPrice

LEMMA NetAmountNat ==
    ASSUME NEW side, NEW quote \in Nat, NEW hts \in Nat, NEW qty \in Nat
    PROVE  NetAmount(side, quote, hts, qty) \in Nat
  <1> DEFINE gross == FillPrice(side, quote, hts) * qty
  <1>1. gross \in Nat
    BY FillPriceNat
  <1>2. /\ Commission(gross) \in Nat /\ SellTax(gross) \in Nat
        /\ Commission(gross) + SellTax(gross) <= gross
    BY <1>1, SaleCharges
  <1>3. /\ gross + Commission(gross) \in Nat
        /\ gross - Commission(gross) - SellTax(gross) \in Nat
    BY <1>1, <1>2
  <1> QED
    BY <1>3 DEF NetAmount

\* fill_simulator.py: slippage, commission and tax all work against the
\* trader, whatever the rounding does: selling at the quote one bought at
\* never makes money, for any quote, quantity and market capitalisation.
THEOREM RoundTrip ==
    ASSUME NEW quote \in Nat, NEW hts \in Nat, NEW qty \in Nat
    PROVE  RoundTripLoses(quote, hts, qty)
  <1> DEFINE bp   == SlippageRate(CapEok(hts))
             up   == quote * (10000 + bp)
             down == quote * (10000 - bp)
             buy  == FillPrice("buy", quote, hts)
             sell == FillPrice("sell", quote, hts)
  <1>1. bp \in {15, 20, 30}
    BY DEF SlippageRate
  <1>2. up \in Nat /\ up >= 10000 * quote /\ down \in Nat /\ down <= 10000 * quote
    BY <1>1
  <1>3. buy = RoundDiv(up, 10000) /\ sell = RoundDiv(down, 10000)
    BY DEF FillPrice
  <1> HIDE DEF up, down, buy, sell
  <1>4. quote <= buy
    BY <1>2, <1>3 DEF RoundDiv
  <1>5. sell <= quote
    BY <1>2, <1>3 DEF RoundDiv
  <1>6. buy \in Nat /\ sell \in Nat
    BY <1>2, <1>3, RoundDivNat
  <1>7. sell * qty <= buy * qty /\ sell * qty \in Nat /\ buy * qty \in Nat
    BY <1>4, <1>5, <1>6
  <1>8. /\ Commission(buy * qty) \in Nat
        /\ Commission(sell * qty) \in Nat /\ SellTax(sell * qty) \in Nat
    BY <1>7, SaleCharges
  <1>9. /\ NetAmount("buy", quote, hts, qty) = buy * qty + Commission(buy * qty)
        /\ NetAmount("sell", quote, hts, qty)
              = sell * qty - Commission(sell * qty) - SellTax(sell * qty)
    BY DEF NetAmount, buy, sell
  <1> DEFINE g == buy * qty
             k == sell * qty
  <1> HIDE DEF g, k
  <1> QED
    BY <1>7, <1>8, <1>9 DEF RoundTripLoses, g, k

LEMMA OrderAmounts ==
    ASSUME NEW o \in Order
    PROVE  /\ NetAmount("buy", o.quote, o.cap, o.qty) \in Nat
           /\ NetAmount("sell", o.quote, o.cap, o.qty) \in Nat
           /\ o.qty \in Nat \ {0}
           /\ o.slot \in Slots /\ o.code \in Codes /\ o.side \in Sides
  <1>1. o.quote \in Nat /\ o.cap \in Nat /\ o.qty \in Nat \ {0}
    BY InputAssumption DEF Order
  <1> QED
    BY <1>1, NetAmountNat DEF Order

-----------------------------------------------------------------------------
(* The inductive invariant behind type correctness and NoOverdraft.        *)

\* Past the validation, before or after what it writes is in the tables.
Writing(p) == pc[p] \in {"write", "commit"}

\* What a process holds at each point of place_order.main.
Progress ==
    \A p \in Procs :
        /\ pc[p] # "idle" => order[p] # None
        /\ pc[p] = "position" \/ Writing(p) => seen[p] # None /\ seen[p].cash >= 0

\* A process about to write has validated what it read, and nothing else.
Validated ==
    \A p \in Procs : Writing(p) =>
        /\ order[p].side = "buy" =>
              seen[p].cash >= NetAmount("buy", order[p].quote, order[p].cap, order[p].qty)
        /\ order[p].side = "sell" =>
              seen[p].pos # None /\ seen[p].pos.qty >= order[p].qty
        /\ seen[p].pos # None => seen[p].pos.qty > 0

OverdraftInv == TypeOK /\ Progress /\ Validated /\ NoOverdraft

\* What init_db has listed are rows and sums.
LEMMA NothingListed == Nothing \in Listed /\ Nothing.at = 0
  BY DEF Nothing, Listed

LEMMA InitOverdraft == Init => OverdraftInv
  <1> SUFFICES ASSUME Init PROVE OverdraftInv
    OBVIOUS
  <1>1. Bootstrap \in Row /\ Bootstrap # None /\ Bootstrap.cash >= 0
    BY MoneyAssumption, NoneAssumption DEF Bootstrap, Row
  <1>2. TypeOK
    BY <1>1, NothingListed, LimitAssumption DEF Init, TypeOK
  <1>3. NoOverdraft
    BY <1>1 DEF Init, NoOverdraft, Rows
  <1> QED
    BY <1>2, <1>3 DEF Init, OverdraftInv, Progress, Validated, Writing

\* What a writing process holds.
LEMMA WriterHolds ==
    ASSUME OverdraftInv, NEW p \in Procs, Writing(p)
    PROVE  /\ order[p] \in Order
           /\ seen[p] \in Seen
           /\ seen[p].pos = None \/ (seen[p].pos \in Position /\ seen[p].pos.qty > 0)
           /\ order[p].side = "sell" =>
                 seen[p].pos \in Position /\ seen[p].pos.qty >= order[p].qty
           /\ order[p].side = "buy" =>
                 seen[p].cash >= NetAmount("buy", order[p].quote, order[p].cap, order[p].qty)
  <1>1. order[p] \in Order /\ seen[p] \in Seen
    BY DEF OverdraftInv, TypeOK, Progress, Writing
  <1>2. seen[p].pos \in Position \cup {None}
    BY <1>1 DEF Seen
  <1> QED
    BY <1>1, <1>2 DEF OverdraftInv, Validated

\* Buying leaves a row with shares, and so does selling a part.
LEMMA BuyPositionType ==
    ASSUME OverdraftInv, NEW p \in Procs, Writing(p), NEW id \in Nat
    PROVE  LET row == BuyPosition(order[p], seen[p].pos, id)
           IN  row \in Position /\ row.qty > 0
  <1> DEFINE o == order[p]
             snap == seen[p].pos
             paid == Scale * NetAmount("buy", o.quote, o.cap, o.qty)
             qty == snap.qty + o.qty
             invested == snap.invested + paid
  <1>1. o \in Order /\ (snap = None \/ (snap \in Position /\ snap.qty > 0))
    BY WriterHolds
  <1>2. NetAmount("buy", o.quote, o.cap, o.qty) \in Nat /\ o.qty \in Nat \ {0}
    BY <1>1, OrderAmounts
  <1>3. paid \in Int
    BY <1>2, MoneyAssumption
  <1>4. CASE snap = None
    BY <1>2, <1>3, <1>4 DEF BuyPosition, Position
  <1>5. CASE snap # None
    <2>1. snap.qty \in Nat /\ snap.invested \in Int
      BY <1>1, <1>5 DEF Position
    <2>2. qty \in Nat \ {0} /\ invested \in Int
      BY <1>2, <1>3, <2>1
    <2>3. invested \div qty \in Int
      BY <2>2
    <2>4. BuyPosition(o, snap, id) =
             [id |-> id, qty |-> qty, invested |-> invested, avg |-> invested \div qty]
      BY <1>5 DEF BuyPosition
    <2> HIDE DEF qty, invested
    <2> QED
      BY <2>2, <2>3, <2>4 DEF Position
  <1> QED
    BY <1>4, <1>5

LEMMA SellPositionType ==
    ASSUME OverdraftInv, NEW p \in Procs, Writing(p),
           order[p].side = "sell", seen[p].pos.qty # order[p].qty
    PROVE  LET row == SellPosition(order[p], seen[p].pos)
           IN  row \in Position /\ row.qty > 0
  <1> DEFINE o == order[p]
             snap == seen[p].pos
             rest == (snap.invested * (snap.qty - o.qty)) \div snap.qty
  <1>1. o \in Order /\ snap \in Position /\ snap.qty >= o.qty
    BY WriterHolds
  <1>2. o.qty \in Nat \ {0} /\ snap.qty \in Nat \ {0} /\ snap.invested \in Int
    BY <1>1, OrderAmounts DEF Position
  <1>3. snap.qty - o.qty \in Nat \ {0}
    BY <1>1, <1>2
  <1>4. rest \in Int
    BY <1>2, <1>3
  <1>5. SellPosition(o, snap) = [id |-> snap.id, qty |-> snap.qty - o.qty,
                                 invested |-> rest, avg |-> snap.avg]
    BY DEF SellPosition
  <1> HIDE DEF rest
  <1> QED
    BY <1>1, <1>3, <1>4, <1>5 DEF Position

\* The position it writes is a row with shares, or none.
LEMMA WrittenPositionType ==
    ASSUME OverdraftInv, NEW p \in Procs, Writing(p)
    PROVE  /\ WrittenPosition(p) \in Position \cup {None}
           /\ WrittenPosition(p) # None => WrittenPosition(p).qty > 0
  <1> DEFINE o == order[p]
             snap == seen[p].pos
  <1>1. /\ o \in Order
        /\ snap = None \/ snap \in Position
        /\ o.side = "sell" => snap \in Position /\ snap.qty >= o.qty
    BY WriterHolds
  <1>2. o.code \in Codes /\ o.side \in Sides
    BY <1>1, OrderAmounts
  <1>3. positions[o.code] \in Position \cup {None} /\ nextId \in Nat
    BY <1>2 DEF OverdraftInv, TypeOK
  <1>4. positions[o.code] # None => positions[o.code].qty > 0
    BY <1>2 DEF OverdraftInv, NoOverdraft
  <1>5. snap # None => snap.id \in Nat
    BY <1>1 DEF Position
  <1> QED
    BY <1>1, <1>2, <1>3, <1>4, <1>5, BuyPositionType, SellPositionType
    DEF WrittenPosition, Sides

\* The cash it records is what it read, less what it pays or plus what it gets.
LEMMA NewCashType ==
    ASSUME OverdraftInv, NEW p \in Procs, Writing(p)
    PROVE  NewCash(order[p], seen[p].cash) \in Nat
  <1>1. /\ order[p] \in Order /\ seen[p].cash \in Int /\ seen[p].cash >= 0
        /\ order[p].side = "buy" =>
              seen[p].cash >= NetAmount("buy", order[p].quote, order[p].cap, order[p].qty)
    BY WriterHolds DEF Seen, OverdraftInv, Progress
  <1> QED
    BY <1>1, OrderAmounts DEF NewCash

-----------------------------------------------------------------------------
(* Each action preserves it.                                               *)

LEMMA PlaceStep ==
    ASSUME OverdraftInv, NEW p \in Procs, NEW o \in Order, Place(p, o)
    PROVE  OverdraftInv'
  <1>1. o # None
    BY NoneAssumption
  <1>2. TypeOK'
    BY LimitAssumption DEF OverdraftInv, TypeOK, Place, tables, reset
  <1>3. Progress' /\ Validated'
    BY <1>1 DEF OverdraftInv, TypeOK, Progress, Validated, Writing, Place, tables
  <1> QED
    BY <1>2, <1>3 DEF OverdraftInv, NoOverdraft, Rows, Place, tables

LEMMA ReadStateStep ==
    ASSUME OverdraftInv, NEW p \in Procs, ReadState(p)
    PROVE  OverdraftInv'
  <1>1. PICK s \in Seen : /\ seen' = [seen EXCEPT ![p] = s]
                          /\ s.cash >= 0
    <2>1. CASE Rows = {}
      <3> DEFINE s == [cash |-> 0, realized |-> 0, pos |-> None, at |-> version]
      <3>1. s \in Seen /\ s.cash >= 0
        BY DEF OverdraftInv, TypeOK, Seen
      <3> QED
        BY <2>1, <3>1 DEF ReadState
    <2>2. CASE Rows # {}
      <3>1. PICK t \in Rows : seen' = [seen EXCEPT ![p] =
                  [cash |-> state[t].cash, realized |-> state[t].realized,
                   pos |-> None, at |-> version]]
        BY <2>2 DEF ReadState
      <3>2. state[t] \in Row /\ state[t].cash >= 0
        BY DEF OverdraftInv, TypeOK, Rows, NoOverdraft
      <3>3. state[t].cash \in Int /\ state[t].realized \in Int /\ version \in Nat
        BY <3>2 DEF Row, OverdraftInv, TypeOK
      <3> DEFINE s == [cash |-> state[t].cash, realized |-> state[t].realized,
                       pos |-> None, at |-> version]
      <3>4. s \in Seen /\ s.cash >= 0
        BY <3>2, <3>3 DEF Seen
      <3> QED
        BY <3>1, <3>4
    <2> QED
      BY <2>1, <2>2
  <1>2. s # None
    BY NoneAssumption
  <1>3. TypeOK'
    BY <1>1 DEF OverdraftInv, TypeOK, ReadState, tables, reset
  <1>4. Progress' /\ Validated'
    BY <1>1, <1>2 DEF OverdraftInv, TypeOK, Progress, Validated, Writing, ReadState, tables
  <1> QED
    BY <1>3, <1>4 DEF OverdraftInv, NoOverdraft, Rows, ReadState, tables

\* A process that stops holds nothing any more.
LEMMA FinishStep ==
    ASSUME OverdraftInv, NEW p \in Procs, Finish(p),
           UNCHANGED <<tables, reset, orders, resets, version, inOrder>>
    PROVE  OverdraftInv'
  <1>1. TypeOK'
    BY DEF OverdraftInv, TypeOK, Finish, tables, reset
  <1>2. Progress' /\ Validated'
    BY DEF OverdraftInv, TypeOK, Progress, Validated, Writing, Finish, tables
  <1> QED
    BY <1>1, <1>2 DEF OverdraftInv, NoOverdraft, Rows, tables

LEMMA ReadPositionStep ==
    ASSUME OverdraftInv, NEW p \in Procs, ReadPosition(p)
    PROVE  OverdraftInv'
  <1> DEFINE o == order[p]
             pos == positions[o.code]
  <1>1. o \in Order /\ seen[p] \in Seen /\ seen[p].cash >= 0
    BY DEF OverdraftInv, TypeOK, Progress, ReadPosition
  <1>2. o.code \in Codes
    BY <1>1, OrderAmounts
  <1>3. pos \in Position \cup {None} /\ (pos # None => pos.qty > 0)
    BY <1>2 DEF OverdraftInv, TypeOK, NoOverdraft
  <1>4. CASE ~Valid(o, seen[p].cash, pos)
    BY <1>4, FinishStep DEF ReadPosition
  <1>5. CASE Valid(o, seen[p].cash, pos)
    <2>1. /\ seen' = [seen EXCEPT ![p].pos = pos]
          /\ pc' = [pc EXCEPT ![p] = "write"]
          /\ UNCHANGED <<order, tables, reset, orders, resets, version, inOrder>>
      BY <1>5 DEF ReadPosition
    <2>2. seen'[p] \in Seen /\ seen'[p] # None /\ seen'[p].cash = seen[p].cash
          /\ seen'[p].pos = pos
      BY <1>1, <1>3, <2>1, NoneAssumption DEF Seen, OverdraftInv, TypeOK
    <2>3. TypeOK'
      BY <2>1, <2>2 DEF OverdraftInv, TypeOK, tables, reset
    <2>4. Progress'
      BY <1>1, <2>1, <2>2, NoneAssumption DEF OverdraftInv, TypeOK, Progress, Writing
    <2>5. Validated'
      BY <1>3, <1>5, <2>1, <2>2 DEF OverdraftInv, TypeOK, Validated, Writing, Valid, CanPay, CanDeliver
    <2> QED
      BY <2>1, <2>3, <2>4, <2>5 DEF OverdraftInv, NoOverdraft, Rows, tables
  <1> QED
    BY <1>4, <1>5

\* The state row it writes, and the profit the order row carries.
LEMMA WrittenState ==
    ASSUME OverdraftInv, NEW p \in Procs, Commit(p)
    PROVE  LET o    == order[p]
               gain == IF o.side = "buy" THEN 0 ELSE SellPnl(o, seen[p].pos)
           IN  /\ gain \in Int
               /\ state' \in [Slots -> Row \cup {None}]
               /\ o.slot \in Slots /\ state'[o.slot] \in Row
               /\ state'[o.slot].cash = NewCash(o, seen[p].cash)
               /\ state'[o.slot].cash \in Nat
               /\ state'[o.slot].realized = seen[p].realized + gain
               /\ \A s \in Slots : s # o.slot => state'[s] = state[s]
  <1> DEFINE o     == order[p]
             gain  == IF o.side = "buy" THEN 0 ELSE SellPnl(o, seen[p].pos)
             cash  == NewCash(o, seen[p].cash)
  <1>0. Writing(p)
    BY DEF Commit, Writing
  <1>1. /\ o \in Order /\ seen[p] \in Seen
        /\ o.side = "sell" => seen[p].pos \in Position
    BY <1>0, WriterHolds
  <1>2. /\ NetAmount("buy", o.quote, o.cap, o.qty) \in Nat
        /\ NetAmount("sell", o.quote, o.cap, o.qty) \in Nat
        /\ o.qty \in Nat \ {0} /\ o.slot \in Slots /\ o.code \in Codes /\ o.side \in Sides
    BY <1>1, OrderAmounts
  <1>3. cash \in Nat
    BY <1>0, NewCashType
  <1>4. gain \in Int
    <2>1. CASE o.side = "buy"
      BY <2>1
    <2>2. CASE o.side = "sell"
      <3>1. Scale * NetAmount("sell", o.quote, o.cap, o.qty) \in Int
        BY <1>2, MoneyAssumption
      <3>2. seen[p].pos.avg \in Int
        BY <1>1, <2>2 DEF Position
      <3>3. seen[p].pos.avg * o.qty \in Int
        BY <1>2, <3>2
      <3> QED
        BY <2>2, <3>1, <3>3 DEF SellPnl
    <2> QED
      BY <1>2, <2>1, <2>2 DEF Sides
  <1>7. /\ state'[o.slot] \in Row /\ state'[o.slot].cash = cash
        /\ state'[o.slot].realized = seen[p].realized + gain
        /\ \A s \in Slots : s # o.slot => state'[s] = state[s]
        /\ state' \in [Slots -> Row \cup {None}]
    <2> DEFINE row == [cash |-> cash, realized |-> seen[p].realized + gain]
    <2>1. seen[p].realized + gain \in Int
      BY <1>1, <1>4 DEF Seen
    <2>2. row \in Row /\ row.cash = cash /\ row.realized = seen[p].realized + gain
      BY <1>3, <2>1 DEF Row
    <2>3. state' = [state EXCEPT ![o.slot] = row]
      BY DEF Commit
    <2> HIDE DEF row
    <2> QED
      BY <1>2, <2>2, <2>3 DEF OverdraftInv, TypeOK
  <1> QED
    BY <1>2, <1>3, <1>4, <1>7

LEMMA CommitStep ==
    ASSUME OverdraftInv, NEW p \in Procs, Commit(p)
    PROVE  OverdraftInv'
  <1> DEFINE o     == order[p]
             gain  == IF o.side = "buy" THEN 0 ELSE SellPnl(o, seen[p].pos)
  <1>0. Writing(p)
    BY DEF Commit, Writing
  <1>1. o \in Order
    BY <1>0, WriterHolds
  <1>2. /\ NetAmount("buy", o.quote, o.cap, o.qty) \in Nat
        /\ NetAmount("sell", o.quote, o.cap, o.qty) \in Nat
        /\ o.qty \in Nat \ {0} /\ o.code \in Codes
    BY <1>1, OrderAmounts
  <1>7. /\ gain \in Int
        /\ state' \in [Slots -> Row \cup {None}]
        /\ state'[o.slot].cash \in Nat
        /\ \A s \in Slots : s # o.slot => state'[s] = state[s]
    BY WrittenState
  <1>8. /\ WrittenPosition(p) \in Position \cup {None}
        /\ WrittenPosition(p) # None => WrittenPosition(p).qty > 0
        /\ positions' = [positions EXCEPT ![o.code] = WrittenPosition(p)]
    BY <1>0, WrittenPositionType DEF Commit
  <1> HIDE DEF gain
  <1>9. TypeOK'
    <2>1. pnl' = pnl + gain /\ nextId' \in Nat /\ version' = version + 1
      BY DEF Commit, OverdraftInv, TypeOK, gain
    <2>2. net' \in Int
      BY <1>2 DEF Commit, OverdraftInv, TypeOK
    <2>3. traded' \in [Codes -> Int]
      BY <1>2 DEF Commit, OverdraftInv, TypeOK
    <2>4. inOrder' \in BOOLEAN
      BY DEF Commit
    <2>5. positions' \in [Codes -> Position \cup {None}]
      BY <1>8 DEF OverdraftInv, TypeOK
    <2>6. /\ pc' \in [Procs -> {"idle", "state", "position", "write", "commit"}]
          /\ order' \in [Procs -> Order \cup {None}]
          /\ seen' \in [Procs -> Seen \cup {None}]
      BY DEF Commit, Finish, OverdraftInv, TypeOK
    <2>7. UNCHANGED <<reset, orders, resets>>
      BY DEF Commit
    <2> QED
      BY <1>7, <2>1, <2>2, <2>3, <2>4, <2>5, <2>6, <2>7 DEF OverdraftInv, TypeOK, reset
  <1>10. Progress' /\ Validated'
    BY DEF OverdraftInv, TypeOK, Progress, Validated, Writing, Commit, Finish
  <1>11. NoOverdraft'
    <2>1. \A s \in Rows' : state'[s].cash >= 0
      BY <1>7 DEF OverdraftInv, NoOverdraft, Rows
    <2>2. \A c \in Codes : positions'[c] # None => positions'[c].qty > 0
      BY <1>2, <1>8 DEF OverdraftInv, NoOverdraft, TypeOK
    <2> QED
      BY <2>1, <2>2 DEF NoOverdraft
  <1> QED
    BY <1>9, <1>10, <1>11 DEF OverdraftInv

\* A step of init_db that changes nothing others see.
Unseen == DeleteOrders \/ DeletePositions \/ DeleteState \/ CountRows \/ AdminFails

LEMMA UnseenLists ==
    ASSUME OverdraftInv, Unseen
    PROVE  /\ UNCHANGED <<tables, procs, orders, version, inOrder>>
           /\ admin' \in {"idle", "orders", "positions", "state", "count", "insert"}
           /\ doomed' \in Listed /\ resets' \in 0 .. MaxResets
  <1>1. doomed \in Listed /\ resets \in 0 .. MaxResets /\ version \in Nat /\ MaxResets \in Nat
    BY LimitAssumption DEF OverdraftInv, TypeOK
  <1>2. CASE DeleteOrders
    <2>1. net \in Int /\ pnl \in Int /\ traded \in [Codes -> Int]
      BY DEF OverdraftInv, TypeOK
    <2>2. doomed' = [net |-> net, pnl |-> pnl, traded |-> traded, id |-> 0,
                     slots |-> {}, at |-> version]
      BY <1>2 DEF DeleteOrders, Nothing
    <2>3. doomed' \in Listed
      BY <1>1, <2>1, <2>2 DEF Listed
    <2> QED
      BY <1>1, <1>2, <2>3 DEF DeleteOrders
  <1>3. CASE DeletePositions
    <2>1. nextId \in Nat
      BY DEF OverdraftInv, TypeOK
    <2> QED
      BY <1>1, <1>3, <2>1 DEF DeletePositions, Listed
  <1>4. CASE DeleteState
    <2>1. Rows \in SUBSET Slots
      BY DEF Rows
    <2> QED
      BY <1>1, <1>4, <2>1 DEF DeleteState, Listed
  <1>5. CASE CountRows
    BY <1>1, <1>5 DEF CountRows
  <1>6. CASE AdminFails
    BY <1>1, <1>6, NothingListed DEF AdminFails
  <1> QED
    BY <1>2, <1>3, <1>4, <1>5, <1>6 DEF Unseen

LEMMA UnseenStep ==
    ASSUME OverdraftInv, Unseen
    PROVE  OverdraftInv'
  <1>1. UNCHANGED <<tables, procs, orders, version, inOrder>>
    BY UnseenLists
  <1>2. TypeOK'
    BY UnseenLists DEF OverdraftInv, TypeOK, tables, procs
  <1> QED
    BY <1>1, <1>2 DEF OverdraftInv, Progress, Validated, Writing, NoOverdraft, Rows, tables, procs

\* The commit of a reset only takes rows away.
LEMMA ResetStep ==
    ASSUME OverdraftInv, ResetCommit
    PROVE  OverdraftInv'
  <1>1. /\ doomed.net \in Int /\ doomed.pnl \in Int /\ doomed.traded \in [Codes -> Int]
        /\ net \in Int /\ pnl \in Int /\ traded \in [Codes -> Int]
    BY DEF OverdraftInv, TypeOK, Listed
  <1>2. net' \in Int /\ pnl' \in Int /\ traded' \in [Codes -> Int]
    BY <1>1 DEF ResetCommit
  <1>3. \A s \in Slots : state'[s] = None \/ state'[s] = state[s]
    BY DEF ResetCommit
  <1>4. \A c \in Codes : positions'[c] = None \/ positions'[c] = positions[c]
    BY DEF ResetCommit
  <1>5. /\ state' \in [Slots -> Row \cup {None}]
        /\ positions' \in [Codes -> Position \cup {None}]
    BY DEF ResetCommit, OverdraftInv, TypeOK
  <1>6. UNCHANGED procs /\ inOrder' \in BOOLEAN
    BY DEF ResetCommit
  <1>7. TypeOK'
    BY <1>2, <1>5, <1>6, NothingListed DEF ResetCommit, OverdraftInv, TypeOK, procs
  <1>8. Progress' /\ Validated'
    BY <1>6 DEF OverdraftInv, Progress, Validated, Writing, procs
  <1>9. NoOverdraft'
    BY <1>3, <1>4 DEF OverdraftInv, NoOverdraft, Rows
  <1> QED
    BY <1>7, <1>8, <1>9 DEF OverdraftInv

LEMMA BootstrapStep ==
    ASSUME OverdraftInv, NEW s \in Slots, InsertBootstrap(s)
    PROVE  OverdraftInv'
  <1>1. Bootstrap \in Row /\ Bootstrap # None /\ Bootstrap.cash >= 0
    BY MoneyAssumption, NoneAssumption DEF Bootstrap, Row
  <1>2. Progress' /\ Validated'
    BY DEF OverdraftInv, Progress, Validated, Writing, InsertBootstrap, procs
  <1>3. state' \in [Slots -> Row \cup {None}] /\ version' \in Nat
    BY <1>1 DEF OverdraftInv, TypeOK, InsertBootstrap
  <1>4. inOrder' \in BOOLEAN
    BY DEF OverdraftInv, TypeOK, InsertBootstrap
  <1>5. TypeOK'
    BY <1>3, <1>4 DEF OverdraftInv, TypeOK, InsertBootstrap, procs
  <1>6. NoOverdraft'
    BY <1>1 DEF OverdraftInv, TypeOK, NoOverdraft, Rows, InsertBootstrap
  <1> QED
    BY <1>2, <1>5, <1>6 DEF OverdraftInv

\* Waiting for the locks changes nothing that is stored.
LEMMA UpdateStep ==
    ASSUME OverdraftInv, NEW p \in Procs, Update(p)
    PROVE  OverdraftInv'
  <1>1. TypeOK'
    BY DEF OverdraftInv, TypeOK, Update, tables, reset
  <1>2. \A q \in Procs : Writing(q)' = Writing(q) /\ (pc'[q] = "position" => pc[q] = "position")
                            /\ (pc'[q] # "idle" => pc[q] # "idle")
    BY DEF Update, Writing, OverdraftInv, TypeOK
  <1>3. Progress' /\ Validated'
    BY <1>2 DEF OverdraftInv, Progress, Validated, Update
  <1> QED
    BY <1>1, <1>3 DEF OverdraftInv, NoOverdraft, Rows, Update, tables

LEMMA OverdraftStep == OverdraftInv /\ [Next]_vars => OverdraftInv'
  <1> SUFFICES ASSUME OverdraftInv, [Next]_vars PROVE OverdraftInv'
    OBVIOUS
  <1>1. ASSUME NEW p \in Procs, NEW o \in Order, Place(p, o) PROVE OverdraftInv'
    BY <1>1, PlaceStep
  <1>2. ASSUME NEW p \in Procs, ReadState(p) PROVE OverdraftInv'
    BY <1>2, ReadStateStep
  <1>3. ASSUME NEW p \in Procs, ReadPosition(p) PROVE OverdraftInv'
    BY <1>3, ReadPositionStep
  <1>4. ASSUME NEW p \in Procs, Abort(p) PROVE OverdraftInv'
    BY <1>4, FinishStep DEF Abort
  <1>5. ASSUME NEW p \in Procs, Update(p) PROVE OverdraftInv'
    BY <1>5, UpdateStep
  <1>6. ASSUME NEW p \in Procs, Commit(p) PROVE OverdraftInv'
    BY <1>6, CommitStep
  <1>7. CASE Unseen
    BY <1>7, UnseenStep
  <1>8. CASE ResetCommit
    BY <1>8, ResetStep
  <1>9. ASSUME NEW s \in Slots, InsertBootstrap(s) PROVE OverdraftInv'
    BY <1>9, BootstrapStep
  <1>10. CASE UNCHANGED vars
    BY <1>10 DEF OverdraftInv, TypeOK, Progress, Validated, Writing, NoOverdraft, Rows,
                 vars, tables, procs, reset
  <1> QED
    BY <1>1, <1>2, <1>3, <1>4, <1>5, <1>6, <1>7, <1>8, <1>9, <1>10 DEF Next, Unseen

-----------------------------------------------------------------------------
\* The account is well typed and never overdrawn, and no position is empty,
\* whatever orders race, crash or are interleaved with a reset.
THEOREM TypeCorrect == Spec => []TypeOK
  <1>1. OverdraftInv => TypeOK
    BY DEF OverdraftInv
  <1> QED
    BY <1>1, InitOverdraft, OverdraftStep, PTL DEF Spec

\* place_order.py 164-179: the validation of what was read is enough to keep
\* every recorded cash amount and every share count from going negative.
THEOREM NeverOverdrawn == Spec => []NoOverdraft
  <1>1. OverdraftInv => NoOverdraft
    BY DEF OverdraftInv
  <1> QED
    BY <1>1, InitOverdraft, OverdraftStep, PTL DEF Spec
-----------------------------------------------------------------------------
(* Orders and resets that commit one after the other, in slot order, keep  *)
(* the tables consistent.  The invariant says what a process that read the *)
(* present version knows, and what an account without any row looks like.  *)

Blank == net = 0 /\ pnl = 0 /\ \A c \in Codes : positions[c] = None

HoldingsMatch == \A c \in Codes : Held(c) = traded[c]

Reading(p) == pc[p] = "position" \/ Writing(p)

Knows(p) ==
    /\ Rows = {} => seen[p].cash = 0
    /\ Rows # {} => seen[p].cash = InitialCash + net /\ seen[p].realized = pnl
    /\ Writing(p) => Rows # {} /\ seen[p].pos = positions[order[p].code]

SerialInv ==
    /\ \A p \in Procs : Reading(p) => seen[p].at <= version
    /\ inOrder =>
        /\ Consistent /\ HoldingsMatch
        /\ Rows = {} => Blank
        /\ \A p \in Procs : Reading(p) /\ seen[p].at = version => Knows(p)

\* While init_db has deleted without committing.
Open == admin \in {"orders", "positions", "state"}

\* What it has listed is all there is, as long as nobody commits.
ListedAll ==
    /\ doomed.net = net /\ doomed.pnl = pnl /\ doomed.traded = traded
    /\ admin # "orders" => \A c \in Codes : positions[c] # None => positions[c].id < doomed.id
    /\ admin = "state" => doomed.slots = Rows

ResetInv ==
    /\ \A c \in Codes : positions[c] # None => positions[c].id < nextId
    /\ doomed.at <= version
    /\ Open /\ doomed.at = version => ListedAll

\* Nothing is bought for nothing: an empty account is refused every order.
LEMMA BuyCosts ==
    ASSUME NEW o \in Order
    PROVE  NetAmount("buy", o.quote, o.cap, o.qty) > 0
  <1> DEFINE bp    == SlippageRate(CapEok(o.cap))
             n     == o.quote * (10000 + bp)
             price == RoundDiv(n, 10000)
             gross == price * o.qty
  <1>0. bp \in {15, 20, 30}
    BY DEF SlippageRate
  <1>1. o.quote \in Nat \ {0} /\ o.qty \in Nat \ {0}
    BY InputAssumption DEF Order
  <1>2. n \in Nat /\ n >= 10000
    BY <1>0, <1>1
  <1> HIDE DEF n
  <1>3. n \div 10000 \in Nat /\ n \div 10000 >= 1 /\ (n \div 10000) % 2 \in Nat
    BY <1>2
  <1>4. price \in Nat \ {0}
    BY <1>2, <1>3 DEF RoundDiv
  <1> HIDE DEF price
  <1>5. gross \in Nat \ {0}
    BY <1>1, <1>4
  <1> HIDE DEF gross
  <1>6. Commission(gross) \in Nat
    BY <1>5, SaleCharges
  <1>7. NetAmount("buy", o.quote, o.cap, o.qty) = gross + Commission(gross)
    BY DEF NetAmount, FillPrice, gross, price, n
  <1> QED
    BY <1>5, <1>6, <1>7

LEMMA InitSerial == Init => SerialInv
  <1> SUFFICES ASSUME Init PROVE SerialInv
    OBVIOUS
  <1>1. PICK s \in Slots : state = [t \in Slots |-> IF t = s THEN Bootstrap ELSE None]
    BY DEF Init
  <1>2. Bootstrap # None /\ Bootstrap.cash = InitialCash /\ Bootstrap.realized = 0
    <2>1. Bootstrap \in Row
      BY MoneyAssumption DEF Bootstrap, Row
    <2> QED
      BY <2>1, NoneAssumption DEF Bootstrap
  <1>3. Rows = {s} /\ state[s] = Bootstrap
    BY <1>1, <1>2 DEF Rows
  <1>4. Consistent
    BY <1>2, <1>3, MoneyAssumption DEF Init, Consistent, IsLatest, Held
  <1> QED
    BY <1>3, <1>4 DEF Init, SerialInv, Reading, Writing, HoldingsMatch, Held

\* Without any row, the tables are blank and no order is valid.
LEMMA EmptyAccountRefuses ==
    ASSUME OverdraftInv, Blank, NEW p \in Procs, order[p] \in Order,
           Valid(order[p], 0, positions[order[p].code])
    PROVE  FALSE
  <1>1. order[p].code \in Codes /\ order[p].side \in Sides
    BY OrderAmounts
  <1>2. CASE order[p].side = "buy"
    BY <1>2, BuyCosts, OrderAmounts DEF Valid, CanPay
  <1>3. CASE order[p].side = "sell"
    BY <1>1, <1>3 DEF Valid, CanDeliver, Blank
  <1> QED
    BY <1>1, <1>2, <1>3 DEF Sides

LEMMA ReadStateSerial ==
    ASSUME OverdraftInv, SerialInv, NEW p \in Procs, ReadState(p)
    PROVE  SerialInv'
  <1>1. UNCHANGED <<tables, order, version, inOrder>>
    BY DEF ReadState
  <1>2. Rows' = Rows /\ (Consistent)' = Consistent /\ Blank' = Blank /\ HoldingsMatch' = HoldingsMatch
    BY <1>1 DEF Rows, Consistent, IsLatest, Held, Blank, HoldingsMatch, tables
  <1>3. \A q \in Procs : q # p => pc'[q] = pc[q] /\ seen'[q] = seen[q]
    BY DEF ReadState, OverdraftInv, TypeOK
  <1>4. pc'[p] = "position" /\ seen'[p].at = version /\ version \in Nat
    BY DEF ReadState, OverdraftInv, TypeOK
  <1>5. ASSUME inOrder PROVE Knows(p)'
    <2>1. CASE Rows = {}
      BY <1>1, <1>2, <1>4, <2>1 DEF ReadState, OverdraftInv, TypeOK, Knows, Writing, tables
    <2>2. CASE Rows # {}
      <3>1. PICK s \in Rows : /\ IsLatest(s)
                              /\ seen'[p].cash = state[s].cash
                              /\ seen'[p].realized = state[s].realized
        BY <2>2 DEF ReadState, OverdraftInv, TypeOK
      <3>2. state[s].cash = InitialCash + net /\ state[s].realized = pnl
        BY <1>5, <3>1 DEF SerialInv, Consistent
      <3> QED
        BY <1>1, <1>2, <1>4, <2>2, <3>1, <3>2 DEF Knows, Writing, tables
    <2> QED
      BY <2>1, <2>2
  <1>6. ASSUME NEW q \in Procs, q # p
        PROVE  Knows(q)' = Knows(q) /\ Reading(q)' = Reading(q)
    BY <1>1, <1>2, <1>3, <1>6 DEF Knows, Writing, Reading, tables
  <1> QED
    BY <1>1, <1>2, <1>3, <1>4, <1>5, <1>6 DEF SerialInv

LEMMA ReadPositionSerial ==
    ASSUME OverdraftInv, SerialInv, NEW p \in Procs, ReadPosition(p)
    PROVE  SerialInv'
  <1> DEFINE pos == positions[order[p].code]
  <1>1. UNCHANGED <<tables, version, inOrder>> /\ pc[p] = "position"
    BY DEF ReadPosition
  <1>2. Rows' = Rows /\ (Consistent)' = Consistent /\ Blank' = Blank /\ HoldingsMatch' = HoldingsMatch
    BY <1>1 DEF Rows, Consistent, IsLatest, Held, Blank, HoldingsMatch, tables
  <1>3. \A q \in Procs : q # p =>
            pc'[q] = pc[q] /\ seen'[q] = seen[q] /\ order'[q] = order[q]
    BY DEF ReadPosition, Finish, OverdraftInv, TypeOK
  <1>4. ASSUME NEW q \in Procs, q # p
        PROVE  Knows(q)' = Knows(q) /\ Reading(q)' = Reading(q)
    BY <1>1, <1>2, <1>3, <1>4 DEF Knows, Writing, Reading, tables
  <1>5. CASE ~Valid(order[p], seen[p].cash, pos)
    <2>1. ~Reading(p)'
      BY <1>5 DEF ReadPosition, Finish, OverdraftInv, TypeOK, Reading, Writing
    <2> QED
      BY <1>1, <1>2, <1>3, <1>4, <2>1 DEF SerialInv
  <1>6. CASE Valid(order[p], seen[p].cash, pos)
    <2>1. order[p] \in Order /\ seen[p] \in Seen
      BY <1>1 DEF OverdraftInv, TypeOK, Progress
    <2>2. /\ pc'[p] = "write" /\ order'[p] = order[p]
          /\ seen'[p].at = seen[p].at /\ seen'[p].cash = seen[p].cash
          /\ seen'[p].realized = seen[p].realized /\ seen'[p].pos = pos
      BY <1>6, <2>1 DEF ReadPosition, OverdraftInv, TypeOK, Seen
    <2>3. ASSUME inOrder, seen[p].at = version PROVE Knows(p)'
      <3>1. Knows(p) /\ (Rows = {} => Blank)
        BY <1>1, <2>3 DEF SerialInv, Reading, Writing
      <3>2. Rows # {}
        BY <1>6, <2>1, <3>1, EmptyAccountRefuses DEF Knows, Writing
      <3> QED
        BY <1>1, <1>2, <2>2, <3>1, <3>2 DEF Knows, Writing, tables
    <2> QED
      BY <1>1, <1>2, <1>3, <1>4, <2>2, <2>3 DEF SerialInv, Reading, Writing
  <1> QED
    BY <1>5, <1>6

\* A process that stops takes nothing away from what the others know.
LEMMA FinishSerial ==
    ASSUME OverdraftInv, SerialInv, NEW p \in Procs, Finish(p),
           UNCHANGED <<tables, version, inOrder>>
    PROVE  SerialInv'
  <1>1. Rows' = Rows /\ (Consistent)' = Consistent /\ Blank' = Blank /\ HoldingsMatch' = HoldingsMatch
    BY DEF Rows, Consistent, IsLatest, Held, Blank, HoldingsMatch, tables
  <1>2. ~Reading(p)'
    BY DEF Finish, OverdraftInv, TypeOK, Reading, Writing
  <1>3. ASSUME NEW q \in Procs, q # p
        PROVE  Knows(q)' = Knows(q) /\ Reading(q)' = Reading(q) /\ seen'[q] = seen[q]
    BY <1>1, <1>3 DEF Finish, OverdraftInv, TypeOK, Knows, Writing, Reading, tables
  <1> QED
    BY <1>1, <1>2, <1>3 DEF SerialInv

\* A commit that follows what it read, in slot order, updates every table by
\* the same order.
LEMMA CommitConsistent ==
    ASSUME OverdraftInv, SerialInv, NEW p \in Procs, Commit(p),
           inOrder'
    PROVE  Rows' # {} /\ Consistent' /\ HoldingsMatch'
  <1> DEFINE o    == order[p]
             snap == seen[p].pos
             gain == IF o.side = "buy" THEN 0 ELSE SellPnl(o, snap)
  <1>1. /\ inOrder /\ seen[p].at = version /\ \A s \in Rows : s <= o.slot
        /\ Writing(p)
    BY DEF Commit, Writing
  <1>2. /\ HoldingsMatch /\ snap = positions[o.code]
        /\ seen[p].cash = InitialCash + net /\ seen[p].realized = pnl
    BY <1>1 DEF SerialInv, Reading, Writing, Knows
  <1>3. /\ o \in Order /\ seen[p] \in Seen
        /\ snap = None \/ (snap \in Position /\ snap.qty > 0)
        /\ o.side = "sell" => snap \in Position /\ snap.qty >= o.qty
    BY <1>1, WriterHolds
  <1>4. /\ NetAmount("buy", o.quote, o.cap, o.qty) \in Nat
        /\ NetAmount("sell", o.quote, o.cap, o.qty) \in Nat
        /\ o.qty \in Nat \ {0} /\ o.slot \in Slots /\ o.code \in Codes /\ o.side \in Sides
    BY <1>3, OrderAmounts
  <1>5. net \in Int /\ pnl \in Int /\ traded \in [Codes -> Int]
    BY DEF OverdraftInv, TypeOK
  <1>6. /\ state'[o.slot] \in Row
        /\ state'[o.slot].cash = NewCash(o, seen[p].cash)
        /\ state'[o.slot].realized = seen[p].realized + gain
        /\ \A s \in Slots : s # o.slot => state'[s] = state[s]
    BY WrittenState
  <1>7. o.slot \in Rows' /\ \A s \in Rows' : s = o.slot \/ s \in Rows
    BY <1>4, <1>6, NoneAssumption DEF Rows
  <1>8. ASSUME NEW s \in Rows', IsLatest(s)' PROVE s = o.slot
    <2>1. o.slot <= s
      BY <1>7, <1>8 DEF IsLatest
    <2>2. s \in Nat /\ o.slot \in Nat
      BY <1>4, <1>8, InputAssumption DEF Rows
    <2>3. s <= o.slot
      BY <1>1, <1>7, <2>2
    <2> QED
      BY <2>1, <2>2, <2>3
  <1>0. /\ net' = IF o.side = "buy" THEN net - NetAmount("buy", o.quote, o.cap, o.qty)
                  ELSE net + NetAmount("sell", o.quote, o.cap, o.qty)
        /\ traded' = [traded EXCEPT ![o.code] = IF o.side = "buy" THEN @ + o.qty ELSE @ - o.qty]
        /\ positions' = [positions EXCEPT ![o.code] = WrittenPosition(p)]
        /\ positions \in [Codes -> Position \cup {None}]
    BY DEF Commit, OverdraftInv, TypeOK
  <1>9. state'[o.slot].cash = InitialCash + net'
    <2>1. InitialCash \in Int
      BY MoneyAssumption
    <2> QED
      BY <1>0, <1>2, <1>4, <1>5, <1>6, <2>1 DEF NewCash
  <1>10. state'[o.slot].realized = pnl'
    BY <1>2, <1>6 DEF Commit
  <1>11. HoldingsMatch'
    <2>1. ASSUME NEW c \in Codes, c # o.code PROVE Held(c)' = traded'[c]
      <3>1. positions'[c] = positions[c] /\ traded'[c] = traded[c]
        BY <1>0, <1>4, <1>5, <2>1
      <3>2. Held(c)' = Held(c)
        BY <3>1 DEF Held
      <3> QED
        BY <1>2, <3>1, <3>2 DEF HoldingsMatch
    <2> DEFINE held == IF WrittenPosition(p) = None THEN 0 ELSE WrittenPosition(p).qty
    <2>2. /\ positions'[o.code] = WrittenPosition(p)
          /\ traded'[o.code] = IF o.side = "buy" THEN traded[o.code] + o.qty
                               ELSE traded[o.code] - o.qty
      BY <1>0, <1>4, <1>5
    <2>3. traded[o.code] = IF snap = None THEN 0 ELSE snap.qty
      BY <1>2, <1>4 DEF HoldingsMatch, Held
    <2>4. snap # None => StillThere(p)
      BY <1>2, <1>3, NoneAssumption DEF StillThere
    <2>5. ASSUME o.side = "buy" PROVE held = traded'[o.code]
      <3>1. ASSUME NEW id PROVE BuyPosition(o, snap, id).qty
                                    = IF snap = None THEN o.qty ELSE snap.qty + o.qty
        BY DEF BuyPosition
      <3>2. WrittenPosition(p).qty = IF snap = None THEN o.qty ELSE snap.qty + o.qty
        BY <2>4, <2>5, <3>1 DEF WrittenPosition
      <3>3. WrittenPosition(p) # None
        <4>2. /\ BuyPosition(o, snap, nextId) \in Position
              /\ snap # None => BuyPosition(o, snap, snap.id) \in Position
          <5>1. nextId \in Nat /\ (snap # None => snap.id \in Nat)
            BY <1>3 DEF OverdraftInv, TypeOK, Position
          <5> QED
            BY <1>1, <5>1, BuyPositionType
        <4> QED
          BY <2>4, <2>5, <4>2, NoneAssumption DEF WrittenPosition
      <3> QED
        BY <1>3, <1>4, <2>2, <2>3, <2>5, <3>2, <3>3 DEF Position
    <2>6. ASSUME o.side = "sell" PROVE held = traded'[o.code]
      <3>1. snap \in Position /\ snap.qty \in Int /\ snap # None
        BY <1>3, <2>6, NoneAssumption DEF Position
      <3>2. CASE snap.qty = o.qty
        <4>1. WrittenPosition(p) = None
          BY <2>4, <2>6, <3>1, <3>2 DEF WrittenPosition
        <4> QED
          BY <1>4, <2>2, <2>3, <2>6, <3>1, <3>2, <4>1
      <3>3. CASE snap.qty # o.qty
        <4>1. WrittenPosition(p) = SellPosition(o, snap)
          BY <2>4, <2>6, <3>1, <3>3 DEF WrittenPosition
        <4>2. SellPosition(o, snap).qty = snap.qty - o.qty
          BY DEF SellPosition
        <4>3. WrittenPosition(p) # None
          BY <1>1, <4>1, SellPositionType, <2>6, <3>3, NoneAssumption
        <4> QED
          BY <1>4, <2>2, <2>3, <2>6, <3>1, <4>1, <4>2, <4>3
      <3> QED
        BY <3>2, <3>3
    <2>7. ASSUME NEW c \in Codes, c = o.code PROVE Held(c)' = traded'[c]
      <3>1. Held(c)' = held
        BY <2>2, <2>7 DEF Held
      <3> QED
        BY <1>4, <2>5, <2>6, <2>7, <3>1 DEF Sides
    <2> QED
      BY <2>1, <2>7 DEF HoldingsMatch
  <1>12. Consistent'
    BY <1>8, <1>9, <1>10, <1>11 DEF Consistent, HoldingsMatch
  <1> QED
    BY <1>7, <1>11, <1>12

\* Any commit makes what the others read stale.
LEMMA CommitSerial ==
    ASSUME OverdraftInv, SerialInv, NEW p \in Procs, Commit(p)
    PROVE  SerialInv'
  <1>1. version' = version + 1 /\ version \in Nat
    BY DEF Commit, OverdraftInv, TypeOK
  <1>2. \A q \in Procs : Reading(q)' => Reading(q) /\ seen'[q] = seen[q]
    BY DEF Commit, Finish, Reading, Writing, OverdraftInv, TypeOK
  <1>3. \A q \in Procs : Reading(q) => seen[q].at <= version /\ seen[q].at \in Nat
    BY DEF SerialInv, Reading, Writing, OverdraftInv, TypeOK, Progress, Seen
  <1>4. \A q \in Procs : Reading(q)' => seen'[q].at <= version' /\ seen'[q].at # version'
    BY <1>1, <1>2, <1>3
  <1>5. inOrder' => Rows' # {} /\ Consistent' /\ HoldingsMatch'
    BY CommitConsistent
  <1> QED
    BY <1>4, <1>5 DEF SerialInv

LEMMA InitReset == Init => ResetInv
  <1> SUFFICES ASSUME Init PROVE ResetInv
    OBVIOUS
  <1>1. doomed.at = 0 /\ version = 0 /\ ~Open /\ \A c \in Codes : positions[c] = None
    BY NothingListed DEF Init, Open
  <1> QED
    BY <1>1 DEF ResetInv

LEMMA CommitReset ==
    ASSUME OverdraftInv, ResetInv, NEW p \in Procs, Commit(p)
    PROVE  ResetInv'
  <1> DEFINE o    == order[p]
             snap == seen[p].pos
  <1>1. Writing(p) /\ doomed' = doomed /\ version' = version + 1 /\ version \in Nat
    BY DEF Commit, Writing, reset, OverdraftInv, TypeOK
  <1>2. doomed.at \in Nat /\ doomed.at <= version
    BY DEF OverdraftInv, TypeOK, Listed, ResetInv
  <1>3. /\ o \in Order /\ o.code \in Codes
        /\ snap = None \/ snap \in Position
    BY <1>1, WriterHolds, OrderAmounts
  <1>4. /\ positions \in [Codes -> Position \cup {None}] /\ nextId \in Nat
        /\ nextId' = IF snap = None THEN nextId + 1 ELSE nextId
        /\ positions' = [positions EXCEPT ![o.code] = WrittenPosition(p)]
    BY DEF Commit, OverdraftInv, TypeOK
  <1>5. \A c \in Codes : positions[c] # None => positions[c].id < nextId /\ positions[c].id \in Nat
    BY <1>4 DEF ResetInv, Position
  <1>6. ASSUME WrittenPosition(p) # None PROVE WrittenPosition(p).id < nextId'
    <2>1. \A i : BuyPosition(o, snap, i).id = i /\ SellPosition(o, snap).id = snap.id
      BY DEF BuyPosition, SellPosition
    <2>2. CASE snap = None
      BY <1>4, <2>1, <2>2 DEF WrittenPosition
    <2>3. CASE snap # None /\ ~StillThere(p)
      BY <1>3, <1>4, <1>5, <1>6, <2>3 DEF WrittenPosition
    <2>4. CASE snap # None /\ StillThere(p)
      <3>1. snap.id < nextId
        BY <1>3, <1>5, <2>4 DEF StillThere
      <3>2. WrittenPosition(p).id = snap.id
        BY <1>6, <2>1, <2>4 DEF WrittenPosition
      <3> QED
        BY <1>4, <2>4, <3>1, <3>2
    <2> QED
      BY <2>2, <2>3, <2>4
  <1>7. nextId <= nextId' /\ nextId' \in Nat
    BY <1>4
  <1>8. \A c \in Codes : positions'[c] # None => positions'[c].id < nextId'
    BY <1>3, <1>4, <1>5, <1>6, <1>7
  <1> QED
    BY <1>1, <1>2, <1>8 DEF ResetInv

LEMMA UnseenReset ==
    ASSUME OverdraftInv, ResetInv, Unseen
    PROVE  ResetInv'
  <1>1. UNCHANGED <<tables, version>>
    BY UnseenLists
  <1>2. Rows' = Rows /\ version \in Nat /\ doomed \in Listed
    BY <1>1 DEF Rows, tables, OverdraftInv, TypeOK
  <1>3. \A c \in Codes : positions'[c] # None => positions'[c].id < nextId'
    BY <1>1 DEF ResetInv, tables
  <1>4. CASE DeleteOrders
    <2>1. doomed' = [net |-> net, pnl |-> pnl, traded |-> traded, id |-> 0,
                     slots |-> {}, at |-> version] /\ admin' = "orders"
      BY <1>4 DEF DeleteOrders, Nothing
    <2>2. ListedAll'
      BY <1>1, <2>1 DEF ListedAll, tables
    <2> QED
      BY <1>1, <1>2, <1>3, <2>1, <2>2 DEF ResetInv
  <1>5. CASE DeletePositions
    <2>1. /\ admin = "orders" /\ admin' = "positions" /\ doomed'.id = nextId
          /\ doomed'.net = doomed.net /\ doomed'.pnl = doomed.pnl
          /\ doomed'.traded = doomed.traded /\ doomed'.at = doomed.at
      BY <1>2, <1>5 DEF DeletePositions, Listed
    <2>2. ListedAll => ListedAll'
      BY <1>1, <1>3, <2>1 DEF ListedAll, tables
    <2> QED
      BY <1>1, <1>3, <2>1, <2>2 DEF ResetInv, Open
  <1>6. CASE DeleteState
    <2>1. /\ admin = "positions" /\ admin' = "state" /\ doomed'.id = doomed.id
          /\ doomed'.net = doomed.net /\ doomed'.pnl = doomed.pnl
          /\ doomed'.traded = doomed.traded /\ doomed'.at = doomed.at
          /\ doomed'.slots = Rows
      BY <1>2, <1>6 DEF DeleteState, Listed
    <2>2. ListedAll => ListedAll'
      BY <1>1, <1>2, <2>1 DEF ListedAll, tables
    <2> QED
      BY <1>1, <1>3, <2>1, <2>2 DEF ResetInv, Open
  <1>7. CASE CountRows
    BY <1>1, <1>3, <1>7 DEF CountRows, ResetInv, Open
  <1>8. CASE AdminFails
    BY <1>1, <1>2, <1>3, <1>8, NothingListed DEF AdminFails, ResetInv, Open
  <1> QED
    BY <1>4, <1>5, <1>6, <1>7, <1>8 DEF Unseen

LEMMA ResetInvStep == OverdraftInv /\ ResetInv /\ [Next]_vars => ResetInv'
  <1> SUFFICES ASSUME OverdraftInv, ResetInv, [Next]_vars PROVE ResetInv'
    OBVIOUS
  <1>1. ASSUME UNCHANGED <<tables, reset, version>> PROVE ResetInv'
    BY <1>1 DEF ResetInv, ListedAll, Open, Rows, tables, reset
  <1>2. ASSUME NEW p \in Procs,
               \/ \E o \in Order : Place(p, o)
               \/ ReadState(p) \/ ReadPosition(p) \/ Update(p) \/ Abort(p)
        PROVE  ResetInv'
    BY <1>1, <1>2 DEF Place, ReadState, ReadPosition, Update, Abort
  <1>3. ASSUME NEW p \in Procs, Commit(p) PROVE ResetInv'
    BY <1>3, CommitReset
  <1>4. CASE Unseen
    BY <1>4, UnseenReset
  <1>5. CASE ResetCommit
    <2>1. /\ doomed' = Nothing /\ admin' = "count" /\ nextId' = nextId
          /\ version' = version + 1 /\ version \in Nat
      BY <1>5 DEF ResetCommit, OverdraftInv, TypeOK
    <2>2. \A c \in Codes : positions'[c] = None \/ positions'[c] = positions[c]
      BY <1>5 DEF ResetCommit
    <2> QED
      BY <2>1, <2>2, NothingListed DEF ResetInv, Open
  <1>6. ASSUME NEW s \in Slots, InsertBootstrap(s) PROVE ResetInv'
    <2>1. /\ UNCHANGED <<positions, nextId, doomed>> /\ admin' = "idle"
          /\ version' \in {version, version + 1} /\ version \in Nat
      BY <1>6 DEF InsertBootstrap, OverdraftInv, TypeOK
    <2>2. doomed.at \in Nat
      BY DEF OverdraftInv, TypeOK, Listed
    <2> QED
      BY <2>1, <2>2 DEF ResetInv, Open
  <1>7. CASE UNCHANGED vars
    BY <1>1, <1>7 DEF vars
  <1> QED
    BY <1>2, <1>3, <1>4, <1>5, <1>6, <1>7 DEF Next, Unseen

\* A reset during which nobody committed leaves nothing.
LEMMA ResetEmpties ==
    ASSUME OverdraftInv, ResetInv, ResetCommit, inOrder'
    PROVE  inOrder /\ Rows' = {} /\ Blank' /\ \A c \in Codes : traded'[c] = 0
  <1>1. inOrder /\ admin = "state" /\ doomed.at = version
    BY DEF ResetCommit
  <1>2. ListedAll
    BY <1>1 DEF ResetInv, Open
  <1>3. net \in Int /\ pnl \in Int /\ traded \in [Codes -> Int]
    BY DEF OverdraftInv, TypeOK
  <1>4. Rows' = {}
    BY <1>1, <1>2 DEF ResetCommit, ListedAll, Rows
  <1>5. \A c \in Codes : positions'[c] = None
    BY <1>1, <1>2 DEF ResetCommit, ListedAll
  <1>6. net' = 0 /\ pnl' = 0 /\ \A c \in Codes : traded'[c] = 0
    BY <1>2, <1>3 DEF ResetCommit, ListedAll
  <1> QED
    BY <1>1, <1>4, <1>5, <1>6 DEF Blank

LEMMA ResetSerial ==
    ASSUME OverdraftInv, SerialInv, ResetInv, ResetCommit
    PROVE  SerialInv'
  <1>1. \A q \in Procs : Reading(q)' = Reading(q) /\ seen'[q] = seen[q]
    BY DEF ResetCommit, procs, Reading, Writing
  <1>2. \A q \in Procs : Reading(q) => seen[q].at <= version /\ seen[q].at \in Nat
    BY DEF SerialInv, Reading, Writing, OverdraftInv, TypeOK, Progress, Seen
  <1>3. version' = version + 1 /\ version \in Nat
    BY DEF ResetCommit, OverdraftInv, TypeOK
  <1>4. ASSUME inOrder' PROVE Consistent' /\ HoldingsMatch' /\ Blank'
    <2>1. Rows' = {} /\ Blank' /\ \A c \in Codes : traded'[c] = 0
      BY <1>4, ResetEmpties
    <2> QED
      BY <2>1 DEF Consistent, HoldingsMatch, Held, Blank
  <1>5. \A q \in Procs : Reading(q)' => seen'[q].at <= version' /\ seen'[q].at # version'
    BY <1>1, <1>2, <1>3
  <1> QED
    BY <1>4, <1>5 DEF SerialInv

\* What nobody sees changes nothing that anybody knows.
LEMMA SameSerial ==
    ASSUME SerialInv, UNCHANGED <<tables, procs, version, inOrder>>
    PROVE  SerialInv'
  BY DEF SerialInv, Reading, Writing, Knows, Consistent, HoldingsMatch, Blank, Rows,
         IsLatest, Held, tables, procs

LEMMA BootstrapSerial ==
    ASSUME OverdraftInv, SerialInv, NEW s \in Slots, InsertBootstrap(s)
    PROVE  SerialInv'
  <1>3. \A q \in Procs : Reading(q)' = Reading(q) /\ seen'[q] = seen[q]
    BY DEF InsertBootstrap, procs, Reading, Writing
  <1>4. \A q \in Procs : Reading(q) => seen[q].at <= version /\ seen[q].at \in Nat
    BY DEF SerialInv, Reading, Writing, OverdraftInv, TypeOK, Progress, Seen
  <1>5. version \in Nat
    BY DEF OverdraftInv, TypeOK
  <1>1. CASE state[s] # None
    BY <1>1, SameSerial DEF InsertBootstrap, tables
  <1>2. CASE state[s] = None
    <2>1. version' = version + 1 /\ UNCHANGED <<positions, net, pnl, traded>>
      BY <1>2 DEF InsertBootstrap
    <2>2. ASSUME inOrder' PROVE Consistent' /\ HoldingsMatch' /\ Rows' # {}
      <3>1. inOrder /\ Rows = {} /\ Blank /\ HoldingsMatch
        BY <1>2, <2>2 DEF InsertBootstrap, SerialInv
      <3>2. HoldingsMatch'
        BY <2>1, <3>1 DEF HoldingsMatch, Held
      <3>3. Bootstrap # None /\ Bootstrap.cash = InitialCash /\ Bootstrap.realized = 0
        <4>1. Bootstrap \in Row
          BY MoneyAssumption DEF Bootstrap, Row
        <4> QED
          BY <4>1, NoneAssumption DEF Bootstrap
      <3>4. state' = [state EXCEPT ![s] = Bootstrap]
        BY <1>2 DEF InsertBootstrap
      <3>5. Rows' = {s} /\ state'[s] = Bootstrap
        BY <3>1, <3>3, <3>4 DEF Rows, OverdraftInv, TypeOK
      <3> QED
        BY <2>1, <3>1, <3>2, <3>3, <3>5, MoneyAssumption DEF Consistent, HoldingsMatch, Blank
    <2> QED
      BY <1>3, <1>4, <1>5, <2>1, <2>2 DEF SerialInv
  <1> QED
    BY <1>1, <1>2

\* Waiting for the locks: what it read is not read again.
LEMMA UpdateSerial ==
    ASSUME OverdraftInv, SerialInv, NEW p \in Procs, Update(p)
    PROVE  SerialInv'
  <1>1. UNCHANGED <<tables, order, seen, version, inOrder>>
    BY DEF Update
  <1>2. \A q \in Procs : Writing(q)' = Writing(q) /\ Reading(q)' = Reading(q)
    BY DEF Update, Writing, Reading, OverdraftInv, TypeOK
  <1>3. /\ Rows' = Rows /\ (Consistent)' = Consistent
        /\ Blank' = Blank /\ HoldingsMatch' = HoldingsMatch
    BY <1>1 DEF Rows, Consistent, IsLatest, Held, Blank, HoldingsMatch, tables
  <1>4. \A q \in Procs : Knows(q)' = Knows(q)
    BY <1>1, <1>2, <1>3 DEF Knows, tables
  <1> QED
    BY <1>1, <1>2, <1>3, <1>4 DEF SerialInv

LEMMA PlaceSerial ==
    ASSUME OverdraftInv, SerialInv, NEW p \in Procs, NEW o \in Order, Place(p, o)
    PROVE  SerialInv'
  <1>1. UNCHANGED <<tables, seen, version, inOrder>>
    BY DEF Place
  <1>2. \A q \in Procs : Reading(q)' => Reading(q) /\ pc'[q] = pc[q] /\ order'[q] = order[q]
    BY DEF Place, Reading, Writing, OverdraftInv, TypeOK
  <1>3. /\ Rows' = Rows /\ (Consistent)' = Consistent
        /\ Blank' = Blank /\ HoldingsMatch' = HoldingsMatch
    BY <1>1 DEF Rows, Consistent, IsLatest, Held, Blank, HoldingsMatch, tables
  <1>4. \A q \in Procs : Reading(q)' => Knows(q)' = Knows(q)
    BY <1>1, <1>2, <1>3 DEF Knows, Writing, tables
  <1> QED
    BY <1>1, <1>2, <1>3, <1>4 DEF SerialInv

LEMMA SerialStep ==
    OverdraftInv /\ ResetInv /\ SerialInv /\ [Next]_vars => SerialInv'
  <1> SUFFICES ASSUME OverdraftInv, ResetInv, SerialInv, [Next]_vars PROVE SerialInv'
    OBVIOUS
  <1>1. ASSUME NEW p \in Procs, NEW o \in Order, Place(p, o) PROVE SerialInv'
    BY <1>1, PlaceSerial
  <1>2. ASSUME NEW p \in Procs, ReadState(p) PROVE SerialInv'
    BY <1>2, ReadStateSerial
  <1>3. ASSUME NEW p \in Procs, ReadPosition(p) PROVE SerialInv'
    BY <1>3, ReadPositionSerial
  <1>4. ASSUME NEW p \in Procs, Update(p) PROVE SerialInv'
    BY <1>4, UpdateSerial
  <1>5. ASSUME NEW p \in Procs, Commit(p) PROVE SerialInv'
    BY <1>5, CommitSerial
  <1>6. ASSUME NEW p \in Procs, Abort(p) PROVE SerialInv'
    BY <1>6, FinishSerial DEF Abort
  <1>7. CASE Unseen
    BY <1>7, UnseenLists, SameSerial
  <1>8. CASE ResetCommit
    BY <1>8, ResetSerial
  <1>9. ASSUME NEW s \in Slots, InsertBootstrap(s) PROVE SerialInv'
    BY <1>9, BootstrapSerial
  <1>10. CASE UNCHANGED vars
    BY <1>10, SameSerial DEF vars
  <1> QED
    BY <1>1, <1>2, <1>3, <1>4, <1>5, <1>6, <1>7, <1>8, <1>9, <1>10 DEF Next, Unseen

\* place_order.py 2: as long as every order commits before the next one reads,
\* no slot lies in the past and nothing commits while a reset (init_db.py
\* 203-210) is open, the latest state row, the positions and the order history
\* agree, through partial sales, crashes and resets between, or around which,
\* orders read, wait and fail.
THEOREM SerialOrdersConsistent == Spec => []ConsistentInOrder
  <1>1. SerialInv => ConsistentInOrder
    BY DEF SerialInv, ConsistentInOrder
  <1> QED
    BY <1>1, InitOverdraft, OverdraftStep, InitReset, ResetInvStep, InitSerial, SerialStep, PTL DEF Spec

-----------------------------------------------------------------------------
(* Average prices.  A position that k buys went into can be divided by     *)
(* Grain[k] without remainder, and what a process read is at most as deep  *)
(* as the orders that have ended: its own is not among them.               *)

Grain == CHOOSE grain \in [0 .. MaxOrders -> 1 .. Scale] : Fine(grain)

Exact(pos, k) ==
    /\ pos.invested = pos.qty * pos.avg
    /\ \E q \in Qtys : pos.qty <= k * q
    /\ \E m \in Int : pos.avg = m * Grain[k]
    /\ \E m \in Int : Scale = m * Grain[k]

Busy == {p \in Procs : pc[p] # "idle"}
Done == orders - Cardinality(Busy)

\* A row is exact, after at most n orders.
ExactRow(pos, n) == pos # None => \E k \in 1 .. n : Exact(pos, k)

CostInv ==
    /\ IsFiniteSet(Busy) /\ Done \in Nat
    /\ \A c \in Codes : ExactRow(positions[c], Done)
    /\ \A p \in Procs : Writing(p) => ExactRow(seen[p].pos, Done)

LEMMA GrainFine == Grain \in [0 .. MaxOrders -> 1 .. Scale] /\ Fine(Grain)
  BY ScaleAssumption DEF Grain

LEMMA EvenDivision ==
    ASSUME NEW b \in Int, NEW n \in Int, n > 0
    PROVE  (b * n) \div n = b
  OBVIOUS

\* One order deeper, a multiple of the grain can be shared out evenly.
LEMMA Share ==
    ASSUME NEW k \in 1 .. MaxOrders, NEW q \in Qtys, NEW n \in 1 .. k * q, NEW i \in Int
    PROVE  /\ \E m \in Int : Grain[k - 1] = m * Grain[k]
           /\ \E m \in Int : /\ (i * Grain[k - 1]) \div n = m * Grain[k]
                             /\ i * Grain[k - 1] = n * (m * Grain[k])
  <1> DEFINE G == Grain[k - 1]
             g == Grain[k]
             j == G \div (g * n)
  <1>1. k \in Nat /\ q \in Nat /\ n \in Nat \ {0} /\ k \in 0 .. MaxOrders /\ k - 1 \in 0 .. MaxOrders
    BY InputAssumption, LimitAssumption
  <1>2. G \in Nat \ {0} /\ g \in Nat \ {0} /\ G % (g * n) = 0
    BY <1>1, GrainFine, MoneyAssumption DEF Fine
  <1> HIDE DEF G, g
  <1>3. g * n \in Nat \ {0}
    BY <1>1, <1>2
  <1>4. j \in Int /\ G = (g * n) * j
    BY <1>2, <1>3
  <1> HIDE DEF j
  <1> DEFINE m == i * j
             b == m * g
  <1>5. m \in Int /\ b \in Int /\ n * j \in Int
    BY <1>2, <1>1, <1>4
  <1>6. i * G = b * n /\ G = (n * j) * g
    BY <1>1, <1>2, <1>4
  <1>7. (i * G) \div n = b
    <2> HIDE DEF b
    <2> QED
      BY <1>1, <1>5, <1>6, EvenDivision
  <1>8. i * G = n * b
    BY <1>1, <1>5, <1>6
  <1> QED
    BY <1>5, <1>6, <1>7, <1>8 DEF G, g

\* Buying on: the bound on the number of shares grows with the number of buys.
LEMMA MoreShares ==
    ASSUME NEW n \in Nat \ {0}, NEW n1 \in Nat \ {0}, NEW q \in Nat \ {0}, NEW k \in Nat,
           n <= k * q
    PROVE  \E r \in {q, n1} : n + n1 \in 1 .. (k + 1) * r
  <1>1. /\ (k + 1) * q = k * q + q /\ (k + 1) * n1 = k * n1 + n1
        /\ k * q \in Nat /\ k * n1 \in Nat
    OBVIOUS
  <1>2. CASE n1 <= q
    BY <1>1, <1>2
  <1>3. CASE n1 > q
    <2>1. k * q <= k * n1
      BY <1>3
    <2> QED
      BY <1>1, <2>1
  <1> QED
    BY <1>2, <1>3

\* A buy leaves an exact row, one order deeper.
LEMMA BuyExact ==
    ASSUME OverdraftInv, NEW p \in Procs, Writing(p), order[p].side = "buy",
           NEW id \in Nat, NEW k \in 0 .. MaxOrders - 1,
           IF seen[p].pos = None THEN k = 0 ELSE Exact(seen[p].pos, k)
    PROVE  Exact(BuyPosition(order[p], seen[p].pos, id), k + 1)
  <1> DEFINE o    == order[p]
             snap == seen[p].pos
             net0 == NetAmount("buy", o.quote, o.cap, o.qty)
             paid == Scale * net0
             row  == BuyPosition(o, snap, id)
             g    == Grain[k]
  <1>1. /\ o \in Order /\ o.qty \in Qtys
        /\ snap = None \/ (snap \in Position /\ snap.qty > 0)
    BY WriterHolds DEF Order
  <1>2. net0 \in Nat /\ o.qty \in Nat \ {0}
    BY <1>1, OrderAmounts
  <1>3. /\ Scale \in Nat \ {0} /\ Grain[0] = Scale /\ g \in Nat \ {0}
        /\ k \in Nat /\ k + 1 \in 1 .. MaxOrders /\ (k + 1) - 1 = k
    BY GrainFine, MoneyAssumption, LimitAssumption DEF Fine
  <1>4. PICK q \in Qtys, i \in Int, j \in Int :
            /\ row.qty \in 1 .. (k + 1) * q
            /\ row.invested = i * g /\ Scale = j * g
    <2>1. CASE snap = None
      <3>1. row.qty = o.qty /\ row.invested = paid
        BY <2>1 DEF BuyPosition
      <3>2. o.qty \in 1 .. (k + 1) * o.qty /\ paid = net0 * g /\ Scale = 1 * g
        BY <1>2, <1>3, <2>1
      <3> QED
        BY <1>1, <1>2, <3>1, <3>2
    <2>2. CASE snap # None
      <3>1. PICK q \in Qtys, i \in Int, j \in Int :
                /\ snap.invested = snap.qty * snap.avg /\ snap.qty <= k * q
                /\ snap.avg = i * g /\ Scale = j * g
        BY <2>2 DEF Exact
      <3>2. /\ snap.qty \in Nat \ {0} /\ snap.avg \in Int /\ q \in Nat \ {0}
            /\ row.qty = snap.qty + o.qty /\ row.invested = snap.invested + paid
        BY <1>1, <2>2, InputAssumption DEF Position, BuyPosition
      <3> DEFINE n  == snap.qty
                 i1 == n * i + j * net0
      <3> HIDE DEF g
      <3>3. i1 \in Int /\ snap.invested + paid = i1 * g
        <4>1. n * (i * g) = (n * i) * g
          BY <1>3, <3>2
        <4>2. (j * g) * net0 = (j * net0) * g
          BY <1>2, <1>3
        <4>3. (n * i) * g + (j * net0) * g = (n * i + j * net0) * g
          BY <1>2, <1>3, <3>2
        <4> QED
          BY <1>2, <3>1, <3>2, <4>1, <4>2, <4>3
      <3>4. \E r \in Qtys : row.qty \in 1 .. (k + 1) * r
        <4> DEFINE n1 == o.qty
        <4>1. n1 \in Nat \ {0} /\ n \in Nat \ {0} /\ q \in Nat \ {0} /\ k \in Nat /\ n <= k * q
          BY <1>2, <1>3, <3>1, <3>2
        <4> HIDE DEF n, n1
        <4>2. \E r \in {q, n1} : n + n1 \in 1 .. (k + 1) * r
          BY <4>1, MoreShares
        <4> QED
          BY <1>1, <3>2, <4>2 DEF n, n1
      <3> QED
        BY <3>1, <3>2, <3>3, <3>4
    <2> QED
      BY <2>1, <2>2
  <1>5. row.avg = row.invested \div row.qty
    BY DEF BuyPosition
  <1> HIDE DEF row
  <1>0. /\ \E l \in Int : g = l * Grain[k + 1]
        /\ \E m \in Int : /\ (i * g) \div row.qty = m * Grain[k + 1]
                          /\ i * g = row.qty * (m * Grain[k + 1])
    <2> DEFINE k1 == k + 1
               n1 == row.qty
    <2>1. k1 \in 1 .. MaxOrders /\ k1 - 1 = k /\ n1 \in 1 .. k1 * q
      BY <1>3, <1>4
    <2> HIDE DEF k1, n1
    <2>2. /\ \E l \in Int : Grain[k1 - 1] = l * Grain[k1]
          /\ \E m \in Int : /\ (i * Grain[k1 - 1]) \div n1 = m * Grain[k1]
                            /\ i * Grain[k1 - 1] = n1 * (m * Grain[k1])
      BY <2>1, Share
    <2> QED
      BY <2>1, <2>2 DEF k1, n1
  <1>6. PICK m \in Int : /\ (i * g) \div row.qty = m * Grain[k + 1]
                        /\ i * g = row.qty * (m * Grain[k + 1])
    BY <1>0
  <1>7. PICK l \in Int : g = l * Grain[k + 1]
    BY <1>0
  <1>8. j * l \in Int /\ Scale = (j * l) * Grain[k + 1]
    <2>1. Grain[k + 1] \in Nat
      BY <1>3, GrainFine
    <2> HIDE DEF g
    <2> QED
      BY <1>4, <1>7, <2>1
  <1> HIDE DEF g
  <1> QED
    BY <1>3, <1>4, <1>5, <1>6, <1>8 DEF Exact, row

\* A partial sale leaves the average as it was, and no remainder.
LEMMA SellExact ==
    ASSUME OverdraftInv, NEW p \in Procs, Writing(p), order[p].side = "sell",
           seen[p].pos.qty # order[p].qty, NEW k \in Nat, Exact(seen[p].pos, k)
    PROVE  /\ Exact(SellPosition(order[p], seen[p].pos), k)
           /\ SellPosition(order[p], seen[p].pos).invested
                  = seen[p].pos.invested - seen[p].pos.avg * order[p].qty
  <1> DEFINE o    == order[p]
             snap == seen[p].pos
             left == snap.qty - o.qty
             row  == SellPosition(o, snap)
             rest == (snap.invested * left) \div snap.qty
  <1>1. o \in Order /\ snap \in Position /\ snap.qty >= o.qty
    BY WriterHolds
  <1>2. o.qty \in Nat \ {0} /\ snap.qty \in Nat \ {0} /\ snap.avg \in Int
        /\ left \in Nat \ {0} /\ left <= snap.qty
    BY <1>1, OrderAmounts DEF Position
  <1>3. snap.invested = snap.qty * snap.avg
    BY DEF Exact
  <1>4. row.qty = left /\ row.avg = snap.avg /\ row.invested = rest
    BY DEF SellPosition
  <1>5. rest = left * snap.avg
    <2> DEFINE b == left * snap.avg
    <2>1. b \in Int
      BY <1>2
    <2>2. snap.invested * left = b * snap.qty
      BY <1>2, <1>3
    <2> HIDE DEF b
    <2>3. rest = b
      BY <1>2, <2>1, <2>2, EvenDivision
    <2> QED
      BY <2>3 DEF b
  <1> HIDE DEF row, rest
  <1>6. PICK q \in Qtys : snap.qty <= k * q
    BY DEF Exact
  <1>7. row.qty <= k * q
    BY <1>2, <1>4, <1>6, InputAssumption
  <1>8. Exact(row, k)
    BY <1>4, <1>5, <1>7 DEF Exact
  <1>9. row.invested = snap.invested - snap.avg * o.qty
    BY <1>1, <1>2, <1>3, <1>4, <1>5
  <1> QED
    BY <1>8, <1>9 DEF row

LEMMA Deeper ==
    ASSUME NEW pos, NEW n \in Int, NEW m \in Int, n <= m, ExactRow(pos, n)
    PROVE  ExactRow(pos, m)
  BY DEF ExactRow

\* An order that is under way is not among those that have ended.
LEMMA BusyCounts ==
    ASSUME OverdraftInv, CostInv, NEW p \in Procs, pc[p] # "idle"
    PROVE  Done + 1 \in 1 .. MaxOrders
  <1>1. p \in Busy /\ IsFiniteSet(Busy)
    BY DEF Busy, CostInv
  <1>2. Cardinality(Busy) \in Nat /\ Cardinality(Busy) # 0
    BY <1>1, FS_CardinalityType, FS_EmptySet
  <1>3. orders \in 0 .. MaxOrders /\ MaxOrders \in Nat /\ Done \in Nat
    BY LimitAssumption DEF OverdraftInv, TypeOK, CostInv
  <1> QED
    BY <1>2, <1>3 DEF Done

LEMMA FinishCounts ==
    ASSUME OverdraftInv, CostInv, NEW p \in Procs, pc[p] # "idle", Finish(p), orders' = orders
    PROVE  IsFiniteSet(Busy') /\ Done' = Done + 1
  <1>1. p \in Busy /\ IsFiniteSet(Busy)
    BY DEF Busy, CostInv
  <1>2. Busy' = Busy \ {p}
    BY DEF Busy, Finish, OverdraftInv, TypeOK
  <1>3. /\ IsFiniteSet(Busy \ {p}) /\ Cardinality(Busy \ {p}) = Cardinality(Busy) - 1
        /\ Cardinality(Busy) \in Nat
    BY <1>1, FS_RemoveElement, FS_CardinalityType
  <1>4. orders \in Int
    BY DEF OverdraftInv, TypeOK
  <1> HIDE DEF Busy
  <1> QED
    BY <1>2, <1>3, <1>4 DEF Done

\* Whatever it read and whatever happened since: what a process writes is exact.
LEMMA WrittenExact ==
    ASSUME OverdraftInv, CostInv, NEW p \in Procs, Writing(p)
    PROVE  ExactRow(WrittenPosition(p), Done + 1)
  <1> DEFINE o    == order[p]
             snap == seen[p].pos
  <1>1. /\ o.code \in Codes /\ o.side \in Sides
        /\ snap = None \/ snap \in Position
    BY WriterHolds, OrderAmounts
  <1>2. Done \in Nat /\ Done + 1 \in 1 .. MaxOrders /\ MaxOrders \in Nat
    BY BusyCounts, LimitAssumption DEF CostInv, Writing
  <1>3. ExactRow(snap, Done) /\ ExactRow(positions[o.code], Done)
    BY <1>1 DEF CostInv
  <1> HIDE DEF Done
  <1>4. CASE snap = None
    <2>1. o.side = "buy"
      BY <1>1, <1>4, WriterHolds, NoneAssumption DEF Sides
    <2>2. nextId \in Nat /\ 0 \in 0 .. MaxOrders - 1
      BY <1>2 DEF OverdraftInv, TypeOK
    <2>3. Exact(BuyPosition(o, snap, nextId), 0 + 1)
      BY <1>4, <2>1, <2>2, BuyExact
    <2>4. WrittenPosition(p) = BuyPosition(o, snap, nextId) /\ 0 + 1 \in 1 .. Done + 1
      BY <1>2, <1>4 DEF WrittenPosition
    <2> QED
      BY <2>3, <2>4 DEF ExactRow
  <1>5. CASE snap # None /\ ~StillThere(p)
    BY <1>2, <1>3, <1>5, Deeper DEF WrittenPosition
  <1>6. CASE snap # None /\ StillThere(p)
    <2>1. PICK k \in 1 .. Done : Exact(snap, k)
      BY <1>3, <1>6 DEF ExactRow
    <2>2. /\ k \in Nat /\ k \in 0 .. MaxOrders - 1 /\ k + 1 \in 1 .. Done + 1
          /\ k \in 1 .. Done + 1
      BY <1>2
    <2>3. CASE o.side = "buy"
      <3>1. snap.id \in Nat
        BY <1>1, <1>6 DEF Position
      <3>2. Exact(BuyPosition(o, snap, snap.id), k + 1)
        BY <1>6, <2>1, <2>2, <2>3, <3>1, BuyExact
      <3>3. WrittenPosition(p) = BuyPosition(o, snap, snap.id)
        BY <1>6, <2>3 DEF WrittenPosition
      <3> QED
        BY <2>2, <3>2, <3>3 DEF ExactRow
    <2>4. CASE o.side = "sell" /\ snap.qty = o.qty
      BY <1>6, <2>4 DEF WrittenPosition, ExactRow
    <2>5. CASE o.side = "sell" /\ snap.qty # o.qty
      <3>1. Exact(SellPosition(o, snap), k)
        BY <2>1, <2>2, <2>5, SellExact
      <3>2. WrittenPosition(p) = SellPosition(o, snap)
        BY <1>6, <2>5 DEF WrittenPosition
      <3> QED
        BY <2>2, <3>1, <3>2 DEF ExactRow
    <2> QED
      BY <1>1, <2>3, <2>4, <2>5 DEF Sides
  <1> QED
    BY <1>4, <1>5, <1>6

LEMMA InitCost == Init => CostInv
  <1> SUFFICES ASSUME Init PROVE CostInv
    OBVIOUS
  <1>1. Busy = {}
    BY DEF Init, Busy
  <1>2. IsFiniteSet(Busy) /\ Done = 0
    BY <1>1, FS_EmptySet DEF Init, Done
  <1> QED
    BY <1>2 DEF Init, CostInv, ExactRow, Writing

\* A process that stops, having written or not.
LEMMA FinishCost ==
    ASSUME OverdraftInv, CostInv, NEW p \in Procs, pc[p] # "idle", Finish(p), orders' = orders,
           \A c \in Codes : ExactRow(positions'[c], Done + 1)
    PROVE  CostInv'
  <1>1. IsFiniteSet(Busy') /\ Done' = Done + 1 /\ Done \in Nat
    BY FinishCounts DEF CostInv
  <1>2. ASSUME NEW q \in Procs, Writing(q)' PROVE ExactRow(seen'[q].pos, Done + 1)
    <2>1. q # p /\ Writing(q) /\ seen'[q] = seen[q]
      BY <1>2 DEF Finish, Writing, OverdraftInv, TypeOK
    <2> QED
      BY <1>1, <2>1, Deeper DEF CostInv
  <1> HIDE DEF Done
  <1> QED
    BY <1>1, <1>2 DEF CostInv

LEMMA CostStep == OverdraftInv /\ CostInv /\ [Next]_vars => CostInv'
  <1> SUFFICES ASSUME OverdraftInv, CostInv, [Next]_vars PROVE CostInv'
    OBVIOUS
  <1>1. ASSUME UNCHANGED <<pc, orders>>
        PROVE  Busy' = Busy /\ Done' = Done
    BY <1>1 DEF Busy, Done
  <1>2. ASSUME NEW p \in Procs, NEW o \in Order, Place(p, o) PROVE CostInv'
    <2>1. Busy' = Busy \cup {p} /\ p \notin Busy /\ orders' = orders + 1 /\ orders \in Int
      BY <1>2 DEF Place, Busy, OverdraftInv, TypeOK
    <2>2. IsFiniteSet(Busy') /\ Done' = Done
      <3>1. /\ IsFiniteSet(Busy \cup {p}) /\ Cardinality(Busy \cup {p}) = Cardinality(Busy) + 1
            /\ Cardinality(Busy) \in Nat
        BY <2>1, FS_AddElement, FS_CardinalityType DEF CostInv
      <3> HIDE DEF Busy
      <3> QED
        BY <2>1, <3>1 DEF Done
    <2>3. /\ UNCHANGED <<positions, seen>>
          /\ \A q \in Procs : Writing(q)' => Writing(q)
      BY <1>2 DEF Place, Writing, tables, OverdraftInv, TypeOK
    <2> QED
      BY <2>2, <2>3 DEF CostInv, ExactRow
  <1>3. ASSUME NEW p \in Procs, ReadState(p) PROVE CostInv'
    <2>1. Busy' = Busy /\ UNCHANGED <<positions, orders>>
      BY <1>3 DEF ReadState, Busy, tables, OverdraftInv, TypeOK
    <2>2. \A q \in Procs : Writing(q)' => Writing(q) /\ seen'[q] = seen[q]
      BY <1>3 DEF ReadState, Writing, OverdraftInv, TypeOK
    <2> QED
      BY <2>1, <2>2 DEF CostInv, Done, ExactRow
  <1>4. ASSUME NEW p \in Procs, ReadPosition(p) PROVE CostInv'
    <2> DEFINE pos == positions[order[p].code]
    <2>1. UNCHANGED <<positions, orders>> /\ pc[p] = "position" /\ Done \in Nat
      BY <1>4 DEF ReadPosition, tables, CostInv
    <2>2. CASE ~Valid(order[p], seen[p].cash, pos)
      <3>1. Finish(p)
        BY <1>4, <2>2 DEF ReadPosition
      <3>2. \A c \in Codes : ExactRow(positions'[c], Done + 1)
        BY <2>1, Deeper DEF CostInv
      <3> QED
        BY <2>1, <3>1, <3>2, FinishCost
    <2>3. CASE Valid(order[p], seen[p].cash, pos)
      <3>1. Busy' = Busy
        BY <1>4, <2>3 DEF ReadPosition, Busy, OverdraftInv, TypeOK
      <3>2. order[p] \in Order /\ seen[p] \in Seen
        BY <2>1 DEF OverdraftInv, TypeOK, Progress
      <3>3. seen'[p].pos = pos /\ \A q \in Procs :
                q # p /\ Writing(q)' => Writing(q) /\ seen'[q] = seen[q]
        BY <1>4, <2>3, <3>2 DEF ReadPosition, Writing, OverdraftInv, TypeOK, Seen
      <3>4. ExactRow(pos, Done)
        BY <3>2, OrderAmounts DEF CostInv
      <3> QED
        BY <2>1, <3>1, <3>3, <3>4 DEF CostInv, Done, ExactRow
    <2> QED
      BY <2>2, <2>3
  <1>5. ASSUME NEW p \in Procs, Abort(p) PROVE CostInv'
    <2>1. /\ pc[p] # "idle" /\ Finish(p) /\ orders' = orders /\ positions' = positions
          /\ Done \in Nat
      BY <1>5 DEF Abort, tables, CostInv
    <2>2. \A c \in Codes : ExactRow(positions'[c], Done + 1)
      BY <2>1, Deeper DEF CostInv
    <2> QED
      BY <2>1, <2>2, FinishCost
  <1>6. ASSUME NEW p \in Procs, Commit(p) PROVE CostInv'
    <2>1. /\ pc[p] # "idle" /\ Writing(p) /\ Finish(p) /\ orders' = orders /\ Done \in Nat
          /\ positions' = [positions EXCEPT ![order[p].code] = WrittenPosition(p)]
          /\ positions \in [Codes -> Position \cup {None}]
      BY <1>6 DEF Commit, Writing, CostInv, OverdraftInv, TypeOK
    <2>2. ExactRow(WrittenPosition(p), Done + 1)
      BY <2>1, WrittenExact
    <2>3. \A c \in Codes : ExactRow(positions[c], Done + 1)
      BY <2>1, Deeper DEF CostInv
    <2>4. \A c \in Codes : ExactRow(positions'[c], Done + 1)
      BY <2>1, <2>2, <2>3
    <2> QED
      BY <2>1, <2>4, FinishCost
  <1>7. ASSUME NEW p \in Procs, Update(p) PROVE CostInv'
    <2>1. UNCHANGED <<positions, seen, orders>> /\ Busy' = Busy
      BY <1>7 DEF Update, tables, Busy, OverdraftInv, TypeOK
    <2>2. \A q \in Procs : Writing(q)' = Writing(q)
      BY <1>7 DEF Update, Writing, OverdraftInv, TypeOK
    <2> QED
      BY <2>1, <2>2 DEF CostInv, Done
  <1>8. CASE Unseen
    <2>1. UNCHANGED <<positions, pc, seen, orders>>
      BY <1>8, UnseenLists DEF tables, procs
    <2> QED
      BY <1>1, <2>1 DEF CostInv, Writing
  <1>9. CASE ResetCommit
    <2>1. \A c \in Codes : positions'[c] = None \/ positions'[c] = positions[c]
      BY <1>9 DEF ResetCommit
    <2>2. UNCHANGED <<pc, seen, orders>>
      BY <1>9 DEF ResetCommit, procs
    <2> QED
      BY <1>1, <2>1, <2>2 DEF CostInv, ExactRow, Writing
  <1>10. ASSUME NEW s \in Slots, InsertBootstrap(s) PROVE CostInv'
    BY <1>1, <1>10 DEF InsertBootstrap, procs, CostInv, Writing
  <1>11. CASE UNCHANGED vars
    BY <1>1, <1>11 DEF vars, tables, procs, CostInv, Writing
  <1> QED
    BY <1>2, <1>3, <1>4, <1>5, <1>6, <1>7, <1>8, <1>9, <1>10, <1>11 DEF Next, Unseen

\* place_order.py 212-240: whatever orders race, crash or meet a reset, the
\* stored average price of every position times its shares is what is stored
\* as invested; the cut of a partial sale never takes more or less.
THEOREM AveragesAreCosts == Spec => []AverageIsCost
  <1>1. CostInv => AverageIsCost
    BY DEF CostInv, ExactRow, Exact, AverageIsCost
  <1> QED
    BY <1>1, InitOverdraft, OverdraftStep, InitCost, CostStep, PTL DEF Spec

-----------------------------------------------------------------------------
(* Sums over a finite set, by induction on its subsets.                    *)

\* What holds of a set when it holds of its proper subsets holds of every
\* subset of a finite set.
LEMMA SubsetInduction ==
    ASSUME NEW S, IsFiniteSet(S), NEW I,
           \A T \in SUBSET S : (\A U \in SUBSET T : U # T => U \in I) => T \in I
    PROVE  \A T \in SUBSET S : T \in I
  <1> SUFFICES ASSUME NEW V \in SUBSET S, V \notin I PROVE FALSE
    OBVIOUS
  <1> DEFINE Out == {T \in SUBSET S : T \notin I}
             R == StrictSubsetOrdering(S)
  <1>1. FiniteSubsetsOf(S) = SUBSET S
    BY FS_FiniteSubsetsOfFinite
  <1>2. IsWellFoundedOn(R, SUBSET S)
    <2>1. IsWellFoundedOn(StrictSubsetOrdering(S), FiniteSubsetsOf(S))
      BY FS_StrictSubsetOrderingWellFounded
    <2> QED
      BY <1>1, <2>1, Zenon
  <1>3. Out \subseteq SUBSET S /\ Out # {}
    OBVIOUS
  <1> HIDE DEF Out, R
  <1>4. PICK T \in Out : \A U \in Out : <<U, T>> \notin R
    BY <1>2, <1>3, WFMin
  <1>5. \A U \in SUBSET T : U # T => U \in I
    BY <1>4 DEF Out, R, StrictSubsetOrdering
  <1> QED
    BY <1>4, <1>5 DEF Out

\* The definition of a sum over a finite set, as the community module has it:
\* a function on the subsets of S.
Picked(s) == CHOOSE x \in s : TRUE
SumRec(g, f, S) ==
    g = [s \in SUBSET S |-> IF s = {} THEN 0 ELSE f[Picked(s)] + g[s \ {Picked(s)}]]

LEMMA PickedIn == \A s : s # {} => Picked(s) \in s
  BY DEF Picked

\* Two such functions agree wherever both are defined.
LEMMA SumUnique ==
    ASSUME NEW f, NEW A, NEW B, IsFiniteSet(A), NEW g, NEW h, SumRec(g, f, A), SumRec(h, f, B)
    PROVE  \A s \in SUBSET (A \cap B) : g[s] = h[s]
  <1> DEFINE I == {s \in SUBSET (A \cap B) : g[s] = h[s]}
  <1>1. IsFiniteSet(A \cap B)
    BY FS_Subset
  <1>2. ASSUME NEW T \in SUBSET (A \cap B), \A U \in SUBSET T : U # T => U \in I
        PROVE  T \in I
    <2>1. g[T] = IF T = {} THEN 0 ELSE f[Picked(T)] + g[T \ {Picked(T)}]
      BY DEF SumRec
    <2>2. h[T] = IF T = {} THEN 0 ELSE f[Picked(T)] + h[T \ {Picked(T)}]
      BY DEF SumRec
    <2>3. T # {} => T \ {Picked(T)} \in I
      BY <1>2, PickedIn
    <2> QED
      BY <2>1, <2>2, <2>3
  <1> HIDE DEF I
  <1>3. \A T \in SUBSET (A \cap B) : T \in I
    BY <1>1, <1>2, SubsetInduction
  <1> QED
    BY <1>3 DEF I

\* There is one, on every finite set.
LEMMA SumExists ==
    ASSUME NEW f, NEW S, IsFiniteSet(S)
    PROVE  \E g : SumRec(g, f, S)
  <1> DEFINE I == {T \in SUBSET S : \E g : SumRec(g, f, T)}
  <1>1. ASSUME NEW T \in SUBSET S, \A U \in SUBSET T : U # T => U \in I
        PROVE  T \in I
    <2> DEFINE G(U) == CHOOSE g : SumRec(g, f, U)
               h == [s \in SUBSET T |->
                        IF s = {} THEN 0 ELSE f[Picked(s)] + G(s \ {Picked(s)})[s \ {Picked(s)}]]
    <2>1. \A U \in SUBSET T : U # T => SumRec(G(U), f, U)
      BY <1>1
    <2>2. ASSUME NEW s \in SUBSET T, s # {}
          PROVE  G(s \ {Picked(s)})[s \ {Picked(s)}] = h[s \ {Picked(s)}]
      <3> DEFINE r == s \ {Picked(s)}
                 q == r \ {Picked(r)}
      <3>1. Picked(s) \in s /\ (r # {} => Picked(r) \in r)
        BY <2>2, PickedIn
      <3>2. r \in SUBSET T /\ r # T /\ q \in SUBSET T /\ q # T /\ IsFiniteSet(r)
        BY <3>1, FS_Subset
      <3>3. SumRec(G(r), f, r) /\ SumRec(G(q), f, q)
        BY <2>1, <3>2
      <3>4. CASE r = {}
        <4>1. G(r)[r] = 0
          BY <3>3, <3>4 DEF SumRec
        <4>2. h[r] = 0
          BY <3>4
        <4> QED
          BY <4>1, <4>2
      <3>5. CASE r # {}
        <4>1. G(r)[r] = f[Picked(r)] + G(r)[q]
          BY <3>3, <3>5 DEF SumRec
        <4>2. G(r)[q] = G(q)[q]
          <5> HIDE DEF r, q, G
          <5>1. q \in SUBSET (r \cap q)
            BY DEF q
          <5> QED
            BY <3>2, <3>3, <5>1, SumUnique
        <4>3. h[r] = f[Picked(r)] + G(q)[q]
          BY <3>2, <3>5
        <4> QED
          BY <4>1, <4>2, <4>3
      <3> QED
        BY <3>4, <3>5
    <2>3. SumRec(h, f, T)
      <3> HIDE DEF G
      <3>1. h = [s \in SUBSET T |-> IF s = {} THEN 0 ELSE f[Picked(s)] + h[s \ {Picked(s)}]]
        BY <2>2
      <3> QED
        BY <3>1 DEF SumRec
    <2> QED
      BY <2>3
  <1> HIDE DEF I
  <1>2. S \in I
    BY <1>1, SubsetInduction
  <1> QED
    BY <1>2 DEF I

LEMMA SumIs ==
    ASSUME NEW f, NEW S, IsFiniteSet(S)
    PROVE  \E g : SumRec(g, f, S) /\ SumFunctionOnSet(f, S) = g[S]
  <1> DEFINE it == CHOOSE g : SumRec(g, f, S)
  <1>1. SumRec(it, f, S)
    BY SumExists
  <1>2. SumFunctionOnSet(f, S) = it[S]
    BY DEF SumFunctionOnSet, FoldFunctionOnSet, MapThenFoldSet, SumRec, Picked
  <1> QED
    BY <1>1, <1>2

\* So a sum is one summand and the sum of the others.
LEMMA SumStep ==
    ASSUME NEW f, NEW S, IsFiniteSet(S)
    PROVE  SumFunctionOnSet(f, S) =
               IF S = {} THEN 0 ELSE f[Picked(S)] + SumFunctionOnSet(f, S \ {Picked(S)})
  <1>1. PICK g : SumRec(g, f, S) /\ SumFunctionOnSet(f, S) = g[S]
    BY SumIs
  <1> DEFINE r == S \ {Picked(S)}
  <1>2. IsFiniteSet(r) /\ r \in SUBSET (S \cap r)
    BY FS_Subset
  <1>3. PICK h : SumRec(h, f, r) /\ SumFunctionOnSet(f, r) = h[r]
    BY <1>2, SumIs
  <1>4. g[r] = h[r]
    <2> HIDE DEF r
    <2> QED
      BY <1>1, <1>2, <1>3, SumUnique
  <1>5. g[S] = IF S = {} THEN 0 ELSE f[Picked(S)] + g[r]
    BY <1>1 DEF SumRec
  <1> QED
    BY <1>1, <1>3, <1>4, <1>5

LEMMA SumType ==
    ASSUME NEW S, IsFiniteSet(S), NEW f \in [S -> Int]
    PROVE  SumFunction(f) \in Int
  <1> DEFINE I == {T \in SUBSET S : SumFunctionOnSet(f, T) \in Int}
  <1>1. ASSUME NEW T \in SUBSET S, \A U \in SUBSET T : U # T => U \in I
        PROVE  T \in I
    <2>1. IsFiniteSet(T)
      BY FS_Subset
    <2>2. T # {} => Picked(T) \in T /\ T \ {Picked(T)} \in I
      BY <1>1, PickedIn
    <2>3. SumFunctionOnSet(f, T) =
              IF T = {} THEN 0 ELSE f[Picked(T)] + SumFunctionOnSet(f, T \ {Picked(T)})
      BY <2>1, SumStep
    <2> HIDE DEF Picked
    <2> QED
      BY <2>2, <2>3
  <1> HIDE DEF I
  <1>2. S \in I
    BY <1>1, SubsetInduction
  <1> QED
    BY <1>2 DEF I, SumFunction

LEMMA SumZero ==
    ASSUME NEW S, IsFiniteSet(S), NEW f \in [S -> Int], \A x \in S : f[x] = 0
    PROVE  SumFunction(f) = 0
  <1> DEFINE I == {T \in SUBSET S : SumFunctionOnSet(f, T) = 0}
  <1>1. ASSUME NEW T \in SUBSET S, \A U \in SUBSET T : U # T => U \in I
        PROVE  T \in I
    <2>1. IsFiniteSet(T)
      BY FS_Subset
    <2>2. T # {} => Picked(T) \in T /\ T \ {Picked(T)} \in I
      BY <1>1, PickedIn
    <2>3. SumFunctionOnSet(f, T) =
              IF T = {} THEN 0 ELSE f[Picked(T)] + SumFunctionOnSet(f, T \ {Picked(T)})
      BY <2>1, SumStep
    <2> HIDE DEF Picked
    <2> QED
      BY <2>2, <2>3
  <1> HIDE DEF I
  <1>2. S \in I
    BY <1>1, SubsetInduction
  <1> QED
    BY <1>2 DEF I, SumFunction

\* Changing one summand changes the sum by the difference.
LEMMA SumUpdate ==
    ASSUME NEW S, IsFiniteSet(S), NEW f \in [S -> Int], NEW h \in [S -> Int],
           NEW c \in S, \A x \in S : x # c => h[x] = f[x]
    PROVE  SumFunction(h) = SumFunction(f) + h[c] - f[c]
  <1> DEFINE More(T) == IF c \in T THEN h[c] - f[c] ELSE 0
             I == {T \in SUBSET S : /\ SumFunctionOnSet(f, T) \in Int
                                    /\ SumFunctionOnSet(h, T) = SumFunctionOnSet(f, T) + More(T)}
  <1>1. ASSUME NEW T \in SUBSET S, \A U \in SUBSET T : U # T => U \in I
        PROVE  T \in I
    <2>1. IsFiniteSet(T)
      BY FS_Subset
    <2>2. T # {} => Picked(T) \in T /\ T \ {Picked(T)} \in I
      BY <1>1, PickedIn
    <2>3. SumFunctionOnSet(f, T) =
              IF T = {} THEN 0 ELSE f[Picked(T)] + SumFunctionOnSet(f, T \ {Picked(T)})
      BY <2>1, SumStep
    <2>4. SumFunctionOnSet(h, T) =
              IF T = {} THEN 0 ELSE h[Picked(T)] + SumFunctionOnSet(h, T \ {Picked(T)})
      BY <2>1, SumStep
    <2> QED
      BY <2>2, <2>3, <2>4
  <1> HIDE DEF I
  <1>2. S \in I
    BY <1>1, SubsetInduction
  <1> QED
    BY <1>2 DEF I, SumFunction

-----------------------------------------------------------------------------
(* Conservation.                                                           *)

\* What was paid for the shares held is what was paid less what came in, plus
\* the profit it came in with.
BookInv == inOrder => Scale * net + SumFunction(Cost) = pnl

LEMMA CostType == OverdraftInv => Cost \in [Codes -> Int]
  BY DEF OverdraftInv, TypeOK, Cost, Position

\* A blank account holds nothing.
LEMMA BlankBooks == OverdraftInv /\ Blank => BookInv
  <1> SUFFICES ASSUME OverdraftInv, Blank PROVE BookInv
    OBVIOUS
  <1>1. \A c \in Codes : Cost[c] = 0
    BY DEF Blank, Cost
  <1>2. SumFunction(Cost) = 0
    BY <1>1, CostType, CodesAssumption, SumZero
  <1> QED
    BY <1>2, MoneyAssumption DEF BookInv, Blank

LEMMA InitBook == Init => BookInv
  BY InitOverdraft, BlankBooks DEF Init, Blank

\* A serial commit: the position's cost changes by what was paid, or by the
\* average price of the shares sold.
LEMMA WrittenCost ==
    ASSUME OverdraftInv, SerialInv, CostInv, NEW p \in Procs, Commit(p), inOrder'
    PROVE  LET o    == order[p]
               snap == seen[p].pos
               old  == IF snap = None THEN 0 ELSE snap.invested
               new  == IF WrittenPosition(p) = None THEN 0 ELSE WrittenPosition(p).invested
           IN  /\ old \in Int
               /\ o.side = "buy" => new = old + Scale * NetAmount("buy", o.quote, o.cap, o.qty)
               /\ o.side = "sell" =>
                    /\ snap # None /\ snap.avg \in Int /\ snap.invested = snap.qty * snap.avg
                    /\ new = snap.invested - snap.avg * o.qty
  <1> DEFINE o    == order[p]
             snap == seen[p].pos
             buy  == NetAmount("buy", o.quote, o.cap, o.qty)
             old  == IF snap = None THEN 0 ELSE snap.invested
             new  == IF WrittenPosition(p) = None THEN 0 ELSE WrittenPosition(p).invested
  <1>1. inOrder /\ seen[p].at = version /\ Writing(p)
    BY DEF Commit, Writing
  <1>2. snap = positions[o.code]
    BY <1>1 DEF SerialInv, Reading, Writing, Knows
  <1>3. /\ o \in Order /\ o.code \in Codes /\ o.side \in Sides
        /\ snap = None \/ (snap \in Position /\ snap.qty > 0)
        /\ o.side = "sell" => snap \in Position /\ snap.qty >= o.qty
        /\ buy \in Nat /\ o.qty \in Nat \ {0} /\ Scale \in Int
    BY <1>1, WriterHolds, OrderAmounts, MoneyAssumption
  <1>4. snap # None => StillThere(p)
    BY <1>2 DEF StillThere
  <1>5. ASSUME o.side = "buy" PROVE new = old + Scale * buy
    <2>1. /\ BuyPosition(o, snap, nextId).invested = old + Scale * buy
          /\ BuyPosition(o, snap, snap.id).invested = old + Scale * buy
      BY <1>3 DEF BuyPosition, Position
    <2>2. /\ BuyPosition(o, snap, nextId) # None
          /\ snap # None => BuyPosition(o, snap, snap.id) # None
      <3>1. nextId \in Nat /\ (snap # None => snap.id \in Nat)
        BY <1>3 DEF OverdraftInv, TypeOK, Position
      <3> QED
        BY <1>1, <3>1, BuyPositionType, NoneAssumption
    <2> HIDE DEF old
    <2> QED
      BY <1>4, <1>5, <2>1, <2>2 DEF WrittenPosition
  <1>6. ASSUME o.side = "sell"
        PROVE  /\ snap # None /\ snap.avg \in Int /\ snap.invested = snap.qty * snap.avg
               /\ new = snap.invested - snap.avg * o.qty
    <2>1. PICK k \in 1 .. Done : Exact(snap, k)
      BY <1>1, <1>3, <1>6, NoneAssumption DEF CostInv, ExactRow
    <2>2. /\ snap \in Position /\ snap # None /\ snap.invested \in Int /\ snap.avg \in Int
          /\ snap.qty \in Int /\ snap.invested = snap.qty * snap.avg
      BY <1>3, <1>6, <2>1, NoneAssumption DEF Position, Exact
    <2>3. CASE snap.qty = o.qty
      <3>1. new = 0
        BY <1>4, <1>6, <2>2, <2>3 DEF WrittenPosition
      <3>2. snap.qty * snap.avg = snap.avg * o.qty
        BY <1>3, <2>2, <2>3
      <3> HIDE DEF new
      <3> QED
        BY <1>3, <2>2, <2>3, <3>1, <3>2
    <2>4. CASE snap.qty # o.qty
      <3>1. k \in Nat
        BY DEF CostInv
      <3>2. SellPosition(o, snap).invested = snap.invested - snap.avg * o.qty
        BY <1>1, <1>6, <2>1, <2>4, <3>1, SellExact
      <3>3. SellPosition(o, snap) # None
        BY <1>1, <1>6, <2>4, SellPositionType, NoneAssumption
      <3> QED
        BY <1>4, <1>6, <2>2, <2>4, <3>2, <3>3 DEF WrittenPosition
    <2> QED
      BY <2>2, <2>3, <2>4
  <1>7. old \in Int
    BY <1>3 DEF Position
  <1> QED
    BY <1>5, <1>6, <1>7

LEMMA CommitBook ==
    ASSUME OverdraftInv, SerialInv, CostInv, BookInv, OverdraftInv',
           NEW p \in Procs, Commit(p), inOrder'
    PROVE  Scale * net' + SumFunction(Cost') = pnl'
  <1> DEFINE o    == order[p]
             snap == seen[p].pos
             buy  == NetAmount("buy", o.quote, o.cap, o.qty)
             sell == NetAmount("sell", o.quote, o.cap, o.qty)
             old  == IF snap = None THEN 0 ELSE snap.invested
             new  == IF WrittenPosition(p) = None THEN 0 ELSE WrittenPosition(p).invested
  <1>1. inOrder /\ seen[p].at = version /\ Writing(p)
    BY DEF Commit, Writing
  <1>2. snap = positions[o.code] /\ Scale * net + SumFunction(Cost) = pnl
    BY <1>1 DEF SerialInv, Reading, Writing, Knows, BookInv
  <1>3. /\ o \in Order /\ o.code \in Codes /\ o.side \in Sides
        /\ buy \in Nat /\ sell \in Nat /\ o.qty \in Nat \ {0}
    BY <1>1, WriterHolds, OrderAmounts
  <1>4. /\ positions' = [positions EXCEPT ![o.code] = WrittenPosition(p)]
        /\ positions \in [Codes -> Position \cup {None}]
        /\ net \in Int /\ pnl \in Int /\ Scale \in Int
        /\ net' = IF o.side = "buy" THEN net - buy ELSE net + sell
        /\ pnl' = pnl + (IF o.side = "buy" THEN 0 ELSE Scale * sell - snap.avg * o.qty)
    BY MoneyAssumption DEF Commit, OverdraftInv, TypeOK, SellPnl
  <1>5. SumFunction(Cost') = SumFunction(Cost) + new - old /\ SumFunction(Cost) \in Int
    <2>1. Cost \in [Codes -> Int] /\ Cost' \in [Codes -> Int]
      BY CostType DEF OverdraftInv, TypeOK, Cost, Position
    <2>2. \A c \in Codes : c # o.code => Cost'[c] = Cost[c]
      BY <1>3, <1>4 DEF Cost
    <2>3. Cost'[o.code] = new /\ Cost[o.code] = old
      BY <1>2, <1>3, <1>4 DEF Cost
    <2> HIDE DEF old, new
    <2>4. SumFunction(Cost) \in Int
      BY <2>1, CodesAssumption, SumType
    <2>5. SumFunction(Cost') = SumFunction(Cost) + Cost'[o.code] - Cost[o.code]
      BY <1>3, <2>1, <2>2, CodesAssumption, SumUpdate
    <2> QED
      BY <2>3, <2>4, <2>5
  <1>6. /\ old \in Int
        /\ o.side = "buy" => new = old + Scale * buy
        /\ o.side = "sell" => /\ snap # None /\ snap.avg \in Int
                              /\ new = snap.invested - snap.avg * o.qty
    BY WrittenCost
  <1>7. CASE o.side = "buy"
    <2>1. net' = net - buy /\ pnl' = pnl
      BY <1>4, <1>7
    <2> HIDE DEF buy, old, new
    <2>2. Scale * (net - buy) = Scale * net - Scale * buy
      BY <1>3, <1>4
    <2> QED
      BY <1>2, <1>3, <1>4, <1>5, <1>6, <1>7, <2>1, <2>2
  <1>8. CASE o.side = "sell"
    <2>1. /\ net' = net + sell /\ pnl' = pnl + (Scale * sell - snap.avg * o.qty)
          /\ old = snap.invested
      BY <1>4, <1>6, <1>8
    <2> HIDE DEF sell, old, new
    <2>2. Scale * (net + sell) = Scale * net + Scale * sell /\ Scale * sell \in Int
          /\ snap.avg * o.qty \in Int
      BY <1>3, <1>4, <1>6, <1>8
    <2> QED
      BY <1>2, <1>3, <1>4, <1>5, <1>6, <1>8, <2>1, <2>2
  <1> QED
    BY <1>3, <1>7, <1>8 DEF Sides

LEMMA BookStep ==
    OverdraftInv /\ OverdraftInv' /\ ResetInv /\ SerialInv /\ CostInv /\ BookInv /\ [Next]_vars
        => BookInv'
  <1> SUFFICES ASSUME OverdraftInv, OverdraftInv', ResetInv, SerialInv, CostInv, BookInv, [Next]_vars
               PROVE  BookInv'
    OBVIOUS
  <1>1. ASSUME UNCHANGED <<positions, net, pnl, inOrder>> PROVE BookInv'
    BY <1>1 DEF BookInv, Cost
  <1>2. ASSUME NEW p \in Procs,
               \/ \E o \in Order : Place(p, o)
               \/ ReadState(p) \/ ReadPosition(p) \/ Update(p) \/ Abort(p)
        PROVE  BookInv'
    BY <1>1, <1>2 DEF Place, ReadState, ReadPosition, Update, Abort, tables
  <1>3. ASSUME NEW p \in Procs, Commit(p) PROVE BookInv'
    BY <1>3, CommitBook DEF BookInv
  <1>4. CASE ResetCommit
    <2>1. (OverdraftInv /\ Blank => BookInv)'
      BY BlankBooks, PTL
    <2>2. inOrder' => BookInv'
      BY <1>4, <2>1, ResetEmpties
    <2> QED
      BY <2>2 DEF BookInv
  <1>5. CASE Unseen
    BY <1>1, <1>5, UnseenLists DEF tables
  <1>6. ASSUME NEW s \in Slots, InsertBootstrap(s) PROVE BookInv'
    <2>1. UNCHANGED <<positions, net, pnl>> /\ (inOrder' => inOrder)
      BY <1>6 DEF InsertBootstrap
    <2> QED
      BY <2>1 DEF BookInv, Cost
  <1>7. CASE UNCHANGED vars
    BY <1>1, <1>7 DEF vars, tables
  <1> QED
    BY <1>2, <1>3, <1>4, <1>5, <1>6, <1>7 DEF Next, Unseen

\* place_order.py 164-240: as long as orders commit one after the other, in slot
\* order and not while a reset (init_db.py 203-210) is open, cash and the cost of what is held add up to the initial cash
\* and the realised profit, through averaging, partial sales, commissions,
\* taxes, crashes and resets.
THEOREM MoneyIsConserved == Spec => []BooksBalance
  <1>1. OverdraftInv /\ SerialInv /\ BookInv => BooksBalance
    <2> SUFFICES ASSUME OverdraftInv, SerialInv, BookInv, inOrder,
                        NEW s \in Rows, IsLatest(s)
                 PROVE  Scale * state[s].cash + SumFunction(Cost)
                            = Scale * InitialCash + state[s].realized
      BY DEF BooksBalance
    <2>1. state[s].cash = InitialCash + net /\ state[s].realized = pnl
      BY DEF SerialInv, Consistent
    <2>2. /\ Scale * net + SumFunction(Cost) = pnl /\ SumFunction(Cost) \in Int
          /\ net \in Int /\ InitialCash \in Int /\ Scale \in Int
      BY CostType, CodesAssumption, SumType, MoneyAssumption
      DEF BookInv, OverdraftInv, TypeOK
    <2>3. Scale * (InitialCash + net) = Scale * InitialCash + Scale * net
      BY <2>2
    <2> QED
      BY <2>1, <2>2, <2>3
  <1> QED
    BY <1>1, InitOverdraft, OverdraftStep, InitReset, ResetInvStep, InitSerial, SerialStep, InitCost, CostStep,
       InitBook, BookStep, PTL DEF Spec

-----------------------------------------------------------------------------
(* Serial orders are steps of an account.  Of the rows there is a latest,  *)
(* and with what SerialInv says the account's cash is the money the order  *)
(* history left, its profit what the history earned, and its shares what   *)
(* the history bought and did not sell.                                    *)

Greatest(s, S) == s \in S /\ \A t \in S : t <= s

\* So it is among those of them that a reset leaves.
LatestInv == \A S \in SUBSET Rows : S # {} => \E s \in S : Greatest(s, S)

LEMMA LatestExists == LatestInv /\ Rows # {} => \E s \in Rows : IsLatest(s)
  BY DEF LatestInv, Greatest, IsLatest

LEMMA InitLatest == Init => LatestInv
  <1> SUFFICES ASSUME Init PROVE LatestInv
    OBVIOUS
  <1>1. PICK s \in Slots : state = [t \in Slots |-> IF t = s THEN Bootstrap ELSE None]
    BY DEF Init
  <1>2. Bootstrap # None
    BY MoneyAssumption, NoneAssumption DEF Bootstrap, Row
  <1>3. Rows = {s}
    BY <1>1, <1>2 DEF Rows
  <1> QED
    <2> SUFFICES ASSUME NEW S \in SUBSET {s}, S # {} PROVE \E t \in S : Greatest(t, S)
      BY <1>3 DEF LatestInv
    <2>1. S = {s}
      OBVIOUS
    <2>2. s <= s
      BY InputAssumption
    <2> QED
      BY <2>1, <2>2 DEF Greatest

\* Of the latest of some old rows and a new one, one is the latest.
LEMMA AddedLatest ==
    ASSUME LatestInv, NEW slot \in Slots, Rows' = Rows \cup {slot}
    PROVE  LatestInv'
  <1>1. Rows \subseteq Nat /\ slot \in Nat
    BY InputAssumption DEF Rows
  <1>2. SUFFICES ASSUME NEW S \in SUBSET (Rows \cup {slot}), S # {}
                 PROVE  \E s \in S : Greatest(s, S)
    BY DEF LatestInv
  <1>3. CASE S \subseteq {slot}
    <2>1. S = {slot}
      BY <1>2, <1>3
    <2>2. slot <= slot
      BY <1>1
    <2> QED
      BY <2>1, <2>2 DEF Greatest
  <1>4. CASE ~(S \subseteq {slot})
    <2>1. PICK s \in S \ {slot} : \A t \in S \ {slot} : t <= s
      <3>1. S \ {slot} \in SUBSET Rows /\ S \ {slot} # {}
        BY <1>4
      <3> QED
        BY <3>1 DEF LatestInv, Greatest
    <2>2. s \in Nat /\ S \subseteq Nat
      BY <1>1, <1>2
    <2>3. CASE slot \in S /\ s <= slot
      <3>1. \A t \in S : t <= slot
        BY <1>1, <2>1, <2>2, <2>3
      <3> QED
        BY <2>3, <3>1 DEF Greatest
    <2>4. CASE slot \notin S \/ slot < s
      <3>1. \A t \in S : t <= s
        BY <1>1, <2>1, <2>2, <2>4
      <3> QED
        BY <2>1, <3>1 DEF Greatest
    <2> QED
      BY <1>1, <2>2, <2>3, <2>4
  <1> QED
    BY <1>3, <1>4

LEMMA ResetLatest == LatestInv /\ ResetCommit => LatestInv'
  <1>1. ResetCommit => Rows' \subseteq Rows
    BY DEF ResetCommit, Rows
  <1> QED
    BY <1>1 DEF LatestInv

LEMMA LatestStep == OverdraftInv /\ LatestInv /\ [Next]_vars => LatestInv'
  <1> SUFFICES ASSUME OverdraftInv, LatestInv, [Next]_vars PROVE LatestInv'
    OBVIOUS
  <1>1. ASSUME UNCHANGED <<state, inOrder>> PROVE LatestInv'
    BY <1>1 DEF LatestInv, Rows
  <1>2. ASSUME NEW p \in Procs, Commit(p) PROVE LatestInv'
    <2>1. PICK slot : slot = order[p].slot
      OBVIOUS
    <2>2. /\ slot \in Slots /\ state'[slot] \in Row
          /\ \A s \in Slots : s # slot => state'[s] = state[s]
      BY <1>2, <2>1, WrittenState
    <2>3. Rows' = Rows \cup {slot}
      BY <2>2, NoneAssumption DEF Rows
    <2> QED
      BY <2>2, <2>3, AddedLatest
  <1>3. CASE ResetCommit
    BY <1>3, ResetLatest
  <1>4. ASSUME NEW s \in Slots, InsertBootstrap(s) PROVE LatestInv'
    <2>1. CASE state[s] # None
      BY <1>1, <1>4, <2>1 DEF InsertBootstrap
    <2>2. CASE state[s] = None
      <3>1. state' = [state EXCEPT ![s] = Bootstrap]
        BY <1>4, <2>2 DEF InsertBootstrap
      <3>2. Bootstrap # None
        BY MoneyAssumption, NoneAssumption DEF Bootstrap, Row
      <3>3. Rows' = Rows \cup {s}
        BY <3>1, <3>2 DEF Rows, OverdraftInv, TypeOK
      <3> QED
        BY <3>3, AddedLatest
    <2> QED
      BY <2>1, <2>2
  <1>5. ASSUME NEW p \in Procs,
               \/ \E o \in Order : Place(p, o)
               \/ ReadState(p) \/ ReadPosition(p) \/ Update(p) \/ Abort(p)
        PROVE  LatestInv'
    BY <1>1, <1>5 DEF Place, ReadState, ReadPosition, Update, Abort, tables
  <1>6. CASE Unseen \/ UNCHANGED vars
    BY <1>1, <1>6, UnseenLists DEF vars, tables
  <1> QED
    BY <1>2, <1>3, <1>4, <1>5, <1>6 DEF Next, Unseen

\* What the account shows while orders are serial.
LEMMA Views ==
    OverdraftInv /\ SerialInv /\ LatestInv /\ inOrder /\ Rows # {}
        => Money = InitialCash + net /\ Earned = pnl /\ Shares = traded
  <1> SUFFICES ASSUME OverdraftInv, SerialInv, LatestInv, inOrder, Rows # {}
               PROVE  Money = InitialCash + net /\ Earned = pnl /\ Shares = traded
    OBVIOUS
  <1> DEFINE top == CHOOSE s \in Rows : IsLatest(s)
  <1>1. top \in Rows /\ IsLatest(top)
    BY LatestExists
  <1>2. LatestRow = state[top]
    BY DEF LatestRow
  <1> HIDE DEF top
  <1>3. Consistent /\ HoldingsMatch
    BY DEF SerialInv
  <1>4. LatestRow.cash = InitialCash + net /\ LatestRow.realized = pnl
    BY <1>1, <1>2, <1>3 DEF Consistent
  <1>5. Shares = traded
    BY <1>3 DEF Shares, HoldingsMatch, OverdraftInv, TypeOK
  <1> QED
    BY <1>4, <1>5 DEF Money, Earned

LEMMA ViewsNext ==
    (OverdraftInv /\ SerialInv /\ LatestInv /\ inOrder /\ Rows # {}
        => Money = InitialCash + net /\ Earned = pnl /\ Shares = traded)'
  BY Views, PTL

LEMMA SameAmounts ==
    ASSUME NEW side, NEW quote, NEW cap, NEW qty
    PROVE  Books!NetAmount(side, quote, cap, qty) = NetAmount(side, quote, cap, qty)
  <1>1. ASSUME NEW n, NEW d PROVE Books!RoundDiv(n, d) = RoundDiv(n, d)
    BY DEF Books!RoundDiv, RoundDiv
  <1>2. \A g : Books!Commission(g) = Commission(g) /\ Books!SellTax(g) = SellTax(g)
    BY <1>1 DEF Books!Commission, Commission, Books!SellTax, SellTax
  <1>3. ASSUME NEW h PROVE Books!SlippageRate(Books!CapEok(h)) = SlippageRate(CapEok(h))
    BY DEF Books!SlippageRate, SlippageRate, Books!CapEok, CapEok
  <1>4. \A d, u, h : Books!FillPrice(d, u, h) = FillPrice(d, u, h)
    BY <1>1, <1>3 DEF Books!FillPrice, FillPrice
  <1> QED
    BY <1>2, <1>4 DEF Books!NetAmount, NetAmount

\* The amount of an order, in the account's words.
LEMMA AmountIs ==
    ASSUME NEW o \in Order
    PROVE  Books!Amount(o) = NetAmount(o.side, o.quote, o.cap, o.qty)
  BY SameAmounts DEF Books!Amount

\* Whatever overtook what, the account is not overdrawn.
LEMMA NeverBelow ==
    OverdraftInv /\ LatestInv => Money >= 0 /\ \A c \in Codes : Shares[c] >= 0
  <1> SUFFICES ASSUME OverdraftInv, LatestInv
               PROVE  Money >= 0 /\ \A c \in Codes : Shares[c] >= 0
    OBVIOUS
  <1>1. Money >= 0
    <2> DEFINE top == CHOOSE s \in Rows : IsLatest(s)
    <2>1. Rows # {} => top \in Rows
      BY LatestExists
    <2>2. LatestRow = state[top]
      BY DEF LatestRow
    <2> HIDE DEF top
    <2> QED
      BY <2>1, <2>2 DEF Money, OverdraftInv, NoOverdraft
  <1>2. \A c \in Codes : positions[c] # None => positions[c].qty > 0 /\ positions[c].qty \in Nat
    BY DEF OverdraftInv, TypeOK, NoOverdraft, Position
  <1> QED
    BY <1>1, <1>2 DEF Shares, Held

LEMMA DisorderMaps ==
    ASSUME OverdraftInv', LatestInv', ~inOrder'
    PROVE  Books!Disorder
  <1>1. (OverdraftInv /\ LatestInv => Money >= 0 /\ \A c \in Codes : Shares[c] >= 0)'
    BY NeverBelow, PTL
  <1>2. inOrder' = FALSE
    BY DEF OverdraftInv, TypeOK
  <1> QED
    BY <1>1, <1>2, Zenon DEF Books!Disorder

\* A serial commit is the order's step of the account.
LEMMA OrderMaps ==
    ASSUME OverdraftInv, OverdraftInv', SerialInv, SerialInv', CostInv, LatestInv, LatestInv',
           NEW p \in Procs, Commit(p), inOrder'
    PROVE  \E o \in Order : Books!Buy(o) \/ Books!Sell(o)
  <1>1. inOrder /\ seen[p].at = version /\ Writing(p)
    BY DEF Commit, Writing
  <1>2. PICK o \in Order : o = order[p]
    BY <1>1, WriterHolds
  <1> DEFINE snap   == seen[p].pos
             amount == NetAmount(o.side, o.quote, o.cap, o.qty)
  <1>3. /\ o.code \in Codes /\ o.side \in Sides /\ o.qty \in Nat \ {0} /\ amount \in Nat
        /\ o.side = "buy" => seen[p].cash >= amount
        /\ o.side = "sell" => snap \in Position /\ snap.qty >= o.qty
    BY <1>1, <1>2, WriterHolds, OrderAmounts DEF Sides
  <1>4. Rows # {} /\ snap = positions[o.code] /\ seen[p].cash = InitialCash + net
    BY <1>1, <1>2 DEF SerialInv, Reading, Writing, Knows
  <1>5. Money = InitialCash + net /\ Earned = pnl /\ Shares = traded
    BY <1>1, <1>4, Views
  <1>6. Rows' # {}
    BY CommitConsistent
  <1>7. Money' = InitialCash + net' /\ Earned' = pnl' /\ Shares' = traded'
    BY <1>6, ViewsNext
  <1>8. /\ net \in Int /\ pnl \in Int /\ InitialCash \in Int /\ Scale \in Int
        /\ traded \in [Codes -> Int] /\ positions \in [Codes -> Position \cup {None}]
        /\ net' = IF o.side = "buy" THEN net - amount ELSE net + amount
        /\ pnl' = pnl + (IF o.side = "buy" THEN 0 ELSE Scale * amount - snap.avg * o.qty)
        /\ traded' = [traded EXCEPT ![o.code] = IF o.side = "buy" THEN @ + o.qty ELSE @ - o.qty]
        /\ positions' = [positions EXCEPT ![o.code] = WrittenPosition(p)]
    BY <1>2, <1>3, MoneyAssumption DEF Commit, OverdraftInv, TypeOK, SellPnl, Sides
  <1> DEFINE old == IF snap = None THEN 0 ELSE snap.invested
             new == IF WrittenPosition(p) = None THEN 0 ELSE WrittenPosition(p).invested
  <1>9. /\ old \in Int
        /\ o.side = "buy" => new = old + Scale * amount
        /\ o.side = "sell" => /\ snap # None /\ snap.avg \in Int
                              /\ snap.invested = snap.qty * snap.avg
                              /\ new = snap.invested - snap.avg * o.qty
    BY <1>2, WrittenCost
  <1>10. Cost' = [Cost EXCEPT ![o.code] = new] /\ Cost[o.code] = old
    BY <1>3, <1>4, <1>8 DEF Cost
  <1>11. Books!Amount(o) = amount
    BY AmountIs
  <1> HIDE DEF amount, new
  <1>12. CASE o.side = "buy"
    <2>1. Money >= amount /\ Money' = Money - amount /\ Earned' = Earned
      BY <1>3, <1>4, <1>5, <1>7, <1>8, <1>12
    <2>2. Shares' = [Shares EXCEPT ![o.code] = @ + o.qty]
      BY <1>5, <1>7, <1>8, <1>12
    <2>3. Cost' = [Cost EXCEPT ![o.code] = @ + Scale * amount]
      BY <1>9, <1>10, <1>12
    <2>4. Books!Buy(o)
      BY <1>1, <1>4, <1>6, <1>11, <1>12, <2>1, <2>2, <2>3, Zenon DEF Books!Buy
    <2> QED
      BY <2>4
  <1>13. CASE o.side = "sell"
    <2> DEFINE out == snap.avg * o.qty
    <2>1. /\ snap.qty \in Nat /\ snap.qty > 0 /\ out \in Int /\ Cost[o.code] = snap.qty * snap.avg
          /\ Shares[o.code] = snap.qty /\ snap.qty >= o.qty
      BY <1>3, <1>4, <1>9, <1>10, <1>13 DEF Shares, Held, Position
    <2>2. Cost[o.code] * o.qty = out * snap.qty
      BY <1>3, <1>9, <1>13, <2>1
    <2> HIDE DEF out
    <2>3. (Cost[o.code] * o.qty) \div Shares[o.code] = out
      BY <2>1, <2>2, EvenDivision
    <2>4. /\ Money' = Money + amount
          /\ Earned' = Earned + Scale * amount - out
      BY <1>3, <1>5, <1>7, <1>8, <1>13, <2>1 DEF out
    <2>5. Shares' = [Shares EXCEPT ![o.code] = @ - o.qty]
      BY <1>5, <1>7, <1>8, <1>13
    <2>6. Cost' = [Cost EXCEPT ![o.code] = @ - out]
      BY <1>9, <1>10, <1>13 DEF out
    <2>7. /\ out * Shares[o.code] = Cost[o.code] * o.qty
          /\ Shares[o.code] >= o.qty
      BY <2>1, <2>2
    <2>8. Books!Sell(o)
      BY <1>1, <1>4, <1>6, <1>11, <1>13, <2>3, <2>4, <2>5, <2>6, <2>7, Zenon DEF Books!Sell
    <2> QED
      BY <2>8
  <1> QED
    BY <1>3, <1>12, <1>13 DEF Sides

LEMMA InitMaps == Init => Books!AccountInit
  <1> SUFFICES ASSUME Init PROVE Books!AccountInit
    OBVIOUS
  <1>1. PICK s \in Slots : state = [t \in Slots |-> IF t = s THEN Bootstrap ELSE None]
    BY DEF Init
  <1>2. Bootstrap # None
    BY MoneyAssumption, NoneAssumption DEF Bootstrap, Row
  <1>3. Rows # {} /\ inOrder
    BY <1>1, <1>2 DEF Rows, Init
  <1>4. Money = InitialCash + net /\ Earned = pnl
    BY <1>3, InitOverdraft, InitSerial, InitLatest, Views
  <1>5. Money = InitialCash /\ Earned = 0
    BY <1>4, MoneyAssumption DEF Init
  <1>6. Shares = [c \in Codes |-> 0] /\ Cost = [c \in Codes |-> 0]
    BY DEF Init, Shares, Held, Cost
  <1> QED
    BY <1>3, <1>5, <1>6, Zenon DEF Books!AccountInit

\* A reset during which nothing was committed closes the account.
LEMMA ResetMaps ==
    ASSUME OverdraftInv, ResetInv, ResetCommit, inOrder'
    PROVE  Books!Close
  <1>1. inOrder /\ Rows' = {} /\ \A c \in Codes : positions'[c] = None
    BY ResetEmpties DEF Blank
  <1>2. Money' = 0 /\ Earned' = 0
    BY <1>1 DEF Money, Earned
  <1>3. Shares' = [c \in Codes |-> 0] /\ Cost' = [c \in Codes |-> 0]
    BY <1>1 DEF Shares, Held, Cost
  <1>4. inOrder' = inOrder
    BY <1>1 DEF OverdraftInv, TypeOK, ResetCommit
  <1> QED
    BY <1>1, <1>2, <1>3, <1>4, Zenon DEF Books!Close

\* What neither the tables nor the order of commits notice, the account does not.
LEMMA RestMaps ==
    ASSUME UNCHANGED <<state, positions, inOrder>>
    PROVE  UNCHANGED Books!accountVars
  <1>1. Rows' = Rows
    BY DEF Rows
  <1>2. LatestRow' = LatestRow
    BY <1>1 DEF LatestRow, IsLatest
  <1>3. Money' = Money /\ Earned' = Earned
    BY <1>1, <1>2, Zenon DEF Money, Earned
  <1>4. Shares' = Shares /\ Cost' = Cost
    BY DEF Shares, Held, Cost
  <1> QED
    BY <1>1, <1>3, <1>4, Zenon DEF Books!accountVars

LEMMA BootstrapMaps ==
    ASSUME OverdraftInv, OverdraftInv', SerialInv, SerialInv', LatestInv', NEW s \in Slots,
           InsertBootstrap(s)
    PROVE  Books!SetUp \/ Books!Disorder \/ UNCHANGED Books!accountVars
  <1>1. CASE state[s] # None
    BY <1>1, RestMaps DEF InsertBootstrap
  <1>2. CASE ~inOrder'
    BY <1>2, DisorderMaps
  <1>3. CASE state[s] = None /\ inOrder'
    <2>1. /\ state' = [state EXCEPT ![s] = Bootstrap] /\ inOrder /\ Rows = {}
          /\ UNCHANGED <<positions, net, pnl>>
      BY <1>3 DEF InsertBootstrap
    <2>2. Bootstrap # None
      BY MoneyAssumption, NoneAssumption DEF Bootstrap, Row
    <2>3. Rows' # {}
      BY <2>1, <2>2 DEF Rows, OverdraftInv, TypeOK
    <2>4. Money' = InitialCash + net' /\ Earned' = pnl'
      BY <1>3, <2>3, ViewsNext
    <2>5. net = 0 /\ pnl = 0
      BY <2>1 DEF SerialInv, Blank
    <2>6. Money' = InitialCash /\ Earned' = Earned
      BY <2>1, <2>4, <2>5, MoneyAssumption DEF Earned
    <2>7. Shares' = Shares /\ Cost' = Cost
      BY <2>1 DEF Shares, Held, Cost
    <2>8. inOrder' = inOrder
      BY <1>3, <2>1 DEF OverdraftInv, TypeOK
    <2> QED
      BY <2>1, <2>3, <2>6, <2>7, <2>8, Zenon DEF Books!SetUp
  <1> QED
    BY <1>1, <1>2, <1>3

LEMMA AccountStep ==
    ASSUME OverdraftInv, OverdraftInv', ResetInv, SerialInv, SerialInv', CostInv,
           LatestInv, LatestInv', [Next]_vars
    PROVE  [Books!AccountNext]_(Books!accountVars)
  <1>1. ASSUME NEW p \in Procs,
               \/ \E o \in Order : Place(p, o)
               \/ ReadState(p) \/ ReadPosition(p) \/ Update(p) \/ Abort(p)
        PROVE  UNCHANGED Books!accountVars
    <2>1. UNCHANGED <<state, positions, inOrder>>
      BY <1>1 DEF Place, ReadState, ReadPosition, Update, Abort, tables
    <2> QED
      BY <2>1, RestMaps
  <1>2. ASSUME NEW p \in Procs, Commit(p)
        PROVE  Books!AccountNext
    <2>1. CASE inOrder'
      BY <1>2, <2>1, OrderMaps DEF Books!AccountNext
    <2>2. CASE ~inOrder'
      BY <2>2, DisorderMaps DEF Books!AccountNext
    <2> QED
      BY <2>1, <2>2
  <1>3. ASSUME ResetCommit
        PROVE  Books!AccountNext
    <2>1. CASE inOrder'
      BY <1>3, <2>1, ResetMaps DEF Books!AccountNext
    <2>2. CASE ~inOrder'
      BY <2>2, DisorderMaps DEF Books!AccountNext
    <2> QED
      BY <2>1, <2>2
  <1>4. ASSUME NEW s \in Slots, InsertBootstrap(s)
        PROVE  [Books!AccountNext]_(Books!accountVars)
    BY <1>4, BootstrapMaps DEF Books!AccountNext
  <1>5. CASE Unseen \/ UNCHANGED vars
    <2>1. UNCHANGED <<state, positions, inOrder>>
      BY <1>5, UnseenLists DEF vars, tables
    <2> QED
      BY <2>1, RestMaps
  <1> QED
    BY <1>1, <1>2, <1>3, <1>4, <1>5 DEF Next, Unseen

\* place_order.py 2, 164-265 and init_db.py 203-210: every behaviour of the
\* processes and tables is one of an account on which each order is a single
\* step, and so is a reset, until an order overtakes another or commits while
\* a reset is open: read, validated and averaged from several tables, written
\* to four, with crashes and waits for locks in between, no order is half
\* done, paid twice, or served from shares or money that are not there.  After
\* that neither cash nor a holding is ever negative.
THEOREM Refinement == Spec => ImplementsAccount
  <1>1. OverdraftInv /\ OverdraftInv' /\ ResetInv /\ SerialInv /\ SerialInv' /\ CostInv
            /\ LatestInv /\ LatestInv' /\ [Next]_vars
        => [Books!AccountNext]_(Books!accountVars)
    BY AccountStep
  <1> QED
    BY <1>1, InitOverdraft, OverdraftStep, InitReset, ResetInvStep, InitSerial, SerialStep, InitCost, CostStep,
       InitLatest, LatestStep, InitMaps, PTL DEF Spec, ImplementsAccount, Books!AccountSpec

=============================================================================
