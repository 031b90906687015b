-------------------------- MODULE PriceAlertsProofs --------------------------
(***************************************************************************)
(* What holds of price alerts for every number of workers, devices, codes  *)
(* and prices.                                                             *)
(***************************************************************************)
EXTENDS PriceAlerts, TLAPS

-----------------------------------------------------------------------------
(* The inductive invariant, in the parts the two theorems need.            *)

\* Rows have ids of the sequence and armings that were made, none of them twice.
RowsApart ==
    /\ \A k \in Rows : alerts[k].id < nextId /\ alerts[k].arming <= sets
    /\ \A k, l \in Rows :
          k # l => alerts[k].id # alerts[l].id /\ alerts[k].arming # alerts[l].arming

\* What checks hold was made, and so was what is pushed.
HeldMade ==
    /\ \A w \in Workers :
          /\ \A a \in batch[w] : a.arming <= sets
          /\ \A d \in done[w]  : d.arming <= sets
    /\ \A x \in pushed : x <= sets

\* An idle worker holds nothing.
IdleHolds == \A w \in Workers : wpc[w] = "idle" => batch[w] = {} /\ done[w] = {}

\* A row whose price is at its target has reached it.
CurrentReached == \A k \in Rows : Hit(alerts[k], price[k[2]]) => alerts[k].arming \in reached

\* The row with an id a check has read is as it was read, unless it was set
\* meanwhile.
ReadUnlessRaced ==
    \A w \in Workers : \A a \in batch[w] : \A k \in Rows : alerts[k].id = a.id =>
        \/ alerts[k].arming \in raced
        \/ /\ k = a.key
           /\ alerts[k].arming = a.arming
           /\ alerts[k].target = a.target
           /\ alerts[k].direction = a.direction

\* What a check will find at its target, or has, is reached or was set meanwhile.
HitsReached ==
    \A w \in Workers :
        /\ wpc[w] = "loop" => \A a \in batch[w] : Hit(a, prices[w][a.key[2]]) =>
              \A k \in Rows : alerts[k].id = a.id => alerts[k].arming \in reached \cup raced
        /\ \A d \in done[w] : \A k \in Rows :
              alerts[k].id = d.id => alerts[k].arming \in reached \cup raced

MarkInv == /\ TypeOK
           /\ RowsApart
           /\ HeldMade
           /\ IdleHolds
           /\ CurrentReached
           /\ ReadUnlessRaced
           /\ HitsReached
           /\ TriggeredReached

\* An arming has one row: where it shows up again, the id is the same.
OneIdPerArming ==
    /\ \A w \in Workers : \A k \in Rows :
          /\ \A a \in batch[w] : a.arming = alerts[k].arming => a.id = alerts[k].id
          /\ \A d \in done[w]  : d.arming = alerts[k].arming => d.id = alerts[k].id
    /\ \A w \in Workers : \A a, b \in batch[w] : a.arming = b.arming => a = b

\* Two checks that hold one arming have disturbed it.
SharedDisturbed ==
    \A v, w \in Workers : v # w => HeldArmings(v) \cap HeldArmings(w) \subseteq disturbed

\* What is pushed is not pushed again by the check that did, nor read by
\* another before it is marked.
PushedHeld ==
    /\ \A w \in Workers : \A a \in batch[w] : a.arming \in pushed => a.arming \in disturbed
    /\ \A k \in Rows : ~alerts[k].triggered /\ alerts[k].arming \in pushed =>
          \/ alerts[k].arming \in disturbed
          \/ \E w \in Workers : alerts[k].arming \in {d.arming : d \in done[w]}

PushInv == OneIdPerArming /\ SharedDisturbed /\ PushedHeld /\ PushedOnce

-----------------------------------------------------------------------------
(* Marks.                                                                  *)

LEMMA InitMark == Init => MarkInv
  <1> SUFFICES ASSUME Init PROVE MarkInv
    OBVIOUS
  <1>1. Rows = {}
    BY DEF Init, Rows
  <1>2. TypeOK
    <2>1. /\ sets \in 0 .. MaxSets /\ moves \in 0 .. MaxMoves /\ fails \in 0 .. MaxFails
      BY BoundAssumption DEF Init
    <2>2. prices \in [Workers -> [Codes -> Levels \cup {0}]]
      BY DEF Init, NoPrices
    <2>3. alerts \in [Keys -> Row \cup {None}]
      BY DEF Init
    <2> QED
      BY <2>1, <2>2, <2>3 DEF Init, TypeOK
  <1> QED
    BY <1>1, <1>2 DEF Init, MarkInv, RowsApart, HeldMade, IdleHolds, CurrentReached,
                      ReadUnlessRaced, HitsReached, TriggeredReached

\* A row has its fields.
LEMMA RowFields ==
    ASSUME TypeOK, NEW k \in Rows
    PROVE  /\ k \in Keys /\ k[2] \in Codes
           /\ alerts[k] \in Row
           /\ alerts[k].id \in Nat /\ alerts[k].arming \in Armings
           /\ alerts[k].arming \in Nat
           /\ alerts[k].target \in Targets /\ alerts[k].direction \in Directions
           /\ alerts[k].triggered \in BOOLEAN
  <1>1. k \in Keys /\ alerts[k] \in Row
    BY DEF Rows, TypeOK
  <1> QED
    BY <1>1 DEF Row, Keys, Armings

\* So has what a check holds.
LEMMA HeldFields ==
    ASSUME TypeOK, NEW w \in Workers
    PROVE  /\ \A a \in batch[w] : /\ a \in Alert /\ a.key \in Keys /\ a.key[2] \in Codes
                                  /\ a.id \in Nat /\ a.arming \in Armings /\ a.arming \in Nat
           /\ \A d \in done[w] : d.id \in Nat /\ d.arming \in Armings /\ d.arming \in Nat
           /\ batch[w] \in SUBSET Alert
           /\ done[w] \in SUBSET [id : Nat, arming : Armings]
           /\ prices[w] \in [Codes -> Levels \cup {0}]
  BY DEF TypeOK, Alert, Keys, Armings

LEMMA SetAlertMark ==
    ASSUME MarkInv, NEW k \in Keys, NEW t \in Targets, NEW r \in Directions,
           SetAlert(k, t, r)
    PROVE  MarkInv'
  <1> USE DEF MarkInv
  <1> DEFINE new == [id |-> IF alerts[k] = None THEN nextId ELSE alerts[k].id, target |-> t,
                     direction |-> r, triggered |-> FALSE, arming |-> sets']
  <1>1. sets \in Nat /\ sets' = sets + 1 /\ sets' \in Armings /\ sets' \in 0 .. MaxSets
    BY BoundAssumption DEF SetAlert, TypeOK, Armings
  <1>2. new \in Row /\ new # None
    <2>1. (IF alerts[k] = None THEN nextId ELSE alerts[k].id) \in Nat
      BY DEF TypeOK, Row
    <2>2. new \in Row
      BY <2>1, <1>1 DEF Row
    <2> QED
      BY <2>2, NoneAssumption
  <1>3. alerts' = [alerts EXCEPT ![k] = new]
    BY DEF SetAlert
  <1>4. /\ alerts'[k] = new
        /\ \A l \in Keys : l # k => alerts'[l] = alerts[l]
        /\ Rows' = Rows \cup {k}
    BY <1>2, <1>3 DEF TypeOK, Rows
  <1>5. nextId \in Nat /\ nextId' = nextId + 1
    BY DEF SetAlert, TypeOK
  <1>6. /\ reached \subseteq reached' /\ raced \subseteq raced'
        /\ Hit(new, price[k[2]]) => sets' \in reached'
        /\ (\E w \in Workers : new.id \in HeldIds(w)) => sets' \in raced'
        /\ reached' \in SUBSET Armings /\ raced' \in SUBSET Armings
    BY <1>1, <1>4 DEF SetAlert, Armed, TypeOK
  <1>7. UNCHANGED <<price, wpc, batch, prices, done, moves, fails, pushed, again, disturbed>>
    BY DEF SetAlert, checkVars
  <1>8. TypeOK'
    <2>1. alerts' \in [Keys -> Row \cup {None}]
      BY <1>2, <1>3 DEF TypeOK
    <2> QED
      BY <2>1, <1>1, <1>5, <1>6, <1>7 DEF TypeOK
  <1>9. RowsApart'
    <2>1. new.id < nextId' /\ new.arming <= sets'
      BY <1>1, <1>5, RowFields DEF RowsApart, Rows
    <2>2. \A l \in Rows : alerts[l].id < nextId' /\ alerts[l].arming < sets'
      BY <1>1, <1>5, RowFields DEF RowsApart
    <2>3. \A l \in Rows : l # k => new.id # alerts[l].id /\ new.arming # alerts[l].arming
      BY <1>1, <1>5, <2>2, RowFields DEF RowsApart, Rows
    <2>4. \A l \in Rows : l # k => alerts'[l] = alerts[l]
      BY <1>4 DEF Rows
    <2>5. \A l \in Rows' : alerts'[l].id < nextId' /\ alerts'[l].arming <= sets'
      BY <1>1, <1>4, <2>1, <2>2, <2>4, RowFields
    <2>6. ASSUME NEW x \in Rows', NEW y \in Rows', x # y
          PROVE  alerts'[x].id # alerts'[y].id /\ alerts'[x].arming # alerts'[y].arming
      <3>1. CASE x = k
        BY <3>1, <2>6, <2>3, <2>4, <1>4
      <3>2. CASE y = k
        BY <3>2, <2>6, <2>3, <2>4, <1>4
      <3>3. CASE x # k /\ y # k
        BY <3>3, <2>6, <2>4, <1>4 DEF RowsApart
      <3> QED
        BY <3>1, <3>2, <3>3
    <2> QED
      BY <2>5, <2>6 DEF RowsApart
  <1>10. HeldMade'
    <2>1. \A w \in Workers : /\ \A a \in batch[w] : a.arming <= sets'
                             /\ \A d \in done[w]  : d.arming <= sets'
      BY <1>1, HeldFields DEF HeldMade
    <2>2. \A x \in pushed : x <= sets'
      BY <1>1 DEF HeldMade, TypeOK, Armings
    <2> QED
      BY <2>1, <2>2, <1>7 DEF HeldMade
  <1>11. IdleHolds'
    BY <1>7 DEF IdleHolds
  <1>12. CurrentReached'
    <2> SUFFICES ASSUME NEW l \in Rows', Hit(alerts'[l], price[l[2]])
                 PROVE  alerts'[l].arming \in reached'
      BY <1>7 DEF CurrentReached, Hit
    <2>1. CASE l = k
      BY <2>1, <1>4, <1>6
    <2>2. CASE l # k
      BY <2>2, <1>4, <1>6 DEF CurrentReached, Rows
    <2> QED
      BY <2>1, <2>2
  <1>13. ASSUME NEW w \in Workers, new.id \in HeldIds(w)
         PROVE  alerts'[k].arming \in raced'
    BY <1>13, <1>4, <1>6
  <1>14. ReadUnlessRaced'
    <2> SUFFICES ASSUME NEW w \in Workers, NEW a \in batch[w], NEW l \in Rows',
                        alerts'[l].id = a.id
                 PROVE  \/ alerts'[l].arming \in raced'
                        \/ /\ l = a.key
                           /\ alerts'[l].arming = a.arming
                           /\ alerts'[l].target = a.target
                           /\ alerts'[l].direction = a.direction
      BY <1>7 DEF ReadUnlessRaced
    <2>1. CASE l = k
      BY <2>1, <1>4, <1>13 DEF HeldIds
    <2>2. CASE l # k
      BY <2>2, <1>4, <1>6 DEF ReadUnlessRaced, Rows
    <2> QED
      BY <2>1, <2>2
  <1>15. HitsReached'
    <2>1. ASSUME NEW w \in Workers, wpc[w] = "loop", NEW a \in batch[w],
                 Hit(a, prices[w][a.key[2]]), NEW l \in Rows', alerts'[l].id = a.id
          PROVE  alerts'[l].arming \in reached' \cup raced'
      <3>1. CASE l = k
        BY <3>1, <2>1, <1>4, <1>13 DEF HeldIds
      <3>2. CASE l # k
        BY <3>2, <2>1, <1>4, <1>6 DEF HitsReached, Rows
      <3> QED
        BY <3>1, <3>2
    <2>2. ASSUME NEW w \in Workers, NEW d \in done[w], NEW l \in Rows', alerts'[l].id = d.id
          PROVE  alerts'[l].arming \in reached' \cup raced'
      <3>1. CASE l = k
        BY <3>1, <2>2, <1>4, <1>13 DEF HeldIds
      <3>2. CASE l # k
        BY <3>2, <2>2, <1>4, <1>6 DEF HitsReached, Rows
      <3> QED
        BY <3>1, <3>2
    <2> QED
      BY <2>1, <2>2, <1>7 DEF HitsReached, Hit
  <1>16. TriggeredReached'
    BY <1>4, <1>6 DEF TriggeredReached, Rows
  <1> QED
    BY <1>8, <1>9, <1>10, <1>11, <1>12, <1>14, <1>15, <1>16

LEMMA CancelMark ==
    ASSUME MarkInv, NEW k \in Keys, CancelAlert(k)
    PROVE  MarkInv'
  <1> USE DEF MarkInv
  <1>1. /\ Rows' = Rows \ {k}
        /\ \A l \in Rows' : alerts'[l] = alerts[l]
        /\ alerts' \in [Keys -> Row \cup {None}]
    BY DEF CancelAlert, TypeOK, Rows
  <1>2. UNCHANGED <<nextId, price, wpc, batch, prices, done, sets, moves, fails, reached, raced,
                    pushed, again, disturbed>>
    BY DEF CancelAlert, checkVars, history
  <1>3. TypeOK'
    BY <1>1, <1>2 DEF TypeOK
  <1>4. RowsApart' /\ HeldMade' /\ IdleHolds'
    BY <1>1, <1>2 DEF RowsApart, HeldMade, IdleHolds
  <1>5. CurrentReached' /\ TriggeredReached'
    BY <1>1, <1>2 DEF CurrentReached, TriggeredReached, Hit
  <1>6. ReadUnlessRaced'
    BY <1>1, <1>2 DEF ReadUnlessRaced
  <1>7. HitsReached'
    BY <1>1, <1>2 DEF HitsReached, Hit
  <1> QED
    BY <1>3, <1>4, <1>5, <1>6, <1>7

LEMMA MovesMark ==
    ASSUME MarkInv, NEW x \in Codes, NEW p \in Levels, PriceMoves(x, p)
    PROVE  MarkInv'
  <1> USE DEF MarkInv
  <1>1. UNCHANGED <<alerts, nextId, wpc, batch, prices, done, sets, fails, raced, pushed, again,
                    disturbed>> /\ Rows' = Rows
    BY DEF PriceMoves, checkVars, Rows
  <1>2. moves' \in 0 .. MaxMoves
    BY BoundAssumption DEF PriceMoves, TypeOK
  <1>3. /\ price' \in [Codes -> Levels \cup {0}]
        /\ price'[x] = p /\ \A y \in Codes : y # x => price'[y] = price[y]
    BY DEF PriceMoves, TypeOK
  <1>4. /\ reached \subseteq reached'
        /\ \A k \in Rows : k[2] = x /\ Hit(alerts[k], p) => alerts[k].arming \in reached'
    BY DEF PriceMoves
  <1>5. reached' \in SUBSET Armings
    BY RowFields DEF PriceMoves, TypeOK
  <1>6. TypeOK'
    BY <1>1, <1>2, <1>3, <1>5 DEF TypeOK
  <1>7. RowsApart' /\ HeldMade' /\ IdleHolds'
    BY <1>1 DEF RowsApart, HeldMade, IdleHolds
  <1>8. CurrentReached'
    <2> SUFFICES ASSUME NEW k \in Rows, Hit(alerts[k], price'[k[2]])
                 PROVE  alerts[k].arming \in reached'
      BY <1>1 DEF CurrentReached, Hit
    <2>1. k[2] \in Codes
      BY RowFields
    <2> QED
      BY <2>1, <1>3, <1>4 DEF CurrentReached
  <1>9. ReadUnlessRaced' /\ TriggeredReached'
    BY <1>1, <1>4 DEF ReadUnlessRaced, TriggeredReached
  <1>10. HitsReached'
    BY <1>1, <1>4 DEF HitsReached, Hit
  <1> QED
    BY <1>6, <1>7, <1>8, <1>9, <1>10

LEMMA ReadAlertsMark ==
    ASSUME MarkInv, NEW w \in Workers, ReadAlerts(w)
    PROVE  MarkInv'
  <1> USE DEF MarkInv
  <1> DEFINE read == {[key |-> k, id |-> alerts[k].id, target |-> alerts[k].target,
                       direction |-> alerts[k].direction, arming |-> alerts[k].arming] :
                          k \in {l \in Rows : ~alerts[l].triggered}}
  <1>1. /\ wpc[w] = "idle" /\ batch' = [batch EXCEPT ![w] = read]
        /\ wpc' = [wpc EXCEPT ![w] = "prices"]
        /\ UNCHANGED <<alerts, nextId, price, prices, done, sets, moves, fails, reached, raced,
                       pushed, again>>
        /\ Rows' = Rows
    BY DEF ReadAlerts, Rows
  <1>2. disturbed' \in SUBSET Armings
    <2>1. \A k \in Rows : alerts[k].arming \in Armings
      BY RowFields
    <2> QED
      BY <2>1 DEF ReadAlerts, TypeOK
  <1>3. \A a \in read : \E k \in Rows :
            /\ a.key = k /\ a.id = alerts[k].id /\ a.target = alerts[k].target
            /\ a.direction = alerts[k].direction /\ a.arming = alerts[k].arming
    OBVIOUS
  <1>4. read \in SUBSET Alert
    <2> SUFFICES ASSUME NEW k \in Rows
                 PROVE  [key |-> k, id |-> alerts[k].id, target |-> alerts[k].target,
                         direction |-> alerts[k].direction, arming |-> alerts[k].arming] \in Alert
      OBVIOUS
    <2> QED
      BY RowFields DEF Alert
  <1>5. /\ batch'[w] = read /\ wpc'[w] = "prices" /\ done[w] = {}
        /\ \A v \in Workers : v # w => batch'[v] = batch[v] /\ wpc'[v] = wpc[v]
    BY <1>1 DEF TypeOK, IdleHolds
  <1>6. TypeOK'
    BY <1>1, <1>2, <1>4 DEF TypeOK
  <1>7. RowsApart' /\ CurrentReached' /\ TriggeredReached'
    BY <1>1 DEF RowsApart, CurrentReached, TriggeredReached, Hit
  <1>8. HeldMade'
    <2>1. \A a \in read : a.arming <= sets
      BY <1>3 DEF RowsApart
    <2> QED
      BY <2>1, <1>1, <1>5 DEF HeldMade
  <1>9. IdleHolds'
    BY <1>1, <1>5 DEF IdleHolds
  <1>10. ReadUnlessRaced'
    <2>1. ASSUME NEW a \in read, NEW l \in Rows, alerts[l].id = a.id
          PROVE  /\ l = a.key /\ alerts[l].arming = a.arming
                 /\ alerts[l].target = a.target /\ alerts[l].direction = a.direction
      BY <1>3, <2>1 DEF RowsApart
    <2> QED
      BY <2>1, <1>1, <1>5 DEF ReadUnlessRaced
  <1>11. HitsReached'
    <2>1. ASSUME NEW v \in Workers, wpc'[v] = "loop" PROVE v # w /\ wpc[v] = "loop"
      BY <2>1, <1>5
    <2> QED
      BY <2>1, <1>1, <1>5 DEF HitsReached, Hit
  <1> QED
    BY <1>6, <1>7, <1>8, <1>9, <1>10, <1>11

LEMMA ReadPricesMark ==
    ASSUME MarkInv, NEW w \in Workers, ReadPrices(w)
    PROVE  MarkInv'
  <1> USE DEF MarkInv
  <1>1. /\ wpc' = [wpc EXCEPT ![w] = "loop"] /\ prices' = [prices EXCEPT ![w] = price]
        /\ UNCHANGED <<alerts, nextId, price, batch, done, sets, moves, fails, reached, raced,
                       pushed, again, disturbed>>
        /\ wpc[w] = "prices" /\ Rows' = Rows
    BY DEF ReadPrices, history, Rows
  <1>2. TypeOK'
    BY <1>1 DEF TypeOK
  <1>3. RowsApart' /\ CurrentReached' /\ TriggeredReached' /\ HeldMade' /\ ReadUnlessRaced'
    BY <1>1 DEF RowsApart, CurrentReached, TriggeredReached, HeldMade, ReadUnlessRaced, Hit
  <1>4. /\ prices'[w] = price /\ wpc'[w] = "loop"
        /\ \A v \in Workers : v # w => prices'[v] = prices[v] /\ wpc'[v] = wpc[v]
    BY <1>1 DEF TypeOK
  <1>5. IdleHolds'
    BY <1>1, <1>4 DEF IdleHolds
  <1>6. HitsReached'
    <2>1. ASSUME NEW a \in batch[w], Hit(a, price[a.key[2]]), NEW k \in Rows, alerts[k].id = a.id
          PROVE  alerts[k].arming \in reached \cup raced
      <3>1. CASE alerts[k].arming \in raced
        BY <3>1
      <3>2. CASE alerts[k].arming \notin raced
        <4>1. k = a.key /\ alerts[k].target = a.target /\ alerts[k].direction = a.direction
          BY <2>1, <3>2 DEF ReadUnlessRaced
        <4>2. Hit(alerts[k], price[k[2]])
          BY <2>1, <4>1 DEF Hit
        <4> QED
          BY <4>2 DEF CurrentReached
      <3> QED
        BY <3>1, <3>2
    <2> QED
      BY <2>1, <1>1, <1>4 DEF HitsReached, Hit
  <1> QED
    BY <1>2, <1>3, <1>5, <1>6

LEMMA SettleMark ==
    ASSUME MarkInv, NEW w \in Workers, NEW a \in batch[w],
           Skip(w, a) \/ Push(w, a) \/ Suppress(w, a)
    PROVE  MarkInv'
  <1> USE DEF MarkInv
  <1> DEFINE d == [id |-> a.id, arming |-> a.arming]
  <1>1. /\ UNCHANGED <<alerts, nextId, price, wpc, prices, sets, moves, fails, reached, raced,
                       disturbed>>
        /\ batch' = [batch EXCEPT ![w] = @ \ {a}]
        /\ wpc[w] = "loop" /\ Rows' = Rows
        /\ \/ done' = done
           \/ /\ Hit(a, prices[w][a.key[2]])
              /\ done' = [done EXCEPT ![w] = @ \cup {d}]
    BY DEF Skip, Push, Suppress, Settle, history, Rows
  <1>2. a.id \in Nat /\ a.arming \in Armings /\ a.arming <= sets
    BY HeldFields DEF HeldMade
  <1>3. /\ \/ pushed' = pushed /\ again' = again
           \/ /\ pushed' = pushed \cup {a.arming}
              /\ again' = again \cup ({a.arming} \cap pushed)
    BY DEF Skip, Push, Suppress, history
  <1>4. /\ \A v \in Workers : batch'[v] \subseteq batch[v]
        /\ \A v \in Workers : v # w => done'[v] = done[v]
        /\ \/ done'[w] = done[w]
           \/ Hit(a, prices[w][a.key[2]]) /\ done'[w] = done[w] \cup {d}
    BY <1>1 DEF TypeOK
  <1>5. TypeOK'
    <2>1. batch' \in [Workers -> SUBSET Alert]
      BY <1>1 DEF TypeOK
    <2>2. done' \in [Workers -> SUBSET [id : Nat, arming : Armings]]
      <3>1. d \in [id : Nat, arming : Armings]
        BY <1>2
      <3> QED
        BY <3>1, <1>1 DEF TypeOK
    <2>3. pushed' \in SUBSET Armings /\ again' \in SUBSET pushed'
      BY <1>2, <1>3 DEF TypeOK
    <2> QED
      BY <2>1, <2>2, <2>3, <1>1 DEF TypeOK
  <1>6. RowsApart' /\ CurrentReached' /\ TriggeredReached'
    BY <1>1 DEF RowsApart, CurrentReached, TriggeredReached, Hit
  <1>7. HeldMade'
    BY <1>1, <1>2, <1>3, <1>4 DEF HeldMade
  <1>8. IdleHolds'
    BY <1>1, <1>4 DEF IdleHolds
  <1>9. ReadUnlessRaced'
    BY <1>1, <1>4 DEF ReadUnlessRaced
  <1>10. HitsReached'
    <2>1. ASSUME Hit(a, prices[w][a.key[2]]), NEW k \in Rows, alerts[k].id = a.id
          PROVE  alerts[k].arming \in reached \cup raced
      BY <2>1, <1>1 DEF HitsReached
    <2>2. ASSUME NEW v \in Workers, NEW e \in done'[v], NEW k \in Rows, alerts[k].id = e.id
          PROVE  alerts[k].arming \in reached \cup raced
      <3>1. CASE e \in done[v]
        BY <3>1, <2>2 DEF HitsReached
      <3>2. CASE e \notin done[v]
        <4>1. e = d /\ Hit(a, prices[w][a.key[2]])
          BY <3>2, <1>4
        <4> QED
          BY <4>1, <2>1, <2>2
      <3> QED
        BY <3>1, <3>2
    <2>3. ASSUME NEW v \in Workers, wpc[v] = "loop", NEW b \in batch'[v],
                 Hit(b, prices[v][b.key[2]]), NEW k \in Rows, alerts[k].id = b.id
          PROVE  alerts[k].arming \in reached \cup raced
      BY <2>3, <1>4 DEF HitsReached
    <2> QED
      BY <2>2, <2>3, <1>1 DEF HitsReached, Hit
  <1> QED
    BY <1>5, <1>6, <1>7, <1>8, <1>9, <1>10

LEMMA EndMark ==
    ASSUME MarkInv, NEW w \in Workers, Mark(w) \/ Fail(w)
    PROVE  MarkInv'
  <1> USE DEF MarkInv
  <1> DEFINE ids == {d.id : d \in done[w]}
  <1>1. /\ UNCHANGED <<nextId, price, sets, moves, reached, raced, pushed, again>>
        /\ wpc' = [wpc EXCEPT ![w] = "idle"] /\ batch' = [batch EXCEPT ![w] = {}]
        /\ prices' = [prices EXCEPT ![w] = NoPrices] /\ done' = [done EXCEPT ![w] = {}]
    BY DEF Mark, Fail, EndCheck, history
  <1>2. fails' \in 0 .. MaxFails /\ disturbed' \in SUBSET Armings
    BY HeldFields, BoundAssumption DEF Mark, Fail, history, TypeOK
  <1>3. /\ alerts' \in [Keys -> Row \cup {None}] /\ Rows' = Rows
        /\ \A k \in Rows :
              /\ alerts'[k].id = alerts[k].id /\ alerts'[k].arming = alerts[k].arming
              /\ alerts'[k].target = alerts[k].target
              /\ alerts'[k].direction = alerts[k].direction
              /\ alerts'[k].triggered => alerts[k].triggered \/ alerts[k].id \in ids
    <2>1. CASE Fail(w)
      BY <2>1 DEF Fail, TypeOK, Rows
    <2>2. CASE Mark(w)
      <3>1. alerts' = [k \in Keys |-> IF k \in Rows /\ alerts[k].id \in ids
                                 THEN [alerts[k] EXCEPT !.triggered = TRUE] ELSE alerts[k]]
        BY <2>2 DEF Mark
      <3>2. \A k \in Rows : /\ alerts[k] \in Row
                            /\ [alerts[k] EXCEPT !.triggered = TRUE] \in Row
        BY RowFields DEF Row
      <3>3. \A k \in Keys : alerts[k] \in Row \cup {None}
        BY DEF TypeOK
      <3>4. \A k \in Keys : k \notin Rows => alerts[k] = None
        BY DEF Rows
      <3>5. \A k \in Keys : alerts'[k] \in Row \cup {None}
        BY <3>1, <3>2, <3>3
      <3>6. alerts' \in [Keys -> Row \cup {None}]
        BY <3>1, <3>5
      <3>7. \A k \in Rows : alerts'[k] \in Row /\ alerts'[k] # None
        BY <3>1, <3>2, NoneAssumption DEF Rows
      <3>8. \A k \in Keys \ Rows : alerts'[k] = None
        BY <3>1, <3>4
      <3>9. Rows' = Rows
        BY <3>7, <3>8 DEF Rows
      <3>10. ASSUME NEW k \in Rows
             PROVE  /\ alerts'[k].id = alerts[k].id /\ alerts'[k].arming = alerts[k].arming
                    /\ alerts'[k].target = alerts[k].target
                    /\ alerts'[k].direction = alerts[k].direction
                    /\ alerts'[k].triggered => alerts[k].triggered \/ alerts[k].id \in ids
        BY <3>1, <3>2 DEF Row, Rows
      <3> QED
        BY <3>6, <3>9, <3>10
    <2> QED
      BY <2>1, <2>2
  <1>4. /\ wpc'[w] = "idle" /\ batch'[w] = {} /\ done'[w] = {}
        /\ \A v \in Workers : v # w => /\ wpc'[v] = wpc[v] /\ batch'[v] = batch[v]
                                       /\ done'[v] = done[v] /\ prices'[v] = prices[v]
    BY <1>1 DEF TypeOK
  <1>5. TypeOK'
    BY <1>1, <1>2, <1>3 DEF TypeOK, NoPrices
  <1>6. RowsApart'
    BY <1>1, <1>3 DEF RowsApart
  <1>7. HeldMade' /\ IdleHolds'
    BY <1>1, <1>4 DEF HeldMade, IdleHolds
  <1>8. CurrentReached'
    BY <1>1, <1>3 DEF CurrentReached, Hit
  <1>9. ReadUnlessRaced'
    BY <1>1, <1>3, <1>4 DEF ReadUnlessRaced
  <1>10. HitsReached'
    BY <1>1, <1>3, <1>4 DEF HitsReached, Hit
  <1>11. TriggeredReached'
    BY <1>1, <1>3 DEF TriggeredReached, HitsReached
  <1> QED
    BY <1>5, <1>6, <1>7, <1>8, <1>9, <1>10, <1>11

LEMMA MarkStep == MarkInv /\ [Next]_vars => MarkInv'
  <1> SUFFICES ASSUME MarkInv, [Next]_vars PROVE MarkInv'
    OBVIOUS
  <1>1. ASSUME NEW k \in Keys, NEW t \in Targets, NEW r \in Directions, SetAlert(k, t, r)
        PROVE  MarkInv'
    BY <1>1, SetAlertMark
  <1>2. ASSUME NEW k \in Keys, CancelAlert(k) PROVE MarkInv'
    BY <1>2, CancelMark
  <1>3. ASSUME NEW x \in Codes, NEW p \in Levels, PriceMoves(x, p) PROVE MarkInv'
    BY <1>3, MovesMark
  <1>4. ASSUME NEW w \in Workers, ReadAlerts(w) \/ ReadPrices(w) \/ Mark(w) \/ Fail(w)
        PROVE  MarkInv'
    BY <1>4, ReadAlertsMark, ReadPricesMark, EndMark
  <1>5. ASSUME NEW w \in Workers, NEW a \in batch[w],
               Skip(w, a) \/ Push(w, a) \/ Suppress(w, a)
        PROVE  MarkInv'
    BY <1>5, SettleMark
  <1>6. CASE UNCHANGED vars
    BY <1>6 DEF vars, checkVars, history, MarkInv, TypeOK, RowsApart, HeldMade, IdleHolds,
                CurrentReached, ReadUnlessRaced, HitsReached, TriggeredReached, Rows, Hit
  <1> QED
    BY <1>1, <1>2, <1>3, <1>4, <1>5, <1>6 DEF Next

\* The table and the locals of the checks keep their types.
THEOREM TypeCorrect == Spec => []TypeOK
  <1>1. MarkInv => TypeOK
    BY DEF MarkInv
  <1> QED
    BY <1>1, InitMark, MarkStep, PTL DEF Spec

\* An alert is marked triggered only when its price has reached its target
\* since it was set, or when it was set under a running check that held its id.
THEOREM MarksAreTrue == Spec => []TriggeredReached
  <1>1. MarkInv => TriggeredReached
    BY DEF MarkInv
  <1> QED
    BY <1>1, InitMark, MarkStep, PTL DEF Spec

-----------------------------------------------------------------------------
(* Pushes.                                                                 *)

LEMMA InitPush == Init => PushInv
  BY DEF Init, PushInv, OneIdPerArming, SharedDisturbed, PushedHeld, PushedOnce, HeldArmings, Rows

\* A step that changes neither pushes nor what is disturbed, takes nothing new
\* into a check, and makes no row fit to be read that was not.
LEMMA QuietPush ==
    ASSUME MarkInv, PushInv,
           UNCHANGED <<batch, done, pushed, again, disturbed>>,
           \A k \in Rows' : /\ k \in Rows
                            /\ alerts'[k].id = alerts[k].id
                            /\ alerts'[k].arming = alerts[k].arming
                            /\ alerts'[k].triggered = alerts[k].triggered
    PROVE  PushInv'
  <1>1. OneIdPerArming'
    BY DEF PushInv, OneIdPerArming
  <1>2. SharedDisturbed' /\ PushedOnce'
    BY DEF PushInv, SharedDisturbed, HeldArmings, PushedOnce
  <1>3. PushedHeld'
    BY DEF PushInv, PushedHeld
  <1> QED
    BY <1>1, <1>2, <1>3 DEF PushInv

LEMMA SetAlertPush ==
    ASSUME MarkInv, PushInv, NEW k \in Keys, NEW t \in Targets, NEW r \in Directions,
           SetAlert(k, t, r)
    PROVE  PushInv'
  <1>1. /\ UNCHANGED <<batch, done, pushed, again, disturbed>>
        /\ sets \in Nat /\ sets' = sets + 1 /\ TypeOK
    BY DEF SetAlert, checkVars, MarkInv, TypeOK
  <1>2. /\ alerts'[k].arming = sets'
        /\ \A l \in Keys : l # k => alerts'[l] = alerts[l]
    BY DEF SetAlert, MarkInv, TypeOK
  <1>3. /\ sets' \notin pushed
        /\ \A w \in Workers : /\ \A a \in batch[w] : a.arming # sets'
                              /\ \A d \in done[w] : d.arming # sets'
    <2>1. pushed \subseteq Nat
      BY DEF MarkInv, TypeOK, Armings
    <2> QED
      BY <2>1, <1>1, HeldFields DEF MarkInv, HeldMade
  <1>4. OneIdPerArming'
    <2>1. ASSUME NEW w \in Workers, NEW l \in Rows'
          PROVE  /\ \A a \in batch[w] : a.arming = alerts'[l].arming => a.id = alerts'[l].id
                 /\ \A d \in done[w]  : d.arming = alerts'[l].arming => d.id = alerts'[l].id
      <3>1. CASE l = k
        BY <3>1, <1>2, <1>3
      <3>2. CASE l # k
        BY <3>2, <1>2 DEF PushInv, OneIdPerArming, Rows
      <3> QED
        BY <3>1, <3>2
    <2> QED
      BY <2>1, <1>1 DEF PushInv, OneIdPerArming
  <1>5. SharedDisturbed' /\ PushedOnce'
    BY <1>1 DEF PushInv, SharedDisturbed, HeldArmings, PushedOnce
  <1>6. PushedHeld'
    <2>1. ASSUME NEW l \in Rows', ~alerts'[l].triggered, alerts'[l].arming \in pushed
          PROVE  \/ alerts'[l].arming \in disturbed
                 \/ \E w \in Workers : alerts'[l].arming \in {d.arming : d \in done[w]}
      <3>1. l # k
        BY <2>1, <1>2, <1>3
      <3> QED
        BY <3>1, <2>1, <1>2 DEF PushInv, PushedHeld, Rows
    <2> QED
      BY <2>1, <1>1 DEF PushInv, PushedHeld
  <1> QED
    BY <1>4, <1>5, <1>6 DEF PushInv

LEMMA ReadAlertsPush ==
    ASSUME MarkInv, PushInv, NEW w \in Workers, ReadAlerts(w)
    PROVE  PushInv'
  <1> DEFINE read == {[key |-> k, id |-> alerts[k].id, target |-> alerts[k].target,
                       direction |-> alerts[k].direction, arming |-> alerts[k].arming] :
                          k \in {l \in Rows : ~alerts[l].triggered}}
  <1>1. /\ wpc[w] = "idle" /\ batch' = [batch EXCEPT ![w] = read]
        /\ UNCHANGED <<alerts, done, pushed, again>>
        /\ disturbed' = disturbed \cup ({a.arming : a \in read}
                            \cap UNION {HeldArmings(v) : v \in Workers \ {w}})
        /\ Rows' = Rows
    BY DEF ReadAlerts, Rows
  <1>2. \A a \in read : \E k \in Rows :
            /\ a.key = k /\ a.id = alerts[k].id /\ a.target = alerts[k].target
            /\ a.direction = alerts[k].direction /\ a.arming = alerts[k].arming
            /\ ~alerts[k].triggered
    OBVIOUS
  <1>3. /\ batch'[w] = read /\ done'[w] = {}
        /\ \A v \in Workers : v # w => batch'[v] = batch[v]
        /\ \A v \in Workers : done'[v] = done[v]
    BY <1>1 DEF MarkInv, TypeOK, IdleHolds
  <1>4. \A a \in read : \A v \in Workers \ {w} :
            a.arming \in HeldArmings(v) => a.arming \in disturbed'
    BY <1>1
  <1>5. OneIdPerArming'
    <2>1. \A a \in read : \A l \in Rows : a.arming = alerts[l].arming => a.id = alerts[l].id
      BY <1>2 DEF MarkInv, RowsApart
    <2>2. ASSUME NEW a \in read, NEW b \in read, a.arming = b.arming
          PROVE  a = b
      <3>1. PICK k \in Rows : a = [key |-> k, id |-> alerts[k].id, target |-> alerts[k].target,
                       direction |-> alerts[k].direction, arming |-> alerts[k].arming]
        OBVIOUS
      <3>2. PICK l \in Rows : b = [key |-> l, id |-> alerts[l].id, target |-> alerts[l].target,
                       direction |-> alerts[l].direction, arming |-> alerts[l].arming]
        OBVIOUS
      <3>3. alerts[k].arming = alerts[l].arming
        BY <2>2, <3>1, <3>2
      <3>4. k = l
        BY <3>3 DEF MarkInv, RowsApart
      <3> QED
        BY <3>1, <3>2, <3>4
    <2> QED
      BY <2>1, <2>2, <1>1, <1>3 DEF PushInv, OneIdPerArming
  <1>6. SharedDisturbed'
    <2> SUFFICES ASSUME NEW u \in Workers, NEW v \in Workers, u # v,
                        NEW x \in HeldArmings(u)' \cap HeldArmings(v)'
                 PROVE  x \in disturbed'
      BY DEF SharedDisturbed
    <2>1. \A y \in Workers \ {w} : HeldArmings(y)' = HeldArmings(y)
      BY <1>3 DEF HeldArmings
    <2>2. HeldArmings(w)' = {a.arming : a \in read}
      BY <1>3 DEF HeldArmings
    <2>3. CASE u = w
      BY <2>1, <2>2, <2>3, <1>4
    <2>4. CASE v = w
      BY <2>1, <2>2, <2>4, <1>4
    <2>5. CASE u # w /\ v # w
      BY <2>1, <2>5, <1>1 DEF PushInv, SharedDisturbed
    <2> QED
      BY <2>3, <2>4, <2>5
  <1>7. PushedHeld'
    <2>1. ASSUME NEW a \in read, a.arming \in pushed
          PROVE  a.arming \in disturbed'
      <3>1. \/ a.arming \in disturbed
            \/ \E v \in Workers : a.arming \in {d.arming : d \in done[v]}
        BY <1>2, <2>1 DEF PushInv, PushedHeld
      <3>2. ASSUME NEW v \in Workers, a.arming \in {d.arming : d \in done[v]}
            PROVE  a.arming \in disturbed'
        <4>1. v # w
          BY <3>2, <1>1 DEF MarkInv, IdleHolds
        <4> QED
          BY <4>1, <3>2, <1>4 DEF HeldArmings
      <3> QED
        BY <3>1, <3>2, <1>1
    <2> QED
      BY <2>1, <1>1, <1>3 DEF PushInv, PushedHeld
  <1>8. PushedOnce'
    BY <1>1 DEF PushInv, PushedOnce
  <1> QED
    BY <1>5, <1>6, <1>7, <1>8 DEF PushInv

LEMMA SettlePush ==
    ASSUME MarkInv, PushInv, NEW w \in Workers, NEW a \in batch[w],
           Skip(w, a) \/ Push(w, a) \/ Suppress(w, a)
    PROVE  PushInv'
  <1> DEFINE d == [id |-> a.id, arming |-> a.arming]
  <1>1. /\ UNCHANGED <<alerts, disturbed>>
        /\ batch' = [batch EXCEPT ![w] = @ \ {a}]
        /\ Rows' = Rows
        /\ done' = done \/ done' = [done EXCEPT ![w] = @ \cup {d}]
    BY DEF Skip, Push, Suppress, Settle, history, Rows
  <1>2. \/ pushed' = pushed /\ again' = again
        \/ /\ pushed' = pushed \cup {a.arming}
           /\ again' = again \cup ({a.arming} \cap pushed)
           /\ done' = [done EXCEPT ![w] = @ \cup {d}]
    BY DEF Skip, Push, Suppress, Settle, history
  <1>3. /\ batch'[w] = batch[w] \ {a}
        /\ \A v \in Workers : v # w => batch'[v] = batch[v] /\ done'[v] = done[v]
        /\ done'[w] = done[w] \/ done'[w] = done[w] \cup {d}
        /\ pushed' # pushed => d \in done'[w]
    BY <1>1, <1>2 DEF MarkInv, TypeOK
  <1>4. /\ \A v \in Workers : HeldArmings(v)' \subseteq HeldArmings(v)
        /\ a.arming \in HeldArmings(w)
    <2>1. HeldArmings(w)' \subseteq HeldArmings(w)
      BY <1>3 DEF HeldArmings
    <2>2. \A v \in Workers : v # w => HeldArmings(v)' = HeldArmings(v)
      BY <1>3 DEF HeldArmings
    <2>3. a.arming \in HeldArmings(w)
      BY DEF HeldArmings
    <2> QED
      BY <2>1, <2>2, <2>3
  <1>5. OneIdPerArming'
    <2>1. \A v \in Workers : batch'[v] \subseteq batch[v]
      BY <1>3
    <2>2. \A v \in Workers : \A e \in done'[v] : e \in done[v] \/ (v = w /\ e = d)
      BY <1>3
    <2> QED
      BY <2>1, <2>2, <1>1 DEF PushInv, OneIdPerArming
  <1>6. SharedDisturbed'
    BY <1>1, <1>4 DEF PushInv, SharedDisturbed
  <1>7. ASSUME NEW v \in Workers, NEW b \in batch'[v], b.arming \in pushed'
        PROVE  b.arming \in disturbed
    <2>1. b \in batch[v]
      BY <1>3
    <2>2. CASE b.arming \in pushed
      BY <2>1, <2>2 DEF PushInv, PushedHeld
    <2>3. CASE b.arming \notin pushed
      <3>1. b.arming = a.arming
        BY <2>3, <1>7, <1>2
      <3>2. v # w
        BY <3>1, <1>3, <2>1 DEF PushInv, OneIdPerArming
      <3>3. b.arming \in HeldArmings(v)
        BY <2>1 DEF HeldArmings
      <3> QED
        BY <3>1, <3>2, <3>3, <1>4 DEF PushInv, SharedDisturbed
    <2> QED
      BY <2>2, <2>3
  <1>8. PushedHeld'
    <2>1. ASSUME NEW k \in Rows, ~alerts[k].triggered, alerts[k].arming \in pushed'
          PROVE  \/ alerts[k].arming \in disturbed
                 \/ \E v \in Workers : alerts[k].arming \in {e.arming : e \in done'[v]}
      <3>1. CASE alerts[k].arming \in pushed
        <4>1. \A v \in Workers : done[v] \subseteq done'[v]
          BY <1>3
        <4> QED
          BY <4>1, <3>1, <2>1 DEF PushInv, PushedHeld
      <3>2. CASE alerts[k].arming \notin pushed
        <4>1. alerts[k].arming = d.arming /\ d \in done'[w]
          BY <3>2, <2>1, <1>2, <1>3
        <4> QED
          BY <4>1
      <3> QED
        BY <3>1, <3>2
    <2> QED
      BY <2>1, <1>7, <1>1 DEF PushedHeld
  <1>9. PushedOnce'
    <2>1. a.arming \in pushed => a.arming \in disturbed
      BY DEF PushInv, PushedHeld
    <2> QED
      BY <2>1, <1>1, <1>2 DEF PushInv, PushedOnce
  <1> QED
    BY <1>5, <1>6, <1>8, <1>9 DEF PushInv

LEMMA EndPush ==
    ASSUME MarkInv, PushInv, NEW w \in Workers, Mark(w) \/ Fail(w)
    PROVE  PushInv'
  <1>1. /\ UNCHANGED <<pushed, again>>
        /\ batch' = [batch EXCEPT ![w] = {}] /\ done' = [done EXCEPT ![w] = {}]
    BY DEF Mark, Fail, EndCheck, history
  <1>2. /\ batch'[w] = {} /\ done'[w] = {}
        /\ \A v \in Workers : v # w => batch'[v] = batch[v] /\ done'[v] = done[v]
    BY <1>1 DEF MarkInv, TypeOK
  <1>3. disturbed \subseteq disturbed'
    BY DEF Mark, Fail, history
  <1>4. \A k \in Rows' :
            /\ k \in Rows
            /\ alerts'[k].id = alerts[k].id /\ alerts'[k].arming = alerts[k].arming
            /\ ~alerts'[k].triggered =>
                  /\ ~alerts[k].triggered
                  /\ \A d \in done[w] : d.arming = alerts[k].arming => d.arming \in disturbed'
    <2>1. CASE Fail(w)
      BY <2>1 DEF Fail, Rows
    <2>2. CASE Mark(w)
      <3> SUFFICES ASSUME NEW k \in Rows'
                   PROVE  /\ k \in Rows
                          /\ alerts'[k].id = alerts[k].id
                          /\ alerts'[k].arming = alerts[k].arming
                          /\ ~alerts'[k].triggered =>
                                /\ ~alerts[k].triggered
                                /\ \A d \in done[w] : d.arming # alerts[k].arming
        OBVIOUS
      <3>1. alerts'[k] = IF k \in Rows /\ alerts[k].id \in {d.id : d \in done[w]}
                         THEN [alerts[k] EXCEPT !.triggered = TRUE] ELSE alerts[k]
        BY <2>2 DEF Mark, Rows
      <3>2. k \in Rows
        BY <3>1 DEF Rows
      <3>3. alerts[k] \in Row
        BY <3>2, RowFields DEF MarkInv
      <3>4. CASE alerts[k].id \in {d.id : d \in done[w]}
        BY <3>1, <3>2, <3>3, <3>4 DEF Row
      <3>5. CASE alerts[k].id \notin {d.id : d \in done[w]}
        BY <3>1, <3>2, <3>5 DEF PushInv, OneIdPerArming
      <3> QED
        BY <3>4, <3>5
    <2> QED
      BY <2>1, <2>2
  <1>5. OneIdPerArming'
    BY <1>2, <1>4 DEF PushInv, OneIdPerArming
  <1>6. SharedDisturbed'
    <2>1. \A v \in Workers : HeldArmings(v)' \subseteq HeldArmings(v)
      BY <1>2 DEF HeldArmings
    <2> QED
      BY <2>1, <1>3 DEF PushInv, SharedDisturbed
  <1>7. PushedHeld'
    <2>1. ASSUME NEW k \in Rows', ~alerts'[k].triggered, alerts'[k].arming \in pushed
          PROVE  \/ alerts'[k].arming \in disturbed'
                 \/ \E v \in Workers : alerts'[k].arming \in {d.arming : d \in done'[v]}
      <3>1. \/ alerts[k].arming \in disturbed
            \/ \E v \in Workers : alerts[k].arming \in {d.arming : d \in done[v]}
        BY <2>1, <1>4 DEF PushInv, PushedHeld
      <3>2. ASSUME NEW v \in Workers, alerts[k].arming \in {d.arming : d \in done[v]}
            PROVE  \/ alerts'[k].arming \in disturbed'
                   \/ alerts'[k].arming \in {d.arming : d \in done'[v]}
        <4>1. CASE v = w
          BY <4>1, <3>2, <2>1, <1>4
        <4>2. CASE v # w
          BY <4>2, <3>2, <1>2, <1>4
        <4> QED
          BY <4>1, <4>2
      <3> QED
        BY <3>1, <3>2, <1>3, <1>4
    <2> QED
      BY <2>1, <1>1, <1>2, <1>3 DEF PushInv, PushedHeld
  <1>8. PushedOnce'
    BY <1>1, <1>3 DEF PushInv, PushedOnce
  <1> QED
    BY <1>5, <1>6, <1>7, <1>8 DEF PushInv

LEMMA PushStep == MarkInv /\ PushInv /\ [Next]_vars => PushInv'
  <1> SUFFICES ASSUME MarkInv, PushInv, [Next]_vars PROVE PushInv'
    OBVIOUS
  <1>1. ASSUME NEW k \in Keys, NEW t \in Targets, NEW r \in Directions, SetAlert(k, t, r)
        PROVE  PushInv'
    BY <1>1, SetAlertPush
  <1>2. ASSUME NEW k \in Keys, CancelAlert(k) PROVE PushInv'
    <2>1. UNCHANGED <<batch, done, pushed, again, disturbed>>
      BY <1>2 DEF CancelAlert, checkVars, history
    <2>2. \A l \in Rows' : l \in Rows /\ alerts'[l] = alerts[l]
      BY <1>2 DEF CancelAlert, Rows, MarkInv, TypeOK
    <2> QED
      BY <2>1, <2>2, QuietPush
  <1>3. ASSUME NEW x \in Codes, NEW p \in Levels, PriceMoves(x, p) PROVE PushInv'
    <2>1. UNCHANGED <<alerts, batch, done, pushed, again, disturbed>> /\ Rows' = Rows
      BY <1>3 DEF PriceMoves, checkVars, Rows
    <2> QED
      BY <2>1, QuietPush
  <1>4. ASSUME NEW w \in Workers, ReadPrices(w) PROVE PushInv'
    <2>1. UNCHANGED <<alerts, batch, done, pushed, again, disturbed>> /\ Rows' = Rows
      BY <1>4 DEF ReadPrices, history, Rows
    <2> QED
      BY <2>1, QuietPush
  <1>5. ASSUME NEW w \in Workers, ReadAlerts(w) \/ Mark(w) \/ Fail(w) PROVE PushInv'
    BY <1>5, ReadAlertsPush, EndPush
  <1>6. ASSUME NEW w \in Workers, NEW a \in batch[w],
               Skip(w, a) \/ Push(w, a) \/ Suppress(w, a)
        PROVE  PushInv'
    BY <1>6, SettlePush
  <1>7. CASE UNCHANGED vars
    <2>1. UNCHANGED <<alerts, batch, done, pushed, again, disturbed>> /\ Rows' = Rows
      BY <1>7 DEF vars, checkVars, history, Rows
    <2> QED
      BY <2>1, QuietPush
  <1> QED
    BY <1>1, <1>2, <1>3, <1>4, <1>5, <1>6, <1>7 DEF Next

\* No arming is pushed twice unless two checks held it at the same time or a
\* check failed between its push and its commit.
THEOREM OnePushPerArming == Spec => []PushedOnce
  <1>1. PushInv => PushedOnce
    BY DEF PushInv
  <1>2. Spec => []MarkInv
    BY InitMark, MarkStep, PTL DEF Spec
  <1> QED
    BY <1>1, <1>2, InitPush, PushStep, PTL DEF Spec
=============================================================================
