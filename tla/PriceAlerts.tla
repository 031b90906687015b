----------------------------- MODULE PriceAlerts -----------------------------
(***************************************************************************)
(* Price alerts (services/price_alerts.py): the table price_alerts, one    *)
(* row per (token, code), which clients set and cancel, and the check that *)
(* every worker process starts after a price refresh.  A check reads the   *)
(* alerts, then the prices, then pushes one message after the other, and   *)
(* only then marks in one transaction, by id, what it has dealt with.      *)
(* _BG_ALERT_LOCK allows one check per process.                            *)
(*                                                                         *)
(* An arming is one call of set_price_alert; the row remembers its number, *)
(* which the table does not have.  The preference and the outcome of a     *)
(* push are left open: both only decide whether a message goes out.        *)
(***************************************************************************)
EXTENDS Naturals

CONSTANTS Workers,   \* worker processes
          Tokens,    \* devices
          Codes,     \* stock codes
          Levels,    \* prices
          Targets,   \* target prices
          MaxSets,   \* bound: calls of set_price_alert
          MaxMoves,  \* bound: changes of price_today
          MaxFails,  \* bound: checks that do not come to their end
          None       \* Python's None

Keys       == Tokens \X Codes
Directions == {"above", "below"}
Armings    == 1 .. MaxSets
Row   == [id : Nat, target : Targets, direction : Directions, triggered : BOOLEAN,
          arming : Armings]
Alert == [key : Keys, id : Nat, target : Targets, direction : Directions, arming : Armings]

ASSUME LevelAssumption == Levels \subseteq Nat \ {0} /\ Targets \subseteq Nat \ {0}
ASSUME BoundAssumption == MaxSets \in Nat /\ MaxMoves \in Nat /\ MaxFails \in Nat
ASSUME NoneAssumption  == None \notin Row

VARIABLES
    alerts,   \* alerts[k]: the row of key k, or None
    nextId,   \* the sequence of price_alerts.id
    price,    \* price[x]: price_today.current_price, 0 when there is none
    wpc,      \* where the check of each worker is
    batch,    \* batch[w]: alerts it has still to go through
    prices,   \* prices[w]: the prices it read
    done,     \* done[w]: triggered_ids
    sets, moves, fails, \* bounds
    \* history, by arming
    reached,  \* its price has reached the target since it was set
    raced,    \* set while a check held the row's id
    pushed, again, \* pushed once; more than once
    disturbed \* held by two checks at a time, or by one that failed after its push

checkVars == <<wpc, batch, prices, done>>
history   == <<reached, raced, pushed, again, disturbed>>
vars == <<alerts, nextId, price, checkVars, sets, moves, fails, history>>

TypeOK ==
    /\ alerts \in [Keys -> Row \cup {None}]
    /\ nextId \in Nat
    /\ price \in [Codes -> Levels \cup {0}]
    /\ wpc \in [Workers -> {"idle", "prices", "loop"}]
    /\ batch \in [Workers -> SUBSET Alert]
    /\ prices \in [Workers -> [Codes -> Levels \cup {0}]]
    /\ done \in [Workers -> SUBSET [id : Nat, arming : Armings]]
    /\ sets \in 0 .. MaxSets /\ moves \in 0 .. MaxMoves /\ fails \in 0 .. MaxFails
    /\ reached \in SUBSET Armings /\ raced \in SUBSET Armings
    /\ pushed \in SUBSET Armings /\ again \in SUBSET pushed /\ disturbed \in SUBSET Armings

NoPrices == [x \in Codes |-> 0]

\* The table has its unique constraint: from then on what
\* _ensure_price_alerts_table does in a process is rolled back, for adding it
\* once more fails.
Init ==
    /\ alerts = [k \in Keys |-> None] /\ nextId = 1
    /\ price \in [Codes -> Levels \cup {0}]
    /\ wpc = [w \in Workers |-> "idle"]
    /\ batch = [w \in Workers |-> {}] /\ done = [w \in Workers |-> {}]
    /\ prices = [w \in Workers |-> NoPrices]
    /\ sets = 0 /\ moves = 0 /\ fails = 0
    /\ reached = {} /\ raced = {} /\ pushed = {} /\ again = {} /\ disturbed = {}

-----------------------------------------------------------------------------
\* hit, and a price to compare at all.
Hit(a, p) ==
    /\ p # 0
    /\ \/ a.direction = "above" /\ p >= a.target
       \/ a.direction = "below" /\ p <= a.target

Rows == {k \in Keys : alerts[k] # None}

\* What the check of w has read and not yet settled.
HeldIds(w)     == {a.id : a \in batch[w]} \cup {d.id : d \in done[w]}
HeldArmings(w) == {a.arming : a \in batch[w]} \cup {d.arming : d \in done[w]}

-----------------------------------------------------------------------------
(* Clients and prices.                                                     *)

\* History of arming sets' of k at price p.
Armed(k, p) ==
    /\ reached' = IF Hit(alerts'[k], p) THEN reached \cup {sets'} ELSE reached
    /\ raced' = IF \E w \in Workers : alerts'[k].id \in HeldIds(w)
                THEN raced \cup {sets'} ELSE raced

\* Mutant: ON CONFLICT leaves triggered as it is.
SetAlertKeepTriggered(k, target, direction) ==
    /\ sets < MaxSets
    /\ sets' = sets + 1
    /\ alerts' = [alerts EXCEPT ![k] =
          [id |-> IF @ = None THEN nextId ELSE @.id, target |-> target,
           direction |-> direction, triggered |-> IF @ = None THEN FALSE ELSE @.triggered,
           arming |-> sets']]
    /\ nextId' = nextId + 1
    /\ Armed(k, price[k[2]])
    /\ UNCHANGED <<price, checkVars, moves, fails, pushed, again, disturbed>>

\* set_price_alert: ON CONFLICT keeps the id and resets triggered; the
\* sequence advances either way.
SetAlert(k, target, direction) ==
    /\ sets < MaxSets
    /\ sets' = sets + 1
    /\ alerts' = [alerts EXCEPT ![k] =
          [id |-> IF @ = None THEN nextId ELSE @.id, target |-> target,
           direction |-> direction, triggered |-> FALSE, arming |-> sets']]
    /\ nextId' = nextId + 1
    /\ Armed(k, price[k[2]])
    /\ UNCHANGED <<price, checkVars, moves, fails, pushed, again, disturbed>>

CancelAlert(k) ==
    /\ alerts[k] # None
    /\ alerts' = [alerts EXCEPT ![k] = None]
    /\ UNCHANGED <<nextId, price, checkVars, sets, moves, fails, history>>

\* A refresh, by whichever worker, writes another price.
PriceMoves(x, p) ==
    /\ moves < MaxMoves
    /\ price[x] # p
    /\ moves' = moves + 1
    /\ price' = [price EXCEPT ![x] = p]
    /\ reached' = reached \cup {alerts[k].arming : k \in {l \in Rows :
                                    l[2] = x /\ Hit(alerts[l], p)}}
    /\ UNCHANGED <<alerts, nextId, checkVars, sets, fails, raced, pushed, again, disturbed>>

-----------------------------------------------------------------------------
(* _bg_check_price_alerts                                                  *)

\* The lock taken, the alerts read: .. WHERE triggered=0.
ReadAlerts(w) ==
    LET rows == {k \in Rows : ~alerts[k].triggered}
        read == {[key |-> k, id |-> alerts[k].id, target |-> alerts[k].target,
                  direction |-> alerts[k].direction, arming |-> alerts[k].arming] : k \in rows}
    IN  /\ wpc[w] = "idle"
        /\ read # {}
        /\ batch' = [batch EXCEPT ![w] = read]
        /\ wpc' = [wpc EXCEPT ![w] = "prices"]
        /\ disturbed' = disturbed \cup ({a.arming : a \in read}
                            \cap UNION {HeldArmings(v) : v \in Workers \ {w}})
        /\ UNCHANGED <<alerts, nextId, price, prices, done, sets, moves, fails,
                       reached, raced, pushed, again>>

\* The prices, by a query of their own.
ReadPrices(w) ==
    /\ wpc[w] = "prices"
    /\ wpc' = [wpc EXCEPT ![w] = "loop"]
    /\ prices' = [prices EXCEPT ![w] = price]
    /\ UNCHANGED <<alerts, nextId, price, batch, done, sets, moves, fails, history>>

\* Mutant: what was pushed is not appended to triggered_ids.
PushNoAppend(w, a) ==
    /\ wpc[w] = "loop" /\ a \in batch[w]
    /\ Hit(a, prices[w][a.key[2]])
    /\ batch' = [batch EXCEPT ![w] = @ \ {a}]
    /\ again' = again \cup ({a.arming} \cap pushed)
    /\ pushed' = pushed \cup {a.arming}
    /\ UNCHANGED <<alerts, nextId, price, wpc, prices, done, sets, moves, fails,
                   reached, raced, disturbed>>

\* The target is not reached: try again next time.
Skip(w, a) ==
    /\ wpc[w] = "loop" /\ a \in batch[w]
    /\ ~Hit(a, prices[w][a.key[2]])
    /\ batch' = [batch EXCEPT ![w] = @ \ {a}]
    /\ UNCHANGED <<alerts, nextId, price, wpc, prices, done, sets, moves, fails, history>>

\* The target is reached, and the alert is done with ..
Settle(w, a) ==
    /\ wpc[w] = "loop" /\ a \in batch[w]
    /\ Hit(a, prices[w][a.key[2]])
    /\ batch' = [batch EXCEPT ![w] = @ \ {a}]
    /\ done' = [done EXCEPT ![w] = @ \cup {[id |-> a.id, arming |-> a.arming]}]
    /\ UNCHANGED <<alerts, nextId, price, wpc, prices, sets, moves, fails,
                   reached, raced, disturbed>>

\* .. by a push, successful or not ..
Push(w, a) ==
    /\ Settle(w, a)
    /\ again' = again \cup ({a.arming} \cap pushed)
    /\ pushed' = pushed \cup {a.arming}

\* .. or without one, when the preference says no.
Suppress(w, a) == Settle(w, a) /\ UNCHANGED <<pushed, again>>

\* The check of w is over and the lock released.
EndCheck(w) ==
    /\ wpc' = [wpc EXCEPT ![w] = "idle"]
    /\ batch' = [batch EXCEPT ![w] = {}]
    /\ prices' = [prices EXCEPT ![w] = NoPrices]
    /\ done' = [done EXCEPT ![w] = {}]

\* Mutant: the commit is missing.
MarkUncommitted(w) ==
    /\ wpc[w] = "loop" /\ batch[w] = {}
    /\ EndCheck(w)
    /\ UNCHANGED <<alerts, nextId, price, sets, moves, fails, history>>

\* UPDATE .. SET triggered=1 WHERE id=?, committed once for all of them.
Mark(w) ==
    LET ids == {d.id : d \in done[w]} IN
    /\ wpc[w] = "loop" /\ batch[w] = {}
    /\ alerts' = [k \in Keys |-> IF k \in Rows /\ alerts[k].id \in ids
                                 THEN [alerts[k] EXCEPT !.triggered = TRUE] ELSE alerts[k]]
    /\ EndCheck(w)
    /\ UNCHANGED <<nextId, price, sets, moves, fails, history>>

\* A database error, or the process killed: nothing is marked.
Fail(w) ==
    /\ wpc[w] # "idle"
    /\ fails < MaxFails
    /\ fails' = fails + 1
    /\ disturbed' = disturbed \cup {d.arming : d \in done[w]}
    /\ EndCheck(w)
    /\ UNCHANGED <<alerts, nextId, price, sets, moves, reached, raced, pushed, again>>

-----------------------------------------------------------------------------
CheckStep(w) ==
    \/ ReadAlerts(w) \/ ReadPrices(w) \/ Mark(w)
    \/ \E a \in batch[w] : Skip(w, a) \/ Push(w, a) \/ Suppress(w, a)

Next ==
    \/ \E k \in Keys :
        \/ \E t \in Targets, d \in Directions : SetAlert(k, t, d)
        \/ CancelAlert(k)
    \/ \E x \in Codes, p \in Levels : PriceMoves(x, p)
    \/ \E w \in Workers :
        \/ ReadAlerts(w) \/ ReadPrices(w) \/ Mark(w) \/ Fail(w)
        \/ \E a \in batch[w] : Skip(w, a) \/ Push(w, a) \/ Suppress(w, a)

Spec == Init /\ [][Next]_vars

\* Every worker's price poller starts a check after each full refresh, and a
\* check runs on.
Fairness == \A w \in Workers : WF_vars(CheckStep(w))

FairSpec == Spec /\ Fairness

-----------------------------------------------------------------------------
(* Properties.                                                             *)

\* An alert is marked triggered only when its price has reached its target
\* since it was set: the mark goes by id, after the pushes, so that only an
\* alert set again under a running check, with the id the check holds, can be
\* marked for an earlier one's sake (price_alerts 78-82, 190).
TriggeredReached ==
    \A k \in Rows : alerts[k].triggered => alerts[k].arming \in reached \cup raced

\* One push per arming, however checks, changes and moving prices interleave,
\* unless two checks held it at a time or the check that pushed it failed
\* before its commit (price_alerts 181-195).
PushedOnce == again \subseteq disturbed

\* When prices and clients are quiet, every alert whose target is reached ends
\* up marked.
ReachedAreMarked ==
    <>[](\A k \in Rows : Hit(alerts[k], price[k[2]]) => alerts[k].triggered)

\* "Checks the alerts that are not triggered and sends when the condition is
\* met" (price_alerts 102): no alert is marked whose condition was not met.
MarkedAreReached == \A k \in Rows : alerts[k].triggered => alerts[k].arming \in reached
=============================================================================
