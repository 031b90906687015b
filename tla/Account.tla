------------------------------ MODULE Account ------------------------------
(***************************************************************************)
(* What place_order and init_db promise of the virtual account as long as  *)
(* orders come one at a time, in slot order: each is one step that takes   *)
(* place wholly or not at all, for the amount of its fill, and shares are  *)
(* sold at the average of what they cost, to the fraction of a won.  What  *)
(* a purchase costs, a position is worth or a sale earns is in 1/Scale     *)
(* won.                                                                    *)
(***************************************************************************)
EXTENDS FillSimulator

CONSTANTS Codes, Order, Scale, InitialCash

VARIABLES open,     \* the account has been set up
          cash,     \* in won
          shares,   \* shares[c]: of c that the account holds
          cost,     \* cost[c]: what they cost
          profit,   \* what the sales earned
          ordered   \* so far no order overtook another, or a reset

accountVars == <<open, cash, shares, cost, profit, ordered>>

AccountInit ==
    /\ open = TRUE /\ cash = InitialCash /\ profit = 0 /\ ordered = TRUE
    /\ shares = [c \in Codes |-> 0] /\ cost = [c \in Codes |-> 0]

Amount(o) == NetAmount(o.side, o.quote, o.cap, o.qty)

Buy(o) ==
    /\ open /\ o.side = "buy"
    /\ cash >= Amount(o)
    /\ cash' = cash - Amount(o)
    /\ shares' = [shares EXCEPT ![o.code] = @ + o.qty]
    /\ cost' = [cost EXCEPT ![o.code] = @ + Scale * Amount(o)]
    /\ UNCHANGED <<open, profit, ordered>>

Sell(o) ==
    LET out == (cost[o.code] * o.qty) \div shares[o.code] IN
    /\ open /\ o.side = "sell"
    /\ shares[o.code] >= o.qty
    /\ out * shares[o.code] = cost[o.code] * o.qty
    /\ cash' = cash + Amount(o)
    /\ shares' = [shares EXCEPT ![o.code] = @ - o.qty]
    /\ cost' = [cost EXCEPT ![o.code] = @ - out]
    /\ profit' = profit + Scale * Amount(o) - out
    /\ UNCHANGED <<open, ordered>>

\* init_db --reset, before it sets the account up again.
Close ==
    /\ open' = FALSE /\ cash' = 0 /\ profit' = 0
    /\ shares' = [c \in Codes |-> 0] /\ cost' = [c \in Codes |-> 0]
    /\ UNCHANGED ordered

SetUp ==
    /\ ~open /\ open' = TRUE
    /\ cash' = InitialCash
    /\ UNCHANGED <<shares, cost, profit, ordered>>

\* An order that overtook another, or was served while the account was being
\* closed: from now on it is only never overdrawn.
Disorder == ordered' = FALSE /\ cash' >= 0 /\ \A c \in Codes : shares'[c] >= 0

AccountNext ==
    \/ \E o \in Order : Buy(o) \/ Sell(o)
    \/ Close \/ SetUp \/ Disorder

AccountSpec == AccountInit /\ [][AccountNext]_accountVars
=============================================================================
