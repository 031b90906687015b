--------------------------- MODULE FillSimulator ---------------------------
(***************************************************************************)
(* scripts/ai_trader/fill_simulator.py: the virtual fill of an order.      *)
(* Prices and amounts are whole won; rates are fractions of integers.      *)
(***************************************************************************)
EXTENDS Integers

Sides == {"buy", "sell"}

\* Python's round() of n / d: to nearest, a half to the even neighbour.
RoundDiv(n, d) ==
    LET q == n \div d
        r == n % d
    IN  IF 2 * r < d THEN q
        ELSE IF 2 * r > d THEN q + 1
        ELSE q + (q % 2)

\* hts_avls is in eok (10^8 won) unless it is too large to be.
CapEok(hts) == IF hts < 100000000 THEN hts ELSE hts \div 100000000

\* Slippage in 1/10000 by market capitalisation: 5 trillion, 1 trillion, below.
SlippageRate(eok) ==
    IF eok >= 50000 THEN 15
    ELSE IF eok >= 10000 THEN 20
    ELSE 30

\* Bought above the quote, sold below it.
FillPrice(side, quote, hts) ==
    LET bp == SlippageRate(CapEok(hts))
    IN  IF side = "buy" THEN RoundDiv(quote * (10000 + bp), 10000)
        ELSE RoundDiv(quote * (10000 - bp), 10000)

Commission(gross) == RoundDiv(gross * 3, 20000)
SellTax(gross)    == RoundDiv(gross * 18, 10000)

\* What leaves the account (buy) or enters it (sell).
NetAmount(side, quote, hts, qty) ==
    LET gross == FillPrice(side, quote, hts) * qty
    IN  IF side = "buy" THEN gross + Commission(gross)
        ELSE gross - Commission(gross) - SellTax(gross)

-----------------------------------------------------------------------------
\* Buying and selling back at the same quote never makes money: slippage,
\* commission and tax all work against the trader, whatever rounding does.
RoundTripLoses(quote, hts, qty) ==
    NetAmount("sell", quote, hts, qty) <= NetAmount("buy", quote, hts, qty)
=============================================================================
