----------------------------- MODULE PaperCycle -----------------------------
(***************************************************************************)
(* What one offline decision cycle computes, as operators: strategy        *)
(* signals, risk decisions, execution intents, the simulated order and its *)
(* fill, and the paper portfolio after it (src/app/execution,              *)
(* src/app/risk/report_only.py, src/app/portfolio/paper.py).               *)
(*                                                                         *)
(* One instrument and one quote asset.  Money is an integer: Decimal       *)
(* arithmetic is exact for the prices and quantities used here.  A missing *)
(* quantity or notional is 0.                                              *)
(***************************************************************************)
EXTENDS Integers, Sequences, SequencesExt

CONSTANTS FeeBps,       \* PaperExecutionSimulator.fee_bps
          MaxNotional,  \* ReportOnlyRiskEvaluator.max_notional
          InitialCash   \* cash_by_asset of the initial portfolio state

ASSUME PaperAssumption ==
    FeeBps \in Nat /\ MaxNotional \in Nat /\ InitialCash \in Nat

Initial == [cash |-> InitialCash, qty |-> 0, avg |-> 0,
            realized |-> 0, unrealized |-> 0]

-----------------------------------------------------------------------------
(* Signals.  The strategies are an interface; what a bar makes them ask    *)
(* for is part of the bar ("plan").  Breakout asks for a quantity and      *)
(* regime adds a flat signal; a strategy may also sell.                    *)

Flat == [side |-> "flat", quantity |-> 0, notional |-> 0]
Sized(side, quantity) ==
    [side |-> side, quantity |-> quantity, notional |-> 0]
Priced(side, notional) ==
    [side |-> side, quantity |-> 0, notional |-> notional]

Asks == [quiet    |-> << >>,
         watch    |-> <<Flat>>,
         enter    |-> <<Sized("buy", 1), Flat>>,
         notional |-> <<Priced("buy", 2)>>,
         oversize |-> <<Priced("buy", MaxNotional + 1), Flat>>,
         exit     |-> <<Sized("sell", 2)>>]

\* A strategy that exits asks for it once it sees a position.
Signals(bar, book) ==
    IF bar.plan = "exit" /\ ~ (book.qty > 0) THEN << >> ELSE Asks[bar.plan]

RiskStatus(s) ==
    IF s.side # "flat" /\ s.notional > MaxNotional THEN "reject" ELSE "allow"

\* An intent without an approved quantity takes the notional for the quantity.
Quantity(s) == IF s.quantity # 0 THEN s.quantity
               ELSE IF s.notional # 0 THEN s.notional ELSE 1

\* The elements at some places, in their order; SelectSeq is opaque to the
\* provers.
Picked(seq, places) ==
    FoldLeftDomain(LAMBDA picked, i :
                      IF i \in places THEN Append(picked, seq[i]) ELSE picked,
                   << >>, seq)

\* The signals that risk lets trade, in their order.
Taken(signals) ==
    Picked(signals, {i \in DOMAIN signals :
        RiskStatus(signals[i]) = "allow" /\ signals[i].side # "flat"})

Intents(signals, venue) ==
    LET taken == Taken(signals)
    IN  [i \in DOMAIN taken |->
            [venue |-> venue, side |-> taken[i].side,
             quantity |-> Quantity(taken[i])]]

\* The decision path the runners and the reference share, up to the intents,
\* in the shape a parity record compares (_cycle_summary).
Decisions(bar, book, venue) ==
    LET signals == Signals(bar, book)
        intents == Intents(signals, venue)
    IN  [sides      |-> [i \in DOMAIN signals |-> signals[i].side],
         posture    |-> [i \in DOMAIN signals |-> RiskStatus(signals[i])],
         actionable |-> intents # << >>,
         shape      |-> intents]

NoDecisions ==
    [sides |-> << >>, posture |-> << >>, actionable |-> FALSE, shape |-> << >>]

-----------------------------------------------------------------------------
(* The order lifecycle, as the simulator drives it.                        *)

NewFromIntent(intent) ==
    [status |-> "new", requested |-> intent.quantity, filled |-> 0,
     remaining |-> intent.quantity, average |-> 0]

Acknowledge(order) == [order EXCEPT !.status = "acknowledged"]

FillOrder(order, fill) ==
    LET filled    == order.filled + fill.quantity
        remaining == order.requested - filled
    IN  [order EXCEPT
            !.status = IF remaining = 0 THEN "filled" ELSE "partially_filled",
            !.filled = filled, !.remaining = remaining,
            !.average = (order.filled * order.average
                            + fill.quantity * fill.price) \div filled]

FillOf(intent, price) ==
    [side |-> intent.side, quantity |-> intent.quantity, price |-> price,
     fee |-> (intent.quantity * price * FeeBps) \div 10000]

\* Every intent is accepted and filled at once, at the close of the bar.
Simulate(intents, price) ==
    [i \in DOMAIN intents |->
        [fill  |-> FillOf(intents[i], price),
         order |-> FillOrder(Acknowledge(NewFromIntent(intents[i])),
                             FillOf(intents[i], price))]]

-----------------------------------------------------------------------------
(* The paper portfolio.                                                    *)

Bought(book, fill) ==
    LET qty  == book.qty + fill.quantity
        cost == fill.quantity * fill.price
    IN  [book EXCEPT
            !.qty  = qty,
            !.avg  = IF qty = fill.quantity THEN fill.price
                     ELSE (book.qty * book.avg + cost) \div qty,
            !.cash = book.cash - cost - fill.fee]

\* Mutant: the fee of a sale is taken from the cash alone.
SoldBeforeFee(book, fill) ==
    LET qty == book.qty - fill.quantity IN
    [book EXCEPT
        !.qty      = qty,
        !.avg      = IF qty # 0 THEN book.avg ELSE 0,
        !.realized = book.realized + (fill.price - book.avg) * fill.quantity,
        !.cash     = book.cash + fill.quantity * fill.price - fill.fee]

Sold(book, fill) ==
    LET qty == book.qty - fill.quantity IN
    [book EXCEPT
        !.qty      = qty,
        !.avg      = IF qty # 0 THEN book.avg ELSE 0,
        !.realized = book.realized
                        + (fill.price - book.avg) * fill.quantity - fill.fee,
        !.cash     = book.cash + fill.quantity * fill.price - fill.fee]

ApplyFill(book, fill) ==
    IF fill.side = "buy" THEN Bought(book, fill) ELSE Sold(book, fill)

\* Without a fill the position is marked at its own average price.
ApplyFills(book, fills) ==
    LET after == FoldLeft(ApplyFill, book, fills)
        mark  == IF fills = << >> THEN after.avg ELSE Last(fills).price
    IN  [after EXCEPT !.unrealized = (mark - after.avg) * after.qty]

\* What the contracts accept: cash is never negative, and paper positions are
\* long (PortfolioState, PositionState).  Anything else raises.
Canonical(book) == book.cash >= 0 /\ book.qty >= 0
=============================================================================
