------------------------------- MODULE Figures -------------------------------
(***************************************************************************)
(* From a connection's collected record to the figures the dashboard       *)
(* shows: what was held at each checkpoint, what it was worth, the time-   *)
(* weighted return and the profit and loss (history.rs, pnl.rs,            *)
(* publish.rs, and the domain crates valuation, returns and metrics).      *)
(*                                                                         *)
(* Everything here is a function of what one command has read:             *)
(*   events    the stored trades and flows since the connection            *)
(*   balances  the account's balances, read live                           *)
(*   marks     the market price of each asset at each instant              *)
(*   listed    the assets with a market against the quote currency         *)
(*   since     the instant of the connection                               *)
(*   now       the instant the command read the clock                      *)
(***************************************************************************)
EXTENDS Rationals, Sequences, FiniteSets

CONSTANTS
    Assets, Quote,   \* the assets, and the one everything is valued in
    Market,          \* symbol -> <<base asset, quote asset>>
    Day              \* ticks in a UTC day

ASSUME FiguresAssumption ==
    /\ Quote \in Assets
    /\ \A s \in DOMAIN Market : Market[s] \in Assets \X Assets
    /\ Day \in Nat \ {0}

Sum(S, f(_)) == MapThenSumSet(f, S)

Leg(asset, amount) == [asset |-> asset, amount |-> amount]

(***************************************************************************)
(* The ledger.                                                             *)
(***************************************************************************)
Base(e) == Market[e.symbol][1]
QuoteOf(e) == Market[e.symbol][2]
Side(e) == IF e.buy THEN 1 ELSE -1

\* A trade's two legs and a flow's one.
Legs(e) ==
    IF e.kind = "trade"
    THEN <<Leg(Base(e), Side(e) * e.qty), Leg(QuoteOf(e), -Side(e) * e.qty * e.price)>>
    ELSE <<Leg(e.asset, IF e.kind = "withdrawal" THEN -e.qty ELSE e.qty)>>

\* Fault: fees are not debits.
NoFeeLeg(e) == << >>

\* A fee is one more debit; every trade carries one, some withdrawals do.
FeeLeg(e) ==
    IF e.kind = "trade" THEN <<Leg(e.feeAsset, -e.fee)>>
    ELSE IF e.kind = "withdrawal" /\ e.fee > 0 THEN <<Leg(e.asset, -e.fee)>>
    ELSE << >>

AllLegs(e) == Legs(e) \o FeeLeg(e)

\* per_asset_deltas: what the event did to one asset.
Delta(e, a) == FoldLeft(LAMBDA sum, l : IF l.asset = a THEN sum + l.amount ELSE sum, 0, AllLegs(e))

Touches(e, a) == \E i \in DOMAIN AllLegs(e) : AllLegs(e)[i].asset = a

(***************************************************************************)
(* prepare: only what happened since the connection, and the live balances *)
(* as the anchor.  An asset with no market of its own is left out.         *)
(***************************************************************************)
Prepared(read) == [read EXCEPT !.events = {e \in @ : e.time >= read.since}]

InScope(p, a) == a = Quote \/ a \in p.listed

Followed(p) ==
    {a \in Assets : InScope(p, a) /\ (p.balances[a] > 0 \/ \E e \in p.events : Touches(e, a))}

\* An event at the very instant of the snapshot may or may not be in it.
Ambiguous(p) == \E e \in p.events : e.time = p.now /\ \E a \in Followed(p) : Touches(e, a)

\* reconstruct_quantity: the balance, with what happened after the cut undone.
QuantityAt(p, a, cut) ==
    p.balances[a] - Sum({e \in p.events : e.time > cut /\ e.time <= p.now}, LAMBDA e : Delta(e, a))

(***************************************************************************)
(* Prices and value.                                                       *)
(***************************************************************************)
\* resolve_historical_price: the quote currency is 1, an asset without a market has none.
PriceAt(p, a, t) == IF a = Quote THEN 1 ELSE p.marks[t][a]

NavAt(p, cut) == Sum(Followed(p), LAMBDA a : QuantityAt(p, a, cut) * PriceAt(p, a, cut))

\* compute_current_nav (the `nav` command): balances and prices of now, no ledger.
CurrentNav(balances, listed, marks, now) ==
    LET p == [balances |-> balances, listed |-> listed, marks |-> marks]
    IN Sum({a \in Assets : balances[a] > 0 /\ InScope(p, a)}, LAMBDA a : balances[a] * PriceAt(p, a, now))

\* Fault: withdrawals left among the returns.
DepositsOnly(p) == {e \in p.events : e.kind = "deposit"}

External(p) == {e \in p.events : e.kind \in {"deposit", "withdrawal"}}
Trades(p) == {e \in p.events : e.kind = "trade"}

LegValue(p, e, legs) == FoldLeft(LAMBDA sum, l : sum + l.amount * PriceAt(p, l.asset, e.time), 0, legs)

\* What a deposit or withdrawal moved, its fee included.
FlowValue(p, e) == LegValue(p, e, AllLegs(e))

\* A price the figures cannot do without: of what is deposited or withdrawn, of
\* the currency a trade is quoted in, of a fee.
Unpriced(p) ==
    \/ \E e \in External(p) : ~InScope(p, e.asset)
    \/ \E e \in Trades(p) : ~InScope(p, QuoteOf(e)) \/ ~InScope(p, e.feeAsset)

(***************************************************************************)
(* The time-weighted return.                                               *)
(***************************************************************************)
\* The start, every multiple of the step between it and now, and now.
Grid(start, step, now) ==
    LET gone == start \div step
        inner == [i \in 1..((now - 1) \div step - gone) |-> (gone + i) * step]
    IN <<start>> \o (IF now > start THEN inner \o <<now>> ELSE << >>)

\* compute_twr over the timeline: before a grid point's valuation come the
\* flows since the previous one, a flow at the same instant included; a return
\* is taken against what was there plus what came in, and there is none against
\* nothing.  sub_returns holds the ratios (1 + r).
TwrStep(p, grid, flows, acc, i) ==
    LET cut == grid[i]
        since == {e \in flows : e.time <= cut /\ (i > 1 => e.time > grid[i - 1])}
        moved == Sum(since, LAMBDA e : FlowValue(p, e))
        base == acc.base + moved
        nav == NavAt(p, cut)
    IN IF acc.failed THEN acc
       ELSE IF acc.empty /\ since = {} THEN [acc EXCEPT !.empty = FALSE, !.base = nav]
       ELSE IF base <= 0 THEN [acc EXCEPT !.failed = TRUE]
       ELSE [acc EXCEPT !.empty = FALSE, !.base = nav, !.returns = Append(@, Rat(nav, base))]

ComputeTwr(p, grid, flows) ==
    FoldLeftDomain(LAMBDA acc, i : TwrStep(p, grid, flows, acc, i),
                   [empty |-> TRUE, base |-> 0, returns |-> << >>, failed |-> FALSE], grid)

\* The index: 1 at the first point, then chained with one return per point.
Chained(returns, points) ==
    FoldLeftDomain(LAMBDA index, i : IF i < points /\ i <= Len(returns)
                                     THEN Append(index, Times(Last(index), returns[i])) ELSE index,
                   <<One>>, [i \in 1..points |-> i])

(***************************************************************************)
(* Profit and loss, at average cost.                                       *)
(***************************************************************************)
NoLot == [held |-> 0, cost |-> Zero, realized |-> Zero]

\* Fault: the last price paid for the average.
AcquireAtLast(lot, qty, price) ==
    LET total == lot.held + qty
    IN [lot EXCEPT !.held = total, !.cost = IF total > 0 THEN Int2Rat(price) ELSE @]

Acquire(lot, qty, price) ==
    LET total == lot.held + qty
    IN [lot EXCEPT !.held = total,
                   !.cost = IF total > 0
                            THEN Times(Plus(Times(Int2Rat(lot.held), lot.cost), Int2Rat(qty * price)), Rat(1, total))
                            ELSE @]

\* A disposal beyond what is held realizes nothing for the part without a cost.
Dispose(lot, qty, price) ==
    LET matched == Min({qty, lot.held})
    IN [lot EXCEPT !.held = @ - matched,
                   !.realized = Plus(@, Times(Int2Rat(matched), Minus(Int2Rat(price), lot.cost)))]

WithdrawLot(lot, qty) == [lot EXCEPT !.held = @ - Min({qty, lot.held})]

\* One priced leg of an event; what is quoted in the quote currency has no lot.
Book(p, e, lots, leg) ==
    LET price == IF e.kind = "trade" /\ leg.asset = Base(e)
                 THEN e.price * PriceAt(p, QuoteOf(e), e.time)
                 ELSE PriceAt(p, leg.asset, e.time)
    IN IF leg.asset = Quote THEN lots
       ELSE [lots EXCEPT ![leg.asset] =
                CASE leg.amount >= 0 -> Acquire(@, leg.amount, price)
                  [] leg.amount < 0 /\ e.kind = "trade" -> Dispose(@, -leg.amount, price)
                  [] OTHER -> WithdrawLot(@, -leg.amount)]

\* A trade's fee is only added to the fees; a withdrawal's also leaves its lot.
BookEvent(p, e, lots) ==
    FoldLeft(LAMBDA acc, leg : Book(p, e, acc, leg), lots,
             IF e.kind = "trade" THEN Legs(e) ELSE AllLegs(e))

\* By time, and at one instant deposits and withdrawals before trades.
InPnlOrder(x, y) ==
    \/ x.time < y.time
    \/ x.time = y.time /\ x.kind # "trade" /\ y.kind = "trade"
    \/ x.time = y.time /\ (x.kind = "trade") = (y.kind = "trade") /\ x.seq < y.seq

\* compute_pnl: the opening balance at its price then, every event, and what
\* is held now at its mark against its average cost.
ComputePnl(p) ==
    LET opening == [a \in Assets |-> IF a = Quote \/ a \notin Followed(p) THEN NoLot
                                     ELSE Acquire(NoLot, QuantityAt(p, a, p.since), PriceAt(p, a, p.since))]
        lots == FoldLeft(LAMBDA acc, e : BookEvent(p, e, acc), opening,
                         SetToSortSeq(External(p) \cup Trades(p), InPnlOrder))
        Unrealized(a) == Times(Int2Rat(QuantityAt(p, a, p.now)), Minus(Int2Rat(PriceAt(p, a, p.now)), lots[a].cost))
        Total(S, f(_)) == FoldSet(LAMBDA a, sum : Plus(sum, f(a)), Zero, S)
    IN [realized |-> Total(Assets \ {Quote}, LAMBDA a : lots[a].realized),
        unrealized |-> Total({a \in Followed(p) \ {Quote} : lots[a].held > 0}, Unrealized),
        fees |-> Sum(External(p) \cup Trades(p), LAMBDA e : -LegValue(p, e, FeeLeg(e)))]

(***************************************************************************)
(* The answers.                                                            *)
(***************************************************************************)
Refused == [ok |-> FALSE]

\* compute_history: at the connection, every UTC midnight since, and now.
ComputeHistory(read) ==
    LET p == Prepared(read)
        grid == Grid(p.since, Day, p.now)
        twr == ComputeTwr(p, grid, External(p))
    IN IF Unpriced(p) \/ Ambiguous(p) \/ twr.failed THEN Refused
       ELSE [ok |-> TRUE, grid |-> grid,
             nav |-> [i \in DOMAIN grid |-> NavAt(p, grid[i])],
             index |-> Chained(twr.returns, Len(grid)),
             pnl |-> ComputePnl(p)]

\* A range of the chart never reaches back before the connection.
SeriesStart(p, window) == Max({p.since, p.now - window})

\* compute_series: the last `window` ticks, or all of it, a point every step.
ComputeSeries(read, window, step) ==
    LET p == Prepared(read)
        start == SeriesStart(p, window)
        grid == Grid(start, step, p.now)
        flows == {e \in External(p) : e.time >= start}
        twr == ComputeTwr(p, grid, flows)
    IN IF (\E e \in flows : ~InScope(p, e.asset)) \/ Ambiguous(p) \/ twr.failed THEN Refused
       ELSE [ok |-> TRUE, grid |-> grid,
             nav |-> [i \in DOMAIN grid |-> NavAt(p, grid[i])],
             index |-> Chained(twr.returns, Len(grid))]

\* max_drawdown: the deepest fall below a running peak.
MaxDrawdown(index) ==
    LET Step(acc, x) ==
            LET peak == IF Less(acc.peak, x) THEN x ELSE acc.peak
                fall == IF peak[1] > 0 THEN Minus(One, Times(x, Rat(peak[2], peak[1]))) ELSE Zero
            IN [peak |-> peak, worst |-> IF Less(acc.worst, fall) THEN fall ELSE acc.worst]
    IN FoldLeft(Step, [peak |-> Head(index), worst |-> Zero], index).worst

=============================================================================
