------------------------------- MODULE TradeLog -------------------------------
(***************************************************************************)
(* The stored executions of an account, filtered and read a page at a time *)
(* (trade_log.rs).  A cursor is the whole order key of the last trade of a *)
(* page: two trades of different markets may share both the millisecond    *)
(* and the number.                                                         *)
(***************************************************************************)
EXTENDS Integers, Sequences, FiniteSets, FiniteSetsExt

CONSTANT SymbolOrder   \* symbol -> its place in the alphabet

ASSUME TradeLogAssumption ==
    /\ \A s \in DOMAIN SymbolOrder : SymbolOrder[s] \in Int
    /\ \A s, r \in DOMAIN SymbolOrder : SymbolOrder[s] = SymbolOrder[r] => s = r

NoCursor == [time |-> -1]
CursorOf(trade) == [time |-> trade.time, symbol |-> trade.symbol, id |-> trade.id]

\* (time_ms, symbol, id), compared left to right.
Before(x, y) ==
    \/ x.time < y.time
    \/ x.time = y.time /\ SymbolOrder[x.symbol] < SymbolOrder[y.symbol]
    \/ x.time = y.time /\ x.symbol = y.symbol /\ x.id < y.id

\* Fault: a cursor of the time alone.
MatchesAfterTime(trade, query) ==
    /\ query.symbol \in {"any", trade.symbol}
    /\ query.from <= trade.time /\ trade.time <= query.until
    /\ query.after # NoCursor => query.after.time < trade.time

\* A query: one market or "any", a period with both ends in it, where to resume.
Matches(trade, query) ==
    /\ query.symbol \in {"any", trade.symbol}
    /\ query.from <= trade.time /\ trade.time <= query.until
    /\ query.after # NoCursor => Before(query.after, trade)

\* Trades in their order: the n-th has n - 1 of them before it.
InOrder(trades) ==
    [n \in 1..Cardinality(trades) |->
        CHOOSE t \in trades : Cardinality({u \in trades : Before(u, t)}) = n - 1]

\* A page, and the cursor of the next when there is more behind it.
Page(trades, query) ==
    LET matching == InOrder({t \in trades : Matches(t, query)})
        n == Min({query.limit, Len(matching)})
    IN [trades |-> SubSeq(matching, 1, n),
        next |-> IF Len(matching) > query.limit THEN CursorOf(matching[n]) ELSE NoCursor]

\* check: a page of at least one trade, a period that can hold something.
Acceptable(query) == query.limit >= 1 /\ query.from <= query.until

=============================================================================
