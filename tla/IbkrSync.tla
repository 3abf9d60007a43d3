------------------------------- MODULE IbkrSync -------------------------------
(***************************************************************************)
(* Interactive Brokers: one sync of a Flex report (ibkr.rs).  A report is  *)
(* a statement of the last ReportWindow days: one account total per day,   *)
(* the deposits and withdrawals, and the trades.  It gives a flow no       *)
(* identity, so a flow is told from another by its day and amount, and a   *)
(* trade by its day, symbol and position in the statement.                 *)
(* Facts: "flow", "trade" (moves no money) and "gain" (the market); a tick *)
(* is a day.                                                               *)
(***************************************************************************)
EXTENDS Connections, Rationals

CONSTANTS
    ReportWindow     \* the days a Flex query covers before today

\* `total`: report date -> total.  `overlapped` records that two syncs ran at
\* once, so that a total may come from the older of two reports.
EmptyIbkr == [total |-> << >>, overlapped |-> FALSE]

\* The account's total at the end of a day, as far as the day has gone.
TotalOn(day) == Total(SelectSeq(facts, LAMBDA f : f.time <= day))

\* fetch_report: what the statement holds today, oldest first.
InReport(table) ==
    SelectSeq(facts, LAMBDA f : f.table = table /\ f.time >= clock - ReportWindow)

Statement ==
    LET trades == InReport("trade")
        firstDay == Max({0, clock - ReportWindow})
    IN [i \in 1..(clock - firstDay + 1) |->
            [kind |-> "equity", day |-> firstDay + i - 1, total |-> TotalOn(firstDay + i - 1)]]
       \o [i \in DOMAIN InReport("flow") |-> [kind |-> "flow", fact |-> InReport("flow")[i]]]
       \o [i \in DOMAIN trades |-> [kind |-> "trade", fact |-> trades[i], ordinal |-> i - 1]]

\* Lines before the day the account was connected are passed over.
LineDay(line) == IF line.kind = "equity" THEN line.day ELSE line.fact.time

LinesSince(day) == SelectSeq(Statement, LAMBDA l : LineDay(l) >= day)

IbkrFetch(w) ==
    /\ jobs[w].pc = "fetch"
    /\ IF Alive(w)
       THEN GotoWith(w, "store", [queue |-> LinesSince(conn.since), upto |-> Len(facts)])
       ELSE End(w)
    /\ book' = [book EXCEPT !.overlapped = @ \/ \E v \in Workers \ {w} : jobs[v].pc \in {"store", "synced"}]
    /\ UNCHANGED <<broker, clock, facts, perm, conn, made, starts, rows, locks, faults>>

\* Fault: a trade known by its day and symbol alone.
TradeRowOfDay(f, ordinal) ==
    [key |-> <<"trade", f.time, f.asset>>, fact |-> f.id, table |-> "trade", day |-> f.time, amt |-> 0]

FlowRow(f) == [key |-> <<"flow", f.time, f.amt>>, fact |-> f.id, table |-> "flow", day |-> f.time, amt |-> f.amt]
TradeRow(f, ordinal) ==
    [key |-> <<"trade", f.time, f.asset, ordinal>>, fact |-> f.id, table |-> "trade", day |-> f.time, amt |-> 0]

\* A day's total is replaced by the newer report's; a flow or a trade already
\* there is left.
StoreLine(w) ==
    /\ jobs[w].pc = "store"
    /\ IF jobs[w].got.queue = << >>
       THEN Goto(w, "synced") /\ UNCHANGED <<rows, book>>
       ELSE LET line == Head(jobs[w].got.queue)
            IN IF ~Alive(w)
               THEN End(w) /\ UNCHANGED <<rows, book>>
               ELSE /\ jobs' = [jobs EXCEPT ![w].got.queue = Tail(@)]
                    /\ rows' = CASE line.kind = "equity" -> rows
                                 [] line.kind = "flow" -> Upsert(rows, FlowRow(line.fact))
                                 [] OTHER -> Upsert(rows, TradeRow(line.fact, line.ordinal))
                    /\ book' = IF line.kind = "equity"
                               THEN [book EXCEPT !.total =
                                   [d \in DOMAIN @ \cup {line.day} |-> IF d = line.day THEN line.total ELSE @[d]]]
                               ELSE book
    /\ UNCHANGED <<broker, clock, facts, perm, conn, made, starts, locks, faults>>

(***************************************************************************)
(* What the dashboard shows of them.                                       *)
(***************************************************************************)
Days == SetToSortSeq(DOMAIN book.total, <)
StoredFlows == {rows[i] : i \in {j \in DOMAIN rows : rows[j].table = "flow"}}
FlowsOf(day) == MapThenSumSet(LAMBDA r : IF r.day = day THEN r.amt ELSE 0, StoredFlows)

\* build_index: 1 on the first day, then each day's total less its flows
\* against the day before; no return is taken against nothing.
BuildIndex ==
    LET Return(i) == Rat(book.total[Days[i]] - FlowsOf(Days[i]), book.total[Days[i - 1]])
        Step(index, i) ==
            IF i = 1 THEN <<One>>
            ELSE Append(index, IF book.total[Days[i - 1]] > 0 THEN Times(Last(index), Return(i)) ELSE Last(index))
    IN FoldLeftDomain(Step, << >>, Days)

\* load_performance, total_change: the last total less the first and all the flows.
TotalChange ==
    IF Days = << >> THEN 0
    ELSE book.total[Last(Days)] - book.total[Days[1]]
             - MapThenSumSet(LAMBDA r : r.amt, StoredFlows)

IbkrConnect(w) == InsertConnection(w, "fetch", Never)
IbkrRun(w) == RunSync(w, "fetch")

\* A rejected request, or a statement still being generated after the last poll.
IbkrFails(w) == Fails(w, {"fetch"})

IbkrStep(w) ==
    \/ IbkrConnect(w) \/ IbkrRun(w) \/ IbkrFails(w)
    \/ IbkrFetch(w) \/ StoreLine(w)
    \/ jobs[w].pc = "synced" /\ MarkSynced(w, jobs[w].got.upto)

IbkrNext ==
    \/ \E w \in Workers : IbkrStep(w)
    \/ RunDisconnect(EmptyIbkr)

=============================================================================
