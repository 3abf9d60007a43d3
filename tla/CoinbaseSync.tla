----------------------------- MODULE CoinbaseSync -----------------------------
(***************************************************************************)
(* Coinbase: one sync (coinbase.rs).  Coinbase lists fills and balances    *)
(* but no deposits or withdrawals, so these are inferred: what changed     *)
(* between two balance snapshots and the fills do not explain.             *)
(* Facts: "fill" (listed, moves the asset and the quote currency) and      *)
(* "move" (a deposit or a withdrawal, never listed).                       *)
(*                                                                         *)
(* Nothing holds a sync together: its statements are separate and two      *)
(* processes may run one at once.  `torn` records that a recording was cut *)
(* short, that two syncs overlapped, or that a fill slipped in between the *)
(* two readings of the very first look.                                    *)
(***************************************************************************)
EXTENDS Connections

CONSTANTS
    Settle     \* SETTLE_MS, in ticks

Quote == "Q"
FillPrice == 2
FillFee == 1
CoinbaseAssets == {"A", Quote}

EmptyCoinbase == [snaps |-> << >>, flows |-> << >>, done |-> {}, stamp |-> 0, shown |-> 0, torn |-> FALSE]

CoinbaseRow(f) == [key |-> <<f.table, f.id>>, fact |-> f.id, table |-> f.table, asset |-> f.asset,
                   amt |-> f.amt, time |-> f.time]

\* What a fill does to an asset: the base amount, and its quote value and fee.
FillEffect(f, asset) ==
    IF asset = Quote THEN -(f.amt * FillPrice) - FillFee ELSE IF asset = f.asset THEN f.amt ELSE 0

Explained(fills, asset) == FoldLeft(LAMBDA sum, f : sum + FillEffect(f, asset), 0, fills)

\* The broker's balance of an asset once the first n facts are in it.
Moved(asset, m, n) ==
    Total(SelectSeq(SubSeq(facts, m, n), LAMBDA f : f.table = "move" /\ f.asset = asset))
CoinbaseBalance(asset, n) ==
    Moved(asset, 1, n) + Explained(SelectSeq(SubSeq(facts, 1, n), LAMBDA f : f.table = "fill"), asset)

\* infer_transfers: the change less what the fills explain, where there is any.
InferTransfers(before, after, fills) ==
    LET external(a) == after[a] - before[a] - Explained(fills, a)
    IN {[asset |-> a, amt |-> external(a)] : a \in {b \in CoinbaseAssets : external(b) # 0}}

Syncing == {"balances", "fills", "save", "decide", "record", "snapshot", "reconcile"}
Recording == {"record", "snapshot", "reconcile"}

\* ensure_read_only of the Coinbase client.
CoinbaseReadOnly == perm = "read"

\* open_coinbase confirms the key is read-only; `now` is taken once it has.
CoinbaseOpen(w) ==
    /\ jobs[w].pc = "open"
    /\ IF CoinbaseReadOnly /\ Alive(w)
       THEN /\ GotoWith(w, "balances", [now |-> clock])
            /\ book' = [book EXCEPT !.torn = @ \/ \E v \in Workers \ {w} : jobs[v].pc \in Syncing]
       ELSE End(w) /\ UNCHANGED book
    /\ UNCHANGED <<broker, clock, facts, perm, conn, made, starts, rows, locks, faults>>

\* The balances may still lack facts of the last Settle ticks, but never one
\* they have shown before.
CoinbaseBalances(w, n) ==
    /\ jobs[w].pc = "balances"
    /\ n >= book.shown
    /\ \A i \in DOMAIN facts : facts[i].time + Settle <= jobs[w].got.now => i <= n
    /\ GotoWith(w, "fills", [bal |-> [a \in CoinbaseAssets |-> CoinbaseBalance(a, n)], seen |-> n,
                             now |-> jobs[w].got.now, at |-> book.stamp + 1, queue |-> {},
                             flows |-> {}, upto |-> 0])
    /\ book' = [book EXCEPT !.stamp = @ + 1, !.shown = n]
    /\ UNCHANGED <<broker, clock, facts, perm, conn, made, starts, rows, locks, faults>>

\* fills_since the connection's creation, every page.
FillsSince(since) == {f \in Range(facts) : f.table = "fill" /\ f.time >= since}

CoinbaseFills(w) ==
    /\ jobs[w].pc = "fills"
    /\ IF Alive(w)
       THEN jobs' = [jobs EXCEPT ![w].pc = "save", ![w].got.upto = Len(facts),
                ![w].got.queue = FillsSince(conn.since)]
       ELSE End(w)
    /\ UNCHANGED <<broker, clock, facts, perm, conn, made, starts, rows, book, locks, faults>>

\* Fault: no waiting for the balances to catch up with a fill.
NeverUnsettled(now) == FALSE

\* The stored fills, and the latest snapshot, decide: no snapshot is the first
\* look; with one, a fill within Settle of `now` puts the reconciliation off to
\* the next sync.
Unsettled(now) == \E i \in DOMAIN rows : rows[i].time + Settle > now
Unreconciled == SelectSeq(rows, LAMBDA r : r.key \notin book.done)

CoinbaseDecide(w) ==
    /\ jobs[w].pc = "decide"
    /\ LET got == jobs[w].got
       IN IF ~Alive(w) \/ book.snaps = << >>
          THEN /\ Goto(w, "record")
               /\ book' = [book EXCEPT !.torn = @ \/ \E i \in DOMAIN rows : rows[i].fact > got.seen]
          ELSE /\ IF Unsettled(got.now) THEN End(w)
                  ELSE jobs' = [jobs EXCEPT ![w].pc = "record",
                           ![w].got.flows = InferTransfers(Last(book.snaps).bal, got.bal, Unreconciled)]
               /\ UNCHANGED book
    /\ UNCHANGED <<broker, clock, facts, perm, conn, made, starts, rows, locks, faults>>

\* The snapshots in the order of their times, with one more.
WithSnapshot(snaps, got) ==
    SortSeq(Upsert(snaps, [key |-> got.at, bal |-> got.bal, seen |-> got.seen]), LAMBDA s, t : s.key < t.key)

\* record, a statement at a time: the flows, the snapshot, the fills' marks.
CoinbaseRecord(w) ==
    /\ jobs[w].pc \in Recording
    /\ LET got == jobs[w].got
       IN IF ~Alive(w)
          THEN End(w) /\ UNCHANGED book
          ELSE \/ /\ jobs[w].pc = "record" /\ got.flows = {}
                  /\ Goto(w, "snapshot") /\ UNCHANGED book
               \/ \E f \in got.flows :
                     /\ jobs[w].pc = "record"
                     /\ book' = [book EXCEPT !.flows = Upsert(@,
                            [key |-> <<got.at, f.asset>>, asset |-> f.asset, amt |-> f.amt])]
                     /\ jobs' = [jobs EXCEPT ![w].got.flows = @ \ {f}]
               \/ /\ jobs[w].pc = "snapshot"
                  /\ book' = [book EXCEPT !.snaps = WithSnapshot(@, got)]
                  /\ Goto(w, "reconcile")
               \/ /\ jobs[w].pc = "reconcile"
                  /\ book' = [book EXCEPT !.done = {rows[i].key : i \in DOMAIN rows}]
                  /\ Goto(w, "synced")
    /\ UNCHANGED <<broker, clock, facts, perm, conn, made, starts, rows, locks, faults>>

\* The flows the engine reads: what was inferred, in or out by its sign.
CoinbaseFlows ==
    {[family |-> IF f.amt > 0 THEN "deposit" ELSE "withdrawal", source |-> f.key,
      legs |-> <<[asset |-> f.asset, amt |-> f.amt]>>] : f \in Range(book.flows)}

CoinbaseConnect(w) == InsertConnection(w, "open", Never)
CoinbaseRun(w) == RunSync(w, "open")
CoinbaseSave(w) ==
    /\ jobs[w].pc = "save"
    /\ AllSaved(w, "decide") \/ \E f \in jobs[w].got.queue : SaveFact(w, f, CoinbaseRow(f))
CoinbaseFails(w) == Fails(w, {"open", "balances", "fills"})

CoinbaseStep(w) ==
    \/ CoinbaseConnect(w) \/ CoinbaseRun(w)
    \/ CoinbaseOpen(w)
    \/ \E n \in 0..Len(facts) : CoinbaseBalances(w, n)
    \/ CoinbaseFills(w) \/ CoinbaseDecide(w) \/ CoinbaseRecord(w)
    \/ CoinbaseSave(w) \/ CoinbaseFails(w)
    \/ jobs[w].pc = "synced" /\ MarkSynced(w, jobs[w].got.upto)

CoinbaseNext ==
    \/ \E w \in Workers : CoinbaseStep(w)
    \/ RunDisconnect(EmptyCoinbase)

=============================================================================
