----------------------------- MODULE BinanceSync -----------------------------
(***************************************************************************)
(* Binance: one sync cycle (sync.rs), the trade stream the scheduler keeps *)
(* open (stream.rs), and the storage of both (db.rs).                      *)
(*                                                                         *)
(* Binance lists trades one market at a time, so a cycle asks only for the *)
(* markets it has a reason to know of; the stream pushes every fill, but   *)
(* only while it is connected.  Facts: "trade" (in the market of `asset`   *)
(* against the quote currency), "flow" (a deposit or a withdrawal) and     *)
(* "reward" (what Simple Earn paid).                                       *)
(***************************************************************************)
EXTENDS Connections

CONSTANTS
    Chosen,        \* the markets chosen when connecting
    TradePage,     \* the newest trades of one market that one call returns
    EarnOverlap    \* EARN_OVERLAP_MS, in ticks

BinanceAssets == {"A"}

EmptyBinance == << >>

\* (connection, symbol, trade_id), or (connection, namespace, source_id).
BinanceRow(f) == [key |-> <<f.table, f.asset, f.id>>, fact |-> f.id, table |-> f.table,
                  asset |-> f.asset, time |-> f.time]

\* The markets read: chosen, already traded on, or of an asset held now.
SymbolsToRead(traded, held, listed) == Chosen \cup traded \cup (held \cap listed)

\* What the stored rows say before anything is fetched.
LatestEarnReward ==
    LET times == {rows[i].time : i \in {j \in DOMAIN rows : rows[j].table = "reward"}}
    IN IF times = {} THEN Never ELSE Max(times)

TradedSymbols == {rows[i].asset : i \in {j \in DOMAIN rows : rows[j].table = "trade"}}

\* Spot balances with what is in Simple Earn, where there is any.
BinanceHeldAssets == {a \in BinanceAssets : Balance(a, Len(facts)) > 0}

\* validate_read_only: no permission but reading.
BinanceReadOnly == perm = "read"

\* ensure_read_only, the catalog (which may be missing) and the balances.
BinanceHeld(w, listed) ==
    /\ jobs[w].pc = "held"
    /\ IF BinanceReadOnly
       THEN GotoWith(w, "list",
                [symbols |-> SymbolsToRead(
                     TradedSymbols, BinanceHeldAssets, listed),
                 earnFrom |-> LatestEarnReward, upto |-> Len(facts)])
       ELSE End(w)
    /\ UNCHANGED <<broker, clock, facts, perm, conn, made, starts, rows, book, locks, faults>>

\* fetch_my_trades: the newest of one market.
MyTrades(a) ==
    LET all == {f \in Range(facts) : f.table = "trade" /\ f.asset = a}
    IN {f \in all : Cardinality({g \in all : g.id > f.id}) < TradePage}

\* fetch_deposits and fetch_withdrawals.
DepositsAndWithdrawals == {f \in Range(facts) : f.table = "flow"}

\* fetch_earn_rewards, every page of every window.
EarnRewards(from) == {f \in Range(facts) : f.table = "reward" /\ f.time >= from - EarnOverlap}

\* my_trades of every market in turn; deposits and withdrawals in full; rewards
\* from the newest stored one.
BinanceList(w) ==
    /\ jobs[w].pc = "list"
    /\ GotoWith(w, "save",
           [queue |-> (UNION {MyTrades(a) : a \in jobs[w].got.symbols})
                          \cup DepositsAndWithdrawals \cup EarnRewards(jobs[w].got.earnFrom),
            upto |-> jobs[w].got.upto])
    /\ UNCHANGED <<broker, clock, facts, perm, conn, made, starts, rows, book, locks, faults>>

(***************************************************************************)
(* The trade stream: a task of the scheduler, one per connection, that     *)
(* ends when its socket drops or an insert fails, and is then started      *)
(* again.  `seen` is how far into the facts it was subscribed.             *)
(***************************************************************************)
EnsureStream ==
    /\ jobs["scheduler"] = Idle /\ conn # NoConn
    /\ jobs["stream"] = Idle
    /\ jobs' = [jobs EXCEPT !["stream"] = [pc |-> "streaming", id |-> conn.id, seen |-> Len(facts)]]
    /\ UNCHANGED <<broker, clock, facts, perm, conn, made, starts, rows, book, locks, faults>>

\* A pushed event: only a fill is kept.
StreamEvent ==
    /\ jobs["stream"] # Idle /\ jobs["stream"].seen < Len(facts)
    /\ LET f == facts[jobs["stream"].seen + 1]
       IN IF f.table # "trade" \/ Alive("stream")
          THEN /\ rows' = IF f.table = "trade" THEN Upsert(rows, BinanceRow(f)) ELSE rows
               /\ jobs' = [jobs EXCEPT !["stream"].seen = @ + 1]
          ELSE End("stream") /\ UNCHANGED rows
    /\ UNCHANGED <<broker, clock, facts, perm, conn, made, starts, book, locks, faults>>

StreamDrops ==
    /\ jobs["stream"] # Idle /\ faults < MaxFaults[broker]
    /\ faults' = faults + 1
    /\ End("stream")
    /\ UNCHANGED <<broker, clock, facts, perm, conn, made, starts, rows, book, locks>>

BinanceSave(w) ==
    /\ jobs[w].pc = "save"
    /\ AllSaved(w, "synced") \/ \E f \in jobs[w].got.queue : SaveFact(w, f, BinanceRow(f))

\* A call that fails, or is refused, ends the cycle.
BinanceFails(w) == Fails(w, {"held", "list"})

BinanceStep(w) ==
    \/ InsertConnection(w, "held", Never)
    \/ RunSync(w, "held")
    \/ \E listed \in {{}, BinanceAssets} : BinanceHeld(w, listed)
    \/ BinanceList(w)
    \/ BinanceSave(w)
    \/ jobs[w].pc = "synced" /\ MarkSynced(w, jobs[w].got.upto)
    \/ BinanceFails(w)

BinanceNext ==
    \/ \E w \in Workers : BinanceStep(w)
    \/ EnsureStream \/ StreamEvent \/ StreamDrops
    \/ RunDisconnect(EmptyBinance)

=============================================================================
