----------------------------- MODULE TrackRecord -----------------------------
(***************************************************************************)
(* One connected account: what happens in it, what of that the worker has  *)
(* collected, and a command that reads the collected record while both go  *)
(* on -- `performance`/`series`, `trades` page by page, or                 *)
(* `prove-performance` with the export and the verification that follow.   *)
(*                                                                         *)
(* Commands are processes of their own that write nothing another one      *)
(* reads, so a behaviour follows one of them (`reader`).  A command reads  *)
(* the clock, then the stored trades, then the stored flows, then the live *)
(* balances: each is a step, and the account and the collection move on in *)
(* between.                                                                *)
(***************************************************************************)
EXTENDS Verification, TradeLog

CONSTANTS
    Readers,             \* the commands the behaviours follow
    Opening,             \* the balances an account can have when it is connected
    Listings,            \* the sets of assets that can have a market against Quote, per reader
    Prices,              \* the prices each asset can have, per reader
    Moves,               \* what can happen in the account, per reader
    Queries,             \* what can be asked of the trade log
    Window, StepWidth,   \* a range of the series and the distance of its points
    Keys,                \* the keys collectors sign with
    TrustLists,          \* the lists of collectors a verifier may hold
    Anchors,             \* the anchors the verifier obtained on its own
    Account,             \* the account's public identifier
    MaxNow, MaxEvents,   \* bounds, per reader
    MaxEdits             \* how many times a bundle is changed after its export

ASSUME TrackRecordAssumption ==
    /\ Readers \subseteq {"performance", "trades", "prove"}
    /\ \A r \in Readers : MaxNow[r] \in Nat /\ MaxEvents[r] \in Nat
    /\ \A r \in Readers : \A m \in Moves[r] :
          /\ {"kind", "symbol", "price", "time", "seq", "id"} \subseteq DOMAIN m
          /\ m.kind = "trade" => m.symbol \in DOMAIN SymbolOrder
    /\ Queries \subseteq [symbol : {"any"} \cup DOMAIN SymbolOrder, from : Int, until : Int,
                          after : {NoCursor}, limit : Nat]
    /\ \A q \in Queries : Acceptable(q)
    /\ \A list \in TrustLists : \A key \in DOMAIN list : list[key].from \in Int /\ list[key].until \in Int

VARIABLES
    reader,   \* the command this behaviour follows
    now,      \* the time, in ticks; the account was connected at 1
    marks,    \* the market prices of every tick so far
    listed,   \* the assets with a market against Quote
    holds,    \* what the account holds
    past,     \* what it held at the end of every tick gone by
    log,      \* everything that has happened in it, in order
    stored,   \* the places of the log that have been collected
    cmd,      \* what the command has read so far
    answer,   \* what it answered
    proven,   \* the journals the guest has committed, with the figures they are about
    bundle,   \* the exported bundle, as it reaches the verifier
    edits,    \* how often it was changed on the way
    verdict   \* the verifier's answer

account == <<now, marks, listed, holds, past, log>>
vars == <<reader, now, marks, listed, holds, past, log, stored, cmd, answer, proven, bundle, edits, verdict>>

Since == 1
None == [made |-> FALSE]
Waiting == [pc |-> "start"]

Init ==
    /\ reader \in Readers
    /\ now = Since
    /\ marks \in {<<p>> : p \in Prices[reader]}
    /\ listed \in Listings[reader]
    /\ holds \in Opening
    /\ past = << >> /\ log = << >> /\ stored = {}
    /\ cmd = Waiting /\ answer = None
    /\ proven = None /\ bundle = None /\ edits = 0 /\ verdict = None

(***************************************************************************)
(* The account at the broker, and the worker that collects it (external:   *)
(* the collection itself is CollectorWorker).                              *)
(***************************************************************************)
Growing == answer = None /\ verdict = None

Tick ==
    /\ Growing \/ bundle # None
    /\ now < MaxNow[reader]
    /\ now' = now + 1
    /\ \E p \in Prices[reader] : marks' = Append(marks, p)
    /\ past' = Append(past, holds)
    /\ UNCHANGED <<reader, listed, holds, log, stored, cmd, answer, proven, bundle, edits, verdict>>

PriceNow(a) == IF a = Quote THEN 1 ELSE marks[now][a]

\* What the broker does to the balances.
After(e) ==
    CASE e.kind = "trade" /\ e.buy ->
            [holds EXCEPT ![Base(e)] = @ + e.qty, ![QuoteOf(e)] = @ - e.qty * e.price]
      [] e.kind = "trade" /\ ~e.buy ->
            [holds EXCEPT ![Base(e)] = @ - e.qty, ![QuoteOf(e)] = @ + e.qty * e.price]
      [] e.kind = "withdrawal" -> [holds EXCEPT ![e.asset] = @ - e.qty - e.fee]
      [] OTHER -> [holds EXCEPT ![e.asset] = @ + e.qty]

Charged(h, e) == IF e.kind = "trade" THEN [h EXCEPT ![e.feeAsset] = @ - e.fee] ELSE h

\* A trade at the market, a deposit, a withdrawal, a reward.  The exchange
\* numbers trades per market.
Happen ==
    /\ Growing /\ Len(log) < MaxEvents[reader]
    /\ \E m \in Moves[reader] :
          LET price == IF m.kind = "trade" THEN PriceNow(Base(m)) \div PriceNow(QuoteOf(m)) ELSE 0
              id == 1 + Cardinality({i \in DOMAIN log : log[i].kind = "trade" /\ log[i].symbol = m.symbol})
              e == [m EXCEPT !.price = price, !.time = now, !.seq = Len(log) + 1, !.id = id]
          IN /\ m.kind = "trade" => PriceNow(Base(m)) = price * PriceNow(QuoteOf(m))
             /\ holds' = Charged(After(e), e)
             /\ \A a \in Assets : holds'[a] >= 0
             /\ log' = Append(log, e)
    /\ UNCHANGED <<reader, now, marks, listed, past, stored, cmd, answer, proven, bundle, edits, verdict>>

\* The worker stores what has happened: for the trade log one event at a time
\* (markets are read one after another, so not in the order things happened),
\* for the figures a sync at a time -- of a record that is not complete the
\* properties of the figures say nothing, whatever is missing.
Collect ==
    /\ Growing
    /\ \E i \in DOMAIN log \ stored :
          stored' = IF reader = "trades" THEN stored \cup {i} ELSE DOMAIN log
    /\ UNCHANGED <<reader, now, marks, listed, holds, past, log, cmd, answer, proven, bundle, edits, verdict>>

Rows(kinds) == {log[i] : i \in {j \in stored : log[j].kind \in kinds}}
TradeRows == Rows({"trade"})
FlowRows == Rows({"deposit", "withdrawal", "reward"})

(***************************************************************************)
(* `performance` and `series`: the clock first, then the stored record,    *)
(* then the balances as they are by then.                                  *)
(***************************************************************************)
ReadClock ==
    /\ reader \in {"performance", "prove"} /\ cmd = Waiting
    /\ cmd' = [pc |-> IF reader = "prove" THEN "rawTrades" ELSE "trades",
               now |-> now, raw |-> {}, events |-> {}]
    /\ UNCHANGED <<reader, account, stored, answer, proven, bundle, edits, verdict>>

\* prove-performance loads the record twice: once to commit to it ...
LoadRaw ==
    /\ cmd.pc \in {"rawTrades", "rawFlows"}
    /\ cmd' = [cmd EXCEPT !.pc = IF @ = "rawTrades" THEN "rawFlows" ELSE "trades",
                          !.raw = @ \cup (IF cmd.pc = "rawTrades" THEN TradeRows ELSE FlowRows)]
    /\ UNCHANGED <<reader, account, stored, answer, proven, bundle, edits, verdict>>

\* ... and once to compute from it.
LoadTrades ==
    /\ cmd.pc = "trades"
    /\ cmd' = [cmd EXCEPT !.pc = "flows", !.events = TradeRows]
    /\ UNCHANGED <<reader, account, stored, answer, proven, bundle, edits, verdict>>

LoadFlows ==
    /\ cmd.pc = "flows"
    /\ cmd' = [cmd EXCEPT !.pc = "balances", !.events = @ \cup FlowRows]
    /\ UNCHANGED <<reader, account, stored, answer, proven, bundle, edits, verdict>>

\* The market is opened without a sync: live balances and prices, nothing stored.
OpenMarket == [balances |-> holds, marks |-> marks, listed |-> listed]

ReadSoFar ==
    [balances |-> OpenMarket.balances, marks |-> OpenMarket.marks, listed |-> OpenMarket.listed,
     events |-> cmd.events, since |-> Since, now |-> cmd.now]

RunHistory == ComputeHistory(ReadSoFar)
RunSeries == ComputeSeries(ReadSoFar, Window, StepWidth)
RunNav == CurrentNav(holds, listed, marks, now)

Performance ==
    /\ reader = "performance" /\ cmd.pc = "balances"
    /\ answer' = [read |-> ReadSoFar, history |-> RunHistory, series |-> RunSeries, nav |-> RunNav]
    /\ cmd' = [cmd EXCEPT !.pc = "done"]
    /\ UNCHANGED <<reader, account, stored, proven, bundle, edits, verdict>>

(***************************************************************************)
(* `trades`, a page per command.                                           *)
(***************************************************************************)
AskTrades ==
    /\ reader = "trades" /\ cmd = Waiting
    /\ \E q \in Queries : cmd' = [pc |-> "page", query |-> q, seen |-> << >>, had |-> TradeRows]
    /\ UNCHANGED <<reader, account, stored, answer, proven, bundle, edits, verdict>>

ReadPage ==
    /\ cmd.pc = "page"
    /\ LET page == Page(TradeRows, cmd.query)
       IN cmd' = [cmd EXCEPT !.seen = @ \o page.trades, !.query.after = page.next,
                             !.pc = IF page.next = NoCursor THEN "done" ELSE "page"]
    /\ UNCHANGED <<reader, account, stored, answer, proven, bundle, edits, verdict>>

(***************************************************************************)
(* `prove-performance`, the export and the verification.                   *)
(***************************************************************************)
\* prove_performance: fewer than two points, a refused history or a series the
\* guest rejects, and there is no proof.
ProvePerformance(key, history) ==
    LET input == GuestInput(key, Envelope(Account, cmd.raw, history, cmd.now), history)
        journal == GuestRun(input)
    IN IF history.ok /\ Len(history.index) >= 2 /\ journal # Rejected
       THEN [journal |-> journal, index |-> history.index] ELSE None

Prove ==
    /\ reader = "prove" /\ cmd.pc = "balances"
    /\ \E key \in Keys : proven' = ProvePerformance(key, RunHistory)
    /\ answer' = [made |-> TRUE]
    /\ cmd' = [cmd EXCEPT !.pc = "done"]
    /\ UNCHANGED <<reader, account, stored, bundle, edits, verdict>>

Manifest(files) == files

\* The public bundle: every file listed with its hash.
Export ==
    /\ proven # None /\ bundle = None
    /\ LET files == [accounts |-> [root |-> <<Account>>, members |-> <<Account>>],
                     proofs |-> [receipt |-> Receipt(proven.journal), journal |-> proven.journal],
                     anchors |-> "anchored",
                     checkpoints |-> [last |-> 0, gaps |-> DeriveGaps(0, now)]]
       IN bundle' = [manifest |-> Manifest(files), files |-> files]
    /\ UNCHANGED <<reader, account, stored, cmd, answer, proven, edits, verdict>>

\* What a file of a bundle can have become on the way.
Changed(f, content) ==
    CASE f = "accounts" -> {[content EXCEPT !.members = << >>], [content EXCEPT !.members = Append(@, "other")]}
      [] f = "proofs" ->
            {[content EXCEPT !.journal.twr = @ + 1],
             [content EXCEPT !.receipt.journal.twr = @ + 1, !.journal.twr = @ + 1],
             [content EXCEPT !.receipt.image = "another"]}
      [] f = "anchors" -> {"unknown"}
      [] f = "checkpoints" -> {[content EXCEPT !.gaps = << >>], [content EXCEPT !.last = @ + 1]}

\* A file is changed or lost after the export; the manifest may be made anew.
ChangeBundle ==
    /\ bundle # None /\ verdict = None /\ edits < MaxEdits
    /\ edits' = edits + 1
    /\ \E f \in DOMAIN bundle.files, anew \in BOOLEAN :
          LET kept == [g \in DOMAIN bundle.files \ {f} |-> bundle.files[g]]
          IN \E files \in {kept} \cup {[bundle.files EXCEPT ![f] = c] : c \in Changed(f, bundle.files[f])} :
                bundle' = [files |-> files, manifest |-> IF anew THEN Manifest(files) ELSE bundle.manifest]
    /\ UNCHANGED <<reader, account, stored, cmd, answer, proven, verdict>>

\* linvesther-verify, with the list its operator holds today.
VerifyBundle ==
    /\ bundle # None /\ verdict = None
    /\ \E trust \in TrustLists :
          verdict' = [result |-> Verify(bundle, trust, Anchors, now), trust |-> trust, at |-> now]
    /\ UNCHANGED <<reader, account, stored, cmd, answer, proven, bundle, edits>>

Next ==
    \/ Tick \/ Happen \/ Collect
    \/ ReadClock \/ LoadRaw \/ LoadTrades \/ LoadFlows \/ Performance
    \/ AskTrades \/ ReadPage
    \/ Prove \/ Export \/ ChangeBundle \/ VerifyBundle

Spec == Init /\ [][Next]_vars

(***************************************************************************)
(* Properties.                                                             *)
(***************************************************************************)
Answered == reader = "performance" /\ answer # None

\* The record the figures are made of is all there is: everything that had
\* happened when the balances were read was loaded, and none of it after the
\* clock was read.
Complete(read) == read.events = Range(log) /\ \A e \in read.events : e.time <= read.now

HeldAt(t) == IF t = now THEN holds ELSE past[t]
WorthAt(t) == LET p == answer.read IN Sum({a \in Assets : InScope(p, a)}, LAMBDA a : HeldAt(t)[a] * PriceAt(p, a, t))

\* The value shown at every point of the history and of the series is what the
\* account really held then at the prices of then, rebuilt from nothing but
\* today's balances and the stored events, fees included -- for every record
\* that was complete when it was read.
HoldingsRebuilt ==
    (Answered /\ Complete(answer.read)) =>
        \A r \in {answer.history, answer.series} : r.ok =>
            \A i \in DOMAIN r.grid : r.nav[i] = WorthAt(r.grid[i])

Still(read) == \A t \in Since..read.now : read.marks[t] = read.marks[Since]

\* Depositing and withdrawing is neither gain nor loss: while prices stand
\* still and no trading fee or reward is booked, the return index stays 1 at
\* every point, whatever is moved in and out or exchanged -- provided nothing
\* moves at the first instant itself and nothing goes into an asset without a
\* market.
FlowsAreNotGains ==
    (/\ Answered /\ Complete(answer.read) /\ Still(answer.read)
     /\ \A e \in answer.read.events : e.kind # "reward" /\ (e.kind = "trade" => e.fee = 0)
                                        /\ \A a \in Assets : Touches(e, a) => InScope(answer.read, a)) =>
        \A r \in {answer.history, answer.series} :
            (r.ok /\ \A e \in answer.read.events : e.kind \in {"deposit", "withdrawal"} => e.time # Head(r.grid)) =>
                \A i \in DOMAIN r.index : r.index[i] = One

\* Realized and unrealized profit together are what the account gained: its
\* value now, less its value at the connection, less what was put in, plus
\* the trading fees, which are shown apart -- with no units withdrawn (they
\* leave at cost), no reward (it has no cost), and nothing in the instant of
\* the connection (it would be both in the opening balance and an event).
PnlAddsUp ==
    (/\ Answered /\ Complete(answer.read) /\ answer.history.ok
     /\ \A e \in answer.read.events :
           /\ e.kind # "reward" /\ (e.kind = "withdrawal" => e.asset = Quote)
           /\ e.time > Since
           /\ \A a \in Assets : Touches(e, a) => InScope(answer.read, a)) =>
        LET h == answer.history
            putIn == Sum(External(answer.read), LAMBDA e : FlowValue(answer.read, e))
            fees == Sum(Trades(answer.read), LAMBDA e : e.fee)
        IN Plus(h.pnl.realized, h.pnl.unrealized) = Int2Rat(Last(h.nav) - Head(h.nav) - putIn + fees)

\* Reading page after page, with trades still being stored, gives no trade
\* twice, keeps the order, and leaves out none that was there at the start.
PagesCoverLog ==
    (reader = "trades" /\ cmd.pc \in {"page", "done"}) =>
        /\ \A i, j \in DOMAIN cmd.seen : i < j => Before(cmd.seen[i], cmd.seen[j])
        /\ cmd.pc = "done" =>
              \A t \in cmd.had : Matches(t, [cmd.query EXCEPT !.after = NoCursor]) => t \in Range(cmd.seen)

\* The proof says what the record says: the return the guest commits to is
\* the shown index and the drawdown the shown one, up to the guest's roundings.
ProvenIsShown ==
    proven # None =>
        LET j == proven.journal
            bp == Round(Times(MaxDrawdown(proven.index), Int2Rat(10000)))
        IN /\ Abs(j.twr - Round(Times(Last(proven.index), Int2Rat(Scale)))) <= Len(proven.index)
           /\ Abs(j.mdd - bp) <= (2 * 10000) \div Scale

\* A clean exit of the verifier means: the figures shown are those the guest
\* committed to, over an envelope signed by a collector the verifier lists,
\* does not hold revoked and trusts for the end of the period; the anchor is
\* one it obtained itself; no missed interval is left out -- whatever became of
\* the bundle since its export, and however late it is verified.
VerdictSound ==
    (verdict # None /\ verdict.result.exit = 0) =>
        LET shown == bundle.files["proofs"].journal
            c == verdict.trust[shown.signer]
        IN /\ shown = proven.journal /\ shown.digest.normalized = proven.index
           /\ shown.signer \in DOMAIN verdict.trust
           /\ ~c.revoked /\ c.from <= shown.end /\ shown.end <= c.until
           /\ bundle.files["anchors"] \in Anchors
           /\ \A k \in 1..verdict.at :
                 bundle.files["checkpoints"].last + k * Interval + Grace <= verdict.at =>
                     Len(bundle.files["checkpoints"].gaps) >= k

(***************************************************************************)
(* The inductive invariant, for what does not turn on the figures: the     *)
(* trade log and the verdict.                                              *)
(***************************************************************************)
IsTrade(row) == row.kind = "trade"
TradesOf(symbol) == {i \in DOMAIN log : IsTrade(log[i]) /\ log[i].symbol = symbol}

\* The exchange numbers the trades of a market upwards, so no two trades share
\* their place in the order of the log.
LogNumbered ==
    /\ log \in Seq(Range(log)) /\ stored \subseteq DOMAIN log
    /\ \A i \in DOMAIN log : IsTrade(log[i]) =>
          /\ log[i].time \in Nat /\ log[i].symbol \in DOMAIN SymbolOrder
          /\ log[i].id \in 1..Cardinality(TradesOf(log[i].symbol))
    /\ \A i, j \in DOMAIN log :
          (i < j /\ IsTrade(log[i]) /\ IsTrade(log[j]) /\ log[i].symbol = log[j].symbol) => log[i].id < log[j].id

\* A command at work on the figures or the proof.
Computes ==
    /\ DOMAIN cmd = {"pc", "now", "raw", "events"}
    /\ cmd.pc \in {"rawTrades", "rawFlows", "trades", "flows", "balances", "done"}
    /\ cmd.now \in Nat

Resumed(query, cursor) == [query EXCEPT !.after = cursor]
Asked == Resumed(cmd.query, NoCursor)

\* What has been handed out is in order and was asked for; the cursor is the
\* last of it; and of the trades that were there at the start only those behind
\* the cursor are still to come.
Pages ==
    /\ DOMAIN cmd = {"pc", "query", "seen", "had"}
    /\ cmd.pc \in {"page", "done"}
    /\ \E q \in Queries : cmd.query = Resumed(q, cmd.query.after)
    /\ cmd.had \subseteq TradeRows /\ cmd.seen \in Seq(TradeRows)
    /\ \A i, j \in DOMAIN cmd.seen : i < j => Before(cmd.seen[i], cmd.seen[j])
    /\ cmd.pc = "page" =>
          \/ cmd.query.after = NoCursor /\ cmd.seen = << >>
          \/ cmd.seen # << >> /\ cmd.query.after = CursorOf(Last(cmd.seen))
    /\ \A t \in cmd.had : Matches(t, Asked) =>
          t \in Range(cmd.seen) \/ (cmd.pc = "page" /\ Matches(t, cmd.query))

\* The guest's journal is about the figures that were shown to it.
ProvenHolds ==
    proven # None =>
        /\ cmd.pc = "done"
        /\ proven.journal.digest.normalized = proven.index /\ proven.journal.end \in Int

\* Whatever becomes of a bundle, what its receipt seals is what was proven.
BundleHolds ==
    bundle # None =>
        /\ proven # None
        /\ DOMAIN bundle.files \subseteq {"accounts", "proofs", "anchors", "checkpoints"}
        /\ "proofs" \in DOMAIN bundle.files =>
              LET f == bundle.files["proofs"]
              IN /\ DOMAIN f = {"receipt", "journal"}
                 /\ DOMAIN f.receipt = {"image", "sealed", "journal"}
                 /\ f.receipt.sealed = proven.journal
        /\ "checkpoints" \in DOMAIN bundle.files =>
              LET f == bundle.files["checkpoints"] IN DOMAIN f = {"last", "gaps"} /\ f.last \in Int

TypeOK ==
    /\ reader \in Readers /\ now \in Nat
    /\ cmd = Waiting \/ IF reader = "trades" THEN Pages ELSE Computes

IInv ==
    /\ TypeOK /\ LogNumbered /\ ProvenHolds /\ BundleHolds
    /\ verdict # None => bundle # None
    /\ VerdictSound

=============================================================================
