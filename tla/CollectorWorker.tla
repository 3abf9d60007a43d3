--------------------------- MODULE CollectorWorker ---------------------------
(***************************************************************************)
(* The collector worker: the commands the API starts (connect, sync,       *)
(* disconnect), the scheduler that syncs whatever is due, and their        *)
(* crashes, over the five brokers' syncs.                                  *)
(***************************************************************************)
EXTENDS BinanceSync, CoinbaseSync, KrakenSync, WalletSync, IbkrSync

EmptyBook(b) ==
    CASE b = "coinbase" -> EmptyCoinbase
      [] b = "wallet" -> EmptyWallet
      [] b = "ibkr" -> EmptyIbkr
      [] OTHER -> << >>

Init ==
    /\ broker \in Brokers
    /\ clock = 0
    /\ facts = << >>
    /\ perm = "read"
    /\ conn = NoConn
    /\ made = 0
    /\ starts = 0
    /\ rows = << >>
    /\ book = EmptyBook(broker)
    /\ jobs = [w \in Workers \cup {"stream"} |-> Idle]
    /\ locks = [l \in {"sync", "verify"} |-> Nobody]
    /\ faults = 0

\* A process dies: what it had written stays, its locks go.  The scheduler
\* takes its trade streams with it.
Crash(w) ==
    /\ jobs[w] # Idle /\ faults < MaxFaults[broker]
    /\ faults' = faults + 1
    /\ jobs' = [jobs EXCEPT ![w] = Idle, !["stream"] = IF w = "scheduler" THEN Idle ELSE @]
    /\ locks' = Released(w)
    /\ book' = IF broker = "coinbase" /\ jobs[w].pc \in Recording THEN [book EXCEPT !.torn = TRUE] ELSE book
    /\ UNCHANGED <<broker, clock, facts, perm, conn, made, starts, rows>>

BrokerNext ==
    \/ broker = "binance" /\ BinanceNext
    \/ broker = "coinbase" /\ CoinbaseNext
    \/ broker = "kraken" /\ KrakenNext
    \/ broker = "wallet" /\ WalletNext
    \/ broker = "ibkr" /\ IbkrNext

Next ==
    \/ Happen \/ Tick \/ Widen
    \/ \E w \in Workers, k \in Credentials : RunConnect(w, k)
    \/ \E w \in Workers : CheckKey(w) \/ Crash(w)
    \/ BrokerNext

Spec == Init /\ [][Next]_vars

(***************************************************************************)
(* Properties.                                                             *)
(***************************************************************************)
\* The listings a broker's facts can be read from and that give each fact an
\* identity of its own.
Identified ==
    CASE broker = "binance" -> {"trade", "flow", "reward"}
      [] broker = "coinbase" -> {"fill"}
      [] broker = "kraken" -> {"trade", "ledger"}
      [] OTHER -> {}

Listed == {facts[i].id : i \in {j \in DOMAIN facts : facts[j].table \in Identified}}
Held ==
    IF Identified = {} THEN [f \in {} |-> 0]
    ELSE [f \in {rows[i].fact : i \in DOMAIN rows} |-> Cardinality({i \in DOMAIN rows : rows[i].fact = f})]

Store == INSTANCE FactStore WITH FactIds <- Nat \ {0}, reported <- Listed, held <- Held

\* Refinement: whatever the interleaving of a command, the scheduler, the
\* trade stream and their crashes, each broker's rows are a FactStore: no fact
\* twice (a stream and a cycle both bring the same fill, syncs overlap at the
\* boundary second), none invented, none lost but by disconnecting.
HoldsEachOnce == Store!StoreSpec

\* Kraken and Coinbase: once a sync has gone through, every fact that was
\* listed when it read is stored -- although each sync asks only for what is
\* newer than what it holds, and earlier ones were cut short anywhere.
SyncedIsCurrent ==
    (broker \in {"kraken", "coinbase"} /\ conn # NoConn) =>
        \A i \in (conn.from + 1)..conn.upto : facts[i].table \in Identified => Stored(facts[i])

\* Kraken: nothing older than the newest row held is missing, so asking from
\* that row on never skips a fact -- also in the middle of a sync, and after
\* one that died half way through its inserts.
NoGap ==
    (broker = "kraken" /\ conn # NoConn) =>
        \A t \in Identified : \A i \in (conn.from + 1)..Len(facts) :
            (facts[i].table = t /\ facts[i].time < LatestTime(t)) => Stored(facts[i])

SumLegs(flows, asset) ==
    MapThenSumSet(LAMBDA f : Total(SelectSeq(f.legs, LAMBDA leg : leg.asset = asset)), flows)

\* Kraken: once a sync has seen everything, the trades and flows the engine
\* reads change every balance by what the account's own ledger says, and what
\* is taken for money put in or out is that of the deposits, withdrawals and
\* futures transfers -- a trade is in two listings, a conversion and a staking
\* move on two lines, and syncs may have stored any part of them.
KrakenBooked ==
    (broker = "kraken" /\ conn # NoConn /\ conn.upto = Len(facts)) =>
        LET happened == {f \in Range(facts) : f.table = "ledger" /\ f.time >= conn.since}
            Change(lines, a) == MapThenSumSet(Net, {l \in lines : l.asset = a})
            flows == Classify(KrakenLines("ledger"))
            trades == {[source |-> t.id, legs |-> KrakenTrade(t)] : t \in KrakenLines("trade")}
        IN \A a \in {f.asset : f \in happened} :
              /\ SumLegs(trades, a) + SumLegs(flows, a) = Change(happened, a)
              /\ SumLegs({f \in flows : f.family \in {"deposit", "withdrawal"}}, a)
                    = Change({l \in happened : l.type \in {"deposit", "withdrawal", "transfer futures"}}, a)

\* Coinbase: between the first snapshot and the last, the inferred transfers
\* of each asset add up to the real ones: no fill is taken for a transfer, no
\* transfer counted twice or left out -- unless a recording was torn.
CoinbaseBooked ==
    (/\ broker = "coinbase" /\ ~book.torn /\ book.snaps # << >>
     /\ \A w \in Workers : jobs[w].pc \notin Recording) =>
        \A a \in CoinbaseAssets :
            SumLegs(CoinbaseFlows, a) = Moved(a, book.snaps[1].seen + 1, Last(book.snaps).seen)

\* A wallet: on every network the flows read from the effects, explained or
\* not, add up to the balance of the last reading less that of the first, and
\* what of it is not money in or out is only the gas paid: a transfer the
\* explorer misses never becomes a gain -- across failed networks, crashes and
\* tokens that drop out of a listing.
WalletTelescopes ==
    broker = "wallet" =>
        LET flows == WalletFlows(Range(book.effects))
            paid == {e \in Range(book.effects) : e.kind = "gas"}
        IN \A net \in Networks : book.state[net] # Never =>
              /\ SumLegs(flows, net) = book.anchor[net] - book.first[net]
              /\ SumLegs({f \in flows : f.family \notin {"deposit", "withdrawal"}}, net)
                    = MapThenSumSet(LAMBDA e : IF e.net = net THEN e.amt ELSE 0, paid)

\* IBKR: once a sync has gone through, the flows and trades since the day of
\* the connection are told in full and once, and a day's stored total is the
\* final one when the sync saw all of the day; with nothing new since, the
\* index has not moved unless the market did, and the change shown is what the
\* market made after the first day, if no flow is of that day -- as long as no
\* two flows of a day are equal and the report still reaches back to the first
\* fact.
IbkrTold ==
    (/\ broker = "ibkr" /\ conn # NoConn /\ conn.last # Never
     /\ clock <= ReportWindow
     /\ \A i, j \in DOMAIN facts : (facts[i].table = "flow" /\ facts[j].table = "flow" /\ i # j)
            => <<facts[i].time, facts[i].amt>> # <<facts[j].time, facts[j].amt>>) =>
        /\ \A i \in 1..conn.upto :
              (facts[i].table \in {"flow", "trade"} /\ facts[i].time >= conn.since) =>
                  Cardinality({j \in DOMAIN rows : rows[j].fact = i}) = 1
        /\ ~book.overlapped => \A d \in DOMAIN book.total :
              (\A i \in DOMAIN facts : facts[i].time <= d => i <= conn.upto) => book.total[d] = TotalOn(d)
        /\ (~book.overlapped /\ conn.upto = Len(facts) /\ Days # << >>) =>
              LET gains == SelectSeq(facts, LAMBDA f : f.table = "gain" /\ f.time > Days[1] /\ f.time <= Last(Days))
              IN /\ gains = << >> => \A i \in DOMAIN BuildIndex : BuildIndex[i] = One
                 /\ FlowsOf(Days[1]) = 0 => TotalChange = Total(gains)

(***************************************************************************)
(* The inductive invariant of HoldsEachOnce, SyncedIsCurrent and NoGap.    *)
(***************************************************************************)
Connection ==
    [id : Nat \ {0}, key : Credentials, since : Nat, from : Nat, last : Nat \cup {Never},
     verified : Nat \cup {Never}, upto : Nat]

\* What the broker holds, in the order of time.
FactsOrdered ==
    \A i \in DOMAIN facts :
        /\ facts[i].id = i /\ facts[i].time \in 0..clock
        /\ \A j \in DOMAIN facts : i < j => facts[i].time <= facts[j].time

\* A connection is younger than every one before it, and what it follows
\* happened after it was made.
ConnectionHolds ==
    conn # NoConn =>
        /\ conn.id <= made /\ conn.from <= Len(facts) /\ conn.upto <= Len(facts) /\ conn.since <= clock
        /\ \A i \in DOMAIN facts : i > conn.from => facts[i].time >= conn.since

RowOf(f) ==
    CASE broker = "binance" -> BinanceRow(f)
      [] broker = "coinbase" -> CoinbaseRow(f)
      [] OTHER -> KrakenRow(f)

\* Every row is of a fact, and no two rows share a key.
RowsAreFacts ==
    Identified # {} =>
        /\ \A i \in DOMAIN rows : \E f \in Range(facts) : f.table \in Identified /\ rows[i] = RowOf(f)
        /\ \A i, j \in DOMAIN rows : rows[i].key = rows[j].key => i = j

\* A fact since the connection that has an identity and is not stored.
Missing(f) == f \in Range(facts) /\ f.id > conn.from /\ f.table \in Identified /\ ~Stored(f)

\* What the broker was asked for is newer than no missing fact.
NothingSkipped ==
    (broker = "kraken" /\ conn # NoConn) =>
        \A f \in Range(facts) : Missing(f) =>
            \A i \in DOMAIN rows : rows[i].table = f.table => rows[i].time <= f.time

(***************************************************************************)
(* What one process knows.                                                 *)
(***************************************************************************)
JobFields == {"pc", "id", "key", "force", "existing", "got"}

\* It has read how far the facts go.
Informed == {"list", "trades", "ledger", "fills", "store", "save", "synced",
             "decide", "record", "snapshot", "reconcile"}
HasUpto(j) ==
    (broker # "wallet" /\ j.pc \in Informed) => "upto" \in DOMAIN j.got /\ j.got.upto \in 0..Len(facts)

\* What it has fetched are facts, of listings that give them an identity.
HasFacts(j) ==
    (Identified # {} /\ j.pc \in {"trades", "ledger", "fills", "save"}) =>
        "queue" \in DOMAIN j.got /\ \A f \in j.got.queue : f \in Range(facts) /\ f.table \in Identified

Serves(j) == conn # NoConn /\ conn.id = j.id

\* Kraken: what it is about to ask for leaves out nothing that is missing.
AsksForAll(j) ==
    (broker = "kraken" /\ j.pc \in {"trades", "ledger"}) =>
        /\ "from" \in DOMAIN j.got
        /\ Serves(j) => \A f \in Range(facts) : Missing(f) => f.time >= j.got.from[f.table]
        /\ \A t \in Identified : j.got.from[t] \in 0..clock

\* What is missing and not among the fetched facts happened after it fetched,
\* so it is newer than all of them.
Awaits(j, f) == j.pc \in {"ledger", "save"} /\ f \in j.got.queue
Covers(j, f) ==
    \/ j.pc \in {"save", "decide", "record", "snapshot", "reconcile", "synced"}
    \/ j.pc = "ledger" /\ f.table = "trade"
HasCovered(j) ==
    (broker \in {"kraken", "coinbase"} /\ Serves(j)) =>
        \A f \in Range(facts) : (Missing(f) /\ Covers(j, f) /\ ~Awaits(j, f)) =>
            /\ f.id > j.got.upto
            /\ j.pc \in {"ledger", "save"} => \A g \in j.got.queue : g.table = f.table => g.time <= f.time

JobHolds(j) ==
    \/ j = Idle
    \/ /\ DOMAIN j = JobFields /\ j.id \in 0..made /\ j.key \in Credentials
       /\ HasUpto(j) /\ HasFacts(j) /\ AsksForAll(j) /\ HasCovered(j)

StreamHolds(j) == j = Idle \/ (DOMAIN j = {"pc", "id", "seen"} /\ j.id \in 0..made /\ j.seen \in Nat)

TypeOK ==
    /\ broker \in Brokers
    /\ clock \in Nat /\ made \in Nat
    /\ facts \in Seq(Range(facts)) /\ rows \in Seq(Range(rows))
    /\ conn \in {NoConn} \cup Connection
    /\ DOMAIN jobs = Workers \cup {"stream"}

IInv ==
    /\ TypeOK /\ FactsOrdered /\ ConnectionHolds /\ RowsAreFacts /\ NothingSkipped /\ SyncedIsCurrent
    /\ \A w \in Workers : JobHolds(jobs[w])
    /\ StreamHolds(jobs["stream"])

=============================================================================
