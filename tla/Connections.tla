----------------------------- MODULE Connections -----------------------------
(***************************************************************************)
(* A connected account of the collector worker: its row in a broker's      *)
(* connections table, the processes that read the broker for it (a command *)
(* started by the API, and the long-running scheduler), and the facts the  *)
(* broker holds about the account. What each broker's sync does with them  *)
(* is in BinanceSync, CoinbaseSync, KrakenSync, WalletSync and IbkrSync.   *)
(*                                                                         *)
(* The five brokers keep their rows in tables of their own and share none, *)
(* so a behaviour follows one broker (`broker`), chosen at the start.      *)
(*                                                                         *)
(* A process executes one database statement or one call of the broker per *)
(* step, and may die between any two.                                      *)
(***************************************************************************)
EXTENDS Integers, Sequences, FiniteSets, SequencesExt, FiniteSetsExt

CONSTANTS
    Brokers,       \* the brokers the behaviours follow
    Credentials,   \* what a person can connect with: keys, or wallet addresses
    Workers,       \* the processes: "cli" commands and the "scheduler"
    Moves,         \* what can happen to the account, per broker: sequences of lines
    MaxClock, MaxFacts, MaxFaults, MaxStarts,  \* bounds of the exploration, per broker
    MaxEvents,     \* how many times something happens to the account
    SyncInterval   \* BINANCE_WORKER_SYNC_INTERVAL_SECONDS, in ticks

ASSUME ConnectionsAssumption ==
    /\ Brokers \subseteq {"binance", "coinbase", "kraken", "wallet", "ibkr"}
    /\ \A b \in Brokers : {MaxClock[b], MaxFacts[b], MaxFaults[b], MaxStarts[b]} \subseteq Nat
    /\ SyncInterval \in Nat /\ MaxEvents \in Nat
    /\ Workers \subseteq {"cli", "scheduler"}
    /\ \A b \in Brokers : \A lines \in Moves[b] : lines \in Seq(Range(lines))

VARIABLES
    broker,   \* the broker this behaviour follows
    clock,    \* the time, in ticks
    facts,    \* what has happened at the broker, in order
    perm,     \* what the key may do there: "read", or "trade" once widened
    conn,     \* the connection's row, or NoConn
    made,     \* how many connections have been made (the next UUID)
    starts,   \* how many commands and scheduler passes have begun
    rows,     \* the fact rows collected for the connection, in insertion order
    book,     \* the broker's other tables for the connection
    jobs,     \* what each process is doing
    locks,    \* advisory locks: name -> the process that holds it
    faults    \* calls that failed and processes that died, so far

vars == <<broker, clock, facts, perm, conn, made, starts, rows, book, jobs, locks, faults>>

Never == -1
NoConn == [id |-> 0]
Idle == [pc |-> "idle"]
Nobody == "nobody"

(***************************************************************************)
(* Facts.  A fact is one line of the account at the broker: `table` says   *)
(* which listing shows it, `asset` and `amt` what it did to the balance,   *)
(* `ref` the event it belongs to.                                          *)
(***************************************************************************)
Fact(line, n, ref) ==
    [x \in DOMAIN line \cup {"id", "ref", "time"} |->
        CASE x = "id" -> n [] x = "ref" -> ref [] x = "time" -> clock [] OTHER -> line[x]]

\* What the first n facts add up to for one asset.
Balance(asset, n) ==
    FoldLeft(LAMBDA sum, f : IF f.asset = asset THEN sum + f.amt ELSE sum, 0, SubSeq(facts, 1, n))

Total(seq) == FoldLeft(LAMBDA sum, f : sum + f.amt, 0, seq)

\* Something happens at the broker: one line, or several at once (a trade and
\* its ledger lines, the two sides of a conversion).
Happen ==
    /\ Cardinality({facts[i].ref : i \in DOMAIN facts}) < MaxEvents
    /\ \E lines \in Moves[broker] :
          /\ Len(facts) + Len(lines) <= MaxFacts[broker]
          /\ facts' = facts \o [i \in DOMAIN lines |-> Fact(lines[i], Len(facts) + i, Len(facts) + 1)]
    /\ UNCHANGED <<broker, clock, perm, conn, made, starts, rows, book, jobs, locks, faults>>

Tick ==
    /\ clock < MaxClock[broker]
    /\ clock' = clock + 1
    /\ UNCHANGED <<broker, facts, perm, conn, made, starts, rows, book, jobs, locks, faults>>

\* The person widens the key's permissions at the broker after connecting it.
Widen ==
    /\ broker \in {"binance", "coinbase", "kraken"}
    /\ conn # NoConn /\ perm = "read" /\ faults < MaxFaults[broker]
    /\ perm' = "trade"
    /\ faults' = faults + 1
    /\ UNCHANGED <<broker, clock, facts, conn, made, starts, rows, book, jobs, locks>>

(***************************************************************************)
(* Rows.  Every table of collected facts has the connection and the fact's *)
(* own identity as its primary key, and is written with ON CONFLICT DO     *)
(* NOTHING.                                                                *)
(***************************************************************************)
\* Fault: no conflict clause.
AppendRow(table, row) == Append(table, row)

Upsert(table, row) ==
    IF \E i \in DOMAIN table : table[i].key = row.key THEN table ELSE Append(table, row)

Stored(f) == \E i \in DOMAIN rows : rows[i].fact = f.id

\* The connection a process is working for still exists: its inserts satisfy
\* the foreign key, its updates by id find a row.
Alive(w) == conn # NoConn /\ conn.id = jobs[w].id

(***************************************************************************)
(* Processes.                                                              *)
(***************************************************************************)
Goto(w, pc) == jobs' = [jobs EXCEPT ![w].pc = pc]
GotoWith(w, pc, got) == jobs' = [jobs EXCEPT ![w].pc = pc, ![w].got = got]
End(w) == jobs' = [jobs EXCEPT ![w] = Idle]

\* Advisory locks belong to a database session: they go with the process.
Released(w) == [l \in DOMAIN locks |-> IF locks[l] = w THEN Nobody ELSE locks[l]]

\* Whether `connect` confirms the key before it stores it.
ChecksFirst == broker \in {"coinbase", "kraken"}
ConnectJob(k) == [pc |-> IF ChecksFirst THEN "connect" ELSE "insert", id |-> 0, key |-> k, force |-> TRUE,
                  existing |-> conn # NoConn, got |-> << >>]
SyncJob(force, pc) == [pc |-> pc, id |-> conn.id, key |-> conn.key, force |-> force,
                       existing |-> TRUE, got |-> << >>]

\* `connect`: Coinbase and Kraken confirm the key is read-only before anything
\* is stored; Binance stores first, an IBKR token and an address have nothing
\* to confirm.
RunConnect(w, k) ==
    /\ w = "cli" /\ jobs[w] = Idle
    /\ starts < MaxStarts[broker] /\ starts' = starts + 1
    /\ jobs' = [jobs EXCEPT ![w] = ConnectJob(k)]
    /\ UNCHANGED <<broker, clock, facts, perm, conn, made, rows, book, locks, faults>>

\* The permission check of `connect`: a key that can do more than read is refused.
CheckKey(w) ==
    /\ jobs[w].pc = "connect"
    /\ IF perm = "read" THEN Goto(w, "insert") ELSE End(w)
    /\ UNCHANGED <<broker, clock, facts, perm, conn, made, starts, rows, book, locks, faults>>

\* The upsert of a connection: a new row, or new credentials on the row of the
\* same account, which keeps its id, its creation time and what was collected.
InsertConnection(w, firstPc, verified) ==
    /\ jobs[w].pc = "insert"
    /\ LET fresh == conn = NoConn
           id == IF fresh THEN made + 1 ELSE conn.id
       IN /\ conn' = IF fresh THEN [id |-> id, key |-> jobs[w].key, since |-> clock, from |-> Len(facts),
                                    last |-> Never, verified |-> verified, upto |-> 0]
                     ELSE [conn EXCEPT !.key = jobs[w].key,
                                       !.verified = IF verified = Never THEN @ ELSE verified]
          /\ made' = IF fresh THEN made + 1 ELSE made
          /\ jobs' = [jobs EXCEPT ![w].pc = firstPc, ![w].id = id]
    /\ UNCHANGED <<broker, clock, facts, perm, starts, rows, book, locks, faults>>

\* due_for_sync: never synced, or not for SyncInterval.
Due == conn.last = Never \/ conn.last < clock - SyncInterval

\* `sync` asks outright; the scheduler's pass takes what is due.
RunSync(w, firstPc) ==
    /\ jobs[w] = Idle /\ conn # NoConn
    /\ w = "scheduler" => Due
    /\ starts < MaxStarts[broker] /\ starts' = starts + 1
    /\ jobs' = [jobs EXCEPT ![w] = SyncJob(w = "cli", firstPc)]
    /\ UNCHANGED <<broker, clock, facts, perm, conn, made, rows, book, locks, faults>>

\* Kraken's and a wallet's syncs take a lock: another sync already running counts as done.
TakeSyncLock(w) ==
    /\ jobs[w].pc = "lock"
    /\ IF locks["sync"] = Nobody
       THEN Goto(w, "gap") /\ locks' = [locks EXCEPT !["sync"] = w]
       ELSE End(w) /\ UNCHANGED locks
    /\ UNCHANGED <<broker, clock, facts, perm, conn, made, starts, rows, book, faults>>

\* Within `gap` of now: `at > now() - gap`.
Recent(at, gap) == at # Never /\ at > clock - gap

\* The listings in the order a sync goes through them.
ListingOf(f) == CASE f.table \in {"trade", "fill"} -> 1 [] f.table \in {"flow", "ledger"} -> 2 [] OTHER -> 3

\* Fault: each listing newest first, as its pages come.
PrecedesNewestFirst(f, g) ==
    \/ ListingOf(f) < ListingOf(g)
    \/ f.table = g.table /\ f.time > g.time

\* The order in which fetched facts are written: one listing after the other,
\* each oldest first (Binance's trades market by market).
Precedes(f, g) ==
    \/ ListingOf(f) < ListingOf(g)
    \/ f.table = g.table /\ f.time < g.time /\ (broker = "binance" => f.asset = g.asset)

\* A fact a sync has fetched is written as `row`; a connection deleted
\* meanwhile fails the foreign key and the sync with it.
SaveFact(w, f, row) ==
    /\ jobs[w].pc = "save"
    /\ \A g \in jobs[w].got.queue : ~Precedes(g, f)
    /\ IF Alive(w)
       THEN /\ rows' = Upsert(rows, row)
            /\ jobs' = [jobs EXCEPT ![w].got.queue = @ \ {f}]
            /\ UNCHANGED locks
       ELSE /\ End(w) /\ locks' = Released(w)
            /\ UNCHANGED rows
    /\ UNCHANGED <<broker, clock, facts, perm, conn, made, starts, book, faults>>

AllSaved(w, next) ==
    /\ jobs[w].pc = "save" /\ jobs[w].got.queue = {}
    /\ Goto(w, next)
    /\ UNCHANGED <<broker, clock, facts, perm, conn, made, starts, rows, book, locks, faults>>

\* last_synced_at is written only at the end of a sync that went through.
MarkSynced(w, upto) ==
    /\ jobs[w].pc = "synced"
    /\ conn' = IF Alive(w) THEN [conn EXCEPT !.last = clock, !.upto = IF upto > @ THEN upto ELSE @] ELSE conn
    /\ End(w)
    /\ locks' = Released(w)
    /\ UNCHANGED <<broker, clock, facts, perm, made, starts, rows, book, faults>>

\* A call of the broker fails: the sync reports it and stops.
Fails(w, calls) ==
    /\ jobs[w].pc \in calls
    /\ faults < MaxFaults[broker]
    /\ faults' = faults + 1
    /\ End(w)
    /\ locks' = Released(w)
    /\ UNCHANGED <<broker, clock, facts, perm, conn, made, starts, rows, book>>

\* `disconnect`: the row and, by cascade, everything collected for it.
RunDisconnect(emptyBook) ==
    /\ conn # NoConn /\ starts < MaxStarts[broker]
    /\ conn' = NoConn
    /\ rows' = << >>
    /\ book' = emptyBook
    /\ UNCHANGED <<broker, clock, facts, perm, made, starts, jobs, locks, faults>>

=============================================================================
