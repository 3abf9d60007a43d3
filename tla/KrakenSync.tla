------------------------------ MODULE KrakenSync ------------------------------
(***************************************************************************)
(* Kraken: one sync (kraken.rs) over the client's listings (client.rs).    *)
(* A sync asks for what is newer than the newest row it holds, so a row    *)
(* older than that one and not stored would never be asked for again: the  *)
(* rows are written oldest first, and a second is always read whole.       *)
(* Facts: "trade" and "ledger" lines, each in a listing and a table of its *)
(* own.  A ledger line has a type, an amount and a fee; a trade is in both *)
(* listings, in the ledger with a line per asset.                          *)
(***************************************************************************)
EXTENDS Connections

CONSTANTS
    MinSyncGap,      \* MIN_SYNC_GAP, in ticks
    ReverifyAfter    \* REVERIFY_AFTER, in ticks

EmptyKraken == << >>

KrakenRow(f) == [key |-> <<f.table, f.id>>, fact |-> f.id, table |-> f.table, time |-> f.time, line |-> f]

(***************************************************************************)
(* verify_if_due: a confirmation that the key cannot write is trusted for  *)
(* a while; one process checks, the others go on.                          *)
(***************************************************************************)
VerifyIfDue(w) ==
    /\ jobs[w].pc = "verify"
    /\ IF ~Alive(w)                                  \* no row to read
       THEN End(w) /\ UNCHANGED locks
       ELSE IF Recent(conn.verified, ReverifyAfter) \/ locks["verify"] # Nobody
            THEN Goto(w, "lock") /\ UNCHANGED locks
            ELSE Goto(w, "probe") /\ locks' = [locks EXCEPT !["verify"] = w]
    /\ UNCHANGED <<broker, clock, facts, perm, conn, made, starts, rows, book, faults>>

\* Every probe of a write call is refused for want of permission.
EnsureCannotWrite == perm = "read"

\* ensure_cannot_write, and its record when it held.
Probe(w) ==
    /\ jobs[w].pc = "probe"
    /\ IF EnsureCannotWrite THEN Goto(w, "lock") ELSE End(w)
    /\ conn' = IF EnsureCannotWrite /\ Alive(w) THEN [conn EXCEPT !.verified = clock] ELSE conn
    /\ locks' = [locks EXCEPT !["verify"] = Nobody]
    /\ UNCHANGED <<broker, clock, facts, perm, made, starts, rows, book, faults>>

\* max(time_ms) of a table, never before the connection.
LatestTime(table) ==
    LET times == {rows[i].time : i \in {j \in DOMAIN rows : rows[j].table = table}} \cup {conn.since}
    IN Max(times)

\* sync_locked up to the fetch: unless forced, not again within the gap.
KrakenFrom(w) ==
    /\ jobs[w].pc = "gap"
    /\ IF ~Alive(w) \/ (~jobs[w].force /\ Recent(conn.last, MinSyncGap))
       THEN End(w) /\ locks' = Released(w)
       ELSE /\ GotoWith(w, "trades", [from |-> [t \in {"trade", "ledger"} |-> LatestTime(t)],
                                      queue |-> {}, upto |-> Len(facts)])
            /\ UNCHANGED locks
    /\ UNCHANGED <<broker, clock, facts, perm, conn, made, starts, rows, book, faults>>

\* Fault: the second of the newest row is not read again.
ListingAfter(table, from) ==
    {f \in Range(facts) : f.table = table /\ f.time > from}

\* trades_since, ledger_since: the listing from one second before, whole pages
\* newest first (`Precedes` is the order of (time, id) they are put in).
Listing(table, from) ==
    {f \in Range(facts) : f.table = table /\ f.time > from - 1}

KrakenFetch(w) ==
    /\ jobs[w].pc \in {"trades", "ledger"}
    /\ LET table == IF jobs[w].pc = "trades" THEN "trade" ELSE "ledger"
           queue == jobs[w].got.queue \cup Listing(table, jobs[w].got.from[table])
       IN IF table = "trade"
          THEN jobs' = [jobs EXCEPT ![w].pc = "ledger", ![w].got.queue = queue]
          ELSE GotoWith(w, "save", [queue |-> queue, upto |-> jobs[w].got.upto])
    /\ UNCHANGED <<broker, clock, facts, perm, conn, made, starts, rows, book, locks, faults>>

KrakenConnect(w) == InsertConnection(w, "lock", clock)
KrakenRun(w) == RunSync(w, "verify")
KrakenSave(w) ==
    /\ jobs[w].pc = "save"
    /\ AllSaved(w, "synced") \/ \E f \in jobs[w].got.queue : SaveFact(w, f, KrakenRow(f))

\* A rate limit or a refused nonce is retried a few times before it is a failure.
KrakenFails(w) == Fails(w, {"probe", "trades", "ledger"})

KrakenStep(w) ==
    \/ KrakenConnect(w) \/ KrakenRun(w)
    \/ VerifyIfDue(w) \/ Probe(w) \/ TakeSyncLock(w)
    \/ KrakenFrom(w) \/ KrakenFetch(w)
    \/ KrakenSave(w) \/ KrakenFails(w)
    \/ jobs[w].pc = "synced" /\ MarkSynced(w, jobs[w].got.upto)

(***************************************************************************)
(* What the engine reads of the rows: trades, and the ledger's lines as    *)
(* flows.                                                                  *)
(***************************************************************************)
KrakenLines(table) == {rows[i].line : i \in {j \in DOMAIN rows : rows[j].table = table}}

\* A trade's legs; its fee is charged in the quote currency.
KrakenTrade(t) == <<[asset |-> t.asset, amt |-> t.amt], [asset |-> t.quote, amt |-> -t.cost - t.fee]>>

\* net: what the line did to the balance.
Net(l) == l.amt - l.fee

\* is_wallet_move: between a person's own wallets at Kraken, the staked asset
\* counting as the asset itself.
IsWalletMove(l) == l.type \in {"transfer staking", "earn allocation"}

\* The two sides of a conversion, and adjustments, belong together by refid.
IsConversion(l) == l.type \in {"spend", "receive", "adjustment"}

Family(l) ==
    CASE l.type \in {"deposit", "withdrawal"} -> l.type
      [] l.type = "transfer futures" -> IF Net(l) < 0 THEN "withdrawal" ELSE "deposit"
      [] l.type \in {"staking", "dividend", "credit", "earn reward"} -> "dividend"
      [] OTHER -> "transfer"

IsCapital(l) == l.type \in {"deposit", "withdrawal"}

\* A deposit's or withdrawal's legs go by its type, the fee apart; any other
\* line is what it did to the balance.
KrakenLegs(l) ==
    LET size == IF l.amt < 0 THEN -l.amt ELSE l.amt
    IN IF IsCapital(l)
       THEN <<[asset |-> l.asset, amt |-> IF l.type = "deposit" THEN size ELSE -size],
              [asset |-> l.asset, amt |-> -l.fee]>>
       ELSE <<[asset |-> l.asset, amt |-> Net(l)]>>

KrakenFlow(l) == [family |-> Family(l), source |-> l.id, legs |-> KrakenLegs(l)]

Conversion(lines, ref) ==
    LET sides == {l \in lines : l.ref = ref /\ Net(l) # 0}
    IN [family |-> "convert", source |-> ref,
        legs |-> SetToSeq({[asset |-> l.asset, amt |-> Net(l), line |-> l.id] : l \in sides})]

\* Fault: a trade's ledger lines are flows as well.
ClassifyTradesToo(lines) == {KrakenFlow(l) : l \in {k \in lines : Net(k) # 0 /\ ~IsWalletMove(k)}}

\* classify: nothing is left out but what would count twice (a trade's lines)
\* or cancel out (wallet moves).
Classify(lines) ==
    LET kept == {l \in lines : l.type # "trade" /\ ~IsWalletMove(l) /\ (IsCapital(l) \/ Net(l) # 0)}
        sides == {l \in kept : IsConversion(l)}
    IN {KrakenFlow(l) : l \in kept \ sides} \cup {Conversion(sides, r) : r \in {l.ref : l \in sides}}

KrakenNext ==
    \/ \E w \in Workers : KrakenStep(w)
    \/ RunDisconnect(EmptyKraken)

=============================================================================
