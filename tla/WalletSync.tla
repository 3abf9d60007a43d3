------------------------------ MODULE WalletSync ------------------------------
(***************************************************************************)
(* An on-chain wallet: one sync (wallet.rs) over the readings of its       *)
(* networks (snapshot.rs, effects.rs).  A reading is as of a final block:  *)
(* the effects of the blocks since the last one, and the balance at it.    *)
(* What the balances changed by that the effects do not explain is kept as *)
(* an effect of its own.  Facts: "transfer" and "gas" (the explorer lists  *)
(* them) and "hidden" (an internal transfer it misses, a rebase, a data    *)
(* fee), each of an address on a network; a block is a tick.               *)
(***************************************************************************)
EXTENDS Connections

CONSTANTS
    Networks,        \* the networks the deployment reads
    TokenNetworks,   \* those whose followed asset is a token, not the native coin
    Confirmations,
    WalletGap        \* MIN_SYNC_GAP, in ticks

NoReading == [n \in Networks |-> Never]
EmptyWallet == [state |-> NoReading, anchor |-> [n \in Networks |-> 0], first |-> [n \in Networks |-> 0],
                effects |-> << >>]

\* The address's balance on a network as of a block.
BalanceAt(address, net, block) ==
    Total(SelectSeq(facts, LAMBDA f : f.asset = <<address, net>> /\ f.time <= block))

\* Fault: the block of the last reading is read again.
EffectsFrom(address, net, after, end) ==
    SelectSeq(facts, LAMBDA f : f.table # "hidden" /\ f.asset = <<address, net>> /\ f.time >= after /\ f.time <= end)

\* The transfers and the gas the explorer lists after one block and up to another.
EffectsOf(address, net, after, end) ==
    SelectSeq(facts, LAMBDA f : f.table # "hidden" /\ f.asset = <<address, net>> /\ f.time > after /\ f.time <= end)

Followed == {n \in Networks : book.state[n] # Never}

\* sync_locked up to the networks: those already followed, or at first all.
WalletStart(w) ==
    /\ jobs[w].pc = "gap"
    /\ IF ~Alive(w) \/ (~jobs[w].force /\ Recent(conn.last, WalletGap))
       THEN End(w) /\ locks' = Released(w)
       ELSE /\ GotoWith(w, "read", [todo |-> SetToSeq(IF Followed = {} THEN Networks ELSE Followed),
                                    state |-> book.state, anchor |-> book.anchor,
                                    failed |-> FALSE, reading |-> << >>])
            /\ UNCHANGED locks
    /\ UNCHANGED <<broker, clock, facts, perm, conn, made, starts, rows, book, faults>>

\* read_chain: as of the newest final block; nothing new is no reading; an
\* explorer that lags behind the block is a failure of this network only.
\* A token the listing leaves out, and no transfer names, gets no balance.
ReadNetwork(w, lagging, listed) ==
    /\ jobs[w].pc = "read" /\ jobs[w].got.todo # << >>
    /\ LET got == jobs[w].got
           net == Head(got.todo)
           end == Max({0, clock - Confirmations})
           after == got.state[net]
           new == IF after = Never THEN << >> ELSE EffectsOf(jobs[w].key, net, after, end)
           dropped == net \in TokenNetworks /\ ~listed /\ new = << >>
       IN IF after # Never /\ end <= after
          THEN jobs' = [jobs EXCEPT ![w].got.todo = Tail(@)] /\ UNCHANGED faults
          ELSE IF lagging
               THEN /\ faults < MaxFaults[broker] /\ faults' = faults + 1
                    /\ jobs' = [jobs EXCEPT ![w].got.todo = Tail(@), ![w].got.failed = TRUE]
               ELSE /\ jobs' = [jobs EXCEPT ![w].pc = "persist", ![w].got.todo = Tail(@),
                           ![w].got.reading = [net |-> net, end |-> end, effects |-> new,
                                anchor |-> IF dropped THEN 0 ELSE BalanceAt(jobs[w].key, net, end)]]
                    /\ UNCHANGED faults
    /\ UNCHANGED <<broker, clock, facts, perm, conn, made, starts, rows, book, locks>>

\* unexplained: the new balance less the old one and the effects between.
UnexplainedPart(r, before) == r.anchor - before - Total(r.effects)

EffectRow(net, f) == [key |-> <<net, f.id>>, net |-> net, tx |-> f.ref, kind |-> f.table, amt |-> f.amt]
UnexplainedRow(r, amt) ==
    [key |-> <<r.net, "unexplained", r.end>>, net |-> r.net, tx |-> r.end, kind |-> "unexplained", amt |-> amt]

WithEffects(effects, r) == FoldLeft(LAMBDA e, f : Upsert(e, EffectRow(r.net, f)), effects, r.effects)

\* persist: one transaction, or nothing of it.
Persist(w) ==
    /\ jobs[w].pc = "persist"
    /\ LET got == jobs[w].got
           r == got.reading
           again == got.state[r.net] # Never
           rest == IF again THEN UnexplainedPart(r, got.anchor[r.net]) ELSE 0
           withEffects == WithEffects(book.effects, r)
       IN IF Alive(w)
          THEN /\ book' = [book EXCEPT
                      !.effects = IF rest = 0 THEN withEffects ELSE Upsert(withEffects, UnexplainedRow(r, rest)),
                      !.anchor[r.net] = r.anchor,
                      !.first[r.net] = IF again THEN @ ELSE r.anchor,
                      !.state[r.net] = r.end]
               /\ Goto(w, "read")
          ELSE /\ jobs' = [jobs EXCEPT ![w].pc = "read", ![w].got.failed = TRUE]
               /\ UNCHANGED book
    /\ UNCHANGED <<broker, clock, facts, perm, conn, made, starts, rows, locks, faults>>

\* Every network read: a failure is reported and leaves last_synced_at alone;
\* a connection that did not exist before this connect is deleted with it.
WalletDone(w) ==
    /\ jobs[w].pc = "read" /\ jobs[w].got.todo = << >>
    /\ IF jobs[w].got.failed
       THEN /\ End(w) /\ locks' = Released(w)
            /\ IF ~jobs[w].existing /\ Alive(w)
               THEN conn' = NoConn /\ book' = EmptyWallet
               ELSE UNCHANGED <<conn, book>>
       ELSE Goto(w, "synced") /\ UNCHANGED <<conn, book, locks>>
    /\ UNCHANGED <<broker, clock, facts, perm, made, starts, rows, faults>>

(***************************************************************************)
(* What the engine reads of the effects.                                   *)
(***************************************************************************)
WalletLeg(e) == [asset |-> e.net, amt |-> e.amt, effect |-> e.key]

\* Only received is money in, only sent money out, both a conversion.
Transaction(effects, tx) ==
    LET all == {e \in effects : e.kind = "transfer" /\ <<e.net, e.tx>> = tx}
        credits == \E e \in all : e.amt >= 0
        debits == \E e \in all : e.amt < 0
    IN [family |-> IF credits /\ debits THEN "convert" ELSE IF credits THEN "deposit" ELSE "withdrawal",
        source |-> tx, legs |-> SetToSeq({WalletLeg(e) : e \in all})]

\* classify: gas is a cost; a difference no transfer explains is money in or
\* out, never a gain.
WalletFlows(effects) ==
    LET Of(kind) == {e \in effects : e.kind = kind}
        Flow(e, family) == [family |-> family, source |-> e.key, legs |-> <<WalletLeg(e)>>]
    IN {Flow(e, "transfer") : e \in Of("gas")}
       \cup {Flow(e, IF e.amt < 0 THEN "withdrawal" ELSE "deposit") : e \in Of("unexplained")}
       \cup {Transaction(effects, tx) : tx \in {<<e.net, e.tx>> : e \in Of("transfer")}}

WalletConnect(w) == InsertConnection(w, "lock", Never)
WalletRun(w) == RunSync(w, "lock")

WalletStep(w) ==
    \/ WalletConnect(w) \/ WalletRun(w)
    \/ TakeSyncLock(w) \/ WalletStart(w) \/ Persist(w) \/ WalletDone(w)
    \/ \E lagging \in BOOLEAN, listed \in BOOLEAN : ReadNetwork(w, lagging, listed)
    \/ MarkSynced(w, 0)

WalletNext ==
    \/ \E w \in Workers : WalletStep(w)
    \/ RunDisconnect(EmptyWallet)

=============================================================================
