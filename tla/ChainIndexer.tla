----------------------------- MODULE ChainIndexer -----------------------------
(***************************************************************************)
(* services/chain-worker: the Indexer's polling tick (indexer.ts) writing  *)
(* through the PostgresProjectionStore, with the resume point server.ts    *)
(* computes at start.                                                      *)
(*                                                                         *)
(* Every await of syncOnce is a point where the chain can grow, finalize   *)
(* or reorganize, a call can fail, and the process can die, so each await  *)
(* starts a step of its own.  Syncs are serialized by Indexer.running: one *)
(* program counter.  The in-memory view is lost in a crash, Postgres is    *)
(* not.                                                                    *)
(*                                                                         *)
(* The chain holds one identity, its track and its account (identifiers    *)
(* are derived from contract counters, so two branches use the same ones), *)
(* with at most two events per block.  A block carries the contract state  *)
(* after it, which is what the projection is compared with.  The tags safe *)
(* and included are not told apart.                                        *)
(***************************************************************************)
EXTENDS Naturals, Sequences, FiniteSets

CONSTANTS
  Absent,            \* no row, no record
  EventName,         \* the events that occur on chain
  MaxHeight,         \* bound on the chain's length
  MaxBlocks,         \* bound on the blocks ever mined, abandoned ones included
  MaxEpoch,          \* bound on owner rotations
  MaxCrashes,        \* bound on restarts of the process
  MaxFailures,       \* bound on syncs cut short by a rejected call
  ReorgsAlone        \* TRUE: no reorg meets an unsettled view, no crash an unprocessed reorg

VARIABLES
  chain,      \* the canonical chain; a block's number is its position
  finalized,  \* number of the finalized block
  mined,      \* blocks mined so far; the next block's hash
  reorgs,     \* how often the chain has reorganized
  local,      \* Indexer.chain
  from,       \* fromNumber: where an empty view starts
  sync,       \* the sync in progress: program counter and its local variables
  indexed,    \* table indexed_blocks: number |-> hash
  rows,       \* tables identities, tracks, accounts
  faults      \* crashes and failures so far

chainVars == <<chain, finalized, mined, reorgs>>
dbVars == <<indexed, rows>>
vars == <<chainVars, local, from, sync, dbVars, faults>>

Table == {"identities", "tracks", "accounts"}

(* The column values the events write, per table. *)
IdentityRow == [pending : BOOLEAN, epoch : 0..MaxEpoch]
AccountState == {"pending_baseline", "active", "removed"}
Value(t) == {Absent} \cup CASE t = "identities" -> IdentityRow
                           [] t = "tracks" -> {"track"}
                           [] t = "accounts" -> AccountState

(***************************************************************************)
(* The contracts' side (external): which event can come next, and the      *)
(* state after it.                                                         *)
(***************************************************************************)
Creates == [IdentityCreated |-> "identities", TrackCreated |-> "tracks",
            AccountRegistered |-> "accounts"]
Updates == [OwnerRotationProposed |-> "identities", OwnerRotated |-> "identities",
            AccountActivated |-> "accounts", AccountRemoved |-> "accounts"]
Parent == [identities |-> "identities", tracks |-> "identities", accounts |-> "tracks"]

Initially(t) == CASE t = "identities" -> [pending |-> FALSE, epoch |-> 0]
                  [] t = "tracks" -> "track"
                  [] t = "accounts" -> "pending_baseline"

Event == {e \in [name : EventName, epoch : 0..MaxEpoch] :
            (e.name = "OwnerRotated") = (e.epoch > 0)}

(* The columns an update event overwrites, in a row that holds v. *)
Updated(e, v) == CASE e.name = "OwnerRotationProposed" -> [v EXCEPT !.pending = TRUE]
                   [] e.name = "OwnerRotated" -> [pending |-> FALSE, epoch |-> e.epoch]
                   [] e.name = "AccountActivated" -> "active"
                   [] e.name = "AccountRemoved" -> "removed"

ASSUME IndexerAssumption ==
  /\ MaxHeight \in Nat /\ MaxBlocks \in Nat /\ MaxEpoch \in Nat
  /\ MaxCrashes \in Nat /\ MaxFailures \in Nat
  /\ ReorgsAlone \in BOOLEAN
  /\ EventName \subseteq DOMAIN Creates \cup DOMAIN Updates
  /\ Absent \notin Event \cup IdentityRow /\ Absent \notin AccountState \cup {"track"}

Emits(e, s) ==
  \/ /\ e.name \in DOMAIN Creates
     /\ s[Creates[e.name]] = Absent
     /\ e.name # "IdentityCreated" => s[Parent[Creates[e.name]]] # Absent
  \/ /\ e.name \in DOMAIN Updates
     /\ s[Updates[e.name]] # Absent
     /\ e.name = "OwnerRotated" => s.identities.pending /\ e.epoch = s.identities.epoch + 1
     /\ e.name = "AccountActivated" => s.accounts = "pending_baseline"
     /\ e.name = "AccountRemoved" => s.accounts # "removed"

After(e, s) ==
  IF e = Absent THEN s
  ELSE IF e.name \in DOMAIN Creates
    THEN [s EXCEPT ![Creates[e.name]] = Initially(Creates[e.name])]
    ELSE [s EXCEPT ![Updates[e.name]] = Updated(e, @)]

(* What a block with the events e and then f, either of them Absent, logs. *)
Logged(e, f) == IF e = Absent THEN <<>> ELSE IF f = Absent THEN <<e>> ELSE <<e, f>>

NoState == [t \in Table |-> Absent]

-----------------------------------------------------------------------------
Idle == [pc |-> "idle", included |-> 0, finalized |-> 0, diverged |-> 0, next |-> 0,
         hash |-> 0, parent |-> 0, logs |-> <<>>, fresh |-> FALSE]

Init ==
  /\ chain = <<[hash |-> 1, parent |-> 0, logs |-> <<>>, post |-> NoState]>>
  /\ finalized = 0
  /\ mined = 1
  /\ reorgs = 0
  /\ local = <<>>
  /\ from = 1
  /\ sync = Idle
  /\ indexed = <<>>
  /\ rows = [t \in Table |-> [value |-> Absent, at |-> 0]]
  /\ faults = [crashes |-> 0, failures |-> 0]

(* The environment: blocks are mined, finalized, abandoned. *)
Tip == chain[Len(chain)]

Mine(e, f) ==
  /\ Len(chain) < MaxHeight /\ mined < MaxBlocks
  /\ e # Absent => Emits(e, Tip.post)
  /\ f # Absent => e # Absent /\ Emits(f, After(e, Tip.post))
  /\ mined' = mined + 1
  /\ chain' = Append(chain,
       [hash |-> mined + 1, parent |-> Tip.hash,
        logs |-> Logged(e, f),
        post |-> After(f, After(e, Tip.post))])
  /\ UNCHANGED <<finalized, reorgs, local, from, sync, dbVars, faults>>

Finalize ==
  /\ finalized < Len(chain)
  /\ finalized' = finalized + 1
  /\ UNCHANGED <<chain, mined, reorgs, local, from, sync, dbVars, faults>>

(* The view is settled: no sync runs, and memory and database hold the same blocks. *)
Settled ==
  /\ sync.pc = "idle"
  /\ local # <<>> => local[Len(local)].number = Cardinality(DOMAIN indexed)
  /\ local = <<>> => indexed = <<>>

(* Every persisted block is canonical. *)
NothingAbandoned ==
  \A n \in DOMAIN indexed : n <= Len(chain) /\ indexed[n] = chain[n].hash

(* Blocks k and above are abandoned; Mine builds the new branch. *)
Reorg(k) ==
  /\ k > finalized /\ k > 1 /\ k <= Len(chain)
  /\ mined + MaxHeight - (k - 1) <= MaxBlocks  \* the new branch can still outgrow the old
  /\ ReorgsAlone => Settled /\ (local # <<>> => k >= local[1].number)
  /\ chain' = SubSeq(chain, 1, k - 1)
  /\ reorgs' = reorgs + 1
  /\ sync' = [sync EXCEPT !.fresh = FALSE]
  /\ UNCHANGED <<finalized, mined, local, from, dbVars, faults>>

-----------------------------------------------------------------------------
(* Fault: the first block that is not final is tagged finalized. *)
tagForOffByOne(n, f) == IF n <= f + 1 THEN "finalized" ELSE "included"

tagFor(n, f) == IF n <= f THEN "finalized" ELSE "included"

(* retag, then the turn ends. *)
EndSync ==
  /\ local' = [i \in DOMAIN local |-> [local[i] EXCEPT !.tag = tagFor(local[i].number, sync.finalized)]]
  /\ sync' = [Idle EXCEPT !.included = sync.included, !.fresh = TRUE]

(* A rejected call ends the turn; what it had done stays done. *)
Abandon == sync' = Idle /\ UNCHANGED local

(* syncOnce up to its first await: the snapshot decides how far this turn goes. *)
StartSync ==
  /\ sync.pc = "idle"
  /\ sync' = [Idle EXCEPT !.included = Len(chain), !.finalized = finalized,
                          !.pc = IF local = <<>> THEN "extend" ELSE "find",
                          !.next = IF local = <<>> THEN from ELSE Len(local)]
  /\ UNCHANGED <<chainVars, local, from, dbVars, faults>>

(* findDivergence: one comparison, from the tip down; `next' is the index. *)
Canonical(n) == chain[n].hash
findDivergence ==
  LET b == local[sync.next] IN
  /\ sync.pc = "find"
  /\ \/ /\ b.number > Len(chain)
        /\ Abandon
     \/ /\ b.number <= Len(chain) /\ Canonical(b.number) = b.hash
        /\ sync' = IF sync.diverged = 0
                     THEN [sync EXCEPT !.pc = "extend", !.next = local[Len(local)].number + 1]
                     ELSE [sync EXCEPT !.pc = "revert", !.next = Len(local)]
        /\ UNCHANGED local
     \/ /\ b.number <= Len(chain) /\ Canonical(b.number) # b.hash
        /\ sync' = IF sync.next > 1
                     THEN [sync EXCEPT !.diverged = b.number, !.next = @ - 1]
                     ELSE [sync EXCEPT !.diverged = b.number, !.pc = "revert", !.next = Len(local)]
        /\ UNCHANGED local
  /\ UNCHANGED <<chainVars, from, dbVars, faults>>

(* Rows created at block n go, and with them the rows that refer to them. *)
RefersTo == [identities |-> {"identities"}, tracks |-> {"identities", "tracks"}, accounts |-> Table]
Cascade(n) ==
  [t \in Table |-> IF \E u \in RefersTo[t] : rows[u].at = n THEN [value |-> Absent, at |-> 0]
                   ELSE rows[t]]

(* Fault: the loop stops one block early when more than one is abandoned. *)
revertAllButOne ==
  LET n == local[sync.next].number IN
  /\ sync.pc = "revert"
  /\ indexed' = [m \in DOMAIN indexed \ {n} |-> indexed[m]]
  /\ rows' = Cascade(n)
  /\ IF n > sync.diverged + 1
       THEN /\ sync' = [sync EXCEPT !.next = @ - 1]
            /\ UNCHANGED local
       ELSE /\ sync' = [sync EXCEPT !.pc = "extend", !.next = n]
            /\ local' = SubSeq(local, 1, sync.next - 1)
  /\ UNCHANGED <<chainVars, from, faults>>

(* projections.revert of the next block, tip first; the view is cut after the last. *)
revert ==
  LET n == local[sync.next].number IN
  /\ sync.pc = "revert"
  /\ indexed' = [m \in DOMAIN indexed \ {n} |-> indexed[m]]
  /\ rows' = Cascade(n)
  /\ IF n > sync.diverged
       THEN /\ sync' = [sync EXCEPT !.next = @ - 1]
            /\ UNCHANGED local
       ELSE /\ sync' = [sync EXCEPT !.pc = "extend", !.next = n]
            /\ local' = SubSeq(local, 1, sync.next - 1)
  /\ UNCHANGED <<chainVars, from, faults>>

(* extendTo: fetch the next header, or finish the turn. *)
FetchHeader ==
  /\ sync.pc = "extend"
  /\ \/ /\ sync.next > sync.included
        /\ EndSync
     \/ /\ sync.next <= sync.included /\ sync.next > Len(chain)
        /\ Abandon
     \/ /\ sync.next <= sync.included /\ sync.next <= Len(chain)
        /\ sync' = [sync EXCEPT !.pc = "insert", !.hash = chain[sync.next].hash,
                                !.parent = chain[sync.next].parent]
        /\ UNCHANGED local
  /\ UNCHANGED <<chainVars, from, dbVars, faults>>

(* apply: the upsert of the block's own row. *)
InsertBlock ==
  /\ sync.pc = "insert"
  /\ indexed' = [m \in DOMAIN indexed \cup {sync.next} |->
                   IF m = sync.next THEN sync.hash ELSE indexed[m]]
  /\ sync' = [sync EXCEPT !.pc = "logs"]
  /\ UNCHANGED <<chainVars, local, from, rows, faults>>

(* apply: getLogs by number, whatever block has that number by now. *)
FetchLogs ==
  /\ sync.pc = "logs"
  /\ sync' = [sync EXCEPT !.pc = "event",
                !.logs = IF sync.next <= Len(chain) THEN chain[sync.next].logs ELSE <<>>]
  /\ UNCHANGED <<chainVars, local, from, dbVars, faults>>

(* An insert whose parent row is missing violates its foreign key. *)
ForeignKeyFails(e) ==
  /\ e.name \in {"TrackCreated", "AccountRegistered"}
  /\ rows[Creates[e.name]].value = Absent
  /\ rows[Parent[Creates[e.name]]].value = Absent

(* applyEvent: inserts do nothing on a conflict, updates nothing without a row. *)
applyEvent(e, n) ==
  IF e.name \in DOMAIN Creates
    THEN LET t == Creates[e.name] IN
         IF rows[t].value # Absent THEN rows
         ELSE [rows EXCEPT ![t] = [value |-> Initially(t), at |-> n]]
    ELSE LET t == Updates[e.name] IN
         IF rows[t].value = Absent THEN rows
         ELSE [rows EXCEPT ![t].value = Updated(e, @)]

ApplyNextLog ==
  /\ sync.pc = "event" /\ sync.logs # <<>>
  /\ IF ForeignKeyFails(Head(sync.logs))
       THEN Abandon /\ UNCHANGED rows
       ELSE /\ rows' = applyEvent(Head(sync.logs), sync.next)
            /\ sync' = [sync EXCEPT !.logs = Tail(@)]
            /\ UNCHANGED local
  /\ UNCHANGED <<chainVars, from, indexed, faults>>

(* apply has returned: the block joins the view. *)
PushBlock ==
  /\ sync.pc = "event" /\ sync.logs = <<>>
  /\ local' = Append(local, [number |-> sync.next, hash |-> sync.hash, parent |-> sync.parent,
                             tag |-> tagFor(sync.next, sync.finalized)])
  /\ sync' = [sync EXCEPT !.pc = "extend", !.next = @ + 1]
  /\ UNCHANGED <<chainVars, from, dbVars, faults>>

(* Any awaited call of the turn rejects: RPC error or database error. *)
Fail ==
  /\ sync.pc # "idle"
  /\ faults.failures < MaxFailures
  /\ faults' = [faults EXCEPT !.failures = @ + 1]
  /\ Abandon
  /\ UNCHANGED <<chainVars, from, dbVars>>

(* Fault: the new process resumes behind the highest persisted block. *)
latestIndexedBlockPlusOne ==
  IF indexed = <<>> THEN 1
  ELSE 1 + CHOOSE n \in DOMAIN indexed : \A m \in DOMAIN indexed : m <= n

(* latestIndexedBlock: the highest persisted number, else the deploy block. *)
latestIndexedBlock ==
  IF indexed = <<>> THEN 1
  ELSE CHOOSE n \in DOMAIN indexed : \A m \in DOMAIN indexed : m <= n

(* The process dies and a new one starts. *)
Crash ==
  /\ faults.crashes < MaxCrashes
  /\ ReorgsAlone => NothingAbandoned
  /\ faults' = [faults EXCEPT !.crashes = @ + 1]
  /\ local' = <<>>
  /\ from' = latestIndexedBlock
  /\ sync' = Idle
  /\ UNCHANGED <<chainVars, dbVars>>

IndexerStep ==
  \/ StartSync \/ findDivergence \/ revert \/ FetchHeader \/ InsertBlock \/ FetchLogs
  \/ ApplyNextLog \/ PushBlock

MineSome == \E e, f \in Event \cup {Absent} : Mine(e, f)

Next ==
  \/ IndexerStep
  \/ MineSome
  \/ Finalize
  \/ \E k \in 1..Len(chain) : Reorg(k)
  \/ Fail
  \/ Crash

(***************************************************************************)
(* Fairness: server.ts schedules a sync three seconds after the previous   *)
(* one ended, for ever, and an await that does not reject resumes.  The    *)
(* chain keeps producing blocks: while the head is below the view's tip,   *)
(* getBlockByNumber of the tip rejects and no sync can complete.           *)
(***************************************************************************)
Spec == Init /\ [][Next]_vars /\ WF_vars(IndexerStep) /\ WF_vars(MineSome)

-----------------------------------------------------------------------------
State == [identities : Value("identities"), tracks : Value("tracks"), accounts : Value("accounts")]
Row(t) == [value : Value(t), at : Nat]
Block == [hash : Nat, parent : Nat, logs : Seq(Event), post : State]
ViewBlock == [number : Nat, hash : Nat, parent : Nat, tag : {"finalized", "included"}]
SyncState ==
  [pc : {"idle", "find", "revert", "extend", "insert", "logs", "event"}, included : Nat,
   finalized : Nat, diverged : Nat, next : Nat, hash : Nat, parent : Nat, logs : Seq(Event),
   fresh : BOOLEAN]

TypeOK ==
  /\ chain \in Seq(Block)
  /\ finalized \in Nat /\ mined \in Nat /\ reorgs \in Nat
  /\ local \in Seq(ViewBlock) /\ from \in Nat
  /\ sync \in SyncState
  /\ indexed \in [DOMAIN indexed -> Nat] /\ DOMAIN indexed \subseteq Nat
  /\ rows \in [identities : Row("identities"), tracks : Row("tracks"), accounts : Row("accounts")]
  /\ faults \in [crashes : Nat, failures : Nat]

(* The last sync completed and the chain has not reorganized since. *)
Fresh == sync.pc = "idle" /\ sync.fresh

(***************************************************************************)
(* When a sync completes, whatever crashes, failed calls and reorgs came   *)
(* before it, the database holds exactly the canonical blocks up to the    *)
(* snapshot's head, the view holds the canonical blocks from its start,    *)
(* and a block tagged finalized is final.                                  *)
(***************************************************************************)
ViewIsCanonical ==
  Fresh =>
    /\ DOMAIN indexed = 1..sync.included
    /\ \A n \in DOMAIN indexed : indexed[n] = Canonical(n)
    /\ \A i \in DOMAIN local :
         /\ local[i].hash = Canonical(local[i].number)
         /\ i > 1 => local[i].parent = local[i-1].hash
         /\ local[i].tag = "finalized" => local[i].number <= finalized
    /\ local # <<>> => local[Len(local)].number = sync.included

(***************************************************************************)
(* When a sync completes, the projection has a row exactly for what exists *)
(* on chain at the snapshot's head, created at the block that created it;  *)
(* and as long as the chain has not reorganized, every column is right:    *)
(* neither a crash nor a failed call between any two statements of apply   *)
(* loses an event or applies one twice.                                    *)
(***************************************************************************)
ProjectionComplete ==
  Fresh =>
    LET post == chain[sync.included].post IN
    \A t \in Table :
      /\ rows[t].value = Absent <=> post[t] = Absent
      /\ rows[t].value # Absent =>
           /\ chain[rows[t].at].post[t] # Absent
           /\ chain[rows[t].at - 1].post[t] = Absent
      /\ reorgs = 0 => rows[t].value = post[t]

(***************************************************************************)
(* Finality is never taken back: once a sync has tagged a block finalized, *)
(* no later step reverts its rows or drops it from a running view.         *)
(***************************************************************************)
FinalizedStays ==
  [][\A i \in DOMAIN local :
       local[i].tag = "finalized" /\ local' # <<>> =>
         /\ i \in DOMAIN local' /\ local'[i].hash = local[i].hash
         /\ local[i].number \in DOMAIN indexed']_vars

(***************************************************************************)
(* The background sync catches up: once chain, network and process behave, *)
(* the view and the database reach the head of the chain again and again.  *)
(***************************************************************************)
CatchesUp ==
  []<>(Fresh /\ sync.included = Len(chain))

(***************************************************************************)
(* A reverted block's projection is undone in full: when a sync completes  *)
(* every column of every row is what the contracts hold at its head.       *)
(***************************************************************************)
UndoneInFull == Fresh => \A t \in Table : rows[t].value = chain[sync.included].post[t]

-----------------------------------------------------------------------------
(***************************************************************************)
(* The inductive invariant, for ReorgsAlone.  Some first part of the view  *)
(* is canonical and the rest is abandoned; the persisted blocks are those  *)
(* of the view, less abandoned ones already reverted, or with one more     *)
(* that a cut sync inserted and did not push.                              *)
(***************************************************************************)
IsCanonical(n, h) == n \in DOMAIN chain /\ Canonical(n) = h
InChain(i) == IsCanonical(local[i].number, local[i].hash)
AllInChain == \A i \in DOMAIN local : InChain(i)

ChainLinked ==
  /\ chain # <<>> /\ finalized <= Len(chain)
  /\ \A n \in DOMAIN chain : chain[n].hash <= mined
  /\ \A n \in DOMAIN chain : n > 1 => chain[n].parent = chain[n-1].hash

ViewLinked ==
  /\ \A i \in DOMAIN local :
       /\ local[i].number = from + i - 1 /\ local[i].hash <= mined
       /\ i > 1 => local[i].parent = local[i-1].hash
       /\ local[i].tag = "finalized" => local[i].number <= finalized /\ InChain(i)
  /\ \A i, j \in DOMAIN local : i < j /\ InChain(j) => InChain(i)

IndexedMatches ==
  /\ from \in 1..(Len(chain) + 1)
  /\ indexed \in Seq(Nat) /\ Len(indexed) \in (from - 1)..(from + Len(local))
  /\ \A n \in DOMAIN indexed : n < from \/ n = from + Len(local) => IsCanonical(n, indexed[n])
  /\ \A i \in DOMAIN local :
       /\ local[i].number \in DOMAIN indexed => indexed[local[i].number] = local[i].hash
       /\ local[i].number \notin DOMAIN indexed => ~InChain(i)
  /\ Len(indexed) = from + Len(local) => AllInChain

(* The snapshot a sync works from. *)
SnapshotHolds ==
  sync.pc # "idle" =>
    /\ sync.included <= Len(chain) /\ sync.finalized <= finalized
    /\ from <= sync.included + 1
    /\ \A i \in DOMAIN local : InChain(i) => local[i].number <= sync.included
    /\ Len(indexed) = from + Len(local) => Len(indexed) <= sync.included

FindHolds ==
  sync.pc = "find" =>
    /\ sync.next \in DOMAIN local
    /\ sync.diverged = 0 => sync.next = Len(local)
    /\ sync.diverged # 0 => /\ sync.next + 1 \in DOMAIN local
                            /\ sync.diverged = local[sync.next + 1].number
                            /\ ~InChain(sync.next + 1)

RevertHolds ==
  sync.pc = "revert" =>
    /\ sync.next \in DOMAIN local /\ Len(indexed) <= local[sync.next].number
    /\ \E d \in 1..sync.next : /\ sync.diverged = local[d].number /\ ~InChain(d)
                               /\ d > 1 => InChain(d - 1)

ExtendHolds ==
  sync.pc \in {"extend", "insert", "logs", "event"} =>
    /\ sync.next = from + Len(local) /\ sync.next <= sync.included + 1
    /\ AllInChain
    /\ sync.pc # "extend" => /\ sync.next <= sync.included
                             /\ sync.hash = chain[sync.next].hash
                             /\ sync.parent = chain[sync.next].parent
    /\ sync.pc \in {"logs", "event"} => Len(indexed) = sync.next

FreshHolds ==
  Fresh =>
    /\ sync.included <= Len(chain) /\ Len(indexed) = sync.included
    /\ AllInChain
    /\ local # <<>> => from + Len(local) = sync.included + 1

IInv == /\ TypeOK /\ ChainLinked /\ ViewLinked /\ IndexedMatches
        /\ SnapshotHolds /\ FindHolds /\ RevertHolds /\ ExtendHolds /\ FreshHolds

(***************************************************************************)
(* The projection's half of the inductive invariant.  Row by row, an event *)
(* does to the projection what it does on chain, and replaying a block's   *)
(* events over rows that already hold some or all of them ends where the   *)
(* block ends: that is why a cut sync may apply its last block again.      *)
(***************************************************************************)
CreatesIn(e, t) == e.name \in DOMAIN Creates /\ Creates[e.name] = t
UpdatesIn(e, t) == e.name \in DOMAIN Updates /\ Updates[e.name] = t

Result(e, t, v) ==
  IF CreatesIn(e, t) /\ v = Absent THEN Initially(t)
  ELSE IF UpdatesIn(e, t) /\ v # Absent THEN Updated(e, v)
  ELSE v

(* A block logs at most two events. *)
Replay(logs, t, v) ==
  LET once == IF Len(logs) >= 1 THEN Result(logs[1], t, v) ELSE v
  IN  IF Len(logs) >= 2 THEN Result(logs[2], t, once) ELSE once

(* What a block's events make of table t, from pre to post. *)
BlockBuilt(logs, t, pre, post) ==
  /\ Len(logs) <= 2
  /\ post = Replay(logs, t, pre)
  /\ \A i \in DOMAIN logs : CreatesIn(logs[i], t) => pre = Absent
  /\ Len(logs) = 2 => ~(UpdatesIn(logs[1], t) /\ CreatesIn(logs[2], t))

ParentsExist(s) == \A t \in Table : s[t] # Absent => \A u \in RefersTo[t] : s[u] # Absent

ChainBuilt ==
  /\ chain[1].logs = <<>> /\ \A t \in Table : chain[1].post[t] = Absent
  /\ \A n \in DOMAIN chain : ParentsExist(chain[n].post)
  /\ \A n \in DOMAIN chain, t \in Table :
       n > 1 => BlockBuilt(chain[n].logs, t, chain[n-1].post[t], chain[n].post[t])
  /\ \A m, n \in DOMAIN chain, t \in Table :
       m <= n /\ chain[m].post[t] # Absent => chain[n].post[t] # Absent

Born(t, n) == n > 1 /\ chain[n].post[t] # Absent /\ chain[n-1].post[t] = Absent

(* A row names a persisted block, and the creating one if that block is canonical. *)
RowsBorn ==
  \A t \in Table :
    /\ rows[t].value = Absent => rows[t].at = 0
    /\ rows[t].value # Absent =>
         /\ rows[t].at \in DOMAIN indexed
         /\ IsCanonical(rows[t].at, indexed[rows[t].at]) => Born(t, rows[t].at)

(* Block n is canonical and wholly applied. *)
Projected(n) == n < from \/ \E i \in DOMAIN local : local[i].number = n /\ InChain(i)

RowsComplete ==
  \A n \in DOMAIN chain, t \in Table :
    Projected(n) /\ chain[n].post[t] # Absent => rows[t].value # Absent /\ rows[t].at <= n

(* What is left to apply of the block in progress. *)
LogsLeft ==
  sync.pc = "event" =>
    LET logs == chain[sync.next].logs IN
    /\ sync.logs = logs \/ (Len(logs) >= 1 /\ sync.logs = Tail(logs)) \/ sync.logs = <<>>
    /\ \A t \in Table : chain[sync.next].post[t] # Absent =>
         rows[t].value # Absent \/ \E i \in DOMAIN sync.logs : CreatesIn(sync.logs[i], t)

ValuesKept ==
  reorgs = 0 =>
    /\ AllInChain
    /\ \A t \in Table :
         /\ Len(indexed) < from + Len(local) =>
              rows[t].value = IF Len(indexed) = 0 THEN Absent ELSE chain[Len(indexed)].post[t]
         /\ Len(indexed) = from + Len(local) =>
              /\ Replay(chain[Len(indexed)].logs, t, rows[t].value) = chain[Len(indexed)].post[t]
              /\ sync.pc = "event" =>
                   Replay(sync.logs, t, rows[t].value) = chain[Len(indexed)].post[t]

SnapshotTaken ==
  /\ sync.pc # "idle" \/ sync.fresh => sync.included >= 1
  /\ Fresh => from + Len(local) = sync.included + 1

PInv == /\ IInv /\ ChainBuilt /\ RowsBorn /\ RowsComplete /\ LogsLeft /\ ValuesKept
        /\ SnapshotTaken

=============================================================================
