-------------------------- MODULE ChainIndexerProofs --------------------------
(***************************************************************************)
(* Proofs about ChainIndexer: the view and the table of persisted blocks   *)
(* after a completed sync, the finality a view never takes back, and the   *)
(* projection's rows after a completed sync.                               *)
(***************************************************************************)
EXTENDS ChainIndexer, TLAPS, FiniteSetTheorems, SequenceTheorems

-----------------------------------------------------------------------------
(* Types: the values of the columns, the contract state and the rows. *)
LEMMA ColumnValues ==
  /\ Value("identities") = {Absent} \cup IdentityRow
  /\ Value("tracks") = {Absent, "track"}
  /\ Value("accounts") = {Absent} \cup AccountState
BY DEF Value

LEMMA InitialValue == \A t \in Table : Initially(t) \in Value(t) /\ Initially(t) # Absent
<1>1. Initially("identities") \in IdentityRow
  BY IndexerAssumption DEF Initially, IdentityRow
<1>2. Initially("tracks") = "track" /\ Initially("accounts") \in AccountState
  BY DEF Initially, AccountState
<1> QED
  BY <1>1, <1>2, ColumnValues, IndexerAssumption DEF Table

LEMMA EventTables ==
  ASSUME NEW e \in Event
  PROVE  /\ e.name \in DOMAIN Creates \/ e.name \in DOMAIN Updates
         /\ e.name \in DOMAIN Creates => Creates[e.name] \in Table
         /\ e.name \in DOMAIN Updates => Updates[e.name] \in Table
         /\ e.epoch \in 0..MaxEpoch
BY IndexerAssumption DEF Event, Creates, Updates, Table

LEMMA UpdatedValue ==
  ASSUME NEW e \in Event, e.name \in DOMAIN Updates,
         NEW v \in Value(Updates[e.name]), v # Absent
  PROVE  Updated(e, v) \in Value(Updates[e.name]) /\ Updated(e, v) # Absent
<1>1. e.name \in {"OwnerRotationProposed", "OwnerRotated", "AccountActivated", "AccountRemoved"}
  BY DEF Updates
<1>2. CASE e.name = "OwnerRotationProposed"
  <2>1. Updates[e.name] = "identities" /\ v \in IdentityRow
    BY <1>2, ColumnValues DEF Updates
  <2>2. Updated(e, v) = [v EXCEPT !.pending = TRUE]
    BY <1>2 DEF Updated
  <2>3. [v EXCEPT !.pending = TRUE] \in IdentityRow
    BY <2>1 DEF IdentityRow
  <2> QED
    BY <2>1, <2>2, <2>3, ColumnValues, IndexerAssumption
<1>3. CASE e.name = "OwnerRotated"
  <2>1. Updates[e.name] = "identities"
    BY <1>3 DEF Updates
  <2>2. Updated(e, v) = [pending |-> FALSE, epoch |-> e.epoch]
    BY <1>3 DEF Updated
  <2>3. Updated(e, v) \in IdentityRow
    BY <2>2, EventTables DEF IdentityRow
  <2> QED
    BY <2>1, <2>3, ColumnValues, IndexerAssumption
<1>4. CASE e.name \in {"AccountActivated", "AccountRemoved"}
  <2>1. Updates[e.name] = "accounts" /\ Updated(e, v) \in AccountState
    BY <1>4 DEF Updates, Updated, AccountState
  <2> QED
    BY <2>1, ColumnValues, IndexerAssumption
<1> QED
  BY <1>1, <1>2, <1>3, <1>4

LEMMA StateColumn ==
  ASSUME NEW s \in State, NEW t \in Table
  PROVE  s[t] \in Value(t) /\ \A v \in Value(t) : [s EXCEPT ![t] = v] \in State
BY DEF State, Table

LEMMA AfterType ==
  ASSUME NEW s \in State, NEW e \in Event \cup {Absent}, e # Absent => Emits(e, s)
  PROVE  After(e, s) \in State
<1>1. CASE e = Absent
  BY <1>1 DEF After
<1>2. CASE e # Absent
  <2>1. e \in Event /\ Emits(e, s)
    BY <1>2
  <2>2. CASE e.name \in DOMAIN Creates
    BY <1>2, <2>1, <2>2, EventTables, InitialValue, StateColumn DEF After
  <2>3. CASE e.name \notin DOMAIN Creates
    <3>1. e.name \in DOMAIN Updates /\ s[Updates[e.name]] # Absent /\ Updates[e.name] \in Table
      BY <2>1, <2>3, EventTables DEF Emits
    <3>2. Updated(e, s[Updates[e.name]]) \in Value(Updates[e.name])
      BY <2>1, <3>1, StateColumn, UpdatedValue
    <3> QED
      BY <1>2, <2>3, <3>1, <3>2, StateColumn DEF After
  <2> QED
    BY <2>2, <2>3
<1> QED
  BY <1>1, <1>2

RowsType == [identities : Row("identities"), tracks : Row("tracks"), accounts : Row("accounts")]

LEMMA RowColumn ==
  ASSUME NEW r \in RowsType, NEW t \in Table
  PROVE  r[t] \in Row(t) /\ \A v \in Row(t) : [r EXCEPT ![t] = v] \in RowsType
BY DEF RowsType, Table

LEMMA CascadeType ==
  ASSUME rows \in RowsType, NEW n
  PROVE  Cascade(n) \in RowsType
<1>1. \A t \in Table : [value |-> Absent, at |-> 0] \in Row(t)
  BY ColumnValues DEF Row, Table
<1>2. \A t \in Table : rows[t] \in Row(t)
  BY RowColumn
<1> QED
  BY <1>1, <1>2 DEF Cascade, RowsType, Table

LEMMA ApplyType ==
  ASSUME rows \in RowsType, NEW e \in Event, NEW n \in Nat
  PROVE  applyEvent(e, n) \in RowsType
<1>1. CASE e.name \in DOMAIN Creates
  <2> DEFINE t == Creates[e.name]
  <2>1. t \in Table /\ Initially(t) \in Value(t)
    BY <1>1, EventTables, InitialValue
  <2>2. [value |-> Initially(t), at |-> n] \in Row(t)
    BY <2>1 DEF Row
  <2> QED
    BY <1>1, <2>1, <2>2, RowColumn DEF applyEvent
<1>2. CASE e.name \notin DOMAIN Creates
  <2> DEFINE t == Updates[e.name]
  <2>1. e.name \in DOMAIN Updates /\ t \in Table /\ rows[t] \in Row(t)
    BY <1>2, EventTables, RowColumn
  <2>2. CASE rows[t].value = Absent
    BY <1>2, <2>2 DEF applyEvent
  <2>3. CASE rows[t].value # Absent
    <3>1. rows[t].value \in Value(t)
      BY <2>1 DEF Row
    <3>2. Updated(e, rows[t].value) \in Value(t)
      BY <2>1, <2>3, <3>1, UpdatedValue
    <3>3. PICK v \in Row(t) : v = [rows[t] EXCEPT !.value = Updated(e, @)]
      BY <2>1, <3>2 DEF Row
    <3>4. applyEvent(e, n) = [rows EXCEPT ![t] = v]
      BY <1>2, <2>1, <2>3, <3>3 DEF applyEvent, RowsType
    <3> HIDE DEF t
    <3> QED
      BY <2>1, <3>4 DEF RowsType, Table
  <2> QED
    BY <2>2, <2>3
<1> QED
  BY <1>1, <1>2

-----------------------------------------------------------------------------
(* The invariant in the initial state. *)
LEMMA IndexerInit == Init => IInv
<1> SUFFICES ASSUME Init PROVE IInv
  OBVIOUS
<1>1. NoState \in State
  BY ColumnValues DEF NoState, State, Table
<1>2. PICK b : b = [hash |-> 1, parent |-> 0, logs |-> <<>>, post |-> NoState]
  OBVIOUS
<1>3. b \in Block /\ b.hash = 1 /\ chain = <<b>>
  BY <1>1, <1>2 DEF Init, Block
<1>4. chain \in Seq(Block) /\ Len(chain) = 1 /\ chain[1].hash = 1 /\ DOMAIN chain = {1}
  BY <1>3
<1>5. rows \in RowsType
  BY ColumnValues DEF Init, RowsType, Row, Table
<1>6. sync \in SyncState /\ sync.pc = "idle" /\ ~sync.fresh
  BY DEF Init, Idle, SyncState
<1>7. local = <<>> /\ indexed = <<>> /\ from = 1 /\ mined = 1 /\ finalized = 0
  BY DEF Init
<1>8. TypeOK
  <2>1. local \in Seq(ViewBlock) /\ indexed \in Seq(Nat) /\ DOMAIN indexed = {}
    BY <1>7
  <2>2. indexed \in [DOMAIN indexed -> Nat] /\ DOMAIN indexed \subseteq Nat
    BY <1>7, <2>1
  <2>3. reorgs = 0 /\ faults \in [crashes : Nat, failures : Nat]
    BY DEF Init
  <2>4. finalized \in Nat /\ mined \in Nat /\ from \in Nat /\ reorgs \in Nat
    BY <1>7, <2>3
  <2> QED
    BY <1>4, <1>5, <1>6, <2>1, <2>2, <2>3, <2>4 DEF TypeOK, RowsType
<1>9. ChainLinked
  <2>1. chain # <<>>
    BY <1>3
  <2> QED
    BY <1>4, <1>7, <2>1 DEF ChainLinked
<1>10. ViewLinked /\ IndexedMatches
  BY <1>4, <1>7 DEF ViewLinked, IndexedMatches, AllInChain
<1> QED
  BY <1>6, <1>8, <1>9, <1>10 DEF IInv, SnapshotHolds, FindHolds, RevertHolds, ExtendHolds, FreshHolds, Fresh

-----------------------------------------------------------------------------
(* Steps that touch neither the chain nor the view nor the persisted blocks. *)
LEMMA ViewStays ==
  ASSUME IInv, UNCHANGED <<chain, finalized, mined, local, from, indexed>>
  PROVE  ChainLinked' /\ ViewLinked' /\ IndexedMatches'
<1>1. ChainLinked'
  BY DEF IInv, ChainLinked
<1>2. ViewLinked'
  BY DEF IInv, ViewLinked, InChain, IsCanonical, Canonical
<1>3. IndexedMatches'
  BY DEF IInv, IndexedMatches, AllInChain, InChain, IsCanonical, Canonical
<1> QED
  BY <1>1, <1>2, <1>3

(* A turn that ends or is cut short leaves no obligation of its own. *)
LEMMA IdleHolds ==
  ASSUME sync' = Idle
  PROVE  /\ sync' \in SyncState
         /\ SnapshotHolds' /\ FindHolds' /\ RevertHolds' /\ ExtendHolds' /\ FreshHolds'
<1>1. sync' \in SyncState /\ sync'.pc = "idle" /\ ~sync'.fresh
  BY DEF Idle, SyncState
<1> QED
  BY <1>1 DEF SnapshotHolds, FindHolds, RevertHolds, ExtendHolds, FreshHolds, Fresh

LEMMA AbandonStep ==
  ASSUME IInv, sync' = Idle, UNCHANGED <<chainVars, local, from, dbVars>>,
         faults' \in [crashes : Nat, failures : Nat]
  PROVE  IInv'
<1>1. /\ UNCHANGED <<chain, finalized, mined, local, from, indexed>>
      /\ UNCHANGED <<reorgs, rows>>
  BY DEF chainVars, dbVars
<1>2. TypeOK'
  BY <1>1, IdleHolds DEF IInv, TypeOK
<1> QED
  BY <1>1, <1>2, ViewStays, IdleHolds DEF IInv

LEMMA FailStep ==
  ASSUME IInv, Fail
  PROVE  IInv'
<1>1. faults' \in [crashes : Nat, failures : Nat]
  BY DEF IInv, TypeOK, Fail
<1> QED
  BY <1>1, AbandonStep DEF Fail, Abandon

(* The snapshot of a new turn. *)
LEMMA StartSyncStep ==
  ASSUME IInv, StartSync
  PROVE  IInv'
<1>0. /\ UNCHANGED <<chain, finalized, mined, local, from, indexed>>
      /\ UNCHANGED <<reorgs, rows, faults>>
      /\ TypeOK /\ ChainLinked /\ ViewLinked /\ IndexedMatches
  BY DEF StartSync, chainVars, dbVars, IInv
<1>1. /\ Len(chain) \in Nat /\ finalized \in Nat /\ Len(local) \in Nat /\ from \in Nat
      /\ DOMAIN chain = 1..Len(chain) /\ DOMAIN local = 1..Len(local)
      /\ local = <<>> <=> Len(local) = 0
  BY <1>0 DEF TypeOK
<1>2. /\ sync' \in SyncState /\ sync'.included = Len(chain) /\ sync'.finalized = finalized
      /\ sync'.diverged = 0
      /\ local = <<>> => sync'.pc = "extend" /\ sync'.next = from
      /\ local # <<>> => sync'.pc = "find" /\ sync'.next = Len(local)
  <2>1. Idle \in SyncState /\ Idle.diverged = 0
    BY DEF Idle, SyncState
  <2>2. PICK pc \in {"extend", "find"}, next \in Nat :
          /\ local = <<>> => pc = "extend" /\ next = from
          /\ local # <<>> => pc = "find" /\ next = Len(local)
          /\ sync' = [Idle EXCEPT !.included = Len(chain), !.finalized = finalized,
                                  !.pc = pc, !.next = next]
    <3>1. CASE local = <<>>
      BY <1>1, <3>1 DEF StartSync
    <3>2. CASE local # <<>>
      BY <1>1, <3>2 DEF StartSync
    <3> QED
      BY <3>1, <3>2
  <2> QED
    BY <1>1, <2>1, <2>2 DEF SyncState
<1>3. TypeOK'
  BY <1>0, <1>2 DEF TypeOK
<1>4. SnapshotHolds'
  <2>1. from <= Len(chain) + 1
    BY <1>0, <1>1 DEF IndexedMatches
  <2>2. \A i \in DOMAIN local : InChain(i) => local[i].number <= Len(chain)
    BY <1>1 DEF InChain, IsCanonical
  <2>3. Len(indexed) = from + Len(local) => Len(indexed) <= Len(chain)
    <3> SUFFICES ASSUME Len(indexed) = from + Len(local) PROVE Len(indexed) <= Len(chain)
      OBVIOUS
    <3>1. Len(indexed) \in DOMAIN indexed
      BY <1>0, <1>1 DEF IndexedMatches
    <3>2. IsCanonical(Len(indexed), indexed[Len(indexed)])
      BY <1>0, <3>1 DEF IndexedMatches
    <3> QED
      BY <1>1, <3>2 DEF IsCanonical
  <2> QED
    BY <1>0, <1>1, <1>2, <2>1, <2>2, <2>3 DEF SnapshotHolds, InChain, IsCanonical, Canonical
<1>5. FindHolds' /\ RevertHolds' /\ FreshHolds'
  BY <1>0, <1>1, <1>2 DEF FindHolds, RevertHolds, FreshHolds, Fresh
<1>6. ExtendHolds'
  BY <1>0, <1>1, <1>2 DEF ExtendHolds, AllInChain, IndexedMatches
<1> QED
  BY <1>0, <1>3, <1>4, <1>5, <1>6, ViewStays DEF IInv

(* The domains the other steps reason about. *)
LEMMA Domains ==
  ASSUME IInv
  PROVE  /\ Len(chain) \in Nat /\ DOMAIN chain = 1..Len(chain) /\ Len(chain) > 0
         /\ Len(local) \in Nat /\ DOMAIN local = 1..Len(local)
         /\ local = <<>> <=> Len(local) = 0
         /\ Len(indexed) \in Nat /\ DOMAIN indexed = 1..Len(indexed)
         /\ indexed = <<>> <=> Len(indexed) = 0
         /\ from \in Nat /\ from >= 1 /\ finalized \in Nat /\ mined \in Nat
         /\ \A i \in DOMAIN local : local[i] \in ViewBlock /\ local[i].number = from + i - 1
         /\ local # <<>> => Len(local) \in DOMAIN local /\ local[Len(local)].number = from + Len(local) - 1
         /\ Len(indexed) >= from - 1 /\ Len(indexed) <= from + Len(local)
         /\ \A n \in DOMAIN chain : chain[n] \in Block
         /\ \A n \in DOMAIN indexed : indexed[n] \in Nat
<1>1. chain \in Seq(Block) /\ chain # <<>>
  BY DEF IInv, TypeOK, ChainLinked
<1>2. local \in Seq(ViewBlock)
  BY DEF IInv, TypeOK
<1>3. /\ indexed \in Seq(Nat) /\ from \in 1..(Len(chain) + 1)
      /\ Len(indexed) \in (from - 1)..(from + Len(local))
  BY DEF IInv, IndexedMatches
<1>4. \A i \in DOMAIN local : local[i].number = from + i - 1
  BY DEF IInv, ViewLinked
<1>5. local # <<>> => Len(local) \in DOMAIN local
  BY <1>2
<1>6. /\ \A i \in DOMAIN local : local[i] \in ViewBlock
      /\ \A n \in DOMAIN chain : chain[n] \in Block
      /\ \A n \in DOMAIN indexed : indexed[n] \in Nat
  BY <1>1, <1>2, <1>3
<1>7. Len(chain) \in Nat /\ DOMAIN chain = 1..Len(chain) /\ Len(chain) > 0
  BY <1>1
<1>8. Len(local) \in Nat /\ DOMAIN local = 1..Len(local) /\ (local = <<>> <=> Len(local) = 0)
  BY <1>2
<1>9. /\ Len(indexed) \in Nat /\ DOMAIN indexed = 1..Len(indexed)
      /\ indexed = <<>> <=> Len(indexed) = 0
  BY <1>3
<1>10. /\ from \in Nat /\ from >= 1 /\ finalized \in Nat /\ mined \in Nat
       /\ Len(indexed) >= from - 1 /\ Len(indexed) <= from + Len(local)
  BY <1>3, <1>7, <1>8, <1>9 DEF IInv, TypeOK
<1> QED
  BY <1>4, <1>5, <1>6, <1>7, <1>8, <1>9, <1>10

(* The comparison goes down to the first block that diverged. *)
LEMMA FindStep ==
  ASSUME IInv, findDivergence
  PROVE  IInv'
<1> DEFINE b == local[sync.next]
<1>0. /\ UNCHANGED <<chain, finalized, mined, from, indexed>>
      /\ UNCHANGED <<reorgs, rows, faults>>
      /\ TypeOK /\ ViewLinked /\ IndexedMatches /\ SnapshotHolds /\ FindHolds
      /\ sync.pc = "find" /\ sync \in SyncState
  BY DEF findDivergence, chainVars, dbVars, IInv, TypeOK
<1>1. /\ sync.next \in DOMAIN local /\ sync.next \in Nat /\ sync.diverged \in Nat
      /\ sync.included \in Nat /\ b \in ViewBlock /\ b.number = from + sync.next - 1
  BY <1>0, Domains DEF FindHolds, SyncState
<1>2. Len(indexed) = from + Len(local) => AllInChain
  BY <1>0 DEF IndexedMatches
<1>3. /\ Len(chain) \in Nat /\ DOMAIN chain = 1..Len(chain)
      /\ Len(local) \in Nat /\ DOMAIN local = 1..Len(local) /\ Len(local) >= 1
      /\ b.number \in Nat /\ b.number >= 1
  <2>1. /\ Len(chain) \in Nat /\ DOMAIN chain = 1..Len(chain)
        /\ Len(local) \in Nat /\ DOMAIN local = 1..Len(local) /\ from \in Nat /\ from >= 1
    BY Domains
  <2> QED
    BY <1>1, <2>1 DEF ViewBlock
<1>4. ASSUME UNCHANGED local PROVE \A i : InChain(i)' <=> InChain(i)
  BY <1>0, <1>4 DEF InChain, IsCanonical, Canonical
<1>5. CASE b.number > Len(chain) /\ Abandon
  BY <1>0, <1>5, AbandonStep DEF Abandon, chainVars, dbVars, TypeOK
<1>6. CASE /\ b.number <= Len(chain) /\ Canonical(b.number) = b.hash
           /\ sync' = IF sync.diverged = 0
                        THEN [sync EXCEPT !.pc = "extend", !.next = local[Len(local)].number + 1]
                        ELSE [sync EXCEPT !.pc = "revert", !.next = Len(local)]
           /\ UNCHANGED local
  <2>1. InChain(sync.next)
    BY <1>6, <1>3 DEF InChain, IsCanonical
  <2>2. CASE sync.diverged = 0
    <3>1. sync.next = Len(local) /\ AllInChain
      BY <1>0, <1>1, <2>1, <2>2, Domains DEF FindHolds, ViewLinked, AllInChain
    <3>2. /\ sync' \in SyncState /\ sync'.pc = "extend" /\ sync'.next = from + Len(local)
          /\ sync'.included = sync.included /\ sync'.finalized = sync.finalized
      <4>1. local[Len(local)].number + 1 = from + Len(local) /\ from + Len(local) \in Nat
        BY <1>1, <1>3, <3>1, Domains
      <4> QED
        BY <1>0, <1>6, <2>2, <4>1 DEF SyncState
    <3>3. sync'.next <= sync'.included + 1
      <4>1. local[sync.next].number <= sync.included
        BY <1>0, <1>1, <2>1 DEF SnapshotHolds
      <4>2. /\ from + sync.next - 1 <= sync.included /\ sync.next = Len(local)
            /\ sync'.next = from + Len(local) /\ sync'.included = sync.included
        BY <1>1, <3>1, <3>2, <4>1
      <4>3. from \in Nat /\ Len(local) \in Nat /\ sync.included \in Nat
        BY <1>1, <1>3, Domains
      <4> QED
        BY <4>2, <4>3
    <3>4. AllInChain' /\ SnapshotHolds'
      BY <1>0, <1>6, <3>1, <3>2 DEF AllInChain, SnapshotHolds, InChain, IsCanonical, Canonical
    <3>5. ExtendHolds' /\ FindHolds' /\ RevertHolds' /\ FreshHolds'
      BY <1>0, <1>6, <3>2, <3>3, <3>4 DEF ExtendHolds, FindHolds, RevertHolds, FreshHolds, Fresh
    <3>6. TypeOK'
      BY <1>0, <1>6, <3>2 DEF TypeOK
    <3> QED
      BY <1>0, <1>6, <3>4, <3>5, <3>6, ViewStays DEF IInv
  <2>3. CASE sync.diverged # 0
    <3>1. /\ sync.next + 1 \in DOMAIN local /\ ~InChain(sync.next + 1)
          /\ sync.diverged = local[sync.next + 1].number
      BY <1>0, <2>3 DEF FindHolds
    <3>2. /\ sync' \in SyncState /\ sync'.pc = "revert" /\ sync'.next = Len(local)
          /\ sync'.included = sync.included /\ sync'.finalized = sync.finalized
          /\ sync'.diverged = sync.diverged
      BY <1>0, <1>6, <2>3, Domains DEF SyncState
    <3>3. Len(local) \in DOMAIN local /\ Len(indexed) <= local[Len(local)].number
      <4>1. Len(indexed) # from + Len(local) /\ Len(indexed) <= from + Len(local)
        BY <1>2, <3>1, Domains DEF AllInChain
      <4> QED
        BY <1>1, <4>1, Domains
    <3>4. sync.next + 1 \in 1..Len(local) /\ sync.next + 1 > 1 /\ (sync.next + 1) - 1 = sync.next
      BY <1>1, <1>3, <3>1
    <3>5. PICK d \in 1..Len(local) : /\ sync.diverged = local[d].number /\ ~InChain(d)
                                     /\ d > 1 => InChain(d - 1)
      BY <2>1, <3>1, <3>4
    <3>6. /\ d \in 1..sync'.next /\ sync'.diverged = local'[d].number /\ ~InChain(d)'
          /\ d > 1 => InChain(d - 1)'
      <4>1. chain' = chain /\ local' = local
        BY <1>0, <1>6
      <4>2. ~InChain(d)' /\ (d > 1 => InChain(d - 1)')
        BY <3>5, <4>1 DEF InChain, IsCanonical, Canonical
      <4> QED
        BY <3>2, <3>5, <4>1, <4>2
    <3>7. RevertHolds'
      BY <1>0, <1>6, <3>2, <3>3, <3>6 DEF RevertHolds
    <3>8. SnapshotHolds'
      BY <1>0, <1>6, <1>4, <3>2 DEF SnapshotHolds
    <3>9. ExtendHolds' /\ FindHolds' /\ FreshHolds'
      BY <3>2 DEF ExtendHolds, FindHolds, FreshHolds, Fresh
    <3>10. TypeOK'
      BY <1>0, <1>6, <3>2 DEF TypeOK
    <3> QED
      BY <1>0, <1>6, <3>7, <3>9, <3>10, <3>8, ViewStays DEF IInv
  <2> QED
    BY <2>2, <2>3
<1>7. CASE /\ b.number <= Len(chain) /\ Canonical(b.number) # b.hash
           /\ sync' = IF sync.next > 1
                        THEN [sync EXCEPT !.diverged = b.number, !.next = @ - 1]
                        ELSE [sync EXCEPT !.diverged = b.number, !.pc = "revert", !.next = Len(local)]
           /\ UNCHANGED local
  <2>1. ~InChain(sync.next) /\ b.number # 0 /\ b.number \in Nat
    BY <1>7, <1>3 DEF InChain, IsCanonical
  <2>2. CASE sync.next > 1
    <3>1. /\ sync' \in SyncState /\ sync'.pc = "find" /\ sync'.next = sync.next - 1
          /\ sync'.included = sync.included /\ sync'.finalized = sync.finalized
          /\ sync'.diverged = b.number
      <4>1. sync.next - 1 \in Nat
        BY <1>1, <2>2
      <4> QED
        BY <1>0, <1>7, <2>1, <2>2, <4>1 DEF SyncState
    <3>2. sync'.next \in DOMAIN local /\ sync'.next + 1 = sync.next
      BY <1>1, <1>3, <2>2, <3>1
    <3>3. FindHolds' /\ SnapshotHolds'
      BY <1>0, <1>1, <1>7, <2>1, <3>1, <3>2 DEF FindHolds, SnapshotHolds, InChain, IsCanonical, Canonical
    <3>4. ExtendHolds' /\ RevertHolds' /\ FreshHolds'
      BY <3>1 DEF ExtendHolds, RevertHolds, FreshHolds, Fresh
    <3>5. TypeOK'
      BY <1>0, <1>7, <3>1 DEF TypeOK
    <3> QED
      BY <1>0, <1>7, <3>3, <3>4, <3>5, ViewStays DEF IInv
  <2>3. CASE ~(sync.next > 1)
    <3>1. /\ sync' \in SyncState /\ sync'.pc = "revert" /\ sync'.next = Len(local)
          /\ sync'.included = sync.included /\ sync'.finalized = sync.finalized
          /\ sync'.diverged = b.number
      BY <1>0, <1>7, <2>1, <2>3, Domains DEF SyncState
    <3>2. Len(local) \in DOMAIN local /\ Len(indexed) <= local[Len(local)].number
      <4>1. Len(indexed) # from + Len(local) /\ Len(indexed) <= from + Len(local)
        BY <1>1, <1>2, <2>1, Domains DEF AllInChain
      <4> QED
        BY <1>1, <4>1, Domains
    <3>3. PICK d \in 1..Len(local) : /\ b.number = local[d].number /\ ~InChain(d)
                                     /\ d > 1 => InChain(d - 1)
      BY <1>1, <1>3, <2>1, <2>3
    <3>4. /\ d \in 1..sync'.next /\ sync'.diverged = local'[d].number /\ ~InChain(d)'
          /\ d > 1 => InChain(d - 1)'
      <4>1. chain' = chain /\ local' = local
        BY <1>0, <1>7
      <4>2. ~InChain(d)' /\ (d > 1 => InChain(d - 1)')
        BY <3>3, <4>1 DEF InChain, IsCanonical, Canonical
      <4> QED
        BY <3>1, <3>3, <4>1, <4>2
    <3>5. RevertHolds'
      BY <1>0, <1>7, <3>1, <3>2, <3>4 DEF RevertHolds
    <3>6. SnapshotHolds'
      BY <1>0, <1>7, <1>4, <3>1 DEF SnapshotHolds
    <3>7. ExtendHolds' /\ FindHolds' /\ FreshHolds'
      BY <3>1 DEF ExtendHolds, FindHolds, FreshHolds, Fresh
    <3>8. TypeOK'
      BY <1>0, <1>7, <3>1 DEF TypeOK
    <3> QED
      BY <1>0, <1>7, <3>5, <3>7, <3>8, <3>6, ViewStays DEF IInv
  <2> QED
    BY <2>2, <2>3
<1> QED
  BY <1>5, <1>6, <1>7 DEF findDivergence

(* The turn ends: every block is persisted and canonical up to the snapshot's head. *)
LEMMA EndSyncStep ==
  ASSUME IInv, sync.pc = "extend", sync.next > sync.included, EndSync,
         UNCHANGED <<chainVars, from, dbVars, faults>>
  PROVE  IInv'
<1>0. /\ UNCHANGED <<chain, finalized, mined, from, indexed, reorgs, rows, faults>>
      /\ TypeOK /\ ChainLinked /\ ViewLinked /\ IndexedMatches /\ SnapshotHolds /\ ExtendHolds
  BY DEF IInv, chainVars, dbVars
<1>1. /\ Len(chain) \in Nat /\ Len(local) \in Nat /\ DOMAIN local = 1..Len(local)
      /\ Len(indexed) \in Nat /\ from \in Nat /\ from >= 1 /\ finalized \in Nat
      /\ \A i \in DOMAIN local : local[i] \in ViewBlock
      /\ Len(indexed) <= from + Len(local) /\ Len(indexed) >= from - 1
      /\ local # <<>> => /\ Len(local) \in DOMAIN local
                         /\ local[Len(local)].number = from + Len(local) - 1
      /\ local = <<>> => Len(local) = 0
      /\ DOMAIN indexed = 1..Len(indexed)
  BY Domains
<1>2. /\ sync.included \in Nat /\ sync.finalized \in Nat /\ sync.next \in Nat
      /\ sync.included <= Len(chain) /\ sync.finalized <= finalized
      /\ sync.next = from + Len(local) /\ sync.next = sync.included + 1 /\ AllInChain
  <2>1. /\ sync.included \in Nat /\ sync.finalized \in Nat /\ sync.next \in Nat
    BY <1>0 DEF TypeOK, SyncState
  <2>2. sync.included <= Len(chain) /\ sync.finalized <= finalized
    BY <1>0 DEF SnapshotHolds
  <2>3. sync.next = from + Len(local) /\ sync.next <= sync.included + 1 /\ AllInChain
    BY <1>0 DEF ExtendHolds
  <2>4. sync.next = sync.included + 1
    BY <2>1, <2>3
  <2> QED
    BY <2>1, <2>2, <2>3, <2>4
<1>3. /\ sync' \in SyncState /\ sync'.pc = "idle" /\ sync'.included = sync.included
  <2>1. Idle \in SyncState /\ Idle.pc = "idle"
    BY DEF Idle, SyncState
  <2> QED
    BY <1>2, <2>1 DEF EndSync, SyncState
<1>4. /\ local' \in Seq(ViewBlock) /\ Len(local') = Len(local) /\ DOMAIN local' = DOMAIN local
      /\ \A i \in DOMAIN local :
           /\ local'[i].number = local[i].number /\ local'[i].hash = local[i].hash
           /\ local'[i].parent = local[i].parent
           /\ local'[i].tag = "finalized" => local[i].number <= sync.finalized
  <2>1. \A i \in DOMAIN local :
          /\ [local[i] EXCEPT !.tag = tagFor(local[i].number, sync.finalized)] \in ViewBlock
          /\ local'[i] = [local[i] EXCEPT !.tag = tagFor(local[i].number, sync.finalized)]
    BY <1>1 DEF EndSync, tagFor, ViewBlock
  <2>2. local' \in [1..Len(local) -> ViewBlock]
    BY <1>1, <2>1 DEF EndSync
  <2>3. local' \in Seq(ViewBlock) /\ Len(local') = Len(local) /\ DOMAIN local' = DOMAIN local
    BY <1>1, <2>2
  <2> QED
    BY <1>1, <2>1, <2>3 DEF tagFor, ViewBlock
<1>5. \A i \in DOMAIN local' : InChain(i) /\ InChain(i)'
  BY <1>0, <1>2, <1>4 DEF AllInChain, InChain, IsCanonical, Canonical
<1>6. TypeOK' /\ ChainLinked'
  BY <1>0, <1>3, <1>4 DEF TypeOK, ChainLinked
<1>7. ViewLinked'
  <2> SUFFICES ASSUME NEW i \in DOMAIN local'
               PROVE  /\ local'[i].number = from' + i - 1 /\ local'[i].hash <= mined'
                      /\ i > 1 => local'[i].parent = local'[i-1].hash
                      /\ local'[i].tag = "finalized" => local'[i].number <= finalized' /\ InChain(i)'
    BY <1>5 DEF ViewLinked
  <2>1. /\ local[i].number = from + i - 1 /\ local[i].hash <= mined
        /\ i > 1 => local[i].parent = local[i-1].hash /\ i - 1 \in DOMAIN local
        /\ local[i].number \in Nat
    <3>1. i \in DOMAIN local /\ local[i] \in ViewBlock
      BY <1>1, <1>4
    <3>2. i > 1 => i - 1 \in DOMAIN local
      BY <1>1, <3>1
    <3> QED
      BY <1>0, <3>1, <3>2 DEF ViewLinked, ViewBlock
  <2>2. local'[i].tag = "finalized" => local'[i].number <= finalized' /\ InChain(i)'
    <3>1. local'[i].tag = "finalized" => local[i].number <= sync.finalized
      BY <1>4
    <3> QED
      BY <1>0, <1>1, <1>2, <1>4, <1>5, <2>1, <3>1
  <2> QED
    BY <1>0, <1>4, <2>1, <2>2
<1>8. Len(indexed) = sync.included
  <2>1. Len(indexed) # from + Len(local)
    <3>1. Len(indexed) = from + Len(local) => Len(indexed) <= sync.included
      BY <1>0 DEF SnapshotHolds
    <3> QED
      BY <1>2, <3>1
  <2>2. Len(indexed) >= from + Len(local) - 1
    <3>1. CASE local = <<>>
      BY <1>1, <3>1
    <3>2. CASE local # <<>>
      <4>1. local[Len(local)].number \in DOMAIN indexed
        BY <1>0, <1>1, <1>2, <3>2 DEF IndexedMatches, AllInChain
      <4> QED
        BY <1>1, <3>2, <4>1
    <3> QED
      BY <3>1, <3>2
  <2>3. /\ Len(indexed) \in Nat /\ Len(indexed) <= from + Len(local)
        /\ from + Len(local) = sync.included + 1 /\ from \in Nat /\ Len(local) \in Nat
    BY <1>1, <1>2
  <2> QED
    BY <1>2, <2>1, <2>2, <2>3
<1>9. IndexedMatches'
  BY <1>0, <1>4, <1>5 DEF IndexedMatches, AllInChain, IsCanonical, Canonical
<1>10. FreshHolds'
  BY <1>0, <1>1, <1>2, <1>3, <1>4, <1>5, <1>8 DEF FreshHolds, AllInChain
<1> QED
  BY <1>3, <1>6, <1>7, <1>9, <1>10
  DEF IInv, SnapshotHolds, FindHolds, RevertHolds, ExtendHolds

(* extendTo fetches a header, with no reorg under way, that stays canonical. *)
LEMMA FetchHeaderStep ==
  ASSUME IInv, FetchHeader
  PROVE  IInv'
<1>0. /\ UNCHANGED <<chain, finalized, mined, from, indexed, reorgs, rows, faults>>
      /\ UNCHANGED <<chainVars, from, dbVars, faults>>
      /\ TypeOK /\ SnapshotHolds /\ ExtendHolds /\ sync.pc = "extend" /\ sync \in SyncState
  BY DEF FetchHeader, IInv, TypeOK, chainVars, dbVars
<1>1. CASE sync.next > sync.included /\ EndSync
  BY <1>0, <1>1, EndSyncStep
<1>2. CASE Abandon
  BY <1>0, <1>2, AbandonStep DEF Abandon, TypeOK
<1>3. CASE /\ sync.next <= sync.included /\ sync.next <= Len(chain)
           /\ sync' = [sync EXCEPT !.pc = "insert", !.hash = chain[sync.next].hash,
                                   !.parent = chain[sync.next].parent]
           /\ UNCHANGED local
  <2>1. /\ sync.next \in DOMAIN chain /\ chain[sync.next] \in Block
        /\ sync.next = from + Len(local) /\ AllInChain
    <3>1. /\ DOMAIN chain = 1..Len(chain) /\ Len(chain) \in Nat /\ Len(local) \in Nat
          /\ from \in Nat /\ from >= 1 /\ \A n \in DOMAIN chain : chain[n] \in Block
      BY Domains
    <3>2. sync.next = from + Len(local) /\ AllInChain
      BY <1>0 DEF ExtendHolds
    <3>3. sync.next \in DOMAIN chain
      BY <1>3, <3>1, <3>2
    <3> QED
      BY <3>1, <3>2, <3>3
  <2>2. /\ sync' \in SyncState /\ sync'.pc = "insert" /\ sync'.next = sync.next
        /\ sync'.included = sync.included /\ sync'.finalized = sync.finalized
        /\ sync'.hash = chain[sync.next].hash /\ sync'.parent = chain[sync.next].parent
    BY <1>0, <1>3, <2>1 DEF SyncState, Block
  <2>3. TypeOK'
    BY <1>0, <1>3, <2>2 DEF TypeOK
  <2>4. SnapshotHolds'
    BY <1>0, <1>3, <2>2 DEF SnapshotHolds, InChain, IsCanonical, Canonical
  <2>5. AllInChain'
    BY <1>0, <1>3, <2>1 DEF AllInChain, InChain, IsCanonical, Canonical
  <2>6. ExtendHolds'
    BY <1>0, <1>3, <2>1, <2>2, <2>5 DEF ExtendHolds
  <2>7. FindHolds' /\ RevertHolds' /\ FreshHolds'
    BY <2>2 DEF FindHolds, RevertHolds, FreshHolds, Fresh
  <2> QED
    BY <1>0, <1>3, <2>3, <2>4, <2>6, <2>7, ViewStays DEF IInv
<1> QED
  BY <1>1, <1>2, <1>3 DEF FetchHeader

(* apply persists the block's row: the table has at most one row beyond the view. *)
LEMMA InsertBlockStep ==
  ASSUME IInv, InsertBlock
  PROVE  IInv'
<1>0. /\ UNCHANGED <<chain, finalized, mined, local, from, reorgs, rows, faults>>
      /\ TypeOK /\ ChainLinked /\ ViewLinked /\ IndexedMatches /\ SnapshotHolds /\ ExtendHolds
      /\ sync.pc = "insert" /\ sync \in SyncState
  BY DEF InsertBlock, IInv, TypeOK, chainVars
<1>1. /\ sync.next = from + Len(local) /\ sync.next <= sync.included + 1 /\ AllInChain
      /\ sync.next <= sync.included /\ sync.hash = chain[sync.next].hash
      /\ sync.parent = chain[sync.next].parent
  BY <1>0 DEF ExtendHolds
<1>2. /\ sync.next \in Nat /\ sync.hash \in Nat /\ sync.included \in Nat
      /\ sync.included <= Len(chain)
  BY <1>0 DEF SyncState, SnapshotHolds
<1>3. /\ Len(chain) \in Nat /\ DOMAIN chain = 1..Len(chain)
      /\ Len(local) \in Nat /\ DOMAIN local = 1..Len(local) /\ from \in Nat /\ from >= 1
      /\ Len(indexed) \in Nat /\ DOMAIN indexed = 1..Len(indexed)
      /\ \A n \in DOMAIN indexed : indexed[n] \in Nat
      /\ \A i \in DOMAIN local : local[i].number = from + i - 1
      /\ Len(indexed) <= from + Len(local) /\ Len(indexed) >= from - 1
  BY Domains
<1>4. Len(indexed) >= sync.next - 1 /\ \A i \in DOMAIN local : local[i].number \in DOMAIN indexed
  <2>1. \A i \in DOMAIN local : local[i].number \in DOMAIN indexed
    BY <1>0, <1>1 DEF IndexedMatches, AllInChain
  <2>2. CASE Len(local) = 0
    BY <1>1, <1>3, <2>1, <2>2
  <2>3. CASE Len(local) # 0
    <3>1. Len(local) \in DOMAIN local
      BY <1>3, <2>3
    <3> QED
      BY <1>1, <1>3, <2>1, <3>1
  <2> QED
    BY <2>1, <2>2, <2>3
<1>5. /\ indexed' \in [1..sync.next -> Nat] /\ indexed'[sync.next] = sync.hash
      /\ \A n \in 1..(sync.next - 1) : n \in DOMAIN indexed /\ indexed'[n] = indexed[n]
  <2>1. DOMAIN indexed \cup {sync.next} = 1..sync.next
    <3>1. DOMAIN indexed = 1..Len(indexed) /\ Len(indexed) \in Nat /\ sync.next \in Nat
      BY <1>2, <1>3
    <3>2. Len(indexed) >= sync.next - 1 /\ Len(indexed) <= sync.next /\ sync.next >= 1
      BY <1>1, <1>3, <1>4
    <3> QED
      BY <3>1, <3>2
  <2>2. indexed' = [m \in 1..sync.next |-> IF m = sync.next THEN sync.hash ELSE indexed[m]]
    BY <2>1 DEF InsertBlock
  <2>3. \A n \in 1..(sync.next - 1) : n \in DOMAIN indexed /\ n \in 1..sync.next /\ n # sync.next
    BY <1>2, <1>3, <1>4
  <2>4. sync.next \in 1..sync.next
    BY <1>1, <1>2, <1>3
  <2>5. \A m \in 1..sync.next : m = sync.next \/ m \in DOMAIN indexed
    BY <2>1
  <2> QED
    BY <1>2, <1>3, <2>2, <2>3, <2>4, <2>5
<1>6. /\ indexed' \in Seq(Nat) /\ Len(indexed') = sync.next /\ DOMAIN indexed' = 1..sync.next
      /\ indexed' \in [DOMAIN indexed' -> Nat] /\ DOMAIN indexed' \subseteq Nat
  BY <1>2, <1>5
<1>7. /\ sync' \in SyncState /\ sync'.pc = "logs" /\ sync'.next = sync.next
      /\ sync'.included = sync.included /\ sync'.finalized = sync.finalized
      /\ sync'.hash = sync.hash /\ sync'.parent = sync.parent
  BY <1>0 DEF InsertBlock, SyncState
<1>8. AllInChain' /\ sync.next \in DOMAIN chain' /\ chain'[sync.next].hash = sync.hash
  <2>1. AllInChain'
    BY <1>0, <1>1 DEF AllInChain, InChain, IsCanonical, Canonical
  <2>2. sync.next \in DOMAIN chain
    BY <1>1, <1>2, <1>3
  <2> QED
    BY <1>0, <1>1, <2>1, <2>2
<1>9. TypeOK' /\ ChainLinked' /\ ViewLinked'
  BY <1>0, <1>6, <1>7 DEF TypeOK, ChainLinked, ViewLinked, InChain, IsCanonical, Canonical
<1>10. IndexedMatches'
  <2>1. from' \in 1..(Len(chain') + 1) /\ Len(indexed') \in (from' - 1)..(from' + Len(local'))
    BY <1>0, <1>1, <1>3, <1>6 DEF IndexedMatches
  <2>2. ASSUME NEW n \in DOMAIN indexed', n < from' \/ n = from' + Len(local')
        PROVE  IsCanonical(n, indexed[n])'
    <3>1. CASE n = sync.next
      BY <1>5, <1>8, <3>1 DEF IsCanonical, Canonical
    <3>2. CASE n # sync.next
      <4>1. n \in 1..(sync.next - 1) /\ n < from
        BY <1>0, <1>1, <1>2, <1>6, <2>2, <3>2
      <4>2. IsCanonical(n, indexed[n])
        BY <1>0, <1>5, <4>1 DEF IndexedMatches
      <4> QED
        BY <1>0, <1>5, <4>1, <4>2 DEF IsCanonical, Canonical
    <3> QED
      BY <3>1, <3>2
  <2>3. ASSUME NEW i \in DOMAIN local'
        PROVE  /\ local'[i].number \in DOMAIN indexed'
               /\ indexed'[local'[i].number] = local'[i].hash
    <3>1. local[i].number \in DOMAIN indexed /\ indexed[local[i].number] = local[i].hash
      BY <1>0, <1>4 DEF IndexedMatches
    <3>2. local[i].number \in 1..(sync.next - 1)
      BY <1>0, <1>1, <1>3
    <3> QED
      BY <1>0, <1>2, <1>5, <1>6, <3>1, <3>2
  <2> QED
    BY <1>6, <1>8, <2>1, <2>2, <2>3 DEF IndexedMatches
<1>11. SnapshotHolds'
  BY <1>0, <1>1, <1>6, <1>7 DEF SnapshotHolds, InChain, IsCanonical, Canonical
<1>12. ExtendHolds'
  BY <1>0, <1>1, <1>6, <1>7, <1>8 DEF ExtendHolds
<1>13. FindHolds' /\ RevertHolds' /\ FreshHolds'
  BY <1>7 DEF FindHolds, RevertHolds, FreshHolds, Fresh
<1> QED
  BY <1>9, <1>10, <1>11, <1>12, <1>13 DEF IInv

(* The block's logs are fetched, and applied one by one: the blocks stay as they are. *)
LEMMA LogsHold ==
  ASSUME IInv, UNCHANGED <<chain, finalized, mined, local, from, indexed>>,
         sync.pc \in {"logs", "event"}, sync' \in SyncState, sync'.pc = "event",
         sync'.next = sync.next, sync'.included = sync.included, sync'.finalized = sync.finalized,
         sync'.hash = sync.hash, sync'.parent = sync.parent
  PROVE  SnapshotHolds' /\ FindHolds' /\ RevertHolds' /\ ExtendHolds' /\ FreshHolds'
<1>0. SnapshotHolds /\ ExtendHolds
  BY DEF IInv
<1>1. SnapshotHolds'
  BY <1>0 DEF SnapshotHolds, InChain, IsCanonical, Canonical
<1>2. /\ sync.next = from + Len(local) /\ sync.next <= sync.included + 1 /\ AllInChain
      /\ sync.next <= sync.included /\ sync.hash = chain[sync.next].hash
      /\ sync.parent = chain[sync.next].parent /\ Len(indexed) = sync.next
  BY <1>0 DEF ExtendHolds
<1>3. AllInChain'
  BY <1>2 DEF AllInChain, InChain, IsCanonical, Canonical
<1>4. ExtendHolds'
  BY <1>2, <1>3 DEF ExtendHolds
<1> QED
  BY <1>1, <1>4 DEF FindHolds, RevertHolds, FreshHolds, Fresh

LEMMA FetchLogsStep ==
  ASSUME IInv, FetchLogs
  PROVE  IInv'
<1>0. /\ UNCHANGED <<chain, finalized, mined, local, from, indexed>>
      /\ UNCHANGED <<reorgs, rows, faults>>
      /\ TypeOK /\ sync.pc = "logs" /\ sync \in SyncState
  BY DEF FetchLogs, IInv, TypeOK, chainVars, dbVars
<1>1. PICK logs \in Seq(Event) : sync' = [sync EXCEPT !.pc = "event", !.logs = logs]
  <2>1. CASE sync.next <= Len(chain)
    <3>1. sync.next \in DOMAIN chain
      <4>1. sync.next = from + Len(local)
        BY <1>0 DEF IInv, ExtendHolds
      <4>2. /\ DOMAIN chain = 1..Len(chain) /\ Len(chain) \in Nat /\ Len(local) \in Nat
            /\ from \in Nat /\ from >= 1
        BY Domains
      <4> QED
        BY <2>1, <4>1, <4>2
    <3>2. chain[sync.next] \in Block
      BY <3>1, Domains
    <3>3. chain[sync.next].logs \in Seq(Event)
      BY <3>2 DEF Block
    <3> QED
      BY <2>1, <3>3 DEF FetchLogs
  <2>2. CASE ~(sync.next <= Len(chain))
    <3>1. <<>> \in Seq(Event)
      OBVIOUS
    <3> QED
      BY <2>2, <3>1 DEF FetchLogs
  <2> QED
    BY <2>1, <2>2
<1>2. /\ sync' \in SyncState /\ sync'.pc = "event" /\ sync'.next = sync.next
      /\ sync'.included = sync.included /\ sync'.finalized = sync.finalized
      /\ sync'.hash = sync.hash /\ sync'.parent = sync.parent
  BY <1>0, <1>1 DEF SyncState
<1>3. TypeOK'
  BY <1>0, <1>2 DEF TypeOK
<1> QED
  BY <1>0, <1>2, <1>3, LogsHold, ViewStays DEF IInv

LEMMA ApplyNextLogStep ==
  ASSUME IInv, ApplyNextLog
  PROVE  IInv'
<1>0. /\ UNCHANGED <<chain, finalized, mined, from, indexed>>
      /\ UNCHANGED <<reorgs, faults>>
      /\ TypeOK /\ sync.pc = "event" /\ sync \in SyncState /\ sync.logs # <<>>
      /\ rows \in RowsType /\ sync.next \in Nat
  BY DEF ApplyNextLog, IInv, TypeOK, chainVars, RowsType, SyncState
<1>1. CASE Abandon /\ UNCHANGED rows
  <2>1. faults \in [crashes : Nat, failures : Nat]
    BY <1>0 DEF TypeOK
  <2> QED
    BY <1>0, <1>1, <2>1, AbandonStep DEF Abandon, chainVars, dbVars
<1>2. CASE /\ rows' = applyEvent(Head(sync.logs), sync.next)
           /\ sync' = [sync EXCEPT !.logs = Tail(@)]
           /\ UNCHANGED local
  <2>1. sync.logs \in Seq(Event)
    BY <1>0 DEF SyncState
  <2>2. Head(sync.logs) \in Event /\ Tail(sync.logs) \in Seq(Event)
    BY <1>0, <2>1
  <2>3. rows' \in RowsType
    BY <1>0, <1>2, <2>2, ApplyType
  <2>4. /\ sync' \in SyncState /\ sync'.pc = "event" /\ sync'.next = sync.next
        /\ sync'.included = sync.included /\ sync'.finalized = sync.finalized
        /\ sync'.hash = sync.hash /\ sync'.parent = sync.parent
    BY <1>0, <1>2, <2>2 DEF SyncState
  <2>5. TypeOK'
    BY <1>0, <1>2, <2>3, <2>4 DEF TypeOK, RowsType
  <2> QED
    BY <1>0, <1>2, <2>4, <2>5, LogsHold, ViewStays DEF IInv
<1> QED
  BY <1>1, <1>2 DEF ApplyNextLog

(* The block joins the view: it is the child of the view's tip. *)
LEMMA PushBlockStep ==
  ASSUME IInv, PushBlock
  PROVE  IInv'
<1>0. /\ UNCHANGED <<chain, finalized, mined, from, indexed, reorgs, rows, faults>>
      /\ TypeOK /\ ChainLinked /\ ViewLinked /\ IndexedMatches /\ SnapshotHolds /\ ExtendHolds
      /\ sync.pc = "event" /\ sync \in SyncState
  BY DEF PushBlock, IInv, TypeOK, chainVars, dbVars
<1>1. /\ sync.next = from + Len(local) /\ AllInChain
      /\ sync.next <= sync.included /\ sync.hash = chain[sync.next].hash
      /\ sync.parent = chain[sync.next].parent /\ Len(indexed) = sync.next
  BY <1>0 DEF ExtendHolds
<1>2. /\ sync.next \in Nat /\ sync.hash \in Nat /\ sync.parent \in Nat /\ sync.included \in Nat
      /\ sync.finalized \in Nat /\ sync.included <= Len(chain) /\ sync.finalized <= finalized
  BY <1>0 DEF SyncState, SnapshotHolds
<1>3. /\ Len(chain) \in Nat /\ DOMAIN chain = 1..Len(chain)
      /\ Len(local) \in Nat /\ DOMAIN local = 1..Len(local) /\ from \in Nat /\ from >= 1
      /\ finalized \in Nat
      /\ local # <<>> => Len(local) \in DOMAIN local /\ local[Len(local)].number = from + Len(local) - 1
      /\ local = <<>> <=> Len(local) = 0
  BY Domains
<1>4. sync.next \in DOMAIN chain /\ sync.next \in DOMAIN indexed /\ indexed[sync.next] = sync.hash
  <2>1. sync.next \in DOMAIN chain
    BY <1>1, <1>2, <1>3
  <2>2. sync.next \in DOMAIN indexed /\ DOMAIN indexed = 1..Len(indexed)
    BY <1>1, <1>3, Domains
  <2>3. IsCanonical(sync.next, indexed[sync.next])
    BY <1>0, <1>1, <2>2 DEF IndexedMatches
  <2> QED
    BY <1>1, <2>1, <2>2, <2>3 DEF IsCanonical, Canonical
<1>5. PICK b \in ViewBlock : /\ local' = Append(local, b) /\ b.number = sync.next /\ b.hash = sync.hash
                             /\ b.parent = sync.parent
                             /\ b.tag = "finalized" => sync.next <= sync.finalized
  BY <1>2 DEF PushBlock, tagFor, ViewBlock
<1>6. /\ local' \in Seq(ViewBlock) /\ Len(local') = Len(local) + 1
      /\ DOMAIN local' = 1..(Len(local) + 1)
      /\ local'[Len(local) + 1] = b
      /\ \A i \in DOMAIN local : local'[i] = local[i]
      /\ \A i \in DOMAIN local' : i \in DOMAIN local \/ i = Len(local) + 1
  <2>1. local \in Seq(ViewBlock)
    BY <1>0 DEF TypeOK
  <2> QED
    BY <1>3, <1>5, <2>1
<1>7. /\ sync' \in SyncState /\ sync'.pc = "extend" /\ sync'.next = sync.next + 1
      /\ sync'.included = sync.included /\ sync'.finalized = sync.finalized
  <2>1. sync.next + 1 \in Nat
    BY <1>2
  <2> QED
    BY <1>0, <2>1 DEF PushBlock, SyncState
<1>8. \A i \in DOMAIN local' : InChain(i)'
  <2>0. PICK t : t = Len(local) + 1
    OBVIOUS
  <2>1. InChain(t)'
    BY <1>0, <1>1, <1>4, <1>5, <1>6, <2>0 DEF InChain, IsCanonical, Canonical
  <2>2. \A i \in DOMAIN local : InChain(i)'
    BY <1>0, <1>1, <1>6 DEF AllInChain, InChain, IsCanonical, Canonical
  <2> QED
    BY <1>6, <2>0, <2>1, <2>2
<1>9. TypeOK' /\ ChainLinked'
  BY <1>0, <1>6, <1>7 DEF TypeOK, ChainLinked
<1>10. ViewLinked'
  <2> SUFFICES ASSUME NEW i \in DOMAIN local'
               PROVE  /\ local'[i].number = from' + i - 1 /\ local'[i].hash <= mined'
                      /\ i > 1 => local'[i].parent = local'[i-1].hash
                      /\ local'[i].tag = "finalized" => local'[i].number <= finalized' /\ InChain(i)'
    BY <1>8 DEF ViewLinked
  <2>1. CASE i \in DOMAIN local
    <3>1. i > 1 => i - 1 \in DOMAIN local
      BY <1>3, <2>1
    <3> QED
      BY <1>0, <1>6, <1>8, <2>1, <3>1 DEF ViewLinked
  <2>2. CASE i = Len(local) + 1
    <3>1. local'[i].number = from + i - 1 /\ local'[i].hash <= mined
      BY <1>0, <1>1, <1>3, <1>4, <1>5, <1>6, <2>2 DEF ChainLinked
    <3>2. i > 1 => local'[i].parent = local'[i-1].hash
      <4> SUFFICES ASSUME i > 1 PROVE local'[i].parent = local'[i-1].hash
        OBVIOUS
      <4>1. i - 1 = Len(local) /\ Len(local) \in DOMAIN local
            /\ local[Len(local)].number = sync.next - 1
        BY <1>1, <1>3, <2>2
      <4>2. local[Len(local)].hash = chain[sync.next - 1].hash
        BY <1>1, <4>1 DEF AllInChain, InChain, IsCanonical, Canonical
      <4>3. sync.next > 1
        BY <1>1, <1>3, <4>1
      <4>4. chain[sync.next].parent = chain[sync.next - 1].hash
        BY <1>0, <1>4, <4>3 DEF ChainLinked
      <4>5. local'[i-1] = local[Len(local)] /\ local'[i] = b
        BY <1>6, <2>2, <4>1
      <4> QED
        BY <1>1, <1>5, <4>2, <4>4, <4>5
    <3>3. local'[i].tag = "finalized" => local'[i].number <= finalized
      BY <1>2, <1>3, <1>5, <1>6, <2>2
    <3> QED
      BY <1>0, <1>8, <3>1, <3>2, <3>3
  <2> QED
    BY <1>6, <2>1, <2>2
<1>11. IndexedMatches'
  <2>1. from' \in 1..(Len(chain') + 1) /\ Len(indexed') \in (from' - 1)..(from' + Len(local'))
    BY <1>0, <1>1, <1>3, <1>6 DEF IndexedMatches
  <2>2. ASSUME NEW n \in DOMAIN indexed', n < from' \/ n = from' + Len(local')
        PROVE  IsCanonical(n, indexed[n])'
    <3>1. n \in DOMAIN indexed /\ DOMAIN indexed = 1..Len(indexed)
      BY <1>0, Domains
    <3>2. n < from
      BY <1>0, <1>1, <1>3, <1>6, <2>2, <3>1
    <3>3. IsCanonical(n, indexed[n])
      BY <1>0, <3>1, <3>2 DEF IndexedMatches
    <3> QED
      BY <1>0, <3>3 DEF IsCanonical, Canonical
  <2>3. ASSUME NEW i \in DOMAIN local'
        PROVE  local'[i].number \in DOMAIN indexed' /\ indexed'[local'[i].number] = local'[i].hash
    <3>1. CASE i \in DOMAIN local
      BY <1>0, <1>1, <1>6, <3>1 DEF IndexedMatches, AllInChain
    <3>2. CASE i = Len(local) + 1
      BY <1>0, <1>4, <1>5, <1>6, <3>2
    <3> QED
      BY <1>6, <3>1, <3>2
  <2>4. indexed' \in Seq(Nat) /\ AllInChain'
    BY <1>0, <1>8 DEF IndexedMatches, AllInChain
  <2> QED
    BY <2>1, <2>2, <2>3, <2>4 DEF IndexedMatches
<1>12. SnapshotHolds'
  <2>1. \A i \in DOMAIN local' : local'[i].number <= sync.included
    <3>1. \A i \in DOMAIN local : local[i].number <= sync.included
      BY <1>0, <1>1 DEF SnapshotHolds, AllInChain
    <3> QED
      BY <1>1, <1>5, <1>6, <3>1
  <2>2. Len(indexed') # from' + Len(local')
    <3>1. Len(indexed') = from + Len(local) /\ from' + Len(local') = from + Len(local) + 1
      BY <1>0, <1>1, <1>3, <1>6
    <3> QED
      BY <1>3, <3>1
  <2>3. sync.included <= Len(chain) /\ sync.finalized <= finalized /\ from <= sync.included + 1
    BY <1>0 DEF SnapshotHolds
  <2> QED
    BY <1>0, <1>7, <2>1, <2>2, <2>3 DEF SnapshotHolds
<1>13. ExtendHolds'
  <2>1. sync'.next = from' + Len(local') /\ sync'.next <= sync'.included + 1
    <3>1. /\ from' = from /\ Len(local') = Len(local) + 1 /\ sync'.next = sync.next + 1
          /\ sync'.included = sync.included /\ from \in Nat /\ Len(local) \in Nat
      BY <1>0, <1>3, <1>6, <1>7
    <3> QED
      BY <1>1, <1>2, <3>1
  <2> QED
    BY <1>7, <1>8, <2>1 DEF ExtendHolds, AllInChain
<1>14. FindHolds' /\ RevertHolds' /\ FreshHolds'
  BY <1>7 DEF FindHolds, RevertHolds, FreshHolds, Fresh
<1> QED
  BY <1>9, <1>10, <1>11, <1>12, <1>13, <1>14 DEF IInv

(* One block is reverted; after the first that diverged the view is cut there. *)
LEMMA RevertStep ==
  ASSUME IInv, revert
  PROVE  IInv'
<1>0. /\ UNCHANGED <<chain, finalized, mined, from, reorgs, faults>>
      /\ TypeOK /\ ChainLinked /\ ViewLinked /\ IndexedMatches /\ SnapshotHolds /\ RevertHolds
      /\ sync.pc = "revert" /\ sync \in SyncState
  BY DEF revert, IInv, TypeOK, chainVars
<1>1. /\ Len(chain) \in Nat /\ Len(local) \in Nat /\ from \in Nat /\ from >= 1
      /\ Len(indexed) \in Nat /\ Len(indexed) >= from - 1
  BY Domains
<1>2. DOMAIN local = 1..Len(local) /\ DOMAIN indexed = 1..Len(indexed)
  BY Domains
<1>3. /\ \A n \in DOMAIN indexed : indexed[n] \in Nat
      /\ \A i \in DOMAIN local : local[i].number = from + i - 1
  BY Domains
<1>4. /\ sync.next \in DOMAIN local /\ sync.next \in Nat /\ Len(indexed) <= local[sync.next].number
      /\ sync.included \in Nat /\ sync.diverged \in Nat
  BY <1>0 DEF RevertHolds, SyncState
<1>5. PICK d \in Nat : /\ sync.diverged = local[d].number /\ ~InChain(d)
                       /\ d > 1 => InChain(d - 1)
                       /\ d >= 1 /\ d <= sync.next
  <2>1. \A d \in 1..sync.next : d \in Nat /\ d >= 1 /\ d <= sync.next
    BY <1>4
  <2> QED
    BY <1>0, <2>1 DEF RevertHolds
<1>6. d \in DOMAIN local /\ d >= 1 /\ d <= sync.next /\ sync.diverged = from + d - 1
  <2>1. sync.next <= Len(local)
    BY <1>4, <1>2
  <2>2. d <= Len(local)
    BY <1>1, <1>4, <1>5, <2>1
  <2>3. d \in DOMAIN local
    BY <1>1, <1>5, <1>2, <2>2
  <2> QED
    BY <1>5, <1>3, <2>3
<1>7. \A i \in DOMAIN local : i >= d => ~InChain(i)
  <2> SUFFICES ASSUME NEW i \in DOMAIN local, i >= d PROVE ~InChain(i)
    OBVIOUS
  <2>1. i = d \/ d < i
    BY <1>1, <1>6
  <2> QED
    BY <1>0, <1>5, <1>6, <2>1 DEF ViewLinked
<1>8. PICK n \in Nat : n = local[sync.next].number /\ n = from + sync.next - 1 /\ n >= 1
  BY <1>1, <1>4, <1>3
<1>9. PICK m \in Nat : /\ m <= Len(indexed) /\ m <= n - 1 /\ (m = Len(indexed) \/ m = n - 1)
                       /\ indexed' \in [1..m -> Nat] /\ \A k \in 1..m : indexed'[k] = indexed[k]
  <2>1. PICK m \in Nat : /\ m <= Len(indexed) /\ m <= n - 1 /\ (m = Len(indexed) \/ m = n - 1)
                         /\ DOMAIN indexed \ {n} = 1..m
    <3>1. CASE Len(indexed) = n
      <4>1. n - 1 \in Nat /\ DOMAIN indexed \ {n} = 1..(n - 1) /\ n - 1 <= Len(indexed)
        BY <1>1, <1>8, <3>1
      <4> QED
        BY <1>8, <4>1
    <3>2. CASE Len(indexed) # n
      <4>0. Len(indexed) <= n - 1
        BY <1>1, <1>4, <1>8, <3>2
      <4>1. Len(indexed) <= n - 1 /\ DOMAIN indexed \ {n} = 1..Len(indexed)
        BY <1>1, <1>2, <4>0
      <4> QED
        BY <1>1, <1>8, <4>1
    <3> QED
      BY <3>1, <3>2
  <2>2. indexed' = [k \in 1..m |-> indexed[k]]
    BY <1>8, <2>1 DEF revert
  <2>3. \A k \in 1..m : k \in DOMAIN indexed
    BY <2>1
  <2> QED
    BY <1>3, <2>1, <2>2, <2>3
<1>10. /\ indexed' \in Seq(Nat) /\ Len(indexed') = m /\ DOMAIN indexed' = 1..m
       /\ indexed' \in [DOMAIN indexed' -> Nat] /\ DOMAIN indexed' \subseteq Nat
  BY <1>9
<1>11. rows' \in RowsType
  <2>1. rows' = Cascade(n) /\ rows \in RowsType
    BY <1>0, <1>8 DEF revert, TypeOK, RowsType
  <2> QED
    BY <2>1, CascadeType
<1>12. m >= from - 1
  <2>1. m \in Nat /\ (m = Len(indexed) \/ m = n - 1)
    BY <1>9
  <2>2. n >= from
    BY <1>1, <1>4, <1>6, <1>8
  <2> QED
    BY <1>1, <1>8, <2>1, <2>2
<1>13. CASE n > sync.diverged /\ sync' = [sync EXCEPT !.next = @ - 1] /\ UNCHANGED local
  <2>1. sync.next > d /\ sync.next - 1 \in Nat /\ sync.next - 1 \in DOMAIN local
    <3>1. n > from + d - 1 /\ n = from + sync.next - 1
      BY <1>6, <1>8, <1>13
    <3>2. sync.next > d
      BY <1>1, <1>4, <1>6, <3>1
    <3> QED
      BY <1>1, <1>4, <1>6, <3>2
  <2>2. /\ sync' \in SyncState /\ sync'.pc = "revert" /\ sync'.next = sync.next - 1
        /\ sync'.included = sync.included /\ sync'.finalized = sync.finalized
        /\ sync'.diverged = sync.diverged
    BY <1>0, <1>13, <2>1 DEF SyncState
  <2>3. TypeOK' /\ ChainLinked' /\ ViewLinked'
    <3>1. TypeOK' /\ ChainLinked'
      BY <1>0, <1>10, <1>11, <1>13, <2>2 DEF TypeOK, RowsType, ChainLinked
    <3>2. ViewLinked'
      BY <1>0, <1>13 DEF ViewLinked, InChain, IsCanonical, Canonical
    <3> QED
      BY <3>1, <3>2
  <2>4. m < from + Len(local)
    <3>1. m \in Nat /\ m <= n - 1
      BY <1>9
    <3> QED
      BY <1>1, <1>4, <1>8, <3>1
  <2>5. IndexedMatches'
    <3>1. from' \in 1..(Len(chain') + 1) /\ Len(indexed') \in (from' - 1)..(from' + Len(local'))
      BY <1>0, <1>1, <1>10, <1>12, <1>13, <2>4 DEF IndexedMatches
    <3>2. ASSUME NEW k \in DOMAIN indexed', k < from' \/ k = from' + Len(local')
          PROVE  IsCanonical(k, indexed[k])'
      <4>1. k \in 1..m /\ k \in DOMAIN indexed /\ k < from
        BY <1>0, <1>1, <1>9, <1>10, <1>13, <2>4, <3>2
      <4>2. IsCanonical(k, indexed[k])
        BY <1>0, <4>1 DEF IndexedMatches
      <4> QED
        BY <1>0, <1>9, <4>1, <4>2 DEF IsCanonical, Canonical
    <3>3. ASSUME NEW i \in DOMAIN local'
          PROVE  /\ local'[i].number \in DOMAIN indexed' => indexed'[local'[i].number] = local'[i].hash
                 /\ local'[i].number \notin DOMAIN indexed' => ~InChain(i)'
      <4>1. i \in DOMAIN local /\ local[i].number = from + i - 1 /\ i \in Nat
        BY <1>1, <1>13, <1>3
      <4>2. ASSUME local[i].number \in 1..m
            PROVE  indexed'[local[i].number] = local[i].hash
        <5>1. local[i].number \in DOMAIN indexed
          BY <1>1, <1>9, <4>2
        <5> QED
          BY <1>0, <1>9, <4>1, <4>2, <5>1 DEF IndexedMatches
      <4>3. ASSUME local[i].number \notin 1..m
            PROVE  ~InChain(i)
        <5>1. CASE local[i].number \notin DOMAIN indexed
          BY <1>0, <4>1, <5>1 DEF IndexedMatches
        <5>2. CASE local[i].number \in DOMAIN indexed
          <6>1. i >= d
            <7>1. m \in Nat /\ (m = Len(indexed) \/ m = n - 1)
              BY <1>9
            <7>2. m = n - 1 /\ from + i - 1 > n - 1
              BY <1>1, <1>8, <4>1, <4>3, <5>2, <7>1
            <7> QED
              <8>1. sync.next \in Nat /\ d \in Nat /\ d <= sync.next /\ n = from + sync.next - 1
                BY <1>4, <1>6, <1>8
              <8>2. i \in Nat
                BY <4>1
              <8>3. from \in Nat
                BY <1>1
              <8> QED
                BY <7>2, <8>1, <8>2, <8>3
          <6> QED
            BY <1>7, <4>1, <6>1
        <5> QED
          BY <5>1, <5>2
      <4> QED
        BY <1>0, <1>10, <1>13, <4>2, <4>3 DEF InChain, IsCanonical, Canonical
    <3>4. Len(indexed') # from' + Len(local')
      BY <1>0, <1>1, <1>9, <1>10, <1>13, <2>4
    <3> QED
      BY <1>10, <3>1, <3>2, <3>3, <3>4 DEF IndexedMatches
  <2>6. SnapshotHolds'
    <3>1. Len(indexed') # from' + Len(local')
      BY <1>0, <1>1, <1>9, <1>10, <1>13, <2>4
    <3> QED
      BY <1>0, <1>13, <2>2, <3>1 DEF SnapshotHolds, InChain, IsCanonical, Canonical
  <2>7. RevertHolds'
    <3>1. Len(indexed') <= local'[sync'.next].number
      <4>0. from + (sync.next - 1) - 1 = n - 1
        BY <1>1, <1>4, <1>8
      <4>1. local[sync.next - 1].number = n - 1
        BY <1>3, <2>1, <4>0
      <4> QED
        BY <1>9, <1>10, <1>13, <2>2, <4>1
    <3>2. d \in 1..sync'.next
      BY <1>4, <1>6, <2>1, <2>2
    <3>3. sync'.diverged = local'[d].number /\ ~InChain(d)' /\ (d > 1 => InChain(d - 1)')
      BY <1>0, <1>5, <1>13, <2>2 DEF InChain, IsCanonical, Canonical
    <3> QED
      BY <1>13, <2>1, <2>2, <3>1, <3>2, <3>3 DEF RevertHolds
  <2>8. FindHolds' /\ ExtendHolds' /\ FreshHolds'
    BY <2>2 DEF FindHolds, ExtendHolds, FreshHolds, Fresh
  <2> QED
    BY <2>3, <2>5, <2>6, <2>7, <2>8 DEF IInv
<1>14. CASE /\ ~(n > sync.diverged)
            /\ sync' = [sync EXCEPT !.pc = "extend", !.next = n]
            /\ local' = SubSeq(local, 1, sync.next - 1)
  <2>1. d = sync.next /\ n = from + d - 1 /\ d - 1 \in Nat /\ d - 1 <= Len(local)
    <3>1. ~(n > from + d - 1) /\ n = from + sync.next - 1 /\ sync.next \in Nat
      BY <1>4, <1>6, <1>8, <1>14
    <3>2. d = sync.next
      BY <1>1, <1>6, <3>1
    <3>3. d <= Len(local)
      BY <1>6, <1>2
    <3> QED
      BY <1>1, <1>6, <3>1, <3>2, <3>3
  <2>2. d >= 1 /\ n = from + d - 1 /\ from \in Nat /\ from >= 1
    BY <1>1, <1>6, <2>1
  <2>3. /\ sync' \in SyncState /\ sync'.pc = "extend" /\ sync'.next = n
        /\ sync'.included = sync.included /\ sync'.finalized = sync.finalized
    BY <1>0, <1>14 DEF SyncState
  <2>4. /\ local' \in Seq(ViewBlock) /\ Len(local') = d - 1 /\ DOMAIN local' = 1..(d - 1)
        /\ \A i \in 1..(d - 1) : i \in DOMAIN local /\ local'[i] = local[i]
    <3>1. local \in Seq(ViewBlock)
      BY <1>0 DEF TypeOK
    <3>2. local' = SubSeq(local, 1, d - 1)
      BY <1>14, <2>1
    <3>3. PICK e \in Nat : e = d - 1 /\ e <= Len(local)
      BY <2>1
    <3>4. /\ local' \in Seq(ViewBlock) /\ Len(local') = e /\ DOMAIN local' = 1..e
          /\ \A i \in 1..e : i \in DOMAIN local /\ local'[i] = local[i]
      BY <3>1, <3>2, <3>3
    <3> QED
      BY <3>3, <3>4
  <2>5. \A i \in 1..(d - 1) : InChain(i) /\ InChain(i)'
    <3>1. \A i \in 1..(d - 1) : InChain(i)
      <4> SUFFICES ASSUME NEW i \in 1..(d - 1) PROVE InChain(i)
        OBVIOUS
      <4>1. d > 1 /\ InChain(d - 1) /\ d - 1 \in DOMAIN local /\ i \in DOMAIN local
        <5>1. d > 1 /\ d - 1 \in DOMAIN local /\ i \in DOMAIN local
          <6>1. i \in Nat /\ i >= 1 /\ i <= d - 1 /\ d - 1 <= Len(local) /\ Len(local) \in Nat
            BY <1>1, <1>6, <2>1
          <6>2. /\ d > 1 /\ d - 1 \in Nat /\ d - 1 >= 1 /\ d - 1 <= Len(local)
                /\ i <= Len(local)
            BY <6>1
          <6> QED
            BY <1>1, <6>1, <6>2
        <5> QED
          BY <1>5, <5>1
      <4>2. i = d - 1 \/ i < d - 1
        BY <1>6
      <4> QED
        BY <1>0, <4>1, <4>2 DEF ViewLinked
    <3> QED
      BY <1>0, <2>4, <3>1 DEF InChain, IsCanonical, Canonical
  <2>6. m = n - 1
    <3>1. CASE d = 1
      <4>1. m \in Nat /\ m <= n - 1
        BY <1>9
      <4> QED
        BY <1>1, <1>12, <2>1, <3>1, <4>1
    <3>2. CASE d # 1
      <4>1. d - 1 \in DOMAIN local /\ InChain(d - 1) /\ local[d - 1].number = n - 1
        <5>0. d > 1 /\ n - 1 = from + (d - 1) - 1
          BY <2>2, <3>2
        <5>1. d - 1 \in DOMAIN local /\ d > 1 /\ n - 1 = from + (d - 1) - 1
          BY <1>6, <1>2, <2>1, <5>0
        <5> QED
          BY <1>5, <1>3, <5>1
      <4>2. n - 1 \in DOMAIN indexed
        BY <1>0, <4>1 DEF IndexedMatches
      <4> QED
        <5>1. m \in Nat /\ m <= n - 1 /\ (m = Len(indexed) \/ m = n - 1)
          BY <1>9
        <5> QED
          BY <1>1, <1>8, <4>2, <5>1
    <3> QED
      BY <3>1, <3>2
  <2>7. TypeOK' /\ ChainLinked'
    BY <1>0, <1>10, <1>11, <2>3, <2>4 DEF TypeOK, RowsType, ChainLinked
  <2>8. ViewLinked'
    <3> SUFFICES ASSUME NEW i \in DOMAIN local'
                 PROVE  /\ local'[i].number = from' + i - 1 /\ local'[i].hash <= mined'
                        /\ i > 1 => local'[i].parent = local'[i-1].hash
                        /\ local'[i].tag = "finalized" => local'[i].number <= finalized' /\ InChain(i)'
      BY <2>4, <2>5 DEF ViewLinked
    <3>1. i \in 1..(d - 1) /\ i \in DOMAIN local /\ (i > 1 => i - 1 \in 1..(d - 1))
      BY <1>6, <2>4
    <3> QED
      BY <1>0, <2>4, <2>5, <3>1 DEF ViewLinked
  <2>9. AllInChain' /\ from' + Len(local') = n /\ n # m
    <3>1. AllInChain'
      BY <2>4, <2>5 DEF AllInChain
    <3> QED
      BY <1>0, <1>1, <1>6, <1>8, <2>1, <2>4, <2>6, <3>1
  <2>10. IndexedMatches'
    <3>1. from' \in 1..(Len(chain') + 1) /\ Len(indexed') \in (from' - 1)..(from' + Len(local'))
      BY <1>0, <1>1, <1>8, <1>10, <1>12, <2>6, <2>9 DEF IndexedMatches
    <3>2. ASSUME NEW k \in DOMAIN indexed', k < from' \/ k = from' + Len(local')
          PROVE  IsCanonical(k, indexed[k])'
      <4>1. k \in 1..m /\ k \in DOMAIN indexed /\ k < from
        BY <1>0, <1>1, <1>8, <1>9, <1>10, <2>6, <2>9, <3>2
      <4>2. IsCanonical(k, indexed[k])
        BY <1>0, <4>1 DEF IndexedMatches
      <4> QED
        BY <1>0, <1>9, <4>1, <4>2 DEF IsCanonical, Canonical
    <3>3. ASSUME NEW i \in DOMAIN local'
          PROVE  local'[i].number \in DOMAIN indexed' /\ indexed'[local'[i].number] = local'[i].hash
      <4>1. /\ i \in DOMAIN local /\ InChain(i) /\ local'[i] = local[i]
            /\ local[i].number \in 1..m
        <5>1. i \in 1..(d - 1) /\ i \in DOMAIN local /\ InChain(i) /\ local'[i] = local[i]
          BY <2>4, <2>5
        <5>2. local[i].number = from + i - 1
          BY <1>3, <5>1
        <5>3. from + i - 1 \in 1..m
          <6>1. i \in Nat /\ i >= 1 /\ i <= d - 1
            BY <1>6, <5>1
          <6>2. from + i - 1 \in Nat /\ from + i - 1 >= 1 /\ from + i - 1 <= m
            BY <2>6, <2>2, <6>1
          <6> QED
            BY <6>2
        <5> QED
          BY <5>1, <5>2, <5>3
      <4>2. local[i].number \in DOMAIN indexed /\ indexed[local[i].number] = local[i].hash
        BY <1>0, <4>1 DEF IndexedMatches
      <4> QED
        BY <1>9, <1>10, <4>1, <4>2
    <3> QED
      BY <1>10, <2>9, <3>1, <3>2, <3>3 DEF IndexedMatches
  <2>11. \A i \in DOMAIN local' : InChain(i)' => local'[i].number <= sync.included
    BY <1>0, <2>4, <2>5 DEF SnapshotHolds
  <2>12. SnapshotHolds'
    BY <1>0, <1>10, <2>3, <2>9, <2>11 DEF SnapshotHolds
  <2>13. sync'.next <= sync'.included + 1
    <3>1. CASE d = 1
      <4>1. from <= sync.included + 1
        BY <1>0 DEF SnapshotHolds
      <4> QED
        BY <1>1, <2>1, <2>3, <3>1, <4>1
    <3>2. CASE d # 1
      <4>1. d - 1 \in DOMAIN local /\ InChain(d - 1) /\ local[d - 1].number = n - 1
        <5>0. d > 1 /\ n - 1 = from + (d - 1) - 1
          BY <2>2, <3>2
        <5>1. d - 1 \in DOMAIN local /\ d > 1 /\ n - 1 = from + (d - 1) - 1
          BY <1>6, <1>2, <2>1, <5>0
        <5> QED
          BY <1>5, <1>3, <5>1
      <4>2. n - 1 <= sync.included
        BY <1>0, <4>1 DEF SnapshotHolds
      <4> QED
        BY <1>4, <1>8, <2>3, <4>2
    <3> QED
      BY <3>1, <3>2
  <2>14. ExtendHolds'
    BY <2>3, <2>9, <2>13 DEF ExtendHolds
  <2>15. FindHolds' /\ RevertHolds' /\ FreshHolds'
    BY <2>3 DEF FindHolds, RevertHolds, FreshHolds, Fresh
  <2> QED
    BY <2>7, <2>8, <2>10, <2>12, <2>14, <2>15 DEF IInv
<1> QED
  BY <1>8, <1>13, <1>14 DEF revert

-----------------------------------------------------------------------------
(* The chain grows: what was canonical stays so, and nothing in the view becomes canonical. *)
LEMMA MineStep ==
  ASSUME IInv, NEW e \in Event \cup {Absent}, NEW f \in Event \cup {Absent}, Mine(e, f)
  PROVE  IInv'
<1>0. /\ UNCHANGED <<finalized, reorgs, local, from, sync, indexed, rows, faults>>
      /\ TypeOK /\ ChainLinked /\ ViewLinked /\ IndexedMatches
      /\ mined' = mined + 1 /\ mined \in Nat /\ chain \in Seq(Block)
  BY DEF Mine, IInv, TypeOK, dbVars
<1>1. Len(chain) \in Nat /\ DOMAIN chain = 1..Len(chain) /\ Len(chain) > 0 /\ Len(chain) \in DOMAIN chain
  <2>1. Len(chain) \in Nat /\ DOMAIN chain = 1..Len(chain) /\ Len(chain) > 0
    BY Domains
  <2> QED
    BY <2>1
<1>2. Tip \in Block /\ Tip = chain[Len(chain)] /\ Tip.post \in State /\ Tip.hash \in Nat
  <2>1. Tip \in Block /\ Tip = chain[Len(chain)]
    BY <1>1, Domains DEF Tip
  <2> QED
    BY <2>1 DEF Block
<1>3. After(e, Tip.post) \in State
  BY <1>2, AfterType DEF Mine
<1>4. After(f, After(e, Tip.post)) \in State
  BY <1>3, AfterType DEF Mine
<1>5. Logged(e, f) \in Seq(Event)
  BY DEF Logged, Mine
<1>6. PICK b \in Block : chain' = Append(chain, b) /\ b.hash = mined + 1 /\ b.parent = Tip.hash
  <2>1. PICK b : b = [hash |-> mined + 1, parent |-> Tip.hash, logs |-> Logged(e, f),
                      post |-> After(f, After(e, Tip.post))]
    OBVIOUS
  <2>2. mined + 1 \in Nat
    BY <1>0
  <2>3. b \in Block /\ b.hash = mined + 1 /\ b.parent = Tip.hash
    BY <1>2, <1>4, <1>5, <2>1, <2>2 DEF Block
  <2> QED
    BY <2>1, <2>3 DEF Mine
<1>7. /\ chain' \in Seq(Block) /\ Len(chain') = Len(chain) + 1 /\ chain' # <<>>
      /\ DOMAIN chain' = 1..(Len(chain) + 1)
      /\ \A n \in DOMAIN chain : n \in DOMAIN chain' /\ chain'[n] = chain[n]
      /\ \A n \in DOMAIN chain' : n \in DOMAIN chain \/ n = Len(chain) + 1
      /\ chain'[Len(chain) + 1] = b
  BY <1>0, <1>1, <1>6
<1>8. \A n \in DOMAIN chain : chain[n].hash \in Nat /\ chain[n].hash <= mined
  <2>1. \A n \in DOMAIN chain : chain[n] \in Block
    BY Domains
  <2> QED
    BY <1>0, <2>1 DEF ChainLinked, Block
<1>9. \A i \in DOMAIN local : InChain(i)' <=> InChain(i)
  <2> SUFFICES ASSUME NEW i \in DOMAIN local PROVE InChain(i)' <=> InChain(i)
    OBVIOUS
  <2>1. local[i] \in ViewBlock /\ local[i].hash <= mined
    BY <1>0, Domains DEF ViewLinked
  <2>2. local[i].hash # mined + 1
    BY <1>0, <2>1 DEF ViewBlock
  <2> QED
    BY <1>0, <1>6, <1>7, <2>2 DEF InChain, IsCanonical, Canonical
<1>10. \A n, h : IsCanonical(n, h) => n \in DOMAIN chain' /\ chain'[n].hash = h
  BY <1>7 DEF IsCanonical, Canonical
<1>11. TypeOK'
  <2>1. mined' \in Nat
    BY <1>0
  <2> QED
    BY <1>0, <1>7, <2>1 DEF TypeOK
<1>12. ChainLinked'
  <2>1. finalized' <= Len(chain')
    BY <1>0, <1>1, <1>7 DEF ChainLinked, TypeOK
  <2>2. ASSUME NEW n \in DOMAIN chain'
        PROVE  /\ chain'[n].hash <= mined'
               /\ n > 1 => chain'[n].parent = chain'[n-1].hash
    <3>1. CASE n \in DOMAIN chain
      <4>1. chain'[n].hash <= mined'
        BY <1>0, <1>7, <1>8, <3>1
      <4>2. n > 1 => n - 1 \in DOMAIN chain
        BY <1>1, <3>1
      <4> QED
        BY <1>0, <1>7, <3>1, <4>1, <4>2 DEF ChainLinked
    <3>2. CASE n = Len(chain) + 1
      <4>1. n - 1 = Len(chain)
        BY <1>1, <3>2
      <4>2. chain'[n] = b /\ chain'[n-1] = chain[Len(chain)]
        BY <1>1, <1>7, <3>2, <4>1
      <4> QED
        BY <1>0, <1>2, <1>6, <4>2
    <3> QED
      BY <1>7, <3>1, <3>2
  <2> QED
    BY <1>7, <2>1, <2>2 DEF ChainLinked
<1>13. ViewLinked'
  <2>1. \A i \in DOMAIN local : local[i] \in ViewBlock /\ local[i].hash <= mined
    BY <1>0, Domains DEF ViewLinked
  <2>2. \A i \in DOMAIN local : local[i].hash <= mined + 1
    BY <1>0, <2>1 DEF ViewBlock
  <2> QED
    BY <1>0, <1>9, <2>2 DEF ViewLinked
<1>14. AllInChain' <=> AllInChain
  BY <1>0, <1>9 DEF AllInChain
<1>15. IndexedMatches'
  <2>1. from' \in 1..(Len(chain') + 1)
    BY <1>0, <1>1, <1>7 DEF IndexedMatches
  <2>2. ASSUME NEW n \in DOMAIN indexed', n < from' \/ n = from' + Len(local')
        PROVE  IsCanonical(n, indexed[n])'
    <3>1. IsCanonical(n, indexed[n])
      BY <1>0, <2>2 DEF IndexedMatches
    <3>2. n \in DOMAIN chain' /\ chain'[n].hash = indexed[n]
      BY <1>10, <3>1
    <3> QED
      BY <1>0, <3>2 DEF IsCanonical, Canonical
  <2> QED
    BY <1>0, <1>9, <1>14, <2>1, <2>2 DEF IndexedMatches
<1>16. \A x \in Nat : x <= Len(chain) => x <= Len(chain')
  BY <1>1, <1>7
<1>17. sync.included \in Nat /\ sync.next \in Nat
  BY <1>0 DEF TypeOK, SyncState
<1>18. SnapshotHolds'
  BY <1>0, <1>9, <1>16, <1>17 DEF IInv, SnapshotHolds
<1>19. FindHolds'
  BY <1>0, <1>9 DEF IInv, FindHolds
<1>20. RevertHolds'
  <2> SUFFICES ASSUME sync.pc = "revert" PROVE RevertHolds'
    BY <1>0 DEF RevertHolds
  <2>1. sync.next \in DOMAIN local /\ Len(indexed) <= local[sync.next].number
    BY DEF IInv, RevertHolds
  <2>2. PICK d \in 1..sync.next : /\ sync.diverged = local[d].number /\ ~InChain(d)
                                  /\ d > 1 => InChain(d - 1)
    BY DEF IInv, RevertHolds
  <2>3. d \in DOMAIN local /\ (d > 1 => d - 1 \in DOMAIN local)
    <3>1. DOMAIN local = 1..Len(local) /\ Len(local) \in Nat
      BY Domains
    <3> QED
      BY <1>17, <2>1, <3>1
  <2>4. ~InChain(d)' /\ (d > 1 => InChain(d - 1)')
    BY <1>9, <2>2, <2>3
  <2> QED
    BY <1>0, <2>1, <2>2, <2>4 DEF RevertHolds
<1>21. ExtendHolds'
  <2> SUFFICES ASSUME sync.pc \in {"extend", "insert", "logs", "event"} PROVE ExtendHolds'
    BY <1>0 DEF ExtendHolds
  <2>1. sync.pc # "extend" => sync.next \in DOMAIN chain
    <3>1. /\ sync.next = from + Len(local) /\ from \in Nat /\ from >= 1 /\ Len(local) \in Nat
      BY Domains DEF IInv, ExtendHolds
    <3>2. sync.pc # "extend" => sync.next <= sync.included /\ sync.included <= Len(chain)
      BY DEF IInv, ExtendHolds, SnapshotHolds
    <3> QED
      BY <1>1, <1>17, <3>1, <3>2
  <2> QED
    BY <1>0, <1>7, <1>14, <2>1 DEF IInv, ExtendHolds
<1>22. FreshHolds'
  BY <1>0, <1>14, <1>16, <1>17 DEF IInv, FreshHolds, Fresh
<1> QED
  BY <1>11, <1>12, <1>13, <1>15, <1>18, <1>19, <1>20, <1>21, <1>22 DEF IInv

LEMMA FinalizeStep ==
  ASSUME IInv, Finalize
  PROVE  IInv'
<1>0. /\ UNCHANGED <<chain, mined, reorgs, local, from, sync, indexed, rows, faults>>
      /\ finalized < Len(chain) /\ finalized' = finalized + 1 /\ finalized \in Nat
      /\ TypeOK /\ ChainLinked /\ ViewLinked /\ IndexedMatches
  BY DEF Finalize, IInv, TypeOK, dbVars
<1>1. finalized' \in Nat /\ finalized' <= Len(chain) /\ \A x \in Nat : x <= finalized => x <= finalized'
  <2>1. Len(chain) \in Nat
    BY Domains
  <2> QED
    BY <1>0, <2>1
<1>2. TypeOK' /\ ChainLinked'
  BY <1>0, <1>1 DEF TypeOK, ChainLinked
<1>3. \A i \in DOMAIN local : local[i].number \in Nat
  BY Domains DEF ViewBlock
<1>4. ViewLinked'
  BY <1>0, <1>1, <1>3 DEF ViewLinked, InChain, IsCanonical, Canonical
<1>5. IndexedMatches'
  BY <1>0 DEF IndexedMatches, AllInChain, InChain, IsCanonical, Canonical
<1>6. sync.finalized \in Nat
  BY <1>0 DEF TypeOK, SyncState
<1>7. SnapshotHolds'
  BY <1>0, <1>1, <1>6 DEF IInv, SnapshotHolds, InChain, IsCanonical, Canonical
<1>8. FindHolds' /\ RevertHolds'
  BY <1>0 DEF IInv, FindHolds, RevertHolds, InChain, IsCanonical, Canonical
<1>9. ExtendHolds' /\ FreshHolds'
  BY <1>0 DEF IInv, ExtendHolds, FreshHolds, Fresh, AllInChain, InChain, IsCanonical, Canonical
<1> QED
  BY <1>2, <1>4, <1>5, <1>7, <1>8, <1>9 DEF IInv

(* A reorg that meets a settled view: what the view holds below it stays canonical. *)
LEMMA ReorgStep ==
  ASSUME IInv, ReorgsAlone, NEW k \in 1..Len(chain), Reorg(k)
  PROVE  IInv'
<1>0. /\ UNCHANGED <<finalized, mined, local, from, indexed, rows, faults>>
      /\ TypeOK /\ ChainLinked /\ ViewLinked /\ IndexedMatches /\ sync \in SyncState
      /\ sync' = [sync EXCEPT !.fresh = FALSE] /\ reorgs' = reorgs + 1 /\ reorgs \in Nat
      /\ chain \in Seq(Block) /\ Settled /\ (local # <<>> => k >= local[1].number)
  BY DEF Reorg, IInv, TypeOK, dbVars
<1>1. /\ Len(chain) \in Nat /\ Len(local) \in Nat /\ from \in Nat /\ from >= 1
      /\ finalized \in Nat /\ Len(indexed) \in Nat /\ Len(indexed) >= from - 1
      /\ local = <<>> <=> Len(local) = 0
      /\ local # <<>> => local[Len(local)].number = from + Len(local) - 1
  BY Domains
<1>2. /\ DOMAIN chain = 1..Len(chain) /\ DOMAIN local = 1..Len(local)
      /\ DOMAIN indexed = 1..Len(indexed) /\ (indexed = <<>> <=> Len(indexed) = 0)
      /\ \A i \in DOMAIN local : local[i] \in ViewBlock /\ local[i].number = from + i - 1
  BY Domains
<1>3. PICK h \in Nat : /\ h = k - 1 /\ h >= 1 /\ h >= finalized /\ h < Len(chain)
                       /\ chain' = SubSeq(chain, 1, h)
  <2>1. k \in Nat /\ k <= Len(chain) /\ k > finalized /\ k > 1 /\ chain' = SubSeq(chain, 1, k - 1)
    BY <1>1 DEF Reorg
  <2>2. k - 1 \in Nat /\ k - 1 >= 1 /\ k - 1 >= finalized /\ k - 1 < Len(chain)
    BY <1>1, <2>1
  <2> QED
    BY <2>1, <2>2
<1>4. /\ chain' \in Seq(Block) /\ Len(chain') = h /\ DOMAIN chain' = 1..h
      /\ \A n \in 1..h : n \in DOMAIN chain /\ chain'[n] = chain[n]
  BY <1>0, <1>1, <1>3
<1>5. chain' # <<>>
  BY <1>3, <1>4
<1>6. \A i \in DOMAIN local : InChain(i)' <=> InChain(i) /\ local[i].number <= h
  <2> SUFFICES ASSUME NEW i \in DOMAIN local
               PROVE  InChain(i)' <=> InChain(i) /\ local[i].number <= h
    OBVIOUS
  <2>1. local[i].number \in Nat /\ local[i] \in ViewBlock
    BY <1>2 DEF ViewBlock
  <2>2. local[i].number \in 1..h <=> local[i].number \in DOMAIN chain /\ local[i].number <= h
    BY <1>1, <1>2, <1>3, <2>1
  <2> QED
    BY <1>0, <1>4, <2>2 DEF InChain, IsCanonical, Canonical
<1>7. /\ sync' \in SyncState /\ sync'.pc = "idle" /\ ~sync'.fresh
  <2>1. sync.pc = "idle"
    BY <1>0 DEF Settled
  <2> QED
    BY <1>0, <2>1 DEF SyncState
<1>8. Cardinality(DOMAIN indexed) = Len(indexed)
  <2>1. Cardinality(1..Len(indexed)) = IF 1 > Len(indexed) THEN 0 ELSE Len(indexed) - 1 + 1
    <3>1. PICK a \in Int, b \in Int : a = 1 /\ b = Len(indexed)
      BY <1>1
    <3> QED
      BY <3>1, FS_Interval
  <2> QED
    BY <1>1, <1>2, <2>1
<1>9. Len(indexed) # from + Len(local) /\ from <= h + 1
  <2>1. CASE local = <<>>
    <3>1. Len(indexed) = 0
      BY <1>0, <1>2, <2>1 DEF Settled
    <3> QED
      BY <1>1, <1>3, <2>1, <3>1
  <2>2. CASE local # <<>>
    <3>1. from + Len(local) - 1 = Len(indexed)
      BY <1>0, <1>1, <1>8, <2>2 DEF Settled
    <3>2. 1 \in DOMAIN local
      BY <1>1, <1>2, <2>2
    <3>3. local[1].number = from
      BY <1>1, <1>2, <3>2
    <3>4. from <= k /\ k \in Nat
      BY <1>0, <1>1, <2>2, <3>3
    <3> QED
      BY <1>1, <1>3, <3>1, <3>4
  <2> QED
    BY <2>1, <2>2
<1>10. TypeOK' /\ ChainLinked'
  <2>1. reorgs' \in Nat
    BY <1>0
  <2>2. TypeOK'
    BY <1>0, <1>4, <1>7, <2>1 DEF TypeOK
  <2>3. \A n \in 1..h : n > 1 => n - 1 \in 1..h
    OBVIOUS
  <2>4. ChainLinked'
    BY <1>0, <1>3, <1>4, <1>5, <2>3 DEF ChainLinked
  <2> QED
    BY <2>2, <2>4
<1>11. ViewLinked'
  <2>1. ASSUME NEW i \in DOMAIN local, local[i].tag = "finalized"
        PROVE  local[i].number <= finalized /\ InChain(i)'
    <3>1. local[i].number <= finalized /\ InChain(i) /\ local[i].number \in Nat
      BY <1>0, <1>2, <2>1 DEF ViewLinked, ViewBlock
    <3>2. local[i].number <= h
      BY <1>1, <1>3, <3>1
    <3> QED
      BY <1>6, <3>1, <3>2
  <2>2. ASSUME NEW i \in DOMAIN local, NEW j \in DOMAIN local, i < j, InChain(j)'
        PROVE  InChain(i)'
    <3>1. InChain(j) /\ local[j].number <= h /\ local[j].number = from + j - 1
          /\ local[i].number = from + i - 1
      BY <1>2, <1>6, <2>2
    <3>2. InChain(i)
      BY <1>0, <2>2, <3>1 DEF ViewLinked
    <3>3. i \in Nat /\ j \in Nat
      BY <1>1, <1>2
    <3>4. from + i - 1 <= h
      BY <1>1, <2>2, <3>1, <3>3
    <3> QED
      BY <1>6, <3>1, <3>2, <3>4
  <2> QED
    BY <1>0, <2>1, <2>2 DEF ViewLinked
<1>12. IndexedMatches'
  <2>1. from' \in 1..(Len(chain') + 1) /\ Len(indexed') # from' + Len(local')
    BY <1>0, <1>1, <1>4, <1>9
  <2>2. ASSUME NEW n \in DOMAIN indexed', n < from' \/ n = from' + Len(local')
        PROVE  IsCanonical(n, indexed[n])'
    <3>1. IsCanonical(n, indexed[n]) /\ n \in DOMAIN indexed
      BY <1>0, <2>2 DEF IndexedMatches
    <3>2. n \in Nat /\ n >= 1 /\ n <= Len(indexed)
      BY <1>2, <3>1
    <3>3. Len(indexed) <= from + Len(local)
      BY Domains
    <3>4. n < from
      BY <1>0, <1>1, <1>9, <2>2, <3>2, <3>3
    <3>5. n \in 1..h
      BY <1>1, <1>9, <3>2, <3>4
    <3> QED
      BY <1>0, <1>4, <3>1, <3>5 DEF IsCanonical, Canonical
  <2>3. ASSUME NEW i \in DOMAIN local
        PROVE  /\ local[i].number \in DOMAIN indexed => indexed[local[i].number] = local[i].hash
               /\ local[i].number \notin DOMAIN indexed => ~InChain(i)'
    BY <1>0, <1>6 DEF IndexedMatches
  <2>4. indexed \in Seq(Nat) /\ Len(indexed) \in (from - 1)..(from + Len(local))
    BY <1>0 DEF IndexedMatches
  <2> QED
    BY <1>0, <2>1, <2>2, <2>3, <2>4 DEF IndexedMatches
<1> QED
  BY <1>7, <1>10, <1>11, <1>12
  DEF IInv, SnapshotHolds, FindHolds, RevertHolds, ExtendHolds, FreshHolds, Fresh

(* The resume point of a new process is the last persisted block. *)
LEMMA ResumePoint ==
  ASSUME IInv
  PROVE  \/ Len(indexed) = 0 /\ latestIndexedBlock = 1
         \/ Len(indexed) # 0 /\ latestIndexedBlock = Len(indexed)
<1>1. /\ DOMAIN indexed = 1..Len(indexed) /\ Len(indexed) \in Nat
      /\ indexed = <<>> <=> Len(indexed) = 0
  BY Domains
<1>2. CASE Len(indexed) = 0
  BY <1>1, <1>2 DEF latestIndexedBlock
<1>3. CASE Len(indexed) # 0
  <2> DEFINE P(n) == \A m \in DOMAIN indexed : m <= n
  <2>1. Len(indexed) \in DOMAIN indexed /\ P(Len(indexed))
    BY <1>1, <1>3
  <2>2. latestIndexedBlock \in DOMAIN indexed /\ P(latestIndexedBlock)
    <3>1. latestIndexedBlock = CHOOSE n \in DOMAIN indexed : P(n)
      BY <1>1, <1>3 DEF latestIndexedBlock
    <3> HIDE DEF P
    <3> QED
      BY <2>1, <3>1
  <2>3. Len(indexed) <= latestIndexedBlock /\ latestIndexedBlock <= Len(indexed)
        /\ latestIndexedBlock \in Nat
    BY <1>1, <2>1, <2>2
  <2>4. Len(indexed) \in Nat
    BY <1>1
  <2> QED
    BY <1>3, <2>3, <2>4
<1> QED
  BY <1>2, <1>3

(* A crash with nothing abandoned: the new view starts at a canonical block. *)
LEMMA CrashStep ==
  ASSUME IInv, ReorgsAlone, Crash
  PROVE  IInv'
<1>0. /\ UNCHANGED <<chain, finalized, mined, reorgs, indexed, rows>>
      /\ TypeOK /\ ChainLinked /\ IndexedMatches /\ NothingAbandoned
      /\ local' = <<>> /\ from' = latestIndexedBlock /\ sync' = Idle
      /\ faults' = [faults EXCEPT !.crashes = @ + 1]
  BY DEF Crash, IInv, chainVars, dbVars
<1>1. /\ Len(chain) \in Nat /\ Len(chain) > 0 /\ Len(indexed) \in Nat
  BY Domains
<1>2. DOMAIN chain = 1..Len(chain) /\ DOMAIN indexed = 1..Len(indexed)
  BY Domains
<1>3. \A n \in DOMAIN indexed : IsCanonical(n, indexed[n])
  BY <1>0, <1>1, <1>2 DEF NothingAbandoned, IsCanonical, Canonical
<1>4. /\ from' \in Nat /\ from' >= 1 /\ from' <= Len(chain) + 1
      /\ Len(indexed) >= from' - 1 /\ Len(indexed) <= from'
  <2>1. CASE Len(indexed) = 0 /\ from' = 1
    BY <1>1, <2>1
  <2>2. CASE Len(indexed) # 0 /\ from' = Len(indexed)
    <3>1. Len(indexed) \in DOMAIN indexed
      BY <1>1, <1>2, <2>2
    <3>2. Len(indexed) \in DOMAIN chain
      BY <1>3, <3>1 DEF IsCanonical
    <3>3. Len(indexed) <= Len(chain)
      BY <1>1, <1>2, <3>2
    <3> QED
      BY <1>1, <2>2, <3>3
  <2> QED
    BY <1>0, <2>1, <2>2, ResumePoint
<1>5. local' \in Seq(ViewBlock) /\ Len(local') = 0 /\ DOMAIN local' = {}
  BY <1>0
<1>6. TypeOK' /\ ChainLinked'
  <2>1. faults' \in [crashes : Nat, failures : Nat]
    BY <1>0 DEF TypeOK
  <2>2. sync' \in SyncState
    BY <1>0, IdleHolds
  <2> QED
    BY <1>0, <1>4, <1>5, <2>1, <2>2 DEF TypeOK, ChainLinked
<1>7. ViewLinked'
  BY <1>5 DEF ViewLinked
<1>8. IndexedMatches'
  <2>1. from' \in 1..(Len(chain') + 1) /\ Len(indexed') \in (from' - 1)..(from' + Len(local'))
    BY <1>0, <1>1, <1>4, <1>5
  <2>2. \A n \in DOMAIN indexed : IsCanonical(n, indexed[n])'
    BY <1>0, <1>3 DEF IsCanonical, Canonical
  <2> QED
    BY <1>0, <1>5, <2>1, <2>2 DEF IndexedMatches, AllInChain
<1> QED
  BY <1>0, <1>6, <1>7, <1>8, IdleHolds DEF IInv

-----------------------------------------------------------------------------
LEMMA IndexerStepKeeps ==
  ASSUME IInv, ReorgsAlone, [Next]_vars
  PROVE  IInv'
<1>1. CASE IndexerStep
  BY <1>1, StartSyncStep, FindStep, RevertStep, FetchHeaderStep, InsertBlockStep, FetchLogsStep,
     ApplyNextLogStep, PushBlockStep DEF IndexerStep
<1>2. CASE MineSome
  BY <1>2, MineStep DEF MineSome
<1>3. CASE Finalize
  BY <1>3, FinalizeStep
<1>4. CASE \E k \in 1..Len(chain) : Reorg(k)
  BY <1>4, ReorgStep
<1>5. CASE Fail
  BY <1>5, FailStep
<1>6. CASE Crash
  BY <1>6, CrashStep
<1>7. CASE UNCHANGED vars
  <2>1. UNCHANGED <<chain, finalized, mined, local, from, indexed>> /\ UNCHANGED <<reorgs, sync, rows, faults>>
    BY <1>7 DEF vars, chainVars, dbVars
  <2>2. TypeOK'
    BY <2>1 DEF IInv, TypeOK
  <2>3. SnapshotHolds' /\ FindHolds' /\ RevertHolds'
    BY <2>1 DEF IInv, SnapshotHolds, FindHolds, RevertHolds, InChain, IsCanonical, Canonical
  <2>4. ExtendHolds' /\ FreshHolds'
    BY <2>1 DEF IInv, ExtendHolds, FreshHolds, Fresh, AllInChain, InChain, IsCanonical, Canonical
  <2> QED
    BY <2>1, <2>2, <2>3, <2>4, ViewStays DEF IInv
<1> QED
  BY <1>1, <1>2, <1>3, <1>4, <1>5, <1>6, <1>7 DEF Next

(* The inductive invariant holds in every reachable state, for any number of blocks, *)
(* crashes and failed calls, when reorgs meet a settled view.                        *)
THEOREM IndexerInvariance == ReorgsAlone => (Spec => []IInv)
<1> SUFFICES ASSUME ReorgsAlone PROVE Spec => []IInv
  OBVIOUS
<1>1. IInv /\ [Next]_vars => IInv'
  BY IndexerStepKeeps
<1> QED
  BY <1>1, IndexerInit, PTL DEF Spec

(* Indexer.syncOnce: when a sync completes, table indexed_blocks holds exactly the       *)
(* canonical blocks up to the snapshot's head, the view is canonical and linked, and what *)
(* is tagged finalized is final.                                                          *)
THEOREM ViewSafe == ReorgsAlone => (Spec => []ViewIsCanonical)
<1> SUFFICES ASSUME ReorgsAlone PROVE Spec => []ViewIsCanonical
  OBVIOUS
<1>1. IInv => ViewIsCanonical
  <2> SUFFICES ASSUME IInv, Fresh PROVE ViewIsCanonical
    BY DEF ViewIsCanonical
  <2>0. ViewLinked /\ IndexedMatches
    BY DEF IInv
  <2>1. /\ sync.included <= Len(chain) /\ Len(indexed) = sync.included /\ AllInChain
        /\ local # <<>> => from + Len(local) = sync.included + 1
    BY DEF IInv, FreshHolds
  <2>2. DOMAIN indexed = 1..sync.included
    BY <2>1, Domains
  <2>3. ASSUME NEW n \in DOMAIN indexed PROVE indexed[n] = Canonical(n)
    <3>1. CASE n < from \/ n = from + Len(local)
      BY <2>0, <3>1 DEF IndexedMatches, IsCanonical
    <3>2. CASE ~(n < from) /\ n # from + Len(local)
      <4>1. /\ from \in Nat /\ Len(local) \in Nat /\ Len(indexed) \in Nat
            /\ Len(indexed) <= from + Len(local)
        BY Domains
      <4>2. n \in Nat /\ n <= Len(indexed)
        BY <2>1, <2>2, <4>1
      <4>3. PICK i \in Nat : i = n - from + 1 /\ i >= 1 /\ i <= Len(local) /\ n = from + i - 1
        <5>1. n - from + 1 \in Nat /\ n - from + 1 >= 1 /\ n - from + 1 <= Len(local)
              /\ n = from + (n - from + 1) - 1
          BY <3>2, <4>1, <4>2
        <5> QED
          BY <5>1
      <4>4. i \in DOMAIN local
        BY <4>1, <4>3, Domains
      <4>5. local[i].number = n
        BY <2>0, <4>3, <4>4 DEF ViewLinked
      <4> QED
        BY <2>0, <2>1, <4>4, <4>5 DEF IndexedMatches, AllInChain, InChain, IsCanonical
    <3> QED
      BY <3>1, <3>2
  <2>4. ASSUME NEW i \in DOMAIN local
        PROVE  /\ local[i].hash = Canonical(local[i].number)
               /\ i > 1 => local[i].parent = local[i-1].hash
               /\ local[i].tag = "finalized" => local[i].number <= finalized
    BY <2>0, <2>1 DEF ViewLinked, AllInChain, InChain, IsCanonical
  <2>5. local # <<>> => local[Len(local)].number = sync.included
    <3> SUFFICES ASSUME local # <<>> PROVE local[Len(local)].number = sync.included
      OBVIOUS
    <3>1. /\ local[Len(local)].number = from + Len(local) - 1 /\ from \in Nat
          /\ Len(local) \in Nat /\ Len(indexed) \in Nat
      BY Domains
    <3> QED
      BY <2>1, <3>1
  <2> QED
    BY <2>2, <2>3, <2>4, <2>5 DEF ViewIsCanonical
<1> QED
  BY <1>1, IndexerInvariance, PTL

(* A step keeps what a sync has tagged finalized. *)
LEMMA FinalizedKept ==
  ASSUME IInv, [Next]_vars, NEW i \in DOMAIN local, local[i].tag = "finalized", local' # <<>>
  PROVE  /\ i \in DOMAIN local' /\ local'[i].hash = local[i].hash
         /\ local[i].number \in DOMAIN indexed'
<1>0. InChain(i) /\ local[i].number \in DOMAIN indexed
  BY DEF IInv, ViewLinked, IndexedMatches
<1>1. /\ Len(local) \in Nat /\ DOMAIN local = 1..Len(local) /\ local \in Seq(ViewBlock)
  BY Domains DEF IInv, TypeOK
<1>2. CASE UNCHANGED <<local, indexed>>
  BY <1>0, <1>2
<1>3. CASE EndSync /\ UNCHANGED indexed
  <2>1. DOMAIN local' = DOMAIN local /\ local'[i] = [local[i] EXCEPT !.tag = tagFor(local[i].number, sync.finalized)]
    BY <1>3 DEF EndSync
  <2>2. local[i] \in ViewBlock
    BY Domains
  <2>3. local'[i].hash = local[i].hash
    BY <2>1, <2>2 DEF ViewBlock
  <2> QED
    BY <1>0, <1>3, <2>1, <2>3
<1>4. CASE InsertBlock
  <2>1. local' = local /\ DOMAIN indexed' = DOMAIN indexed \cup {sync.next}
    BY <1>4 DEF InsertBlock
  <2> QED
    BY <1>0, <2>1
<1>5. CASE PushBlock
  <2>1. indexed' = indexed
    BY <1>5 DEF PushBlock, dbVars
  <2>2. PICK b : local' = Append(local, b)
    BY <1>5 DEF PushBlock
  <2>3. i \in DOMAIN local' /\ local'[i] = local[i]
    BY <1>1, <2>2
  <2> QED
    BY <1>0, <2>1, <2>3
<1>6. CASE revert
  <2>1. PICK d \in 1..sync.next : sync.diverged = local[d].number /\ ~InChain(d)
    BY <1>6 DEF IInv, RevertHolds, revert
  <2>2. sync.next \in DOMAIN local /\ sync.next \in Nat
    BY <1>6 DEF IInv, RevertHolds, revert, TypeOK, SyncState
  <2>3. d \in DOMAIN local /\ d \in Nat /\ i \in Nat /\ sync.next <= Len(local)
    BY <1>1, <2>2
  <2>4. i < d
    BY <1>0, <2>1, <2>3 DEF IInv, ViewLinked
  <2>5. /\ local[i].number = from + i - 1 /\ local[d].number = from + d - 1
        /\ local[sync.next].number = from + sync.next - 1 /\ from \in Nat
    BY <2>2, <2>3, Domains
  <2>6. i <= sync.next - 1 /\ d <= sync.next /\ i >= 1
    <3>1. d <= sync.next /\ i >= 1
      BY <1>1, <2>2
    <3> QED
      BY <2>2, <2>3, <2>4, <3>1
  <2>7. local[i].number # local[sync.next].number
    BY <2>2, <2>3, <2>5, <2>6
  <2>8. local[i].number \in DOMAIN indexed'
    BY <1>0, <1>6, <2>7 DEF revert
  <2>9. CASE UNCHANGED local
    BY <2>8, <2>9
  <2>10. CASE local' = SubSeq(local, 1, sync.next - 1)
    <3>1. PICK e \in Nat : e = sync.next - 1 /\ e <= Len(local) /\ i <= e
      <4>1. sync.next - 1 \in Nat /\ sync.next - 1 <= Len(local)
        BY <1>1, <2>2, <2>3, <2>6
      <4> QED
        BY <2>6, <4>1
    <3>2. i \in 1..e
      BY <2>3, <2>6, <3>1
    <3>3. i \in DOMAIN local' /\ local'[i] = local[i]
      BY <1>1, <2>10, <3>1, <3>2
    <3> QED
      BY <2>8, <3>3
  <2> QED
    BY <1>6, <2>9, <2>10 DEF revert
<1>7. CASE Crash
  BY <1>7 DEF Crash
<1>8. CASE FetchHeader
  BY <1>2, <1>3, <1>8 DEF FetchHeader, Abandon, dbVars
<1>9. CASE IndexerStep
  <2>1. CASE StartSync \/ findDivergence \/ FetchLogs \/ ApplyNextLog
    BY <1>2, <2>1 DEF StartSync, findDivergence, FetchLogs, ApplyNextLog, Abandon, dbVars
  <2> QED
    BY <1>4, <1>5, <1>6, <1>8, <1>9, <2>1 DEF IndexerStep
<1>10. CASE MineSome \/ Finalize \/ (\E k \in 1..Len(chain) : Reorg(k)) \/ Fail \/ UNCHANGED vars
  BY <1>2, <1>10 DEF MineSome, Mine, Finalize, Reorg, Fail, Abandon, vars, dbVars
<1> QED
  BY <1>7, <1>9, <1>10 DEF Next

(* Finality is never taken back by a running view. *)
THEOREM FinalizedSafe == ReorgsAlone => (Spec => FinalizedStays)
<1> SUFFICES ASSUME ReorgsAlone PROVE Spec => FinalizedStays
  OBVIOUS
<1> DEFINE A == \A i \in DOMAIN local :
                 local[i].tag = "finalized" /\ local' # <<>> =>
                   /\ i \in DOMAIN local' /\ local'[i].hash = local[i].hash
                   /\ local[i].number \in DOMAIN indexed'
<1>1. IInv /\ [Next]_vars => [A]_vars
  BY FinalizedKept
<1> HIDE DEF A
<1>2. FinalizedStays <=> [][A]_vars
  BY DEF FinalizedStays, A
<1> QED
  BY <1>1, <1>2, IndexerInvariance, PTL DEF Spec

-----------------------------------------------------------------------------
(* The projection.  What one event, and a block's events replayed, do to a row. *)
LEMMA UpdatesColumns ==
  ASSUME NEW e \in Event, NEW t \in Table, UpdatesIn(e, t)
  PROVE  /\ ~CreatesIn(e, t)
         /\ \/ t = "identities" /\ e.name \in {"OwnerRotationProposed", "OwnerRotated"}
            \/ t = "accounts" /\ e.name \in {"AccountActivated", "AccountRemoved"}
BY DEF UpdatesIn, CreatesIn, Creates, Updates, Event

LEMMA UpdatedIn ==
  ASSUME NEW e \in Event, NEW t \in Table, UpdatesIn(e, t), NEW v \in Value(t), v # Absent
  PROVE  Updated(e, v) \in Value(t) /\ Updated(e, v) # Absent
BY UpdatedValue DEF UpdatesIn

LEMMA ResultType ==
  ASSUME NEW e \in Event, NEW t \in Table, NEW v \in Value(t)
  PROVE  /\ Result(e, t, v) \in Value(t)
         /\ Result(e, t, v) = Absent <=> v = Absent /\ ~CreatesIn(e, t)
<1>1. CASE UpdatesIn(e, t) /\ v # Absent
  BY <1>1, UpdatesColumns, UpdatedIn DEF Result
<1>2. CASE ~(UpdatesIn(e, t) /\ v # Absent)
  BY <1>2, InitialValue DEF Result
<1> QED
  BY <1>1, <1>2

(* An update overwrites its columns: twice is once, and so is a pair of updates. *)
LEMMA UpdatedTwice ==
  ASSUME NEW e \in Event, NEW f \in Event, NEW t \in Table, UpdatesIn(e, t), UpdatesIn(f, t),
         NEW v \in Value(t), v # Absent
  PROVE  /\ Updated(e, Updated(e, v)) = Updated(e, v)
         /\ Updated(f, Updated(e, Updated(f, Updated(e, v)))) = Updated(f, Updated(e, v))
<1>1. CASE t = "accounts"
  <2>1. /\ e.name \in {"AccountActivated", "AccountRemoved"}
        /\ f.name \in {"AccountActivated", "AccountRemoved"}
    BY <1>1, UpdatesColumns
  <2>2. /\ \A x : Updated(e, x) = IF e.name = "AccountActivated" THEN "active" ELSE "removed"
        /\ \A x : Updated(f, x) = IF f.name = "AccountActivated" THEN "active" ELSE "removed"
    BY <2>1 DEF Updated
  <2> QED
    BY <2>2
<1>2. CASE t = "identities"
  <2>1. /\ e.name \in {"OwnerRotationProposed", "OwnerRotated"}
        /\ f.name \in {"OwnerRotationProposed", "OwnerRotated"} /\ v \in IdentityRow
    BY <1>2, UpdatesColumns, ColumnValues
  <2> DEFINE New(x, w) == [pending |-> x.name = "OwnerRotationProposed",
                           epoch |-> IF x.name = "OwnerRotated" THEN x.epoch ELSE w.epoch]
  <2>2. ASSUME NEW x \in {e, f}, NEW w \in IdentityRow
        PROVE  Updated(x, w) = New(x, w) /\ Updated(x, w) \in IdentityRow
    <3>1. CASE x.name = "OwnerRotated"
      <4>1. Updated(x, w) = New(x, w)
        BY <3>1 DEF Updated
      <4> QED
        BY <3>1, <4>1, EventTables DEF IdentityRow
    <3>2. CASE x.name = "OwnerRotationProposed"
      BY <3>2 DEF Updated, IdentityRow
    <3> QED
      BY <2>1, <3>1, <3>2
  <2>3. PICK w1 \in IdentityRow : w1 = Updated(e, v) /\ w1 = New(e, v)
    BY <2>1, <2>2
  <2>4. PICK w2 \in IdentityRow : w2 = Updated(f, w1) /\ w2 = New(f, w1)
    BY <2>2
  <2>5. PICK w3 \in IdentityRow : w3 = Updated(e, w2) /\ w3 = New(e, w2)
    BY <2>2
  <2>6. Updated(e, w1) = New(e, w1) /\ Updated(f, w3) = New(f, w3)
    BY <2>2
  <2>7. Updated(e, w1) = w1 /\ Updated(f, w3) = w2
    BY <2>1, <2>3, <2>4, <2>5, <2>6
  <2> QED
    BY <2>3, <2>4, <2>5, <2>7
<1> QED
  BY <1>1, <1>2, UpdatesColumns

LEMMA ResultTwice ==
  ASSUME NEW e \in Event, NEW t \in Table, NEW v \in Value(t)
  PROVE  Result(e, t, Result(e, t, v)) = Result(e, t, v)
<1>1. CASE UpdatesIn(e, t) /\ v # Absent
  BY <1>1, UpdatedTwice, UpdatedIn, UpdatesColumns DEF Result
<1>2. CASE UpdatesIn(e, t) /\ v = Absent
  BY <1>2, UpdatesColumns DEF Result
<1>3. CASE ~UpdatesIn(e, t)
  BY <1>3, InitialValue DEF Result
<1> QED
  BY <1>1, <1>2, <1>3

LEMMA ResultAgain ==
  ASSUME NEW e \in Event, NEW f \in Event, NEW t \in Table, NEW v \in Value(t),
         ~(UpdatesIn(e, t) /\ CreatesIn(f, t)), NEW w, w = Result(f, t, Result(e, t, v))
  PROVE  Result(f, t, Result(e, t, w)) = w
<1>1. CASE ~UpdatesIn(e, t)
  <2>1. Result(e, t, v) \in Value(t) /\ w \in Value(t) /\ Result(f, t, w) = w
    BY ResultType, ResultTwice
  <2>2. Result(e, t, w) = w
    BY <1>1, <2>1, ResultType, InitialValue DEF Result
  <2> QED
    BY <2>1, <2>2
<1>2. CASE UpdatesIn(e, t)
  <2>1. ~CreatesIn(e, t) /\ ~CreatesIn(f, t)
    BY <1>2, UpdatesColumns
  <2>2. CASE v = Absent
    BY <1>2, <2>1, <2>2 DEF Result
  <2>3. CASE v # Absent /\ UpdatesIn(f, t)
    <3>1. PICK x \in Value(t) : x = Updated(e, v) /\ x # Absent
      BY <1>2, <2>3, UpdatedIn
    <3>2. PICK y \in Value(t) : y = Updated(f, x) /\ y # Absent
      BY <2>3, <3>1, UpdatedIn
    <3>3. PICK z \in Value(t) : z = Updated(e, y) /\ z # Absent
      BY <1>2, <3>2, UpdatedIn
    <3>4. Updated(f, z) = y
      BY <1>2, <2>3, <3>1, <3>2, <3>3, UpdatedTwice
    <3> QED
      BY <1>2, <2>1, <2>3, <3>1, <3>2, <3>3, <3>4 DEF Result
  <2>4. CASE v # Absent /\ ~UpdatesIn(f, t)
    <3>1. Result(f, t, Result(e, t, v)) = Result(e, t, v)
      BY <2>1, <2>4 DEF Result
    <3>2. Result(e, t, w) = w
      BY <3>1, ResultTwice
    <3> QED
      BY <2>1, <2>4, <3>2 DEF Result
  <2> QED
    BY <2>2, <2>3, <2>4
<1> QED
  BY <1>1, <1>2

(* A block's events, replayed. *)
LEMMA UpToTwo ==
  ASSUME NEW s \in Seq(Event), Len(s) <= 2
  PROVE  Len(s) = 0 \/ Len(s) = 1 \/ Len(s) = 2
<1>1. PICK m \in Nat : m = Len(s)
  OBVIOUS
<1>2. m <= 2
  BY <1>1
<1>3. m = 0 \/ m = 1 \/ m = 2
  BY <1>2
<1> QED
  BY <1>1, <1>3

LEMMA ReplayNone ==
  ASSUME NEW logs \in Seq(Event), NEW t, NEW v, Len(logs) = 0
  PROVE  Replay(logs, t, v) = v
BY DEF Replay

LEMMA ReplayOne ==
  ASSUME NEW logs \in Seq(Event), NEW t, NEW v, Len(logs) = 1
  PROVE  logs[1] \in Event /\ Replay(logs, t, v) = Result(logs[1], t, v)
BY DEF Replay

LEMMA ReplayTwo ==
  ASSUME NEW logs \in Seq(Event), NEW t, NEW v, Len(logs) = 2
  PROVE  /\ logs[1] \in Event /\ logs[2] \in Event
         /\ Replay(logs, t, v) = Result(logs[2], t, Result(logs[1], t, v))
BY DEF Replay

LEMMA ReplayType ==
  ASSUME NEW logs \in Seq(Event), Len(logs) <= 2, NEW t \in Table, NEW v \in Value(t)
  PROVE  /\ Replay(logs, t, v) \in Value(t)
         /\ Replay(logs, t, v) = Absent <=>
              v = Absent /\ \A i \in DOMAIN logs : ~CreatesIn(logs[i], t)
<1>1. CASE Len(logs) = 0
  <2>1. DOMAIN logs = {}
    BY <1>1
  <2> QED
    BY <1>1, <2>1, ReplayNone
<1>2. CASE Len(logs) = 1
  <2>1. \A i \in DOMAIN logs : i = 1
    BY <1>2
  <2>2. 1 \in DOMAIN logs
    BY <1>2
  <2> QED
    BY <1>2, <2>1, <2>2, ReplayOne, ResultType
<1>3. CASE Len(logs) = 2
  <2>1. \A i \in DOMAIN logs : i = 1 \/ i = 2
    BY <1>3
  <2>2. 1 \in DOMAIN logs /\ 2 \in DOMAIN logs
    BY <1>3
  <2>3. logs[1] \in Event /\ logs[2] \in Event
    BY <1>3, ReplayTwo
  <2>4. PICK x \in Value(t) : x = Result(logs[1], t, v) /\ (x = Absent <=> v = Absent /\ ~CreatesIn(logs[1], t))
    BY <2>3, ResultType
  <2>5. /\ Result(logs[2], t, x) \in Value(t)
        /\ Result(logs[2], t, x) = Absent <=> x = Absent /\ ~CreatesIn(logs[2], t)
    BY <2>3, ResultType
  <2>6. Replay(logs, t, v) = Result(logs[2], t, x)
    BY <1>3, <2>4, ReplayTwo
  <2> QED
    BY <2>1, <2>2, <2>4, <2>5, <2>6
<1>4. Len(logs) = 0 \/ Len(logs) = 1 \/ Len(logs) = 2
  BY UpToTwo
<1> QED
  BY <1>1, <1>2, <1>3, <1>4

(* A block whose events are all applied can be applied again. *)
LEMMA ReplayAgain ==
  ASSUME NEW logs \in Seq(Event), NEW t \in Table, NEW pre \in Value(t), NEW post,
         BlockBuilt(logs, t, pre, post)
  PROVE  Replay(logs, t, post) = post
<1>1. Len(logs) <= 2 /\ post = Replay(logs, t, pre)
  BY DEF BlockBuilt
<1>2. CASE Len(logs) = 0
  BY <1>2, ReplayNone
<1>3. CASE Len(logs) = 1
  BY <1>1, <1>3, ReplayOne, ResultTwice
<1>4. CASE Len(logs) = 2
  <2>1. ~(UpdatesIn(logs[1], t) /\ CreatesIn(logs[2], t))
    BY <1>4 DEF BlockBuilt
  <2> QED
    BY <1>1, <1>4, <2>1, ReplayTwo, ResultAgain
<1>5. Len(logs) = 0 \/ Len(logs) = 1 \/ Len(logs) = 2
  BY <1>1, UpToTwo
<1> QED
  BY <1>2, <1>3, <1>4, <1>5

(* applyEvent, one row at a time. *)
LEMMA ApplyRow ==
  ASSUME rows \in RowsType, NEW e \in Event, NEW n \in Nat, NEW t \in Table
  PROVE  /\ applyEvent(e, n)[t].value = Result(e, t, rows[t].value)
         /\ applyEvent(e, n)[t].at =
              IF CreatesIn(e, t) /\ rows[t].value = Absent THEN n ELSE rows[t].at
<1>1. DOMAIN rows = Table /\ \A u \in Table : rows[u] \in Row(u)
  BY RowColumn DEF RowsType, Table
<1>2. CASE e.name \in DOMAIN Creates
  <2>1. e.name \notin DOMAIN Updates
    BY <1>2 DEF Creates, Updates
  <2>2. PICK u \in Table : u = Creates[e.name]
    BY <1>2, EventTables
  <2>3. applyEvent(e, n) = IF rows[u].value # Absent THEN rows
                           ELSE [rows EXCEPT ![u] = [value |-> Initially(u), at |-> n]]
    BY <1>2, <2>2 DEF applyEvent
  <2>4. (CreatesIn(e, t) <=> t = u) /\ ~UpdatesIn(e, t)
    BY <1>2, <2>1, <2>2 DEF CreatesIn, UpdatesIn
  <2> QED
    BY <1>1, <2>3, <2>4 DEF Result
<1>3. CASE e.name \notin DOMAIN Creates
  <2>1. PICK u \in Table : u = Updates[e.name] /\ e.name \in DOMAIN Updates
    BY <1>3, EventTables
  <2>2. applyEvent(e, n) = IF rows[u].value = Absent THEN rows
                           ELSE [rows EXCEPT ![u].value = Updated(e, @)]
    BY <1>3, <2>1 DEF applyEvent
  <2>3. (UpdatesIn(e, t) <=> t = u) /\ ~CreatesIn(e, t)
    BY <1>3, <2>1 DEF CreatesIn, UpdatesIn
  <2>4. rows[u] \in [value : Value(u), at : Nat]
    BY <1>1 DEF Row
  <2> QED
    BY <1>1, <2>2, <2>3, <2>4 DEF Result
<1> QED
  BY <1>2, <1>3

(* The contracts' side of the same: what a block's events make of the state. *)
LEMMA AfterRow ==
  ASSUME NEW s \in State, NEW e \in Event, Emits(e, s), NEW t \in Table
  PROVE  /\ After(e, s)[t] = Result(e, t, s[t])
         /\ CreatesIn(e, t) => s[t] = Absent
         /\ UpdatesIn(e, t) => s[t] # Absent
<1>1. e # Absent /\ DOMAIN s = Table
  BY IndexerAssumption DEF State, Table
<1>2. CASE e.name \in DOMAIN Creates
  <2>1. e.name \notin DOMAIN Updates
    BY <1>2 DEF Creates, Updates
  <2>2. s[Creates[e.name]] = Absent
    BY <1>2, <2>1 DEF Emits
  <2>3. After(e, s) = [s EXCEPT ![Creates[e.name]] = Initially(Creates[e.name])]
    BY <1>1, <1>2 DEF After
  <2> QED
    BY <1>1, <1>2, <2>1, <2>2, <2>3 DEF CreatesIn, UpdatesIn, Result
<1>3. CASE e.name \notin DOMAIN Creates
  <2>1. e.name \in DOMAIN Updates /\ s[Updates[e.name]] # Absent
    BY <1>3 DEF Emits
  <2>2. After(e, s) = [s EXCEPT ![Updates[e.name]] = Updated(e, @)]
    BY <1>1, <1>3 DEF After
  <2> QED
    BY <1>1, <1>3, <2>1, <2>2 DEF CreatesIn, UpdatesIn, Result
<1> QED
  BY <1>2, <1>3

LEMMA AfterParents ==
  ASSUME NEW s \in State, ParentsExist(s), NEW e \in Event, Emits(e, s)
  PROVE  ParentsExist(After(e, s))
<1>1. \A t \in Table : After(e, s)[t] = Absent <=> s[t] = Absent /\ ~CreatesIn(e, t)
  BY AfterRow, ResultType, StateColumn
<1>2. ASSUME NEW t \in Table, CreatesIn(e, t), NEW u \in RefersTo[t]
      PROVE  u = t \/ s[u] # Absent
  <2>1. e.name \notin DOMAIN Updates
    BY <1>2 DEF CreatesIn, Creates, Updates
  <2>2. e.name # "IdentityCreated" => s[Parent[t]] # Absent
    BY <1>2, <2>1 DEF Emits, CreatesIn
  <2>3. CASE t = "identities"
    BY <1>2, <2>3 DEF RefersTo
  <2>4. CASE t = "tracks"
    BY <1>2, <2>2, <2>4 DEF RefersTo, Parent, CreatesIn, Creates
  <2>5. CASE t = "accounts"
    <3>1. s["tracks"] # Absent
      BY <1>2, <2>2, <2>5 DEF Parent, CreatesIn, Creates
    <3>2. s["identities"] # Absent
      BY <3>1 DEF ParentsExist, RefersTo, Table
    <3> QED
      BY <1>2, <2>5, <3>1, <3>2 DEF RefersTo, Table
  <2> QED
    BY <2>3, <2>4, <2>5 DEF Table
<1>3. \A t \in Table : RefersTo[t] \subseteq Table
  BY DEF RefersTo, Table
<1> QED
  BY <1>1, <1>2, <1>3 DEF ParentsExist

LEMMA MinedBlock ==
  ASSUME NEW s \in State, ParentsExist(s),
         NEW e \in Event \cup {Absent}, NEW f \in Event \cup {Absent},
         e # Absent => Emits(e, s), f # Absent => e # Absent /\ Emits(f, After(e, s))
  PROVE  /\ ParentsExist(After(f, After(e, s)))
         /\ \A t \in Table : BlockBuilt(Logged(e, f), t, s[t], After(f, After(e, s))[t])
<1>1. Absent \notin Event
  BY IndexerAssumption
<1>2. CASE e = Absent
  <2>1. f = Absent /\ Logged(e, f) = <<>> /\ After(f, After(e, s)) = s
    BY <1>2 DEF Logged, After
  <2>2. <<>> \in Seq(Event) /\ Len(<<>>) = 0 /\ DOMAIN <<>> = {}
    OBVIOUS
  <2>3. \A t \in Table : Replay(<<>>, t, s[t]) = s[t]
    BY <2>2 DEF Replay
  <2> QED
    BY <2>1, <2>2, <2>3 DEF BlockBuilt
<1>3. CASE e # Absent /\ f = Absent
  <2>1. PICK s1 \in State : s1 = After(e, s)
    BY AfterType
  <2>2. After(f, s1) = s1 /\ Logged(e, f) = <<e>> /\ e \in Event /\ Emits(e, s)
    BY <1>3 DEF After, Logged
  <2>3. ParentsExist(s1)
    BY <2>1, <2>2, AfterParents
  <2>4. PICK logs : logs = <<e>> /\ logs \in Seq(Event) /\ Len(logs) = 1 /\ logs[1] = e
                    /\ \A i \in DOMAIN logs : i = 1
    <3>1. PICK logs : logs = <<e>>
      OBVIOUS
    <3>2. logs \in Seq(Event)
      BY <2>2, <3>1
    <3>3. Len(logs) = 1 /\ logs[1] = e
      BY <3>1
    <3>4. \A i \in DOMAIN logs : i = 1
      BY <3>1
    <3> QED
      BY <3>1, <3>2, <3>3, <3>4
  <2>5. ASSUME NEW t \in Table PROVE BlockBuilt(logs, t, s[t], s1[t])
    <3>1. s1[t] = Result(e, t, s[t]) /\ (CreatesIn(e, t) => s[t] = Absent)
      BY <2>1, <2>2, AfterRow
    <3>2. Replay(logs, t, s[t]) = Result(e, t, s[t])
      BY <2>4, ReplayOne
    <3> QED
      BY <2>4, <3>1, <3>2 DEF BlockBuilt
  <2> QED
    BY <2>1, <2>2, <2>3, <2>4, <2>5
<1>4. CASE e # Absent /\ f # Absent
  <2>1. PICK s1 \in State : s1 = After(e, s)
    BY AfterType
  <2>2. e \in Event /\ Emits(e, s) /\ f \in Event /\ Emits(f, s1) /\ Logged(e, f) = <<e, f>>
    BY <1>4, <2>1 DEF Logged
  <2>3. PICK s2 : s2 = After(f, s1)
    OBVIOUS
  <2>4. ParentsExist(s2)
    BY <2>1, <2>2, <2>3, AfterParents
  <2>5. PICK logs : logs = <<e, f>> /\ logs \in Seq(Event) /\ Len(logs) = 2 /\ logs[1] = e
                    /\ logs[2] = f /\ \A i \in DOMAIN logs : i = 1 \/ i = 2
    <3>1. PICK logs : logs = <<e, f>>
      OBVIOUS
    <3>2. logs \in Seq(Event)
      BY <2>2, <3>1
    <3>3. Len(logs) = 2 /\ logs[1] = e /\ logs[2] = f
      BY <3>1
    <3>4. \A i \in DOMAIN logs : i = 1 \/ i = 2
      BY <3>1
    <3> QED
      BY <3>1, <3>2, <3>3, <3>4
  <2>6. ASSUME NEW t \in Table PROVE BlockBuilt(logs, t, s[t], s2[t])
    <3>1. /\ s1[t] = Result(e, t, s[t]) /\ (CreatesIn(e, t) => s[t] = Absent)
          /\ UpdatesIn(e, t) => s[t] # Absent
      BY <2>1, <2>2, AfterRow
    <3>2. s2[t] = Result(f, t, s1[t]) /\ (CreatesIn(f, t) => s1[t] = Absent)
      BY <2>1, <2>2, <2>3, AfterRow
    <3>3. Replay(logs, t, s[t]) = s2[t]
      <4>1. Replay(logs, t, s[t]) = Result(logs[2], t, Result(logs[1], t, s[t]))
        <5>1. logs \in Seq(Event) /\ Len(logs) = 2
          BY <2>5
        <5> QED
          BY <5>1, ReplayTwo
      <4> QED
        BY <2>5, <3>1, <3>2, <4>1
    <3>4. s[t] # Absent => s1[t] # Absent
      BY <2>2, <3>1, ResultType, StateColumn
    <3> QED
      BY <2>5, <3>1, <3>2, <3>3, <3>4 DEF BlockBuilt
  <2> QED
    BY <2>1, <2>2, <2>3, <2>4, <2>5, <2>6
<1> QED
  BY <1>2, <1>3, <1>4

-----------------------------------------------------------------------------
LEMMA ColumnTypes ==
  ASSUME PInv
  PROVE  /\ rows \in RowsType
         /\ \A t \in Table : rows[t].value \in Value(t) /\ rows[t].at \in Nat
         /\ \A n \in DOMAIN chain : /\ chain[n].logs \in Seq(Event) /\ chain[n].post \in State
                                    /\ \A t \in Table : chain[n].post[t] \in Value(t)
<1>1. rows \in RowsType
  BY DEF PInv, IInv, TypeOK, RowsType
<1>2. \A t \in Table : rows[t] \in Row(t)
  BY <1>1, RowColumn
<1>3. \A n \in DOMAIN chain : chain[n] \in Block
  BY Domains DEF PInv
<1>4. \A n \in DOMAIN chain : chain[n].logs \in Seq(Event) /\ chain[n].post \in State
  BY <1>3 DEF Block
<1> QED
  BY <1>1, <1>2, <1>4, StateColumn DEF Row

LEMMA ProjectionInit == Init => PInv
<1> SUFFICES ASSUME Init PROVE PInv
  OBVIOUS
<1>1. IInv
  BY IndexerInit
<1>2. /\ Len(chain) = 1 /\ DOMAIN chain = {1} /\ chain[1].logs = <<>> /\ chain[1].post = NoState
      /\ local = <<>> /\ Len(local) = 0 /\ DOMAIN local = {} /\ from = 1
      /\ indexed = <<>> /\ Len(indexed) = 0
      /\ \A t \in Table : rows[t].value = Absent /\ rows[t].at = 0
      /\ sync.pc = "idle" /\ ~sync.fresh
  BY DEF Init, Idle
<1>3. \A t \in Table : NoState[t] = Absent
  BY DEF NoState
<1>4. \A t \in Table : RefersTo[t] \subseteq Table
  BY DEF RefersTo, Table
<1>5. ChainBuilt
  BY <1>2, <1>3, <1>4 DEF ChainBuilt, ParentsExist
<1>6. RowsBorn /\ RowsComplete
  BY <1>2, <1>3 DEF RowsBorn, RowsComplete
<1>7. LogsLeft /\ SnapshotTaken
  BY <1>2 DEF LogsLeft, SnapshotTaken, Fresh
<1>8. ValuesKept
  BY <1>2 DEF ValuesKept, AllInChain
<1> QED
  BY <1>1, <1>5, <1>6, <1>7, <1>8 DEF PInv

(* Steps that leave the chain, the database and the blocks of the view alone. *)
LEMMA QuietStep ==
  ASSUME PInv, IInv', UNCHANGED <<chain, reorgs, from, indexed, rows>>,
         Len(local') = Len(local), DOMAIN local' = DOMAIN local,
         \A i \in DOMAIN local : local'[i].number = local[i].number /\ local'[i].hash = local[i].hash,
         sync'.pc = "event" => sync' = sync, SnapshotTaken'
  PROVE  PInv'
<1>1. \A i \in DOMAIN local : InChain(i)' <=> InChain(i)
  BY DEF InChain, IsCanonical, Canonical
<1>2. (AllInChain' <=> AllInChain) /\ \A n : Projected(n)' <=> Projected(n)
  BY <1>1 DEF AllInChain, Projected
<1>3. ChainBuilt'
  BY DEF PInv, ChainBuilt
<1>4. RowsBorn'
  BY DEF PInv, RowsBorn, Born, IsCanonical, Canonical
<1>5. RowsComplete'
  BY <1>2 DEF PInv, RowsComplete
<1>6. LogsLeft'
  BY DEF PInv, LogsLeft
<1>7. ValuesKept'
  BY <1>2 DEF PInv, ValuesKept
<1> QED
  BY <1>3, <1>4, <1>5, <1>6, <1>7 DEF PInv

LEMMA AbandonKeeps ==
  ASSUME PInv, IInv', UNCHANGED <<chainVars, local, from, dbVars>>, sync' = Idle
  PROVE  PInv'
<1>1. UNCHANGED <<chain, reorgs, from, indexed, rows, local>>
  BY DEF chainVars, dbVars
<1>2. sync'.pc = "idle" /\ ~sync'.fresh
  BY DEF Idle
<1>3. SnapshotTaken'
  BY <1>2 DEF SnapshotTaken, Fresh
<1> QED
  BY <1>1, <1>2, <1>3, QuietStep

LEMMA StartSyncKeeps ==
  ASSUME PInv, IInv', StartSync
  PROVE  PInv'
<1>1. UNCHANGED <<chain, reorgs, from, indexed, rows, local>>
  BY DEF StartSync, chainVars, dbVars
<1>2. sync'.pc \in {"extend", "find"} /\ sync'.included = Len(chain)
  BY DEF StartSync, Idle
<1>3. SnapshotTaken'
  <2>1. Len(chain) \in Nat /\ Len(chain) > 0
    BY Domains DEF PInv
  <2> QED
    BY <1>2, <2>1 DEF SnapshotTaken, Fresh
<1> QED
  BY <1>1, <1>2, <1>3, QuietStep

LEMMA TurnGoesOn ==
  ASSUME PInv, sync.pc # "idle", sync'.pc # "idle", sync'.included = sync.included
  PROVE  SnapshotTaken'
BY DEF PInv, SnapshotTaken, Fresh

LEMMA FindKeeps ==
  ASSUME PInv, IInv', findDivergence
  PROVE  PInv'
<1> DEFINE b == local[sync.next]
<1>1. UNCHANGED <<chainVars, from, dbVars>> /\ UNCHANGED <<chain, reorgs, from, indexed, rows>>
      /\ sync.pc = "find" /\ sync \in SyncState
  BY DEF findDivergence, chainVars, dbVars, PInv, IInv, TypeOK
<1>2. CASE Abandon
  BY <1>1, <1>2, AbandonKeeps DEF Abandon
<1>3. ASSUME UNCHANGED local, sync'.pc \in {"find", "extend", "revert"}, sync'.included = sync.included
      PROVE  PInv'
  <2>1. SnapshotTaken'
    BY <1>1, <1>3, TurnGoesOn
  <2> QED
    BY <1>1, <1>3, <2>1, QuietStep
<1>4. CASE /\ Canonical(b.number) = b.hash
           /\ sync' = IF sync.diverged = 0
                        THEN [sync EXCEPT !.pc = "extend", !.next = local[Len(local)].number + 1]
                        ELSE [sync EXCEPT !.pc = "revert", !.next = Len(local)]
           /\ UNCHANGED local
  <2>1. sync'.pc \in {"find", "extend", "revert"} /\ sync'.included = sync.included
    BY <1>1, <1>4 DEF SyncState
  <2> QED
    BY <1>3, <1>4, <2>1
<1>5. CASE /\ Canonical(b.number) # b.hash
           /\ sync' = IF sync.next > 1
                        THEN [sync EXCEPT !.diverged = b.number, !.next = @ - 1]
                        ELSE [sync EXCEPT !.diverged = b.number, !.pc = "revert", !.next = Len(local)]
           /\ UNCHANGED local
  <2>1. sync'.pc \in {"find", "extend", "revert"} /\ sync'.included = sync.included
    BY <1>1, <1>5 DEF SyncState
  <2> QED
    BY <1>3, <1>5, <2>1
<1> QED
  BY <1>2, <1>4, <1>5 DEF findDivergence

LEMMA FetchHeaderKeeps ==
  ASSUME PInv, IInv', FetchHeader
  PROVE  PInv'
<1>1. /\ UNCHANGED <<chainVars, from, dbVars>> /\ UNCHANGED <<chain, reorgs, from, indexed, rows>>
      /\ sync.pc = "extend" /\ sync \in SyncState
  BY DEF FetchHeader, chainVars, dbVars, PInv, IInv, TypeOK
<1>2. CASE Abandon
  BY <1>1, <1>2, AbandonKeeps DEF Abandon
<1>3. CASE /\ sync' = [sync EXCEPT !.pc = "insert", !.hash = chain[sync.next].hash,
                                   !.parent = chain[sync.next].parent]
           /\ UNCHANGED local
  <2>1. sync'.pc = "insert" /\ sync'.included = sync.included
    BY <1>1, <1>3 DEF SyncState
  <2>2. SnapshotTaken'
    BY <1>1, <2>1, TurnGoesOn
  <2> QED
    BY <1>1, <1>3, <2>1, <2>2, QuietStep
<1>4. CASE sync.next > sync.included /\ EndSync
  <2>1. /\ DOMAIN local' = DOMAIN local
        /\ \A i \in DOMAIN local : local'[i] = [local[i] EXCEPT !.tag = tagFor(local[i].number, sync.finalized)]
    BY <1>4 DEF EndSync
  <2>2. \A i \in DOMAIN local : local[i] \in ViewBlock
    BY Domains DEF PInv
  <2>3. \A i \in DOMAIN local : local'[i].number = local[i].number /\ local'[i].hash = local[i].hash
    BY <2>1, <2>2 DEF ViewBlock
  <2>4. Len(local') = Len(local)
    <3>1. Len(local) \in Nat /\ DOMAIN local = 1..Len(local)
      BY Domains DEF PInv
    <3>2. Len(local') \in Nat /\ DOMAIN local' = 1..Len(local')
      <4>1. local' \in Seq(ViewBlock)
        BY DEF IInv, TypeOK
      <4> QED
        BY <4>1
    <3> QED
      BY <2>1, <3>1, <3>2
  <2>5. sync'.pc = "idle" /\ sync'.included = sync.included
    BY <1>4 DEF EndSync, Idle
  <2>6. SnapshotTaken'
    <3>1. sync.included >= 1 /\ sync.included \in Nat /\ sync.next \in Nat
      BY <1>1 DEF PInv, SnapshotTaken, SyncState
    <3>2. sync.next = from + Len(local) /\ sync.next <= sync.included + 1
      BY <1>1 DEF PInv, IInv, ExtendHolds
    <3>3. from + Len(local) = sync.included + 1
      BY <1>4, <3>1, <3>2
    <3> QED
      BY <1>1, <2>4, <2>5, <3>1, <3>3 DEF SnapshotTaken
  <2> QED
    BY <1>1, <2>1, <2>3, <2>4, <2>5, <2>6, QuietStep
<1> QED
  BY <1>2, <1>3, <1>4 DEF FetchHeader

LEMMA FinalizeKeeps ==
  ASSUME PInv, IInv', Finalize
  PROVE  PInv'
<1>1. UNCHANGED <<chain, reorgs, from, indexed, rows, local, sync>>
  BY DEF Finalize, dbVars
<1>2. SnapshotTaken'
  BY <1>1 DEF PInv, SnapshotTaken, Fresh
<1> QED
  BY <1>1, <1>2, QuietStep

(* The block in progress, and the canonical block before it. *)
LEMMA LastProjected ==
  ASSUME PInv, AllInChain, NEW n \in Nat, n = from + Len(local) - 1
  PROVE  Projected(n)
<1>1. /\ from \in Nat /\ Len(local) \in Nat /\ (local = <<>> <=> Len(local) = 0)
      /\ local # <<>> => Len(local) \in DOMAIN local /\ local[Len(local)].number = from + Len(local) - 1
  BY Domains DEF PInv
<1>2. CASE local = <<>>
  <2>1. n < from
    BY <1>1, <1>2
  <2> QED
    BY <2>1 DEF Projected
<1>3. CASE local # <<>>
  BY <1>1, <1>3 DEF Projected, AllInChain
<1> QED
  BY <1>2, <1>3

LEMMA AllPersisted ==
  ASSUME PInv, AllInChain
  PROVE  Len(indexed) = from + Len(local) - 1 \/ Len(indexed) = from + Len(local)
<1>1. /\ from \in Nat /\ Len(local) \in Nat /\ (local = <<>> <=> Len(local) = 0)
      /\ Len(indexed) \in Nat /\ Len(indexed) >= from - 1 /\ Len(indexed) <= from + Len(local)
  BY Domains DEF PInv
<1>2. local # <<>> => Len(indexed) >= from + Len(local) - 1
  <2> SUFFICES ASSUME local # <<>> PROVE Len(indexed) >= from + Len(local) - 1
    OBVIOUS
  <2>1. Len(local) \in DOMAIN local /\ local[Len(local)].number = from + Len(local) - 1
    BY Domains DEF PInv
  <2>2. from + Len(local) - 1 \in DOMAIN indexed
    BY <2>1 DEF PInv, IInv, IndexedMatches, AllInChain
  <2>3. DOMAIN indexed = 1..Len(indexed)
    BY Domains DEF PInv
  <2>4. \A m \in DOMAIN indexed : m <= Len(indexed)
    BY <1>1, <2>3
  <2>5. from + Len(local) - 1 <= Len(indexed)
    BY <2>2, <2>4
  <2> QED
    BY <1>1, <2>5
<1> QED
  BY <1>1, <1>2

LEMMA InProgress ==
  ASSUME PInv, sync.pc \in {"insert", "logs", "event"}
  PROVE  /\ sync.next = from + Len(local) /\ sync.next \in Nat /\ sync.next >= 1
         /\ sync.next \in DOMAIN chain /\ 1 \in DOMAIN chain /\ AllInChain
         /\ sync.next # 1 => sync.next > 1 /\ sync.next - 1 \in DOMAIN chain /\ Projected(sync.next - 1)
         /\ Len(indexed) = sync.next - 1 \/ Len(indexed) = sync.next
<1>1. /\ sync.next = from + Len(local) /\ AllInChain /\ sync.next <= sync.included
      /\ sync.included <= Len(chain)
  BY DEF PInv, IInv, ExtendHolds, SnapshotHolds
<1>2. /\ from \in Nat /\ from >= 1 /\ Len(local) \in Nat /\ Len(chain) \in Nat /\ sync.included \in Nat
  BY Domains DEF PInv, IInv, TypeOK, SyncState
<1>3. PICK n \in Nat : n = sync.next /\ n >= 1 /\ n <= Len(chain)
  BY <1>1, <1>2
<1>4. DOMAIN chain = 1..Len(chain)
  BY Domains DEF PInv
<1>5. n \in DOMAIN chain /\ 1 \in DOMAIN chain
  BY <1>2, <1>3, <1>4
<1>6. n # 1 => n > 1 /\ n - 1 \in DOMAIN chain /\ Projected(n - 1)
  <2> SUFFICES ASSUME n # 1 PROVE n > 1 /\ n - 1 \in DOMAIN chain /\ Projected(n - 1)
    OBVIOUS
  <2>1. PICK m \in Nat : m = n - 1 /\ m >= 1 /\ m <= Len(chain)
    BY <1>2, <1>3
  <2>2. m = from + Len(local) - 1
    BY <1>1, <1>2, <1>3, <2>1
  <2>3. Projected(m)
    BY <1>1, <2>2, LastProjected
  <2>4. m \in DOMAIN chain
    BY <1>2, <1>4, <2>1
  <2>5. n > 1
    BY <1>3
  <2> QED
    BY <2>1, <2>3, <2>4, <2>5
<1>7. Len(indexed) = n - 1 \/ Len(indexed) = n
  <2>1. n = from + Len(local)
    BY <1>1, <1>3
  <2>2. Len(indexed) = from + Len(local) - 1 \/ Len(indexed) = from + Len(local)
    BY <1>1, AllPersisted
  <2> QED
    BY <1>2, <2>1, <2>2
<1> QED
  BY <1>1, <1>3, <1>5, <1>6, <1>7

LEMMA InsertBlockKeeps ==
  ASSUME PInv, IInv', InsertBlock
  PROVE  PInv'
<1> DEFINE n == sync.next
<1>1. /\ UNCHANGED <<chain, reorgs, local, from, rows>> /\ sync.pc = "insert" /\ sync \in SyncState
      /\ DOMAIN indexed' = DOMAIN indexed \cup {n} /\ indexed'[n] = sync.hash
      /\ \A m \in DOMAIN indexed : m # n => indexed'[m] = indexed[m]
      /\ sync' = [sync EXCEPT !.pc = "logs"]
  BY DEF InsertBlock, PInv, IInv, TypeOK, chainVars
<1>2. sync'.pc = "logs" /\ sync'.included = sync.included /\ sync'.next = n
  BY <1>1 DEF SyncState
<1>3. /\ n = from + Len(local) /\ n \in Nat /\ n >= 1 /\ n \in DOMAIN chain /\ AllInChain
      /\ n # 1 => n > 1 /\ n - 1 \in DOMAIN chain /\ Projected(n - 1)
      /\ Len(indexed) = n - 1 \/ Len(indexed) = n
  BY <1>1, InProgress
<1>4. Len(indexed') = n
  BY <1>2 DEF IInv, ExtendHolds
<1>5. SnapshotTaken' /\ LogsLeft'
  BY <1>1, <1>2, TurnGoesOn DEF LogsLeft
<1>6. ChainBuilt'
  BY <1>1 DEF PInv, ChainBuilt
<1>7. AllInChain' /\ \A m : Projected(m)' <=> Projected(m)
  BY <1>1, <1>3 DEF AllInChain, Projected, InChain, IsCanonical, Canonical
<1>8. RowsComplete'
  BY <1>1, <1>7 DEF PInv, RowsComplete
<1>9. RowsBorn'
  <2>1. ASSUME NEW m \in DOMAIN indexed PROVE IsCanonical(m, indexed[m])' => IsCanonical(m, indexed[m])
    <3>1. CASE m = n
      BY <1>3, <3>1 DEF PInv, IInv, IndexedMatches
    <3>2. CASE m # n
      BY <1>1, <3>2 DEF IsCanonical, Canonical
    <3> QED
      BY <3>1, <3>2
  <2> QED
    BY <1>1, <2>1 DEF PInv, RowsBorn, Born
<1>10. ValuesKept'
  <2> SUFFICES ASSUME reorgs = 0, NEW t \in Table
               PROVE  Replay(chain[n].logs, t, rows[t].value) = chain[n].post[t]
    <3>1. ~(n < n)
      BY <1>3
    <3> QED
      BY <1>1, <1>2, <1>3, <1>4, <1>7, <3>1 DEF ValuesKept
  <2>1. CASE Len(indexed) = n
    BY <1>3, <2>1 DEF PInv, ValuesKept
  <2>2. CASE Len(indexed) = n - 1
    <3>1. Len(indexed) < from + Len(local)
      BY <1>3, <2>2
    <3>2. rows[t].value = IF Len(indexed) = 0 THEN Absent ELSE chain[Len(indexed)].post[t]
      BY <3>1 DEF PInv, ValuesKept
    <3>3. CASE n = 1
      <4>1. rows[t].value = Absent
        BY <2>2, <3>2, <3>3
      <4>2. chain[1].logs = <<>> /\ chain[1].post[t] = Absent
        BY DEF PInv, ChainBuilt
      <4>3. Len(chain[1].logs) = 0 /\ chain[1].logs \in Seq(Event)
        BY <4>2
      <4>4. Replay(chain[1].logs, t, Absent) = Absent
        BY <4>3, ReplayNone
      <4> QED
        BY <3>3, <4>1, <4>2, <4>4
    <3>4. CASE n # 1
      <4>1. n - 1 # 0
        BY <1>3, <3>4
      <4>2. rows[t].value = chain[n-1].post[t]
        BY <2>2, <3>2, <4>1
      <4>3. BlockBuilt(chain[n].logs, t, chain[n-1].post[t], chain[n].post[t])
        BY <1>3, <3>4 DEF PInv, ChainBuilt
      <4> QED
        BY <4>2, <4>3 DEF BlockBuilt
    <3> QED
      BY <3>3, <3>4
  <2> QED
    BY <1>3, <2>1, <2>2
<1> QED
  BY <1>5, <1>6, <1>8, <1>9, <1>10 DEF PInv

LEMMA FetchLogsKeeps ==
  ASSUME PInv, IInv', FetchLogs
  PROVE  PInv'
<1> DEFINE n == sync.next
<1>1. /\ UNCHANGED <<chain, reorgs, local, from, rows, indexed>> /\ sync.pc = "logs" /\ sync \in SyncState
      /\ sync' = [sync EXCEPT !.pc = "event", !.logs = IF n <= Len(chain) THEN chain[n].logs ELSE <<>>]
  BY DEF FetchLogs, PInv, IInv, TypeOK, chainVars, dbVars
<1>2. /\ n = from + Len(local) /\ n \in Nat /\ n >= 1 /\ n \in DOMAIN chain /\ AllInChain
      /\ n # 1 => n > 1 /\ n - 1 \in DOMAIN chain /\ Projected(n - 1)
  BY <1>1, InProgress
<1>3. n <= Len(chain)
  <2>1. DOMAIN chain = 1..Len(chain) /\ Len(chain) \in Nat
    BY Domains DEF PInv
  <2> QED
    BY <1>2, <2>1
<1>4. sync'.pc = "event" /\ sync'.included = sync.included /\ sync'.next = n /\ sync'.logs = chain[n].logs
  BY <1>1, <1>3 DEF SyncState
<1>5. Len(indexed) = n
  BY <1>1 DEF PInv, IInv, ExtendHolds
<1>6. SnapshotTaken'
  BY <1>1, <1>4, TurnGoesOn
<1>7. ChainBuilt'
  BY <1>1 DEF PInv, ChainBuilt
<1>8. AllInChain' /\ \A m : Projected(m)' <=> Projected(m)
  BY <1>1, <1>2 DEF AllInChain, Projected, InChain, IsCanonical, Canonical
<1>9. RowsComplete'
  BY <1>1, <1>8 DEF PInv, RowsComplete
<1>10. RowsBorn'
  BY <1>1 DEF PInv, RowsBorn, Born, IsCanonical, Canonical
<1>11. ASSUME NEW t \in Table, chain[n].post[t] # Absent, rows[t].value = Absent
       PROVE  \E i \in DOMAIN chain[n].logs : CreatesIn(chain[n].logs[i], t)
  <2>1. n # 1
    BY <1>11 DEF PInv, ChainBuilt
  <2>2. chain[n-1].post[t] = Absent
    BY <1>2, <1>11, <2>1 DEF PInv, RowsComplete
  <2>3. BlockBuilt(chain[n].logs, t, chain[n-1].post[t], chain[n].post[t])
    BY <1>2, <2>1 DEF PInv, ChainBuilt
  <2>4. Len(chain[n].logs) <= 2 /\ Replay(chain[n].logs, t, Absent) # Absent
    BY <1>11, <2>2, <2>3 DEF BlockBuilt
  <2>5. chain[n].logs \in Seq(Event) /\ Absent \in Value(t)
    BY <1>2, <2>1, <2>2, ColumnTypes
  <2> QED
    BY <2>4, <2>5, ReplayType
<1>12. LogsLeft'
  BY <1>1, <1>4, <1>11 DEF LogsLeft
<1>13. ValuesKept'
  <2> SUFFICES ASSUME reorgs = 0, NEW t \in Table
               PROVE  Replay(chain[n].logs, t, rows[t].value) = chain[n].post[t]
    <3>1. ~(n < n)
      BY <1>2
    <3> QED
      BY <1>1, <1>2, <1>4, <1>5, <1>8, <3>1 DEF ValuesKept
  <2> QED
    BY <1>2, <1>5 DEF PInv, ValuesKept
<1> QED
  BY <1>6, <1>7, <1>9, <1>10, <1>12, <1>13 DEF PInv

LEMMA TailOfOne ==
  ASSUME NEW s \in Seq(Event), Len(s) = 1
  PROVE  Tail(s) = <<>>
<1>1. s # <<>>
  BY EmptySeq
<1>2. Tail(s) \in Seq(Event) /\ Len(Tail(s)) = Len(s) - 1
  BY <1>1, HeadTailProperties
<1>3. Len(Tail(s)) = 0
  BY <1>2
<1> QED
  BY <1>2, <1>3, EmptySeq

(* What is left of a block's events: all of them, all but the first, none. *)
LEMMA RestCases ==
  ASSUME NEW logs \in Seq(Event), Len(logs) <= 2, NEW rest, rest # <<>>,
         rest = logs \/ (Len(logs) >= 1 /\ rest = Tail(logs))
  PROVE  \/ Len(logs) = 1 /\ rest = logs /\ Head(rest) = logs[1] /\ Tail(rest) = <<>>
         \/ Len(logs) = 2 /\ rest = logs /\ Head(rest) = logs[1] /\ Tail(rest) = Tail(logs)
         \/ Len(logs) = 2 /\ rest = Tail(logs) /\ Head(rest) = logs[2] /\ Tail(rest) = <<>>
<1>1. CASE Len(logs) = 0
  BY <1>1
<1>2. CASE Len(logs) = 1
  <2>1. Tail(logs) = <<>>
    BY <1>2, TailOfOne
  <2>2. Head(logs) = logs[1]
    BY <1>2
  <2> QED
    BY <1>2, <2>1, <2>2
<1>3. CASE Len(logs) = 2
  <2>1. /\ Head(logs) = logs[1] /\ Tail(logs) \in Seq(Event) /\ Len(Tail(logs)) = 1
        /\ Tail(logs)[1] = logs[2]
    BY <1>3
  <2>2. Head(Tail(logs)) = logs[2] /\ Tail(Tail(logs)) = <<>>
    BY <2>1
  <2> QED
    BY <1>3, <2>1, <2>2
<1> QED
  BY <1>1, <1>2, <1>3, UpToTwo

(* Applying one more of them keeps both replays right. *)
LEMMA ReplayNext ==
  ASSUME NEW logs \in Seq(Event), NEW t \in Table, NEW pre \in Value(t), NEW v \in Value(t), NEW post,
         BlockBuilt(logs, t, pre, post), NEW rest, rest # <<>>,
         rest = logs \/ (Len(logs) >= 1 /\ rest = Tail(logs)),
         Replay(logs, t, v) = post, Replay(rest, t, v) = post,
         NEW w, w = Result(Head(rest), t, v)
  PROVE  Replay(logs, t, w) = post /\ Replay(Tail(rest), t, w) = post
<1>1. Len(logs) <= 2
  BY DEF BlockBuilt
<1>2. ASSUME w = post, Tail(rest) = <<>> PROVE Replay(logs, t, w) = post /\ Replay(Tail(rest), t, w) = post
  <2>1. Replay(logs, t, w) = post
    BY <1>2, ReplayAgain
  <2>2. Replay(<<>>, t, w) = w
    BY DEF Replay
  <2> QED
    BY <1>2, <2>1, <2>2
<1>3. CASE Len(logs) = 1 /\ rest = logs /\ Head(rest) = logs[1] /\ Tail(rest) = <<>>
  BY <1>2, <1>3, ReplayOne
<1>4. CASE Len(logs) = 2 /\ rest = logs /\ Head(rest) = logs[1] /\ Tail(rest) = Tail(logs)
  <2>1. /\ logs[1] \in Event /\ logs[2] \in Event
        /\ Replay(logs, t, v) = Result(logs[2], t, Result(logs[1], t, v))
        /\ Replay(logs, t, w) = Result(logs[2], t, Result(logs[1], t, w))
    BY <1>4, ReplayTwo
  <2>2. Result(logs[1], t, w) = w
    BY <1>4, <2>1, ResultTwice
  <2>3. Tail(logs) \in Seq(Event) /\ Len(Tail(logs)) = 1 /\ Tail(logs)[1] = logs[2]
    BY <1>4
  <2>4. Replay(Tail(logs), t, w) = Result(logs[2], t, w)
    BY <2>3, ReplayOne
  <2> QED
    BY <1>4, <2>1, <2>2, <2>4
<1>5. CASE Len(logs) = 2 /\ rest = Tail(logs) /\ Head(rest) = logs[2] /\ Tail(rest) = <<>>
  <2>1. rest \in Seq(Event) /\ Len(rest) = 1 /\ rest[1] = logs[2]
    BY <1>5
  <2>2. Replay(rest, t, v) = Result(logs[2], t, v)
    BY <2>1, ReplayOne
  <2> QED
    BY <1>2, <1>5, <2>2
<1> QED
  BY <1>1, <1>3, <1>4, <1>5, RestCases

LEMMA ApplyNextLogKeeps ==
  ASSUME PInv, IInv', ApplyNextLog
  PROVE  PInv'
<1> DEFINE n == sync.next
           logs == chain[n].logs
           e == Head(sync.logs)
<1>1. /\ UNCHANGED <<chainVars, from, indexed, faults>> /\ UNCHANGED <<chain, reorgs, from>>
      /\ sync.pc = "event" /\ sync \in SyncState /\ sync.logs # <<>>
  BY DEF ApplyNextLog, PInv, IInv, TypeOK, chainVars
<1>2. CASE Abandon /\ UNCHANGED rows
  BY <1>1, <1>2, AbandonKeeps DEF Abandon, dbVars
<1>3. CASE rows' = applyEvent(e, n) /\ sync' = [sync EXCEPT !.logs = Tail(@)] /\ UNCHANGED local
  <2>1. /\ n = from + Len(local) /\ n \in Nat /\ n >= 1 /\ n \in DOMAIN chain /\ AllInChain
        /\ n # 1 => n > 1 /\ n - 1 \in DOMAIN chain /\ Projected(n - 1)
    BY <1>1, InProgress
  <2>2. Len(indexed) = n /\ n \in DOMAIN indexed
    <3>1. Len(indexed) = n
      BY <1>1 DEF PInv, IInv, ExtendHolds
    <3>2. DOMAIN indexed = 1..Len(indexed)
      BY Domains DEF PInv
    <3> QED
      BY <2>1, <3>1, <3>2
  <2>3. sync'.pc = "event" /\ sync'.included = sync.included /\ sync'.next = n /\ sync'.logs = Tail(sync.logs)
    BY <1>1, <1>3 DEF SyncState
  <2>4. sync.logs = logs \/ (Len(logs) >= 1 /\ sync.logs = Tail(logs))
    BY <1>1 DEF PInv, LogsLeft
  <2>5. n # 1
    <3> SUFFICES ASSUME n = 1 PROVE FALSE
      OBVIOUS
    <3>1. logs = <<>>
      BY DEF PInv, ChainBuilt
    <3>2. Len(logs) = 0
      BY <3>1
    <3> QED
      BY <1>1, <2>4, <3>1, <3>2
  <2>6. \A t \in Table : BlockBuilt(logs, t, chain[n-1].post[t], chain[n].post[t])
    BY <2>1, <2>5 DEF PInv, ChainBuilt
  <2>7. logs \in Seq(Event) /\ Len(logs) <= 2
    <3>1. "identities" \in Table
      BY DEF Table
    <3> QED
      BY <2>1, <2>6, <3>1, ColumnTypes DEF BlockBuilt
  <2>8. /\ Tail(sync.logs) = <<>> \/ (Len(logs) >= 1 /\ Tail(sync.logs) = Tail(logs))
        /\ \E j \in DOMAIN logs : e = logs[j]
    <3>1. Len(logs) = 1 => 1 \in DOMAIN logs
      BY <2>7
    <3>2. Len(logs) = 2 => 1 \in DOMAIN logs /\ 2 \in DOMAIN logs
      BY <2>7
    <3>3. sync.logs # <<>>
      BY <1>1
    <3> HIDE DEF logs, n
    <3>4. \/ Len(logs) = 1 /\ e = logs[1] /\ Tail(sync.logs) = <<>>
          \/ Len(logs) = 2 /\ e = logs[1] /\ Tail(sync.logs) = Tail(logs)
          \/ Len(logs) = 2 /\ e = logs[2] /\ Tail(sync.logs) = <<>>
      BY <2>4, <2>7, <3>3, RestCases
    <3>5. Len(logs) = 1 \/ Len(logs) = 2
      BY <3>4
    <3>6. Len(logs) >= 1
      BY <3>5
    <3>7. \E j \in DOMAIN logs : e = logs[j]
      BY <3>1, <3>2, <3>4
    <3> QED
      BY <3>4, <3>6, <3>7
  <2>9. PICK j \in DOMAIN logs : e = logs[j]
    BY <2>8
  <2>10. e \in Event
    BY <2>7, <2>9
  <2>11. \A t \in Table : /\ rows[t].value \in Value(t) /\ chain[n-1].post[t] \in Value(t)
                          /\ chain[n].post[t] \in Value(t)
    BY <2>1, <2>5, ColumnTypes
  <2>12. \A t \in Table :
           /\ rows'[t].value = Result(e, t, rows[t].value)
           /\ rows'[t].at = IF CreatesIn(e, t) /\ rows[t].value = Absent THEN n ELSE rows[t].at
    BY <1>3, <2>1, <2>10, ApplyRow, ColumnTypes
  <2>13. \A t \in Table : rows'[t].value = Absent <=> rows[t].value = Absent /\ ~CreatesIn(e, t)
    BY <2>10, <2>11, <2>12, ResultType
  <2>14. \A t \in Table : CreatesIn(e, t) => chain[n-1].post[t] = Absent /\ chain[n].post[t] # Absent
    <3> SUFFICES ASSUME NEW t \in Table, CreatesIn(e, t)
                 PROVE  chain[n-1].post[t] = Absent /\ chain[n].post[t] # Absent
      OBVIOUS
    <3>1. chain[n-1].post[t] = Absent /\ chain[n].post[t] = Replay(logs, t, chain[n-1].post[t])
      BY <2>6, <2>9 DEF BlockBuilt
    <3>2. ~\A i \in DOMAIN logs : ~CreatesIn(logs[i], t)
      BY <2>9
    <3> HIDE DEF logs
    <3>3. Replay(logs, t, chain[n-1].post[t]) # Absent
      BY <2>7, <2>11, <3>2, ReplayType
    <3> QED
      BY <3>1, <3>3
  <2> HIDE DEF e, logs
  <2>15. SnapshotTaken'
    BY <1>1, <2>3, TurnGoesOn
  <2>16. ChainBuilt'
    BY <1>1 DEF PInv, ChainBuilt
  <2>17. AllInChain' /\ \A m : Projected(m)' <=> Projected(m)
    BY <1>1, <1>3, <2>1 DEF AllInChain, Projected, InChain, IsCanonical, Canonical
  <2>18. RowsBorn'
    <3> SUFFICES ASSUME NEW t \in Table
                 PROVE  /\ rows'[t].value = Absent => rows'[t].at = 0
                        /\ rows'[t].value # Absent =>
                             /\ rows'[t].at \in DOMAIN indexed
                             /\ IsCanonical(rows'[t].at, indexed[rows'[t].at]) => Born(t, rows'[t].at)
      BY <1>1 DEF RowsBorn, Born, IsCanonical, Canonical
    <3>1. CASE CreatesIn(e, t) /\ rows[t].value = Absent
      BY <2>1, <2>2, <2>5, <2>12, <2>13, <2>14, <3>1 DEF Born
    <3>2. CASE ~(CreatesIn(e, t) /\ rows[t].value = Absent)
      BY <2>12, <2>13, <3>2 DEF PInv, RowsBorn
    <3> QED
      BY <3>1, <3>2
  <2>19. RowsComplete'
    BY <1>1, <2>12, <2>13, <2>17 DEF PInv, RowsComplete
  <2>20. LogsLeft'
    <3>1. ASSUME NEW t \in Table, chain[n].post[t] # Absent, rows'[t].value = Absent
          PROVE  \E i \in DOMAIN Tail(sync.logs) : CreatesIn(Tail(sync.logs)[i], t)
      <4>1. rows[t].value = Absent /\ ~CreatesIn(e, t)
        BY <2>13, <3>1
      <4>2. PICK i \in DOMAIN sync.logs : CreatesIn(sync.logs[i], t)
        BY <1>1, <3>1, <4>1 DEF PInv, LogsLeft
      <4>3. i # 1
        BY <4>1, <4>2 DEF e
      <4>4. i - 1 \in DOMAIN Tail(sync.logs) /\ Tail(sync.logs)[i-1] = sync.logs[i]
        <5>1. sync.logs \in Seq(Event)
          BY <1>1 DEF SyncState
        <5> QED
          BY <1>1, <4>2, <4>3, <5>1
      <4> QED
        BY <4>2, <4>4
    <3>2. chain' = chain
      BY <1>1
    <3> QED
      BY <2>3, <2>8, <3>1, <3>2 DEF LogsLeft, logs
  <2>21. ValuesKept'
    <3> SUFFICES ASSUME reorgs = 0, NEW t \in Table
                 PROVE  /\ Replay(logs, t, rows'[t].value) = chain[n].post[t]
                        /\ Replay(Tail(sync.logs), t, rows'[t].value) = chain[n].post[t]
      <4>1. ~(n < n)
        BY <2>1
      <4>2. Len(indexed') = n /\ from' + Len(local') = n
        BY <1>1, <1>3, <2>1, <2>2
      <4> QED
        BY <1>1, <2>3, <2>17, <4>1, <4>2 DEF ValuesKept, logs
    <3>1. /\ Replay(logs, t, rows[t].value) = chain[n].post[t]
          /\ Replay(sync.logs, t, rows[t].value) = chain[n].post[t]
      BY <1>1, <2>1, <2>2 DEF PInv, ValuesKept, logs
    <3>2. rows'[t].value = Result(Head(sync.logs), t, rows[t].value)
      BY <2>12 DEF e
    <3> QED
      BY <1>1, <2>4, <2>6, <2>7, <2>11, <3>1, <3>2, ReplayNext
  <2> QED
    BY <2>15, <2>16, <2>18, <2>19, <2>20, <2>21 DEF PInv
<1> QED
  BY <1>2, <1>3 DEF ApplyNextLog

LEMMA PushBlockKeeps ==
  ASSUME PInv, IInv', PushBlock
  PROVE  PInv'
<1>1. /\ UNCHANGED <<chain, reorgs, from, rows, indexed>> /\ sync.pc = "event" /\ sync \in SyncState
      /\ sync.logs = <<>> /\ sync' = [sync EXCEPT !.pc = "extend", !.next = @ + 1]
  BY DEF PushBlock, PInv, IInv, TypeOK, chainVars, dbVars
<1>2. PICK n \in Nat : /\ n = sync.next /\ n = from + Len(local) /\ n >= 1 /\ n \in DOMAIN chain
                       /\ n # 1 => n > 1 /\ n - 1 \in DOMAIN chain
  BY <1>1, InProgress
<1>3. Len(indexed) = n
  BY <1>1, <1>2 DEF PInv, IInv, ExtendHolds
<1>4. sync'.pc = "extend" /\ sync'.included = sync.included
  BY <1>1 DEF SyncState
<1>5. PICK b : b.number = n /\ local' = Append(local, b)
  BY <1>2 DEF PushBlock
<1>6. /\ Len(local') = Len(local) + 1
      /\ \A i \in DOMAIN local : i \in DOMAIN local' /\ local'[i] = local[i]
      /\ \A i \in DOMAIN local' : i \in DOMAIN local \/ local'[i].number = n
  <2>1. local \in Seq(ViewBlock)
    BY DEF PInv, IInv, TypeOK
  <2> QED
    BY <1>5, <2>1
<1>7. SnapshotTaken' /\ LogsLeft'
  BY <1>1, <1>4, TurnGoesOn DEF LogsLeft
<1>8. ChainBuilt'
  BY <1>1 DEF PInv, ChainBuilt
<1>9. RowsBorn'
  BY <1>1 DEF PInv, RowsBorn, Born, IsCanonical, Canonical
<1>10. \A m : Projected(m)' => Projected(m) \/ m = n
  BY <1>1, <1>6 DEF Projected, InChain, IsCanonical, Canonical
<1>11. ASSUME NEW t \in Table, chain[n].post[t] # Absent PROVE rows[t].value # Absent /\ rows[t].at <= n
  <2>1. rows[t].value # Absent
    <3>1. DOMAIN sync.logs = {}
      BY <1>1
    <3> QED
      BY <1>1, <1>2, <1>11, <3>1 DEF PInv, LogsLeft
  <2>2. rows[t].at \in DOMAIN indexed
    BY <2>1 DEF PInv, RowsBorn
  <2>3. DOMAIN indexed = 1..Len(indexed)
    BY Domains DEF PInv
  <2> QED
    BY <1>3, <2>1, <2>2, <2>3
<1>12. RowsComplete'
  BY <1>1, <1>10, <1>11 DEF PInv, RowsComplete
<1>13. ValuesKept'
  <2> SUFFICES ASSUME reorgs = 0, NEW t \in Table PROVE rows[t].value = chain[n].post[t]
    <3>1. AllInChain'
      BY <1>4 DEF IInv, ExtendHolds
    <3>2. from' + Len(local') = n + 1
      <4>1. from \in Nat /\ Len(local) \in Nat
        BY Domains DEF PInv
      <4> QED
        BY <1>1, <1>2, <1>6, <4>1
    <3>3. n # n + 1 /\ n # 0
      BY <1>2
    <3> QED
      BY <1>1, <1>3, <3>1, <3>2, <3>3 DEF ValuesKept
  <2>1. Replay(sync.logs, t, rows[t].value) = chain[n].post[t]
    BY <1>1, <1>2, <1>3 DEF PInv, ValuesKept
  <2>2. Replay(<<>>, t, rows[t].value) = rows[t].value
    BY DEF Replay
  <2> QED
    BY <1>1, <2>1, <2>2
<1> QED
  BY <1>7, <1>8, <1>9, <1>12, <1>13 DEF PInv

(* A block about to be reverted is abandoned, and above every canonical one. *)
LEMMA RevertsAbandoned ==
  ASSUME PInv, sync.pc = "revert"
  PROVE  /\ sync.next \in DOMAIN local /\ ~InChain(sync.next)
         /\ \A n \in DOMAIN chain : Projected(n) => n < local[sync.next].number
<1>1. sync.next \in DOMAIN local /\ ViewLinked
  BY DEF PInv, IInv, RevertHolds
<1>2. PICK d \in 1..sync.next : ~InChain(d)
  BY DEF PInv, IInv, RevertHolds
<1>3. DOMAIN local = 1..Len(local) /\ Len(local) \in Nat
  BY Domains DEF PInv
<1>4. d \in DOMAIN local /\ (d = sync.next \/ d < sync.next)
  BY <1>1, <1>3
<1>5. ~InChain(sync.next)
  BY <1>1, <1>2, <1>4 DEF ViewLinked
<1>6. from \in Nat /\ \A i \in DOMAIN local : local[i].number = from + i - 1
  BY Domains DEF PInv
<1>7. PICK s \in Nat : s = sync.next /\ s >= 1 /\ local[s].number = from + s - 1
  BY <1>1, <1>3, <1>6
<1>8. ASSUME NEW n \in DOMAIN chain, Projected(n) PROVE n < local[s].number
  <2>1. n \in Nat
    BY Domains DEF PInv
  <2>2. CASE n < from
    <3>1. n < from + s - 1
      BY <1>6, <1>7, <2>1, <2>2
    <3> QED
      BY <1>7, <3>1
  <2>3. CASE \E i \in DOMAIN local : local[i].number = n /\ InChain(i)
    <3>1. PICK i \in DOMAIN local : local[i].number = n /\ InChain(i)
      BY <2>3
    <3>2. i \in Nat
      BY <1>3
    <3>3. ~(s < i) /\ s # i
      BY <1>1, <1>5, <1>7, <3>1 DEF ViewLinked
    <3>4. i < s
      BY <1>7, <3>2, <3>3
    <3>5. n = from + i - 1
      BY <1>6, <3>1
    <3>6. from + i - 1 < from + s - 1
      BY <1>6, <1>7, <3>2, <3>4
    <3> QED
      BY <1>7, <3>5, <3>6
  <2> QED
    BY <1>8, <2>2, <2>3 DEF Projected
<1> QED
  BY <1>1, <1>5, <1>7, <1>8

LEMMA RevertKeeps ==
  ASSUME PInv, IInv', revert
  PROVE  PInv'
<1> DEFINE m == local[sync.next].number
<1>1. /\ UNCHANGED <<chain, reorgs, from>> /\ sync.pc = "revert" /\ sync \in SyncState
      /\ rows' = Cascade(m)
  BY DEF revert, PInv, IInv, TypeOK, chainVars
<1>2. /\ DOMAIN indexed' = DOMAIN indexed \ {m}
      /\ \A k \in DOMAIN indexed : k # m => indexed'[k] = indexed[k]
  BY DEF revert
<1>3. /\ sync.next \in DOMAIN local /\ ~InChain(sync.next)
      /\ \A n \in DOMAIN chain : Projected(n) => n < m
  BY <1>1, RevertsAbandoned
<1>4. sync'.pc \in {"revert", "extend"} /\ sync'.included = sync.included
  <2>1. \/ sync' = [sync EXCEPT !.next = @ - 1]
        \/ sync' = [sync EXCEPT !.pc = "extend", !.next = m]
    BY DEF revert
  <2> QED
    BY <1>1, <2>1 DEF SyncState
<1>5. SnapshotTaken' /\ LogsLeft'
  BY <1>1, <1>4, TurnGoesOn DEF LogsLeft
<1>6. ChainBuilt'
  BY <1>1 DEF PInv, ChainBuilt
<1>7. \A n : Projected(n)' => Projected(n)
  <2>1. \A i \in DOMAIN local' : i \in DOMAIN local /\ local'[i] = local[i]
    <3>1. CASE UNCHANGED local
      BY <3>1
    <3>2. CASE local' = SubSeq(local, 1, sync.next - 1)
      <4>1. local \in Seq(ViewBlock) /\ DOMAIN local = 1..Len(local) /\ Len(local) \in Nat
        BY Domains DEF PInv, IInv, TypeOK
      <4>2. PICK e \in Nat : e = sync.next - 1 /\ e <= Len(local)
        BY <1>3, <4>1
      <4>3. local' = SubSeq(local, 1, e)
        BY <3>2, <4>2
      <4> QED
        BY <4>1, <4>2, <4>3
    <3> QED
      BY <3>1, <3>2 DEF revert
  <2> QED
    BY <1>1, <2>1 DEF Projected, InChain, IsCanonical, Canonical
<1>8. \A t \in Table : t \in RefersTo[t] /\ RefersTo[t] \subseteq Table
  BY DEF RefersTo, Table
<1>9. \A t \in Table : \/ rows'[t].value = Absent /\ rows'[t].at = 0
                       \/ rows'[t] = rows[t] /\ rows[t].at # m
  BY <1>1, <1>8 DEF Cascade
<1>10. RowsBorn'
  <2> SUFFICES ASSUME NEW t \in Table, rows'[t] = rows[t], rows[t].at # m
               PROVE  /\ rows[t].value = Absent => rows[t].at = 0
                      /\ rows[t].value # Absent =>
                           /\ rows[t].at \in DOMAIN indexed'
                           /\ IsCanonical(rows[t].at, indexed'[rows[t].at]) => Born(t, rows[t].at)
    BY <1>1, <1>9 DEF RowsBorn, Born, IsCanonical, Canonical
  <2> QED
    BY <1>2 DEF PInv, RowsBorn
<1>11. ASSUME NEW n \in DOMAIN chain, NEW t \in Table, Projected(n), chain[n].post[t] # Absent
       PROVE  rows'[t] = rows[t]
  <2>1. ASSUME NEW u \in RefersTo[t] PROVE rows[u].at # m
    <3>1. u \in Table /\ chain[n].post[u] # Absent
      BY <1>8, <1>11 DEF PInv, ChainBuilt, ParentsExist
    <3>2. rows[u].at <= n /\ rows[u].at \in Nat
      BY <1>11, <3>1, ColumnTypes DEF PInv, RowsComplete
    <3>3. n < m /\ n \in Nat
      <4>1. DOMAIN chain = 1..Len(chain) /\ Len(chain) \in Nat
        BY Domains DEF PInv
      <4> QED
        BY <1>3, <1>11, <4>1
    <3>4. m \in Nat
      BY <1>3, Domains DEF PInv, ViewBlock
    <3> HIDE DEF m
    <3> QED
      BY <3>2, <3>3, <3>4
  <2> QED
    BY <1>1, <2>1 DEF Cascade
<1>12. RowsComplete'
  BY <1>1, <1>7, <1>11 DEF PInv, RowsComplete
<1>13. ValuesKept'
  BY <1>1, <1>3 DEF PInv, ValuesKept, AllInChain
<1> QED
  BY <1>5, <1>6, <1>10, <1>12, <1>13 DEF PInv

(* Where a persisted block stands. *)
LEMMA PersistedCases ==
  ASSUME IInv, NEW a \in DOMAIN indexed
  PROVE  /\ a \in Nat /\ a >= 1 /\ a <= Len(indexed)
         /\ \/ a < from
            \/ a = from + Len(local)
            \/ \E i \in DOMAIN local : local[i].number = a
<1>1. /\ from \in Nat /\ Len(local) \in Nat /\ Len(indexed) \in Nat /\ Len(indexed) <= from + Len(local)
  BY Domains
<1>2. DOMAIN indexed = 1..Len(indexed) /\ DOMAIN local = 1..Len(local)
  BY Domains
<1>3. PICK b \in Nat : b = a /\ b >= 1 /\ b <= Len(indexed)
  BY <1>1, <1>2
<1>4. ASSUME ~(b < from), b # from + Len(local) PROVE \E i \in DOMAIN local : local[i].number = a
  <2>1. PICK i \in Nat : i = b - from + 1 /\ i >= 1 /\ i <= Len(local) /\ b = from + i - 1
    <3>1. b - from + 1 \in Nat /\ b - from + 1 >= 1 /\ b - from + 1 <= Len(local)
          /\ b = from + (b - from + 1) - 1
      BY <1>1, <1>3, <1>4
    <3> QED
      BY <3>1
  <2>2. i \in DOMAIN local
    BY <1>1, <1>2, <2>1
  <2>3. local[i].number = from + i - 1
    BY <2>2, Domains
  <2> QED
    BY <1>3, <2>1, <2>2, <2>3
<1> QED
  BY <1>3, <1>4

LEMMA PersistedCanonical ==
  ASSUME IInv, AllInChain, NEW a \in DOMAIN indexed
  PROVE  IsCanonical(a, indexed[a])
<1>1. CASE a < from \/ a = from + Len(local)
  BY <1>1 DEF IInv, IndexedMatches
<1>2. CASE \E i \in DOMAIN local : local[i].number = a
  BY <1>2 DEF IInv, IndexedMatches, AllInChain, InChain
<1> QED
  BY <1>1, <1>2, PersistedCases

(* A new block: its events do to each table what BlockBuilt says. *)
LEMMA MineBuilds ==
  ASSUME PInv, NEW e \in Event \cup {Absent}, NEW f \in Event \cup {Absent}, Mine(e, f)
  PROVE  /\ \A n \in DOMAIN chain : n \in DOMAIN chain' /\ chain'[n] = chain[n]
         /\ \A n \in DOMAIN chain' : n \in DOMAIN chain \/ (n = Len(chain) + 1 /\ chain'[n].hash = mined + 1)
         /\ ChainBuilt'
<1>1. Len(chain) \in Nat /\ DOMAIN chain = 1..Len(chain) /\ Len(chain) > 0 /\ chain \in Seq(Block)
  BY Domains DEF PInv, IInv, TypeOK
<1>2. Len(chain) \in DOMAIN chain /\ 1 \in DOMAIN chain
  BY <1>1
<1>3. PICK s \in State : s = Tip.post /\ s = chain[Len(chain)].post
  BY <1>2, ColumnTypes DEF Tip
<1>4. ParentsExist(s)
  BY <1>2, <1>3 DEF PInv, ChainBuilt
<1>5. PICK q : q = After(f, After(e, s))
  OBVIOUS
<1>6. ParentsExist(q) /\ \A t \in Table : BlockBuilt(Logged(e, f), t, s[t], q[t])
  BY <1>3, <1>4, <1>5, MinedBlock DEF Mine
<1>7. PICK b : b = [hash |-> mined + 1, parent |-> Tip.hash, logs |-> Logged(e, f), post |-> q]
  OBVIOUS
<1>8. chain' = Append(chain, b) /\ b.hash = mined + 1 /\ b.logs = Logged(e, f) /\ b.post = q
  BY <1>3, <1>5, <1>7 DEF Mine
<1>9. /\ \A n \in DOMAIN chain : n \in DOMAIN chain' /\ chain'[n] = chain[n]
      /\ \A n \in DOMAIN chain' : n \in DOMAIN chain \/ n = Len(chain) + 1
      /\ chain'[Len(chain) + 1] = b
  <2>1. chain' = Append(chain, b)
    BY <1>8
  <2> QED
    BY <1>1, <2>1
<1>10. \A t \in Table : s[t] # Absent => q[t] # Absent
  <2> SUFFICES ASSUME NEW t \in Table, s[t] # Absent PROVE q[t] # Absent
    OBVIOUS
  <2>1. Logged(e, f) \in Seq(Event)
    BY DEF Logged, Mine
  <2>2. Len(Logged(e, f)) <= 2 /\ q[t] = Replay(Logged(e, f), t, s[t])
    BY <1>6 DEF BlockBuilt
  <2>3. s[t] \in Value(t)
    BY <1>3, StateColumn
  <2> QED
    BY <2>1, <2>2, <2>3, ReplayType
<1>11. ChainBuilt'
  <2>1. chain'[1].logs = <<>> /\ \A t \in Table : chain'[1].post[t] = Absent
    BY <1>2, <1>9 DEF PInv, ChainBuilt
  <2>2. \A n \in DOMAIN chain' : ParentsExist(chain'[n].post)
    BY <1>6, <1>8, <1>9 DEF PInv, ChainBuilt
  <2>3. ASSUME NEW n \in DOMAIN chain', NEW t \in Table, n > 1
        PROVE  BlockBuilt(chain'[n].logs, t, chain'[n-1].post[t], chain'[n].post[t])
    <3>1. CASE n \in DOMAIN chain
      <4>1. n - 1 \in DOMAIN chain
        BY <1>1, <2>3, <3>1
      <4> QED
        BY <1>9, <2>3, <3>1, <4>1 DEF PInv, ChainBuilt
    <3>2. CASE n = Len(chain) + 1
      <4>1. n - 1 = Len(chain)
        BY <1>1, <3>2
      <4>2. chain'[n] = b /\ chain'[n-1] = chain[Len(chain)]
        BY <1>2, <1>9, <3>2, <4>1
      <4> QED
        BY <1>3, <1>6, <1>8, <4>2
    <3> QED
      BY <1>9, <3>1, <3>2
  <2>4. ASSUME NEW m \in DOMAIN chain', NEW n \in DOMAIN chain', NEW t \in Table, m <= n,
               chain'[m].post[t] # Absent
        PROVE  chain'[n].post[t] # Absent
    <3>1. CASE m \in DOMAIN chain /\ n \in DOMAIN chain
      BY <1>9, <2>4, <3>1 DEF PInv, ChainBuilt
    <3>2. CASE m \in DOMAIN chain /\ n = Len(chain) + 1
      <4>1. m <= Len(chain)
        BY <1>1, <3>2
      <4>2. s[t] # Absent
        BY <1>2, <1>3, <1>9, <2>4, <3>2, <4>1 DEF PInv, ChainBuilt
      <4> QED
        BY <1>8, <1>9, <1>10, <3>2, <4>2
    <3>3. CASE m = Len(chain) + 1 /\ n = Len(chain) + 1
      BY <2>4, <3>3
    <3>4. CASE m = Len(chain) + 1 /\ n \in DOMAIN chain
      BY <1>1, <2>4, <3>4
    <3> QED
      BY <1>9, <3>1, <3>2, <3>3, <3>4
  <2> QED
    BY <2>1, <2>2, <2>3, <2>4 DEF ChainBuilt
<1> QED
  BY <1>8, <1>9, <1>11

LEMMA MineKeeps ==
  ASSUME PInv, IInv', NEW e \in Event \cup {Absent}, NEW f \in Event \cup {Absent}, Mine(e, f)
  PROVE  PInv'
<1>1. UNCHANGED <<reorgs, local, from, sync, indexed, rows>>
  BY DEF Mine, dbVars
<1>2. /\ \A n \in DOMAIN chain : n \in DOMAIN chain' /\ chain'[n] = chain[n]
      /\ \A n \in DOMAIN chain' : n \in DOMAIN chain \/ (n = Len(chain) + 1 /\ chain'[n].hash = mined + 1)
      /\ ChainBuilt'
  BY MineBuilds
<1>3. Len(chain) \in Nat /\ DOMAIN chain = 1..Len(chain) /\ mined \in Nat
  BY Domains DEF PInv
<1>4. \A i \in DOMAIN local : local[i].hash # mined + 1
  <2>1. \A i \in DOMAIN local : local[i].hash \in Nat /\ local[i].hash <= mined
    BY Domains DEF PInv, IInv, ViewLinked, ViewBlock
  <2> QED
    BY <1>3, <2>1
<1>5. \A i \in DOMAIN local : InChain(i)' <=> InChain(i)
  BY <1>1, <1>2, <1>4 DEF InChain, IsCanonical, Canonical
<1>6. \A n \in DOMAIN chain' : Projected(n)' => n \in DOMAIN chain /\ Projected(n)
  <2> SUFFICES ASSUME NEW n \in DOMAIN chain', Projected(n)' PROVE n \in DOMAIN chain /\ Projected(n)
    OBVIOUS
  <2>1. CASE n < from
    <3>1. from <= Len(chain) + 1 /\ from \in Nat
      BY <1>3 DEF PInv, IInv, IndexedMatches
    <3>2. n # Len(chain) + 1
      BY <1>3, <2>1, <3>1
    <3> QED
      BY <1>2, <2>1, <3>2 DEF Projected
  <2>2. CASE \E i \in DOMAIN local : local[i].number = n /\ InChain(i)'
    BY <1>5, <2>2 DEF Projected, InChain, IsCanonical
  <2> QED
    BY <1>1, <2>1, <2>2 DEF Projected
<1>7. ASSUME NEW a \in DOMAIN indexed, IsCanonical(a, indexed[a])' PROVE IsCanonical(a, indexed[a])
  <2>1. CASE a < from \/ a = from + Len(local)
    BY <2>1 DEF PInv, IInv, IndexedMatches
  <2>2. CASE \E i \in DOMAIN local : local[i].number = a
    <3>1. PICK i \in DOMAIN local : local[i].number = a
      BY <2>2
    <3>2. indexed[a] = local[i].hash
      BY <3>1 DEF PInv, IInv, IndexedMatches
    <3>3. InChain(i)'
      BY <1>1, <1>7, <3>1, <3>2 DEF InChain, IsCanonical, Canonical
    <3> QED
      BY <1>5, <3>1, <3>2, <3>3 DEF InChain
  <2> QED
    BY <2>1, <2>2, PersistedCases DEF PInv
<1>8. RowsBorn'
  <2> SUFFICES ASSUME NEW t \in Table, rows[t].value # Absent,
                      rows[t].at \in DOMAIN indexed, IsCanonical(rows[t].at, indexed[rows[t].at])'
               PROVE  Born(t, rows[t].at)'
    BY <1>1 DEF PInv, RowsBorn
  <2>1. PICK a \in DOMAIN indexed : a = rows[t].at /\ IsCanonical(a, indexed[a])
    <3>1. PICK a \in DOMAIN indexed : a = rows[t].at
      OBVIOUS
    <3>2. IsCanonical(a, indexed[a])'
      BY <1>1, <3>1 DEF IsCanonical, Canonical
    <3> QED
      BY <1>7, <3>1, <3>2
  <2>2. Born(t, a) /\ a \in DOMAIN chain
    BY <2>1 DEF PInv, RowsBorn, IsCanonical
  <2>3. a - 1 \in DOMAIN chain
    BY <1>3, <2>2 DEF Born
  <2> QED
    BY <1>1, <1>2, <2>1, <2>2, <2>3 DEF Born
<1>9. RowsComplete'
  BY <1>1, <1>2, <1>6 DEF PInv, RowsComplete
<1>10. LogsLeft'
  <2> SUFFICES ASSUME sync.pc = "event" PROVE LogsLeft'
    BY <1>1 DEF LogsLeft
  <2>1. sync.next \in DOMAIN chain
    BY InProgress
  <2> QED
    BY <1>1, <1>2, <2>1 DEF PInv, LogsLeft
<1>11. ValuesKept'
  <2> SUFFICES ASSUME reorgs = 0 PROVE ValuesKept'
    BY <1>1 DEF ValuesKept
  <2>1. AllInChain /\ AllInChain'
    BY <1>1, <1>5 DEF PInv, ValuesKept, AllInChain
  <2>2. Len(indexed) # 0 => chain'[Len(indexed)] = chain[Len(indexed)]
    <3> SUFFICES ASSUME Len(indexed) # 0 PROVE Len(indexed) \in DOMAIN chain
      BY <1>2
    <3>1. Len(indexed) \in DOMAIN indexed
      BY Domains DEF PInv
    <3> QED
      BY <2>1, <3>1, PersistedCanonical DEF PInv, IsCanonical
  <2>3. Len(indexed) = from + Len(local) => Len(indexed) # 0
    <3>1. from \in Nat /\ from >= 1 /\ Len(local) \in Nat
      BY Domains DEF PInv
    <3> QED
      BY <3>1
  <2> QED
    BY <1>1, <2>1, <2>2, <2>3 DEF PInv, ValuesKept
<1>12. SnapshotTaken'
  BY <1>1 DEF PInv, SnapshotTaken, Fresh
<1> QED
  BY <1>2, <1>8, <1>9, <1>10, <1>11, <1>12 DEF PInv

LEMMA ReorgKeeps ==
  ASSUME PInv, IInv', ReorgsAlone, NEW k \in 1..Len(chain), Reorg(k)
  PROVE  PInv'
<1>1. /\ UNCHANGED <<local, from, indexed, rows>> /\ Settled /\ reorgs' = reorgs + 1 /\ reorgs \in Nat
      /\ sync' = [sync EXCEPT !.fresh = FALSE] /\ sync \in SyncState /\ chain \in Seq(Block)
  BY DEF Reorg, PInv, IInv, TypeOK, dbVars
<1>2. Len(chain) \in Nat /\ DOMAIN chain = 1..Len(chain)
  BY Domains DEF PInv
<1>3. PICK h \in Nat : h >= 1 /\ h <= Len(chain) /\ chain' = SubSeq(chain, 1, h)
  <2>1. k \in Nat /\ k <= Len(chain) /\ k > 1 /\ chain' = SubSeq(chain, 1, k - 1)
    BY <1>2 DEF Reorg
  <2>2. k - 1 \in Nat /\ k - 1 >= 1 /\ k - 1 <= Len(chain)
    BY <1>2, <2>1
  <2> QED
    BY <2>1, <2>2
<1>4. /\ DOMAIN chain' = 1..h
      /\ \A n \in DOMAIN chain' : n \in DOMAIN chain /\ chain'[n] = chain[n]
  BY <1>1, <1>2, <1>3
<1>5. 1 \in DOMAIN chain' /\ \A n \in DOMAIN chain' : n > 1 => n - 1 \in DOMAIN chain'
  BY <1>3, <1>4
<1>6. sync'.pc = "idle" /\ ~sync'.fresh
  BY <1>1 DEF Settled, SyncState
<1>7. SnapshotTaken' /\ LogsLeft'
  BY <1>6 DEF SnapshotTaken, LogsLeft, Fresh
<1>8. ChainBuilt'
  <2>1. chain'[1].logs = <<>> /\ \A t \in Table : chain'[1].post[t] = Absent
    BY <1>4, <1>5 DEF PInv, ChainBuilt
  <2>2. \A n \in DOMAIN chain' : ParentsExist(chain'[n].post)
    BY <1>4 DEF PInv, ChainBuilt
  <2>3. \A n \in DOMAIN chain', t \in Table :
          n > 1 => BlockBuilt(chain'[n].logs, t, chain'[n-1].post[t], chain'[n].post[t])
    BY <1>4, <1>5 DEF PInv, ChainBuilt
  <2>4. \A m, n \in DOMAIN chain', t \in Table :
          m <= n /\ chain'[m].post[t] # Absent => chain'[n].post[t] # Absent
    BY <1>4 DEF PInv, ChainBuilt
  <2> QED
    BY <2>1, <2>2, <2>3, <2>4 DEF ChainBuilt
<1>9. \A n : Projected(n)' => Projected(n)
  BY <1>1, <1>4 DEF Projected, InChain, IsCanonical, Canonical
<1>10. RowsComplete'
  BY <1>1, <1>4, <1>9 DEF PInv, RowsComplete
<1>11. RowsBorn'
  <2> SUFFICES ASSUME NEW t \in Table, rows[t].value # Absent,
                      rows[t].at \in DOMAIN indexed, IsCanonical(rows[t].at, indexed[rows[t].at])'
               PROVE  Born(t, rows[t].at)'
    BY <1>1 DEF PInv, RowsBorn
  <2>1. PICK a \in DOMAIN chain' : a = rows[t].at /\ IsCanonical(a, indexed[a])
    BY <1>1, <1>4 DEF IsCanonical, Canonical
  <2>2. Born(t, a)
    BY <2>1 DEF PInv, RowsBorn
  <2>3. a - 1 \in DOMAIN chain'
    BY <1>5, <2>1, <2>2 DEF Born
  <2> QED
    BY <1>1, <1>4, <2>1, <2>2, <2>3 DEF Born
<1>12. ValuesKept'
  <2>1. reorgs' # 0
    BY <1>1
  <2> QED
    BY <2>1 DEF ValuesKept
<1> QED
  BY <1>7, <1>8, <1>10, <1>11, <1>12 DEF PInv

(* After a crash the last persisted block is applied again: blocks before it stay projected. *)
LEMMA CrashKeeps ==
  ASSUME PInv, IInv', ReorgsAlone, Crash
  PROVE  PInv'
<1>1. /\ UNCHANGED <<chain, reorgs, indexed, rows>> /\ NothingAbandoned
      /\ local' = <<>> /\ from' = latestIndexedBlock /\ sync' = Idle
  BY DEF Crash, chainVars, dbVars
<1>2. Len(local') = 0 /\ DOMAIN local' = {} /\ sync'.pc = "idle" /\ ~sync'.fresh
  BY <1>1 DEF Idle
<1>3. \/ Len(indexed) = 0 /\ from' = 1
      \/ Len(indexed) # 0 /\ from' = Len(indexed)
  BY <1>1, ResumePoint DEF PInv
<1>4. Len(indexed) \in Nat /\ from \in Nat /\ Len(local) \in Nat /\ Len(indexed) <= from + Len(local)
  BY Domains DEF PInv
<1>5. DOMAIN chain = 1..Len(chain) /\ Len(chain) \in Nat /\ DOMAIN indexed = 1..Len(indexed)
  BY Domains DEF PInv
<1>6. SnapshotTaken' /\ LogsLeft'
  BY <1>2 DEF SnapshotTaken, LogsLeft, Fresh
<1>7. ChainBuilt'
  BY <1>1 DEF PInv, ChainBuilt
<1>8. RowsBorn'
  BY <1>1 DEF PInv, RowsBorn, Born, IsCanonical, Canonical
<1>9. ASSUME NEW n \in DOMAIN chain, Projected(n)' PROVE Projected(n)
  <2>1. n \in Nat /\ n >= 1 /\ n < from'
    <3>1. n < from'
      BY <1>2, <1>9 DEF Projected
    <3> QED
      BY <1>5, <3>1
  <2>2. n < Len(indexed)
    BY <1>3, <2>1
  <2>3. n \in DOMAIN indexed /\ n # from + Len(local)
    <3>1. n # from + Len(local)
      BY <1>4, <2>1, <2>2
    <3>2. n <= Len(indexed)
      BY <1>4, <2>1, <2>2
    <3> QED
      BY <1>4, <1>5, <2>1, <3>1, <3>2
  <2>4. CASE n < from
    BY <2>4 DEF Projected
  <2>5. CASE \E i \in DOMAIN local : local[i].number = n
    <3>1. PICK i \in DOMAIN local : local[i].number = n
      BY <2>5
    <3>2. local[i].hash = indexed[n]
      BY <2>3, <3>1 DEF PInv, IInv, IndexedMatches
    <3>3. indexed[n] = chain[n].hash
      BY <1>1, <2>3 DEF NothingAbandoned
    <3> QED
      BY <1>9, <3>1, <3>2, <3>3 DEF Projected, InChain, IsCanonical, Canonical
  <2> QED
    BY <2>3, <2>4, <2>5, PersistedCases DEF PInv
<1>10. RowsComplete'
  BY <1>1, <1>9 DEF PInv, RowsComplete
<1>11. ValuesKept'
  <2> SUFFICES ASSUME reorgs = 0, NEW t \in Table
               PROVE  /\ Len(indexed) = 0 => rows[t].value = Absent
                      /\ Len(indexed) # 0 => Replay(chain[Len(indexed)].logs, t, rows[t].value)
                                               = chain[Len(indexed)].post[t]
    <3>1. AllInChain'
      BY <1>2 DEF AllInChain
    <3>2. from' + Len(local') = from'
      BY <1>2, <1>3, <1>4
    <3>3. Len(indexed) # 0 => ~(Len(indexed) < from')
      BY <1>3, <1>4
    <3>4. Len(indexed) = from' => Len(indexed) # 0
      BY <1>3
    <3> QED
      BY <1>1, <1>2, <3>1, <3>2, <3>3, <3>4 DEF ValuesKept
  <2>1. \/ Len(indexed) < from + Len(local)
        \/ Len(indexed) = from + Len(local)
    BY <1>4
  <2>2. CASE Len(indexed) = 0
    <3>1. from >= 1
      BY Domains DEF PInv
    <3>2. Len(indexed) < from + Len(local)
      BY <1>4, <2>2, <3>1
    <3> QED
      BY <2>2, <3>2 DEF PInv, ValuesKept
  <2>3. CASE Len(indexed) # 0 /\ Len(indexed) = from + Len(local)
    BY <2>3 DEF PInv, ValuesKept
  <2>4. CASE Len(indexed) # 0 /\ Len(indexed) < from + Len(local)
    <3>1. PICK n \in Nat : n = Len(indexed) /\ n >= 1
      BY <1>4, <2>4
    <3>2. rows[t].value = chain[n].post[t]
      BY <2>4, <3>1 DEF PInv, ValuesKept
    <3>3. n \in DOMAIN chain
      <4>1. n \in DOMAIN indexed
        BY <1>5, <3>1
      <4>2. n <= Len(chain)
        BY <1>1, <4>1 DEF NothingAbandoned
      <4> QED
        BY <1>5, <3>1, <4>2
    <3>4. CASE n = 1
      <4>1. chain[1].logs = <<>>
        BY DEF PInv, ChainBuilt
      <4>2. Replay(<<>>, t, rows[t].value) = rows[t].value
        BY DEF Replay
      <4> QED
        BY <2>4, <3>1, <3>2, <3>4, <4>1, <4>2
    <3>5. CASE n # 1
      <4>1. n > 1 /\ n - 1 \in DOMAIN chain
        BY <1>5, <3>1, <3>3, <3>5
      <4>2. BlockBuilt(chain[n].logs, t, chain[n-1].post[t], chain[n].post[t])
        BY <3>3, <4>1 DEF PInv, ChainBuilt
      <4>3. Replay(chain[n].logs, t, chain[n].post[t]) = chain[n].post[t]
        BY <3>3, <4>1, <4>2, ColumnTypes, ReplayAgain
      <4> QED
        BY <2>4, <3>1, <3>2, <4>3
    <3> QED
      BY <3>4, <3>5
  <2> QED
    BY <2>1, <2>2, <2>3, <2>4
<1> QED
  BY <1>6, <1>7, <1>8, <1>10, <1>11 DEF PInv

LEMMA ProjectionStepKeeps ==
  ASSUME PInv, ReorgsAlone, [Next]_vars
  PROVE  PInv'
<1>0. IInv'
  BY IndexerStepKeeps DEF PInv
<1>1. CASE IndexerStep
  BY <1>0, <1>1, StartSyncKeeps, FindKeeps, RevertKeeps, FetchHeaderKeeps, InsertBlockKeeps,
     FetchLogsKeeps, ApplyNextLogKeeps, PushBlockKeeps DEF IndexerStep
<1>2. CASE MineSome
  BY <1>0, <1>2, MineKeeps DEF MineSome
<1>3. CASE Finalize
  BY <1>0, <1>3, FinalizeKeeps
<1>4. CASE \E k \in 1..Len(chain) : Reorg(k)
  BY <1>0, <1>4, ReorgKeeps
<1>5. CASE Fail
  <2>1. UNCHANGED <<chainVars, local, from, dbVars>> /\ sync' = Idle
    BY <1>5 DEF Fail, Abandon
  <2> QED
    BY <1>0, <2>1, AbandonKeeps
<1>6. CASE Crash
  BY <1>0, <1>6, CrashKeeps
<1>7. CASE UNCHANGED vars
  <2>1. UNCHANGED <<chain, reorgs, from, indexed, rows, local, sync>>
    BY <1>7 DEF vars, chainVars, dbVars
  <2>2. SnapshotTaken'
    BY <2>1 DEF PInv, SnapshotTaken, Fresh
  <2> QED
    BY <1>0, <2>1, <2>2, QuietStep
<1> QED
  BY <1>1, <1>2, <1>3, <1>4, <1>5, <1>6, <1>7 DEF Next

(* PostgresProjectionStore.apply and revert: when a sync completes, the projection has a row *)
(* exactly for what exists on chain at the snapshot's head, created at the block that created *)
(* it, and without a reorg every column is the contracts', whatever crash or failed call cut  *)
(* an earlier sync short between two statements.                                              *)
THEOREM ProjectionSafe == ReorgsAlone => (Spec => []ProjectionComplete)
<1> SUFFICES ASSUME ReorgsAlone PROVE Spec => []ProjectionComplete
  OBVIOUS
<1>1. PInv /\ [Next]_vars => PInv'
  BY ProjectionStepKeeps
<1>2. PInv => ProjectionComplete
  <2> SUFFICES ASSUME PInv, Fresh, NEW t \in Table
               PROVE  /\ rows[t].value = Absent <=> chain[sync.included].post[t] = Absent
                      /\ rows[t].value # Absent =>
                           /\ chain[rows[t].at].post[t] # Absent
                           /\ chain[rows[t].at - 1].post[t] = Absent
                      /\ reorgs = 0 => rows[t].value = chain[sync.included].post[t]
    BY DEF ProjectionComplete
  <2>1. /\ sync.included >= 1 /\ from + Len(local) = sync.included + 1 /\ AllInChain
        /\ Len(indexed) = sync.included /\ sync.included <= Len(chain)
    BY DEF PInv, SnapshotTaken, IInv, FreshHolds, Fresh
  <2>2. /\ from \in Nat /\ Len(local) \in Nat /\ Len(chain) \in Nat /\ sync.included \in Nat
    BY Domains DEF PInv, IInv, TypeOK, SyncState
  <2>3. PICK n \in Nat : n = sync.included /\ n >= 1 /\ n <= Len(chain) /\ n = from + Len(local) - 1
    BY <2>1, <2>2
  <2>4. n \in DOMAIN chain
    BY <2>2, <2>3, Domains DEF PInv
  <2>5. Projected(n)
    BY <2>1, <2>3, LastProjected
  <2>6. ASSUME rows[t].value # Absent
        PROVE  chain[n].post[t] # Absent /\ Born(t, rows[t].at)
    <3>1. rows[t].at \in DOMAIN indexed
      BY <2>6 DEF PInv, RowsBorn
    <3>2. IsCanonical(rows[t].at, indexed[rows[t].at])
      BY <2>1, <3>1, PersistedCanonical DEF PInv
    <3>3. Born(t, rows[t].at) /\ rows[t].at \in DOMAIN chain
      BY <2>6, <3>2 DEF PInv, RowsBorn, IsCanonical
    <3>4. rows[t].at <= n
      BY <2>1, <2>3, <3>1, PersistedCases DEF PInv
    <3> QED
      BY <2>4, <3>3, <3>4 DEF PInv, ChainBuilt, Born
  <2>7. chain[n].post[t] # Absent => rows[t].value # Absent
    BY <2>4, <2>5 DEF PInv, RowsComplete
  <2>8. reorgs = 0 => rows[t].value = chain[n].post[t]
    <3>1. Len(indexed) = n /\ n # 0 /\ n < from + Len(local)
      BY <2>1, <2>2, <2>3
    <3> QED
      BY <3>1 DEF PInv, ValuesKept
  <2> QED
    BY <2>3, <2>6, <2>7, <2>8 DEF Born
<1> QED
  BY <1>1, <1>2, ProjectionInit, PTL DEF Spec

=============================================================================
