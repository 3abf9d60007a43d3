------------------------- MODULE CollectorWorkerProofs -------------------------
(***************************************************************************)
(* The collector worker, for any accounts, listings, number of facts and   *)
(* of steps.  First CredentialKeys: rotating the master key never locks an *)
(* account out.  Then CollectorWorker: what its syncs, in any interleaving *)
(* and cut short anywhere, leave stored -- its inductive invariant, that a *)
(* finished sync is current, that Kraken's rows have no gap, and that the  *)
(* rows implement a FactStore.                                             *)
(***************************************************************************)
EXTENDS CollectorWorker, CredentialKeys, FiniteSetTheorems, WellFoundedInduction, TLAPS

(* A stored row is a row, with an id and a ciphertext per field. *)
LEMMA StoredFields ==
  ASSUME NEW row \in StoredRow
  PROVE  /\ row # NoRow /\ row.id \in Nat \ {0}
         /\ row.fields \in [Fields -> Ciphertext]
BY DEF StoredRow, NoRow

(* The components of a ciphertext. *)
LEMMA CiphertextFields ==
  ASSUME NEW c \in Ciphertext
  PROVE  c.key \in 1..MaxKeys /\ c.secret \in Secrets /\ c.format \in {1, 2}
BY DEF Ciphertext

(* The keys of a ring are keys. *)
LEMMA RingFields ==
  ASSUME NEW ring \in KeyRing
  PROVE  ring.current \in 1..MaxKeys /\ ring.previous \in SUBSET (1..MaxKeys)
BY DEF KeyRing

(* encrypt seals under the ring's current key, in the current format. *)
LEMMA EncryptSeals ==
  ASSUME NEW ring \in KeyRing, NEW s \in Secrets, NEW a \in Accounts, NEW f \in Fields
  PROVE  LET c == Encrypt(ring, s, CredentialContext(a, f)) IN
         /\ c \in Ciphertext /\ Bound(a, f, c)
         /\ c.key = ring.current /\ c.secret = s
<1>1. ring.current \in 1..MaxKeys /\ Label[ring.current] \in Nat
  BY RingFields, KeysAssumption
<1>2. <<a, f>> \in Accounts \X Fields
  OBVIOUS
<1> QED
  BY <1>1, <1>2 DEF Encrypt, Seal, Ciphertext, Bound, CredentialContext

(* decrypt gives what was sealed or nothing, and does give it under any key of the ring. *)
LEMMA DecryptOpens ==
  ASSUME NEW ring, NEW c \in Ciphertext, NEW a \in Accounts, NEW f \in Fields
  PROVE  LET d == Decrypt(ring, c, CredentialContext(a, f)) IN
         /\ d # Unreadable => d = c.secret
         /\ Bound(a, f, c) /\ c.key \in All(ring) => d = c.secret /\ d # Unreadable
<1>1. c.secret \in Secrets /\ c.secret # Unreadable
  BY CiphertextFields, KeysAssumption
<1> QED
  BY <1>1 DEF Decrypt, Bound, Opens

(* connect: the row it writes is whole and under the current key of its ring. *)
LEMMA RowWritten ==
  ASSUME NEW id \in Nat \ {0}, NEW ring \in KeyRing, NEW a \in Accounts, NEW s \in Secrets
  PROVE  LET row == Row(id, ring, a, s) IN
         /\ row \in StoredRow /\ Whole(a, row) /\ SealedUnder({ring.current}, row)
<1> DEFINE cs == [f \in Fields |-> Encrypt(ring, s, CredentialContext(a, f))]
<1>1. \A f \in Fields :
        /\ cs[f] \in Ciphertext /\ Bound(a, f, cs[f])
        /\ cs[f].key = ring.current /\ cs[f].secret = s
  BY EncryptSeals
<1>2. cs \in [Fields -> Ciphertext]
  BY <1>1
<1>3. Row(id, ring, a, s) = [id |-> id, fields |-> cs]
  BY DEF Row
<1> HIDE DEF cs
<1>4. Row(id, ring, a, s) \in StoredRow /\ Row(id, ring, a, s).fields = cs
  BY <1>2, <1>3 DEF StoredRow
<1> QED
  BY <1>1, <1>4 DEF Whole, SealedUnder

(* rekey: what it writes is whole, of the same secret, and under the current key of its ring. *)
LEMMA FreshWritten ==
  ASSUME NEW ring \in KeyRing, NEW a \in Accounts, NEW row \in StoredRow, Whole(a, row),
         Readable(ring, a, row)
  PROVE  LET fs == Fresh(ring, a, row) IN
         /\ fs \in [Fields -> Ciphertext]
         /\ \A f \in Fields : Bound(a, f, fs[f]) /\ fs[f].key = ring.current
         /\ \A f, g \in Fields : fs[f].secret = fs[g].secret
<1> DEFINE fs == Fresh(ring, a, row)
<1>1. ASSUME NEW f \in Fields
      PROVE  /\ fs[f] \in Ciphertext /\ Bound(a, f, fs[f])
             /\ fs[f].key = ring.current /\ fs[f].secret = row.fields[f].secret
  <2> DEFINE c == row.fields[f]
  <2> DEFINE x == CredentialContext(a, f)
  <2>1. c \in Ciphertext /\ Bound(a, f, c) /\ c.secret \in Secrets
    BY StoredFields, CiphertextFields DEF Whole
  <2>2. Decrypt(ring, c, x) = c.secret
    BY <2>1, DecryptOpens DEF Readable
  <2>3. fs[f] = IF IsCurrent(ring, c, x) THEN c ELSE Encrypt(ring, Decrypt(ring, c, x), x)
    BY DEF Fresh
  <2>4. CASE IsCurrent(ring, c, x)
    BY <2>1, <2>3, <2>4 DEF IsCurrent, Opens
  <2>5. CASE ~IsCurrent(ring, c, x)
    BY <2>1, <2>2, <2>3, <2>5, EncryptSeals
  <2> QED
    BY <2>4, <2>5
<1>2. fs \in [Fields -> Ciphertext]
  BY <1>1 DEF Fresh
<1> HIDE DEF fs
<1> QED
  BY <1>1, <1>2 DEF Whole, fs

(* A row that needs no update is under the current key already. *)
LEMMA CurrentAlready ==
  ASSUME NEW ring, NEW a, NEW row, ~NeedsUpdate(ring, a, row)
  PROVE  SealedUnder({ring.current}, row)
BY DEF NeedsUpdate, SealedUnder, IsCurrent, Opens

(* A whole row under keys of the ring is readable with it. *)
LEMMA KeptIsReadable ==
  ASSUME NEW ring, NEW a \in Accounts, NEW row \in StoredRow, Whole(a, row),
         SealedUnder(All(ring), row)
  PROVE  Readable(ring, a, row)
BY StoredFields, DecryptOpens DEF Readable, Whole, SealedUnder

(* What the states of the two processes look like. *)
LEMMA ProcessFields ==
  ASSUME KeysTypeOK
  PROVE  /\ env \in KeyRing /\ env.current \in 1..MaxKeys /\ env.previous \in SUBSET (1..MaxKeys)
         /\ \A a \in Accounts : table[a] # NoRow => table[a] \in StoredRow
         /\ connecting # NotRunning => /\ connecting.ring \in KeyRing
                                 /\ connecting.account \in Accounts
                                 /\ connecting.secret \in Secrets
         /\ rekeying # NotRunning => Rekeying(rekeying)
<1>1. env \in KeyRing /\ \A a \in Accounts : table[a] # NoRow => table[a] \in StoredRow
  BY DEF KeysTypeOK
<1> QED
  BY <1>1, RingFields DEF KeysTypeOK

-----------------------------------------------------------------------------
(* The credentials of the earlier format are whole, under the first key. *)
LEMMA KeysStart == ASSUME KeysInit PROVE KeysInv
<1>1. env = [current |-> 1, previous |-> {}] /\ env.current = 1 /\ env.previous = {}
      /\ connecting = NotRunning /\ rekeying = NotRunning /\ ~clean /\ clean \in BOOLEAN
      /\ connects = 1 /\ rekeys = 0
  BY DEF KeysInit
<1>2. 1 \in 1..MaxKeys /\ Label[1] \in Nat
  BY KeysAssumption
<1>3. ASSUME NEW t \in Secrets
      PROVE  /\ OldRow(1, 1, t) \in StoredRow
             /\ \A a \in Accounts : Whole(a, OldRow(1, 1, t))
             /\ SealedUnder({1}, OldRow(1, 1, t))
  <2> DEFINE c == Seal(1, t, NoContext, 1)
  <2> DEFINE cs == [f \in Fields |-> c]
  <2>1. /\ c \in Ciphertext /\ c.format = 1 /\ c.context = NoContext
        /\ c.key = 1 /\ c.secret = t
    BY <1>2 DEF Seal, Ciphertext
  <2> HIDE DEF c
  <2>2. cs \in [Fields -> Ciphertext]
    BY <2>1
  <2>3. OldRow(1, 1, t) = [id |-> 1, fields |-> cs]
    BY DEF OldRow, c
  <2>4. \A f \in Fields : cs[f] = c
    OBVIOUS
  <2> HIDE DEF cs
  <2>5. OldRow(1, 1, t) \in StoredRow /\ OldRow(1, 1, t).fields = cs
    BY <2>2, <2>3 DEF StoredRow
  <2> QED
    BY <2>1, <2>4, <2>5 DEF Whole, SealedUnder, Bound
<1>4. /\ table \in [Accounts -> {NoRow} \cup StoredRow]
      /\ \A a \in Accounts : table[a] # NoRow =>
           Whole(a, table[a]) /\ SealedUnder({1}, table[a])
  BY <1>3 DEF KeysInit
<1>5. KeysTypeOK
  BY <1>1, <1>2, <1>4 DEF KeysTypeOK, KeyRing
<1>6. RowsWhole /\ KeysKept
  BY <1>1, <1>4 DEF RowsWhole, KeysKept, All, SealedUnder
<1>7. RekeyProgress /\ CleanMeansCurrent
  BY <1>1 DEF RekeyProgress, CleanMeansCurrent
<1> QED
  BY <1>5, <1>6, <1>7 DEF KeysInv

(* A connect reads the ring the environment gives it now. *)
LEMMA StartConnectStep ==
  ASSUME KeysInv, NEW a \in Accounts, NEW s \in Secrets, StartConnect(a, s)
  PROVE  KeysInv'
<1> DEFINE c == [pc |-> "insert", ring |-> env, account |-> a, secret |-> s]
<1>0. KeysTypeOK /\ RowsWhole /\ KeysKept /\ RekeyProgress /\ CleanMeansCurrent
  BY DEF KeysInv
<1>1. /\ connecting' = c /\ connects' = connects + 1 /\ env' = env /\ table' = table
      /\ rekeying' = rekeying /\ clean' = clean /\ rekeys' = rekeys
  BY DEF StartConnect
<1>2. env \in KeyRing /\ env.current \in All(env)
  BY <1>0, ProcessFields DEF All
<1>3. c \in [pc : {"insert"}, ring : KeyRing, account : Accounts, secret : Secrets]
      /\ c.ring = env
  BY <1>2
<1> HIDE DEF c
<1>4. KeysTypeOK'
  <2>1. connects + 1 \in Nat \ {0}
    BY <1>0 DEF KeysTypeOK
  <2> QED
    BY <1>0, <1>1, <1>3, <2>1 DEF KeysTypeOK
<1>5. RowsWhole' /\ KeysKept'
  BY <1>0, <1>1, <1>2, <1>3 DEF RowsWhole, KeysKept, All
<1>6. RekeyProgress' /\ CleanMeansCurrent'
  BY <1>0, <1>1, <1>3 DEF RekeyProgress, CleanMeansCurrent
<1> QED
  BY <1>4, <1>5, <1>6 DEF KeysInv

(* insert_connection writes a whole row, under a key that is still kept. *)
LEMMA InsertStep == ASSUME KeysInv, InsertCredentials PROVE KeysInv'
<1> DEFINE a == connecting.account
<1> DEFINE id == IF table[a] = NoRow THEN connects ELSE table[a].id
<1> DEFINE row == Row(id, connecting.ring, a, connecting.secret)
<1>0. KeysTypeOK /\ RowsWhole /\ KeysKept /\ RekeyProgress /\ CleanMeansCurrent
  BY DEF KeysInv
<1>1. /\ connecting # NotRunning /\ table' = [table EXCEPT ![a] = row] /\ connecting' = NotRunning
      /\ env' = env /\ rekeying' = rekeying /\ clean' = clean /\ connects' = connects
      /\ rekeys' = rekeys
  BY DEF InsertCredentials
<1>2. a \in Accounts /\ connecting.ring \in KeyRing /\ connecting.secret \in Secrets
  BY <1>0, <1>1, ProcessFields
<1>3. id \in Nat \ {0}
  <2>1. connects \in Nat \ {0}
    BY <1>0 DEF KeysTypeOK
  <2>2. table[a] # NoRow => table[a].id \in Nat \ {0}
    BY <1>0, <1>2, ProcessFields, StoredFields
  <2> QED
    BY <2>1, <2>2
<1> HIDE DEF id
<1>4. row \in StoredRow /\ Whole(a, row) /\ SealedUnder({connecting.ring.current}, row)
  BY <1>2, <1>3, RowWritten
<1> HIDE DEF row, a
<1>5. /\ table' \in [Accounts -> {NoRow} \cup StoredRow]
      /\ \A b \in Accounts : table'[b] = IF b = a THEN row ELSE table[b]
  BY <1>0, <1>1, <1>2, <1>4 DEF KeysTypeOK
<1>6. KeysTypeOK'
  BY <1>0, <1>1, <1>5 DEF KeysTypeOK
<1>7. RowsWhole'
  BY <1>0, <1>1, <1>4, <1>5 DEF RowsWhole
<1>8. KeysKept'
  <2>1. SealedUnder(All(env), row)
    BY <1>0, <1>1, <1>4 DEF KeysKept, SealedUnder
  <2> QED
    BY <1>0, <1>1, <1>5, <2>1 DEF KeysKept
<1>9. connecting.ring.current = env.current => SealedUnder({env.current}, row)
  BY <1>4
<1>10. RekeyProgress' /\ CleanMeansCurrent'
  BY <1>0, <1>1, <1>5, <1>9 DEF RekeyProgress, CleanMeansCurrent
<1> QED
  BY <1>6, <1>7, <1>8, <1>10 DEF KeysInv

(* disconnect takes a row away. *)
LEMMA DisconnectStep ==
  ASSUME KeysInv, NEW a \in Accounts, Disconnect(a)
  PROVE  KeysInv'
<1>0. KeysTypeOK /\ RowsWhole /\ KeysKept /\ RekeyProgress /\ CleanMeansCurrent
  BY DEF KeysInv
<1>1. /\ table' = [table EXCEPT ![a] = NoRow] /\ connecting' = connecting
      /\ env' = env /\ rekeying' = rekeying /\ clean' = clean /\ connects' = connects
      /\ rekeys' = rekeys
  BY DEF Disconnect
<1>2. /\ table' \in [Accounts -> {NoRow} \cup StoredRow]
      /\ \A b \in Accounts : table'[b] = IF b = a THEN NoRow ELSE table[b]
  BY <1>0, <1>1 DEF KeysTypeOK
<1>3. KeysTypeOK'
  BY <1>0, <1>1, <1>2 DEF KeysTypeOK
<1>4. RowsWhole' /\ KeysKept'
  BY <1>0, <1>1, <1>2 DEF RowsWhole, KeysKept
<1>5. RekeyProgress' /\ CleanMeansCurrent'
  BY <1>0, <1>1, <1>2 DEF RekeyProgress, CleanMeansCurrent
<1> QED
  BY <1>3, <1>4, <1>5 DEF KeysInv

(* rekey starts from all the rows there are, and no connect under another ring is under way. *)
LEMMA StartRekeyStep == ASSUME KeysInv, StartRekey PROVE KeysInv'
<1> DEFINE S == {b \in Accounts : table[b] # NoRow}
<1> DEFINE todo == [a \in S |-> table[a]]
<1> DEFINE r == [pc |-> "rows", ring |-> env, unreadable |-> {}, todo |-> todo]
<1>0. KeysTypeOK /\ RowsWhole /\ KeysKept /\ RekeyProgress /\ CleanMeansCurrent
  BY DEF KeysInv
<1>1. /\ rekeying' = r /\ rekeys' = rekeys + 1 /\ env' = env /\ table' = table
      /\ connecting' = connecting /\ clean' = clean /\ connects' = connects
      /\ connecting # NotRunning => connecting.ring = env
  BY DEF StartRekey
<1>2. env \in KeyRing /\ env.current \in All(env)
  BY <1>0, ProcessFields DEF All
<1>3. /\ DOMAIN todo = S /\ S \subseteq Accounts /\ \A a \in S : todo[a] = table[a]
      /\ todo \in [DOMAIN todo -> StoredRow]
  BY <1>0, ProcessFields
<1> HIDE DEF todo
<1>4. r.ring = env /\ r.unreadable = {} /\ r.todo = todo /\ Rekeying(r)
  BY <1>2, <1>3 DEF Rekeying
<1> HIDE DEF r
<1>5. KeysTypeOK'
  <2>1. rekeys + 1 \in Nat
    BY <1>0 DEF KeysTypeOK
  <2> QED
    BY <1>0, <1>1, <1>4, <2>1 DEF KeysTypeOK
<1>6. RowsWhole' /\ KeysKept'
  BY <1>0, <1>1, <1>2, <1>3, <1>4 DEF RowsWhole, KeysKept
<1>7. RekeyProgress' /\ CleanMeansCurrent'
  BY <1>0, <1>1, <1>3, <1>4 DEF RekeyProgress, CleanMeansCurrent
<1> QED
  BY <1>5, <1>6, <1>7 DEF KeysInv

(* UPDATE ... WHERE id, whatever the row holds by now, leaves that row or a whole one under the ring. *)
LEMMA RekeyWrites ==
  ASSUME KeysTypeOK, RowsWhole, NEW a \in Accounts, RekeyRow(a)
  PROVE  LET row == rekeying.todo[a]
             ring == rekeying.ring IN
         /\ rekeying # NotRunning /\ a \in DOMAIN rekeying.todo
         /\ table' \in [Accounts -> {NoRow} \cup StoredRow]
         /\ \A b \in Accounts : b # a => table'[b] = table[b]
         /\ \/ table'[a] = table[a]
            \/ /\ table[a] # NoRow /\ table'[a] # NoRow /\ Whole(a, table'[a])
               /\ SealedUnder({ring.current}, table'[a])
         /\ table[a] = row /\ table[a] # NoRow /\ Readable(ring, a, row) =>
              SealedUnder({ring.current}, table'[a])
<1> DEFINE row == rekeying.todo[a]
<1> DEFINE ring == rekeying.ring
<1> DEFINE fs == Fresh(ring, a, row)
<1> DEFINE writes == /\ Readable(ring, a, row) /\ NeedsUpdate(ring, a, row)
                     /\ table[a] # NoRow /\ table[a].id = row.id
<1>1. /\ rekeying # NotRunning /\ a \in DOMAIN rekeying.todo
      /\ table' = IF writes THEN [table EXCEPT ![a].fields = fs] ELSE table
  BY DEF RekeyRow, UpdateById
<1>2. ring \in KeyRing /\ row \in StoredRow /\ Whole(a, row)
  BY <1>1 DEF KeysTypeOK, Rekeying, RowsWhole
<1>3. table \in [Accounts -> {NoRow} \cup StoredRow]
  BY DEF KeysTypeOK
<1>4. CASE writes
  <2> DEFINE new == [table[a] EXCEPT !.fields = fs]
  <2>1. /\ fs \in [Fields -> Ciphertext]
        /\ \A f \in Fields : Bound(a, f, fs[f]) /\ fs[f].key = ring.current
        /\ \A f, g \in Fields : fs[f].secret = fs[g].secret
    BY <1>2, <1>4, FreshWritten
  <2> HIDE DEF fs
  <2>2. table[a] \in StoredRow
    BY <1>3, <1>4
  <2>3. new \in StoredRow /\ new.fields = fs
    BY <2>1, <2>2 DEF StoredRow
  <2>4. table' = [table EXCEPT ![a] = new]
    BY <1>1, <1>4
  <2> HIDE DEF new
  <2>5. /\ table'[a] = new /\ table' \in [Accounts -> {NoRow} \cup StoredRow]
        /\ \A b \in Accounts : b # a => table'[b] = table[b]
    BY <1>3, <2>3, <2>4
  <2>6. new # NoRow /\ Whole(a, new) /\ SealedUnder({ring.current}, new)
    BY <2>1, <2>3, StoredFields DEF Whole, SealedUnder
  <2> QED
    BY <1>1, <1>4, <2>5, <2>6
<1>5. CASE ~writes
  <2>1. table' = table
    BY <1>1, <1>5
  <2>2. table[a] = row /\ table[a] # NoRow /\ Readable(ring, a, row) =>
          SealedUnder({ring.current}, table[a])
    BY <1>5, CurrentAlready
  <2> QED
    BY <1>1, <1>3, <2>1, <2>2
<1> QED
  BY <1>4, <1>5

(* The row done is out of the snapshot, and reported when it was unreadable. *)
LEMMA RekeyProceeds ==
  ASSUME KeysTypeOK, NEW a \in Accounts, RekeyRow(a)
  PROVE  /\ Rekeying(rekeying') /\ rekeying' # NotRunning /\ rekeying'.ring = rekeying.ring
         /\ DOMAIN rekeying'.todo = DOMAIN rekeying.todo \ {a}
         /\ \A b \in DOMAIN rekeying'.todo : rekeying'.todo[b] = rekeying.todo[b]
         /\ rekeying.unreadable \subseteq rekeying'.unreadable
         /\ ~Readable(rekeying.ring, a, rekeying.todo[a]) => a \in rekeying'.unreadable
<1> DEFINE left == Without(rekeying.todo, a)
<1> DEFINE lost == IF Readable(rekeying.ring, a, rekeying.todo[a]) THEN rekeying.unreadable
                   ELSE rekeying.unreadable \cup {a}
<1>1. rekeying' = [rekeying EXCEPT !.todo = left, !.unreadable = lost]
  BY DEF RekeyRow
<1>2. Rekeying(rekeying)
  BY DEF KeysTypeOK, RekeyRow
<1>3. /\ DOMAIN left = DOMAIN rekeying.todo \ {a}
      /\ \A b \in DOMAIN left : left[b] = rekeying.todo[b]
      /\ DOMAIN left \subseteq Accounts /\ left \in [DOMAIN left -> StoredRow]
  BY <1>2 DEF Rekeying, Without
<1>4. lost \in SUBSET Accounts /\ rekeying.unreadable \subseteq lost
  BY <1>2 DEF Rekeying
<1> HIDE DEF left
<1>5. ~Readable(rekeying.ring, a, rekeying.todo[a]) => a \in lost
  OBVIOUS
<1> HIDE DEF lost
<1>6. rekeying' = [pc |-> "rows", ring |-> rekeying.ring, unreadable |-> lost, todo |-> left]
  <2> DEFINE shape(u, t) ==
        [pc : {"rows"}, ring : {rekeying.ring}, unreadable : {u}, todo : {t}]
  <2>1. rekeying \in shape(rekeying.unreadable, rekeying.todo)
    BY <1>2 DEF Rekeying
  <2>2. rekeying' \in shape(lost, left)
    BY <1>1, <2>1
  <2> QED
    BY <2>2
<1>7. /\ rekeying'.pc = "rows" /\ rekeying'.ring = rekeying.ring
      /\ rekeying'.unreadable = lost /\ rekeying'.todo = left
  BY <1>6
<1>8. rekeying' # NotRunning
  BY <1>7 DEF NotRunning
<1>9. Rekeying(rekeying')
  BY <1>2, <1>3, <1>4, <1>6, <1>7 DEF Rekeying
<1> QED
  BY <1>3, <1>4, <1>5, <1>7, <1>8, <1>9

(* A step of rekey brings a row under the current key or reports it. *)
LEMMA RekeyRowStep ==
  ASSUME KeysInv, NEW a \in Accounts, RekeyRow(a)
  PROVE  KeysInv'
<1> DEFINE row == rekeying.todo[a]
<1> DEFINE ring == rekeying.ring
<1>0. KeysTypeOK /\ RowsWhole /\ KeysKept /\ RekeyProgress /\ CleanMeansCurrent
  BY DEF KeysInv
<1>1. /\ env' = env /\ connecting' = connecting /\ clean' = clean /\ connects' = connects
      /\ rekeys' = rekeys
  BY DEF RekeyRow
<1>2. /\ rekeying # NotRunning /\ a \in DOMAIN rekeying.todo
      /\ table' \in [Accounts -> {NoRow} \cup StoredRow]
      /\ \A b \in Accounts : b # a => table'[b] = table[b]
      /\ \/ table'[a] = table[a]
         \/ /\ table[a] # NoRow /\ table'[a] # NoRow /\ Whole(a, table'[a])
            /\ SealedUnder({ring.current}, table'[a])
      /\ table[a] = row /\ table[a] # NoRow /\ Readable(ring, a, row) =>
           SealedUnder({ring.current}, table'[a])
  BY <1>0, RekeyWrites
<1>3. /\ Rekeying(rekeying') /\ rekeying' # NotRunning /\ rekeying'.ring = ring
      /\ DOMAIN rekeying'.todo = DOMAIN rekeying.todo \ {a}
      /\ \A b \in DOMAIN rekeying'.todo : rekeying'.todo[b] = rekeying.todo[b]
      /\ rekeying.unreadable \subseteq rekeying'.unreadable
      /\ ~Readable(ring, a, row) => a \in rekeying'.unreadable
  BY <1>0, RekeyProceeds
<1>4. KeysTypeOK'
  BY <1>0, <1>1, <1>2, <1>3 DEF KeysTypeOK
<1>5. RowsWhole'
  BY <1>0, <1>2, <1>3 DEF RowsWhole
<1>6. KeysKept'
  <2>1. SealedUnder({ring.current}, table'[a]) => SealedUnder(All(env), table'[a])
    BY <1>0, <1>2 DEF KeysKept, SealedUnder
  <2> QED
    BY <1>0, <1>1, <1>2, <1>3, <2>1 DEF KeysKept
<1>7. RekeyProgress'
  <2> SUFFICES ASSUME ring.current = env.current
               PROVE  /\ connecting # NotRunning => connecting.ring.current = env.current
                      /\ \A b \in Accounts :
                           table'[b] # NoRow /\ ~SealedUnder({env.current}, table'[b]) =>
                             \/ b \in rekeying'.unreadable
                             \/ b \in DOMAIN rekeying'.todo /\ rekeying'.todo[b] = table'[b]
    BY <1>1, <1>3 DEF RekeyProgress
  <2>1. /\ connecting # NotRunning => connecting.ring.current = env.current
        /\ \A b \in Accounts : table[b] # NoRow /\ ~SealedUnder({env.current}, table[b]) =>
             \/ b \in rekeying.unreadable
             \/ b \in DOMAIN rekeying.todo /\ rekeying.todo[b] = table[b]
    BY <1>0, <1>2 DEF RekeyProgress
  <2>2. ASSUME NEW b \in Accounts, table'[b] # NoRow, ~SealedUnder({env.current}, table'[b])
        PROVE  \/ b \in rekeying'.unreadable
               \/ b \in DOMAIN rekeying'.todo /\ rekeying'.todo[b] = table'[b]
    <3>1. CASE b # a
      BY <1>2, <1>3, <2>1, <2>2, <3>1
    <3>2. CASE b = a
      <4>1. table'[a] = table[a]
        BY <1>2, <2>2, <3>2
      <4>2. a \in rekeying.unreadable \/ rekeying.todo[a] = table[a]
        BY <2>1, <2>2, <3>2, <4>1
      <4> QED
        BY <1>2, <1>3, <2>2, <3>2, <4>1, <4>2
    <3> QED
      BY <3>1, <3>2
  <2> QED
    BY <2>1, <2>2
<1>8. CleanMeansCurrent'
  BY <1>0, <1>1, <1>2, <1>3 DEF CleanMeansCurrent
<1> QED
  BY <1>4, <1>5, <1>6, <1>7, <1>8 DEF KeysInv

(* A clean report is true: nothing was left under another key. *)
LEMMA FinishRekeyStep == ASSUME KeysInv, FinishRekey PROVE KeysInv'
<1>0. KeysTypeOK /\ RowsWhole /\ KeysKept /\ RekeyProgress /\ CleanMeansCurrent
  BY DEF KeysInv
<1>1. /\ rekeying # NotRunning /\ DOMAIN rekeying.todo = {} /\ rekeying' = NotRunning
      /\ clean' = (rekeying.unreadable = {} /\ rekeying.ring = env)
      /\ env' = env /\ table' = table /\ connecting' = connecting
      /\ connects' = connects /\ rekeys' = rekeys
  BY DEF FinishRekey
<1>2. clean' \in BOOLEAN
  BY <1>1
<1>3. KeysTypeOK'
  BY <1>0, <1>1, <1>2 DEF KeysTypeOK
<1>4. RowsWhole' /\ KeysKept' /\ RekeyProgress'
  BY <1>0, <1>1 DEF RowsWhole, KeysKept, RekeyProgress
<1>5. CleanMeansCurrent'
  <2> SUFFICES ASSUME clean'
               PROVE  /\ \A a \in Accounts :
                           table[a] # NoRow => SealedUnder({env.current}, table[a])
                      /\ connecting # NotRunning => connecting.ring.current = env.current
    BY <1>1 DEF CleanMeansCurrent
  <2>1. rekeying.unreadable = {} /\ rekeying.ring.current = env.current
    BY <1>1
  <2> QED
    BY <1>0, <1>1, <2>1 DEF RekeyProgress
<1> QED
  BY <1>3, <1>4, <1>5 DEF KeysInv

(* A process that dies leaves what it has written. *)
LEMMA KeysCrashStep == ASSUME KeysInv, ProcessDies PROVE KeysInv'
<1>0. KeysTypeOK /\ RowsWhole /\ KeysKept /\ RekeyProgress /\ CleanMeansCurrent
  BY DEF KeysInv
<1>1. /\ env' = env /\ table' = table /\ clean' = clean /\ connects' = connects
      /\ rekeys' = rekeys
      /\ connecting' = connecting \/ connecting' = NotRunning
      /\ rekeying' = rekeying \/ rekeying' = NotRunning
  BY DEF ProcessDies
<1>2. KeysTypeOK'
  BY <1>0, <1>1 DEF KeysTypeOK
<1>3. RowsWhole' /\ KeysKept'
  BY <1>0, <1>1 DEF RowsWhole, KeysKept
<1>4. RekeyProgress' /\ CleanMeansCurrent'
  BY <1>0, <1>1 DEF RekeyProgress, CleanMeansCurrent
<1> QED
  BY <1>2, <1>3, <1>4 DEF KeysInv

(* A new key beside the old ones takes none away; a rekey under way is not under it. *)
LEMMA RotateStep == ASSUME KeysInv, Rotate PROVE KeysInv'
<1>0. KeysTypeOK /\ RowsWhole /\ KeysKept /\ RekeyProgress /\ CleanMeansCurrent
  BY DEF KeysInv
<1>1. /\ env' = [current |-> env.current + 1, previous |-> All(env)] /\ clean' = FALSE
      /\ table' = table /\ connecting' = connecting /\ rekeying' = rekeying
      /\ connects' = connects /\ rekeys' = rekeys /\ env.current < MaxKeys
  BY DEF Rotate
<1>2. /\ env'.current = env.current + 1 /\ env'.previous = All(env)
      /\ All(env) \subseteq All(env')
  BY <1>1 DEF All
<1>3. /\ env.current \in 1..MaxKeys /\ env.previous \in SUBSET (1..MaxKeys)
      /\ \A k \in env.previous : k < env.current
  BY <1>0, ProcessFields DEF KeysTypeOK
<1>4. \A k \in All(env) : k \in 1..MaxKeys /\ k < env.current + 1
  BY <1>3, KeysAssumption DEF All
<1>5. KeysTypeOK'
  <2>1. env.current + 1 \in 1..MaxKeys
    BY <1>1, <1>3, KeysAssumption
  <2>2. env' \in KeyRing
    BY <1>1, <1>4, <2>1 DEF KeyRing
  <2> QED
    BY <1>0, <1>1, <1>2, <1>4, <2>2 DEF KeysTypeOK
<1>6. RowsWhole'
  BY <1>0, <1>1 DEF RowsWhole
<1>7. KeysKept'
  BY <1>0, <1>1, <1>2 DEF KeysKept, SealedUnder
<1>8. RekeyProgress'
  <2>1. rekeying # NotRunning => rekeying.ring.current < env.current + 1
                           /\ rekeying.ring.current \in 1..MaxKeys
    BY <1>0, <1>4 DEF KeysKept
  <2>2. rekeying' # NotRunning => rekeying'.ring.current # env'.current
    BY <1>1, <1>2, <1>3, <2>1, KeysAssumption
  <2> QED
    BY <2>2 DEF RekeyProgress
<1>9. CleanMeansCurrent'
  BY <1>1 DEF CleanMeansCurrent
<1> QED
  BY <1>5, <1>6, <1>7, <1>8, <1>9 DEF KeysInv

(* The old keys go only when nothing is, or will be written, under them. *)
LEMMA DropPreviousStep == ASSUME KeysInv, DropPrevious PROVE KeysInv'
<1>0. KeysTypeOK /\ RowsWhole /\ KeysKept /\ RekeyProgress /\ CleanMeansCurrent
  BY DEF KeysInv
<1>1. /\ clean /\ env' = [env EXCEPT !.previous = {}]
      /\ table' = table /\ connecting' = connecting /\ rekeying' = rekeying /\ clean' = clean
      /\ connects' = connects /\ rekeys' = rekeys
  BY DEF DropPrevious
<1>2. /\ env' \in KeyRing /\ env'.current = env.current /\ env'.previous = {}
  BY <1>0, <1>1, ProcessFields DEF KeyRing
<1>3. All(env') = {env.current}
  BY <1>2 DEF All
<1>4. KeysTypeOK'
  BY <1>0, <1>1, <1>2 DEF KeysTypeOK
<1>5. RowsWhole' /\ KeysKept'
  BY <1>0, <1>1, <1>3 DEF RowsWhole, KeysKept, CleanMeansCurrent
<1>6. RekeyProgress' /\ CleanMeansCurrent'
  BY <1>0, <1>1, <1>2 DEF RekeyProgress, CleanMeansCurrent
<1> QED
  BY <1>4, <1>5, <1>6 DEF KeysInv

-----------------------------------------------------------------------------
(* Every step of a connect, of a rekey and of the operator keeps the invariant. *)
LEMMA KeysStep == ASSUME KeysInv, [KeysNext]_keysVars PROVE KeysInv'
<1>1. ASSUME NEW a \in Accounts, NEW s \in Secrets, StartConnect(a, s)
      PROVE  KeysInv'
  BY <1>1, StartConnectStep
<1>2. ASSUME NEW a \in Accounts, Disconnect(a)
      PROVE  KeysInv'
  BY <1>2, DisconnectStep
<1>3. ASSUME NEW a \in Accounts, RekeyRow(a)
      PROVE  KeysInv'
  BY <1>3, RekeyRowStep
<1>4. CASE UNCHANGED keysVars
  BY <1>4 DEF keysVars, KeysInv, KeysTypeOK, RowsWhole, KeysKept, RekeyProgress, CleanMeansCurrent
<1> QED
  BY <1>1, <1>2, <1>3, <1>4, InsertStep, StartRekeyStep, FinishRekeyStep, KeysCrashStep,
     RotateStep, DropPreviousStep DEF KeysNext

(* The inductive invariant holds in every reachable state. *)
THEOREM KeysInvariance == KeysSpec => []KeysInv
BY KeysStart, KeysStep, PTL DEF KeysSpec

(* Following the documented rotation never locks an account out: every stored credential decrypts. *)
THEOREM ReadableSafe == KeysSpec => []CredentialReadable
<1>1. KeysInv => CredentialReadable
  BY ProcessFields, KeptIsReadable DEF KeysInv, RowsWhole, KeysKept, CredentialReadable
<1> QED
  BY <1>1, KeysInvariance, PTL

(* No interleaving of rekey with a reconnect joins the fields of two credentials. *)
THEOREM TogetherSafe == KeysSpec => []FieldsTogether
<1>1. KeysInv => FieldsTogether
  BY DEF KeysInv, RowsWhole, Whole, FieldsTogether
<1> QED
  BY <1>1, KeysInvariance, PTL

(***************************************************************************)
(* CollectorWorker.  Every step changes the account in one of a few ways   *)
(* (it stays, something happens, a fact is written, a connection is made,  *)
(* dropped or marked); what a process knows survives each of them, so that *)
(* an action need only account for the process that takes it.              *)
(***************************************************************************)
(* What a step may not change of the account: only the time goes on. *)
SameAccount ==
  /\ broker' = broker /\ facts' = facts /\ rows' = rows /\ made' = made
  /\ clock' \in Nat /\ clock <= clock'
  /\ \/ conn' = conn
     \/ /\ conn # NoConn /\ conn' \in Connection
        /\ conn'.id = conn.id /\ conn'.from = conn.from /\ conn'.since = conn.since /\ conn'.upto = conn.upto

(* The invariant but for the processes. *)
StateHolds ==
  /\ broker \in Brokers
  /\ clock \in Nat /\ made \in Nat
  /\ facts \in Seq(Range(facts)) /\ rows \in Seq(Range(rows))
  /\ conn \in {NoConn} \cup Connection
  /\ FactsOrdered /\ ConnectionHolds /\ RowsAreFacts /\ NothingSkipped /\ SyncedIsCurrent

(* The components of a connection's row. *)
LEMMA ConnFields ==
  ASSUME NEW c \in Connection
  PROVE  /\ c # NoConn /\ c.id \in Nat \ {0} /\ c.since \in Nat /\ c.from \in Nat /\ c.upto \in Nat
BY DEF Connection, NoConn

(* Which listings are identified, and what a row is, go by the broker. *)
LEMMA SameBroker ==
  ASSUME broker' = broker
  PROVE  Identified' = Identified /\ \A f : RowOf(f)' = RowOf(f)
BY DEF Identified, RowOf, BinanceRow, CoinbaseRow, KrakenRow

(* Nothing comes to be missing, or stored, while the account stays. *)
LEMMA SameMissing ==
  ASSUME StateHolds, SameAccount, conn # NoConn
  PROVE  /\ conn' # NoConn /\ conn'.id = conn.id /\ conn'.from = conn.from
         /\ \A f : Stored(f)' = Stored(f)
         /\ \A f : Missing(f)' = Missing(f)
<1>1. conn' # NoConn /\ conn'.id = conn.id /\ conn'.from = conn.from
  BY ConnFields DEF SameAccount, StateHolds
<1>2. \A f : Stored(f)' = Stored(f)
  BY DEF SameAccount, Stored
<1>3. Identified' = Identified
  BY SameBroker DEF SameAccount
<1>4. \A f : Missing(f)' = Missing(f)
  BY <1>1, <1>2, <1>3 DEF SameAccount, Missing
<1> QED BY <1>1, <1>2, <1>4

(* The account as it was, later: its part of the invariant stays. *)
LEMMA SameState ==
  ASSUME StateHolds, SameAccount
  PROVE  StateHolds'
<1>0. Identified' = Identified /\ \A f : RowOf(f)' = RowOf(f)
  BY SameBroker DEF SameAccount
<1>1. FactsOrdered'
  BY DEF SameAccount, StateHolds, FactsOrdered
<1>2. ConnectionHolds'
  BY DEF SameAccount, StateHolds, ConnectionHolds, Connection
<1>3. RowsAreFacts'
  BY <1>0 DEF SameAccount, StateHolds, RowsAreFacts
<1>4. NothingSkipped'
  BY SameMissing DEF SameAccount, StateHolds, NothingSkipped
<1>5. SyncedIsCurrent'
  BY <1>0, SameMissing DEF SameAccount, StateHolds, SyncedIsCurrent
<1> QED
  BY <1>1, <1>2, <1>3, <1>4, <1>5 DEF SameAccount, StateHolds

(* What a process knows stays true of an account that stays. *)
LEMMA SameJobs ==
  ASSUME StateHolds, SameAccount
  PROVE  /\ \A j : JobHolds(j) => JobHolds(j)'
         /\ \A j : StreamHolds(j) => StreamHolds(j)'
<1>0. Identified' = Identified
  BY SameBroker DEF SameAccount
<1>1. \A j : HasUpto(j) => HasUpto(j)'
  BY DEF SameAccount, HasUpto
<1>2. \A j : HasFacts(j) => HasFacts(j)'
  BY <1>0 DEF SameAccount, HasFacts
<1>3. \A j : Serves(j)' => Serves(j)
  BY ConnFields DEF SameAccount, Serves
<1>4. \A j : AsksForAll(j) => AsksForAll(j)'
  BY <1>0, <1>3, SameMissing DEF SameAccount, AsksForAll, Serves, StateHolds
<1>5. \A j : HasCovered(j) => HasCovered(j)'
  BY <1>3, SameMissing DEF SameAccount, HasCovered, Serves, StateHolds, Covers, Awaits
<1>6. \A j : StreamHolds(j) => StreamHolds(j)'
  BY DEF SameAccount, StreamHolds, Idle
<1> QED
  BY <1>1, <1>2, <1>4, <1>5, <1>6 DEF SameAccount, JobHolds, Idle, StateHolds

(***************************************************************************)
(* Something happens at the broker.                                        *)
(***************************************************************************)
(* New facts come at the end, with the time and the ids that follow. *)
LEMMA HappenAppends ==
  ASSUME StateHolds, ConnectionsAssumption, Happen
  PROVE  /\ facts' \in Seq(Range(facts')) /\ Len(facts) \in Nat /\ Len(facts') \in Nat
         /\ Len(facts) <= Len(facts') /\ DOMAIN facts = 1..Len(facts) /\ DOMAIN facts' = 1..Len(facts')
         /\ \A i \in DOMAIN facts : facts'[i] = facts[i]
         /\ \A i \in DOMAIN facts' : i \notin DOMAIN facts => facts'[i].id = i /\ facts'[i].time = clock
<1>1. PICK lines \in Moves[broker] :
          facts' = facts \o [i \in DOMAIN lines |-> Fact(lines[i], Len(facts) + i, Len(facts) + 1)]
  BY DEF Happen
<1> DEFINE new == [i \in DOMAIN lines |-> Fact(lines[i], Len(facts) + i, Len(facts) + 1)]
           S == Range(facts) \cup Range(new)
<1>2. lines \in Seq(Range(lines)) /\ facts \in Seq(Range(facts))
  BY DEF ConnectionsAssumption, StateHolds
<1>3. Len(lines) \in Nat /\ DOMAIN lines = 1..Len(lines) /\ Len(facts) \in Nat /\ DOMAIN facts = 1..Len(facts)
  BY <1>2
<1>4. facts \in Seq(S) /\ new \in Seq(S) /\ Len(new) = Len(lines)
  <2>1. facts \in Seq(S)
    <3>1. facts \in [1..Len(facts) -> S]
      BY <1>2, <1>3 DEF Range
    <3> HIDE DEF S
    <3> QED BY <3>1, <1>3
  <2>2. new \in [1..Len(lines) -> S]
    BY <1>3 DEF Range
  <2>3. new \in Seq(S) /\ Len(new) = Len(lines)
    <3> HIDE DEF new, S
    <3> QED BY <2>2, <1>3
  <2> QED BY <2>1, <2>3
<1>5. /\ facts' \in Seq(S) /\ Len(facts') = Len(facts) + Len(lines)
      /\ \A i \in 1..Len(facts') : facts'[i] = IF i <= Len(facts) THEN facts[i] ELSE new[i - Len(facts)]
  <2> HIDE DEF new, S
  <2> QED BY <1>1, <1>3, <1>4 DEF new
<1>6. \A i \in 1..Len(lines) : new[i].id = Len(facts) + i /\ new[i].time = clock
  BY <1>3 DEF Fact
<1>7. DOMAIN facts' = 1..Len(facts') /\ Len(facts') \in Nat
  BY <1>5, <1>3
<1>8. facts' \in [1..Len(facts') -> Range(facts')]
  <2> HIDE DEF S
  <2> QED BY <1>5, <1>7 DEF Range
<1>9. \A i \in DOMAIN facts' : i \notin DOMAIN facts => facts'[i].id = i /\ facts'[i].time = clock
  <2> HIDE DEF new, S
  <2> SUFFICES ASSUME NEW i \in 1..Len(facts'), i \notin 1..Len(facts)
               PROVE  facts'[i].id = i /\ facts'[i].time = clock
    BY <1>3, <1>7
  <2>1. i - Len(facts) \in 1..Len(lines) /\ facts'[i] = new[i - Len(facts)]
    BY <1>3, <1>5
  <2> QED BY <2>1, <1>3, <1>6
<1>10. facts' \in Seq(Range(facts'))
  BY <1>7, <1>8
<1>11. \A i \in DOMAIN facts : facts'[i] = facts[i]
  <2> HIDE DEF new, S
  <2> QED BY <1>3, <1>5
<1> QED
  <2> HIDE DEF new, S
  <2> QED BY <1>3, <1>5, <1>7, <1>9, <1>10, <1>11

(* After it, a missing fact was missing before or is new. *)
LEMMA HappenMissing ==
  ASSUME StateHolds, ConnectionsAssumption, Happen
  PROVE  /\ Range(facts) \subseteq Range(facts')
         /\ \A f \in Range(facts') : f \in Range(facts) \/ (f.id \in Nat /\ f.id > Len(facts) /\ f.time = clock)
         /\ \A f : Missing(f)' => Missing(f) \/ (f.id \in Nat /\ f.id > Len(facts) /\ f.time = clock)
<1>0. /\ Len(facts) \in Nat /\ Len(facts') \in Nat /\ Len(facts) <= Len(facts')
      /\ DOMAIN facts = 1..Len(facts) /\ DOMAIN facts' = 1..Len(facts')
      /\ \A i \in DOMAIN facts : facts'[i] = facts[i]
      /\ \A i \in DOMAIN facts' : i \notin DOMAIN facts => facts'[i].id = i /\ facts'[i].time = clock
  BY HappenAppends
<1>1. Range(facts) \subseteq Range(facts')
  <2>1. DOMAIN facts \subseteq DOMAIN facts'
    BY <1>0
  <2> QED BY <1>0, <2>1 DEF Range
<1>2. \A f \in Range(facts') : f \in Range(facts) \/ (f.id \in Nat /\ f.id > Len(facts) /\ f.time = clock)
  <2> SUFFICES ASSUME NEW i \in DOMAIN facts', i \notin DOMAIN facts
               PROVE  facts'[i].id \in Nat /\ facts'[i].id > Len(facts) /\ facts'[i].time = clock
    BY <1>0 DEF Range
  <2>1. facts'[i].id = i /\ facts'[i].time = clock
    BY <1>0
  <2> QED BY <1>0, <2>1
<1>3. Identified' = Identified
  BY SameBroker DEF Happen
<1>4. \A f : Stored(f)' = Stored(f)
  BY DEF Happen, Stored
<1> QED
  BY <1>1, <1>2, <1>3, <1>4 DEF Missing, Happen

(* New facts are newer than every row and come after every connection. *)
LEMMA HappenState ==
  ASSUME StateHolds, ConnectionsAssumption, Happen
  PROVE  StateHolds'
<1>0. /\ Identified' = Identified /\ (\A f : RowOf(f)' = RowOf(f)) /\ \A f : Stored(f)' = Stored(f)
      /\ broker' = broker /\ clock' = clock /\ conn' = conn /\ made' = made /\ rows' = rows
  BY SameBroker DEF Happen, Stored
<1>1. FactsOrdered'
  <2> SUFFICES ASSUME NEW i \in DOMAIN facts'
               PROVE  /\ facts'[i].id = i /\ facts'[i].time \in 0..clock
                      /\ \A j \in DOMAIN facts' : i < j => facts'[i].time <= facts'[j].time
    BY <1>0 DEF FactsOrdered
  <2>1. \A j \in DOMAIN facts' : facts'[j].id = j /\ facts'[j].time \in 0..clock
    BY HappenAppends DEF StateHolds, FactsOrdered
  <2>2. CASE i \in DOMAIN facts
    <3>1. SUFFICES ASSUME NEW j \in DOMAIN facts', i < j PROVE facts'[i].time <= facts'[j].time
      BY <2>1
    <3>2. CASE j \in DOMAIN facts
      BY <2>2, <3>1, <3>2, HappenAppends DEF StateHolds, FactsOrdered
    <3>3. CASE j \notin DOMAIN facts
      <4>1. facts'[j].time = clock
        BY <3>3, HappenAppends
      <4> QED BY <2>1, <4>1 DEF StateHolds
    <3> QED BY <3>2, <3>3
  <2>3. CASE i \notin DOMAIN facts
    <3>1. i \in Nat /\ i > Len(facts)
      BY <2>3, HappenAppends
    <3>2. \A j \in DOMAIN facts' : i < j => j \notin DOMAIN facts
      BY <3>1, HappenAppends
    <3> QED BY <2>1, <2>3, <3>2, HappenAppends DEF StateHolds
  <2> QED BY <2>2, <2>3
<1>2. ConnectionHolds'
  <2> SUFFICES ASSUME conn # NoConn PROVE ConnectionHolds'
    BY <1>0 DEF ConnectionHolds
  <2>1. /\ conn.since \in Nat /\ conn.from \in Nat /\ conn.upto \in Nat /\ ConnectionHolds /\ clock \in Nat
    BY ConnFields DEF StateHolds
  <2>2. \A i \in DOMAIN facts' : i > conn.from => facts'[i].time >= conn.since
    BY <2>1, HappenAppends DEF ConnectionHolds
  <2> QED BY <1>0, <2>1, <2>2, HappenAppends DEF ConnectionHolds
<1>3. RowsAreFacts'
  BY <1>0, HappenMissing DEF StateHolds, RowsAreFacts
<1>4. NothingSkipped'
  <2> SUFFICES ASSUME broker = "kraken", conn # NoConn, NEW f, Missing(f)',
                      NEW i \in DOMAIN rows, rows[i].table = f.table
               PROVE  rows[i].time <= f.time
    BY <1>0 DEF NothingSkipped
  <2>1. CASE Missing(f)
    BY <2>1 DEF StateHolds, NothingSkipped, Missing
  <2>2. CASE f.time = clock
    <3>1. PICK g \in Range(facts) : rows[i] = RowOf(g)
      BY DEF StateHolds, RowsAreFacts, Identified
    <3>2. rows[i].time = g.time
      BY <3>1 DEF RowOf, KrakenRow
    <3>3. g.time \in 0..clock
      BY DEF StateHolds, FactsOrdered, Range
    <3> QED BY <2>2, <3>2, <3>3 DEF StateHolds
  <2> QED BY <2>1, <2>2, HappenMissing
<1>5. SyncedIsCurrent'
  BY <1>0, HappenAppends, ConnFields DEF StateHolds, SyncedIsCurrent, ConnectionHolds
<1> QED
  BY <1>0, <1>1, <1>2, <1>3, <1>4, <1>5, HappenAppends DEF StateHolds

(* New facts are beyond what a process has read, and newer than all it has fetched. *)
LEMMA HappenJobs ==
  ASSUME StateHolds, ConnectionsAssumption, Happen
  PROVE  /\ \A j : JobHolds(j) => JobHolds(j)'
         /\ \A j : StreamHolds(j) => StreamHolds(j)'
<1>0. /\ Identified' = Identified /\ broker' = broker /\ clock' = clock /\ conn' = conn /\ made' = made
  BY SameBroker DEF Happen
<1>1. \A j : HasUpto(j) => HasUpto(j)'
  BY <1>0, HappenAppends DEF HasUpto
<1>2. \A j : HasFacts(j) => HasFacts(j)'
  BY <1>0, HappenMissing DEF HasFacts
<1>4. \A j : AsksForAll(j) => AsksForAll(j)'
  <2> SUFFICES ASSUME NEW j, AsksForAll(j), broker = "kraken", j.pc \in {"trades", "ledger"},
                      Serves(j), NEW f, Missing(f)'
               PROVE  f.time >= j.got.from[f.table]
    BY <1>0 DEF AsksForAll, Serves
  <2>1. f.table \in Identified
    BY <1>0 DEF Missing
  <2> QED BY <2>1, HappenMissing DEF AsksForAll, StateHolds, Missing
<1>5. ASSUME NEW j, HasCovered(j), HasUpto(j), HasFacts(j) PROVE HasCovered(j)'
  <2> SUFFICES ASSUME broker \in {"kraken", "coinbase"}, Serves(j), NEW f, Missing(f)', Covers(j, f), ~Awaits(j, f)
               PROVE  /\ f.id > j.got.upto
                      /\ j.pc \in {"ledger", "save"} => \A g \in j.got.queue : g.table = f.table => g.time <= f.time
    BY <1>0 DEF HasCovered, Serves, Covers, Awaits
  <2>1. CASE Missing(f)
    BY <1>5, <2>1 DEF HasCovered, Missing
  <2>2. CASE f.id \in Nat /\ f.id > Len(facts) /\ f.time = clock
    <3>1. j.got.upto \in 0..Len(facts)
      BY <1>5 DEF HasUpto, Covers, Informed
    <3>2. j.pc \in {"ledger", "save"} => \A g \in j.got.queue : g \in Range(facts)
      BY <1>5 DEF HasFacts, Identified
    <3>3. \A g \in Range(facts) : g.time \in 0..clock
      BY DEF StateHolds, FactsOrdered, Range
    <3>4. Len(facts) \in Nat
      BY HappenAppends
    <3> QED BY <2>2, <3>1, <3>2, <3>3, <3>4 DEF StateHolds
  <2> QED BY <2>1, <2>2, HappenMissing
<1>6. \A j : StreamHolds(j) => StreamHolds(j)'
  BY <1>0 DEF StreamHolds, Idle
<1> QED
  BY <1>0, <1>1, <1>2, <1>4, <1>5, <1>6 DEF JobHolds, Idle

(***************************************************************************)
(* Rows.                                                                   *)
(***************************************************************************)
(* Upsert: the table as it was, with the row at its end unless its key is there. *)
LEMMA UpsertAppends ==
  ASSUME NEW stored, stored \in Seq(Range(stored)), NEW row, NEW new, new = Upsert(stored, row), NEW k, k = row.key
  PROVE  /\ new \in Seq(Range(new)) /\ DOMAIN stored \subseteq DOMAIN new
         /\ \A i \in DOMAIN stored : new[i] = stored[i]
         /\ \A i \in DOMAIN new : i \notin DOMAIN stored => new[i] = row
         /\ \A i, j \in DOMAIN new : (i \notin DOMAIN stored /\ j \notin DOMAIN stored) => i = j
         /\ \E i \in DOMAIN new : new[i].key = k
         /\ new = stored \/ \A i \in DOMAIN stored : stored[i].key # k
         /\ new # stored => \E i \in DOMAIN new : i \notin DOMAIN stored
<1>1. CASE \E i \in DOMAIN stored : stored[i].key = row.key
  <2>1. new = stored
    BY <1>1 DEF Upsert
  <2> QED BY <2>1, <1>1
<1>2. CASE ~\E i \in DOMAIN stored : stored[i].key = row.key
  <2>1. new = Append(stored, row)
    BY <1>2 DEF Upsert
  <2>2. Len(stored) \in Nat /\ DOMAIN stored = 1..Len(stored)
    OBVIOUS
  <2> DEFINE S == Range(stored) \cup {row}
  <2>3. stored \in Seq(S) /\ row \in S
    <3>1. stored \in [1..Len(stored) -> S]
      BY <2>2 DEF Range
    <3> HIDE DEF S
    <3>2. stored \in Seq(S)
      BY <3>1, <2>2
    <3> QED BY <3>2 DEF S
  <2>4. /\ new \in Seq(S) /\ Len(new) = Len(stored) + 1 /\ DOMAIN new = 1..(Len(stored) + 1)
        /\ \A i \in 1..Len(stored) : new[i] = stored[i]
        /\ new[Len(stored) + 1] = row
    <3> HIDE DEF S
    <3> QED BY <2>1, <2>2, <2>3
  <2>5. new \in [1..Len(new) -> Range(new)]
    <3> HIDE DEF S
    <3> QED BY <2>2, <2>4 DEF Range
  <2>6. new \in Seq(Range(new))
    <3> HIDE DEF S
    <3> QED BY <2>2, <2>4, <2>5
  <2> QED
    <3> HIDE DEF S
    <3>1. /\ DOMAIN stored \subseteq DOMAIN new
          /\ \A i \in DOMAIN stored : new[i] = stored[i]
          /\ \A i \in DOMAIN new : i \notin DOMAIN stored => i = Len(stored) + 1
      BY <2>2, <2>4
    <3>2. Len(stored) + 1 \in DOMAIN new /\ Len(stored) + 1 \notin DOMAIN stored
      BY <2>2, <2>4
    <3> QED BY <1>2, <2>4, <2>6, <3>1, <3>2
<1> QED BY <1>1, <1>2

(* A row is of one fact, and its key says of which. *)
LEMMA RowFields ==
  ASSUME NEW f
  PROVE  /\ RowOf(f).fact = f.id /\ RowOf(f).table = f.table /\ RowOf(f).time = f.time
         /\ \A g : RowOf(g).key = RowOf(f).key => g.id = f.id
BY DEF RowOf, BinanceRow, CoinbaseRow, KrakenRow

(* Facts with the same id are the same fact. *)
LEMMA FactIsItsId ==
  ASSUME StateHolds, NEW f \in Range(facts)
  PROVE  /\ f.id \in DOMAIN facts /\ facts[f.id] = f /\ f.time \in 0..clock
         /\ \A g \in Range(facts) : g.id = f.id => g = f
BY DEF StateHolds, FactsOrdered, Range

(* One fact is written. *)
RowSaved(f) ==
  /\ f \in Range(facts) /\ f.table \in Identified
  /\ broker' = broker /\ facts' = facts /\ made' = made /\ clock' = clock /\ conn' = conn
  /\ rows' = Upsert(rows, RowOf(f))
  /\ broker = "kraken" => \A g : (Missing(g) /\ g # f /\ g.table = f.table) => f.time <= g.time

(* RowSaved on the rows, index by index. *)
LEMMA SavedRows ==
  ASSUME StateHolds, NEW f, RowSaved(f)
  PROVE  /\ rows' \in Seq(Range(rows')) /\ DOMAIN rows \subseteq DOMAIN rows'
         /\ \A i \in DOMAIN rows : rows'[i] = rows[i]
         /\ \A i \in DOMAIN rows' : i \notin DOMAIN rows => rows'[i] = RowOf(f)
         /\ \A i, j \in DOMAIN rows' : (i \notin DOMAIN rows /\ j \notin DOMAIN rows) => i = j
         /\ \E i \in DOMAIN rows' : rows'[i].key = RowOf(f).key
         /\ rows' = rows \/ \A i \in DOMAIN rows : rows[i].key # RowOf(f).key
         /\ rows' # rows => \E i \in DOMAIN rows' : i \notin DOMAIN rows
<1>1. PICK row : row = RowOf(f)
  OBVIOUS
<1>2. PICK k : k = row.key
  OBVIOUS
<1>3. rows \in Seq(Range(rows)) /\ rows' = Upsert(rows, row)
  BY <1>1 DEF StateHolds, RowSaved
<1>4. rows' \in Seq(Range(rows')) /\ DOMAIN rows \subseteq DOMAIN rows'
  BY <1>2, <1>3, UpsertAppends
<1>5. \A i \in DOMAIN rows : rows'[i] = rows[i]
  BY <1>2, <1>3, UpsertAppends
<1>6. \A i \in DOMAIN rows' : i \notin DOMAIN rows => rows'[i] = row
  BY <1>2, <1>3, UpsertAppends
<1>7. \A i, j \in DOMAIN rows' : (i \notin DOMAIN rows /\ j \notin DOMAIN rows) => i = j
  BY <1>2, <1>3, UpsertAppends
<1>8. \E i \in DOMAIN rows' : rows'[i].key = k
  BY <1>2, <1>3, UpsertAppends
<1>9. rows' = rows \/ \A i \in DOMAIN rows : rows[i].key # k
  BY <1>2, <1>3, UpsertAppends
<1>10. rows' # rows => \E i \in DOMAIN rows' : i \notin DOMAIN rows
  BY <1>2, <1>3, UpsertAppends
<1> QED BY <1>1, <1>2, <1>4, <1>5, <1>6, <1>7, <1>8, <1>9, <1>10

(* The fact is stored now, and nothing else comes to be missing. *)
LEMMA SavedMissing ==
  ASSUME StateHolds, NEW f, RowSaved(f)
  PROVE  /\ Stored(f)'
         /\ \A g : Stored(g) => Stored(g)'
         /\ \A g : Missing(g)' => Missing(g) /\ g # f
<1>0. Identified' = Identified /\ Identified # {}
  BY SameBroker DEF RowSaved
<1>2. \A g : Stored(g) => Stored(g)'
  BY SavedRows DEF Stored
<1>3. Stored(f)'
  <2>1. PICK i \in DOMAIN rows' : rows'[i].key = RowOf(f).key
    BY SavedRows
  <2>2. CASE i \in DOMAIN rows
    <3>1. rows'[i] = rows[i]
      BY <2>2, SavedRows
    <3>2. PICK g \in Range(facts) : rows[i] = RowOf(g)
      BY <1>0, <2>2 DEF StateHolds, RowsAreFacts
    <3> QED BY <2>1, <3>1, <3>2, RowFields DEF Stored
  <2>3. CASE i \notin DOMAIN rows
    <3>1. rows'[i] = RowOf(f)
      BY <2>3, SavedRows
    <3> QED BY <3>1, RowFields DEF Stored
  <2> QED BY <2>2, <2>3
<1> QED
  BY <1>0, <1>2, <1>3 DEF Missing, RowSaved

(* Writing a fact that nothing missing precedes leaves no gap. *)
LEMMA SavedState ==
  ASSUME StateHolds, NEW f, RowSaved(f)
  PROVE  StateHolds'
<1>0. Identified' = Identified /\ (\A g : RowOf(g)' = RowOf(g)) /\ Identified # {}
  BY SameBroker DEF RowSaved
<1>3. RowsAreFacts'
  <2>1. \A i \in DOMAIN rows' : \E g \in Range(facts) : g.table \in Identified /\ rows'[i] = RowOf(g)
    BY <1>0, SavedRows DEF StateHolds, RowsAreFacts, RowSaved
  <2>2. ASSUME NEW i \in DOMAIN rows', NEW j \in DOMAIN rows', rows'[i].key = rows'[j].key PROVE i = j
    <3>1. CASE i \in DOMAIN rows /\ j \in DOMAIN rows
      BY <1>0, SavedRows, <2>2, <3>1 DEF StateHolds, RowsAreFacts
    <3>2. CASE i \notin DOMAIN rows \/ j \notin DOMAIN rows
      BY SavedRows, <2>2, <3>2
    <3> QED BY <3>1, <3>2
  <2> QED BY <1>0, <2>1, <2>2 DEF StateHolds, RowsAreFacts, RowSaved
<1>4. NothingSkipped'
  <2> SUFFICES ASSUME broker = "kraken", conn # NoConn, NEW g, Missing(g)',
                      NEW i \in DOMAIN rows', rows'[i].table = g.table
               PROVE  rows'[i].time <= g.time
    BY DEF NothingSkipped, RowSaved
  <2>1. Missing(g) /\ g # f
    BY SavedMissing
  <2>2. CASE i \in DOMAIN rows
    BY SavedRows, <2>1, <2>2 DEF StateHolds, NothingSkipped, Missing
  <2>3. CASE i \notin DOMAIN rows
    BY SavedRows, <2>1, <2>3, RowFields DEF RowSaved
  <2> QED BY <2>2, <2>3
<1>5. SyncedIsCurrent'
  BY <1>0, SavedMissing DEF RowSaved, StateHolds, SyncedIsCurrent
<1> QED
  BY SavedRows, <1>3, <1>4, <1>5 DEF RowSaved, StateHolds, FactsOrdered, ConnectionHolds

(* Another process's fact is one fewer that is missing. *)
LEMMA SavedJobs ==
  ASSUME StateHolds, NEW f, RowSaved(f)
  PROVE  /\ \A j : JobHolds(j) => JobHolds(j)'
         /\ \A j : StreamHolds(j) => StreamHolds(j)'
<1>0. Identified' = Identified /\ broker' = broker /\ facts' = facts /\ clock' = clock /\ conn' = conn /\ made' = made
  BY SameBroker DEF RowSaved
<1>1. \A j : HasUpto(j) => HasUpto(j)'
  BY <1>0 DEF HasUpto
<1>2. \A j : HasFacts(j) => HasFacts(j)'
  BY <1>0 DEF HasFacts
<1>4. \A j : AsksForAll(j) => AsksForAll(j)'
  BY <1>0, SavedMissing DEF AsksForAll, Serves
<1>5. \A j : HasCovered(j) => HasCovered(j)'
  BY <1>0, SavedMissing DEF HasCovered, Serves, Covers, Awaits
<1>6. \A j : StreamHolds(j) => StreamHolds(j)'
  BY <1>0 DEF StreamHolds, Idle
<1> QED
  BY <1>0, <1>1, <1>2, <1>4, <1>5, <1>6 DEF JobHolds, Idle

(***************************************************************************)
(* The connection's row comes, goes and is marked as synced.               *)
(***************************************************************************)
(* The connection goes, and what was collected with it. *)
Dropped ==
  /\ broker' = broker /\ facts' = facts /\ made' = made /\ clock' = clock
  /\ conn' = NoConn
  /\ rows' = << >> \/ (Identified = {} /\ rows' = rows)

(* A process working for a connection that is gone serves no connection any more. *)
LEMMA DroppedHolds ==
  ASSUME StateHolds, Dropped
  PROVE  /\ StateHolds'
         /\ \A j : JobHolds(j) => JobHolds(j)'
         /\ \A j : StreamHolds(j) => StreamHolds(j)'
<1>0. Identified' = Identified /\ ~(conn' # NoConn) /\ \A j : ~Serves(j)'
  BY SameBroker DEF Dropped, Serves
<1>1. rows' \in Seq(Range(rows')) /\ RowsAreFacts'
  <2>1. CASE rows' = << >>
    BY <1>0, <2>1 DEF RowsAreFacts, Range
  <2>2. CASE Identified = {} /\ rows' = rows
    BY <1>0, <2>2 DEF StateHolds, RowsAreFacts
  <2> QED BY <2>1, <2>2 DEF Dropped
<1>2. StateHolds'
  BY <1>0, <1>1 DEF Dropped, StateHolds, FactsOrdered, ConnectionHolds, NothingSkipped, SyncedIsCurrent
<1>3. \A j : JobHolds(j) => JobHolds(j)'
  BY <1>0 DEF Dropped, JobHolds, HasUpto, HasFacts, AsksForAll, HasCovered, Idle
<1>4. \A j : StreamHolds(j) => StreamHolds(j)'
  BY DEF Dropped, StreamHolds, Idle
<1> QED BY <1>2, <1>3, <1>4

(* A connection is made: it follows what happens from now on. *)
Made ==
  /\ broker' = broker /\ facts' = facts /\ clock' = clock /\ rows' = rows
  /\ conn = NoConn /\ made' = made + 1
  /\ conn' \in Connection /\ conn'.id = made + 1 /\ conn'.since = clock /\ conn'.from = Len(facts) /\ conn'.upto = 0

(* Nothing is missing yet, and no process already running is of the new connection. *)
LEMMA MadeHolds ==
  ASSUME StateHolds, Made
  PROVE  /\ StateHolds'
         /\ \A j : JobHolds(j) => JobHolds(j)'
         /\ \A j : StreamHolds(j) => StreamHolds(j)'
<1>0. /\ Identified' = Identified /\ \A f : RowOf(f)' = RowOf(f)
      /\ Len(facts) \in Nat /\ DOMAIN facts = 1..Len(facts) /\ conn' # NoConn /\ clock \in Nat /\ made \in Nat
  BY SameBroker, ConnFields DEF Made, StateHolds
<1>1. \A f : ~Missing(f)'
  <2> SUFFICES ASSUME NEW f, Missing(f)' PROVE FALSE
    OBVIOUS
  <2>1. f \in Range(facts) /\ f.id > Len(facts)
    BY DEF Missing, Made
  <2> QED BY <1>0, <2>1, FactIsItsId
<1>2. ConnectionHolds'
  BY <1>0 DEF Made, ConnectionHolds
<1>3. SyncedIsCurrent'
  BY <1>0 DEF Made, SyncedIsCurrent
<1>4. StateHolds'
  BY <1>0, <1>1, <1>2, <1>3 DEF Made, StateHolds, FactsOrdered, RowsAreFacts, NothingSkipped
<1>5. \A j : j.id \in 0..made => ~Serves(j)'
  BY <1>0 DEF Made, Serves
<1>6. \A j : JobHolds(j) => JobHolds(j)'
  BY <1>0, <1>5 DEF Made, JobHolds, HasUpto, HasFacts, AsksForAll, HasCovered, Idle
<1>7. \A j : StreamHolds(j) => StreamHolds(j)'
  BY <1>0 DEF Made, StreamHolds, Idle
<1> QED BY <1>4, <1>6, <1>7

(* A sync is marked as gone through up to `upto`, before which nothing is missing. *)
Marked(upto) ==
  /\ broker' = broker /\ facts' = facts /\ clock' = clock /\ rows' = rows /\ made' = made
  /\ conn # NoConn /\ conn' = [conn EXCEPT !.last = clock, !.upto = IF upto > @ THEN upto ELSE @]
  /\ upto \in 0..Len(facts)
  /\ broker \in {"kraken", "coinbase"} => \A f : Missing(f) => f.id > upto

(* last_synced_at is written when everything read is stored. *)
LEMMA MarkedHolds ==
  ASSUME StateHolds, NEW upto, Marked(upto)
  PROVE  /\ StateHolds'
         /\ \A j : JobHolds(j) => JobHolds(j)'
         /\ \A j : StreamHolds(j) => StreamHolds(j)'
<1>0. /\ Identified' = Identified /\ (\A f : RowOf(f)' = RowOf(f)) /\ (\A f : Stored(f)' = Stored(f))
      /\ Len(facts) \in Nat /\ DOMAIN facts = 1..Len(facts) /\ clock \in Nat /\ conn \in Connection
  BY SameBroker DEF Marked, StateHolds, Stored
<1>1. /\ conn' \in Connection /\ conn'.id = conn.id /\ conn'.since = conn.since /\ conn'.from = conn.from
      /\ conn'.upto = (IF upto > conn.upto THEN upto ELSE conn.upto) /\ conn' # NoConn
  <2>1. conn.upto \in Nat /\ upto \in Nat
    BY <1>0, ConnFields DEF Marked
  <2>2. conn' = [conn EXCEPT !.last = clock, !.upto = IF upto > conn.upto THEN upto ELSE conn.upto]
    BY DEF Marked
  <2>3. conn' \in Connection
    BY <1>0, <2>1, <2>2 DEF Connection
  <2>4. conn'.id = conn.id /\ conn'.since = conn.since /\ conn'.from = conn.from
    BY <1>0, <2>2 DEF Connection
  <2>5. conn'.upto = IF upto > conn.upto THEN upto ELSE conn.upto
    BY <1>0, <2>2 DEF Connection
  <2> QED BY <2>3, <2>4, <2>5, ConnFields
<1>2. \A f : Missing(f)' = Missing(f)
  BY <1>0, <1>1 DEF Missing, Marked
<1>3. ConnectionHolds'
  BY <1>0, <1>1 DEF Marked, StateHolds, ConnectionHolds
<1>4. SyncedIsCurrent'
  <2> SUFFICES ASSUME broker \in {"kraken", "coinbase"}, NEW i \in (conn.from + 1)..conn'.upto, facts[i].table \in Identified
               PROVE  Stored(facts[i])
    BY <1>0, <1>1 DEF SyncedIsCurrent, Marked
  <2>1. i \in DOMAIN facts /\ facts[i].id = i /\ facts[i] \in Range(facts) /\ i > conn.from
    <3>1. conn.from \in Nat /\ conn.upto \in Nat /\ upto \in 0..Len(facts) /\ conn.upto <= Len(facts)
      BY <1>0, ConnFields DEF Marked, StateHolds, ConnectionHolds
    <3>2. i \in 1..Len(facts) /\ i > conn.from
      BY <3>1, <1>0, <1>1
    <3> QED BY <3>2, <1>0 DEF StateHolds, FactsOrdered, Range
  <2>2. CASE i <= conn.upto
    BY <2>1, <2>2, <1>0, ConnFields DEF StateHolds, SyncedIsCurrent, Marked
  <2>3. CASE ~(i <= conn.upto)
    <3>1. i <= upto
      BY <2>3, <1>0, <1>1, ConnFields DEF Marked
    <3>2. ~Missing(facts[i])
      BY <3>1, <2>1, <1>0 DEF Marked
    <3> QED BY <3>2, <2>1 DEF Missing
  <2> QED BY <2>2, <2>3
<1>5. StateHolds'
  BY <1>0, <1>1, <1>2, <1>3, <1>4 DEF Marked, StateHolds, FactsOrdered, RowsAreFacts, NothingSkipped
<1>6. \A j : Serves(j)' => Serves(j)
  BY <1>1 DEF Serves, Marked
<1>7. \A j : JobHolds(j) => JobHolds(j)'
  BY <1>0, <1>2, <1>6 DEF Marked, JobHolds, HasUpto, HasFacts, AsksForAll, HasCovered, Covers, Awaits, Idle
<1>8. \A j : StreamHolds(j) => StreamHolds(j)'
  BY DEF Marked, StreamHolds, Idle
<1> QED BY <1>5, <1>7, <1>8

(* The rows of a broker whose facts have no identity are not followed. *)
Untold ==
  /\ broker' = broker /\ facts' = facts /\ clock' = clock /\ made' = made /\ conn' = conn
  /\ broker \in {"wallet", "ibkr"} /\ rows' \in Seq(Range(rows'))

(* Their rows bear on no part of the invariant. *)
LEMMA UntoldHolds ==
  ASSUME StateHolds, Untold
  PROVE  /\ StateHolds'
         /\ \A j : JobHolds(j) => JobHolds(j)'
         /\ \A j : StreamHolds(j) => StreamHolds(j)'
<1>0. Identified' = {} /\ Identified = {} /\ broker' \notin {"kraken", "coinbase"}
  BY SameBroker DEF Untold, Identified
<1>1. StateHolds'
  BY <1>0 DEF Untold, StateHolds, FactsOrdered, ConnectionHolds, RowsAreFacts, NothingSkipped, SyncedIsCurrent
<1>2. \A j : JobHolds(j) => JobHolds(j)'
  BY <1>0 DEF Untold, JobHolds, HasUpto, HasFacts, AsksForAll, HasCovered, Idle
<1>3. \A j : StreamHolds(j) => StreamHolds(j)'
  BY DEF Untold, StreamHolds, Idle
<1> QED BY <1>1, <1>2, <1>3

(***************************************************************************)
(* What a process does next.                                               *)
(***************************************************************************)
(* The account and whatever a process knew are as the invariant says, after the step. *)
Frame ==
  /\ StateHolds'
  /\ \A j : JobHolds(j) => JobHolds(j)'
  /\ \A j : StreamHolds(j) => StreamHolds(j)'

(* The parts of the invariant. *)
LEMMA Parts ==
  IInv <=> /\ StateHolds /\ DOMAIN jobs = Workers \cup {"stream"}
           /\ \A w \in Workers : JobHolds(jobs[w])
           /\ StreamHolds(jobs["stream"])
BY DEF IInv, StateHolds, TypeOK

(* The same after a step. *)
LEMMA PartsPrimed ==
  ASSUME StateHolds', DOMAIN jobs' = Workers \cup {"stream"},
         \A w \in Workers : JobHolds(jobs[w])', StreamHolds(jobs["stream"])'
  PROVE  IInv'
BY DEF IInv, StateHolds, TypeOK

(* An account that stays keeps the invariant but for the process that moves. *)
LEMMA SameFrame ==
  ASSUME IInv, SameAccount
  PROVE  Frame
BY Parts, SameState, SameJobs DEF Frame

(* One process moves. *)
LEMMA JobMoves ==
  ASSUME IInv, ConnectionsAssumption, Frame, NEW w \in Workers, NEW j, JobHolds(j)', jobs' = [jobs EXCEPT ![w] = j]
  PROVE  IInv'
<1>0. w # "stream"
  BY DEF ConnectionsAssumption
<1>1. DOMAIN jobs' = Workers \cup {"stream"} /\ jobs'["stream"] = jobs["stream"]
  BY <1>0, Parts
<1>2. StreamHolds(jobs["stream"])'
  BY <1>1, Parts DEF Frame
<1>3. ASSUME NEW v \in Workers PROVE JobHolds(jobs[v])'
  <2>1. CASE v = w
    <3>1. jobs'[v] = j
      BY <2>1, Parts
    <3> QED BY <3>1
  <2>2. CASE v # w
    <3>1. jobs'[v] = jobs[v]
      BY <2>2, Parts
    <3> QED BY <3>1, Parts DEF Frame
  <2> QED BY <2>1, <2>2
<1> QED BY <1>1, <1>2, <1>3, PartsPrimed DEF Frame

(* No process moves. *)
LEMMA JobsStay ==
  ASSUME IInv, Frame, jobs' = jobs
  PROVE  IInv'
<1>1. \A v \in Workers : JobHolds(jobs[v])'
  BY Parts DEF Frame
<1>2. StreamHolds(jobs["stream"])'
  BY Parts DEF Frame
<1> QED BY <1>1, <1>2, Parts, PartsPrimed DEF Frame

(* A process that does nothing knows nothing. *)
LEMMA IdleHolds == JobHolds(Idle) /\ JobHolds(Idle)'
BY DEF JobHolds, Idle

(* A process ends. *)
LEMMA EndHolds ==
  ASSUME IInv, ConnectionsAssumption, Frame, NEW w \in Workers, End(w)
  PROVE  IInv'
<1>1. PICK j : j = Idle
  OBVIOUS
<1>2. JobHolds(j)' /\ jobs' = [jobs EXCEPT ![w] = j]
  BY <1>1, IdleHolds DEF End
<1> QED BY <1>2, JobMoves

(* A process that has read nothing yet. *)
LEMMA PlainJob ==
  ASSUME NEW j, DOMAIN j = JobFields, j.id \in 0..made, j.key \in Credentials, j.pc \notin Informed
  PROVE  JobHolds(j)
BY DEF JobHolds, HasUpto, HasFacts, AsksForAll, HasCovered, Covers, Informed

(* What is known of a process at work. *)
LEMMA Working ==
  ASSUME IInv, NEW w \in Workers, jobs[w].pc # "idle"
  PROVE  LET j == jobs[w] IN
         /\ JobHolds(j) /\ DOMAIN j = JobFields /\ j.id \in 0..made /\ j.key \in Credentials
         /\ HasUpto(j) /\ HasFacts(j) /\ AsksForAll(j) /\ HasCovered(j)
BY Parts DEF JobHolds, Idle

(* A process goes on before it has read anything. *)
LEMMA GotoHolds ==
  ASSUME IInv, ConnectionsAssumption, SameAccount, NEW w \in Workers, jobs[w].pc # "idle",
         NEW p, p \notin Informed, Goto(w, p)
  PROVE  IInv'
<1>1. PICK j : j = [jobs[w] EXCEPT !.pc = p]
  OBVIOUS
<1>2. JobHolds(j)
  BY <1>1, Working, PlainJob DEF JobFields
<1>3. jobs' = [jobs EXCEPT ![w] = j]
  BY <1>1 DEF Goto
<1> QED BY <1>2, <1>3, JobMoves, SameFrame DEF Frame

(* The same, with a value of its own. *)
LEMMA GotoWithHolds ==
  ASSUME IInv, ConnectionsAssumption, SameAccount, NEW w \in Workers, jobs[w].pc # "idle",
         NEW p, p \notin Informed, NEW got, GotoWith(w, p, got)
  PROVE  IInv'
<1>1. PICK j : j = [jobs[w] EXCEPT !.pc = p, !.got = got]
  OBVIOUS
<1>2. JobHolds(j)
  BY <1>1, Working, PlainJob DEF JobFields
<1>3. jobs' = [jobs EXCEPT ![w] = j]
  BY <1>1 DEF GotoWith
<1> QED BY <1>2, <1>3, JobMoves, SameFrame DEF Frame

(***************************************************************************)
(* The steps every broker shares.                                          *)
(***************************************************************************)
(* A step that leaves the account alone. *)
LEMMA SameWhenUnchanged ==
  ASSUME IInv, UNCHANGED <<broker, facts, rows, made, clock, conn>>
  PROVE  SameAccount
BY Parts DEF SameAccount, StateHolds

(* Tick, Widen. *)
LEMMA TickWidenHolds ==
  ASSUME IInv, Tick \/ Widen
  PROVE  IInv'
<1>1. SameAccount /\ jobs' = jobs
  <2>1. CASE Tick
    BY <2>1, Parts DEF Tick, SameAccount, StateHolds
  <2>2. CASE Widen
    BY <2>2, Parts DEF Widen, SameAccount, StateHolds
  <2> QED BY <2>1, <2>2
<1> QED BY <1>1, SameFrame, JobsStay

(* Happen. *)
LEMMA HappenHolds ==
  ASSUME IInv, ConnectionsAssumption, Happen
  PROVE  IInv'
<1>1. Frame /\ jobs' = jobs
  BY Parts, HappenState, HappenJobs DEF Frame, Happen
<1> QED BY <1>1, JobsStay

(* RunConnect. *)
LEMMA RunConnectHolds ==
  ASSUME IInv, ConnectionsAssumption, NEW w \in Workers, NEW k \in Credentials, RunConnect(w, k)
  PROVE  IInv'
<1>1. PICK j : j = ConnectJob(k)
  OBVIOUS
<1>2. SameAccount /\ jobs' = [jobs EXCEPT ![w] = j]
  BY <1>1, SameWhenUnchanged DEF RunConnect
<1>3. JobHolds(j)
  BY <1>1, PlainJob, Parts DEF ConnectJob, JobFields, Informed, StateHolds
<1> QED BY <1>2, <1>3, JobMoves, SameFrame DEF Frame

(* RunSync. *)
LEMMA RunSyncHolds ==
  ASSUME IInv, ConnectionsAssumption, NEW w \in Workers, NEW p, p \notin Informed, RunSync(w, p)
  PROVE  IInv'
<1>1. PICK j : j = SyncJob(w = "cli", p)
  OBVIOUS
<1>2. SameAccount /\ jobs' = [jobs EXCEPT ![w] = j]
  BY <1>1, SameWhenUnchanged DEF RunSync
<1>3. conn.id \in 0..made /\ conn.key \in Credentials
  BY Parts DEF StateHolds, ConnectionHolds, Connection, RunSync
<1>4. JobHolds(j)
  BY <1>1, <1>3, PlainJob DEF SyncJob, JobFields
<1> QED BY <1>2, <1>4, JobMoves, SameFrame DEF Frame

(* CheckKey. *)
LEMMA CheckKeyHolds ==
  ASSUME IInv, ConnectionsAssumption, NEW w \in Workers, CheckKey(w)
  PROVE  IInv'
<1>1. SameAccount /\ jobs[w].pc # "idle"
  BY SameWhenUnchanged DEF CheckKey
<1>2. CASE End(w)
  BY <1>1, <1>2, EndHolds, SameFrame
<1>3. CASE Goto(w, "insert")
  BY <1>1, <1>3, GotoHolds DEF Informed
<1> QED BY <1>2, <1>3 DEF CheckKey

(* TakeSyncLock. *)
LEMMA TakeSyncLockHolds ==
  ASSUME IInv, ConnectionsAssumption, NEW w \in Workers, TakeSyncLock(w)
  PROVE  IInv'
<1>1. SameAccount /\ jobs[w].pc # "idle"
  BY SameWhenUnchanged DEF TakeSyncLock
<1>2. CASE End(w)
  BY <1>1, <1>2, EndHolds, SameFrame
<1>3. CASE Goto(w, "gap")
  BY <1>1, <1>3, GotoHolds DEF Informed
<1> QED BY <1>2, <1>3 DEF TakeSyncLock

(* Fails. *)
LEMMA FailsHolds ==
  ASSUME IInv, ConnectionsAssumption, NEW w \in Workers, NEW calls, Fails(w, calls)
  PROVE  IInv'
BY SameWhenUnchanged, EndHolds, SameFrame DEF Fails

(* Crash: the process, and the stream if it is the scheduler, is idle again. *)
LEMMA CrashHolds ==
  ASSUME IInv, ConnectionsAssumption, NEW w \in Workers, Crash(w)
  PROVE  IInv'
<1>1. Frame
  BY SameWhenUnchanged, SameFrame DEF Crash
<1>2. /\ DOMAIN jobs' = Workers \cup {"stream"}
      /\ \A v \in Workers \cup {"stream"} : jobs'[v] = Idle \/ jobs'[v] = jobs[v]
  BY Parts DEF Crash
<1>3. \A v \in Workers : JobHolds(jobs[v])'
  <2> SUFFICES ASSUME NEW v \in Workers PROVE JobHolds(jobs[v])'
    OBVIOUS
  <2>1. jobs'[v] = Idle \/ jobs'[v] = jobs[v]
    BY <1>2
  <2>2. CASE jobs'[v] = Idle
    BY <2>2 DEF JobHolds, Idle
  <2>3. CASE jobs'[v] = jobs[v]
    BY <2>3, <1>1, Parts DEF Frame
  <2> QED BY <2>1, <2>2, <2>3
<1>4. StreamHolds(jobs["stream"])'
  <2>1. jobs'["stream"] = Idle \/ jobs'["stream"] = jobs["stream"]
    BY <1>2
  <2>2. CASE jobs'["stream"] = Idle
    BY <2>2 DEF StreamHolds, Idle
  <2>3. CASE jobs'["stream"] = jobs["stream"]
    BY <2>3, <1>1, Parts DEF Frame
  <2> QED BY <2>1, <2>2, <2>3
<1> QED BY <1>1, <1>2, <1>3, <1>4, PartsPrimed DEF Frame

(* RunDisconnect. *)
LEMMA RunDisconnectHolds ==
  ASSUME IInv, NEW empty, RunDisconnect(empty)
  PROVE  IInv'
<1>1. Dropped /\ jobs' = jobs
  BY DEF RunDisconnect, Dropped
<1> QED BY <1>1, Parts, DroppedHolds, JobsStay DEF Frame

(* InsertConnection, of a new row or on the one there is. *)
LEMMA InsertConnectionHolds ==
  ASSUME IInv, ConnectionsAssumption, NEW w \in Workers, NEW p, p \notin Informed,
         NEW verified \in Nat \cup {Never}, InsertConnection(w, p, verified)
  PROVE  IInv'
<1>0. /\ jobs[w].pc # "idle" /\ clock \in Nat /\ made \in Nat /\ Len(facts) \in Nat
      /\ conn \in {NoConn} \cup Connection
  BY Parts DEF InsertConnection, StateHolds
<1>1. DOMAIN jobs[w] = JobFields /\ jobs[w].key \in Credentials
  BY <1>0, Working
<1>2. CASE conn = NoConn
  <2>1. PICK j : j = [jobs[w] EXCEPT !.pc = p, !.id = made + 1]
    OBVIOUS
  <2>2. jobs' = [jobs EXCEPT ![w] = j] /\ made' = made + 1
    BY <1>2, <2>1 DEF InsertConnection
  <2>3. Made
    BY <1>0, <1>1, <1>2 DEF InsertConnection, Made, Connection
  <2>4. DOMAIN j = JobFields /\ j.id = made + 1 /\ j.key \in Credentials /\ j.pc = p
    BY <2>1, <1>1 DEF JobFields
  <2>5. JobHolds(j)'
    BY <1>0, <2>2, <2>4 DEF JobHolds, HasUpto, HasFacts, AsksForAll, HasCovered, Covers, Informed, JobFields
  <2> QED BY <2>2, <2>3, <2>5, Parts, MadeHolds, JobMoves DEF Frame
<1>3. CASE conn # NoConn
  <2>1. PICK j : j = [jobs[w] EXCEPT !.pc = p, !.id = conn.id]
    OBVIOUS
  <2>2. jobs' = [jobs EXCEPT ![w] = j]
    BY <1>3, <2>1 DEF InsertConnection
  <2>3. conn' = [conn EXCEPT !.key = jobs[w].key, !.verified = IF verified = Never THEN conn.verified ELSE verified]
    BY <1>3 DEF InsertConnection
  <2>4. /\ conn' \in Connection /\ conn'.id = conn.id /\ conn'.from = conn.from
        /\ conn'.since = conn.since /\ conn'.upto = conn.upto
    BY <1>0, <1>1, <1>3, <2>3 DEF Connection
  <2>5. SameAccount
    BY <1>0, <1>3, <2>4 DEF InsertConnection, SameAccount
  <2>6. conn.id \in 0..made
    BY <1>0, <1>3, Parts DEF StateHolds, ConnectionHolds, Connection
  <2>7. JobHolds(j)
    BY <2>1, <2>6, <1>1, PlainJob DEF JobFields
  <2> QED BY <2>2, <2>5, <2>7, JobMoves, SameFrame DEF Frame
<1> QED BY <1>2, <1>3

(* SaveFact: the facts still to be written are no older than this one, and neither is what was never fetched. *)
LEMMA SaveFactHolds ==
  ASSUME IInv, ConnectionsAssumption, NEW w \in Workers, Identified # {},
         NEW f \in jobs[w].got.queue, NEW row, row = RowOf(f), SaveFact(w, f, row)
  PROVE  IInv'
<1>0. jobs[w].pc = "save"
  BY DEF SaveFact
<1>1. /\ JobHolds(jobs[w]) /\ DOMAIN jobs[w] = JobFields /\ jobs[w].id \in 0..made /\ jobs[w].key \in Credentials
      /\ HasUpto(jobs[w]) /\ HasFacts(jobs[w]) /\ HasCovered(jobs[w])
  BY <1>0, Working
<1>2. /\ "queue" \in DOMAIN jobs[w].got
      /\ \A g \in jobs[w].got.queue : g \in Range(facts) /\ g.table \in Identified
  BY <1>0, <1>1 DEF HasFacts
<1>3. CASE ~Alive(w)
  BY <1>3, SameWhenUnchanged, EndHolds, SameFrame DEF SaveFact
<1>4. CASE Alive(w)
  <2>0. /\ UNCHANGED <<broker, facts, made, clock, conn>> /\ rows' = Upsert(rows, row)
        /\ \A g \in jobs[w].got.queue : ~Precedes(g, f)
        /\ conn # NoConn /\ conn.id = jobs[w].id
    BY <1>4 DEF SaveFact, Alive
  <2>1. RowSaved(f)
    <3> SUFFICES ASSUME broker = "kraken", NEW g, Missing(g), g # f, g.table = f.table
                 PROVE  f.time <= g.time
      BY <1>2, <2>0 DEF RowSaved
    <3>1. f.time \in Nat /\ g.time \in Nat /\ g \in Range(facts)
      BY <1>2, Parts, FactIsItsId DEF Missing, StateHolds
    <3>2. CASE g \in jobs[w].got.queue
      BY <2>0, <3>1, <3>2 DEF Precedes
    <3>3. CASE g \notin jobs[w].got.queue
      BY <1>0, <1>1, <2>0, <3>1, <3>3 DEF HasCovered, Serves, Covers, Awaits
    <3> QED BY <3>2, <3>3
  <2>2. PICK j : j = [jobs[w] EXCEPT !.got.queue = @ \ {f}]
    OBVIOUS
  <2>3. jobs' = [jobs EXCEPT ![w] = j]
    BY <1>4, <2>2 DEF SaveFact
  <2>4. /\ DOMAIN j = JobFields /\ j.pc = "save" /\ j.id = jobs[w].id /\ j.key = jobs[w].key
        /\ DOMAIN j.got = DOMAIN jobs[w].got /\ j.got.queue = jobs[w].got.queue \ {f}
        /\ j.got.upto = jobs[w].got.upto
    <3>1. "got" \in JobFields /\ ("upto" \in DOMAIN jobs[w].got \/ broker = "wallet")
      BY <1>0, <1>1 DEF HasUpto, Informed, JobFields
    <3>2. broker # "wallet"
      BY DEF Identified
    <3> QED BY <1>0, <1>1, <1>2, <2>2, <3>1, <3>2 DEF JobFields
  <2>5. HasCovered(j)'
    <3>1. \A g : Missing(g)' => Missing(g) /\ g # f
      BY <2>1, Parts, SavedMissing
    <3> QED BY <1>0, <1>1, <2>0, <2>4, <3>1 DEF HasCovered, Serves, Covers, Awaits
  <2>6. Identified' = Identified
    BY <2>0, SameBroker
  <2>7. HasUpto(j)' /\ HasFacts(j)' /\ AsksForAll(j)'
    BY <1>0, <1>1, <1>2, <2>0, <2>4, <2>6 DEF HasUpto, HasFacts, AsksForAll, Informed
  <2>8. JobHolds(j)'
    BY <1>1, <2>0, <2>4, <2>5, <2>7 DEF JobHolds
  <2>9. Frame
    BY <2>1, Parts, SavedState, SavedJobs DEF Frame
  <2> QED BY <2>3, <2>8, <2>9, JobMoves
<1> QED BY <1>3, <1>4

(* AllSaved: nothing is awaited any more, so what is missing is beyond what was read. *)
LEMMA AllSavedHolds ==
  ASSUME IInv, ConnectionsAssumption, NEW w \in Workers, NEW next \in {"synced", "decide"}, AllSaved(w, next)
  PROVE  IInv'
<1>0. jobs[w].pc = "save" /\ jobs[w].got.queue = {}
  BY DEF AllSaved
<1>1. /\ DOMAIN jobs[w] = JobFields /\ jobs[w].id \in 0..made /\ jobs[w].key \in Credentials
      /\ HasUpto(jobs[w]) /\ HasCovered(jobs[w])
  BY <1>0, Working
<1>2. PICK j : j = [jobs[w] EXCEPT !.pc = next]
  OBVIOUS
<1>3. jobs' = [jobs EXCEPT ![w] = j] /\ SameAccount
  BY <1>2, SameWhenUnchanged DEF AllSaved, Goto
<1>4. /\ DOMAIN j = JobFields /\ j.pc = next /\ j.id = jobs[w].id /\ j.key = jobs[w].key /\ j.got = jobs[w].got
  BY <1>1, <1>2 DEF JobFields
<1>5. HasUpto(j) /\ HasFacts(j) /\ AsksForAll(j)
  BY <1>0, <1>1, <1>4 DEF HasUpto, HasFacts, AsksForAll, Informed
<1>6. HasCovered(j)
  BY <1>0, <1>1, <1>4 DEF HasCovered, Serves, Covers, Awaits
<1>7. JobHolds(j)
  BY <1>1, <1>4, <1>5, <1>6 DEF JobHolds
<1> QED BY <1>3, <1>7, JobMoves, SameFrame DEF Frame

(* MarkSynced. *)
LEMMA MarkSyncedHolds ==
  ASSUME IInv, ConnectionsAssumption, NEW w \in Workers, NEW upto, MarkSynced(w, upto),
         upto = jobs[w].got.upto \/ (upto = 0 /\ broker = "wallet"),
         broker # "wallet" \/ upto = 0
  PROVE  IInv'
<1>0. jobs[w].pc = "synced" /\ End(w)
  BY DEF MarkSynced
<1>1. HasUpto(jobs[w]) /\ HasCovered(jobs[w])
  BY <1>0, Working
<1>2. CASE ~Alive(w)
  BY <1>0, <1>2, SameWhenUnchanged, EndHolds, SameFrame DEF MarkSynced
<1>3. CASE Alive(w)
  <2>1. upto \in 0..Len(facts)
    <3>1. CASE broker = "wallet"
      BY <3>1, Parts DEF StateHolds
    <3>2. CASE broker # "wallet"
      BY <3>2, <1>0, <1>1 DEF HasUpto, Informed
    <3> QED BY <3>1, <3>2
  <2>2. broker \in {"kraken", "coinbase"} => \A f : Missing(f) => f.id > upto
    BY <1>0, <1>1, <1>3 DEF HasCovered, Serves, Alive, Covers, Awaits, Missing
  <2>3. Marked(upto)
    BY <1>3, <2>1, <2>2 DEF MarkSynced, Marked, Alive
  <2> QED BY <1>0, <2>3, Parts, MarkedHolds, EndHolds DEF Frame
<1> QED BY <1>2, <1>3

(***************************************************************************)
(* Binance.                                                                *)
(***************************************************************************)
(* BinanceHeld. *)
LEMMA BinanceHeldHolds ==
  ASSUME IInv, ConnectionsAssumption, broker = "binance", NEW w \in Workers, NEW listed, BinanceHeld(w, listed)
  PROVE  IInv'
<1>0. jobs[w].pc = "held" /\ SameAccount
  BY SameWhenUnchanged DEF BinanceHeld
<1>1. CASE End(w)
  BY <1>0, <1>1, EndHolds, SameFrame
<1>2. CASE ~End(w)
  <2>1. PICK got : GotoWith(w, "list", got) /\ got.upto = Len(facts) /\ "upto" \in DOMAIN got
    BY <1>2 DEF BinanceHeld
  <2>2. PICK j : j = [jobs[w] EXCEPT !.pc = "list", !.got = got]
    OBVIOUS
  <2>3. jobs' = [jobs EXCEPT ![w] = j]
    BY <2>1, <2>2 DEF GotoWith
  <2>4. DOMAIN jobs[w] = JobFields /\ jobs[w].id \in 0..made /\ jobs[w].key \in Credentials
    BY <1>0, Working
  <2>5. DOMAIN j = JobFields /\ j.pc = "list" /\ j.id = jobs[w].id /\ j.key = jobs[w].key /\ j.got = got
    BY <2>2, <2>4 DEF JobFields
  <2>6. Len(facts) \in Nat
    BY Parts DEF StateHolds
  <2>7. JobHolds(j)
    BY <2>1, <2>4, <2>5, <2>6 DEF JobHolds, HasUpto, HasFacts, AsksForAll, HasCovered, Covers
  <2> QED BY <1>0, <2>3, <2>7, JobMoves, SameFrame DEF Frame
<1> QED BY <1>1, <1>2

(* BinanceList. *)
LEMMA BinanceListHolds ==
  ASSUME IInv, ConnectionsAssumption, broker = "binance", NEW w \in Workers, BinanceList(w)
  PROVE  IInv'
<1>0. jobs[w].pc = "list" /\ SameAccount
  BY SameWhenUnchanged DEF BinanceList
<1>1. PICK got : /\ GotoWith(w, "save", got) /\ got.upto = jobs[w].got.upto /\ DOMAIN got = {"queue", "upto"}
                 /\ \A f \in got.queue : f \in Range(facts) /\ f.table \in {"trade", "flow", "reward"}
  <2>1. PICK q : q = (UNION {MyTrades(a) : a \in jobs[w].got.symbols})
                          \cup DepositsAndWithdrawals \cup EarnRewards(jobs[w].got.earnFrom)
    OBVIOUS
  <2>2. GotoWith(w, "save", [queue |-> q, upto |-> jobs[w].got.upto])
    BY <2>1 DEF BinanceList
  <2>3. \A a : \A f \in MyTrades(a) : f \in Range(facts) /\ f.table \in {"trade", "flow", "reward"}
    BY DEF MyTrades
  <2>4. \A f \in DepositsAndWithdrawals : f \in Range(facts) /\ f.table \in {"trade", "flow", "reward"}
    BY DEF DepositsAndWithdrawals
  <2>5. \A a : \A f \in EarnRewards(a) : f \in Range(facts) /\ f.table \in {"trade", "flow", "reward"}
    BY DEF EarnRewards
  <2>6. \A f \in q : f \in Range(facts) /\ f.table \in {"trade", "flow", "reward"}
    <3>1. \A f \in q : (\E a : f \in MyTrades(a)) \/ f \in DepositsAndWithdrawals \/ f \in EarnRewards(jobs[w].got.earnFrom)
      BY <2>1
    <3> QED BY <3>1, <2>3, <2>4, <2>5
  <2> QED BY <2>2, <2>6
<1>2. PICK j : j = [jobs[w] EXCEPT !.pc = "save", !.got = got]
  OBVIOUS
<1>3. jobs' = [jobs EXCEPT ![w] = j]
  BY <1>1, <1>2 DEF GotoWith
<1>4. DOMAIN jobs[w] = JobFields /\ jobs[w].id \in 0..made /\ jobs[w].key \in Credentials /\ HasUpto(jobs[w])
  BY <1>0, Working
<1>5. DOMAIN j = JobFields /\ j.pc = "save" /\ j.id = jobs[w].id /\ j.key = jobs[w].key /\ j.got = got
  BY <1>2, <1>4 DEF JobFields
<1>6. HasUpto(j) /\ HasFacts(j) /\ AsksForAll(j) /\ HasCovered(j)
  BY <1>0, <1>1, <1>4, <1>5 DEF HasUpto, HasFacts, AsksForAll, HasCovered, Informed, Identified
<1>7. JobHolds(j)
  BY <1>4, <1>5, <1>6 DEF JobHolds
<1> QED BY <1>0, <1>3, <1>7, JobMoves, SameFrame DEF Frame

(* The stream moves. *)
LEMMA StreamMoves ==
  ASSUME IInv, ConnectionsAssumption, Frame, NEW j, StreamHolds(j)', jobs' = [jobs EXCEPT !["stream"] = j]
  PROVE  IInv'
<1>0. "stream" \notin Workers
  BY DEF ConnectionsAssumption
<1>1. DOMAIN jobs' = Workers \cup {"stream"} /\ jobs'["stream"] = j /\ \A v \in Workers : jobs'[v] = jobs[v]
  BY <1>0, Parts
<1>2. StreamHolds(jobs["stream"])'
  BY <1>1
<1>3. \A v \in Workers : JobHolds(jobs[v])'
  BY <1>1, Parts DEF Frame
<1> QED BY <1>1, <1>2, <1>3, PartsPrimed DEF Frame

(* The stream ends. *)
LEMMA StreamEnds ==
  ASSUME IInv, ConnectionsAssumption, Frame, End("stream")
  PROVE  IInv'
<1>1. PICK j : j = Idle
  OBVIOUS
<1>2. StreamHolds(j)' /\ jobs' = [jobs EXCEPT !["stream"] = j]
  BY <1>1 DEF End, StreamHolds, Idle
<1> QED BY <1>2, StreamMoves

(* EnsureStream. *)
LEMMA EnsureStreamHolds ==
  ASSUME IInv, ConnectionsAssumption, EnsureStream
  PROVE  IInv'
<1>1. PICK j : j = [pc |-> "streaming", id |-> conn.id, seen |-> Len(facts)]
  OBVIOUS
<1>2. SameAccount /\ jobs' = [jobs EXCEPT !["stream"] = j]
  BY <1>1, SameWhenUnchanged DEF EnsureStream
<1>3. conn.id \in 0..made /\ Len(facts) \in Nat
  BY Parts DEF StateHolds, ConnectionHolds, Connection, EnsureStream
<1>4. StreamHolds(j)
  BY <1>1, <1>3 DEF StreamHolds
<1> QED BY <1>2, <1>4, StreamMoves, SameFrame DEF Frame

(* StreamEvent: the fill pushed is a fact, written like any other. *)
LEMMA StreamEventHolds ==
  ASSUME IInv, ConnectionsAssumption, broker = "binance", StreamEvent
  PROVE  IInv'
<1> DEFINE f == facts[jobs["stream"].seen + 1]
<1>0. /\ UNCHANGED <<broker, clock, facts, made, conn>>
      /\ jobs["stream"] # Idle /\ jobs["stream"].seen < Len(facts)
  BY DEF StreamEvent
<1>1. /\ DOMAIN jobs["stream"] = {"pc", "id", "seen"} /\ jobs["stream"].id \in 0..made
      /\ jobs["stream"].seen \in Nat /\ Len(facts) \in Nat /\ DOMAIN facts = 1..Len(facts)
  BY <1>0, Parts DEF StreamHolds, StateHolds
<1>2. f \in Range(facts)
  BY <1>0, <1>1 DEF Range
<1>3. CASE ~(f.table # "trade" \/ Alive("stream"))
  <2>1. End("stream") /\ rows' = rows
    BY <1>3 DEF StreamEvent
  <2> QED BY <1>0, <2>1, SameWhenUnchanged, SameFrame, StreamEnds
<1>4. CASE f.table # "trade" \/ Alive("stream")
  <2>1. PICK j : j = [jobs["stream"] EXCEPT !.seen = @ + 1]
    OBVIOUS
  <2>2. jobs' = [jobs EXCEPT !["stream"] = j]
    BY <1>4, <2>1 DEF StreamEvent
  <2>3. StreamHolds(j)
    BY <2>1, <1>1 DEF StreamHolds
  <2>4. Frame
    <3>1. CASE f.table # "trade"
      <4>1. rows' = rows
        BY <1>4, <3>1 DEF StreamEvent
      <4> QED BY <1>0, <4>1, SameWhenUnchanged, SameFrame
    <3>2. CASE f.table = "trade"
      <4>1. rows' = Upsert(rows, RowOf(f))
        BY <1>4, <3>2 DEF StreamEvent, RowOf
      <4>2. f.table \in Identified
        BY <3>2 DEF Identified
      <4>3. RowSaved(f)
        BY <1>0, <1>2, <4>1, <4>2 DEF RowSaved
      <4>4. PICK g : g = f
        OBVIOUS
      <4>5. RowSaved(g)
        BY <4>3, <4>4
      <4> QED BY <4>5, Parts, SavedState, SavedJobs DEF Frame
    <3> QED BY <3>1, <3>2
  <2> QED BY <2>2, <2>3, <2>4, StreamMoves DEF Frame
<1> QED BY <1>3, <1>4

(* Every step of Binance. *)
LEMMA BinanceHolds ==
  ASSUME IInv, ConnectionsAssumption, broker = "binance", BinanceNext
  PROVE  IInv'
<1>1. ASSUME NEW w \in Workers, BinanceStep(w) PROVE IInv'
  <2>1. CASE InsertConnection(w, "held", Never)
    BY <2>1, InsertConnectionHolds DEF Informed, Never
  <2>2. CASE RunSync(w, "held")
    BY <2>2, RunSyncHolds DEF Informed
  <2>3. CASE \E listed \in {{}, BinanceAssets} : BinanceHeld(w, listed)
    BY <2>3, BinanceHeldHolds
  <2>4. CASE BinanceList(w)
    BY <2>4, BinanceListHolds
  <2>5. CASE BinanceSave(w)
    <3>1. CASE AllSaved(w, "synced")
      BY <3>1, AllSavedHolds
    <3>2. ASSUME NEW f \in jobs[w].got.queue, SaveFact(w, f, BinanceRow(f)) PROVE IInv'
      <4>1. PICK row : row = BinanceRow(f)
        OBVIOUS
      <4>2. row = RowOf(f) /\ Identified # {} /\ SaveFact(w, f, row)
        BY <3>2, <4>1 DEF RowOf, Identified
      <4> QED BY <4>2, SaveFactHolds
    <3> QED BY <2>5, <3>1, <3>2 DEF BinanceSave
  <2>6. CASE jobs[w].pc = "synced" /\ MarkSynced(w, jobs[w].got.upto)
    <3>1. PICK upto : upto = jobs[w].got.upto
      OBVIOUS
    <3> QED BY <2>6, <3>1, MarkSyncedHolds
  <2>7. CASE BinanceFails(w)
    BY <2>7, FailsHolds DEF BinanceFails
  <2> QED BY <1>1, <2>1, <2>2, <2>3, <2>4, <2>5, <2>6, <2>7 DEF BinanceStep
<1>2. CASE StreamDrops
  BY <1>2, SameWhenUnchanged, SameFrame, StreamEnds DEF StreamDrops
<1>3. CASE RunDisconnect(EmptyBinance)
  BY <1>3, RunDisconnectHolds
<1> QED BY <1>1, <1>2, <1>3, EnsureStreamHolds, StreamEventHolds DEF BinanceNext

(***************************************************************************)
(* Coinbase.                                                               *)
(***************************************************************************)
(* Once the fills are saved a process carries on with what it has read. *)
LEMMA CarriesOn ==
  ASSUME IInv, ConnectionsAssumption, broker = "coinbase", SameAccount, NEW w \in Workers,
         jobs[w].pc \in {"decide", "record", "snapshot", "reconcile"},
         NEW p \in {"record", "snapshot", "reconcile", "synced"}, NEW got,
         DOMAIN got = DOMAIN jobs[w].got, got.upto = jobs[w].got.upto,
         jobs' = [jobs EXCEPT ![w].pc = p, ![w].got = got]
  PROVE  IInv'
<1>1. PICK j : j = [jobs[w] EXCEPT !.pc = p, !.got = got]
  OBVIOUS
<1>2. jobs' = [jobs EXCEPT ![w] = j]
  BY <1>1
<1>3. /\ DOMAIN jobs[w] = JobFields /\ jobs[w].id \in 0..made /\ jobs[w].key \in Credentials
      /\ HasUpto(jobs[w]) /\ HasCovered(jobs[w])
  BY Working
<1>4. DOMAIN j = JobFields /\ j.pc = p /\ j.id = jobs[w].id /\ j.key = jobs[w].key /\ j.got = got
  BY <1>1, <1>3 DEF JobFields
<1>5. HasUpto(j) /\ HasFacts(j) /\ AsksForAll(j)
  BY <1>3, <1>4 DEF HasUpto, HasFacts, AsksForAll, Informed
<1>6. HasCovered(j)
  BY <1>3, <1>4 DEF HasCovered, Serves, Covers, Awaits
<1>7. JobHolds(j)
  BY <1>3, <1>4, <1>5, <1>6 DEF JobHolds
<1> QED BY <1>2, <1>7, JobMoves, SameFrame DEF Frame

(* The same with nothing but the program counter changed. *)
LEMMA GoesOn ==
  ASSUME IInv, ConnectionsAssumption, broker = "coinbase", SameAccount, NEW w \in Workers,
         jobs[w].pc \in {"decide", "record", "snapshot", "reconcile"},
         NEW p \in {"record", "snapshot", "reconcile", "synced"}, Goto(w, p)
  PROVE  IInv'
<1>1. PICK got : got = jobs[w].got
  OBVIOUS
<1>2. DOMAIN jobs[w] = JobFields
  BY Working
<1>3. [jobs[w] EXCEPT !.pc = p] = [jobs[w] EXCEPT !.pc = p, !.got = got]
  BY <1>1, <1>2 DEF JobFields
<1>4. jobs' = [jobs EXCEPT ![w] = [jobs[w] EXCEPT !.pc = p]]
  BY DEF Goto
<1>5. jobs' = [jobs EXCEPT ![w].pc = p, ![w].got = got]
  BY <1>3, <1>4
<1> QED BY <1>1, <1>5, CarriesOn

(* CoinbaseOpen. *)
LEMMA CoinbaseOpenHolds ==
  ASSUME IInv, ConnectionsAssumption, NEW w \in Workers, CoinbaseOpen(w)
  PROVE  IInv'
<1>1. SameAccount /\ jobs[w].pc # "idle"
  BY SameWhenUnchanged DEF CoinbaseOpen
<1>2. CASE End(w)
  BY <1>1, <1>2, EndHolds, SameFrame
<1>3. CASE ~End(w)
  <2>1. PICK got : GotoWith(w, "balances", got)
    BY <1>3 DEF CoinbaseOpen
  <2> QED BY <1>1, <2>1, GotoWithHolds DEF Informed
<1> QED BY <1>2, <1>3

(* CoinbaseBalances. *)
LEMMA CoinbaseBalancesHolds ==
  ASSUME IInv, ConnectionsAssumption, broker = "coinbase", NEW w \in Workers, NEW n, CoinbaseBalances(w, n)
  PROVE  IInv'
<1>0. jobs[w].pc = "balances" /\ SameAccount
  BY SameWhenUnchanged DEF CoinbaseBalances
<1>1. PICK got : GotoWith(w, "fills", got) /\ got.upto = 0 /\ got.queue = {} /\ {"upto", "queue"} \subseteq DOMAIN got
  BY DEF CoinbaseBalances
<1>2. PICK j : j = [jobs[w] EXCEPT !.pc = "fills", !.got = got]
  OBVIOUS
<1>3. jobs' = [jobs EXCEPT ![w] = j]
  BY <1>1, <1>2 DEF GotoWith
<1>4. DOMAIN jobs[w] = JobFields /\ jobs[w].id \in 0..made /\ jobs[w].key \in Credentials
  BY <1>0, Working
<1>5. DOMAIN j = JobFields /\ j.pc = "fills" /\ j.id = jobs[w].id /\ j.key = jobs[w].key /\ j.got = got
  BY <1>2, <1>4 DEF JobFields
<1>6. Len(facts) \in Nat
  BY Parts DEF StateHolds
<1>7. JobHolds(j)
  BY <1>1, <1>4, <1>5, <1>6 DEF JobHolds, HasUpto, HasFacts, AsksForAll, HasCovered, Covers
<1> QED BY <1>0, <1>3, <1>7, JobMoves, SameFrame DEF Frame

(* CoinbaseFills: every fill since the connection is fetched, so none is missing that is not awaited. *)
LEMMA CoinbaseFillsHolds ==
  ASSUME IInv, ConnectionsAssumption, broker = "coinbase", NEW w \in Workers, CoinbaseFills(w)
  PROVE  IInv'
<1>0. jobs[w].pc = "fills" /\ SameAccount
  BY SameWhenUnchanged DEF CoinbaseFills
<1>1. CASE ~Alive(w)
  BY <1>0, <1>1, EndHolds, SameFrame DEF CoinbaseFills
<1>2. CASE Alive(w)
  <2>1. PICK q : q = FillsSince(conn.since)
    OBVIOUS
  <2>2. PICK j : j = [jobs[w] EXCEPT !.pc = "save", !.got.upto = Len(facts), !.got.queue = q]
    OBVIOUS
  <2>3. jobs' = [jobs EXCEPT ![w] = j]
    BY <1>2, <2>1, <2>2 DEF CoinbaseFills
  <2>4. /\ DOMAIN jobs[w] = JobFields /\ jobs[w].id \in 0..made /\ jobs[w].key \in Credentials
        /\ HasUpto(jobs[w]) /\ HasFacts(jobs[w])
    BY <1>0, Working
  <2>5. "upto" \in DOMAIN jobs[w].got /\ "queue" \in DOMAIN jobs[w].got
    BY <1>0, <2>4 DEF HasUpto, HasFacts, Informed, Identified
  <2>6. /\ DOMAIN j = JobFields /\ j.pc = "save" /\ j.id = jobs[w].id /\ j.key = jobs[w].key
        /\ DOMAIN j.got = DOMAIN jobs[w].got /\ j.got.upto = Len(facts) /\ j.got.queue = q
    BY <2>2, <2>4, <2>5 DEF JobFields
  <2>7. Len(facts) \in Nat
    BY Parts DEF StateHolds
  <2>8. HasUpto(j) /\ HasFacts(j) /\ AsksForAll(j)
    BY <2>1, <2>5, <2>6, <2>7 DEF HasUpto, HasFacts, AsksForAll, Informed, Identified, FillsSince
  <2>9. HasCovered(j)
    <3> SUFFICES ASSUME NEW f, Missing(f) PROVE f \in q
      BY <2>6 DEF HasCovered, Awaits
    <3>1. f \in Range(facts) /\ f.table = "fill" /\ f.id > conn.from
      BY DEF Missing, Identified
    <3>2. f.time >= conn.since
      BY <1>2, <3>1, Parts, FactIsItsId DEF StateHolds, ConnectionHolds, Alive
    <3> QED BY <2>1, <3>1, <3>2 DEF FillsSince
  <2>10. JobHolds(j)
    BY <2>4, <2>6, <2>8, <2>9 DEF JobHolds
  <2> QED BY <1>0, <2>3, <2>10, JobMoves, SameFrame DEF Frame
<1> QED BY <1>1, <1>2

(* CoinbaseDecide. *)
LEMMA CoinbaseDecideHolds ==
  ASSUME IInv, ConnectionsAssumption, broker = "coinbase", NEW w \in Workers, CoinbaseDecide(w)
  PROVE  IInv'
<1>0. jobs[w].pc = "decide" /\ SameAccount
  BY SameWhenUnchanged DEF CoinbaseDecide
<1>1. CASE Goto(w, "record")
  BY <1>0, <1>1, GoesOn
<1>2. CASE End(w)
  BY <1>0, <1>2, EndHolds, SameFrame
<1>3. CASE ~Goto(w, "record") /\ ~End(w)
  <2>1. PICK flows : jobs' = [jobs EXCEPT ![w].pc = "record", ![w].got.flows = flows]
    BY <1>3 DEF CoinbaseDecide
  <2>2. PICK got : got = [jobs[w].got EXCEPT !.flows = flows]
    OBVIOUS
  <2>3. DOMAIN jobs[w] = JobFields /\ HasUpto(jobs[w])
    BY <1>0, Working
  <2>4. "upto" \in DOMAIN jobs[w].got
    BY <1>0, <2>3 DEF HasUpto, Informed
  <2>5. DOMAIN got = DOMAIN jobs[w].got /\ got.upto = jobs[w].got.upto
    BY <2>2, <2>4
  <2>6. jobs' = [jobs EXCEPT ![w].pc = "record", ![w].got = got]
    BY <2>1, <2>2, <2>3 DEF JobFields
  <2> QED BY <1>0, <2>5, <2>6, CarriesOn
<1> QED BY <1>1, <1>2, <1>3

(* CoinbaseRecord. *)
LEMMA CoinbaseRecordHolds ==
  ASSUME IInv, ConnectionsAssumption, broker = "coinbase", NEW w \in Workers, CoinbaseRecord(w)
  PROVE  IInv'
<1>0. jobs[w].pc \in {"record", "snapshot", "reconcile"} /\ SameAccount
  BY SameWhenUnchanged DEF CoinbaseRecord, Recording
<1>1. CASE \E p \in {"snapshot", "reconcile", "synced"} : Goto(w, p)
  BY <1>0, <1>1, GoesOn
<1>2. CASE End(w)
  BY <1>0, <1>2, EndHolds, SameFrame
<1>3. ASSUME NEW flows, jobs[w].pc = "record", jobs' = [jobs EXCEPT ![w].got.flows = flows] PROVE IInv'
  <2>2. PICK got : got = [jobs[w].got EXCEPT !.flows = flows]
    OBVIOUS
  <2>3. DOMAIN jobs[w] = JobFields /\ HasUpto(jobs[w])
    BY <1>0, Working
  <2>4. "upto" \in DOMAIN jobs[w].got
    BY <1>0, <2>3 DEF HasUpto, Informed
  <2>5. DOMAIN got = DOMAIN jobs[w].got /\ got.upto = jobs[w].got.upto
    BY <2>2, <2>4
  <2>6. jobs' = [jobs EXCEPT ![w] = [jobs[w] EXCEPT !.got = got]]
    BY <1>3, <2>2, <2>3 DEF JobFields
  <2>7. [jobs[w] EXCEPT !.got = got] = [jobs[w] EXCEPT !.pc = "record", !.got = got]
    BY <1>3, <2>3 DEF JobFields
  <2>8. jobs' = [jobs EXCEPT ![w].pc = "record", ![w].got = got]
    BY <2>6, <2>7
  <2> QED BY <1>0, <2>5, <2>8, CarriesOn
<1>4. \/ End(w)
      \/ \E p \in {"snapshot", "reconcile", "synced"} : Goto(w, p)
      \/ jobs[w].pc = "record" /\ \E flows : jobs' = [jobs EXCEPT ![w].got.flows = flows]
  BY DEF CoinbaseRecord
<1> QED BY <1>1, <1>2, <1>3, <1>4

(* Every step of Coinbase. *)
LEMMA CoinbaseHolds ==
  ASSUME IInv, ConnectionsAssumption, broker = "coinbase", CoinbaseNext
  PROVE  IInv'
<1>1. ASSUME NEW w \in Workers, CoinbaseStep(w) PROVE IInv'
  <2>1. CASE CoinbaseConnect(w)
    BY <2>1, InsertConnectionHolds DEF Informed, Never, CoinbaseConnect
  <2>2. CASE CoinbaseRun(w)
    BY <2>2, RunSyncHolds DEF Informed, CoinbaseRun
  <2>3. CASE \E n \in 0..Len(facts) : CoinbaseBalances(w, n)
    BY <2>3, CoinbaseBalancesHolds
  <2>4. CASE CoinbaseSave(w)
    <3>1. CASE AllSaved(w, "decide")
      BY <3>1, AllSavedHolds
    <3>2. ASSUME NEW f \in jobs[w].got.queue, SaveFact(w, f, CoinbaseRow(f)) PROVE IInv'
      <4>1. PICK row : row = CoinbaseRow(f)
        OBVIOUS
      <4>2. row = RowOf(f) /\ Identified # {} /\ SaveFact(w, f, row)
        BY <3>2, <4>1 DEF RowOf, Identified
      <4> QED BY <4>2, SaveFactHolds
    <3> QED BY <2>4, <3>1, <3>2 DEF CoinbaseSave
  <2>5. CASE jobs[w].pc = "synced" /\ MarkSynced(w, jobs[w].got.upto)
    <3>1. PICK upto : upto = jobs[w].got.upto
      OBVIOUS
    <3> QED BY <2>5, <3>1, MarkSyncedHolds
  <2>6. CASE CoinbaseFails(w)
    BY <2>6, FailsHolds DEF CoinbaseFails
  <2> QED BY <1>1, <2>1, <2>2, <2>3, <2>4, <2>5, <2>6, CoinbaseOpenHolds, CoinbaseFillsHolds,
             CoinbaseDecideHolds, CoinbaseRecordHolds DEF CoinbaseStep
<1>2. CASE RunDisconnect(EmptyCoinbase)
  BY <1>2, RunDisconnectHolds
<1> QED BY <1>1, <1>2 DEF CoinbaseNext

(***************************************************************************)
(* Kraken.                                                                 *)
(***************************************************************************)
(* Max of a set of naturals that has a bound. *)
LEMMA MaxOfBounded ==
  ASSUME NEW n \in Nat, NEW S, S \subseteq 0..n, S # {}
  PROVE  Max(S) \in S /\ \A y \in S : Max(S) >= y
<1> DEFINE Below == OpToRel(<, Nat)
           T == {n - x : x \in S}
<1>1. IsWellFoundedOn(Below, Nat)
  BY NatLessThanWellFounded
<1>2. \A x, y \in Nat : <<x, y>> \in Below <=> x < y
  BY DEF OpToRel
<1> HIDE DEF Below
<1>3. T \subseteq Nat /\ T # {}
  <2>1. PICK x \in S : TRUE
    OBVIOUS
  <2>2. n - x \in T
    BY <2>1
  <2>3. \A y \in 0..n : n - y \in Nat
    OBVIOUS
  <2> QED BY <2>2, <2>3
<1>4. PICK t \in T : \A u \in T : ~(<<u, t>> \in Below)
  <2> HIDE DEF T
  <2> QED BY <1>1, <1>3, WFMin
<1>5. PICK x \in S : t = n - x
  OBVIOUS
<1>6. \A y \in S : x >= y
  <2> SUFFICES ASSUME NEW y \in S PROVE x >= y
    OBVIOUS
  <2>1. n - y \in T /\ n - y \in Nat /\ t \in Nat /\ x \in 0..n /\ y \in 0..n
    BY <1>3
  <2> HIDE DEF T
  <2>2. ~(n - y < t)
    BY <1>2, <1>4, <2>1
  <2> QED BY <1>5, <2>1, <2>2
<1> QED BY <1>6 DEF Max

(* What a sync asks from is the time of the newest row, or of the connection. *)
LEMMA LatestIsNewest ==
  ASSUME IInv, broker = "kraken", conn # NoConn, NEW t
  PROVE  /\ LatestTime(t) \in 0..clock
         /\ \A i \in DOMAIN rows : rows[i].table = t => rows[i].time <= LatestTime(t)
         /\ LatestTime(t) = conn.since \/ \E i \in DOMAIN rows : rows[i].table = t /\ rows[i].time = LatestTime(t)
<1> DEFINE times == {rows[i].time : i \in {j \in DOMAIN rows : rows[j].table = t}} \cup {conn.since}
<1>1. clock \in Nat /\ conn.since \in 0..clock
  BY Parts, ConnFields DEF StateHolds, ConnectionHolds
<1>2. \A i \in DOMAIN rows : rows[i].time \in 0..clock
  <2> SUFFICES ASSUME NEW i \in DOMAIN rows PROVE rows[i].time \in 0..clock
    OBVIOUS
  <2>1. PICK f \in Range(facts) : rows[i] = RowOf(f)
    BY Parts DEF StateHolds, RowsAreFacts, Identified
  <2> QED BY <2>1, Parts, FactIsItsId, RowFields
<1>3. times \subseteq 0..clock /\ times # {}
  BY <1>1, <1>2
<1>4. Max(times) \in times /\ \A y \in times : Max(times) >= y
  <2> HIDE DEF times
  <2> QED BY <1>1, <1>3, MaxOfBounded
<1>5. LatestTime(t) = Max(times)
  BY DEF LatestTime
<1>6. \A i \in DOMAIN rows : rows[i].table = t => rows[i].time \in times
  OBVIOUS
<1>7. \A y \in times : y = conn.since \/ \E i \in DOMAIN rows : rows[i].table = t /\ rows[i].time = y
  OBVIOUS
<1>8. \A i \in DOMAIN rows : rows[i].table = t => rows[i].time <= LatestTime(t)
  <2> HIDE DEF times
  <2> QED BY <1>1, <1>3, <1>4, <1>5, <1>6
<1> HIDE DEF times
<1> QED BY <1>3, <1>4, <1>5, <1>7, <1>8

(* Nothing missing is older than what a sync asks from. *)
LEMMA NothingOlderMissing ==
  ASSUME IInv, broker = "kraken", conn # NoConn, NEW f, Missing(f)
  PROVE  f.time >= LatestTime(f.table)
<1>1. f \in Range(facts) /\ f.id > conn.from
  BY DEF Missing
<1>2. f.id \in DOMAIN facts /\ facts[f.id] = f /\ f.time \in 0..clock
  BY <1>1, Parts, FactIsItsId
<1>3. f.time >= conn.since
  BY <1>1, <1>2, Parts DEF StateHolds, ConnectionHolds
<1>4. \A i \in DOMAIN rows : rows[i].table = f.table => rows[i].time <= f.time
  BY <1>1, Parts DEF StateHolds, NothingSkipped
<1>5. LatestTime(f.table) \in 0..clock
  BY LatestIsNewest
<1>6. PICK t : t = f.table
  OBVIOUS
<1>7. LatestTime(t) = conn.since \/ \E i \in DOMAIN rows : rows[i].table = t /\ rows[i].time = LatestTime(t)
  BY LatestIsNewest
<1> QED BY <1>2, <1>3, <1>4, <1>5, <1>6, <1>7

(* VerifyIfDue. *)
LEMMA VerifyIfDueHolds ==
  ASSUME IInv, ConnectionsAssumption, NEW w \in Workers, VerifyIfDue(w)
  PROVE  IInv'
<1>1. SameAccount /\ jobs[w].pc # "idle"
  BY SameWhenUnchanged DEF VerifyIfDue
<1>2. CASE End(w)
  BY <1>1, <1>2, EndHolds, SameFrame
<1>3. CASE \E p \in {"lock", "probe"} : Goto(w, p)
  BY <1>1, <1>3, GotoHolds DEF Informed
<1> QED BY <1>2, <1>3 DEF VerifyIfDue

(* Probe. *)
LEMMA ProbeHolds ==
  ASSUME IInv, ConnectionsAssumption, NEW w \in Workers, Probe(w)
  PROVE  IInv'
<1>0. clock \in Nat /\ conn \in {NoConn} \cup Connection /\ jobs[w].pc # "idle"
  BY Parts DEF StateHolds, Probe
<1>1. SameAccount
  <2>1. CASE conn' = conn
    BY <1>0, <2>1 DEF Probe, SameAccount
  <2>2. CASE conn' # conn
    <3>1. conn # NoConn /\ conn' = [conn EXCEPT !.verified = clock]
      BY <2>2 DEF Probe, Alive
    <3>2. /\ conn' \in Connection /\ conn'.id = conn.id /\ conn'.from = conn.from
          /\ conn'.since = conn.since /\ conn'.upto = conn.upto
      BY <1>0, <3>1 DEF Connection
    <3> QED BY <1>0, <3>1, <3>2 DEF Probe, SameAccount
  <2> QED BY <2>1, <2>2
<1>2. CASE End(w)
  BY <1>1, <1>2, EndHolds, SameFrame
<1>3. CASE Goto(w, "lock")
  BY <1>0, <1>1, <1>3, GotoHolds DEF Informed
<1> QED BY <1>2, <1>3 DEF Probe

(* KrakenFrom: what it will ask from is no later than anything missing. *)
LEMMA KrakenFromHolds ==
  ASSUME IInv, ConnectionsAssumption, broker = "kraken", NEW w \in Workers, KrakenFrom(w)
  PROVE  IInv'
<1>0. jobs[w].pc = "gap" /\ SameAccount
  BY SameWhenUnchanged DEF KrakenFrom
<1>1. CASE End(w)
  BY <1>0, <1>1, EndHolds, SameFrame
<1>2. CASE ~End(w)
  <2>0. conn # NoConn
    BY <1>2 DEF KrakenFrom, Alive
  <2>1. PICK from : from = [t \in {"trade", "ledger"} |-> LatestTime(t)]
    OBVIOUS
  <2>2. PICK got : got = [from |-> from, queue |-> {}, upto |-> Len(facts)]
    OBVIOUS
  <2>3. PICK j : j = [jobs[w] EXCEPT !.pc = "trades", !.got = got]
    OBVIOUS
  <2>4. jobs' = [jobs EXCEPT ![w] = j]
    BY <1>2, <2>1, <2>2, <2>3 DEF KrakenFrom, GotoWith
  <2>5. DOMAIN jobs[w] = JobFields /\ jobs[w].id \in 0..made /\ jobs[w].key \in Credentials
    BY <1>0, Working
  <2>6. /\ DOMAIN j = JobFields /\ j.pc = "trades" /\ j.id = jobs[w].id /\ j.key = jobs[w].key
        /\ DOMAIN j.got = {"from", "queue", "upto"} /\ j.got.from = from /\ j.got.queue = {} /\ j.got.upto = Len(facts)
    BY <2>2, <2>3, <2>5 DEF JobFields
  <2>7. Len(facts) \in Nat /\ Identified = {"trade", "ledger"}
    BY Parts DEF StateHolds, Identified
  <2>8. HasUpto(j) /\ HasFacts(j) /\ HasCovered(j)
    BY <2>6, <2>7 DEF HasUpto, HasFacts, HasCovered, Covers
  <2>9. AsksForAll(j)
    <3>1. \A t \in Identified : from[t] = LatestTime(t)
      BY <2>1, <2>7
    <3>2. \A t \in Identified : from[t] \in 0..clock
      BY <2>0, <3>1, LatestIsNewest
    <3>3. ASSUME NEW f, Missing(f) PROVE f.time >= from[f.table]
      BY <2>0, <3>1, <3>3, NothingOlderMissing DEF Missing
    <3> QED BY <2>6, <3>2, <3>3 DEF AsksForAll
  <2>10. JobHolds(j)
    BY <2>5, <2>6, <2>8, <2>9 DEF JobHolds
  <2> QED BY <1>0, <2>4, <2>10, JobMoves, SameFrame DEF Frame
<1> QED BY <1>1, <1>2

(* KrakenFetch: whatever is missing of the listing is fetched. *)
LEMMA KrakenFetchHolds ==
  ASSUME IInv, ConnectionsAssumption, broker = "kraken", NEW w \in Workers, KrakenFetch(w)
  PROVE  IInv'
<1>0. jobs[w].pc \in {"trades", "ledger"} /\ SameAccount
  BY SameWhenUnchanged DEF KrakenFetch
<1>1. /\ DOMAIN jobs[w] = JobFields /\ jobs[w].id \in 0..made /\ jobs[w].key \in Credentials
      /\ HasUpto(jobs[w]) /\ HasFacts(jobs[w]) /\ AsksForAll(jobs[w]) /\ HasCovered(jobs[w])
  BY <1>0, Working
<1>2. Identified = {"trade", "ledger"} /\ clock \in Nat
  BY Parts DEF Identified, StateHolds
<1>3. /\ "upto" \in DOMAIN jobs[w].got /\ jobs[w].got.upto \in 0..Len(facts) /\ "queue" \in DOMAIN jobs[w].got
      /\ "from" \in DOMAIN jobs[w].got /\ \A t \in Identified : jobs[w].got.from[t] \in 0..clock
      /\ \A f \in jobs[w].got.queue : f \in Range(facts) /\ f.table \in Identified
  BY <1>0, <1>1, <1>2 DEF HasUpto, HasFacts, AsksForAll, Informed
<1>4. PICK t : t = IF jobs[w].pc = "trades" THEN "trade" ELSE "ledger"
  OBVIOUS
<1>5. PICK q : q = jobs[w].got.queue \cup Listing(t, jobs[w].got.from[t])
  OBVIOUS
<1>6. \A f \in q : f \in Range(facts) /\ f.table \in Identified /\ (f \in jobs[w].got.queue \/ f.table = t)
  BY <1>2, <1>3, <1>4, <1>5 DEF Listing
<1>7. ASSUME Serves(jobs[w]), NEW f, Missing(f), f.table = t PROVE f \in q
  <2>1. f.time >= jobs[w].got.from[t] /\ f \in Range(facts)
    BY <1>0, <1>1, <1>7 DEF AsksForAll, Missing
  <2>2. f.time \in 0..clock /\ jobs[w].got.from[t] \in 0..clock
    BY <1>2, <1>3, <1>4, <2>1, Parts, FactIsItsId
  <2> QED BY <1>5, <1>7, <2>1, <2>2 DEF Listing
<1>8. CASE jobs[w].pc = "trades"
  <2>1. PICK j : j = [jobs[w] EXCEPT !.pc = "ledger", !.got.queue = q]
    OBVIOUS
  <2>2. jobs' = [jobs EXCEPT ![w] = j]
    BY <1>4, <1>5, <1>8, <2>1 DEF KrakenFetch
  <2>3. /\ DOMAIN j = JobFields /\ j.pc = "ledger" /\ j.id = jobs[w].id /\ j.key = jobs[w].key
        /\ DOMAIN j.got = DOMAIN jobs[w].got /\ j.got.queue = q
        /\ j.got.upto = jobs[w].got.upto /\ j.got.from = jobs[w].got.from
    BY <2>1, <1>1, <1>3 DEF JobFields
  <2>4. HasUpto(j) /\ HasFacts(j)
    BY <1>3, <1>6, <2>3 DEF HasUpto, HasFacts
  <2>5. AsksForAll(j)
    BY <1>1, <1>8, <2>3 DEF AsksForAll, Serves
  <2>6. HasCovered(j)
    <3> SUFFICES ASSUME Serves(j), NEW f, Missing(f), Covers(j, f), ~Awaits(j, f) PROVE FALSE
      BY DEF HasCovered
    <3>1. f.table = t
      BY <1>4, <1>8, <2>3 DEF Covers
    <3> QED BY <1>7, <2>3, <3>1 DEF Serves, Awaits
  <2>7. JobHolds(j)
    BY <1>1, <2>3, <2>4, <2>5, <2>6 DEF JobHolds
  <2> QED BY <1>0, <2>2, <2>7, JobMoves, SameFrame DEF Frame
<1>9. CASE jobs[w].pc = "ledger"
  <2>0. PICK got : got = [queue |-> q, upto |-> jobs[w].got.upto]
    OBVIOUS
  <2>1. PICK j : j = [jobs[w] EXCEPT !.pc = "save", !.got = got]
    OBVIOUS
  <2>2. jobs' = [jobs EXCEPT ![w] = j]
    BY <1>4, <1>5, <1>9, <2>0, <2>1 DEF KrakenFetch, GotoWith
  <2>3. /\ DOMAIN j = JobFields /\ j.pc = "save" /\ j.id = jobs[w].id /\ j.key = jobs[w].key
        /\ DOMAIN j.got = {"queue", "upto"} /\ j.got.queue = q /\ j.got.upto = jobs[w].got.upto
    BY <2>0, <2>1, <1>1, <1>3 DEF JobFields
  <2>4. HasUpto(j) /\ HasFacts(j) /\ AsksForAll(j)
    BY <1>3, <1>6, <2>3 DEF HasUpto, HasFacts, AsksForAll
  <2>6. HasCovered(j)
    <3> SUFFICES ASSUME Serves(j), NEW f, Missing(f), ~Awaits(j, f)
                 PROVE  f.id > j.got.upto /\ \A g \in q : g.table = f.table => g.time <= f.time
      BY <2>3 DEF HasCovered
    <3>1. Serves(jobs[w]) /\ f \notin q
      BY <2>3 DEF Serves, Awaits
    <3>2. f.table = "trade" /\ f \notin jobs[w].got.queue /\ t = "ledger"
      BY <1>2, <1>4, <1>5, <1>7, <1>9, <3>1 DEF Missing
    <3>3. f.id > jobs[w].got.upto /\ \A g \in jobs[w].got.queue : g.table = f.table => g.time <= f.time
      BY <1>1, <1>9, <3>1, <3>2 DEF HasCovered, Covers, Awaits, Missing
    <3> QED BY <1>6, <2>3, <3>2, <3>3
  <2>7. JobHolds(j)
    BY <1>1, <2>3, <2>4, <2>6 DEF JobHolds
  <2> QED BY <1>0, <2>2, <2>7, JobMoves, SameFrame DEF Frame
<1> QED BY <1>0, <1>8, <1>9

(* Every step of Kraken. *)
LEMMA KrakenHolds ==
  ASSUME IInv, ConnectionsAssumption, broker = "kraken", KrakenNext
  PROVE  IInv'
<1>1. ASSUME NEW w \in Workers, KrakenStep(w) PROVE IInv'
  <2>1. CASE KrakenConnect(w)
    <3>1. clock \in Nat
      BY Parts DEF StateHolds
    <3>2. PICK verified : verified = clock
      OBVIOUS
    <3>3. InsertConnection(w, "lock", verified) /\ verified \in Nat \cup {Never}
      BY <2>1, <3>1, <3>2 DEF KrakenConnect
    <3> QED BY <3>3, InsertConnectionHolds DEF Informed
  <2>2. CASE KrakenRun(w)
    BY <2>2, RunSyncHolds DEF Informed, KrakenRun
  <2>3. CASE KrakenSave(w)
    <3>1. CASE AllSaved(w, "synced")
      BY <3>1, AllSavedHolds
    <3>2. ASSUME NEW f \in jobs[w].got.queue, SaveFact(w, f, KrakenRow(f)) PROVE IInv'
      <4>1. PICK row : row = KrakenRow(f)
        OBVIOUS
      <4>2. row = RowOf(f) /\ Identified # {} /\ SaveFact(w, f, row)
        BY <3>2, <4>1 DEF RowOf, Identified
      <4> QED BY <4>2, SaveFactHolds
    <3> QED BY <2>3, <3>1, <3>2 DEF KrakenSave
  <2>4. CASE jobs[w].pc = "synced" /\ MarkSynced(w, jobs[w].got.upto)
    <3>1. PICK upto : upto = jobs[w].got.upto
      OBVIOUS
    <3> QED BY <2>4, <3>1, MarkSyncedHolds
  <2>5. CASE KrakenFails(w)
    BY <2>5, FailsHolds DEF KrakenFails
  <2> QED BY <1>1, <2>1, <2>2, <2>3, <2>4, <2>5, VerifyIfDueHolds, ProbeHolds, TakeSyncLockHolds,
             KrakenFromHolds, KrakenFetchHolds DEF KrakenStep
<1>2. CASE RunDisconnect(EmptyKraken)
  BY <1>2, RunDisconnectHolds
<1> QED BY <1>1, <1>2 DEF KrakenNext

(***************************************************************************)
(* Wallets and IBKR.                                                       *)
(***************************************************************************)
(* WalletStart. *)
LEMMA WalletStartHolds ==
  ASSUME IInv, ConnectionsAssumption, NEW w \in Workers, WalletStart(w)
  PROVE  IInv'
<1>1. SameAccount /\ jobs[w].pc # "idle"
  BY SameWhenUnchanged DEF WalletStart
<1>2. CASE End(w)
  BY <1>1, <1>2, EndHolds, SameFrame
<1>3. CASE ~End(w)
  <2>1. PICK got : GotoWith(w, "read", got)
    BY <1>3 DEF WalletStart
  <2> QED BY <1>1, <2>1, GotoWithHolds DEF Informed
<1> QED BY <1>2, <1>3

(* A job of a wallet is any job: nothing is followed of what it has read. *)
LEMMA WalletJob ==
  ASSUME IInv, ConnectionsAssumption, broker = "wallet", SameAccount, NEW w \in Workers, jobs[w].pc # "idle",
         NEW j, DOMAIN j = JobFields, j.id = jobs[w].id, j.key = jobs[w].key, jobs' = [jobs EXCEPT ![w] = j]
  PROVE  IInv'
<1>1. jobs[w].id \in 0..made /\ jobs[w].key \in Credentials
  BY Working
<1>2. JobHolds(j)
  BY <1>1 DEF JobHolds, HasUpto, HasFacts, AsksForAll, HasCovered, Identified
<1> QED BY <1>2, JobMoves, SameFrame DEF Frame

(* ReadNetwork. *)
LEMMA ReadNetworkHolds ==
  ASSUME IInv, ConnectionsAssumption, broker = "wallet", NEW w \in Workers, NEW lagging, NEW listed,
         ReadNetwork(w, lagging, listed)
  PROVE  IInv'
<1>1. SameAccount /\ jobs[w].pc # "idle" /\ DOMAIN jobs[w] = JobFields
  BY SameWhenUnchanged, Working DEF ReadNetwork
<1>2. \/ jobs' = [jobs EXCEPT ![w].got.todo = Tail(@)]
      \/ jobs' = [jobs EXCEPT ![w].got.todo = Tail(@), ![w].got.failed = TRUE]
      \/ \E r : jobs' = [jobs EXCEPT ![w].pc = "persist", ![w].got.todo = Tail(@), ![w].got.reading = r]
  BY DEF ReadNetwork
<1>3. CASE jobs' = [jobs EXCEPT ![w].got.todo = Tail(@)]
  <2>1. PICK j : j = [jobs[w] EXCEPT !.got.todo = Tail(@)]
    OBVIOUS
  <2>2. DOMAIN j = JobFields /\ j.id = jobs[w].id /\ j.key = jobs[w].key /\ jobs' = [jobs EXCEPT ![w] = j]
    BY <1>1, <1>3, <2>1 DEF JobFields
  <2> QED BY <1>1, <2>2, WalletJob
<1>4. CASE jobs' = [jobs EXCEPT ![w].got.todo = Tail(@), ![w].got.failed = TRUE]
  <2>1. PICK j : j = [jobs[w] EXCEPT !.got.todo = Tail(@), !.got.failed = TRUE]
    OBVIOUS
  <2>2. DOMAIN j = JobFields /\ j.id = jobs[w].id /\ j.key = jobs[w].key /\ jobs' = [jobs EXCEPT ![w] = j]
    BY <1>1, <1>4, <2>1 DEF JobFields
  <2> QED BY <1>1, <2>2, WalletJob
<1>5. ASSUME NEW r, jobs' = [jobs EXCEPT ![w].pc = "persist", ![w].got.todo = Tail(@), ![w].got.reading = r]
      PROVE  IInv'
  <2>1. PICK j : j = [jobs[w] EXCEPT !.pc = "persist", !.got.todo = Tail(@), !.got.reading = r]
    OBVIOUS
  <2>2. DOMAIN j = JobFields /\ j.id = jobs[w].id /\ j.key = jobs[w].key /\ jobs' = [jobs EXCEPT ![w] = j]
    BY <1>1, <1>5, <2>1 DEF JobFields
  <2> QED BY <1>1, <2>2, WalletJob
<1> QED BY <1>2, <1>3, <1>4, <1>5

(* Persist. *)
LEMMA PersistHolds ==
  ASSUME IInv, ConnectionsAssumption, broker = "wallet", NEW w \in Workers, Persist(w)
  PROVE  IInv'
<1>1. SameAccount /\ jobs[w].pc # "idle" /\ DOMAIN jobs[w] = JobFields
  BY SameWhenUnchanged, Working DEF Persist
<1>2. CASE Goto(w, "read")
  BY <1>1, <1>2, GotoHolds DEF Informed
<1>3. CASE jobs' = [jobs EXCEPT ![w].pc = "read", ![w].got.failed = TRUE]
  <2>1. PICK j : j = [jobs[w] EXCEPT !.pc = "read", !.got.failed = TRUE]
    OBVIOUS
  <2>2. DOMAIN j = JobFields /\ j.id = jobs[w].id /\ j.key = jobs[w].key /\ jobs' = [jobs EXCEPT ![w] = j]
    BY <1>1, <1>3, <2>1 DEF JobFields
  <2> QED BY <1>1, <2>2, WalletJob
<1> QED BY <1>2, <1>3 DEF Persist

(* WalletDone. *)
LEMMA WalletDoneHolds ==
  ASSUME IInv, ConnectionsAssumption, broker = "wallet", NEW w \in Workers, WalletDone(w)
  PROVE  IInv'
<1>1. jobs[w].pc # "idle" /\ DOMAIN jobs[w] = JobFields
  BY Working DEF WalletDone
<1>2. CASE conn' = conn /\ End(w)
  BY <1>2, SameWhenUnchanged, SameFrame, EndHolds DEF WalletDone
<1>3. CASE conn' = conn /\ Goto(w, "synced")
  <2>1. PICK j : j = [jobs[w] EXCEPT !.pc = "synced"]
    OBVIOUS
  <2>2. DOMAIN j = JobFields /\ j.id = jobs[w].id /\ j.key = jobs[w].key /\ jobs' = [jobs EXCEPT ![w] = j]
    BY <1>1, <1>3, <2>1 DEF JobFields, Goto
  <2>3. SameAccount
    BY <1>3, SameWhenUnchanged DEF WalletDone
  <2> QED BY <1>1, <2>2, <2>3, WalletJob
<1>4. CASE conn' = NoConn /\ End(w)
  <2>1. Dropped
    BY <1>4 DEF WalletDone, Dropped, Identified
  <2> QED BY <1>4, <2>1, Parts, DroppedHolds, EndHolds DEF Frame
<1> QED BY <1>2, <1>3, <1>4 DEF WalletDone

(* Every step of a wallet. *)
LEMMA WalletHolds ==
  ASSUME IInv, ConnectionsAssumption, broker = "wallet", WalletNext
  PROVE  IInv'
<1>1. ASSUME NEW w \in Workers, WalletStep(w) PROVE IInv'
  <2>1. CASE WalletConnect(w)
    BY <2>1, InsertConnectionHolds DEF Informed, Never, WalletConnect
  <2>2. CASE WalletRun(w)
    BY <2>2, RunSyncHolds DEF Informed, WalletRun
  <2>3. CASE \E lagging \in BOOLEAN, listed \in BOOLEAN : ReadNetwork(w, lagging, listed)
    BY <2>3, ReadNetworkHolds
  <2>4. CASE MarkSynced(w, 0)
    BY <2>4, MarkSyncedHolds
  <2> QED BY <1>1, <2>1, <2>2, <2>3, <2>4, TakeSyncLockHolds, WalletStartHolds, PersistHolds,
             WalletDoneHolds DEF WalletStep
<1>2. CASE RunDisconnect(EmptyWallet)
  BY <1>2, RunDisconnectHolds
<1> QED BY <1>1, <1>2 DEF WalletNext

(* IbkrFetch. *)
LEMMA IbkrFetchHolds ==
  ASSUME IInv, ConnectionsAssumption, broker = "ibkr", NEW w \in Workers, IbkrFetch(w)
  PROVE  IInv'
<1>0. jobs[w].pc = "fetch" /\ SameAccount
  BY SameWhenUnchanged DEF IbkrFetch
<1>1. CASE End(w)
  BY <1>0, <1>1, EndHolds, SameFrame
<1>2. CASE ~End(w)
  <2>1. PICK got : GotoWith(w, "store", got) /\ got.upto = Len(facts) /\ "upto" \in DOMAIN got
    BY <1>2 DEF IbkrFetch
  <2>2. PICK j : j = [jobs[w] EXCEPT !.pc = "store", !.got = got]
    OBVIOUS
  <2>3. jobs' = [jobs EXCEPT ![w] = j]
    BY <2>1, <2>2 DEF GotoWith
  <2>4. DOMAIN jobs[w] = JobFields /\ jobs[w].id \in 0..made /\ jobs[w].key \in Credentials
    BY <1>0, Working
  <2>5. DOMAIN j = JobFields /\ j.pc = "store" /\ j.id = jobs[w].id /\ j.key = jobs[w].key /\ j.got = got
    BY <2>2, <2>4 DEF JobFields
  <2>6. Len(facts) \in Nat
    BY Parts DEF StateHolds
  <2>7. JobHolds(j)
    BY <2>1, <2>4, <2>5, <2>6 DEF JobHolds, HasUpto, HasFacts, AsksForAll, HasCovered
  <2> QED BY <1>0, <2>3, <2>7, JobMoves, SameFrame DEF Frame
<1> QED BY <1>1, <1>2

(* StoreLine. *)
LEMMA StoreLineHolds ==
  ASSUME IInv, ConnectionsAssumption, broker = "ibkr", NEW w \in Workers, StoreLine(w)
  PROVE  IInv'
<1>0. jobs[w].pc = "store" /\ UNCHANGED <<broker, facts, made, clock, conn>>
  BY DEF StoreLine
<1>1. /\ DOMAIN jobs[w] = JobFields /\ jobs[w].id \in 0..made /\ jobs[w].key \in Credentials
      /\ HasUpto(jobs[w])
  BY <1>0, Working
<1>2. "upto" \in DOMAIN jobs[w].got /\ jobs[w].got.upto \in 0..Len(facts)
  BY <1>0, <1>1 DEF HasUpto, Informed
<1>3. rows' \in Seq(Range(rows'))
  <2>1. \A row : Upsert(rows, row) \in Seq(Range(Upsert(rows, row)))
    <3> SUFFICES ASSUME NEW row PROVE Upsert(rows, row) \in Seq(Range(Upsert(rows, row)))
      OBVIOUS
    <3>1. PICK new : new = Upsert(rows, row)
      OBVIOUS
    <3>2. PICK k : k = row.key
      OBVIOUS
    <3>3. rows \in Seq(Range(rows))
      BY Parts DEF StateHolds
    <3>4. new \in Seq(Range(new))
      BY <3>1, <3>2, <3>3, UpsertAppends
    <3> QED BY <3>1, <3>4
  <2>2. rows' = rows \/ \E row : rows' = Upsert(rows, row)
    BY DEF StoreLine
  <2> QED BY <2>1, <2>2, Parts DEF StateHolds
<1>4. Frame
  BY <1>0, <1>3, Parts, UntoldHolds DEF Untold, Frame
<1>5. CASE End(w)
  BY <1>4, <1>5, EndHolds
<1>6. CASE Goto(w, "synced")
  <2>1. PICK j : j = [jobs[w] EXCEPT !.pc = "synced"]
    OBVIOUS
  <2>2. jobs' = [jobs EXCEPT ![w] = j]
    BY <1>6, <2>1 DEF Goto
  <2>3. DOMAIN j = JobFields /\ j.pc = "synced" /\ j.id = jobs[w].id /\ j.key = jobs[w].key /\ j.got = jobs[w].got
    BY <2>1, <1>1 DEF JobFields
  <2>4. JobHolds(j)
    BY <1>1, <1>2, <2>3 DEF JobHolds, HasUpto, HasFacts, AsksForAll, HasCovered
  <2> QED BY <1>4, <2>2, <2>4, JobMoves DEF Frame
<1>7. CASE jobs' = [jobs EXCEPT ![w].got.queue = Tail(@)]
  <2>1. PICK j : j = [jobs[w] EXCEPT !.got.queue = Tail(@)]
    OBVIOUS
  <2>2. jobs' = [jobs EXCEPT ![w] = j]
    BY <1>7, <2>1
  <2>3. /\ DOMAIN j = JobFields /\ j.pc = "store" /\ j.id = jobs[w].id /\ j.key = jobs[w].key
        /\ DOMAIN j.got = DOMAIN jobs[w].got /\ j.got.upto = jobs[w].got.upto
    BY <1>0, <1>1, <1>2, <2>1 DEF JobFields
  <2>4. JobHolds(j)
    BY <1>1, <1>2, <2>3 DEF JobHolds, HasUpto, HasFacts, AsksForAll, HasCovered
  <2> QED BY <1>4, <2>2, <2>4, JobMoves DEF Frame
<1> QED BY <1>5, <1>6, <1>7 DEF StoreLine

(* Every step of IBKR. *)
LEMMA IbkrHolds ==
  ASSUME IInv, ConnectionsAssumption, broker = "ibkr", IbkrNext
  PROVE  IInv'
<1>1. ASSUME NEW w \in Workers, IbkrStep(w) PROVE IInv'
  <2>1. CASE IbkrConnect(w)
    BY <2>1, InsertConnectionHolds DEF Informed, Never, IbkrConnect
  <2>2. CASE IbkrRun(w)
    BY <2>2, RunSyncHolds DEF Informed, IbkrRun
  <2>3. CASE IbkrFails(w)
    BY <2>3, FailsHolds DEF IbkrFails
  <2>4. CASE jobs[w].pc = "synced" /\ MarkSynced(w, jobs[w].got.upto)
    <3>1. PICK upto : upto = jobs[w].got.upto
      OBVIOUS
    <3> QED BY <2>4, <3>1, MarkSyncedHolds
  <2> QED BY <1>1, <2>1, <2>2, <2>3, <2>4, IbkrFetchHolds, StoreLineHolds DEF IbkrStep
<1>2. CASE RunDisconnect(EmptyIbkr)
  BY <1>2, RunDisconnectHolds
<1> QED BY <1>1, <1>2 DEF IbkrNext

(***************************************************************************)
(* The invariant holds.                                                    *)
(***************************************************************************)
(* Nothing has happened and nothing is connected. *)
LEMMA InitHolds ==
  ASSUME ConnectionsAssumption, Init
  PROVE  IInv
<1>1. facts = << >> /\ rows = << >> /\ conn = NoConn /\ clock = 0 /\ made = 0 /\ broker \in Brokers
  BY DEF Init
<1>2. DOMAIN facts = {} /\ DOMAIN rows = {} /\ facts \in Seq(Range(facts)) /\ rows \in Seq(Range(rows))
  BY <1>1
<1>3. StateHolds
  BY <1>1, <1>2 DEF StateHolds, FactsOrdered, ConnectionHolds, RowsAreFacts, NothingSkipped, SyncedIsCurrent
<1>4. /\ DOMAIN jobs = Workers \cup {"stream"} /\ StreamHolds(jobs["stream"])
      /\ \A w \in Workers : JobHolds(jobs[w])
  BY DEF Init, StreamHolds, JobHolds
<1> QED BY <1>3, <1>4, Parts

(* Every step keeps the invariant. *)
LEMMA NextHolds ==
  ASSUME IInv, ConnectionsAssumption, [Next]_vars
  PROVE  IInv'
<1>1. CASE Happen
  BY <1>1, HappenHolds
<1>2. CASE Tick \/ Widen
  BY <1>2, TickWidenHolds
<1>3. CASE \E w \in Workers, k \in Credentials : RunConnect(w, k)
  BY <1>3, RunConnectHolds
<1>4. CASE \E w \in Workers : CheckKey(w) \/ Crash(w)
  BY <1>4, CheckKeyHolds, CrashHolds
<1>5. CASE BrokerNext
  BY <1>5, BinanceHolds, CoinbaseHolds, KrakenHolds, WalletHolds, IbkrHolds DEF BrokerNext
<1>6. CASE UNCHANGED vars
  <2>1. SameAccount /\ jobs' = jobs
    BY <1>6, SameWhenUnchanged DEF vars
  <2> QED BY <2>1, SameFrame, JobsStay
<1> QED BY <1>1, <1>2, <1>3, <1>4, <1>5, <1>6 DEF Next

(* The inductive invariant of the collector worker: for any number of facts,
   syncs, crashes and reconnections, whichever of a command, the scheduler and
   the trade stream takes the next statement, what a running sync has still to
   write together with what happened after it read is all that is missing. *)
THEOREM WorkerInvariance == Spec => []IInv
<1>1. Init => IInv
  BY InitHolds, ConnectionsAssumption
<1>2. IInv /\ [Next]_vars => IInv'
  BY NextHolds, ConnectionsAssumption
<1> QED BY <1>1, <1>2, PTL DEF Spec

(* Kraken and Coinbase: a sync that went through left no fact behind that it
   could read, although others overlapped it or died half way (SyncedIsCurrent). *)
THEOREM SyncedSafe == Spec => []SyncedIsCurrent
<1>1. IInv => SyncedIsCurrent
  BY DEF IInv
<1> QED BY <1>1, WorkerInvariance, PTL

(* Kraken: the rows are never newer than a fact that is missing of their
   table, so asking from the newest row on skips nothing (NoGap). *)
THEOREM NoGapSafe == Spec => []NoGap
<1>1. IInv => NoGap
  <2> SUFFICES ASSUME IInv, broker = "kraken", conn # NoConn, NEW t \in Identified,
                      NEW i \in (conn.from + 1)..Len(facts), facts[i].table = t, facts[i].time < LatestTime(t)
               PROVE  Stored(facts[i])
    BY DEF NoGap
  <2>1. conn.from \in Nat /\ Len(facts) \in Nat /\ DOMAIN facts = 1..Len(facts)
    BY Parts, ConnFields DEF StateHolds
  <2>2. i \in DOMAIN facts /\ i > conn.from /\ facts[i] \in Range(facts) /\ facts[i].id = i
    <3>1. i \in DOMAIN facts /\ i > conn.from
      BY <2>1
    <3>2. FactsOrdered
      BY Parts DEF StateHolds
    <3> QED BY <3>1, <3>2 DEF FactsOrdered, Range
  <2>3. PICK f : f = facts[i]
    OBVIOUS
  <2>4. f.time \in 0..clock /\ LatestTime(t) \in 0..clock /\ clock \in Nat
    BY <2>2, <2>3, Parts, FactIsItsId, LatestIsNewest DEF StateHolds
  <2>5. ~Missing(f)
    <3> SUFFICES ASSUME Missing(f) PROVE FALSE
      OBVIOUS
    <3>1. f.time >= LatestTime(f.table)
      BY NothingOlderMissing
    <3> QED BY <2>3, <2>4, <3>1
  <2> QED BY <2>2, <2>3, <2>5 DEF Missing
<1> QED BY <1>1, WorkerInvariance, PTL

(***************************************************************************)
(* The rows are a FactStore.                                               *)
(***************************************************************************)
(* What a step does to the facts and to the rows. *)
StoreKind ==
  /\ broker' = broker
  /\ \/ rows' = rows /\ (facts' = facts \/ Happen)
     \/ facts' = facts /\ rows' = << >>
     \/ facts' = facts /\ Identified = {}
     \/ /\ facts' = facts
        /\ \E f \in Range(facts) : f.table \in Identified /\ rows' = Upsert(rows, RowOf(f))

(* SaveFact writes a fact the broker lists. *)
LEMMA SaveKind ==
  ASSUME IInv, NEW w \in Workers, Identified # {}, NEW f \in jobs[w].got.queue, SaveFact(w, f, RowOf(f))
  PROVE  StoreKind
<1>0. jobs[w].pc = "save"
  BY DEF SaveFact
<1>1. f \in Range(facts) /\ f.table \in Identified
  BY <1>0, Working DEF HasFacts
<1> QED BY <1>1 DEF SaveFact, StoreKind

(* Every step is one of these. *)
LEMMA StepKinds ==
  ASSUME IInv, ConnectionsAssumption, [Next]_vars
  PROVE  StoreKind
<1>1. CASE Happen
  BY <1>1 DEF StoreKind, Happen
<1>2. CASE Tick \/ Widen \/ UNCHANGED vars
  BY <1>2 DEF StoreKind, Tick, Widen, vars
<1>3. CASE \E w \in Workers, k \in Credentials : RunConnect(w, k)
  BY <1>3 DEF StoreKind, RunConnect
<1>4. CASE \E w \in Workers : CheckKey(w) \/ Crash(w)
  BY <1>4 DEF StoreKind, CheckKey, Crash
<1>5. ASSUME NEW w, NEW p, NEW v, InsertConnection(w, p, v) \/ RunSync(w, p) \/ AllSaved(w, p) \/ MarkSynced(w, v) \/ Fails(w, p) \/ TakeSyncLock(w)
      PROVE  StoreKind
  BY <1>5 DEF StoreKind, InsertConnection, RunSync, AllSaved, MarkSynced, Fails, TakeSyncLock
<1>6. ASSUME NEW e, RunDisconnect(e) PROVE StoreKind
  BY <1>6 DEF StoreKind, RunDisconnect
<1>7. CASE broker = "binance" /\ BinanceNext
  <2>0. Identified # {} /\ \A f : BinanceRow(f) = RowOf(f)
    BY <1>7 DEF Identified, RowOf
  <2>1. ASSUME NEW w \in Workers, BinanceStep(w) PROVE StoreKind
    <3>1. CASE BinanceSave(w)
      BY <1>5, <2>0, <3>1, SaveKind DEF BinanceSave
    <3>2. CASE (\E listed \in {{}, BinanceAssets} : BinanceHeld(w, listed)) \/ BinanceList(w)
      BY <3>2 DEF StoreKind, BinanceHeld, BinanceList
    <3> QED BY <1>5, <2>1, <3>1, <3>2 DEF BinanceStep, BinanceFails
  <2>2. CASE EnsureStream \/ StreamDrops
    BY <2>2 DEF StoreKind, EnsureStream, StreamDrops
  <2>3. CASE StreamEvent
    <3> DEFINE f == facts[jobs["stream"].seen + 1]
    <3>1. jobs["stream"] # Idle /\ jobs["stream"].seen < Len(facts)
      BY <2>3 DEF StreamEvent
    <3>2. jobs["stream"].seen \in Nat /\ Len(facts) \in Nat /\ DOMAIN facts = 1..Len(facts)
      BY <3>1, Parts DEF StreamHolds, StateHolds
    <3>3. f \in Range(facts)
      BY <3>1, <3>2 DEF Range
    <3>4. broker' = broker /\ facts' = facts /\ (rows' = rows \/ (f.table = "trade" /\ rows' = Upsert(rows, BinanceRow(f))))
      BY <2>3 DEF StreamEvent
    <3>5. f.table = "trade" => f.table \in Identified
      BY <1>7 DEF Identified
    <3>6. BinanceRow(f) = RowOf(f)
      BY <2>0
    <3> HIDE DEF f
    <3> QED BY <3>3, <3>4, <3>5, <3>6 DEF StoreKind
  <2> QED BY <1>6, <1>7, <2>1, <2>2, <2>3 DEF BinanceNext
<1>8. CASE broker = "coinbase" /\ CoinbaseNext
  <2>0. Identified # {} /\ \A f : CoinbaseRow(f) = RowOf(f)
    BY <1>8 DEF Identified, RowOf
  <2>1. ASSUME NEW w \in Workers, CoinbaseStep(w) PROVE StoreKind
    <3>1. CASE CoinbaseSave(w)
      BY <1>5, <2>0, <3>1, SaveKind DEF CoinbaseSave
    <3>2. CASE CoinbaseOpen(w) \/ (\E n \in 0..Len(facts) : CoinbaseBalances(w, n)) \/ CoinbaseFills(w)
                  \/ CoinbaseDecide(w) \/ CoinbaseRecord(w)
      BY <3>2 DEF StoreKind, CoinbaseOpen, CoinbaseBalances, CoinbaseFills, CoinbaseDecide, CoinbaseRecord
    <3> QED BY <1>5, <2>1, <3>1, <3>2 DEF CoinbaseStep, CoinbaseFails, CoinbaseConnect, CoinbaseRun
  <2> QED BY <1>6, <1>8, <2>1 DEF CoinbaseNext
<1>9. CASE broker = "kraken" /\ KrakenNext
  <2>0. Identified # {} /\ \A f : KrakenRow(f) = RowOf(f)
    BY <1>9 DEF Identified, RowOf
  <2>1. ASSUME NEW w \in Workers, KrakenStep(w) PROVE StoreKind
    <3>1. CASE KrakenSave(w)
      BY <1>5, <2>0, <3>1, SaveKind DEF KrakenSave
    <3>2. CASE VerifyIfDue(w) \/ Probe(w) \/ KrakenFrom(w) \/ KrakenFetch(w)
      BY <3>2 DEF StoreKind, VerifyIfDue, Probe, KrakenFrom, KrakenFetch
    <3> QED BY <1>5, <2>1, <3>1, <3>2 DEF KrakenStep, KrakenFails, KrakenConnect, KrakenRun
  <2> QED BY <1>6, <1>9, <2>1 DEF KrakenNext
<1>10. CASE broker = "wallet" /\ WalletNext
  <2>0. Identified = {}
    BY <1>10 DEF Identified
  <2>1. ASSUME NEW w \in Workers, WalletStep(w) PROVE StoreKind
    <3>2. CASE WalletStart(w) \/ Persist(w) \/ WalletDone(w)
                  \/ \E lagging \in BOOLEAN, listed \in BOOLEAN : ReadNetwork(w, lagging, listed)
      BY <2>0, <3>2 DEF StoreKind, WalletStart, Persist, WalletDone, ReadNetwork
    <3> QED BY <1>5, <2>1, <3>2 DEF WalletStep, WalletConnect, WalletRun
  <2> QED BY <1>6, <1>10, <2>1 DEF WalletNext
<1>11. CASE broker = "ibkr" /\ IbkrNext
  <2>0. Identified = {}
    BY <1>11 DEF Identified
  <2>1. ASSUME NEW w \in Workers, IbkrStep(w) PROVE StoreKind
    <3>2. CASE IbkrFetch(w) \/ StoreLine(w)
      BY <2>0, <3>2 DEF StoreKind, IbkrFetch, StoreLine
    <3> QED BY <1>5, <2>1, <3>2 DEF IbkrStep, IbkrConnect, IbkrRun, IbkrFails
  <2> QED BY <1>6, <1>11, <2>1 DEF IbkrNext
<1> QED BY <1>1, <1>2, <1>3, <1>4, <1>7, <1>8, <1>9, <1>10, <1>11 DEF Next, BrokerNext

(* The facts that have a row. *)
Ids == {rows[i].fact : i \in DOMAIN rows}

(* No fact is held twice. *)
LEMMA HeldOnce ==
  ASSUME IInv, Identified # {}
  PROVE  Held = [f \in Ids |-> 1]
<1>1. ASSUME NEW i \in DOMAIN rows, NEW j \in DOMAIN rows, rows[i].fact = rows[j].fact PROVE i = j
  <2>1. PICK g \in Range(facts) : rows[i] = RowOf(g)
    BY Parts DEF StateHolds, RowsAreFacts
  <2>2. PICK h \in Range(facts) : rows[j] = RowOf(h)
    BY Parts DEF StateHolds, RowsAreFacts
  <2>3. g.id = h.id
    BY <1>1, <2>1, <2>2, RowFields
  <2>4. g = h
    BY <2>3, Parts, FactIsItsId
  <2> QED BY <2>1, <2>2, <2>4, Parts DEF StateHolds, RowsAreFacts
<1>2. ASSUME NEW f \in Ids PROVE Cardinality({i \in DOMAIN rows : rows[i].fact = f}) = 1
  <2>1. PICK i \in DOMAIN rows : rows[i].fact = f
    BY <1>2 DEF Ids
  <2>2. {k \in DOMAIN rows : rows[k].fact = f} = {i}
    BY <1>1, <2>1
  <2>3. Cardinality({i}) = 1
    BY FS_Singleton
  <2> QED BY <2>2, <2>3
<1>3. Held = [f \in Ids |-> Cardinality({i \in DOMAIN rows : rows[i].fact = f})]
  BY DEF Held, Ids
<1> QED BY <1>2, <1>3

(* Each of them has one. *)
HeldIsOnce == Identified # {} => Held = [f \in Ids |-> 1]

(* The same after a step. *)
LEMMA HeldOncePrimed == IInv' => HeldIsOnce'
<1>1. IInv => HeldIsOnce
  BY HeldOnce DEF HeldIsOnce
<1> QED BY <1>1, PTL

(* What the broker can be asked for does not change while the facts do not. *)
LEMMA SameListed ==
  ASSUME broker' = broker, facts' = facts
  PROVE  Listed' = Listed
BY SameBroker DEF Listed

(* One more fact is held, and it was not before. *)
LEMMA HoldStep ==
  ASSUME IInv, IInv', broker' = broker, facts' = facts, NEW f \in Range(facts), f.table \in Identified,
         rows' = Upsert(rows, RowOf(f)), rows' # rows
  PROVE  Store!StoreNext
<1>0. Identified' = Identified /\ Identified # {} /\ Listed' = Listed
  BY SameBroker, SameListed
<1>1. Held = [g \in Ids |-> 1] /\ Held' = [g \in Ids' |-> 1]
  BY <1>0, HeldOnce, HeldOncePrimed DEF HeldIsOnce
<1>2. PICK row : row = RowOf(f)
  OBVIOUS
<1>3. PICK k : k = row.key
  OBVIOUS
<1>4. rows \in Seq(Range(rows)) /\ rows' = Upsert(rows, row)
  BY <1>2, Parts DEF StateHolds
<1>5. DOMAIN rows \subseteq DOMAIN rows' /\ \A i \in DOMAIN rows : rows'[i] = rows[i]
  <2>1. DOMAIN rows \subseteq DOMAIN rows'
    BY <1>3, <1>4, UpsertAppends
  <2>2. \A i \in DOMAIN rows : rows'[i] = rows[i]
    BY <1>3, <1>4, UpsertAppends
  <2> QED BY <2>1, <2>2
<1>6. \A i \in DOMAIN rows' : i \notin DOMAIN rows => rows'[i] = row
  BY <1>3, <1>4, UpsertAppends
<1>7. \A i \in DOMAIN rows : rows[i].key # k
  BY <1>3, <1>4, UpsertAppends
<1>8. \E i \in DOMAIN rows' : i \notin DOMAIN rows
  BY <1>3, <1>4, UpsertAppends
<1>9. row.fact = f.id
  BY <1>2, RowFields
<1>10. Ids' = Ids \cup {f.id}
  BY <1>5, <1>6, <1>8, <1>9 DEF Ids
<1>11. f.id \notin Ids
  <2> SUFFICES ASSUME NEW i \in DOMAIN rows, rows[i].fact = f.id PROVE FALSE
    BY DEF Ids
  <2>1. PICK g \in Range(facts) : rows[i] = RowOf(g)
    BY <1>0, Parts DEF StateHolds, RowsAreFacts
  <2>2. g = f
    BY <2>1, RowFields, Parts, FactIsItsId
  <2> QED BY <1>2, <1>3, <1>7, <2>1, <2>2
<1>12. f.id \in Listed
  <2>1. f.id \in DOMAIN facts /\ facts[f.id] = f
    BY Parts, FactIsItsId
  <2> QED BY <2>1 DEF Listed
<1>13. PICK id : id = f.id
  OBVIOUS
<1>14. Held' = [g \in DOMAIN Held \cup {id} |-> IF g = id THEN 1 ELSE Held[g]]
  BY <1>1, <1>10, <1>11, <1>13
<1>15. id \in Listed \ DOMAIN Held
  BY <1>1, <1>11, <1>12, <1>13
<1>16. Store!Hold(id)
  BY <1>0, <1>14, <1>15 DEF Store!Hold
<1> QED BY <1>15, <1>16 DEF Store!StoreNext

(* A step of the worker is a step of the store, or none. *)
LEMMA StoreStep ==
  ASSUME IInv, IInv', ConnectionsAssumption, [Next]_vars
  PROVE  [Store!StoreNext]_<<Listed, Held>>
<1>0. StoreKind
  BY StepKinds
<1>1. broker' = broker /\ Identified' = Identified
  BY <1>0, SameBroker DEF StoreKind
<1>2. CASE rows' = rows /\ facts' = facts
  <2>1. Listed' = Listed /\ Held' = Held
    BY <1>1, <1>2, SameListed DEF Held
  <2> QED BY <2>1
<1>3. CASE rows' = rows /\ Happen
  <2>1. Held' = Held
    BY <1>1, <1>3 DEF Held
  <2>2. Listed \subseteq Listed'
    BY <1>1, <1>3, Parts, HappenAppends DEF Listed
  <2>3. FactsOrdered' /\ DOMAIN facts' = 1..Len(facts')
    BY <1>3, Parts, HappenAppends, HappenState DEF StateHolds
  <2>4. Listed' \subseteq Nat \ {0}
    BY <2>3, <1>1 DEF Listed, FactsOrdered
  <2>5. Store!Report
    BY <2>1, <2>2, <2>4 DEF Store!Report
  <2> QED BY <2>5 DEF Store!StoreNext
<1>4. CASE facts' = facts /\ Identified = {}
  <2>1. Listed' = Listed /\ Held' = Held
    BY <1>1, <1>4, SameListed DEF Held
  <2> QED BY <2>1
<1>5. CASE facts' = facts /\ rows' = << >> /\ Identified # {}
  <2>1. Listed' = Listed
    BY <1>1, <1>5, SameListed
  <2>2. Ids' = {} /\ Held' = [f \in Ids' |-> 1]
    BY <1>1, <1>5, HeldOncePrimed DEF HeldIsOnce, Ids
  <2>3. Held' = [f \in {} |-> 0]
    BY <2>2
  <2>4. Store!Drop
    BY <2>1, <2>3 DEF Store!Drop
  <2> QED BY <2>4 DEF Store!StoreNext
<1>6. CASE facts' = facts /\ \E f \in Range(facts) : f.table \in Identified /\ rows' = Upsert(rows, RowOf(f))
  BY <1>1, <1>2, <1>6, HoldStep
<1> QED BY <1>0, <1>2, <1>3, <1>4, <1>5, <1>6 DEF StoreKind

(* Nothing is listed and nothing held. *)
LEMMA StoreStart ==
  ASSUME Init
  PROVE  Store!StoreInit
<1>1. DOMAIN facts = {} /\ DOMAIN rows = {}
  BY DEF Init
<1>2. Listed = {}
  BY <1>1 DEF Listed
<1>3. Held = [f \in {} |-> 0]
  BY <1>1 DEF Held
<1> QED BY <1>2, <1>3 DEF Store!StoreInit

(* Each broker's rows implement a FactStore: no fact is held twice, none is
   held that the broker did not list, and none goes but with its connection
   (HoldsEachOnce). *)
THEOREM StoreRefined == Spec => HoldsEachOnce
<1>1. Init => Store!StoreInit
  BY StoreStart
<1>2. IInv /\ IInv' /\ [Next]_vars => [Store!StoreNext]_<<Listed, Held>>
  BY StoreStep, ConnectionsAssumption
<1> QED BY <1>1, <1>2, WorkerInvariance, PTL DEF Spec, HoldsEachOnce, Store!StoreSpec

=============================================================================
