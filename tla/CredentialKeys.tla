---------------------------- MODULE CredentialKeys ----------------------------
(***************************************************************************)
(* The credentials the collector worker keeps in its connection tables,    *)
(* encrypted under a master key (crypto.rs), and the rotation of that key: *)
(* the operator sets a new one beside the old, `rekey` re-encrypts every   *)
(* row (rekey.rs), and the old key is dropped.                             *)
(*                                                                         *)
(* Each process reads the key ring once, when it starts.  `rekey` holds no *)
(* lock: it SELECTs a table, then UPDATEs its rows one by one by id, while *)
(* people connect, reconnect and disconnect.                               *)
(***************************************************************************)
EXTENDS Naturals, Sequences, FiniteSets

CONSTANTS
    Accounts,        \* the accounts of one connections table
    Fields,          \* the secret columns of that table, in order
    Secrets,         \* what a person can connect an account with
    MaxKeys,         \* the master keys generated, 1..MaxKeys
    Label,           \* key_id: the one-byte label of each key, not unique
    MaxConnects, MaxRekeys   \* bounds of the exploration

Unreadable == "unreadable"

ASSUME KeysAssumption ==
    /\ MaxKeys \in Nat \ {0}
    /\ Label \in [1..MaxKeys -> Nat]
    /\ Unreadable \notin Secrets
    /\ MaxConnects \in Nat /\ MaxRekeys \in Nat

VARIABLES
    env,        \* the key ring the environment gives a process that starts now
    table,      \* account -> its row, or NoRow
    connecting, \* the `connect` under way, or NotRunning
    rekeying,   \* the `rekey` under way, or NotRunning
    clean,      \* the last report of `rekey` under env left nothing unreadable
    connects, rekeys

keysVars == <<env, table, connecting, rekeying, clean, connects, rekeys>>

NotRunning == [pc |-> "idle"]
NoRow == [id |-> 0]

(***************************************************************************)
(* crypto.rs.  A ciphertext opens only under the key, and for the context, *)
(* it was sealed with; the earlier format (1) had no context.              *)
(***************************************************************************)
KeyRing == [current : 1..MaxKeys, previous : SUBSET (1..MaxKeys)]
All(ring) == {ring.current} \cup ring.previous

CredentialContext(account, field) == <<account, field>>
NoContext == << >>

Seal(key, secret, context, format) ==
    [format |-> format, label |-> Label[key], key |-> key, context |-> context, secret |-> secret]

Opens(key, c, context, format) == c.key = key /\ c.context = context /\ c.format = format

Encrypt(ring, secret, context) == Seal(ring.current, secret, context, 2)

\* The current format under any key of the ring, then the earlier one.
Decrypt(ring, c, context) ==
    IF \/ c.format = 2 /\ \E k \in All(ring) : Opens(k, c, context, 2)
       \/ \E k \in All(ring) : Opens(k, c, NoContext, 1)
    THEN c.secret ELSE Unreadable

\* Fault: the label taken for the key.
IsCurrentByLabel(ring, c, context) == c.format = 2 /\ c.label = Label[ring.current]

\* Opened with the current key alone: the label proves nothing.
IsCurrent(ring, c, context) == c.format = 2 /\ Opens(ring.current, c, context, 2)

(***************************************************************************)
(* Rows.                                                                   *)
(***************************************************************************)
Row(id, ring, account, secret) ==
    [id |-> id, fields |-> [f \in Fields |-> Encrypt(ring, secret, CredentialContext(account, f))]]

OldRow(id, key, secret) ==
    [id |-> id, fields |-> [f \in Fields |-> Seal(key, secret, NoContext, 1)]]

\* Credentials stored before secrets were bound to their account are there.
KeysInit ==
    /\ env = [current |-> 1, previous |-> {}]
    /\ table \in [Accounts -> {NoRow} \cup {OldRow(1, 1, s) : s \in Secrets}]
    /\ connecting = NotRunning /\ rekeying = NotRunning
    /\ clean = FALSE
    /\ connects = 1 /\ rekeys = 0

(***************************************************************************)
(* `connect`, `disconnect`.                                                *)
(***************************************************************************)
StartConnect(a, s) ==
    /\ connecting = NotRunning /\ connects <= MaxConnects
    /\ connecting' = [pc |-> "insert", ring |-> env, account |-> a, secret |-> s]
    /\ connects' = connects + 1
    /\ UNCHANGED <<env, table, rekeying, clean, rekeys>>

\* insert_connection: every field in one statement; an existing row keeps its id.
InsertCredentials ==
    /\ connecting # NotRunning
    /\ LET a == connecting.account
           id == IF table[a] = NoRow THEN connects ELSE table[a].id
       IN table' = [table EXCEPT ![a] = Row(id, connecting.ring, a, connecting.secret)]
    /\ connecting' = NotRunning
    /\ UNCHANGED <<env, rekeying, clean, connects, rekeys>>

Disconnect(a) ==
    /\ table[a] # NoRow
    /\ table' = [table EXCEPT ![a] = NoRow]
    /\ UNCHANGED <<env, connecting, rekeying, clean, connects, rekeys>>

(***************************************************************************)
(* `rekey`.                                                                *)
(***************************************************************************)
StartRekey ==
    /\ rekeying = NotRunning /\ rekeys < MaxRekeys
    /\ connecting # NotRunning => connecting.ring = env    \* commands under the old key have ended
    /\ rekeying' = [pc |-> "rows", ring |-> env, unreadable |-> {},
                    todo |-> [a \in {b \in Accounts : table[b] # NoRow} |-> table[a]]]
    /\ rekeys' = rekeys + 1
    /\ UNCHANGED <<env, table, connecting, clean, connects>>

Readable(ring, a, row) == \A f \in Fields : Decrypt(ring, row.fields[f], CredentialContext(a, f)) # Unreadable
NeedsUpdate(ring, a, row) == \E f \in Fields : ~IsCurrent(ring, row.fields[f], CredentialContext(a, f))

\* What is current is kept as it is, the rest sealed again under the current key.
Fresh(ring, a, row) ==
    [f \in Fields |->
        LET c == row.fields[f]
            context == CredentialContext(a, f)
        IN IF IsCurrent(ring, c, context) THEN c ELSE Encrypt(ring, Decrypt(ring, c, context), context)]

\* Fault: only the first column is written.
UpdateOneField(a, id, fields) ==
    IF table[a] # NoRow /\ table[a].id = id
    THEN [table EXCEPT ![a].fields[CHOOSE f \in Fields : TRUE] = fields[CHOOSE f \in Fields : TRUE]] ELSE table

\* UPDATE ... WHERE id: all the fields at once, whatever the row holds by now.
UpdateById(a, id, fields) ==
    IF table[a] # NoRow /\ table[a].id = id THEN [table EXCEPT ![a].fields = fields] ELSE table

Without(todo, a) == [b \in DOMAIN todo \ {a} |-> todo[b]]

RekeyRow(a) ==
    /\ rekeying # NotRunning /\ a \in DOMAIN rekeying.todo
    /\ LET row == rekeying.todo[a]
           ring == rekeying.ring
           ok == Readable(ring, a, row)
       IN /\ table' = IF ok /\ NeedsUpdate(ring, a, row)
                      THEN UpdateById(a, row.id, Fresh(ring, a, row)) ELSE table
          /\ rekeying' = [rekeying EXCEPT !.todo = Without(@, a),
                                          !.unreadable = IF ok THEN @ ELSE @ \cup {a}]
    /\ UNCHANGED <<env, connecting, clean, connects, rekeys>>

\* The report: how many were upgraded, and which could not be read.
FinishRekey ==
    /\ rekeying # NotRunning /\ DOMAIN rekeying.todo = {}
    /\ clean' = (rekeying.unreadable = {} /\ rekeying.ring = env)
    /\ rekeying' = NotRunning
    /\ UNCHANGED <<env, table, connecting, connects, rekeys>>

\* A process dies between two statements.
ProcessDies ==
    /\ \/ connecting # NotRunning /\ connecting' = NotRunning /\ UNCHANGED rekeying
       \/ rekeying # NotRunning /\ rekeying' = NotRunning /\ UNCHANGED connecting
    /\ UNCHANGED <<env, table, clean, connects, rekeys>>

(***************************************************************************)
(* The operator: a new key beside the old ones; once a rekey has reported  *)
(* nothing unreadable, the old keys go.                                    *)
(***************************************************************************)
Rotate ==
    /\ env.current < MaxKeys
    /\ env' = [current |-> env.current + 1, previous |-> All(env)]
    /\ clean' = FALSE
    /\ UNCHANGED <<table, connecting, rekeying, connects, rekeys>>

DropPrevious ==
    /\ clean /\ env.previous # {}
    /\ env' = [env EXCEPT !.previous = {}]
    /\ UNCHANGED <<table, connecting, rekeying, clean, connects, rekeys>>

KeysNext ==
    \/ \E a \in Accounts, s \in Secrets : StartConnect(a, s)
    \/ \E a \in Accounts : Disconnect(a) \/ RekeyRow(a)
    \/ InsertCredentials \/ StartRekey \/ FinishRekey \/ ProcessDies \/ Rotate \/ DropPrevious

KeysSpec == KeysInit /\ [][KeysNext]_keysVars

(***************************************************************************)
(* Properties.                                                             *)
(***************************************************************************)
\* Every credential in the table is readable with the keys the environment
\* gives, whatever was connected, reconnected or cut short while a key was
\* rotated, and although two keys may share a label: following the documented
\* rotation never locks an account out.
CredentialReadable ==
    \A a \in Accounts : table[a] # NoRow => Readable(env, a, table[a])

\* The fields of a row are always of one connect: no interleaving of `rekey`
\* with a reconnect joins one credential's key with another's secret.
FieldsTogether ==
    \A a \in Accounts : table[a] # NoRow =>
        \A f, g \in Fields : table[a].fields[f].secret = table[a].fields[g].secret

(***************************************************************************)
(* The inductive invariant.                                                *)
(***************************************************************************)
Ciphertext ==
    [format : {1, 2}, label : Nat, key : 1..MaxKeys,
     context : {NoContext} \cup (Accounts \X Fields), secret : Secrets]
StoredRow == [id : Nat \ {0}, fields : [Fields -> Ciphertext]]

Rekeying(r) ==
    /\ r = [pc |-> "rows", ring |-> r.ring, unreadable |-> r.unreadable, todo |-> r.todo]
    /\ r.ring \in KeyRing /\ r.unreadable \in SUBSET Accounts
    /\ DOMAIN r.todo \subseteq Accounts /\ r.todo \in [DOMAIN r.todo -> StoredRow]

KeysTypeOK ==
    /\ env \in KeyRing /\ \A k \in env.previous : k < env.current
    /\ table \in [Accounts -> {NoRow} \cup StoredRow]
    /\ connecting \in {NotRunning} \cup
         [pc : {"insert"}, ring : KeyRing, account : Accounts, secret : Secrets]
    /\ rekeying = NotRunning \/ Rekeying(rekeying)
    /\ clean \in BOOLEAN
    /\ connects \in Nat \ {0} /\ rekeys \in Nat

\* Sealed for that account and field, or before credentials were bound to one.
Bound(a, f, c) ==
    \/ c.format = 2 /\ c.context = CredentialContext(a, f)
    \/ c.format = 1 /\ c.context = NoContext

\* The row of one connect to that account: its fields are of one secret.
Whole(a, row) ==
    /\ \A f \in Fields : Bound(a, f, row.fields[f])
    /\ \A f, g \in Fields : row.fields[f].secret = row.fields[g].secret

SealedUnder(keys, row) == \A f \in Fields : row.fields[f].key \in keys

\* Rows are whole in the table, and in the snapshot a rekey works from.
RowsWhole ==
    /\ \A a \in Accounts : table[a] # NoRow => Whole(a, table[a])
    /\ rekeying # NotRunning => \A a \in DOMAIN rekeying.todo : Whole(a, rekeying.todo[a])

\* No row is, and no process can write one, under a key the environment lost.
KeysKept ==
    /\ \A a \in Accounts : table[a] # NoRow => SealedUnder(All(env), table[a])
    /\ connecting # NotRunning => connecting.ring.current \in All(env)
    /\ rekeying # NotRunning => rekeying.ring.current \in All(env)

\* While a rekey runs under the current key, every row under another one is
\* still to be done, unchanged since the SELECT, or reported unreadable; and
\* no connect that could write another such row is under way.
RekeyProgress ==
    rekeying # NotRunning /\ rekeying.ring.current = env.current =>
        /\ connecting # NotRunning => connecting.ring.current = env.current
        /\ \A a \in Accounts : table[a] # NoRow /\ ~SealedUnder({env.current}, table[a]) =>
             \/ a \in rekeying.unreadable
             \/ a \in DOMAIN rekeying.todo /\ rekeying.todo[a] = table[a]

\* After a clean report every row, and every process that can write one, is
\* under the current key.
CleanMeansCurrent ==
    clean =>
        /\ \A a \in Accounts : table[a] # NoRow => SealedUnder({env.current}, table[a])
        /\ connecting # NotRunning => connecting.ring.current = env.current
        /\ rekeying # NotRunning => rekeying.ring.current = env.current

KeysInv == KeysTypeOK /\ RowsWhole /\ KeysKept /\ RekeyProgress /\ CleanMeansCurrent

=============================================================================
