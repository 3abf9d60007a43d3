------------------------ MODULE IdentityCreationProofs ------------------------
(***************************************************************************)
(* Whatever requests interleave, fail, are retried or recovered, the       *)
(* relayed creation of identities keeps every user's identity that user's: *)
(* IdentityCreation for any number of users, requests, identities and      *)
(* faults.                                                                 *)
(***************************************************************************)
EXTENDS IdentityCreation, IdentityRegistryProofs, FiniteSetTheorems

(* The node always has a next nonce to give: fewer transactions than nonces are there. *)
LEMMA PendingNonceType == ASSUME TypeOK PROVE pendingNonce \in Nat
<1> DEFINE I == accountNonce..(accountNonce + Len(txs))
<1> DEFINE Free == {n \in I : ~Taken(n)}
<1>1. /\ accountNonce \in Nat /\ Len(txs) \in Nat /\ DOMAIN txs = 1..Len(txs)
      /\ I \in SUBSET Nat
  BY DEF TypeOK
<1>2. IsFiniteSet(I) /\ Cardinality(I) = Len(txs) + 1
  BY <1>1, FS_Interval
<1>3. IsFiniteSet(Live) /\ Cardinality(Live) \in Nat /\ Cardinality(Live) <= Len(txs)
  <2>1. IsFiniteSet(1..Len(txs)) /\ Cardinality(1..Len(txs)) = Len(txs)
    BY <1>1, FS_Interval
  <2>2. Live \in SUBSET (1..Len(txs))
    BY <1>1 DEF Live
  <2> QED
    BY <2>1, <2>2, FS_Subset, FS_CardinalityType
<1>4. Free # {}
  <2> SUFFICES ASSUME Free = {} PROVE FALSE
    OBVIOUS
  <2> DEFINE f == [n \in I |-> CHOOSE k \in Live : txs[k].nonce = n]
  <2>1. ASSUME NEW n \in I
        PROVE  \E k \in Live : txs[k].nonce = n
    <3>1. Taken(n)
      OBVIOUS
    <3>2. ~(n < accountNonce)
      BY <1>1
    <3> QED
      BY <3>1, <3>2 DEF Taken
  <2>2. \A n \in I : f[n] \in Live /\ txs[f[n]].nonce = n
    BY <2>1
  <2>3. f \in [I -> Live]
    BY <2>2
  <2>4. Cardinality(Live) < Cardinality(I)
    BY <1>1, <1>2, <1>3
  <2> HIDE DEF f, I
  <2>5. \E x, y \in I : x # y /\ f[x] = f[y]
    BY <1>2, <1>3, <2>3, <2>4, FS_PigeonHole
  <2> QED
    BY <2>2, <2>5
<1>5. PICK n \in Free : \A m \in Free : n <= m
  <2> DEFINE Less == OpToRel(<, Nat)
  <2>1. IsWellFoundedOn(Less, Nat)
    BY NatLessThanWellFounded
  <2>2. \A x, y \in Nat : <<x, y>> \in Less <=> x < y
    BY DEF OpToRel
  <2>3. Free \subseteq Nat
    BY <1>1
  <2> HIDE DEF Less, Free
  <2>4. PICK x \in Free : \A y \in Free : ~(<<y, x>> \in Less)
    BY <1>4, <2>1, <2>3, WFMin
  <2>5. \A y \in Free : ~(y < x) /\ x \in Nat /\ y \in Nat
    BY <2>2, <2>3, <2>4, Zenon
  <2>6. \A y \in Free : x <= y
    BY <2>5, SMT
  <2> QED
    BY <2>6
<1>6. n \in Nat /\ n \in I /\ ~Taken(n)
  BY <1>1, <1>5
<1>7. ASSUME NEW m \in accountNonce..(n - 1)
      PROVE  Taken(m)
  <2>1. m \in I /\ m \in Nat /\ ~(n <= m)
    BY <1>1, <1>6
  <2> QED
    BY <1>5, <2>1
<1>8. \E x \in I : ~Taken(x) /\ \A m \in accountNonce..(x - 1) : Taken(m)
  BY <1>6, <1>7
<1>9. pendingNonce \in I
  BY <1>8 DEF pendingNonce
<1> QED
  BY <1>1, <1>9

(* The state of a request, field by field. *)
LEMMA RequestFields ==
  ASSUME TypeOK, NEW r \in Request
  PROVE  /\ r[1] \in User /\ reqs[r] \in RequestState
         /\ reqs[r].key \in Key \cup {<<>>} /\ reqs[r].cmd \in Command
         /\ reqs[r].nonce \in Nat /\ reqs[r].tx \in Nat /\ reqs[r].id \in IdentityId \cup {NoId}
<1>1. reqs[r] \in RequestState /\ r[1] \in User
  BY DEF TypeOK, Request
<1> QED
  BY <1>1 DEF RequestState

(* A transaction, field by field. *)
LEMMA TxFields ==
  ASSUME TypeOK
  PROVE  /\ Len(txs) \in Nat /\ DOMAIN txs = 1..Len(txs)
         /\ \A k \in DOMAIN txs :
              /\ txs[k] \in Transaction /\ txs[k].key \in Key /\ txs[k].cmd \in Command
              /\ txs[k].nonce \in Nat /\ txs[k].id \in IdentityId \cup {NoId}
<1>1. /\ Len(txs) \in Nat /\ DOMAIN txs = 1..Len(txs)
      /\ \A k \in DOMAIN txs : txs[k] \in Transaction
  BY DEF TypeOK
<1>2. \A t \in Transaction : /\ t.key \in Key /\ t.cmd \in Command /\ t.nonce \in Nat
                             /\ t.id \in IdentityId \cup {NoId}
  BY DEF Transaction
<1> QED
  BY <1>1, <1>2

(* A key is a pair of a function and its subject. *)
LEMMA KeyPair ==
  ASSUME NEW key \in Key
  PROVE  /\ key = <<key[1], key[2]>>
         /\ key[1] \in {"deploy", "create", "propose", "confirm"}
         /\ key[2] \in User \cup IdentityId
BY DEF Key

(* A command, field by field. *)
LEMMA CommandFields ==
  ASSUME NEW s \in IdentityCommand
  PROVE  s.identityId \in IdentityId /\ s.nonce \in Nat /\ s.op \in IdentityOp
BY DEF IdentityCommand

-----------------------------------------------------------------------------
(* Transactions are never taken back: their keys stay, and so does what succeeded. *)
TxsGrow ==
  \A k \in DOMAIN txs : /\ k \in DOMAIN txs'
                        /\ txs'[k].key = txs[k].key /\ txs'[k].cmd = txs[k].cmd
                        /\ txs[k].status = "success" => txs'[k] = txs[k]

(* What is said of transactions stays true while they are never taken back. *)
LEMMA Grown ==
  ASSUME TxsGrow
  PROVE  /\ \A id, u : CreatedFor(id, u) => CreatedFor(id, u)'
         /\ \A key, cmd : Carries(key, cmd) => Carries(key, cmd)'
         /\ \A r, q : OwnRequest(r, q) => OwnRequest(r, q)'
<1>1. \A id, u : CreatedFor(id, u) => CreatedFor(id, u)'
  BY DEF CreatedFor, TxsGrow
<1>2. \A key, cmd : Carries(key, cmd) => Carries(key, cmd)'
  BY <1>1 DEF Carries
<1>3. \A r, q : OwnRequest(r, q) => OwnRequest(r, q)'
  BY <1>2 DEF OwnRequest, TxsGrow
<1> QED
  BY <1>1, <1>2, <1>3

(* One request moves on, the others keep what they own. *)
LEMMA RequestMoves ==
  ASSUME TypeOK, RequestsOwn, TxsGrow, NEW r \in Request, NEW q \in RequestState,
         reqs' = [reqs EXCEPT ![r] = q], q.pc # "idle" => OwnRequest(r, q)'
  PROVE  reqs' \in [Request -> RequestState] /\ RequestsOwn'
<1>1. reqs \in [Request -> RequestState]
  BY DEF TypeOK
<1>2. /\ reqs' \in [Request -> RequestState] /\ reqs'[r] = q
      /\ \A p \in Request : p # r => reqs'[p] = reqs[p]
  BY <1>1
<1>3. ASSUME NEW p \in Request, reqs'[p].pc # "idle"
      PROVE  OwnRequest(p, reqs[p])'
  <2>1. CASE p = r
    BY <1>2, <1>3, <2>1 DEF OwnRequest, Carries, CreatedFor
  <2>2. CASE p # r
    <3>1. PICK x : x = reqs[p]
      OBVIOUS
    <3>2. OwnRequest(p, x) /\ reqs'[p] = x
      BY <1>2, <1>3, <2>2, <3>1 DEF RequestsOwn
    <3>3. OwnRequest(p, x)'
      BY <3>2, Grown
    <3> QED
      BY <3>2, <3>3 DEF OwnRequest, Carries, CreatedFor
  <2> QED
    BY <2>1, <2>2
<1> QED
  BY <1>2, <1>3 DEF RequestsOwn

(* A step of a request that neither sends nor is mined: only its own state is at stake. *)
LEMMA RequestOnly ==
  ASSUME IInv, UNCHANGED <<now, identities, tracks, deployed, accountNonce, txs>>,
         idSigs' \subseteq IdentityCommand, faults' \in Nat,
         reqs' \in [Request -> RequestState], RequestsOwn',
         \A key \in DOMAIN store' : store'[key] \in DOMAIN txs /\ txs[store'[key]].key = key,
         known' \in [User -> IdentityId \cup {NoId}], KnownOffered'
  PROVE  IInv'
<1>1. TypeOK'
  BY DEF IInv, TypeOK, IdentityTypeOK
<1>2. Stages'
  BY DEF IInv, Stages, CreatedFor
<1>3. TxsCarry'
  BY DEF IInv, TxsCarry, Carries, CreatedFor
<1>4. TxsDone' /\ OneEffect'
  BY DEF IInv, TxsDone, OneEffect
<1> QED
  BY <1>1, <1>2, <1>3, <1>4 DEF IInv

(* The same for one request, with nothing learned by its user. *)
LEMMA RequestAlone ==
  ASSUME IInv, UNCHANGED <<now, identities, tracks, deployed, accountNonce, txs, known>>,
         idSigs' \subseteq IdentityCommand, faults' \in Nat,
         NEW r \in Request, NEW q \in RequestState, reqs' = [reqs EXCEPT ![r] = q],
         q.pc # "idle" => OwnRequest(r, q),
         \A key \in DOMAIN store' : store'[key] \in DOMAIN txs /\ txs[store'[key]].key = key
  PROVE  IInv'
<1>1. TypeOK /\ RequestsOwn /\ KnownOffered
  BY DEF IInv
<1>2. TxsGrow
  BY DEF TxsGrow
<1>3. q.pc # "idle" => OwnRequest(r, q)'
  BY <1>2, Grown
<1>4. reqs' \in [Request -> RequestState] /\ RequestsOwn'
  BY <1>1, <1>2, <1>3, RequestMoves
<1>5. known' \in [User -> IdentityId \cup {NoId}] /\ KnownOffered'
  BY <1>1 DEF TypeOK, KnownOffered, CreatedFor
<1> QED
  BY <1>4, <1>5, RequestOnly

-----------------------------------------------------------------------------
(* The state of a request that is not served. *)
LEMMA IdleType == Idle \in RequestState /\ Idle.pc = "idle"
BY DEF Idle, RequestState, Command

(* Nothing is sent and nobody knows an identity at first. *)
LEMMA CreationInit == ASSUME Init PROVE IInv
<1>1. IdentityTypeOK
  BY IdentityTypeInit DEF Init
<1>2. Idle \in RequestState
  BY IdleType
<1>3. /\ txs = <<>> /\ DOMAIN txs = {} /\ store = <<>> /\ DOMAIN store = {}
      /\ deployed = Deployed /\ accountNonce = 0 /\ faults = 0
      /\ reqs = [r \in Request |-> Idle] /\ known = [u \in User |-> NoId]
  BY DEF Init
<1>4. TypeOK
  BY <1>1, <1>2, <1>3, CreationAssumption DEF TypeOK, User
<1>5. Stages
  BY DEF Init, IdentityInit, NoIdentity, Stages
<1>6. TxsCarry /\ TxsDone /\ OneEffect
  BY <1>3 DEF TxsCarry, TxsDone, OneEffect
<1>7. RequestsOwn /\ KnownOffered
  BY <1>3 DEF RequestsOwn, KnownOffered, Idle
<1> QED
  BY <1>4, <1>5, <1>6, <1>7 DEF IInv

(* Nothing but a request moves: what the other conjuncts of RequestAlone ask for. *)
LEMMA NothingElse ==
  ASSUME IInv, UNCHANGED <<idSigs, store>>, faults' \in {faults, faults + 1}
  PROVE  /\ idSigs' \subseteq IdentityCommand /\ faults' \in Nat
         /\ \A key \in DOMAIN store' : store'[key] \in DOMAIN txs /\ txs[store'[key]].key = key
<1>1. faults \in Nat /\ faults + 1 \in Nat
  BY DEF IInv, TypeOK
<1> QED
  BY <1>1 DEF IInv, TypeOK, IdentityTypeOK, TxsCarry

(* POST /identities starts with a key of the user's own. *)
LEMMA StartCreateStep ==
  ASSUME IInv, NEW r \in Request, StartCreate(r)
  PROVE  IInv'
<1>0. TypeOK /\ TxsCarry /\ r[1] \in User
  BY RequestFields DEF IInv
<1>1. PICK fn \in {"create", "deploy"} :
        /\ reqs' = [reqs EXCEPT ![r] = [Idle EXCEPT !.pc = "lookup", !.key = <<fn, r[1]>>]]
        /\ UNCHANGED <<now, idVars, deployed, accountNonce, txs, store, known, faults>>
  BY DEF StartCreate, dedupKey
<1>2. <<fn, r[1]>> \in Key
  BY <1>0 DEF Key
<1>3. PICK key \in Key : key = <<fn, r[1]>>
  BY <1>2
<1>4. PICK q : q = [Idle EXCEPT !.pc = "lookup", !.key = key]
  OBVIOUS
<1>5. reqs' = [reqs EXCEPT ![r] = q]
  BY <1>1, <1>3, <1>4
<1>6. q \in RequestState /\ q.pc = "lookup" /\ q.key = key
  <2>1. PICK x \in RequestState : x = Idle
    BY IdleType
  <2> QED
    BY <1>4, <2>1 DEF RequestState
<1>7. OwnRequest(r, q)
  BY <1>0, <1>3, <1>6 DEF OwnRequest, Carries
<1> QED
  BY <1>1, <1>5, <1>6, <1>7, NothingElse, RequestAlone DEF idVars

(* POST confirm carries a command that confirms. *)
LEMMA StartConfirmStep ==
  ASSUME IInv, NEW r \in Request, NEW s \in idSigs, StartConfirm(r, s)
  PROVE  IInv'
<1> DEFINE key == <<"confirm", s.identityId>>
<1>0. TypeOK /\ TxsCarry /\ s \in IdentityCommand /\ s.identityId \in IdentityId
  BY CommandFields DEF IInv, TypeOK, IdentityTypeOK
<1>1. /\ s.op = "ConfirmOwnerRotation"
      /\ reqs' = [reqs EXCEPT ![r] = [Idle EXCEPT !.pc = "lookup", !.cmd = s,
                    !.key = key, !.id = s.identityId]]
      /\ UNCHANGED <<now, idVars, deployed, accountNonce, txs, store, known, faults>>
  BY DEF StartConfirm, dedupKey
<1>2. key \in Key /\ key[1] = "confirm" /\ key[2] = s.identityId
  BY <1>0 DEF Key
<1> HIDE DEF key
<1>4. PICK q : q = [Idle EXCEPT !.pc = "lookup", !.cmd = s,
                      !.key = key, !.id = s.identityId]
  OBVIOUS
<1>5. reqs' = [reqs EXCEPT ![r] = q]
  BY <1>1, <1>4
<1>6. /\ q \in RequestState /\ q.pc = "lookup" /\ q.key = key
      /\ q.cmd = s
  <2>1. PICK c \in Command, i \in IdentityId \cup {NoId} : c = s /\ i = s.identityId
    BY <1>0 DEF Command
  <2>2. q = [Idle EXCEPT !.pc = "lookup", !.cmd = c, !.key = key, !.id = i]
    BY <1>4, <2>1
  <2>3. PICK x \in RequestState : x = Idle
    BY IdleType
  <2>4. /\ q \in RequestState /\ q.pc = "lookup" /\ q.key = key /\ q.cmd = c
    BY <1>2, <2>2, <2>3 DEF RequestState
  <2> QED
    BY <2>1, <2>4
<1>7. OwnRequest(r, q)
  BY <1>0, <1>1, <1>2, <1>6 DEF OwnRequest, Carries
<1> QED
  BY <1>1, <1>5, <1>6, <1>7, NothingElse, RequestAlone DEF idVars

(* POST confirm-challenge only adds a signed command. *)
LEMMA BeginConfirmStep ==
  ASSUME IInv, NEW u \in User, beginConfirmIdentity(u)
  PROVE  IInv'
<1> DEFINE s == IdentityChallenge(known[u], "ConfirmOwnerRotation", u, u)
<1>0. TypeOK /\ RequestsOwn /\ KnownOffered /\ TxsCarry
  BY DEF IInv
<1>1. /\ known[u] # NoId /\ idSigs' = idSigs \cup {s}
      /\ UNCHANGED <<now, identities, tracks, flowVars>>
  BY DEF beginConfirmIdentity
<1>2. known[u] \in IdentityId /\ u \in Address
  BY <1>0, <1>1 DEF TypeOK, User
<1>3. identities[known[u]].ownerEpoch \in Nat /\ identities[known[u]].nonce \in Nat
  <2>1. identities[known[u]] \in Identity
    BY <1>0, <1>2 DEF TypeOK, IdentityTypeOK
  <2> QED
    BY <2>1 DEF Identity
<1>4. now + Window \in Nat
  BY <1>0, IdentityAssumption DEF TypeOK, IdentityTypeOK
<1>5. s \in IdentityCommand
  BY <1>2, <1>3, <1>4 DEF IdentityChallenge, IdentityCommand, IdentityOp
<1>6. idSigs' \subseteq IdentityCommand
  BY <1>0, <1>1, <1>5 DEF TypeOK, IdentityTypeOK
<1>7. /\ txs' = txs /\ reqs' = reqs /\ store' = store /\ known' = known /\ faults' = faults
      /\ deployed' = deployed /\ accountNonce' = accountNonce
  BY <1>1 DEF flowVars
<1>8. RequestsOwn' /\ KnownOffered'
  BY <1>0, <1>1, <1>7 DEF RequestsOwn, OwnRequest, Carries, CreatedFor, KnownOffered
<1>9. /\ faults' \in Nat /\ reqs' \in [Request -> RequestState]
      /\ known' \in [User -> IdentityId \cup {NoId}]
      /\ \A key \in DOMAIN store' : store'[key] \in DOMAIN txs /\ txs[store'[key]].key = key
  BY <1>0, <1>7 DEF TypeOK, TxsCarry
<1> QED
  BY <1>1, <1>6, <1>7, <1>8, <1>9, RequestOnly

-----------------------------------------------------------------------------
(* relay: find and getTransaction recover a transaction of the same key. *)
LEMMA LookupStep ==
  ASSUME IInv, NEW r \in Request, Lookup(r) \/ LookupFails(r)
  PROVE  IInv'
<1>0. /\ TypeOK /\ reqs[r] \in RequestState /\ reqs[r].pc = "lookup" /\ OwnRequest(r, reqs[r])
  BY RequestFields DEF IInv, Lookup, LookupFails, RequestsOwn
<1>1. PICK x \in RequestState : x = reqs[r]
  BY <1>0
<1>2. PICK q \in RequestState :
        /\ reqs' = [reqs EXCEPT ![r] = q] /\ q.key = x.key /\ q.cmd = x.cmd /\ q.id = x.id
        /\ \/ q.pc = "nonce"
           \/ q.pc = "wait" /\ q.tx \in DOMAIN txs /\ txs[q.tx].key = q.key
  <2>1. CASE x.key \in DOMAIN store /\ store[x.key] \in Live /\ Lookup(r)
    <3>1. PICK t \in Nat : t = store[x.key] /\ t \in DOMAIN txs /\ txs[t].key = x.key
      BY <1>0, <2>1, TxFields DEF IInv, TypeOK, TxsCarry
    <3>2. reqs' = [reqs EXCEPT ![r] = [x EXCEPT !.pc = "wait", !.tx = t]]
      BY <1>1, <2>1, <3>1 DEF Lookup
    <3>3. PICK y : y = [x EXCEPT !.pc = "wait", !.tx = t]
      OBVIOUS
    <3>4. /\ y \in RequestState /\ y.pc = "wait" /\ y.key = x.key /\ y.cmd = x.cmd
          /\ y.id = x.id /\ y.tx = t
      BY <3>3 DEF RequestState
    <3> QED
      BY <3>1, <3>2, <3>3, <3>4
  <2>2. CASE ~(x.key \in DOMAIN store /\ store[x.key] \in Live /\ Lookup(r))
    <3>1. reqs' = [reqs EXCEPT ![r] = [x EXCEPT !.pc = "nonce"]]
      BY <1>1, <2>2 DEF Lookup, LookupFails
    <3>2. PICK y : y = [x EXCEPT !.pc = "nonce"]
      OBVIOUS
    <3>3. y \in RequestState /\ y.pc = "nonce" /\ y.key = x.key /\ y.cmd = x.cmd /\ y.id = x.id
      BY <3>2 DEF RequestState
    <3> QED
      BY <3>1, <3>2, <3>3
  <2> QED
    BY <2>1, <2>2
<1>3. OwnRequest(r, q)
  BY <1>0, <1>1, <1>2 DEF OwnRequest
<1>4. /\ UNCHANGED <<now, identities, tracks, idSigs, deployed, accountNonce, txs, store, known>>
      /\ faults' \in {faults, faults + 1}
  BY DEF Lookup, LookupFails, idVars
<1> QED
  BY <1>2, <1>3, <1>4, NothingElse, RequestAlone

(* relay: getPendingNonce. *)
LEMMA NonceStep ==
  ASSUME IInv, NEW r \in Request, getPendingNonce(r)
  PROVE  IInv'
<1>0. /\ TypeOK /\ reqs[r] \in RequestState /\ reqs[r].pc = "nonce" /\ OwnRequest(r, reqs[r])
  BY RequestFields DEF IInv, getPendingNonce, RequestsOwn
<1>1. PICK x \in RequestState : x = reqs[r]
  BY <1>0
<1>2. PICK n \in Nat : n = pendingNonce
  BY <1>0, PendingNonceType
<1>3. reqs' = [reqs EXCEPT ![r] = [x EXCEPT !.pc = "send", !.nonce = n]]
  BY <1>1, <1>2 DEF getPendingNonce
<1>4. PICK q \in RequestState :
        /\ reqs' = [reqs EXCEPT ![r] = q] /\ q.key = x.key /\ q.cmd = x.cmd /\ q.id = x.id
        /\ q.pc = "send"
  <2>1. PICK y : y = [x EXCEPT !.pc = "send", !.nonce = n]
    OBVIOUS
  <2>2. y \in RequestState /\ y.pc = "send" /\ y.key = x.key /\ y.cmd = x.cmd /\ y.id = x.id
    BY <2>1 DEF RequestState
  <2> QED
    BY <1>3, <2>1, <2>2
<1>5. OwnRequest(r, q)
  BY <1>0, <1>1, <1>4 DEF OwnRequest
<1> QED
  BY <1>4, <1>5, NothingElse, RequestAlone DEF getPendingNonce, idVars

(* relay: the record saved under a key is of a transaction of that key. *)
LEMMA SaveStep ==
  ASSUME IInv, NEW r \in Request, save(r)
  PROVE  IInv'
<1>0. /\ TypeOK /\ TxsCarry /\ reqs[r] \in RequestState /\ reqs[r].pc = "save"
      /\ OwnRequest(r, reqs[r])
  BY RequestFields DEF IInv, save, RequestsOwn
<1>1. PICK x \in RequestState : x = reqs[r]
  BY <1>0
<1>2. /\ reqs' = [reqs EXCEPT ![r] = [x EXCEPT !.pc = "wait"]]
      /\ store' = [k \in DOMAIN store \cup {x.key} |-> IF k = x.key THEN x.tx ELSE store[k]]
  BY <1>1 DEF save
<1>3. PICK q \in RequestState :
        /\ reqs' = [reqs EXCEPT ![r] = q] /\ q.key = x.key /\ q.cmd = x.cmd /\ q.id = x.id
        /\ q.tx = x.tx /\ q.pc = "wait"
  <2>1. PICK y : y = [x EXCEPT !.pc = "wait"]
    OBVIOUS
  <2>2. /\ y \in RequestState /\ y.pc = "wait" /\ y.key = x.key /\ y.cmd = x.cmd
        /\ y.id = x.id /\ y.tx = x.tx
    BY <2>1 DEF RequestState
  <2> QED
    BY <1>2, <2>1, <2>2
<1>4. OwnRequest(r, q)
  BY <1>0, <1>1, <1>3 DEF OwnRequest
<1>5. x.tx \in DOMAIN txs /\ txs[x.tx].key = x.key
  BY <1>0, <1>1 DEF OwnRequest
<1>6. \A key \in DOMAIN store' : store'[key] \in DOMAIN txs /\ txs[store'[key]].key = key
  BY <1>0, <1>2, <1>5 DEF TypeOK, TxsCarry
<1>7. idSigs' \subseteq IdentityCommand /\ faults' \in Nat
  BY <1>0 DEF TypeOK, IdentityTypeOK, save, idVars
<1> QED
  BY <1>3, <1>4, <1>6, <1>7, RequestAlone DEF save, idVars

(* A request that ends, by its answer, an error or a timeout, owns nothing. *)
LEMMA EndStep ==
  ASSUME IInv, NEW r \in Request, TimeOut(r) \/ Fail(r)
  PROVE  IInv'
<1>1. /\ reqs' = [reqs EXCEPT ![r] = Idle]
      /\ UNCHANGED <<now, identities, tracks, idSigs, deployed, accountNonce, txs, store, known>>
      /\ faults' \in {faults, faults + 1}
  BY DEF TimeOut, Fail, End, idVars
<1>2. PICK q \in RequestState : q = Idle /\ q.pc = "idle"
  BY IdleType
<1> QED
  BY <1>1, <1>2, NothingElse, RequestAlone

(* A restart ends every request and empties the store. *)
LEMMA RestartStep == ASSUME IInv, Restart PROVE IInv'
<1>0. TypeOK /\ KnownOffered
  BY DEF IInv
<1>1. /\ reqs' = [r \in Request |-> Idle] /\ store' = <<>> /\ faults' = faults + 1
      /\ UNCHANGED <<now, identities, tracks, idSigs, deployed, accountNonce, txs, known>>
  BY DEF Restart, idVars
<1>2. reqs' \in [Request -> RequestState] /\ RequestsOwn'
  BY <1>1, IdleType DEF RequestsOwn
<1>3. DOMAIN store' = {}
  BY <1>1
<1>4. idSigs' \subseteq IdentityCommand /\ faults' \in Nat
  BY <1>0, <1>1 DEF TypeOK, IdentityTypeOK
<1>5. known' \in [User -> IdentityId \cup {NoId}] /\ KnownOffered'
  BY <1>0, <1>1 DEF TypeOK, KnownOffered, CreatedFor
<1> QED
  BY <1>1, <1>2, <1>3, <1>4, <1>5, RequestOnly

-----------------------------------------------------------------------------
(* The relayer's proposal is a command, of the identity and for the user it is made for. *)
LEMMA ProposalType ==
  ASSUME TypeOK, NEW id \in IdentityId, NEW u \in User
  PROVE  LET s == Proposal(id, u) IN
         /\ s \in IdentityCommand /\ s.identityId = id /\ s.newOwner = u
         /\ s.op = "ProposeOwnerRotation" /\ s.nonce = 0
<1>1. now + Window \in Nat
  BY IdentityAssumption DEF TypeOK, IdentityTypeOK
<1>2. u \in Address \cup {NoAddr} /\ Relayer \in Address
  BY CreationAssumption DEF User
<1> QED
  BY <1>1, <1>2 DEF Proposal, IdentityCommand, IdentityOp

(* The next relay call of a request is of its own user and identity. *)
LEMMA RelayOwn ==
  ASSUME IInv, NEW r \in Request, NEW fn, NEW subject, NEW cmd \in Command,
         NEW id \in IdentityId \cup {NoId}, Relay(r, fn, subject, cmd, id),
         <<fn, subject>> \in Key,
         \/ fn = "create" /\ subject = r[1]
         \/ /\ fn = "propose" /\ subject = id /\ cmd \in IdentityCommand
            /\ cmd.identityId = id /\ cmd.newOwner = r[1] /\ cmd.nonce = 0
            /\ cmd.op = "ProposeOwnerRotation" /\ CreatedFor(id, r[1])
  PROVE  \E q \in RequestState : reqs' = [reqs EXCEPT ![r] = q] /\ OwnRequest(r, q)
<1>0. TypeOK /\ r[1] \in User
  BY RequestFields DEF IInv
<1>1. PICK x \in RequestState : x = reqs[r]
  BY <1>0, RequestFields
<1>2. PICK key \in Key : key = <<fn, subject>>
  OBVIOUS
<1>3. reqs' = [reqs EXCEPT ![r] = [x EXCEPT !.pc = "lookup", !.key = key, !.cmd = cmd, !.id = id]]
  BY <1>0, <1>1, <1>2 DEF Relay, dedupKey, TypeOK
<1>4. PICK q : q = [x EXCEPT !.pc = "lookup", !.key = key, !.cmd = cmd, !.id = id]
  OBVIOUS
<1>5. /\ q \in RequestState /\ q.pc = "lookup" /\ q.key = key /\ q.cmd = cmd /\ q.id = id
  BY <1>4 DEF RequestState
<1>6. key[1] = fn /\ key[2] = subject
  BY <1>2
<1>7. OwnRequest(r, q)
  BY <1>0, <1>5, <1>6 DEF OwnRequest, Carries
<1> QED
  BY <1>3, <1>4, <1>5, <1>7

(* waitForSuccessfulReceipt: the identity proposed next is the one created for this user. *)
LEMMA WaitStep ==
  ASSUME IInv, NEW r \in Request, waitForSuccessfulReceipt(r)
  PROVE  IInv'
<1> DEFINE t == txs[reqs[r].tx]
<1>0. /\ TypeOK /\ TxsDone /\ r[1] \in User /\ reqs[r].pc = "wait" /\ OwnRequest(r, reqs[r])
      /\ reqs[r] \in RequestState
  BY RequestFields DEF IInv, waitForSuccessfulReceipt, RequestsOwn
<1>1. UNCHANGED <<now, identities, tracks, deployed, accountNonce, txs, store, known, faults>>
  BY DEF waitForSuccessfulReceipt
<1>2. /\ reqs[r].tx \in DOMAIN txs /\ t \in Transaction /\ t.key = reqs[r].key /\ t.key \in Key
      /\ t.key = <<t.key[1], t.key[2]>>
      /\ t.key[1] \in {"deploy", "create"} => t.key[2] = r[1]
  BY <1>0, TxFields, KeyPair DEF OwnRequest
<1>3. faults' \in Nat
      /\ \A key \in DOMAIN store' : store'[key] \in DOMAIN txs /\ txs[store'[key]].key = key
  BY <1>0, <1>1 DEF IInv, TypeOK, TxsCarry
<1>4. idSigs \subseteq IdentityCommand
  BY <1>0 DEF TypeOK, IdentityTypeOK
<1>5. CASE t.status = "reverted" /\ End(r) /\ UNCHANGED idSigs
  <2>1. PICK q \in RequestState : q = Idle /\ q.pc = "idle"
    BY IdleType
  <2> QED
    BY <1>1, <1>3, <1>4, <1>5, <2>1, RequestAlone DEF End
<1>6. CASE t.status = "success" /\ t.key[1] = "deploy"
           /\ Relay(r, "create", r[1], NoCommand, NoId) /\ UNCHANGED idSigs
  <2>1. <<"create", r[1]>> \in Key /\ NoCommand \in Command
    BY <1>0 DEF Key, Command
  <2>2. PICK q \in RequestState : reqs' = [reqs EXCEPT ![r] = q] /\ OwnRequest(r, q)
    BY <1>0, <1>6, <2>1, RelayOwn
  <2> QED
    BY <1>1, <1>3, <1>4, <1>6, <2>2, RequestAlone
<1>7. CASE /\ t.status = "success" /\ t.key[1] = "create"
           /\ LET s == Proposal(t.id, r[1]) IN
              /\ Relay(r, "propose", t.id, s, t.id)
              /\ idSigs' = IF \E p \in idSigs : [p EXCEPT !.used = FALSE] = s THEN idSigs
                           ELSE idSigs \cup {s}
  <2>1. PICK id \in IdentityId : id = t.id
    BY <1>0, <1>2, <1>7 DEF TxsDone
  <2>2. PICK s \in IdentityCommand :
          /\ s = Proposal(t.id, r[1]) /\ s.identityId = id /\ s.newOwner = r[1]
          /\ s.op = "ProposeOwnerRotation" /\ s.nonce = 0
    BY <1>0, <2>1, ProposalType
  <2>3. CreatedFor(id, r[1])
    BY <1>2, <1>7, <2>1 DEF CreatedFor
  <2>4. <<"propose", id>> \in Key /\ s \in Command
    BY DEF Key, Command
  <2>5. Relay(r, "propose", id, s, id)
    BY <1>7, <2>1, <2>2
  <2>6. PICK q \in RequestState : reqs' = [reqs EXCEPT ![r] = q] /\ OwnRequest(r, q)
    BY <2>2, <2>3, <2>4, <2>5, RelayOwn
  <2>7. idSigs' \subseteq IdentityCommand
    BY <1>4, <1>7, <2>2
  <2> QED
    BY <1>1, <1>3, <2>6, <2>7, RequestAlone
<1>8. CASE t.status = "success" /\ t.key[1] \in {"propose", "confirm"}
           /\ reqs' = [reqs EXCEPT ![r].pc = "read"] /\ UNCHANGED idSigs
  <2>1. PICK x \in RequestState : x = reqs[r]
    BY <1>0
  <2>2. PICK q : q = [x EXCEPT !.pc = "read"]
    OBVIOUS
  <2>3. /\ q \in RequestState /\ q.pc = "read" /\ q.key = x.key /\ q.cmd = x.cmd
        /\ q.id = x.id
    BY <2>2 DEF RequestState
  <2>4. reqs' = [reqs EXCEPT ![r] = q]
    BY <1>8, <2>1, <2>2
  <2>5. OwnRequest(r, q)
    BY <1>0, <2>1, <2>3 DEF OwnRequest
  <2> QED
    BY <1>1, <1>3, <1>4, <1>8, <2>3, <2>4, <2>5, RequestAlone
<1> QED
  BY <1>5, <1>6, <1>7, <1>8 DEF waitForSuccessfulReceipt

(* resyncUntil: what a creation answers with was created for its user, and is offered by now. *)
LEMMA ResyncStep ==
  ASSUME IInv, NEW r \in Request, resyncUntil(r)
  PROVE  IInv'
<1>0. /\ TypeOK /\ Stages /\ RequestsOwn /\ KnownOffered /\ r[1] \in User
      /\ reqs[r].pc = "read" /\ OwnRequest(r, reqs[r])
  BY RequestFields DEF IInv, resyncUntil, RequestsOwn
<1>1. /\ known' = IF /\ reqs[r].key[1] = "propose"
                     /\ identities[reqs[r].id].pendingOwner # NoAddr
                    THEN [known EXCEPT ![r[1]] = reqs[r].id] ELSE known
      /\ reqs' = [reqs EXCEPT ![r] = Idle]
      /\ UNCHANGED <<now, identities, tracks, idSigs, deployed, accountNonce, txs, store, faults>>
  BY DEF resyncUntil, End, idVars
<1>2. reqs' \in [Request -> RequestState] /\ RequestsOwn'
  <2>1. PICK q \in RequestState : q = Idle /\ q.pc = "idle"
    BY IdleType
  <2>2. TxsGrow
    BY <1>1 DEF TxsGrow
  <2> QED
    BY <1>0, <1>1, <2>1, <2>2, RequestMoves
<1>3. known' \in [User -> IdentityId \cup {NoId}] /\ KnownOffered'
  <2>1. CASE reqs[r].key[1] = "propose" /\ identities[reqs[r].id].pendingOwner # NoAddr
    <3>1. PICK id \in IdentityId : id = reqs[r].id /\ CreatedFor(id, r[1])
      BY <1>0, <2>1, CommandFields DEF OwnRequest, Carries
    <3>2. identities[id].nonce # 0
      BY <1>0, <2>1, <3>1 DEF Stages
    <3>3. known \in [User -> IdentityId \cup {NoId}] /\ known' = [known EXCEPT ![r[1]] = id]
      BY <1>0, <1>1, <2>1, <3>1 DEF TypeOK
    <3>4. \A u \in User : known'[u] = IF u = r[1] THEN id ELSE known[u]
      BY <3>3
    <3>5. KnownOffered'
      BY <1>0, <1>1, <3>1, <3>2, <3>4 DEF KnownOffered, CreatedFor
    <3> QED
      BY <3>3, <3>5
  <2>2. CASE ~(reqs[r].key[1] = "propose" /\ identities[reqs[r].id].pendingOwner # NoAddr)
    BY <1>0, <1>1, <2>2 DEF TypeOK, KnownOffered, CreatedFor
  <2> QED
    BY <2>1, <2>2
<1> QED
  BY <1>1, <1>2, <1>3, NothingElse, RequestOnly

-----------------------------------------------------------------------------
(* Sending and evicting move no identity and let no transaction succeed. *)
LEMMA PoolOnly ==
  ASSUME IInv, UNCHANGED <<now, identities, tracks, idSigs, deployed, accountNonce, store, known>>,
         faults' \in Nat, txs' \in Seq(Transaction), TxsGrow,
         \A k \in DOMAIN txs' : /\ txs'[k].status = "success" =>
                                     k \in DOMAIN txs /\ txs[k].status = "success"
                                /\ Carries(txs'[k].key, txs'[k].cmd),
         reqs' \in [Request -> RequestState], RequestsOwn'
  PROVE  IInv'
<1>0. TypeOK /\ Stages /\ TxsCarry /\ TxsDone /\ KnownOffered /\ OneEffect
  BY DEF IInv
<1>1. \A k \in DOMAIN txs' : txs'[k].status = "success" =>
        k \in DOMAIN txs /\ txs[k].status = "success" /\ txs'[k] = txs[k]
  BY DEF TxsGrow
<1>2. /\ \A id, u : CreatedFor(id, u) => CreatedFor(id, u)'
      /\ \A key, cmd : Carries(key, cmd) => Carries(key, cmd)'
  BY Grown
<1>3. \A key \in DOMAIN store : store[key] \in DOMAIN txs' /\ txs'[store[key]].key = key
  BY <1>0 DEF TypeOK, TxsCarry, TxsGrow
<1>4. TypeOK'
  BY <1>0, <1>3 DEF TypeOK, IdentityTypeOK
<1>5. Stages'
  BY <1>0, <1>2 DEF Stages
<1>6. TxsCarry'
  <2>1. ASSUME NEW k \in DOMAIN txs'
        PROVE  Carries(txs[k].key, txs[k].cmd)'
    <3>1. PICK key, cmd : key = txs'[k].key /\ cmd = txs'[k].cmd
      OBVIOUS
    <3>2. Carries(key, cmd)'
      BY <1>2, <3>1
    <3> QED
      BY <3>1, <3>2 DEF Carries, CreatedFor
  <2> QED
    BY <1>3, <2>1 DEF TxsCarry
<1>7. TxsDone' /\ OneEffect'
  BY <1>0, <1>1 DEF TxsDone, OneEffect
<1>8. KnownOffered'
  BY <1>0, <1>2 DEF KnownOffered
<1> QED
  BY <1>4, <1>5, <1>6, <1>7, <1>8 DEF IInv

(* relay: sendTransaction broadcasts what the request carries. *)
LEMMA SendStep ==
  ASSUME IInv, NEW r \in Request, sendTransaction(r)
  PROVE  IInv'
<1>0. /\ TypeOK /\ TxsCarry /\ RequestsOwn /\ reqs[r] \in RequestState /\ reqs[r].pc = "send"
      /\ OwnRequest(r, reqs[r])
  BY RequestFields DEF IInv, sendTransaction, RequestsOwn
<1>1. UNCHANGED <<now, identities, tracks, idSigs, deployed, accountNonce, store, known, faults>>
  BY DEF sendTransaction, idVars
<1>2. PICK x \in RequestState : x = reqs[r]
  BY <1>0
<1>3. CASE Taken(reqs[r].nonce)
  <2>1. PICK q \in RequestState : q = Idle /\ q.pc = "idle"
    BY IdleType
  <2>2. reqs' = [reqs EXCEPT ![r] = q] /\ txs' = txs
    BY <1>3, <2>1 DEF sendTransaction, End
  <2> QED
    BY <1>1, <2>1, <2>2, NothingElse, RequestAlone
<1>4. CASE ~Taken(reqs[r].nonce)
  <2>1. PICK new : new = [key |-> x.key, cmd |-> x.cmd, nonce |-> x.nonce,
                          status |-> "pending", id |-> NoId]
    OBVIOUS
  <2>2. /\ txs' = Append(txs, new)
        /\ reqs' = [reqs EXCEPT ![r].pc = "save", ![r].tx = Len(txs) + 1]
    BY <1>2, <1>4, <2>1 DEF sendTransaction
  <2>3. x.key \in Key /\ x.cmd \in Command /\ x.nonce \in Nat
    BY <1>0, <1>2, RequestFields DEF OwnRequest
  <2>4. new \in Transaction /\ new.key = x.key /\ new.cmd = x.cmd /\ new.status = "pending"
    BY <2>1, <2>3 DEF Transaction
  <2>5. txs \in Seq(Transaction) /\ Len(txs) \in Nat /\ DOMAIN txs = 1..Len(txs)
    BY <1>0, TxFields DEF TypeOK
  <2>6. /\ txs' \in Seq(Transaction) /\ DOMAIN txs' = DOMAIN txs \cup {Len(txs) + 1}
        /\ Len(txs) + 1 \in Nat
        /\ txs'[Len(txs) + 1] = new /\ \A k \in DOMAIN txs : txs'[k] = txs[k]
    BY <2>2, <2>4, <2>5
  <2>7. TxsGrow
    BY <2>6 DEF TxsGrow
  <2>8. PICK t \in Nat : t = Len(txs) + 1
    BY <2>6
  <2>9. PICK q : q = [x EXCEPT !.pc = "save", !.tx = t]
    OBVIOUS
  <2>10. /\ q \in RequestState /\ q.pc = "save" /\ q.key = x.key /\ q.cmd = x.cmd
         /\ q.id = x.id /\ q.tx = t
    BY <2>9 DEF RequestState
  <2>11. reqs' = [reqs EXCEPT ![r] = q]
    BY <1>2, <2>2, <2>8, <2>9
  <2>12. OwnRequest(r, q)'
    <3>1. OwnRequest(r, x)' /\ x.pc = "send"
      BY <1>0, <1>2, <2>7, Grown
    <3>2. t \in DOMAIN txs' /\ txs'[t].key = q.key
      BY <2>4, <2>6, <2>8, <2>10
    <3> QED
      BY <2>10, <3>1, <3>2 DEF OwnRequest, Carries, CreatedFor
  <2>13. reqs' \in [Request -> RequestState] /\ RequestsOwn'
    BY <1>0, <2>7, <2>10, <2>11, <2>12, RequestMoves
  <2>14. \A k \in DOMAIN txs' : /\ txs'[k].status = "success" =>
                                     k \in DOMAIN txs /\ txs[k].status = "success"
                                /\ Carries(txs'[k].key, txs'[k].cmd)
    BY <1>0, <1>2, <2>4, <2>6 DEF TxsCarry, OwnRequest
  <2>15. faults' \in Nat
    BY <1>0, <1>1 DEF TypeOK
  <2> QED
    BY <1>1, <2>6, <2>7, <2>13, <2>14, <2>15, PoolOnly
<1> QED
  BY <1>3, <1>4

(* What becomes of a pending transaction changes nothing of the others. *)
LEMMA TxWrites ==
  ASSUME TypeOK, NEW k \in DOMAIN txs, txs[k].status = "pending",
         NEW st \in {"success", "reverted", "dropped"}, NEW id \in IdentityId \cup {NoId},
         \/ txs' = [txs EXCEPT ![k].status = st, ![k].id = id]
         \/ txs' = [txs EXCEPT ![k].status = st] /\ id = txs[k].id
  PROVE  /\ txs' \in Seq(Transaction) /\ DOMAIN txs' = DOMAIN txs /\ TxsGrow
         /\ txs'[k].status = st /\ txs'[k].id = id
         /\ txs'[k].key = txs[k].key /\ txs'[k].cmd = txs[k].cmd
         /\ \A j \in DOMAIN txs : j # k => txs'[j] = txs[j]
<1>1. /\ txs \in Seq(Transaction) /\ Len(txs) \in Nat /\ DOMAIN txs = 1..Len(txs)
      /\ txs[k] \in Transaction
  BY TxFields DEF TypeOK
<1>2. PICK x \in Transaction : x = txs[k]
  BY <1>1
<1>3. PICK y : /\ y = [x EXCEPT !.status = st, !.id = id] \/ y = [x EXCEPT !.status = st]
               /\ txs' = [txs EXCEPT ![k] = y]
               /\ y = [x EXCEPT !.status = st] => id = x.id \/ y = [x EXCEPT !.status = st, !.id = id]
  BY <1>1, <1>2
<1>4. y \in Transaction /\ y.status = st /\ y.id = id /\ y.key = x.key /\ y.cmd = x.cmd
  BY <1>3 DEF Transaction
<1>5. /\ txs' \in Seq(Transaction) /\ DOMAIN txs' = DOMAIN txs /\ txs'[k] = y
      /\ \A j \in DOMAIN txs : j # k => txs'[j] = txs[j]
  BY <1>1, <1>3, <1>4
<1>6. TxsGrow
  BY <1>2, <1>4, <1>5 DEF TxsGrow
<1> QED
  BY <1>2, <1>4, <1>5, <1>6

(* Requests that do not move keep what they own. *)
LEMMA RequestsStay ==
  ASSUME TypeOK, RequestsOwn, TxsGrow, reqs' = reqs
  PROVE  reqs' \in [Request -> RequestState] /\ RequestsOwn'
<1>1. ASSUME NEW p \in Request, reqs'[p].pc # "idle"
      PROVE  OwnRequest(p, reqs[p])'
  <2>1. PICK x : x = reqs[p]
    OBVIOUS
  <2>2. OwnRequest(p, x)'
    BY <1>1, <2>1, Grown DEF RequestsOwn
  <2> QED
    BY <2>1, <2>2 DEF OwnRequest, Carries, CreatedFor
<1> QED
  BY <1>1 DEF RequestsOwn, TypeOK

(* The node's pool forgets a transaction that was pending. *)
LEMMA EvictStep ==
  ASSUME IInv, NEW k \in DOMAIN txs, Evict(k)
  PROVE  IInv'
<1>0. TypeOK /\ TxsCarry /\ RequestsOwn
  BY DEF IInv
<1>1. /\ txs[k].status = "pending" /\ txs' = [txs EXCEPT ![k].status = "dropped"]
      /\ UNCHANGED <<now, identities, tracks, idSigs, deployed, accountNonce, store, reqs, known>>
      /\ faults' = faults + 1
  BY DEF Evict, idVars
<1>2. PICK id \in IdentityId \cup {NoId} : id = txs[k].id
  BY <1>0, TxFields
<1>3. /\ txs' \in Seq(Transaction) /\ DOMAIN txs' = DOMAIN txs /\ TxsGrow
      /\ txs'[k].status = "dropped" /\ txs'[k].key = txs[k].key /\ txs'[k].cmd = txs[k].cmd
      /\ \A j \in DOMAIN txs : j # k => txs'[j] = txs[j]
  BY <1>0, <1>1, <1>2, TxWrites
<1>4. reqs' \in [Request -> RequestState] /\ RequestsOwn'
  BY <1>0, <1>1, <1>3, RequestsStay
<1>5. \A j \in DOMAIN txs' : /\ txs'[j].status = "success" =>
                                  j \in DOMAIN txs /\ txs[j].status = "success"
                             /\ Carries(txs'[j].key, txs'[j].cmd)
  BY <1>0, <1>3 DEF TxsCarry
<1>6. faults' \in Nat
  BY <1>0, <1>1 DEF TypeOK
<1> QED
  BY <1>1, <1>3, <1>4, <1>5, <1>6, PoolOnly

-----------------------------------------------------------------------------
(* What every mined transaction leaves alone. *)
LEMMA MinedKeeps ==
  ASSUME IInv, NEW k \in DOMAIN txs, txs[k].status = "pending",
         NEW st \in {"success", "reverted"}, NEW id \in IdentityId \cup {NoId}, Mined(k, st, id),
         IdentityTypeOK', deployed' \subseteq User, Stages', TxsDone', OneEffect',
         \A i \in IdentityId : identities[i].nonce # 0 => identities'[i].nonce # 0
  PROVE  IInv'
<1>0. TypeOK /\ TxsCarry /\ RequestsOwn /\ KnownOffered
  BY DEF IInv
<1>1. /\ txs' = [txs EXCEPT ![k].status = st, ![k].id = id] /\ accountNonce' = accountNonce + 1
      /\ store' = store /\ reqs' = reqs /\ known' = known /\ faults' = faults
  BY DEF Mined
<1>2. /\ txs' \in Seq(Transaction) /\ DOMAIN txs' = DOMAIN txs /\ TxsGrow
      /\ txs'[k].key = txs[k].key /\ txs'[k].cmd = txs[k].cmd
      /\ \A j \in DOMAIN txs : j # k => txs'[j] = txs[j]
  BY <1>0, <1>1, TxWrites
<1>3. reqs' \in [Request -> RequestState] /\ RequestsOwn'
  BY <1>0, <1>1, <1>2, RequestsStay
<1>4. \A key \in DOMAIN store' : store'[key] \in DOMAIN txs' /\ txs'[store'[key]].key = key
  BY <1>0, <1>1, <1>2 DEF TypeOK, TxsCarry
<1>5. TypeOK'
  <2>1. accountNonce' \in Nat
    BY <1>0, <1>1 DEF TypeOK
  <2> QED
    BY <1>0, <1>1, <1>2, <1>3, <1>4, <2>1 DEF TypeOK
<1>6. TxsCarry'
  <2>1. ASSUME NEW j \in DOMAIN txs'
        PROVE  Carries(txs[j].key, txs[j].cmd)'
    <3>1. PICK key, cmd : key = txs[j].key /\ cmd = txs[j].cmd
      OBVIOUS
    <3>2. Carries(key, cmd)'
      BY <1>0, <1>2, <3>1, Grown DEF TxsCarry
    <3>3. txs'[j].key = key /\ txs'[j].cmd = cmd
      BY <1>2, <3>1
    <3> QED
      BY <3>2, <3>3 DEF Carries, CreatedFor
  <2> QED
    BY <1>4, <2>1 DEF TxsCarry
<1>7. KnownOffered'
  <2>1. \A i, u : CreatedFor(i, u) => CreatedFor(i, u)'
    BY <1>2, Grown
  <2>2. known \in [User -> IdentityId \cup {NoId}]
    BY <1>0 DEF TypeOK
  <2> QED
    BY <1>0, <1>1, <2>1, <2>2 DEF KnownOffered
<1> QED
  BY <1>3, <1>5, <1>6, <1>7 DEF IInv

(* The transactions after one is mined, for the lemmas of each kind. *)
LEMMA MinedTxs ==
  ASSUME TypeOK, NEW k \in DOMAIN txs, txs[k].status = "pending",
         NEW st \in {"success", "reverted"}, NEW id \in IdentityId \cup {NoId}, Mined(k, st, id)
  PROVE  /\ DOMAIN txs' = DOMAIN txs
         /\ txs'[k].status = st /\ txs'[k].id = id /\ txs'[k].key = txs[k].key
         /\ \A j \in DOMAIN txs : j # k => txs'[j] = txs[j]
         /\ \A i, u : CreatedFor(i, u) => CreatedFor(i, u)'
BY TxWrites, Grown DEF Mined

(* A reverted transaction, or a deployment, does nothing to any identity. *)
LEMMA MineNothingStep ==
  ASSUME IInv, NEW k \in DOMAIN txs, txs[k].status = "pending",
         NEW st \in {"success", "reverted"}, Mined(k, st, NoId),
         st = "success" => txs[k].key[1] = "deploy",
         UNCHANGED <<now, identities, tracks, idSigs>>, deployed' \subseteq User
  PROVE  IInv'
<1>0. TypeOK /\ Stages /\ TxsDone /\ OneEffect /\ NoId \in IdentityId \cup {NoId}
  BY DEF IInv
<1>1. /\ DOMAIN txs' = DOMAIN txs
      /\ txs'[k].status = st /\ txs'[k].key = txs[k].key
      /\ \A j \in DOMAIN txs : j # k => txs'[j] = txs[j]
      /\ \A i, u : CreatedFor(i, u) => CreatedFor(i, u)'
  BY <1>0, MinedTxs
<1>2. IdentityTypeOK'
  BY <1>0 DEF TypeOK, IdentityTypeOK
<1>3. Stages'
  BY <1>0, <1>1 DEF Stages
<1>4. \A j \in DOMAIN txs' : txs'[j].status = "success" =>
        (j # k /\ txs'[j] = txs[j]) \/ txs'[j].key[1] = "deploy"
  BY <1>1
<1>5. TxsDone'
  BY <1>0, <1>1, <1>4 DEF TxsDone
<1>6. OneEffect'
  BY <1>0, <1>1, <1>4 DEF OneEffect
<1> QED
  BY <1>0, <1>2, <1>3, <1>5, <1>6, MinedKeeps

(* A mined creation makes an identity that no transaction has touched. *)
LEMMA MineCreateStep ==
  ASSUME IInv, NEW k \in DOMAIN txs, txs[k].status = "pending", MineCreate(k)
  PROVE  IInv'
<1>0. TypeOK /\ Stages /\ TxsDone /\ TxsCarry /\ OneEffect
  BY DEF IInv
<1>1. PICK id \in IdentityId :
        /\ ~identities[id].exists /\ createIdentity(Relayer, id) /\ Mined(k, "success", id)
        /\ txs[k].key[1] = "create" /\ deployed' = deployed
  BY DEF MineCreate
<1>2. /\ DOMAIN txs' = DOMAIN txs
      /\ txs'[k].status = "success" /\ txs'[k].id = id /\ txs'[k].key = txs[k].key
      /\ \A j \in DOMAIN txs : j # k => txs'[j] = txs[j]
      /\ \A i, u : CreatedFor(i, u) => CreatedFor(i, u)'
  BY <1>0, <1>1, MinedTxs
<1>3. IdentityTypeOK'
  <2>1. Relayer \in Address
    BY CreationAssumption
  <2> QED
    BY <1>0, <1>1, <2>1, IdentityTypeStep DEF TypeOK, IdentityStep
<1>4. LET i == identities'[id] IN
        /\ i.exists /\ i.nonce = 0 /\ i.owner = Relayer /\ i.pendingOwner = NoAddr
        /\ \A n \in IdentityId : n # id => identities'[n] = identities[n]
  BY <1>0, <1>1 DEF TypeOK, IdentityTypeOK, createIdentity
<1>5. identities[id].nonce = 0
  BY <1>0, <1>1 DEF Stages
<1>6. Stages'
  BY <1>0, <1>2, <1>4 DEF Stages
<1>7. \A j \in DOMAIN txs' : txs'[j].status = "success" =>
        \/ j = k
        \/ j \in DOMAIN txs /\ txs'[j] = txs[j] /\ txs[j].status = "success"
  BY <1>2
<1>8. TxsDone'
  <2>1. ASSUME NEW j \in DOMAIN txs', txs'[j].status = "success"
        PROVE  /\ txs'[j].key[1] = "create" =>
                    txs'[j].id \in IdentityId /\ identities'[txs'[j].id].exists
               /\ txs'[j].key[1] = "propose" => identities'[txs'[j].key[2]].nonce # 0
               /\ txs'[j].key[1] = "confirm" => identities'[txs'[j].key[2]].nonce = 2
               /\ txs'[j].key[1] = "create" /\ txs'[j].id = id => j = k
    <3>1. CASE j = k
      BY <1>1, <1>2, <1>4, <3>1
    <3>2. CASE j # k
      <4>1. j \in DOMAIN txs /\ txs'[j] = txs[j] /\ txs[j].status = "success"
        BY <1>7, <2>1, <3>2
      <4>2. txs[j].key[1] = "create" =>
              txs[j].id \in IdentityId /\ identities[txs[j].id].exists /\ txs[j].id # id
        BY <1>0, <1>1, <4>1 DEF TxsDone
      <4>3. txs[j].key[1] \in {"propose", "confirm"} => txs[j].key[2] \in IdentityId
        BY <1>0, <4>1, CommandFields DEF TxsCarry, Carries
      <4>4. /\ txs[j].key[1] = "propose" => identities[txs[j].key[2]].nonce # 0
            /\ txs[j].key[1] = "confirm" => identities[txs[j].key[2]].nonce = 2
        BY <1>0, <4>1 DEF TxsDone
      <4> QED
        BY <1>4, <1>5, <4>1, <4>2, <4>3, <4>4
    <3> QED
      BY <3>1, <3>2
  <2>2. ASSUME NEW i \in DOMAIN txs', NEW j \in DOMAIN txs',
               txs'[i].status = "success", txs'[i].key[1] = "create",
               txs'[j].status = "success", txs'[j].key[1] = "create", txs'[i].id = txs'[j].id
        PROVE  i = j
    <3>1. CASE i = k \/ j = k
      BY <1>2, <2>1, <2>2, <3>1
    <3>2. CASE i # k /\ j # k
      BY <1>0, <1>7, <2>2, <3>2 DEF TxsDone
    <3> QED
      BY <3>1, <3>2
  <2> QED
    BY <2>1, <2>2 DEF TxsDone
<1>9. OneEffect'
  BY <1>0, <1>1, <1>2, <1>7 DEF OneEffect
<1>10. \A i \in IdentityId : identities[i].nonce # 0 => identities'[i].nonce # 0
  BY <1>4, <1>5
<1>11. deployed' \subseteq User
  BY <1>0, <1>1 DEF TypeOK
<1> QED
  BY <1>1, <1>3, <1>6, <1>8, <1>9, <1>10, <1>11, MinedKeeps

(* What an accepted command of the flow writes, whoever still holds a copy of it. *)
LEMMA CommandWrites ==
  ASSUME IdentityTypeOK, NEW s \in IdentityCommand,
         proposeOwnerRotation(s) \/ confirmOwnerRotation(s)
  PROVE  LET i == identities[s.identityId]  j == identities'[s.identityId] IN
         /\ IdentityTypeOK' /\ s.identityId \in IdentityId
         /\ i.exists /\ j.exists /\ s.nonce = i.nonce /\ i.nonce \in Nat /\ j.nonce = i.nonce + 1
         /\ \A n \in IdentityId : n # s.identityId => identities'[n] = identities[n]
         /\ s.op = "ProposeOwnerRotation" => j.owner = i.owner /\ j.pendingOwner = s.newOwner
         /\ s.op = "ConfirmOwnerRotation" =>
              /\ i.pendingOwner # NoAddr
              /\ j.owner = i.pendingOwner /\ j.pendingOwner = NoAddr
<1>0. /\ s.identityId \in IdentityId /\ s.newOwner \in Address \cup {NoAddr}
      /\ identities \in [IdentityId -> Identity]
  BY DEF IdentityTypeOK, IdentityCommand
<1>1. PICK i \in Identity : i = identities[s.identityId]
  BY <1>0
<1>2. i.nonce \in Nat /\ i.ownerEpoch \in Nat /\ i.nonce + 1 \in Nat /\ i.ownerEpoch + 1 \in Nat
  BY <1>1 DEF Identity
<1>3. /\ idSigs' = MarkUsed(idSigs, s) /\ now' = now /\ tracks' = tracks
      /\ i.exists /\ s.nonce = i.nonce
  BY <1>1 DEF proposeOwnerRotation, confirmOwnerRotation, ProposeAllowed, ConfirmAllowed,
              ConsumesOwnerCommand
<1>4. idSigs' \subseteq IdentityCommand
  BY <1>3, MarkUsedType DEF IdentityTypeOK
<1>5. CASE proposeOwnerRotation(s)
  <2>1. PICK j : j = [i EXCEPT !.nonce = @ + 1, !.pendingOwner = s.newOwner]
    OBVIOUS
  <2>2. /\ j \in Identity /\ j.exists = i.exists /\ j.nonce = i.nonce + 1 /\ j.owner = i.owner
        /\ j.pendingOwner = s.newOwner
    BY <1>0, <1>2, <2>1 DEF Identity
  <2>3. identities' = [identities EXCEPT ![s.identityId] = j] /\ s.op = "ProposeOwnerRotation"
    BY <1>1, <1>5, <2>1 DEF proposeOwnerRotation, ProposeAllowed
  <2>4. /\ identities' \in [IdentityId -> Identity] /\ identities'[s.identityId] = j
        /\ \A n \in IdentityId : n # s.identityId => identities'[n] = identities[n]
    BY <1>0, <2>2, <2>3
  <2> QED
    BY <1>0, <1>1, <1>2, <1>3, <1>4, <2>2, <2>3, <2>4 DEF IdentityTypeOK
<1>6. CASE confirmOwnerRotation(s)
  <2>1. PICK j : j = [i EXCEPT !.nonce = @ + 1, !.owner = s.newOwner, !.pendingOwner = NoAddr,
                               !.ownerEpoch = @ + 1]
    OBVIOUS
  <2>2. /\ j \in Identity /\ j.exists = i.exists /\ j.nonce = i.nonce + 1
        /\ j.owner = s.newOwner /\ j.pendingOwner = NoAddr
    BY <1>0, <1>2, <2>1 DEF Identity
  <2>3. /\ identities' = [identities EXCEPT ![s.identityId] = j]
        /\ s.op = "ConfirmOwnerRotation"
        /\ i.pendingOwner # NoAddr /\ s.newOwner = i.pendingOwner
    BY <1>1, <1>6, <2>1 DEF confirmOwnerRotation, ConfirmAllowed
  <2>4. /\ identities' \in [IdentityId -> Identity] /\ identities'[s.identityId] = j
        /\ \A n \in IdentityId : n # s.identityId => identities'[n] = identities[n]
    BY <1>0, <2>2, <2>3
  <2> QED
    BY <1>0, <1>1, <1>2, <1>3, <1>4, <2>2, <2>3, <2>4 DEF IdentityTypeOK
<1> QED
  BY <1>5, <1>6

(* A command that takes effect is the first of its key to do so: it takes the identity one stage on. *)
LEMMA MineCommandStep ==
  ASSUME IInv, NEW k \in DOMAIN txs, txs[k].status = "pending", MineCommand(k)
  PROVE  IInv'
<1> DEFINE s == txs[k].cmd
<1> DEFINE id == txs[k].key[2]
<1>0. TypeOK /\ Stages /\ TxsDone /\ TxsCarry /\ OneEffect /\ deployed' = deployed
      /\ deployed' \subseteq User
  BY DEF IInv, TypeOK, MineCommand
<1>1. /\ txs[k].key[1] \in {"propose", "confirm"} /\ s \in IdentityCommand /\ id = s.identityId
      /\ Carries(txs[k].key, s) /\ id \in IdentityId
  BY <1>0, CommandFields DEF TxsCarry, Carries, MineCommand
<1>2. CASE ~IdentityAcceptable(s) /\ Mined(k, "reverted", NoId) /\ UNCHANGED <<now, idVars>>
  BY <1>0, <1>2, MineNothingStep DEF idVars
<1>3. CASE (proposeOwnerRotation(s) \/ confirmOwnerRotation(s)) /\ Mined(k, "success", NoId)
  <2> DEFINE i == identities[id]
  <2> DEFINE j == identities'[id]
  <2>0. NoId \in IdentityId \cup {NoId}
    OBVIOUS
  <2>1. /\ IdentityTypeOK' /\ i.exists /\ j.exists /\ s.nonce = i.nonce /\ i.nonce \in Nat
        /\ j.nonce = i.nonce + 1
        /\ \A n \in IdentityId : n # id => identities'[n] = identities[n]
        /\ s.op = "ProposeOwnerRotation" => j.owner = i.owner /\ j.pendingOwner = s.newOwner
        /\ s.op = "ConfirmOwnerRotation" =>
             i.pendingOwner # NoAddr /\ j.owner = i.pendingOwner /\ j.pendingOwner = NoAddr
    BY <1>0, <1>1, <1>3, CommandWrites DEF TypeOK
  <2>2. /\ DOMAIN txs' = DOMAIN txs
        /\ txs'[k].status = "success" /\ txs'[k].key = txs[k].key
        /\ \A m \in DOMAIN txs : m # k => txs'[m] = txs[m]
        /\ \A n, u : CreatedFor(n, u) => CreatedFor(n, u)'
    BY <1>0, <1>3, <2>0, MinedTxs
  <2>3. /\ txs[k].key[1] = "propose" =>
             /\ i.nonce = 0 /\ j.nonce = 1 /\ j.owner = Relayer /\ j.pendingOwner \in User
             /\ CreatedFor(id, j.pendingOwner)
        /\ txs[k].key[1] = "confirm" =>
             /\ i.nonce = 1 /\ j.nonce = 2 /\ j.pendingOwner = NoAddr /\ j.owner \in User
             /\ CreatedFor(id, j.owner)
    <3>1. CASE txs[k].key[1] = "propose"
      <4>1. /\ s.op = "ProposeOwnerRotation" /\ s.nonce = 0 /\ s.newOwner \in User
            /\ CreatedFor(id, s.newOwner)
        BY <1>1, <3>1 DEF Carries
      <4>2. i.nonce = 0 /\ i.exists
        BY <2>1, <4>1
      <4>3. i.owner = Relayer
        BY <1>0, <1>1, <4>2 DEF Stages
      <4> QED
        BY <2>1, <3>1, <4>1, <4>2, <4>3
    <3>2. CASE txs[k].key[1] = "confirm"
      <4>1. s.op = "ConfirmOwnerRotation"
        BY <1>1, <3>2 DEF Carries
      <4>2. i.nonce = 1 /\ i.pendingOwner \in User /\ CreatedFor(id, i.pendingOwner)
        BY <1>0, <1>1, <2>1, <4>1 DEF Stages
      <4> QED
        BY <2>1, <3>2, <4>1, <4>2
    <3> QED
      BY <1>1, <3>1, <3>2
  <2>4. Stages'
    BY <1>0, <1>1, <2>1, <2>2, <2>3 DEF Stages
  <2>5. \A m \in DOMAIN txs' : txs'[m].status = "success" =>
          \/ m = k
          \/ m \in DOMAIN txs /\ txs'[m] = txs[m] /\ txs[m].status = "success"
    BY <2>2
  <2>6. TxsDone'
    <3>1. ASSUME NEW m \in DOMAIN txs', txs'[m].status = "success"
          PROVE  /\ txs'[m].key[1] = "create" =>
                      txs'[m].id \in IdentityId /\ identities'[txs'[m].id].exists
                 /\ txs'[m].key[1] = "propose" => identities'[txs'[m].key[2]].nonce # 0
                 /\ txs'[m].key[1] = "confirm" => identities'[txs'[m].key[2]].nonce = 2
      <4>1. CASE m = k
        BY <1>1, <2>2, <2>3, <4>1
      <4>2. CASE m # k
        <5>1. m \in DOMAIN txs /\ txs'[m] = txs[m] /\ txs[m].status = "success"
          BY <2>5, <3>1, <4>2
        <5>2. /\ txs[m].key[1] = "create" =>
                   txs[m].id \in IdentityId /\ identities[txs[m].id].exists
              /\ txs[m].key[1] = "propose" => identities[txs[m].key[2]].nonce # 0
              /\ txs[m].key[1] = "confirm" => identities[txs[m].key[2]].nonce = 2
          BY <1>0, <5>1 DEF TxsDone
        <5>3. txs[m].key[1] \in {"propose", "confirm"} => txs[m].key[2] \in IdentityId
          BY <1>0, <5>1, CommandFields DEF TxsCarry, Carries
        <5> QED
          BY <1>1, <2>1, <2>3, <5>1, <5>2, <5>3
      <4> QED
        BY <4>1, <4>2
    <3>2. \A m, n \in DOMAIN txs' :
            /\ txs'[m].status = "success" /\ txs'[m].key[1] = "create"
            /\ txs'[n].status = "success" /\ txs'[n].key[1] = "create"
            /\ txs'[m].id = txs'[n].id
            => m = n
      BY <1>0, <1>1, <2>2, <2>5 DEF TxsDone
    <3> QED
      BY <3>1, <3>2 DEF TxsDone
  <2>7. OneEffect'
    <3>1. ASSUME NEW m \in DOMAIN txs, m # k, txs[m].status = "success",
                 txs[m].key = txs[k].key
          PROVE  FALSE
      BY <1>0, <1>1, <2>3, <3>1 DEF TxsDone
    <3> QED
      BY <1>0, <1>1, <2>2, <2>5, <3>1 DEF OneEffect
  <2>8. \A n \in IdentityId : identities[n].nonce # 0 => identities'[n].nonce # 0
    BY <1>1, <2>1, <2>3
  <2> QED
    BY <1>0, <1>3, <2>0, <2>1, <2>4, <2>6, <2>7, <2>8, MinedKeeps
<1> QED
  BY <1>2, <1>3 DEF MineCommand

-----------------------------------------------------------------------------
(* Every await, fault, signature and block keeps the invariant. *)
LEMMA CreationStep == ASSUME IInv, [Next]_vars PROVE IInv'
<1>1. ASSUME NEW r \in Request, RequestStep(r) \/ LookupFails(r) \/ Fail(r)
      PROVE  IInv'
  BY <1>1, LookupStep, NonceStep, SendStep, SaveStep, WaitStep, ResyncStep, EndStep
     DEF RequestStep
<1>2. ASSUME NEW u \in User, UserStep(u)
      PROVE  IInv'
  <2>1. \A i \in 1..MaxInFlight : <<u, i>> \in Request
    BY DEF Request
  <2> QED
    BY <1>2, <2>1, StartCreateStep, BeginConfirmStep, StartConfirmStep DEF UserStep
<1>3. CASE Mine
  <2>1. ASSUME NEW k \in DOMAIN txs, txs[k].status = "pending", MineDeploy(k)
        PROVE  IInv'
    <3>1. /\ txs[k].key[1] = "deploy" /\ deployed' = deployed \cup {txs[k].key[2]}
          /\ Mined(k, "success", NoId) /\ UNCHANGED <<now, identities, tracks, idSigs>>
      BY <2>1 DEF MineDeploy, idVars
    <3>2. deployed' \subseteq User
      BY <3>1 DEF IInv, TypeOK, TxsCarry, Carries
    <3> QED
      BY <2>1, <3>1, <3>2, MineNothingStep
  <2> QED
    BY <1>3, <2>1, MineCreateStep, MineCommandStep DEF Mine
<1>4. ASSUME NEW k \in DOMAIN txs, Evict(k)
      PROVE  IInv'
  BY <1>4, EvictStep
<1>5. CASE Restart
  BY <1>5, RestartStep
<1>6. CASE UNCHANGED vars
  <2>1. UNCHANGED <<now, identities, tracks, idSigs, deployed, accountNonce, txs, store, reqs,
                    known, faults>>
    BY <1>6 DEF vars, idVars, flowVars
  <2>2. TypeOK /\ RequestsOwn /\ TxsCarry
    BY DEF IInv
  <2>3. TxsGrow
    BY <2>1 DEF TxsGrow
  <2>4. reqs' \in [Request -> RequestState] /\ RequestsOwn'
    BY <2>1, <2>2, <2>3, RequestsStay
  <2>5. txs' \in Seq(Transaction) /\ faults' \in Nat
    BY <2>1, <2>2 DEF TypeOK
  <2> QED
    BY <2>1, <2>2, <2>3, <2>4, <2>5, PoolOnly DEF TxsCarry
<1> QED
  BY <1>1, <1>2, <1>3, <1>4, <1>5, <1>6 DEF Next

(* The inductive invariant holds in every reachable state, for any number of faults. *)
THEOREM CreationInvariance == Spec => []IInv
BY CreationInit, CreationStep, PTL DEF Spec

(* Relayer and relayFlow: a proposal or confirmation broadcast more than once takes effect once. *)
THEOREM OneEffectSafe == Spec => []OneEffect
<1>1. IInv => OneEffect
  BY DEF IInv
<1> QED
  BY <1>1, CreationInvariance, PTL

(* Only one user has an identity created for it. *)
LEMMA CreatedForOne ==
  ASSUME TxsDone, NEW id, NEW u, NEW v, CreatedFor(id, u), CreatedFor(id, v)
  PROVE  u = v
BY DEF TxsDone, CreatedFor

(* chainLifecycle.ts never answers a user with somebody else's identity. *)
THEOREM AnswerSafe == Spec => []AnswerIsMine
<1>1. IInv => AnswerIsMine
  <2> SUFFICES ASSUME IInv, NEW u \in User, known[u] # NoId
               PROVE  u \in {identities[known[u]].pendingOwner, identities[known[u]].owner}
    BY DEF AnswerIsMine
  <2>1. /\ TxsDone /\ Stages /\ known[u] \in IdentityId /\ CreatedFor(known[u], u)
        /\ identities[known[u]].nonce # 0
    BY DEF IInv, TypeOK, KnownOffered
  <2>2. \E v \in {identities[known[u]].pendingOwner, identities[known[u]].owner} :
          CreatedFor(known[u], v)
    BY <2>1 DEF Stages
  <2> QED
    BY <2>1, <2>2, CreatedForOne
<1> QED
  BY <1>1, CreationInvariance, PTL
=============================================================================
