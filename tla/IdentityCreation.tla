--------------------------- MODULE IdentityCreation ---------------------------
(***************************************************************************)
(* services/chain-worker: the Relayer (relayer.ts) carrying the            *)
(* transactions of the identity-creation flow (relayFlow.ts) that          *)
(* chainLifecycle.ts runs for each HTTP request, over the live             *)
(* IdentityRegistry.                                                       *)
(*                                                                         *)
(* A request is a sequence of awaits and every await is a step of its own, *)
(* so requests of one user or of several interleave at each of them.  All  *)
(* transactions are sent from the relayer's one account: they share its    *)
(* nonce and are mined in that order.  Mining a transaction is the         *)
(* registry's own action when its checks pass, and a revert otherwise.     *)
(*                                                                         *)
(* Abstractions.  A user is the address its credential predicts; the       *)
(* credential is of the vault kind, the only one that can confirm.  The    *)
(* projection answers with the state of the chain, or the request fails.   *)
(* Only identity-creation requests are served, and the relayer is funded.  *)
(* Commands are mined before their deadline (ten minutes in the code).     *)
(***************************************************************************)
EXTENDS IdentityRegistry, Sequences

CONSTANTS
  Relayer,      \* the relayer's account
  Deployed,     \* accounts deployed before
  NoId,         \* no identity
  NoCommand,    \* a transaction that carries no signed command
  MaxInFlight,  \* requests of one user at a time
  MaxFaults     \* bound on crashes, failed awaits and evicted transactions

ASSUME CreationAssumption ==
  /\ Relayer \in Address
  /\ Deployed \subseteq Address \ {Relayer}
  /\ NoId \notin IdentityId
  /\ MaxInFlight \in Nat \ {0}
  /\ MaxFaults \in Nat

VARIABLES
  deployed,      \* accounts the factory has deployed
  accountNonce,  \* transactions of the relayer's account mined so far
  txs,           \* every transaction broadcast; a hash is its position
  store,         \* MemoryRelayStore: dedupKey |-> hash
  reqs,          \* requests in flight: program counter and local variables
  known,         \* the identity the API last gave each user
  faults         \* faults so far

flowVars == <<deployed, accountNonce, txs, store, reqs, known, faults>>
vars == <<now, idVars, flowVars>>

User == Address \ {Relayer}
Request == User \X (1..MaxInFlight)

Idle == [pc |-> "idle", key |-> <<>>, cmd |-> NoCommand, nonce |-> 0, tx |-> 0, id |-> NoId]

Init ==
  /\ IdentityInit
  /\ deployed = Deployed
  /\ accountNonce = 0
  /\ txs = <<>>
  /\ store = <<>>
  /\ reqs = [r \in Request |-> Idle]
  /\ known = [u \in User |-> NoId]
  /\ faults = 0

-----------------------------------------------------------------------------
(* The relayer's account as the node sees it (external). *)
Live == {k \in DOMAIN txs : txs[k].status # "dropped"}
Taken(n) == n < accountNonce \/ \E k \in Live : txs[k].nonce = n
pendingNonce ==
  CHOOSE n \in accountNonce..(accountNonce + Len(txs)) :
    ~Taken(n) /\ \A m \in accountNonce..(n - 1) : Taken(m)

(* An evicted transaction keeps the later ones from being mined. *)
Gap ==
  /\ \E k \in DOMAIN txs : txs[k].status = "pending"
  /\ ~\E k \in DOMAIN txs : txs[k].status = "pending" /\ txs[k].nonce = accountNonce

(* Fault: the key of a creation does not name the credential. *)
dedupKeyShared(fn, subject) == <<fn, IF fn = "create" THEN Relayer ELSE subject>>

(* deploy:, create: per credential; propose:, confirm: per identity. *)
dedupKey(fn, subject) == <<fn, subject>>

(* The request goes on to its next relay call. *)
Relay(r, fn, subject, cmd, id) ==
  reqs' = [reqs EXCEPT ![r] = [@ EXCEPT !.pc = "lookup", !.key = dedupKey(fn, subject),
                                        !.cmd = cmd, !.id = id]]

End(r) == reqs' = [reqs EXCEPT ![r] = Idle]

(* What the projection holds for the user's predicted account as owner. *)
findMyIdentity(u) == {id \in IdentityId : identities[id].owner = u}

(* POST /identities; the page offers it to users without an identity. *)
StartCreate(r) ==
  LET u == r[1]
      fn == IF u \in deployed THEN "create" ELSE "deploy"
  IN /\ reqs[r].pc = "idle"
     /\ findMyIdentity(u) = {} /\ known[u] = NoId
     /\ reqs' = [reqs EXCEPT ![r] = [Idle EXCEPT !.pc = "lookup", !.key = dedupKey(fn, u)]]
     /\ UNCHANGED <<now, idVars, deployed, accountNonce, txs, store, known, faults>>

(* POST confirm-challenge, for the pending owner only, signed by the browser. *)
beginConfirmIdentity(u) ==
  /\ known[u] # NoId
  /\ identities[known[u]].pendingOwner = u
  /\ LET s == IdentityChallenge(known[u], "ConfirmOwnerRotation", u, u) IN
     /\ s \notin idSigs
     /\ idSigs' = idSigs \cup {s}
  /\ UNCHANGED <<now, identities, tracks, flowVars>>

(* POST confirm, with any command the user has signed. *)
StartConfirm(r, s) ==
  /\ reqs[r].pc = "idle"
  /\ findMyIdentity(r[1]) = {}
  /\ s.op = "ConfirmOwnerRotation" /\ s.signer = r[1]
  /\ reqs' = [reqs EXCEPT ![r] = [Idle EXCEPT !.pc = "lookup", !.cmd = s,
                !.key = dedupKey("confirm", s.identityId), !.id = s.identityId]]
  /\ UNCHANGED <<now, idVars, deployed, accountNonce, txs, store, known, faults>>

-----------------------------------------------------------------------------
(* Fault: a recorded transaction is trusted to be on its way. *)
LookupTrusting(r) ==
  LET q == reqs[r] IN
  /\ q.pc = "lookup"
  /\ reqs' = [reqs EXCEPT ![r] =
       IF q.key \in DOMAIN store
         THEN [q EXCEPT !.pc = "wait", !.tx = store[q.key]]
         ELSE [q EXCEPT !.pc = "nonce"]]
  /\ UNCHANGED <<now, idVars, deployed, accountNonce, txs, store, known, faults>>

(* relay: find, then getTransaction: a transaction still known is recovered. *)
Lookup(r) ==
  LET q == reqs[r] IN
  /\ q.pc = "lookup"
  /\ reqs' = [reqs EXCEPT ![r] =
       IF q.key \in DOMAIN store /\ store[q.key] \in Live
         THEN [q EXCEPT !.pc = "wait", !.tx = store[q.key]]
         ELSE [q EXCEPT !.pc = "nonce"]]
  /\ UNCHANGED <<now, idVars, deployed, accountNonce, txs, store, known, faults>>

(* getTransaction turns an RPC error into "not found". *)
LookupFails(r) ==
  LET q == reqs[r] IN
  /\ q.pc = "lookup" /\ faults < MaxFaults
  /\ q.key \in DOMAIN store /\ store[q.key] \in Live
  /\ reqs' = [reqs EXCEPT ![r].pc = "nonce"]
  /\ faults' = faults + 1
  /\ UNCHANGED <<now, idVars, deployed, accountNonce, txs, store, known>>

(* relay: getBalance and getPendingNonce. *)
getPendingNonce(r) ==
  /\ reqs[r].pc = "nonce"
  /\ reqs' = [reqs EXCEPT ![r].pc = "send", ![r].nonce = pendingNonce]
  /\ UNCHANGED <<now, idVars, deployed, accountNonce, txs, store, known, faults>>

(* relay: sendTransaction; the node refuses a nonce that is taken by now. *)
sendTransaction(r) ==
  LET q == reqs[r] IN
  /\ q.pc = "send"
  /\ IF Taken(q.nonce)
       THEN End(r) /\ UNCHANGED txs
       ELSE /\ txs' = Append(txs, [key |-> q.key, cmd |-> q.cmd, nonce |-> q.nonce,
                                   status |-> "pending", id |-> NoId])
            /\ reqs' = [reqs EXCEPT ![r].pc = "save", ![r].tx = Len(txs) + 1]
  /\ UNCHANGED <<now, idVars, deployed, accountNonce, store, known, faults>>

(* relay: the response has arrived and the record is saved. *)
save(r) ==
  LET q == reqs[r] IN
  /\ q.pc = "save"
  /\ store' = [k \in DOMAIN store \cup {q.key} |-> IF k = q.key THEN q.tx ELSE store[k]]
  /\ reqs' = [reqs EXCEPT ![r].pc = "wait"]
  /\ UNCHANGED <<now, idVars, deployed, accountNonce, txs, known, faults>>

(* The relayer's own signature over the proposal, with epoch and nonce 0. *)
Proposal(id, u) ==
  [op |-> "ProposeOwnerRotation", identityId |-> id, newOwner |-> u, ownerEpoch |-> 0,
   nonce |-> 0, deadline |-> now + Window, signer |-> Relayer, used |-> FALSE]

(* waitForSuccessfulReceipt, and what the flow does next. *)
waitForSuccessfulReceipt(r) ==
  LET q == reqs[r]
      t == txs[q.tx]
  IN /\ q.pc = "wait"
     /\ \/ /\ t.status = "reverted"
           /\ End(r) /\ UNCHANGED idSigs
        \/ /\ t.status = "success" /\ t.key[1] = "deploy"
           /\ Relay(r, "create", r[1], NoCommand, NoId) /\ UNCHANGED idSigs
        \/ /\ t.status = "success" /\ t.key[1] = "create"
           /\ LET s == Proposal(t.id, r[1]) IN
              /\ Relay(r, "propose", t.id, s, t.id)
              /\ idSigs' = IF \E p \in idSigs : [p EXCEPT !.used = FALSE] = s THEN idSigs
                           ELSE idSigs \cup {s}
        \/ /\ t.status = "success" /\ t.key[1] \in {"propose", "confirm"}
           /\ reqs' = [reqs EXCEPT ![r].pc = "read"] /\ UNCHANGED idSigs
     /\ UNCHANGED <<now, identities, tracks, deployed, accountNonce, txs, store, known, faults>>

(* The receipt of an evicted transaction does not come. *)
TimeOut(r) ==
  /\ reqs[r].pc = "wait"
  /\ txs[reqs[r].tx].status = "dropped"
  /\ End(r)
  /\ UNCHANGED <<now, idVars, deployed, accountNonce, txs, store, known, faults>>

(* resyncUntil: a creation answers with an identity that has a pending owner. *)
resyncUntil(r) ==
  LET q == reqs[r] IN
  /\ q.pc = "read"
  /\ known' = IF q.key[1] = "propose" /\ identities[q.id].pendingOwner # NoAddr
                THEN [known EXCEPT ![r[1]] = q.id] ELSE known
  /\ End(r)
  /\ UNCHANGED <<now, idVars, deployed, accountNonce, txs, store, faults>>

-----------------------------------------------------------------------------
(* The chain (external): the next transaction of the account is mined. *)
Mined(k, status, id) ==
  /\ txs' = [txs EXCEPT ![k].status = status, ![k].id = id]
  /\ accountNonce' = accountNonce + 1
  /\ UNCHANGED <<store, reqs, known, faults>>

MineDeploy(k) ==
  /\ txs[k].key[1] = "deploy"
  /\ deployed' = deployed \cup {txs[k].key[2]}
  /\ Mined(k, "success", NoId)
  /\ UNCHANGED <<now, idVars>>

MineCreate(k) ==
  LET id == CHOOSE i \in IdentityId : ~identities[i].exists IN
  /\ txs[k].key[1] = "create"
  /\ \E i \in IdentityId : ~identities[i].exists
  /\ createIdentity(Relayer, id)
  /\ Mined(k, "success", id)
  /\ UNCHANGED deployed

MineCommand(k) ==
  LET s == txs[k].cmd IN
  /\ txs[k].key[1] \in {"propose", "confirm"}
  /\ \/ proposeOwnerRotation(s) /\ Mined(k, "success", NoId)
     \/ confirmOwnerRotation(s) /\ Mined(k, "success", NoId)
     \/ ~IdentityAcceptable(s) /\ Mined(k, "reverted", NoId) /\ UNCHANGED <<now, idVars>>
  /\ UNCHANGED deployed

Mine ==
  \E k \in DOMAIN txs :
    /\ txs[k].status = "pending" /\ txs[k].nonce = accountNonce
    /\ MineDeploy(k) \/ MineCreate(k) \/ MineCommand(k)

(* The node evicts the account's last transaction from its pool. *)
Evict(k) ==
  /\ faults < MaxFaults
  /\ txs[k].status = "pending" /\ txs[k].nonce = pendingNonce - 1
  /\ txs' = [txs EXCEPT ![k].status = "dropped"]
  /\ faults' = faults + 1
  /\ UNCHANGED <<now, idVars, deployed, accountNonce, store, reqs, known>>

(* An await rejects: the answer is lost, what was sent is not.  A request *)
(* that fails before it sends leaves what one that never started leaves.  *)
Fail(r) ==
  /\ faults < MaxFaults
  /\ reqs[r].pc \in {"save", "wait", "read"}
  /\ End(r)
  /\ faults' = faults + 1
  /\ UNCHANGED <<now, idVars, deployed, accountNonce, txs, store, known>>

(* The process restarts: the relay store was in memory. *)
Restart ==
  /\ faults < MaxFaults
  /\ store' = <<>>
  /\ reqs' = [r \in Request |-> Idle]
  /\ faults' = faults + 1
  /\ UNCHANGED <<now, idVars, deployed, accountNonce, txs, known>>

RequestStep(r) ==
  \/ Lookup(r) \/ getPendingNonce(r) \/ sendTransaction(r) \/ save(r)
  \/ waitForSuccessfulReceipt(r) \/ resyncUntil(r) \/ TimeOut(r)

UserStep(u) ==
  \/ \E i \in 1..MaxInFlight : StartCreate(<<u, i>>)
  \/ beginConfirmIdentity(u)
  \/ \E i \in 1..MaxInFlight, s \in idSigs : StartConfirm(<<u, i>>, s)

Next ==
  \/ \E r \in Request : RequestStep(r) \/ LookupFails(r) \/ Fail(r)
  \/ \E u \in User : UserStep(u)
  \/ Mine
  \/ \E k \in DOMAIN txs : Evict(k)
  \/ Restart

(***************************************************************************)
(* Fairness: an await that does not reject resumes, the chain mines what   *)
(* it can mine, and a user who owns nothing yet tries again.               *)
(***************************************************************************)
Spec == /\ Init /\ [][Next]_vars
        /\ \A r \in Request : WF_vars(RequestStep(r))
        /\ WF_vars(Mine)
        /\ \A u \in User : WF_vars(UserStep(u))

-----------------------------------------------------------------------------
Command == IdentityCommand \cup {NoCommand}
Key == {"deploy", "create", "propose", "confirm"} \X (User \cup IdentityId)
RequestState ==
  [pc : {"idle", "lookup", "nonce", "send", "save", "wait", "read"}, key : Key \cup {<<>>},
   cmd : Command, nonce : Nat, tx : Nat, id : IdentityId \cup {NoId}]
Transaction ==
  [key : Key, cmd : Command, nonce : Nat,
   status : {"pending", "success", "reverted", "dropped"}, id : IdentityId \cup {NoId}]

TypeOK ==
  /\ IdentityTypeOK
  /\ deployed \subseteq User
  /\ accountNonce \in Nat /\ faults \in Nat
  /\ txs \in Seq(Transaction)
  /\ \A key \in DOMAIN store : store[key] \in DOMAIN txs
  /\ reqs \in [Request -> RequestState]
  /\ known \in [User -> IdentityId \cup {NoId}]

(***************************************************************************)
(* The API never hands a user somebody else's identity: whichever requests *)
(* interleave, are retried or are recovered from the relay store, the      *)
(* identity a creation answered with waits for that user's confirmation or *)
(* belongs to that user.                                                   *)
(***************************************************************************)
AnswerIsMine ==
  \A u \in User : known[u] # NoId =>
    u \in {identities[known[u]].pendingOwner, identities[known[u]].owner}

(***************************************************************************)
(* A proposal or confirmation that is broadcast more than once, by         *)
(* concurrent requests, after a failed lookup or after a restart, takes    *)
(* effect once.                                                            *)
(***************************************************************************)
OneEffect ==
  \A j, k \in DOMAIN txs :
    /\ txs[j].status = "success" /\ txs[k].status = "success"
    /\ txs[j].key = txs[k].key
    /\ txs[j].key[1] \in {"propose", "confirm"}
    => j = k

(***************************************************************************)
(* Users who keep trying all end up owning an identity, whatever collided, *)
(* failed or was lost on the way, unless a command of the flow reverts or  *)
(* an evicted transaction leaves a gap before the ones that wait.          *)
(***************************************************************************)
EventuallyOwns ==
  <>(\/ Gap
     \/ \E k \in DOMAIN txs : txs[k].status = "reverted"
     \/ \A u \in User : findMyIdentity(u) # {})

(***************************************************************************)
(* The relayer broadcasts idempotently: of the transactions the node still *)
(* knows, no two were broadcast for the same dedupKey.                     *)
(***************************************************************************)
RelayedOnce == \A j, k \in Live : txs[j].key = txs[k].key => j = k

-----------------------------------------------------------------------------
(***************************************************************************)
(* The inductive invariant.  An identity is created for one user, offered  *)
(* to that user by the relayer's one proposal, and taken by one            *)
(* confirmation: its nonce tells which of these has happened.              *)
(***************************************************************************)
CreatedFor(id, u) ==
  \E k \in DOMAIN txs : /\ txs[k].status = "success" /\ txs[k].id = id
                        /\ txs[k].key = <<"create", u>>

Stages ==
  \A id \in IdentityId :
    LET i == identities[id] IN
      \/ ~i.exists /\ i.nonce = 0 /\ i.owner = NoAddr /\ i.pendingOwner = NoAddr
      \/ i.exists /\ i.nonce = 0 /\ i.owner = Relayer /\ i.pendingOwner = NoAddr
      \/ /\ i.exists /\ i.nonce = 1 /\ i.owner = Relayer
         /\ i.pendingOwner \in User /\ CreatedFor(id, i.pendingOwner)
      \/ /\ i.exists /\ i.nonce = 2 /\ i.pendingOwner = NoAddr
         /\ i.owner \in User /\ CreatedFor(id, i.owner)

(* What a transaction of each key carries. *)
Carries(key, cmd) ==
  /\ key[1] \in {"deploy", "create"} => key[2] \in User
  /\ key[1] = "propose" => /\ cmd \in IdentityCommand /\ key[2] = cmd.identityId
                           /\ cmd.op = "ProposeOwnerRotation" /\ cmd.nonce = 0
                           /\ cmd.newOwner \in User /\ CreatedFor(cmd.identityId, cmd.newOwner)
  /\ key[1] = "confirm" => /\ cmd \in IdentityCommand /\ key[2] = cmd.identityId
                           /\ cmd.op = "ConfirmOwnerRotation"

TxsCarry ==
  /\ \A k \in DOMAIN txs : Carries(txs[k].key, txs[k].cmd)
  /\ \A key \in DOMAIN store : txs[store[key]].key = key

(* What the mined transactions have done. *)
TxsDone ==
  /\ \A k \in DOMAIN txs : txs[k].status = "success" =>
       /\ txs[k].key[1] = "create" => txs[k].id \in IdentityId /\ identities[txs[k].id].exists
       /\ txs[k].key[1] = "propose" => identities[txs[k].key[2]].nonce # 0
       /\ txs[k].key[1] = "confirm" => identities[txs[k].key[2]].nonce = 2
  /\ \A j, k \in DOMAIN txs :
       /\ txs[j].status = "success" /\ txs[j].key[1] = "create"
       /\ txs[k].status = "success" /\ txs[k].key[1] = "create"
       /\ txs[j].id = txs[k].id
       => j = k

(* A request waits for its own transaction, of its own user and identity. *)
OwnRequest(r, q) ==
  /\ q.key \in Key /\ Carries(q.key, q.cmd)
  /\ q.key[1] \in {"deploy", "create"} => q.key[2] = r[1]
  /\ q.key[1] = "propose" => q.cmd.newOwner = r[1] /\ q.id = q.key[2]
  /\ q.pc \in {"save", "wait"} => q.tx \in DOMAIN txs /\ txs[q.tx].key = q.key
RequestsOwn == \A r \in Request : reqs[r].pc # "idle" => OwnRequest(r, reqs[r])

KnownOffered ==
  \A u \in User : known[u] # NoId =>
    CreatedFor(known[u], u) /\ identities[known[u]].nonce # 0

IInv == TypeOK /\ Stages /\ TxsCarry /\ TxsDone /\ RequestsOwn /\ KnownOffered /\ OneEffect
=============================================================================
