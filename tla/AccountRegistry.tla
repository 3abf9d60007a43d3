---------------------------- MODULE AccountRegistry ----------------------------
(***************************************************************************)
(* contracts/src/AccountRegistry.sol over the live IdentityRegistry: the   *)
(* account bindings of a track and its membership epochs.                  *)
(*                                                                         *)
(* The registry has its own EIP-712 domain and a nonce per track; owner    *)
(* and owner epoch are read from IdentityRegistry when a command arrives.  *)
(* keccak256 of a member array is injective, so a root is the array under  *)
(* a tag.  venueId, environment and reasonHash are stored and never read   *)
(* by the contract: left out.                                              *)
(***************************************************************************)
EXTENDS IdentityRegistry, Sequences

CONSTANTS
  AccountId,
  NoRoot,        \* bytes32(0) as the root before the first epoch
  Commitment,    \* authenticatedIdCommitment values
  Eligible,      \* offsets of eligibleFrom from the time of signing
  MaxTrackNonce, \* bound on a track's nonce
  MaxAcSigs      \* bound on the account commands in relayers' hands

ASSUME AccountAssumption ==
  /\ MaxTrackNonce \in Nat /\ MaxAcSigs \in Nat
  /\ Eligible \subseteq Nat
  /\ AccountId \cap TrackId = {}
  /\ TrackId # {} /\ Commitment # {}

VARIABLES
  accounts,          \* mapping(bytes32 => AccountBinding)
  membershipEpochs,  \* mapping(bytes32 => MembershipEpoch[])
  trackNonce,        \* mapping(bytes32 => uint64)
  acSigs             \* signed commands of this contract's domain

acVars == <<accounts, membershipEpochs, trackNonce, acSigs>>
vars == <<now, idVars, acVars>>

AccountState == {"PendingBaseline", "Active", "Removed"}

AccountBinding ==
  [trackId : TrackId, commitment : Commitment, registeredAt : Nat,
   eligibleFrom : Nat, removedAt : Nat, bindingEpoch : Nat,
   state : AccountState, exists : BOOLEAN]

NoAccount ==
  [trackId |-> CHOOSE t \in TrackId : TRUE,
   commitment |-> CHOOSE c \in Commitment : TRUE, registeredAt |-> 0,
   eligibleFrom |-> 0, removedAt |-> 0, bindingEpoch |-> 0,
   state |-> "PendingBaseline", exists |-> FALSE]

Root(ids) == [keccak256 |-> ids]

AccountOp == {"RegisterAccount", "ActivateAccount", "RemoveAccount",
              "RotateBindingCredential"}

(***************************************************************************)
(* A signed account command.  `subject' is the track of a registration and *)
(* the account of the others.  `commitment' is in the typed data of        *)
(* RegisterAccount; of RotateBindingCredential it is only what the signer  *)
(* means to set: ROTATE_BINDING_CREDENTIAL_TYPEHASH does not cover it.     *)
(***************************************************************************)
AccountCommand ==
  [op : AccountOp, subject : TrackId \cup AccountId, commitment : Commitment,
   eligibleFrom : Nat, ownerEpoch : Nat, nonce : Nat, deadline : Nat,
   signer : Address, used : BOOLEAN]

AccountInit ==
  /\ accounts = [x \in AccountId |-> NoAccount]
  /\ membershipEpochs = [t \in TrackId |-> <<>>]
  /\ trackNonce = [t \in TrackId |-> 0]
  /\ acSigs = {}

-----------------------------------------------------------------------------
trackOwner(t) == identities[tracks[t].identityId].owner
trackOwnerEpoch(t) == identities[tracks[t].identityId].ownerEpoch

(* Fault: the owner epoch is not compared. *)
ConsumesAnyEpoch(s, t) ==
  /\ tracks[t].exists
  /\ now <= s.deadline
  /\ s.nonce = trackNonce[t]
  /\ s.signer = trackOwner(t)

(* _requireTrackOwner's existence check and _consumeCommand's checks. *)
ConsumesCommand(s, t) ==
  /\ tracks[t].exists
  /\ now <= s.deadline
  /\ s.ownerEpoch = trackOwnerEpoch(t)
  /\ s.nonce = trackNonce[t]
  /\ s.signer = trackOwner(t)

currentMembers(t) ==
  IF membershipEpochs[t] = <<>> THEN <<>>
  ELSE membershipEpochs[t][Len(membershipEpochs[t])].accountIds

(* Fault: every epoch is linked to the first one. *)
openMembershipEpochOnFirst(t, ids) ==
  membershipEpochs' = [membershipEpochs EXCEPT ![t] = Append(@,
    [accountIds |-> ids,
     accountSetRoot |-> Root(ids),
     previousRoot |-> IF @ = <<>> THEN NoRoot ELSE @[1].accountSetRoot,
     effectiveFrom |-> now])]

(* _openMembershipEpoch: always appends, never touches an earlier epoch. *)
openMembershipEpoch(t, ids) ==
  membershipEpochs' = [membershipEpochs EXCEPT ![t] = Append(@,
    [accountIds |-> ids,
     accountSetRoot |-> Root(ids),
     previousRoot |-> IF @ = <<>> THEN NoRoot ELSE @[Len(@)].accountSetRoot,
     effectiveFrom |-> now])]

(* removeAccount's copy loop; an array without x would panic and revert. *)
Position(ids, x) == CHOOSE k \in 1..Len(ids) : ids[k] = x
Without(ids, x) ==
  [k \in 1..(Len(ids) - 1) |-> IF k < Position(ids, x) THEN ids[k] ELSE ids[k + 1]]

RegisterAllowed(s) ==
  /\ s.op = "RegisterAccount"
  /\ ConsumesCommand(s, s.subject)

registerAccount(s, x) ==
  /\ RegisterAllowed(s)
  /\ ~accounts[x].exists
  /\ accounts' = [accounts EXCEPT ![x] =
       [trackId |-> s.subject, commitment |-> s.commitment, registeredAt |-> now,
        eligibleFrom |-> 0, removedAt |-> 0, bindingEpoch |-> 0,
        state |-> "PendingBaseline", exists |-> TRUE]]
  /\ trackNonce' = [trackNonce EXCEPT ![s.subject] = s.nonce + 1]
  /\ acSigs' = MarkUsed(acSigs, s)
  /\ UNCHANGED <<now, idVars, membershipEpochs>>

(* Fault: only an active account is refused, so a removed one comes back. *)
ActivateAllowedAgain(s) ==
  /\ s.op = "ActivateAccount"
  /\ accounts[s.subject].exists
  /\ accounts[s.subject].state # "Active"
  /\ s.eligibleFrom >= accounts[s.subject].registeredAt
  /\ ConsumesCommand(s, accounts[s.subject].trackId)

ActivateAllowed(s) ==
  /\ s.op = "ActivateAccount"
  /\ accounts[s.subject].exists
  /\ accounts[s.subject].state = "PendingBaseline"
  /\ s.eligibleFrom >= accounts[s.subject].registeredAt
  /\ ConsumesCommand(s, accounts[s.subject].trackId)

activateAccount(s) ==
  LET x == s.subject
      t == accounts[x].trackId
  IN /\ ActivateAllowed(s)
     /\ accounts' = [accounts EXCEPT ![x].state = "Active",
                                     ![x].eligibleFrom = s.eligibleFrom]
     /\ openMembershipEpoch(t, Append(currentMembers(t), x))
     /\ trackNonce' = [trackNonce EXCEPT ![t] = s.nonce + 1]
     /\ acSigs' = MarkUsed(acSigs, s)
     /\ UNCHANGED <<now, idVars>>

RemoveAllowed(s) ==
  /\ s.op = "RemoveAccount"
  /\ accounts[s.subject].exists
  /\ accounts[s.subject].state # "Removed"
  /\ ConsumesCommand(s, accounts[s.subject].trackId)

(* Fault: the state is read after it was overwritten, so no epoch is opened. *)
removeAccountKeepsMember(s) ==
  LET x == s.subject
      t == accounts[x].trackId
  IN /\ RemoveAllowed(s)
     /\ accounts' = [accounts EXCEPT ![x].state = "Removed", ![x].removedAt = now]
     /\ trackNonce' = [trackNonce EXCEPT ![t] = s.nonce + 1]
     /\ acSigs' = MarkUsed(acSigs, s)
     /\ UNCHANGED <<now, idVars, membershipEpochs>>

(* Only an account that was active leaves the membership set. *)
removeAccount(s) ==
  LET x == s.subject
      t == accounts[x].trackId
  IN /\ RemoveAllowed(s)
     /\ accounts' = [accounts EXCEPT ![x].state = "Removed", ![x].removedAt = now]
     /\ IF accounts[x].state = "Active"
          THEN openMembershipEpoch(t, Without(currentMembers(t), x))
          ELSE UNCHANGED membershipEpochs
     /\ trackNonce' = [trackNonce EXCEPT ![t] = s.nonce + 1]
     /\ acSigs' = MarkUsed(acSigs, s)
     /\ UNCHANGED <<now, idVars>>

RotateAllowed(s) ==
  /\ s.op = "RotateBindingCredential"
  /\ accounts[s.subject].exists
  /\ accounts[s.subject].state # "Removed"
  /\ ConsumesCommand(s, accounts[s.subject].trackId)

(* Fault: the nonce is not consumed. *)
rotateBindingCredentialKeepsNonce(s, c) ==
  LET x == s.subject
      t == accounts[x].trackId
  IN /\ RotateAllowed(s)
     /\ accounts' = [accounts EXCEPT ![x].commitment = c, ![x].bindingEpoch = @ + 1]
     /\ acSigs' = MarkUsed(acSigs, s)
     /\ UNCHANGED <<now, idVars, membershipEpochs, trackNonce>>

(* The new commitment c is an argument of the call, outside the signed struct. *)
rotateBindingCredential(s, c) ==
  LET x == s.subject
      t == accounts[x].trackId
  IN /\ RotateAllowed(s)
     /\ accounts' = [accounts EXCEPT ![x].commitment = c, ![x].bindingEpoch = @ + 1]
     /\ trackNonce' = [trackNonce EXCEPT ![t] = s.nonce + 1]
     /\ acSigs' = MarkUsed(acSigs, s)
     /\ UNCHANGED <<now, idVars, membershipEpochs>>

AccountAcceptable(s) ==
  RegisterAllowed(s) \/ ActivateAllowed(s) \/ RemoveAllowed(s) \/ RotateAllowed(s)

-----------------------------------------------------------------------------
(***************************************************************************)
(* The environment: the challenge builders of accountFlow.ts read epoch    *)
(* and nonce live; anybody signs.                                          *)
(***************************************************************************)
SignAccountCommand(op, subject, t, c, e, p) ==
  /\ trackNonce[t] < MaxTrackNonce
  /\ Cardinality(acSigs) < MaxAcSigs
  /\ tracks[t].exists
  /\ acSigs' = acSigs \cup
       {[op |-> op, subject |-> subject, commitment |-> c, eligibleFrom |-> e,
         ownerEpoch |-> trackOwnerEpoch(t), nonce |-> trackNonce[t],
         deadline |-> now + Window, signer |-> p, used |-> FALSE]}
  /\ UNCHANGED <<now, idVars, accounts, membershipEpochs, trackNonce>>

buildRegisterAccountChallenge(t, c, p) ==
  SignAccountCommand("RegisterAccount", t, t, c, 0, p)

(* accountTrackId reads the zero track of an unknown account, for which no challenge results. *)
buildActivateAccountChallenge(x, e, p) ==
  /\ accounts[x].exists
  /\ SignAccountCommand("ActivateAccount", x, accounts[x].trackId,
                        accounts[x].commitment, now + e, p)

buildRemoveAccountChallenge(x, p) ==
  /\ accounts[x].exists
  /\ SignAccountCommand("RemoveAccount", x, accounts[x].trackId,
                        accounts[x].commitment, 0, p)

(* Nothing in the repository builds this one; the owner signs it by other means. *)
SignRotateBindingCredential(x, c, p) ==
  /\ accounts[x].exists
  /\ SignAccountCommand("RotateBindingCredential", x, accounts[x].trackId, c, 0, p)

LoseAccountCommand(s) ==
  /\ acSigs' = acSigs \ {s}
  /\ UNCHANGED <<now, idVars, accounts, membershipEpochs, trackNonce>>

AccountStep ==
  \/ \E s \in acSigs, x \in AccountId : registerAccount(s, x)
  \/ \E s \in acSigs : activateAccount(s)
  \/ \E s \in acSigs : removeAccount(s)
  \/ \E s \in acSigs, c \in Commitment : rotateBindingCredential(s, c)
  \/ \E t \in TrackId, c \in Commitment, p \in Address :
       buildRegisterAccountChallenge(t, c, p)
  \/ \E x \in AccountId, e \in Eligible, p \in Address :
       buildActivateAccountChallenge(x, e, p)
  \/ \E x \in AccountId, p \in Address : buildRemoveAccountChallenge(x, p)
  \/ \E x \in AccountId, c \in Commitment, p \in Address :
       SignRotateBindingCredential(x, c, p)
  \/ \E s \in acSigs : LoseAccountCommand(s)

Init == IdentityInit /\ AccountInit

Next ==
  \/ IdentityStep /\ UNCHANGED acVars
  \/ AccountStep
  \/ Tick /\ UNCHANGED acVars

Spec == Init /\ [][Next]_vars

-----------------------------------------------------------------------------
MembershipEpoch ==
  [accountIds : Seq(AccountId),
   accountSetRoot : [keccak256 : Seq(AccountId)],
   previousRoot : {NoRoot} \cup [keccak256 : Seq(AccountId)],
   effectiveFrom : Nat]

TypeOK ==
  /\ IdentityTypeOK
  /\ accounts \in [AccountId -> AccountBinding]
  /\ membershipEpochs \in [TrackId -> Seq(MembershipEpoch)]
  /\ trackNonce \in [TrackId -> Nat]
  /\ acSigs \subseteq AccountCommand

(***************************************************************************)
(* The newest membership epoch of a track lists each active account of     *)
(* that track exactly once and nothing else: no order of registrations,    *)
(* activations, removals and rotations leaves a removed account in the     *)
(* set, an active one out, or one listed twice.                            *)
(***************************************************************************)
MembersAreActive ==
  \A t \in TrackId :
    /\ \A k \in 1..Len(currentMembers(t)) :
         /\ accounts[currentMembers(t)[k]].exists
         /\ accounts[currentMembers(t)[k]].state = "Active"
         /\ accounts[currentMembers(t)[k]].trackId = t
    /\ \A x \in AccountId :
         accounts[x].exists /\ accounts[x].state = "Active" /\ accounts[x].trackId = t
           => \E k \in 1..Len(currentMembers(t)) : currentMembers(t)[k] = x
    /\ \A j, k \in 1..Len(currentMembers(t)) :
         currentMembers(t)[j] = currentMembers(t)[k] => j = k

(***************************************************************************)
(* The epochs of a track form a hash-linked, time-ordered chain in which   *)
(* two neighbours differ by exactly one account, and an account that left  *)
(* never returns.                                                          *)
(***************************************************************************)
Listed(ids) == {ids[n] : n \in 1..Len(ids)}
EpochLinked(e, k) ==
  LET Members(j) == Listed(e[j].accountIds) IN
    /\ e[k].accountSetRoot = Root(e[k].accountIds)
    /\ k = 1 => e[k].previousRoot = NoRoot
    /\ k > 1 => /\ e[k].previousRoot = e[k-1].accountSetRoot
                /\ e[k-1].effectiveFrom <= e[k].effectiveFrom
                /\ Cardinality((Members(k) \ Members(k-1)) \cup (Members(k-1) \ Members(k))) = 1
                /\ \A j \in 1..(k-1) : Members(j) \cap Members(k) \subseteq Members(k-1)
EpochsChained ==
  \A t \in TrackId : \A k \in 1..Len(membershipEpochs[t]) :
    /\ membershipEpochs[t][k].effectiveFrom <= now
    /\ EpochLinked(membershipEpochs[t], k)

(* An account command the registry accepted is never acceptable again. *)
AccountNoReplay == \A s \in acSigs : s.used => ~AccountAcceptable(s)

(***************************************************************************)
(* A rotation of the identity's owner, which this registry is never told   *)
(* of, kills every account command then in relayers' hands: the incoming   *)
(* owner inherits none, not even one it signed itself when it owned the    *)
(* track earlier, although the track's own nonce has not moved.            *)
(***************************************************************************)
CommandTrack(s) == IF s.op = "RegisterAccount" THEN s.subject
                   ELSE accounts[s.subject].trackId
KillsCommands ==
  \A s \in acSigs \cap acSigs' :
    LET id == tracks[CommandTrack(s)].identityId IN
    identities'[id].owner # identities[id].owner => ~AccountAcceptable(s)'
RotationKillsCommands == [][KillsCommands]_vars

(***************************************************************************)
(* History is never rewritten: a binding keeps its track, its registration *)
(* and, once removed, everything; its state only moves forward; the epochs *)
(* of a track only grow at the end.                                        *)
(***************************************************************************)
KeepsHistory ==
  /\ \A x \in AccountId : accounts[x].exists =>
       /\ accounts'[x].exists
       /\ accounts'[x].trackId = accounts[x].trackId
       /\ accounts'[x].registeredAt = accounts[x].registeredAt
       /\ accounts[x].state = "Active" => accounts'[x].state # "PendingBaseline"
       /\ accounts[x].state = "Removed" => accounts'[x] = accounts[x]
  /\ \A t \in TrackId :
       /\ Len(membershipEpochs'[t]) \in {Len(membershipEpochs[t]), Len(membershipEpochs[t]) + 1}
       /\ \A k \in 1..Len(membershipEpochs[t]) :
            membershipEpochs'[t][k] = membershipEpochs[t][k]
HistoryKept == [][KeepsHistory]_vars

-----------------------------------------------------------------------------
(* A track is created by a command of its identity, which therefore exists. *)
TracksOwned == \A t \in TrackId : tracks[t].exists => identities[tracks[t].identityId].exists

(***************************************************************************)
(* The strengthening of AccountNoReplay and RotationKillsCommands that is  *)
(* inductive: a command names a track that exists, is ahead of neither the *)
(* nonce of that track nor the owner epoch of its identity, and an         *)
(* accepted one is behind the nonce.                                       *)
(***************************************************************************)
AccountSpent ==
  \A s \in acSigs :
    /\ IF s.op = "RegisterAccount" THEN s.subject \in TrackId
       ELSE s.subject \in AccountId /\ accounts[s.subject].exists
    /\ tracks[CommandTrack(s)].exists
    /\ s.ownerEpoch <= trackOwnerEpoch(CommandTrack(s))
    /\ s.nonce <= trackNonce[CommandTrack(s)]
    /\ s.used => s.nonce < trackNonce[CommandTrack(s)]

(***************************************************************************)
(* An account that any epoch ever listed has been activated: what is still *)
(* pending is in no epoch, so an activation cannot bring anybody back.     *)
(***************************************************************************)
ListedWasActivated ==
  \A t \in TrackId : \A k \in 1..Len(membershipEpochs[t]) :
    \A x \in Listed(membershipEpochs[t][k].accountIds) :
      accounts[x].exists /\ accounts[x].state # "PendingBaseline"

(* The inductive invariant of the account registry over live identities. *)
IInv == /\ TypeOK /\ TracksOwned /\ AccountSpent
        /\ MembersAreActive /\ ListedWasActivated /\ EpochsChained
=============================================================================
