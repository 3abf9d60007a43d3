--------------------------- MODULE IdentityRegistry ---------------------------
(***************************************************************************)
(* contracts/src/IdentityRegistry.sol: identities, their tracks and the    *)
(* two-step rotation of an identity's owner.                               *)
(*                                                                         *)
(* A transaction is atomic, so each external function is one action whose  *)
(* guard is the conjunction of its revert conditions.  The commands the    *)
(* functions carry are signed off chain, against the epoch and the nonce   *)
(* the contract shows at that moment, and are then in the hands of whoever *)
(* relays them: a signed command can be submitted at any later time, more  *)
(* than once, out of order, or never.  idSigs holds the ones still in      *)
(* somebody's hands.                                                       *)
(*                                                                         *)
(* Abstractions.  An identifier is keccak256 of a counter: here any unused *)
(* member of IdentityId or TrackId.  The zero address is NoAddr.           *)
(* identityType, financialProfileId, denominationCommitment and the        *)
(* creation stamps are stored and never read by the contract: left out.    *)
(***************************************************************************)
EXTENDS Naturals, FiniteSets

CONSTANTS
  Address,         \* accounts that can own an identity and sign for it
  NoAddr,          \* address(0)
  IdentityId,
  TrackId,
  Window,          \* how long a signed command stays valid (its deadline)
  MaxTime,         \* bound on block.timestamp
  MaxNonce,        \* bound on an identity's nonce
  MaxIdSigs        \* bound on the commands in relayers' hands at one time

ASSUME IdentityAssumption ==
  /\ NoAddr \notin Address
  /\ IdentityId # {}
  /\ Window \in Nat /\ MaxTime \in Nat /\ MaxNonce \in Nat /\ MaxIdSigs \in Nat

VARIABLES
  now,         \* block.timestamp
  identities,  \* mapping(bytes32 => Identity)
  tracks,      \* mapping(bytes32 => Track)
  idSigs       \* signed commands of this contract's EIP-712 domain

idVars == <<identities, tracks, idSigs>>

(* Unwritten entries of a Solidity mapping read as zero. *)
NoIdentity == [owner |-> NoAddr, pendingOwner |-> NoAddr, ownerEpoch |-> 0,
               nonce |-> 0, exists |-> FALSE]

Identity == [owner : Address \cup {NoAddr}, pendingOwner : Address \cup {NoAddr},
             ownerEpoch : Nat, nonce : Nat, exists : BOOLEAN]

Track == [identityId : IdentityId, exists : BOOLEAN]

IdentityOp == {"CreateTrack", "ProposeOwnerRotation", "ConfirmOwnerRotation"}

(***************************************************************************)
(* A command as signed: the fields of its EIP-712 struct and its signer.   *)
(* `used' is not part of the message: it records that the contract has     *)
(* accepted this command, which a relayer may nevertheless submit again.   *)
(***************************************************************************)
IdentityCommand ==
  [op : IdentityOp, identityId : IdentityId, newOwner : Address \cup {NoAddr},
   ownerEpoch : Nat, nonce : Nat, deadline : Nat, signer : Address,
   used : BOOLEAN]

(* The zero track needs some identityId; which one is never observable. *)
NoTrack == [identityId |-> CHOOSE i \in IdentityId : TRUE, exists |-> FALSE]

IdentityInit ==
  /\ now = 0
  /\ identities = [i \in IdentityId |-> NoIdentity]
  /\ tracks = [t \in TrackId |-> NoTrack]
  /\ idSigs = {}

-----------------------------------------------------------------------------
(* createIdentity: the caller owns the identity; nothing to authorize. *)
createIdentity(caller, id) ==
  /\ ~identities[id].exists
  /\ identities' = [identities EXCEPT ![id] =
       [owner |-> caller, pendingOwner |-> NoAddr, ownerEpoch |-> 0,
        nonce |-> 0, exists |-> TRUE]]
  /\ UNCHANGED <<now, tracks, idSigs>>

(* Fault: the nonce is not compared. *)
ConsumesAnyNonce(s, signer) ==
  /\ now <= s.deadline
  /\ s.ownerEpoch = identities[s.identityId].ownerEpoch
  /\ s.signer = signer

(* _consumeOwnerCommand's checks; the signature covers exactly the fields of s. *)
ConsumesOwnerCommand(s, signer) ==
  /\ now <= s.deadline
  /\ s.ownerEpoch = identities[s.identityId].ownerEpoch
  /\ s.nonce = identities[s.identityId].nonce
  /\ s.signer = signer

(* The relayer keeps its copy of an accepted command. *)
MarkUsed(S, s) == (S \ {s}) \cup {[s EXCEPT !.used = TRUE]}

CreateTrackAllowed(s) ==
  /\ s.op = "CreateTrack"
  /\ identities[s.identityId].exists
  /\ ConsumesOwnerCommand(s, identities[s.identityId].owner)

createTrack(s, t) ==
  /\ CreateTrackAllowed(s)
  /\ ~tracks[t].exists
  /\ identities' = [identities EXCEPT ![s.identityId].nonce = @ + 1]
  /\ tracks' = [tracks EXCEPT ![t] = [identityId |-> s.identityId, exists |-> TRUE]]
  /\ idSigs' = MarkUsed(idSigs, s)
  /\ UNCHANGED now

(* Fault: a rotation to the present owner is let through. *)
ProposeAllowedToOwner(s) ==
  /\ s.op = "ProposeOwnerRotation"
  /\ s.newOwner # NoAddr
  /\ identities[s.identityId].exists
  /\ ConsumesOwnerCommand(s, identities[s.identityId].owner)

ProposeAllowed(s) ==
  /\ s.op = "ProposeOwnerRotation"
  /\ s.newOwner # NoAddr
  /\ identities[s.identityId].exists
  /\ s.newOwner # identities[s.identityId].owner
  /\ ConsumesOwnerCommand(s, identities[s.identityId].owner)

(* Fault: the nonce is not consumed. *)
proposeOwnerRotationKeepsNonce(s) ==
  /\ ProposeAllowed(s)
  /\ identities' = [identities EXCEPT ![s.identityId].pendingOwner = s.newOwner]
  /\ idSigs' = MarkUsed(idSigs, s)
  /\ UNCHANGED <<now, tracks>>

proposeOwnerRotation(s) ==
  /\ ProposeAllowed(s)
  /\ identities' = [identities EXCEPT ![s.identityId].nonce = @ + 1,
                                      ![s.identityId].pendingOwner = s.newOwner]
  /\ idSigs' = MarkUsed(idSigs, s)
  /\ UNCHANGED <<now, tracks>>

(* Fault: the confirmation is checked against the present owner's signature. *)
ConfirmAllowedByOwner(s) ==
  /\ s.op = "ConfirmOwnerRotation"
  /\ identities[s.identityId].exists
  /\ identities[s.identityId].pendingOwner # NoAddr
  /\ identities[s.identityId].pendingOwner = s.newOwner
  /\ ConsumesOwnerCommand(s, identities[s.identityId].owner)

ConfirmAllowed(s) ==
  /\ s.op = "ConfirmOwnerRotation"
  /\ identities[s.identityId].exists
  /\ identities[s.identityId].pendingOwner # NoAddr
  /\ identities[s.identityId].pendingOwner = s.newOwner
  /\ ConsumesOwnerCommand(s, identities[s.identityId].pendingOwner)

confirmOwnerRotation(s) ==
  /\ ConfirmAllowed(s)
  /\ identities' = [identities EXCEPT ![s.identityId].nonce = @ + 1,
                                      ![s.identityId].owner = s.newOwner,
                                      ![s.identityId].pendingOwner = NoAddr,
                                      ![s.identityId].ownerEpoch = @ + 1]
  /\ idSigs' = MarkUsed(idSigs, s)
  /\ UNCHANGED <<now, tracks>>

(* What the contract would accept now, whoever submits it. *)
IdentityAcceptable(s) == CreateTrackAllowed(s) \/ ProposeAllowed(s) \/ ConfirmAllowed(s)

-----------------------------------------------------------------------------
(***************************************************************************)
(* The environment.  Anybody signs any command; the epoch and the nonce    *)
(* are the ones buildConfirmOwnerRotationChallenge and                     *)
(* buildCreateTrackChallenge read from the contract, and the deadline is   *)
(* nowDeadline's.                                                          *)
(***************************************************************************)
IdentityChallenge(id, op, newOwner, signer) ==
  [op |-> op, identityId |-> id, newOwner |-> newOwner,
   ownerEpoch |-> identities[id].ownerEpoch, nonce |-> identities[id].nonce,
   deadline |-> now + Window, signer |-> signer, used |-> FALSE]

SignIdentityCommand(id, op, newOwner, signer) ==
  /\ identities[id].exists
  /\ identities[id].nonce < MaxNonce
  /\ Cardinality(idSigs) < MaxIdSigs
  /\ (op = "CreateTrack") = (newOwner = NoAddr)
  /\ idSigs' = idSigs \cup {IdentityChallenge(id, op, newOwner, signer)}
  /\ UNCHANGED <<now, identities, tracks>>

(* A relayer loses a command or gives it up. *)
LoseIdentityCommand(s) ==
  /\ idSigs' = idSigs \ {s}
  /\ UNCHANGED <<now, identities, tracks>>

(* A later block. *)
Tick ==
  /\ now < MaxTime
  /\ now' = now + 1
  /\ UNCHANGED idVars

IdentityStep ==
  \/ \E caller \in Address, id \in IdentityId : createIdentity(caller, id)
  \/ \E s \in idSigs, t \in TrackId : createTrack(s, t)
  \/ \E s \in idSigs : proposeOwnerRotation(s)
  \/ \E s \in idSigs : confirmOwnerRotation(s)
  \/ \E id \in IdentityId, op \in IdentityOp, o \in Address \cup {NoAddr}, p \in Address :
       SignIdentityCommand(id, op, o, p)
  \/ \E s \in idSigs : LoseIdentityCommand(s)

-----------------------------------------------------------------------------
IdentityTypeOK ==
  /\ now \in Nat
  /\ identities \in [IdentityId -> Identity]
  /\ tracks \in [TrackId -> Track]
  /\ idSigs \subseteq IdentityCommand

(***************************************************************************)
(* A command the registry has accepted is never acceptable again, however  *)
(* often and however late a relayer resubmits it.                          *)
(***************************************************************************)
IdentityNoReplay == \A s \in idSigs : s.used => ~IdentityAcceptable(s)

(***************************************************************************)
(* The strengthening of IdentityNoReplay that is inductive: a command is   *)
(* never ahead of its identity's nonce, and an accepted one is behind it.  *)
(***************************************************************************)
IdentitySpent ==
  \A s \in idSigs :
    /\ identities[s.identityId].exists
    /\ s.nonce <= identities[s.identityId].nonce
    /\ s.used => s.nonce < identities[s.identityId].nonce

(***************************************************************************)
(* A pending owner is somebody else than the owner, and the proposal that  *)
(* named it consumed a command of the running epoch: a confirmation always *)
(* changes hands, and every epoch has cost at least two commands.          *)
(***************************************************************************)
RotationConsistent ==
  \A id \in IdentityId :
    LET i == identities[id] IN
      /\ i.exists <=> i.owner # NoAddr
      /\ 2 * i.ownerEpoch <= i.nonce
      /\ i.pendingOwner # NoAddr =>
           i.exists /\ i.pendingOwner # i.owner /\ 2 * i.ownerEpoch < i.nonce

(***************************************************************************)
(* At most one of the signed commands of an identity takes effect per      *)
(* nonce: whatever step is taken, the commands signed against the state    *)
(* before an accepted command are dead after it.                           *)
(***************************************************************************)
SpendsOneNonce ==
  \A id \in IdentityId :
    identities[id].exists /\ identities'[id] # identities[id] =>
      /\ identities'[id].nonce = identities[id].nonce + 1
      /\ \A s \in idSigs \cap idSigs' : s.identityId = id => ~IdentityAcceptable(s)'
OneCommandPerNonce == [][SpendsOneNonce]_<<now, idVars>>

(***************************************************************************)
(* The owner changes only to the address the owner of the running epoch    *)
(* had proposed, on that address's own signature, and the change opens a   *)
(* new epoch.                                                              *)
(***************************************************************************)
Consented ==
  \A id \in IdentityId :
    identities[id].exists /\ identities'[id].owner # identities[id].owner =>
      /\ identities'[id].owner = identities[id].pendingOwner
      /\ identities'[id].ownerEpoch = identities[id].ownerEpoch + 1
      /\ \E s \in idSigs : /\ s.identityId = id
                           /\ s.op = "ConfirmOwnerRotation"
                           /\ s.signer = identities'[id].owner
                           /\ s.ownerEpoch = identities[id].ownerEpoch
OwnerChangesByConsent == [][Consented]_<<now, idVars>>
=============================================================================
