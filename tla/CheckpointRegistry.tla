-------------------------- MODULE CheckpointRegistry --------------------------
(***************************************************************************)
(* contracts/src/CheckpointRegistry.sol over the live IdentityRegistry:    *)
(* the checkpoint chain of every track, the proof digests attached to a    *)
(* checkpoint and the correction proposals published against it.           *)
(*                                                                         *)
(* Of the header the contract reads the track, the hash, the sequence, the *)
(* previous hash, the period and the publication deadline.  The remaining  *)
(* fields (roots, policy hashes, coverage, commitments) are stored, signed *)
(* and never read: `content' stands for all of them.  checkpointHash is    *)
(* asserted by the caller and never re-derived, so any hash comes with any *)
(* header.  A pair of proof and claim-set digest is a member of Digest.    *)
(* correctionId is keccak256 of a counter: here the counter plus one.      *)
(***************************************************************************)
EXTENDS IdentityRegistry, Sequences

CONSTANTS
  Hash,             \* checkpoint hashes a caller may assert
  ZeroHash,         \* bytes32(0)
  Content,          \* the header fields the contract does not read
  Digest, NoDigest,
  MaxSequence,      \* bound on the sequence numbers commands carry
  MaxPeriod,        \* bound on the period boundaries commands carry
  MaxCorrections,   \* bound on the correction counter
  MaxTrackNonce,    \* bound on a track's nonce
  MaxCpSigs         \* bound on the checkpoint commands in relayers' hands

ASSUME CheckpointAssumption ==
  /\ MaxSequence \in Nat /\ MaxPeriod \in Nat /\ MaxCorrections \in Nat
  /\ MaxTrackNonce \in Nat /\ MaxCpSigs \in Nat
  /\ NoDigest \notin Digest

VARIABLES
  checkpoints,        \* mapping(bytes32 => StoredCheckpoint): the entries that exist
  head,               \* mapping(bytes32 => bytes32)
  headSequence,       \* mapping(bytes32 => uint64)
  headPeriodEnd,      \* mapping(bytes32 => uint64)
  trackNonce,         \* mapping(bytes32 => uint64)
  corrections,        \* mapping(bytes32 => Correction), by counter
  cpSigs              \* signed commands of this contract's domain

cpVars == <<checkpoints, head, headSequence, headPeriodEnd, trackNonce, corrections, cpSigs>>
vars == <<now, idVars, cpVars>>

CheckpointInput ==
  [trackId : TrackId, checkpointHash : Hash, sequence : Nat,
   previousCheckpointHash : Hash \cup {ZeroHash}, periodStart : Nat, periodEnd : Nat,
   publicationDeadline : Nat, content : Content]

StoredCheckpoint ==
  [input : CheckpointInput, timing : {"OnTime", "Late"}, anchoredAt : Nat,
   proofAnchored : BOOLEAN, digests : Digest \cup {NoDigest}, correctionHead : Nat]

Correction ==
  [targetCheckpointHash : Hash, previousCorrectionHead : Nat, proposer : Address,
   proposedAt : Nat, state : {"Proposed"}]

ProofInput == [checkpointHash : Hash, digests : Digest]

CheckpointOp == {"AppendCheckpoint", "AttachProof"}

(* The two typed structs; `op' is their typehash. *)
CheckpointCommand ==
  {s \in [op : CheckpointOp, body : CheckpointInput \cup ProofInput, ownerEpoch : Nat,
          nonce : Nat, deadline : Nat, signer : Address, used : BOOLEAN] :
     s.body \in IF s.op = "AppendCheckpoint" THEN CheckpointInput ELSE ProofInput}

CheckpointInit ==
  /\ checkpoints = <<>>
  /\ head = [t \in TrackId |-> ZeroHash]
  /\ headSequence = [t \in TrackId |-> 0]
  /\ headPeriodEnd = [t \in TrackId |-> 0]
  /\ trackNonce = [t \in TrackId |-> 0]
  /\ corrections = <<>>
  /\ cpSigs = {}

-----------------------------------------------------------------------------
Exists(h) == h \in DOMAIN checkpoints

trackOwner(t) == identities[tracks[t].identityId].owner
trackOwnerEpoch(t) == identities[tracks[t].identityId].ownerEpoch

(* _requireTrackOwner's existence check and _consumeCommand's checks. *)
ConsumesCommand(s, t) ==
  /\ tracks[t].exists
  /\ now <= s.deadline
  /\ s.ownerEpoch = trackOwnerEpoch(t)
  /\ s.nonce = trackNonce[t]
  /\ s.signer = trackOwner(t)

(* Fault: the head is known by its sequence number. *)
hasHeadBySequence(t) == headSequence[t] # 0

(* The head is known by its hash: headSequence = 0 would be ambiguous. *)
hasHead(t) == head[t] # ZeroHash

requiredSequence(t) == IF hasHead(t) THEN headSequence[t] + 1 ELSE 0

(* Fault: a hash that is anchored already is accepted again. *)
ExtendsHeadAgain(i) ==
  /\ i.sequence = requiredSequence(i.trackId)
  /\ i.previousCheckpointHash = head[i.trackId]
  /\ i.periodEnd > i.periodStart
  /\ hasHead(i.trackId) => i.periodStart >= headPeriodEnd[i.trackId]

(* What appendCheckpoint demands of a header before it looks at the signature. *)
ExtendsHead(i) ==
  /\ ~Exists(i.checkpointHash)
  /\ i.sequence = requiredSequence(i.trackId)
  /\ i.previousCheckpointHash = head[i.trackId]
  /\ i.periodEnd > i.periodStart
  /\ hasHead(i.trackId) => i.periodStart >= headPeriodEnd[i.trackId]

appendCheckpoint(s) ==
  LET i == s.body
      h == i.checkpointHash
  IN /\ s.op = "AppendCheckpoint"
     /\ ExtendsHead(i)
     /\ ConsumesCommand(s, i.trackId)
     /\ checkpoints' = [x \in DOMAIN checkpoints \cup {h} |->
          IF x # h THEN checkpoints[x]
          ELSE [input |-> i,
                timing |-> IF now > i.publicationDeadline THEN "Late" ELSE "OnTime",
                anchoredAt |-> now, proofAnchored |-> FALSE, digests |-> NoDigest,
                correctionHead |-> 0]]
     /\ head' = [head EXCEPT ![i.trackId] = h]
     /\ headSequence' = [headSequence EXCEPT ![i.trackId] = i.sequence]
     /\ headPeriodEnd' = [headPeriodEnd EXCEPT ![i.trackId] = i.periodEnd]
     /\ trackNonce' = [trackNonce EXCEPT ![i.trackId] = s.nonce + 1]
     /\ cpSigs' = MarkUsed(cpSigs, s)
     /\ UNCHANGED <<now, idVars, corrections>>

(* Fault: the nonce is not consumed. *)
attachProofKeepsNonce(s) ==
  LET h == s.body.checkpointHash
  IN /\ s.op = "AttachProof"
     /\ Exists(h)
     /\ ConsumesCommand(s, checkpoints[h].input.trackId)
     /\ checkpoints' = [checkpoints EXCEPT ![h].proofAnchored = TRUE,
                                           ![h].digests = s.body.digests]
     /\ cpSigs' = MarkUsed(cpSigs, s)
     /\ UNCHANGED <<now, idVars, head, headSequence, headPeriodEnd, trackNonce, corrections>>

(* A second proof of the same checkpoint replaces the digests of the first. *)
attachProof(s) ==
  LET h == s.body.checkpointHash
      t == checkpoints[h].input.trackId
  IN /\ s.op = "AttachProof"
     /\ Exists(h)
     /\ ConsumesCommand(s, t)
     /\ checkpoints' = [checkpoints EXCEPT ![h].proofAnchored = TRUE,
                                           ![h].digests = s.body.digests]
     /\ trackNonce' = [trackNonce EXCEPT ![t] = s.nonce + 1]
     /\ cpSigs' = MarkUsed(cpSigs, s)
     /\ UNCHANGED <<now, idVars, head, headSequence, headPeriodEnd, corrections>>

(* Fault: the new correction points at the newest one of any checkpoint. *)
publishCorrectionGlobally(caller, h) ==
  /\ Exists(h)
  /\ Len(corrections) < MaxCorrections
  /\ corrections' = Append(corrections,
       [targetCheckpointHash |-> h, previousCorrectionHead |-> Len(corrections),
        proposer |-> caller, proposedAt |-> now, state |-> "Proposed"])
  /\ checkpoints' = [checkpoints EXCEPT ![h].correctionHead = Len(corrections) + 1]
  /\ UNCHANGED <<now, idVars, head, headSequence, headPeriodEnd, trackNonce, cpSigs>>

(* Open to any caller; the new correction points at the previous one. *)
publishCorrection(caller, h) ==
  /\ Exists(h)
  /\ Len(corrections) < MaxCorrections
  /\ corrections' = Append(corrections,
       [targetCheckpointHash |-> h,
        previousCorrectionHead |-> checkpoints[h].correctionHead,
        proposer |-> caller, proposedAt |-> now, state |-> "Proposed"])
  /\ checkpoints' = [checkpoints EXCEPT ![h].correctionHead = Len(corrections) + 1]
  /\ UNCHANGED <<now, idVars, head, headSequence, headPeriodEnd, trackNonce, cpSigs>>

-----------------------------------------------------------------------------
(***************************************************************************)
(* The environment.  Nothing in the repository builds these commands: any  *)
(* address signs any header, right or wrong, against the epoch and the     *)
(* nonce of the moment.                                                    *)
(***************************************************************************)
SignCheckpointCommand(op, body, t, p) ==
  /\ trackNonce[t] < MaxTrackNonce
  /\ Cardinality(cpSigs) < MaxCpSigs
  /\ tracks[t].exists
  /\ cpSigs' = cpSigs \cup
       {[op |-> op, body |-> body, ownerEpoch |-> trackOwnerEpoch(t), nonce |-> trackNonce[t],
         deadline |-> now + Window, signer |-> p, used |-> FALSE]}
  /\ UNCHANGED <<now, idVars, checkpoints, head, headSequence, headPeriodEnd,
                 trackNonce, corrections>>

LoseCheckpointCommand(s) ==
  /\ cpSigs' = cpSigs \ {s}
  /\ UNCHANGED <<now, idVars, checkpoints, head, headSequence, headPeriodEnd,
                 trackNonce, corrections>>

(* The headers somebody may put a signature under, within the bounds. *)
SignableInput(t) ==
  {i \in [trackId : {t}, checkpointHash : Hash, sequence : 0..MaxSequence,
          previousCheckpointHash : Hash \cup {ZeroHash}, periodStart : 0..MaxPeriod,
          periodEnd : 0..MaxPeriod, publicationDeadline : {0}, content : Content] :
     i.periodStart <= i.periodEnd}

CheckpointStep ==
  \/ \E s \in cpSigs : appendCheckpoint(s)
  \/ \E s \in cpSigs : attachProof(s)
  \/ \E caller \in Address, h \in Hash : publishCorrection(caller, h)
  \/ \E t \in TrackId, p \in Address : \E i \in SignableInput(t) :
       SignCheckpointCommand("AppendCheckpoint", i, t, p)
  \/ \E h \in DOMAIN checkpoints, d \in Digest, p \in Address :
       SignCheckpointCommand("AttachProof", [checkpointHash |-> h, digests |-> d],
                             checkpoints[h].input.trackId, p)
  \/ \E s \in cpSigs : LoseCheckpointCommand(s)

Init == IdentityInit /\ CheckpointInit

Next ==
  \/ IdentityStep /\ UNCHANGED cpVars
  \/ CheckpointStep
  \/ Tick /\ UNCHANGED cpVars

Spec == Init /\ [][Next]_vars

-----------------------------------------------------------------------------
TypeOK ==
  /\ IdentityTypeOK
  /\ DOMAIN checkpoints \subseteq Hash
  /\ \A h \in DOMAIN checkpoints : checkpoints[h] \in StoredCheckpoint
  /\ head \in [TrackId -> Hash \cup {ZeroHash}]
  /\ headSequence \in [TrackId -> Nat]
  /\ headPeriodEnd \in [TrackId -> Nat]
  /\ trackNonce \in [TrackId -> Nat]
  /\ corrections \in Seq(Correction)
  /\ cpSigs \subseteq CheckpointCommand

(***************************************************************************)
(* The checkpoints of a track are one chain that ends in its head: the     *)
(* sequence numbers are 0 to headSequence without a gap or a repetition,   *)
(* each checkpoint names its predecessor's hash, starts no earlier than    *)
(* the predecessor ended, and the head pointers describe the newest.  A    *)
(* second, conflicting head is not representable.                          *)
(***************************************************************************)
ChainOf(t) == {h \in DOMAIN checkpoints : checkpoints[h].input.trackId = t}
OneChain(t) ==
  /\ ChainOf(t) # {} =>
       /\ head[t] \in ChainOf(t)
       /\ checkpoints[head[t]].input.sequence = headSequence[t]
       /\ checkpoints[head[t]].input.periodEnd = headPeriodEnd[t]
  /\ \A g, h \in ChainOf(t) :
       /\ checkpoints[g].input.sequence = checkpoints[h].input.sequence => g = h
       /\ checkpoints[g].input.sequence < checkpoints[h].input.sequence =>
            checkpoints[g].input.periodEnd <= checkpoints[h].input.periodStart
  /\ \A h \in ChainOf(t) :
       LET i == checkpoints[h].input IN
         /\ i.sequence <= headSequence[t]
         /\ i.sequence = 0 => i.previousCheckpointHash = ZeroHash
         /\ i.sequence > 0 =>
              /\ i.previousCheckpointHash \in ChainOf(t)
              /\ checkpoints[i.previousCheckpointHash].input.sequence = i.sequence - 1
SingleChain == \A t \in TrackId : OneChain(t)

(***************************************************************************)
(* No proposal is lost from the public record: the corrections published   *)
(* against a checkpoint form one list, newest first, that starts at its    *)
(* correctionHead and that other checkpoints' corrections never enter.     *)
(***************************************************************************)
CorrectionsOf(h) == {c \in DOMAIN corrections : corrections[c].targetCheckpointHash = h}
CorrectionsListed ==
  \A h \in DOMAIN checkpoints :
    LET older(c) == {d \in CorrectionsOf(h) : d < c} IN
      /\ checkpoints[h].correctionHead \in CorrectionsOf(h) \cup {0}
      /\ \A c \in CorrectionsOf(h) :
           /\ c <= checkpoints[h].correctionHead
           /\ corrections[c].previousCorrectionHead \in older(c) \cup {0}
           /\ \A d \in older(c) : d <= corrections[c].previousCorrectionHead

(***************************************************************************)
(* What is anchored stays: no step changes the header, the lateness or the *)
(* anchoring time of a checkpoint, or a published correction, and the head *)
(* of a track only moves forward, to a checkpoint its owner signed.        *)
(***************************************************************************)
KeepsAnchored ==
  /\ \A h \in DOMAIN checkpoints :
       /\ h \in DOMAIN checkpoints'
       /\ checkpoints'[h].input = checkpoints[h].input
       /\ checkpoints'[h].timing = checkpoints[h].timing
       /\ checkpoints'[h].anchoredAt = checkpoints[h].anchoredAt
       /\ checkpoints[h].proofAnchored => checkpoints'[h].proofAnchored
  /\ \A c \in DOMAIN corrections :
       c \in DOMAIN corrections' /\ corrections'[c] = corrections[c]
  /\ \A t \in TrackId : head'[t] # head[t] =>
       /\ checkpoints'[head'[t]].input.previousCheckpointHash = head[t]
       /\ \E s \in cpSigs : /\ ~s.used
                            /\ s.body = checkpoints'[head'[t]].input
                            /\ s.signer = trackOwner(t)
AnchoredForever == [][KeepsAnchored]_vars

(***************************************************************************)
(* A proof is attached, and an attached one replaced, only by a command    *)
(* the owner of the moment signed in the running epoch for that very       *)
(* checkpoint, and only once per signature.                                *)
(***************************************************************************)
ProvesAsOwner ==
  \A h \in DOMAIN checkpoints :
    checkpoints'[h].digests # checkpoints[h].digests =>
      LET t == checkpoints[h].input.trackId IN
      \E s \in cpSigs :
        /\ ~s.used
        /\ s.body = [checkpointHash |-> h, digests |-> checkpoints'[h].digests]
        /\ s.signer = trackOwner(t) /\ s.ownerEpoch = trackOwnerEpoch(t)
        /\ trackNonce'[t] > s.nonce
ProofOnlyByOwner == [][ProvesAsOwner]_vars

-----------------------------------------------------------------------------
(* What SingleChain needs to be inductive: head tells whether a track has a chain. *)
HeadKnown ==
  /\ \A t \in TrackId : hasHead(t) => ChainOf(t) # {}
  /\ \A h \in DOMAIN checkpoints :
       /\ checkpoints[h].input.checkpointHash = h
       /\ checkpoints[h].input.periodStart < checkpoints[h].input.periodEnd

(* What CorrectionsListed needs to be inductive. *)
CorrectionsTargeted ==
  \A c \in DOMAIN corrections : corrections[c].targetCheckpointHash \in DOMAIN checkpoints

(* No command is ahead of its track's nonce, and an accepted one is behind it. *)
CommandTrack(s) == IF s.op = "AppendCheckpoint" THEN s.body.trackId
                   ELSE checkpoints[s.body.checkpointHash].input.trackId
CheckpointSpent ==
  \A s \in cpSigs :
    /\ s.op = "AttachProof" => Exists(s.body.checkpointHash)
    /\ s.nonce <= trackNonce[CommandTrack(s)]
    /\ s.used => s.nonce < trackNonce[CommandTrack(s)]

(* The inductive invariant of the checkpoint registry over live identities. *)
IInv == /\ TypeOK /\ SingleChain /\ HeadKnown
        /\ CorrectionsListed /\ CorrectionsTargeted /\ CheckpointSpent
=============================================================================
