----------------------- MODULE CheckpointRegistryProofs -----------------------
(***************************************************************************)
(* The checkpoint chains of CheckpointRegistry over the live identities,   *)
(* for any number of tracks, hashes, commands and corrections.  The        *)
(* theorems about the chain assume that nobody anchors bytes32(0) as a     *)
(* checkpoint hash: the contract does not refuse it and would then take    *)
(* the track for one without a head.                                       *)
(***************************************************************************)
EXTENDS CheckpointRegistry, IdentityRegistryProofs

(* The state a new deployment starts in satisfies the inductive invariant. *)
LEMMA CheckpointInitIInv == Init => IInv
<1> SUFFICES ASSUME Init PROVE IInv
  OBVIOUS
<1>1. IdentityTypeOK
  BY IdentityTypeInit DEF Init
<1>2. CheckpointInit
  BY DEF Init
<1>3. DOMAIN checkpoints = {} /\ DOMAIN corrections = {} /\ cpSigs = {}
  BY <1>2 DEF CheckpointInit
<1>4. corrections \in Seq(Correction)
  BY <1>2 DEF CheckpointInit
<1>5. TypeOK
  BY <1>1, <1>2, <1>3, <1>4 DEF CheckpointInit, TypeOK
<1>6. \A t \in TrackId : ChainOf(t) = {} /\ ~hasHead(t)
  BY <1>2, <1>3 DEF CheckpointInit, ChainOf, hasHead
<1>7. SingleChain /\ HeadKnown
  BY <1>3, <1>6 DEF SingleChain, OneChain, HeadKnown
<1>8. CorrectionsListed /\ CorrectionsTargeted /\ CheckpointSpent
  BY <1>3 DEF CorrectionsListed, CorrectionsTargeted, CheckpointSpent
<1> QED
  BY <1>5, <1>7, <1>8 DEF IInv

(* What the contract keeps about checkpoints is untouched by the identities' side. *)
LEMMA CheckpointFrame ==
  ASSUME IInv, UNCHANGED cpVars, IdentityTypeOK'
  PROVE  IInv'
<1> USE DEF cpVars
<1>1. TypeOK'
  BY DEF IInv, TypeOK
<1>2. SingleChain' /\ HeadKnown'
  BY DEF IInv, SingleChain, HeadKnown, OneChain, ChainOf, hasHead
<1>3. CorrectionsListed' /\ CorrectionsTargeted'
  BY DEF IInv, CorrectionsListed, CorrectionsTargeted, CorrectionsOf
<1>4. CheckpointSpent'
  BY DEF IInv, CheckpointSpent, CommandTrack, Exists
<1> QED
  BY <1>1, <1>2, <1>3, <1>4 DEF IInv

(* The steps of this contract leave IdentityRegistry alone. *)
LEMMA CheckpointStepFrame ==
  ASSUME CheckpointStep
  PROVE  UNCHANGED <<now, identities, tracks, idSigs>>
BY DEF CheckpointStep, appendCheckpoint, attachProof, publishCorrection,
       SignCheckpointCommand, LoseCheckpointCommand, idVars

(* The fields of a command in a relayer's hands. *)
LEMMA CommandFields ==
  ASSUME TypeOK, NEW s \in cpSigs
  PROVE  /\ s \in CheckpointCommand
         /\ s.op \in CheckpointOp /\ s.nonce \in Nat
         /\ s.op = "AppendCheckpoint" => s.body \in CheckpointInput
         /\ s.op = "AttachProof" => s.body \in ProofInput
BY DEF TypeOK, CheckpointCommand, CheckpointOp

(* Marking a command changes nothing but its mark. *)
LEMMA MarkedFields ==
  ASSUME TypeOK, NEW s \in cpSigs
  PROVE  LET m == [s EXCEPT !.used = TRUE] IN
           /\ m \in CheckpointCommand
           /\ m.op = s.op /\ m.body = s.body /\ m.nonce = s.nonce
BY DEF TypeOK, CheckpointCommand

-----------------------------------------------------------------------------
(* The entries a call writes are well typed. *)
LEMMA CheckpointTypeStep ==
  ASSUME TypeOK, CheckpointStep
  PROVE  TypeOK'
<1>0. /\ IdentityTypeOK' /\ now \in Nat
      /\ \A t \in TrackId : trackNonce[t] \in Nat /\ tracks[t].identityId \in IdentityId
      /\ \A id \in IdentityId : identities[id].ownerEpoch \in Nat
  BY CheckpointStepFrame DEF TypeOK, IdentityTypeOK, Identity, Track
<1>1. ASSUME NEW s \in cpSigs, appendCheckpoint(s)
      PROVE  TypeOK'
  <2>1. /\ s.op = "AppendCheckpoint" /\ s.body \in CheckpointInput /\ s.nonce \in Nat
    BY <1>1, CommandFields DEF appendCheckpoint
  <2>2. /\ s.body.trackId \in TrackId /\ s.body.checkpointHash \in Hash
        /\ s.body.sequence \in Nat /\ s.body.periodEnd \in Nat
    BY <2>1 DEF CheckpointInput
  <2>3. [input |-> s.body,
         timing |-> IF now > s.body.publicationDeadline THEN "Late" ELSE "OnTime",
         anchoredAt |-> now, proofAnchored |-> FALSE, digests |-> NoDigest,
         correctionHead |-> 0] \in StoredCheckpoint
    BY <1>0, <2>1 DEF StoredCheckpoint
  <2>4. /\ DOMAIN checkpoints' \subseteq Hash
        /\ \A h \in DOMAIN checkpoints' : checkpoints'[h] \in StoredCheckpoint
    BY <1>1, <2>2, <2>3 DEF appendCheckpoint, TypeOK
  <2>5. /\ head' \in [TrackId -> Hash \cup {ZeroHash}]
        /\ headSequence' \in [TrackId -> Nat]
        /\ headPeriodEnd' \in [TrackId -> Nat]
        /\ trackNonce' \in [TrackId -> Nat]
    BY <1>1, <2>1, <2>2 DEF appendCheckpoint, TypeOK
  <2>6. cpSigs' \subseteq CheckpointCommand
    BY <1>1, MarkedFields DEF appendCheckpoint, MarkUsed, TypeOK
  <2> QED
    BY <1>0, <1>1, <2>4, <2>5, <2>6 DEF appendCheckpoint, TypeOK
<1>2. ASSUME NEW s \in cpSigs, attachProof(s)
      PROVE  TypeOK'
  <2>1. /\ s.op = "AttachProof" /\ s.body \in ProofInput /\ s.nonce \in Nat
    BY <1>2, CommandFields DEF attachProof
  <2>2. /\ s.body.checkpointHash \in DOMAIN checkpoints /\ s.body.digests \in Digest
        /\ checkpoints[s.body.checkpointHash] \in StoredCheckpoint
        /\ checkpoints[s.body.checkpointHash].input.trackId \in TrackId
    BY <1>2, <2>1 DEF attachProof, Exists, ProofInput, TypeOK, StoredCheckpoint,
                      CheckpointInput
  <2>3. /\ DOMAIN checkpoints' = DOMAIN checkpoints
        /\ \A h \in DOMAIN checkpoints' : checkpoints'[h] \in StoredCheckpoint
    BY <1>2, <2>2 DEF attachProof, TypeOK, StoredCheckpoint
  <2>4. trackNonce' \in [TrackId -> Nat]
    BY <1>2, <2>1, <2>2 DEF attachProof, TypeOK
  <2>5. cpSigs' \subseteq CheckpointCommand
    BY <1>2, MarkedFields DEF attachProof, MarkUsed, TypeOK
  <2> QED
    BY <1>0, <1>2, <2>3, <2>4, <2>5 DEF attachProof, TypeOK
<1>3. ASSUME NEW caller \in Address, NEW h \in Hash, publishCorrection(caller, h)
      PROVE  TypeOK'
  <2>1. /\ h \in DOMAIN checkpoints /\ checkpoints[h] \in StoredCheckpoint
        /\ checkpoints[h].correctionHead \in Nat /\ Len(corrections) + 1 \in Nat
    BY <1>3 DEF publishCorrection, Exists, TypeOK, StoredCheckpoint
  <2>2. corrections' \in Seq(Correction)
    BY <1>0, <1>3, <2>1 DEF publishCorrection, TypeOK, Correction
  <2>3. /\ DOMAIN checkpoints' = DOMAIN checkpoints
        /\ \A g \in DOMAIN checkpoints' : checkpoints'[g] \in StoredCheckpoint
    BY <1>3, <2>1 DEF publishCorrection, TypeOK, StoredCheckpoint
  <2> QED
    BY <1>0, <1>3, <2>2, <2>3 DEF publishCorrection, TypeOK
<1>4. ASSUME NEW op \in CheckpointOp, NEW b, NEW t \in TrackId, NEW p \in Address,
             b \in IF op = "AppendCheckpoint" THEN CheckpointInput ELSE ProofInput,
             SignCheckpointCommand(op, b, t, p)
      PROVE  TypeOK'
  <2>1. now + Window \in Nat /\ trackOwnerEpoch(t) \in Nat /\ trackNonce[t] \in Nat
    BY <1>0, IdentityAssumption DEF trackOwnerEpoch
  <2>2. [op |-> op, body |-> b, ownerEpoch |-> trackOwnerEpoch(t), nonce |-> trackNonce[t],
         deadline |-> now + Window, signer |-> p, used |-> FALSE] \in CheckpointCommand
    BY <1>4, <2>1 DEF CheckpointCommand, CheckpointOp
  <2> QED
    BY <1>0, <1>4, <2>2 DEF SignCheckpointCommand, TypeOK
<1>5. ASSUME NEW t \in TrackId, NEW p \in Address, NEW i \in SignableInput(t),
             SignCheckpointCommand("AppendCheckpoint", i, t, p)
      PROVE  TypeOK'
  <2>1. i \in CheckpointInput
    BY CheckpointAssumption DEF SignableInput, CheckpointInput
  <2> QED
    BY <1>4, <1>5, <2>1 DEF CheckpointOp
<1>6. ASSUME NEW h \in DOMAIN checkpoints, NEW d \in Digest, NEW p \in Address,
             SignCheckpointCommand("AttachProof", [checkpointHash |-> h, digests |-> d],
                                   checkpoints[h].input.trackId, p)
      PROVE  TypeOK'
  <2>1. /\ [checkpointHash |-> h, digests |-> d] \in ProofInput
        /\ checkpoints[h].input.trackId \in TrackId
    BY DEF TypeOK, ProofInput, StoredCheckpoint, CheckpointInput
  <2> QED
    BY <1>4, <1>6, <2>1 DEF CheckpointOp
<1>7. ASSUME NEW s \in cpSigs, LoseCheckpointCommand(s)
      PROVE  TypeOK'
  BY <1>0, <1>7 DEF LoseCheckpointCommand, TypeOK
<1> QED
  BY <1>1, <1>2, <1>3, <1>5, <1>6, <1>7 DEF CheckpointStep

-----------------------------------------------------------------------------
(* A chain that keeps its headers and its head pointers stays a chain. *)
LEMMA ChainKept ==
  ASSUME SingleChain, HeadKnown,
         DOMAIN checkpoints' = DOMAIN checkpoints,
         \A h \in DOMAIN checkpoints : checkpoints'[h].input = checkpoints[h].input,
         UNCHANGED <<head, headSequence, headPeriodEnd>>
  PROVE  SingleChain' /\ HeadKnown'
<1>1. \A t \in TrackId : ChainOf(t)' = ChainOf(t)
  BY DEF ChainOf
<1>2. \A t \in TrackId : ChainOf(t) \subseteq DOMAIN checkpoints
  BY DEF ChainOf
<1>3. SingleChain'
  BY <1>1, <1>2 DEF SingleChain, OneChain
<1>4. HeadKnown'
  BY <1>1 DEF HeadKnown, hasHead
<1> QED
  BY <1>3, <1>4

(***************************************************************************)
(* appendCheckpoint extends the one chain of its track: the checks on      *)
(* sequence, previous hash and period leave no place but behind the head.  *)
(***************************************************************************)
LEMMA AppendChains ==
  ASSUME ZeroHash \notin Hash, TypeOK, SingleChain, HeadKnown,
         NEW s \in cpSigs, appendCheckpoint(s)
  PROVE  SingleChain' /\ HeadKnown'
<1> DEFINE i == s.body
           h == s.body.checkpointHash
           u == s.body.trackId
<1>1. /\ i \in CheckpointInput
      /\ u \in TrackId /\ h \in Hash /\ i.sequence \in Nat
      /\ i.periodStart \in Nat /\ i.periodEnd \in Nat
  <2>1. i \in CheckpointInput
    BY CommandFields DEF appendCheckpoint
  <2> QED
    BY <2>1 DEF CheckpointInput
<1>2. /\ h \notin DOMAIN checkpoints
      /\ i.sequence = requiredSequence(u)
      /\ i.previousCheckpointHash = head[u]
      /\ i.periodEnd > i.periodStart
      /\ hasHead(u) => i.periodStart >= headPeriodEnd[u]
  BY DEF appendCheckpoint, ExtendsHead, Exists
<1>3. /\ DOMAIN checkpoints' = DOMAIN checkpoints \cup {h}
      /\ checkpoints'[h].input = i
      /\ \A g \in DOMAIN checkpoints : checkpoints'[g] = checkpoints[g]
  BY <1>2 DEF appendCheckpoint
<1>4. \A t \in TrackId :
        /\ head'[t] = IF t = u THEN h ELSE head[t]
        /\ headSequence'[t] = IF t = u THEN i.sequence ELSE headSequence[t]
        /\ headPeriodEnd'[t] = IF t = u THEN i.periodEnd ELSE headPeriodEnd[t]
  BY <1>1 DEF appendCheckpoint, TypeOK
<1>5. \A t \in TrackId :
        ChainOf(t)' = IF t = u THEN ChainOf(t) \cup {h} ELSE ChainOf(t)
  BY <1>1, <1>2, <1>3 DEF ChainOf
<1>6. \A t \in TrackId : \A g \in ChainOf(t) :
        /\ g \in DOMAIN checkpoints /\ g # h /\ checkpoints'[g] = checkpoints[g]
        /\ checkpoints[g].input.sequence \in Nat
        /\ checkpoints[g].input.periodStart \in Nat /\ checkpoints[g].input.periodEnd \in Nat
        /\ checkpoints[g].input.periodStart < checkpoints[g].input.periodEnd
  BY <1>2, <1>3 DEF ChainOf, TypeOK, StoredCheckpoint, CheckpointInput, HeadKnown
<1>7. /\ headSequence[u] \in Nat /\ headPeriodEnd[u] \in Nat
      /\ head[u] \in Hash \cup {ZeroHash}
  BY <1>1 DEF TypeOK
<1>8. CASE hasHead(u)
  <2>1. /\ i.sequence = headSequence[u] + 1
        /\ i.periodStart >= headPeriodEnd[u]
    BY <1>2, <1>8 DEF requiredSequence
  <2>2. /\ head[u] \in ChainOf(u)
        /\ checkpoints[head[u]].input.sequence = headSequence[u]
        /\ checkpoints[head[u]].input.periodEnd = headPeriodEnd[u]
    BY <1>1, <1>8 DEF SingleChain, OneChain, HeadKnown
  <2>3. \A g \in ChainOf(u) :
          /\ checkpoints[g].input.sequence <= headSequence[u]
          /\ checkpoints[g].input.periodEnd <= headPeriodEnd[u]
    <3> SUFFICES ASSUME NEW g \in ChainOf(u)
                 PROVE  /\ checkpoints[g].input.sequence <= headSequence[u]
                        /\ checkpoints[g].input.periodEnd <= headPeriodEnd[u]
      OBVIOUS
    <3>1. checkpoints[g].input.sequence <= headSequence[u]
      BY <1>1 DEF SingleChain, OneChain
    <3>2. CASE checkpoints[g].input.sequence = headSequence[u]
      <4>1. g = head[u]
        BY <1>1, <2>2, <3>2 DEF SingleChain, OneChain
      <4> QED
        BY <1>7, <2>2, <3>1, <4>1
    <3>3. CASE checkpoints[g].input.sequence < headSequence[u]
      <4>1. checkpoints[g].input.periodEnd <= checkpoints[head[u]].input.periodStart
        BY <1>1, <2>2, <3>3 DEF SingleChain, OneChain
      <4> QED
        BY <1>1, <1>6, <1>7, <2>2, <3>1, <4>1
    <3> QED
      BY <1>1, <1>6, <1>7, <3>1, <3>2, <3>3
  <2>4. ASSUME NEW g \in ChainOf(u)
        PROVE  /\ checkpoints[g].input.sequence < i.sequence
               /\ checkpoints[g].input.periodEnd <= i.periodStart
    BY <1>1, <1>6, <1>7, <2>1, <2>3
  <2>5. i.sequence > 0 /\ i.previousCheckpointHash \in ChainOf(u)
        /\ checkpoints[i.previousCheckpointHash].input.sequence = i.sequence - 1
    BY <1>1, <1>2, <1>7, <2>1, <2>2
  <2> HIDE DEF i, h, u
  <2>6. SingleChain'
    <3> SUFFICES ASSUME NEW t \in TrackId PROVE OneChain(t)'
      BY DEF SingleChain
    <3>1. CASE t # u
      BY <1>3, <1>4, <1>5, <1>6, <3>1 DEF SingleChain, OneChain
    <3>2. CASE t = u
      BY <1>1, <1>3, <1>4, <1>5, <1>6, <2>1, <2>4, <2>5, <3>2 DEF SingleChain, OneChain
    <3> QED
      BY <3>1, <3>2
  <2>7. HeadKnown'
    BY <1>1, <1>2, <1>3, <1>4, <1>5 DEF HeadKnown, hasHead, h, i, u
  <2> QED
    BY <2>6, <2>7
<1>9. CASE ~hasHead(u)
  <2>1. ChainOf(u) = {}
    <3>1. ZeroHash \notin ChainOf(u)
      BY DEF ChainOf, TypeOK
    <3> QED
      BY <1>1, <1>9, <3>1 DEF SingleChain, OneChain, hasHead
  <2>2. i.sequence = 0 /\ i.previousCheckpointHash = ZeroHash
    BY <1>2, <1>9 DEF requiredSequence, hasHead
  <2> HIDE DEF i, h, u
  <2>3. SingleChain'
    <3> SUFFICES ASSUME NEW t \in TrackId PROVE OneChain(t)'
      BY DEF SingleChain
    <3>1. CASE t # u
      BY <1>3, <1>4, <1>5, <1>6, <3>1 DEF SingleChain, OneChain
    <3>2. CASE t = u
      BY <1>1, <1>3, <1>4, <1>5, <2>1, <2>2, <3>2 DEF OneChain
    <3> QED
      BY <3>1, <3>2
  <2>4. HeadKnown'
    BY <1>1, <1>2, <1>3, <1>4, <1>5 DEF HeadKnown, hasHead, h, i, u
  <2> QED
    BY <2>3, <2>4
<1> QED
  BY <1>8, <1>9

-----------------------------------------------------------------------------
(* Without a new correction every list stays as it is, also when a checkpoint joins. *)
LEMMA CorrectionsKept ==
  ASSUME TypeOK, CorrectionsListed, CorrectionsTargeted, UNCHANGED corrections,
         DOMAIN checkpoints \subseteq DOMAIN checkpoints',
         \A h \in DOMAIN checkpoints :
           checkpoints'[h].correctionHead = checkpoints[h].correctionHead,
         \A h \in DOMAIN checkpoints' \ DOMAIN checkpoints :
           checkpoints'[h].correctionHead = 0
  PROVE  CorrectionsListed' /\ CorrectionsTargeted'
<1>1. \A h : CorrectionsOf(h)' = CorrectionsOf(h)
  BY DEF CorrectionsOf
<1>2. \A h \in DOMAIN checkpoints' \ DOMAIN checkpoints : CorrectionsOf(h) = {}
  BY DEF CorrectionsOf, CorrectionsTargeted
<1>3. CorrectionsListed'
  <2> SUFFICES ASSUME NEW h \in DOMAIN checkpoints'
               PROVE  /\ checkpoints'[h].correctionHead \in CorrectionsOf(h) \cup {0}
                      /\ \A c \in CorrectionsOf(h) :
                           /\ c <= checkpoints'[h].correctionHead
                           /\ corrections[c].previousCorrectionHead \in
                                {d \in CorrectionsOf(h) : d < c} \cup {0}
                           /\ \A d \in {d \in CorrectionsOf(h) : d < c} :
                                d <= corrections[c].previousCorrectionHead
    BY <1>1 DEF CorrectionsListed
  <2>1. CASE h \in DOMAIN checkpoints
    BY <2>1 DEF CorrectionsListed
  <2>2. CASE h \notin DOMAIN checkpoints
    BY <1>2, <2>2
  <2> QED
    BY <2>1, <2>2
<1>4. CorrectionsTargeted'
  BY DEF CorrectionsTargeted
<1> QED
  BY <1>3, <1>4

(* publishCorrection puts the new proposal in front of its checkpoint's list. *)
LEMMA PublishLists ==
  ASSUME TypeOK, CorrectionsListed, CorrectionsTargeted,
         NEW caller \in Address, NEW g \in Hash, publishCorrection(caller, g)
  PROVE  CorrectionsListed' /\ CorrectionsTargeted'
<1> DEFINE n == Len(corrections) + 1
<1>1. /\ DOMAIN corrections = 1 .. Len(corrections) /\ Len(corrections) \in Nat
      /\ DOMAIN corrections' = DOMAIN corrections \cup {n}
      /\ n \notin DOMAIN corrections
      /\ \A c \in DOMAIN corrections : corrections'[c] = corrections[c] /\ c < n /\ c \in Nat
      /\ corrections'[n].targetCheckpointHash = g
      /\ corrections'[n].previousCorrectionHead = checkpoints[g].correctionHead
  BY DEF publishCorrection, TypeOK
<1>2. /\ g \in DOMAIN checkpoints
      /\ DOMAIN checkpoints' = DOMAIN checkpoints
      /\ checkpoints'[g].correctionHead = n
      /\ \A h \in DOMAIN checkpoints : h # g => checkpoints'[h] = checkpoints[h]
  <2>1. g \in DOMAIN checkpoints /\ checkpoints[g] \in StoredCheckpoint
    BY DEF publishCorrection, Exists, TypeOK
  <2> QED
    BY <2>1 DEF publishCorrection, StoredCheckpoint
<1>3. \A h : CorrectionsOf(h)' = IF h = g THEN CorrectionsOf(h) \cup {n} ELSE CorrectionsOf(h)
  BY <1>1 DEF CorrectionsOf
<1>4. \A h : \A c \in CorrectionsOf(h) :
        c \in DOMAIN corrections /\ corrections'[c] = corrections[c] /\ c < n /\ c \in Nat
  BY <1>1 DEF CorrectionsOf
<1> HIDE DEF n
<1>5. CorrectionsTargeted'
  BY <1>1, <1>2 DEF CorrectionsTargeted
<1>6. CorrectionsListed'
  <2> SUFFICES ASSUME NEW h \in DOMAIN checkpoints
               PROVE  /\ checkpoints'[h].correctionHead \in CorrectionsOf(h)' \cup {0}
                      /\ \A c \in CorrectionsOf(h)' :
                           /\ c <= checkpoints'[h].correctionHead
                           /\ corrections'[c].previousCorrectionHead \in
                                {d \in CorrectionsOf(h)' : d < c} \cup {0}
                           /\ \A d \in {d \in CorrectionsOf(h)' : d < c} :
                                d <= corrections'[c].previousCorrectionHead
    BY <1>2 DEF CorrectionsListed
  <2>1. CASE h # g
    BY <1>2, <1>3, <1>4, <2>1 DEF CorrectionsListed
  <2>2. CASE h = g
    <3>1. /\ checkpoints[g].correctionHead \in CorrectionsOf(g) \cup {0}
          /\ \A d \in CorrectionsOf(g) : d <= checkpoints[g].correctionHead
      BY <1>2 DEF CorrectionsListed
    <3>2. n \in Nat /\ n > 0
      BY <1>1 DEF n
    <3>3. \A c \in CorrectionsOf(g) :
            /\ corrections[c].previousCorrectionHead \in {d \in CorrectionsOf(g) : d < c} \cup {0}
            /\ \A d \in {d \in CorrectionsOf(g) : d < c} :
                 d <= corrections[c].previousCorrectionHead
      BY <1>2 DEF CorrectionsListed
    <3>4. \A c \in CorrectionsOf(g) :
            {d \in CorrectionsOf(g)' : d < c} = {d \in CorrectionsOf(g) : d < c}
      BY <1>3, <1>4, <3>2
    <3>5. {d \in CorrectionsOf(g)' : d < n} = CorrectionsOf(g)
      BY <1>3, <1>4, <3>2
    <3>6. ASSUME NEW c \in CorrectionsOf(g)
          PROVE  /\ c <= n
                 /\ corrections'[c].previousCorrectionHead \in
                      {d \in CorrectionsOf(g)' : d < c} \cup {0}
                 /\ \A d \in {d \in CorrectionsOf(g)' : d < c} :
                      d <= corrections'[c].previousCorrectionHead
      BY <1>4, <3>2, <3>3, <3>4
    <3>7. /\ n <= n
          /\ corrections'[n].previousCorrectionHead \in
               {d \in CorrectionsOf(g)' : d < n} \cup {0}
          /\ \A d \in {d \in CorrectionsOf(g)' : d < n} :
               d <= corrections'[n].previousCorrectionHead
      BY <1>1, <3>1, <3>2, <3>5
    <3> QED
      BY <1>2, <1>3, <2>2, <3>6, <3>7
  <2> QED
    BY <2>1, <2>2
<1> QED
  BY <1>5, <1>6

-----------------------------------------------------------------------------
(* An accepted command moves its track's nonce past every command signed before it. *)
LEMMA AcceptedSpends ==
  ASSUME TypeOK, CheckpointSpent, NEW s \in cpSigs, NEW u \in TrackId,
         CommandTrack(s) = u, s.nonce = trackNonce[u],
         trackNonce' = [trackNonce EXCEPT ![u] = s.nonce + 1],
         cpSigs' = MarkUsed(cpSigs, s),
         DOMAIN checkpoints \subseteq DOMAIN checkpoints',
         \A h \in DOMAIN checkpoints : checkpoints'[h].input = checkpoints[h].input
  PROVE  CheckpointSpent'
<1> SUFFICES ASSUME NEW r \in cpSigs'
             PROVE  /\ r.op = "AttachProof" => r.body.checkpointHash \in DOMAIN checkpoints'
                    /\ r.nonce <= trackNonce'[CommandTrack(r)']
                    /\ r.used => r.nonce < trackNonce'[CommandTrack(r)']
  BY DEF CheckpointSpent, Exists
<1>1. \A t \in TrackId : /\ trackNonce[t] \in Nat
                         /\ trackNonce'[t] = IF t = u THEN trackNonce[t] + 1 ELSE trackNonce[t]
  BY DEF TypeOK
<1>2. ASSUME NEW q \in cpSigs
      PROVE  /\ q.nonce \in Nat /\ CommandTrack(q) \in TrackId
             /\ q.op = "AttachProof" => q.body.checkpointHash \in DOMAIN checkpoints'
             /\ CommandTrack(q)' = CommandTrack(q)
             /\ q.nonce <= trackNonce[CommandTrack(q)]
             /\ q.used => q.nonce < trackNonce[CommandTrack(q)]
  <2>1. /\ q.op \in CheckpointOp /\ q.nonce \in Nat
        /\ q.op = "AppendCheckpoint" => q.body.trackId \in TrackId
    BY CommandFields DEF CheckpointInput
  <2>2. q.op = "AttachProof" => q.body.checkpointHash \in DOMAIN checkpoints
    BY DEF CheckpointSpent, Exists
  <2>3. \A h \in DOMAIN checkpoints : checkpoints[h].input.trackId \in TrackId
    BY DEF TypeOK, StoredCheckpoint, CheckpointInput
  <2> QED
    BY <2>1, <2>2, <2>3 DEF CommandTrack, CheckpointOp, CheckpointSpent
<1>3. CASE r \in cpSigs
  BY <1>1, <1>2, <1>3
<1>4. CASE r = [s EXCEPT !.used = TRUE]
  <2>1. r.op = s.op /\ r.body = s.body /\ r.nonce = s.nonce
    BY <1>4, MarkedFields
  <2>2. CommandTrack(r)' = CommandTrack(s)'
    BY <2>1 DEF CommandTrack
  <2> QED
    BY <1>1, <1>2, <2>1, <2>2
<1> QED
  BY <1>3, <1>4, MarkUsedMember

(* A command is signed against the nonce its track has at that moment. *)
LEMMA SignedSpends ==
  ASSUME TypeOK, CheckpointSpent, NEW op \in CheckpointOp, NEW b, NEW t \in TrackId,
         NEW p \in Address, SignCheckpointCommand(op, b, t, p),
         op = "AttachProof" => b.checkpointHash \in DOMAIN checkpoints,
         t = IF op = "AppendCheckpoint" THEN b.trackId
             ELSE checkpoints[b.checkpointHash].input.trackId
  PROVE  CheckpointSpent'
<1> DEFINE new == [op |-> op, body |-> b, ownerEpoch |-> trackOwnerEpoch(t),
                   nonce |-> trackNonce[t], deadline |-> now + Window, signer |-> p,
                   used |-> FALSE]
<1>1. cpSigs' = cpSigs \cup {new} /\ UNCHANGED <<checkpoints, trackNonce>>
  BY DEF SignCheckpointCommand
<1>2. /\ new.op = op /\ new.body = b /\ new.nonce = trackNonce[t] /\ new.used = FALSE
      /\ trackNonce[t] \in Nat
  BY DEF TypeOK
<1> HIDE DEF new
<1>3. CommandTrack(new) = t
  BY <1>2 DEF CommandTrack
<1> SUFFICES ASSUME NEW r \in cpSigs'
             PROVE  /\ r.op = "AttachProof" => r.body.checkpointHash \in DOMAIN checkpoints
                    /\ r.nonce <= trackNonce[CommandTrack(r)]
                    /\ r.used => r.nonce < trackNonce[CommandTrack(r)]
  BY <1>1 DEF CheckpointSpent, Exists, CommandTrack
<1>4. CASE r \in cpSigs
  BY <1>4 DEF CheckpointSpent, Exists
<1>5. CASE r = new
  BY <1>2, <1>3, <1>5
<1> QED
  BY <1>1, <1>4, <1>5

-----------------------------------------------------------------------------
(* What an accepted appendCheckpoint leaves of the checkpoints that were there. *)
LEMMA AppendKeeps ==
  ASSUME TypeOK, NEW s \in cpSigs, appendCheckpoint(s)
  PROVE  /\ s.body.checkpointHash \notin DOMAIN checkpoints
         /\ DOMAIN checkpoints' = DOMAIN checkpoints \cup {s.body.checkpointHash}
         /\ \A h \in DOMAIN checkpoints : checkpoints'[h] = checkpoints[h]
         /\ checkpoints'[s.body.checkpointHash].correctionHead = 0
         /\ checkpoints'[s.body.checkpointHash].input = s.body
BY DEF appendCheckpoint, ExtendsHead, Exists

(* An accepted attachProof changes the proof of the checkpoint it names and nothing else. *)
LEMMA AttachKeeps ==
  ASSUME TypeOK, NEW s \in cpSigs, attachProof(s)
  PROVE  LET g == s.body.checkpointHash IN
         /\ g \in DOMAIN checkpoints
         /\ DOMAIN checkpoints' = DOMAIN checkpoints
         /\ \A h \in DOMAIN checkpoints : h # g => checkpoints'[h] = checkpoints[h]
         /\ \A h \in DOMAIN checkpoints :
              /\ checkpoints'[h].input = checkpoints[h].input
              /\ checkpoints'[h].timing = checkpoints[h].timing
              /\ checkpoints'[h].anchoredAt = checkpoints[h].anchoredAt
              /\ checkpoints'[h].correctionHead = checkpoints[h].correctionHead
              /\ checkpoints[h].proofAnchored => checkpoints'[h].proofAnchored
         /\ checkpoints'[g].digests = s.body.digests
<1>1. /\ s.body.checkpointHash \in DOMAIN checkpoints
      /\ checkpoints[s.body.checkpointHash] \in StoredCheckpoint
  BY DEF attachProof, Exists, TypeOK
<1> QED
  BY <1>1 DEF attachProof, StoredCheckpoint

(* publishCorrection changes the list head of the checkpoint it names and nothing else. *)
LEMMA PublishKeeps ==
  ASSUME TypeOK, NEW caller \in Address, NEW g \in Hash, publishCorrection(caller, g)
  PROVE  /\ DOMAIN checkpoints' = DOMAIN checkpoints
         /\ \A h \in DOMAIN checkpoints :
              /\ checkpoints'[h].input = checkpoints[h].input
              /\ checkpoints'[h].timing = checkpoints[h].timing
              /\ checkpoints'[h].anchoredAt = checkpoints[h].anchoredAt
              /\ checkpoints'[h].digests = checkpoints[h].digests
              /\ checkpoints'[h].proofAnchored = checkpoints[h].proofAnchored
<1>1. g \in DOMAIN checkpoints /\ checkpoints[g] \in StoredCheckpoint
  BY DEF publishCorrection, Exists, TypeOK
<1> QED
  BY <1>1 DEF publishCorrection, StoredCheckpoint

(* Every call of the contract, and every signature, keeps the inductive invariant. *)
LEMMA CheckpointIInvStep ==
  ASSUME ZeroHash \notin Hash, IInv, CheckpointStep
  PROVE  IInv'
<1>0. /\ TypeOK /\ SingleChain /\ HeadKnown /\ CorrectionsListed /\ CorrectionsTargeted
      /\ CheckpointSpent
      /\ TypeOK'
  BY CheckpointTypeStep DEF IInv
<1>1. ASSUME NEW s \in cpSigs, appendCheckpoint(s)
      PROVE  IInv'
  <2>1. SingleChain' /\ HeadKnown'
    BY <1>0, <1>1, AppendChains
  <2>2. UNCHANGED corrections
    BY <1>1 DEF appendCheckpoint
  <2>3. CorrectionsListed' /\ CorrectionsTargeted'
    BY <1>0, <1>1, <2>2, AppendKeeps, CorrectionsKept
  <2>4. /\ s.body.trackId \in TrackId /\ CommandTrack(s) = s.body.trackId
        /\ s.nonce = trackNonce[s.body.trackId]
        /\ trackNonce' = [trackNonce EXCEPT ![s.body.trackId] = s.nonce + 1]
        /\ cpSigs' = MarkUsed(cpSigs, s)
    <3>1. s.op = "AppendCheckpoint" /\ s.body \in CheckpointInput
      BY <1>0, <1>1, CommandFields DEF appendCheckpoint
    <3> QED
      BY <1>1, <3>1 DEF appendCheckpoint, ConsumesCommand, CheckpointInput, CommandTrack
  <2>5. CheckpointSpent'
    BY <1>0, <1>1, <2>4, AppendKeeps, AcceptedSpends
  <2> QED
    BY <1>0, <2>1, <2>3, <2>5 DEF IInv
<1>2. ASSUME NEW s \in cpSigs, attachProof(s)
      PROVE  IInv'
  <2>1. UNCHANGED <<head, headSequence, headPeriodEnd, corrections>>
    BY <1>2 DEF attachProof
  <2>2. SingleChain' /\ HeadKnown'
    BY <1>0, <1>2, <2>1, AttachKeeps, ChainKept
  <2>3. CorrectionsListed' /\ CorrectionsTargeted'
    BY <1>0, <1>2, <2>1, AttachKeeps, CorrectionsKept
  <2> DEFINE u == checkpoints[s.body.checkpointHash].input.trackId
  <2>4. /\ u \in TrackId /\ CommandTrack(s) = u /\ s.nonce = trackNonce[u]
        /\ trackNonce' = [trackNonce EXCEPT ![u] = s.nonce + 1]
        /\ cpSigs' = MarkUsed(cpSigs, s)
    <3>1. s.op = "AttachProof" /\ u \in TrackId
      BY <1>0, <1>2 DEF attachProof, Exists, TypeOK, StoredCheckpoint, CheckpointInput
    <3> QED
      BY <1>2, <3>1 DEF attachProof, ConsumesCommand, CommandTrack
  <2> HIDE DEF u
  <2>5. CheckpointSpent'
    BY <1>0, <1>2, <2>4, AttachKeeps, AcceptedSpends
  <2> QED
    BY <1>0, <2>2, <2>3, <2>5 DEF IInv
<1>3. ASSUME NEW caller \in Address, NEW h \in Hash, publishCorrection(caller, h)
      PROVE  IInv'
  <2>1. UNCHANGED <<head, headSequence, headPeriodEnd, trackNonce, cpSigs>>
    BY <1>3 DEF publishCorrection
  <2>2. SingleChain' /\ HeadKnown'
    BY <1>0, <1>3, <2>1, PublishKeeps, ChainKept
  <2>3. CorrectionsListed' /\ CorrectionsTargeted'
    BY <1>0, <1>3, PublishLists
  <2>4. \A s \in cpSigs : CommandTrack(s)' = CommandTrack(s)
    BY <1>0, <1>3, PublishKeeps, CommandFields DEF CommandTrack, CheckpointSpent, Exists,
                                                   CheckpointOp
  <2>5. CheckpointSpent'
    BY <1>0, <1>3, <2>1, <2>4, PublishKeeps DEF CheckpointSpent, Exists
  <2> QED
    BY <1>0, <2>2, <2>3, <2>5 DEF IInv
<1>4. ASSUME UNCHANGED <<checkpoints, head, headSequence, headPeriodEnd, corrections>>,
             CheckpointSpent'
      PROVE  IInv'
  <2>1. SingleChain' /\ HeadKnown'
    BY <1>0, <1>4, ChainKept
  <2>2. CorrectionsListed' /\ CorrectionsTargeted'
    BY <1>0, <1>4, CorrectionsKept
  <2> QED
    BY <1>0, <1>4, <2>1, <2>2 DEF IInv
<1>5. ASSUME NEW t \in TrackId, NEW p \in Address, NEW i \in SignableInput(t),
             SignCheckpointCommand("AppendCheckpoint", i, t, p)
      PROVE  IInv'
  <2>1. i.trackId = t
    BY DEF SignableInput
  <2>2. CheckpointSpent'
    BY <1>0, <1>5, <2>1, SignedSpends DEF CheckpointOp
  <2> QED
    BY <1>4, <1>5, <2>2 DEF SignCheckpointCommand
<1>6. ASSUME NEW h \in DOMAIN checkpoints, NEW d \in Digest, NEW p \in Address,
             SignCheckpointCommand("AttachProof", [checkpointHash |-> h, digests |-> d],
                                   checkpoints[h].input.trackId, p)
      PROVE  IInv'
  <2>1. checkpoints[h].input.trackId \in TrackId
    BY <1>0 DEF TypeOK, StoredCheckpoint, CheckpointInput
  <2>2. CheckpointSpent'
    BY <1>0, <1>6, <2>1, SignedSpends DEF CheckpointOp
  <2> QED
    BY <1>4, <1>6, <2>2 DEF SignCheckpointCommand
<1>7. ASSUME NEW s \in cpSigs, LoseCheckpointCommand(s)
      PROVE  IInv'
  <2>1. CheckpointSpent'
    BY <1>0, <1>7 DEF LoseCheckpointCommand, CheckpointSpent, Exists, CommandTrack
  <2> QED
    BY <1>4, <1>7, <2>1 DEF LoseCheckpointCommand
<1> QED
  BY <1>1, <1>2, <1>3, <1>5, <1>6, <1>7 DEF CheckpointStep

(* Every step of the composed system keeps the inductive invariant. *)
LEMMA IInvStep ==
  ASSUME ZeroHash \notin Hash
  PROVE  IInv /\ [Next]_vars => IInv'
<1> SUFFICES ASSUME IInv, [Next]_vars PROVE IInv'
  OBVIOUS
<1>1. IdentityTypeOK
  BY DEF IInv, TypeOK
<1>2. CASE (IdentityStep \/ Tick) /\ UNCHANGED cpVars
  BY <1>1, <1>2, IdentityTypeStep, CheckpointFrame
<1>3. CASE CheckpointStep
  BY <1>3, CheckpointIInvStep
<1>4. CASE UNCHANGED vars
  <2>1. IdentityTypeOK' /\ UNCHANGED cpVars
    BY <1>1, <1>4 DEF vars, idVars, cpVars, IdentityTypeOK
  <2> QED
    BY <2>1, CheckpointFrame
<1> QED
  BY <1>2, <1>3, <1>4 DEF Next

(* The registry never leaves the inductive invariant. *)
THEOREM Invariance ==
  ASSUME ZeroHash \notin Hash
  PROVE  Spec => []IInv
BY CheckpointInitIInv, IInvStep, PTL DEF Spec

(***************************************************************************)
(* Whatever is signed, by whomever, and in whatever order it is relayed, a *)
(* track's checkpoints are one gapless, hash-linked, time-ordered chain    *)
(* that ends in the track's head.                                          *)
(***************************************************************************)
THEOREM ChainSafe ==
  ASSUME ZeroHash \notin Hash
  PROVE  Spec => []SingleChain
<1>1. IInv => SingleChain
  BY DEF IInv
<1> QED
  BY <1>1, Invariance, PTL

(* publishCorrection never loses a proposal that was published before. *)
THEOREM CorrectionsSafe ==
  ASSUME ZeroHash \notin Hash
  PROVE  Spec => []CorrectionsListed
<1>1. IInv => CorrectionsListed
  BY DEF IInv
<1> QED
  BY <1>1, Invariance, PTL

(* An acceptable command has not been accepted before. *)
LEMMA AcceptedIsUnused ==
  ASSUME IInv, NEW s \in cpSigs, ConsumesCommand(s, CommandTrack(s))
  PROVE  ~s.used
<1>1. s.nonce \in Nat /\ s.nonce = trackNonce[CommandTrack(s)]
  BY CommandFields DEF IInv, ConsumesCommand
<1> QED
  BY <1>1 DEF IInv, CheckpointSpent

(* No call deletes or rewrites a checkpoint or a correction, or moves a head backwards. *)
THEOREM AnchoredSafe ==
  ASSUME ZeroHash \notin Hash
  PROVE  Spec => AnchoredForever
<1>1. ASSUME IInv, Next PROVE KeepsAnchored
  <2>0. TypeOK /\ corrections \in Seq(Correction)
    BY <1>1 DEF IInv, TypeOK
  <2>1. ASSUME UNCHANGED <<checkpoints, corrections, head>> PROVE KeepsAnchored
    BY <2>1 DEF KeepsAnchored
  <2>2. ASSUME NEW s \in cpSigs, appendCheckpoint(s) PROVE KeepsAnchored
    <3>1. s.op = "AppendCheckpoint" /\ s.body.trackId \in TrackId
      BY <2>0, <2>2, CommandFields DEF appendCheckpoint, CheckpointInput
    <3>2. ASSUME NEW t \in TrackId, head'[t] # head[t]
          PROVE  /\ checkpoints'[head'[t]].input.previousCheckpointHash = head[t]
                 /\ ~s.used
                 /\ s.body = checkpoints'[head'[t]].input
                 /\ s.signer = trackOwner(t)
      <4>1. s.body.trackId = t /\ head'[t] = s.body.checkpointHash
        BY <2>0, <2>2, <3>1, <3>2 DEF appendCheckpoint, TypeOK
      <4>2. /\ s.body.previousCheckpointHash = head[t]
            /\ ConsumesCommand(s, t)
        BY <2>2, <4>1 DEF appendCheckpoint, ExtendsHead
      <4>3. CommandTrack(s) = t
        BY <3>1, <4>1 DEF CommandTrack
      <4>4. ~s.used
        BY <1>1, <4>2, <4>3, AcceptedIsUnused
      <4> QED
        BY <2>0, <2>2, <4>1, <4>2, <4>4, AppendKeeps DEF ConsumesCommand
    <3>3. UNCHANGED corrections
      BY <2>2 DEF appendCheckpoint
    <3> QED
      BY <2>0, <2>2, <3>2, <3>3, AppendKeeps DEF KeepsAnchored
  <2>3. ASSUME NEW s \in cpSigs, attachProof(s) PROVE KeepsAnchored
    <3>1. UNCHANGED <<head, corrections>>
      BY <2>3 DEF attachProof
    <3> QED
      BY <2>0, <2>3, <3>1, AttachKeeps DEF KeepsAnchored
  <2>4. ASSUME NEW caller \in Address, NEW h \in Hash, publishCorrection(caller, h)
        PROVE  KeepsAnchored
    <3>1. UNCHANGED head
      BY <2>4 DEF publishCorrection
    <3>2. \A c \in DOMAIN corrections :
            c \in DOMAIN corrections' /\ corrections'[c] = corrections[c]
      BY <2>0, <2>4 DEF publishCorrection
    <3> QED
      BY <2>0, <2>4, <3>1, <3>2, PublishKeeps DEF KeepsAnchored
  <2> QED
    BY <1>1, <2>1, <2>2, <2>3, <2>4 DEF Next, CheckpointStep, SignCheckpointCommand,
                                        LoseCheckpointCommand, cpVars
<1> QED
  BY <1>1, Invariance, PTL DEF Spec, AnchoredForever

(* A proof is recorded only on a fresh signature of the track's owner of the moment. *)
THEOREM ProofSafe ==
  ASSUME ZeroHash \notin Hash
  PROVE  Spec => ProofOnlyByOwner
<1>1. ASSUME IInv, Next PROVE ProvesAsOwner
  <2>0. TypeOK
    BY <1>1 DEF IInv
  <2> SUFFICES ASSUME NEW h \in DOMAIN checkpoints,
                      checkpoints'[h].digests # checkpoints[h].digests
               PROVE  LET t == checkpoints[h].input.trackId IN
                      \E s \in cpSigs :
                        /\ ~s.used
                        /\ s.body = [checkpointHash |-> h, digests |-> checkpoints'[h].digests]
                        /\ s.signer = trackOwner(t) /\ s.ownerEpoch = trackOwnerEpoch(t)
                        /\ trackNonce'[t] > s.nonce
    BY DEF ProvesAsOwner
  <2>1. PICK s \in cpSigs : attachProof(s)
    <3>1. ASSUME NEW s \in cpSigs, appendCheckpoint(s) PROVE FALSE
      BY <2>0, <3>1, AppendKeeps
    <3>2. ASSUME NEW caller \in Address, NEW g \in Hash, publishCorrection(caller, g)
          PROVE  FALSE
      BY <2>0, <3>2, PublishKeeps
    <3> QED
      BY <1>1, <3>1, <3>2 DEF Next, CheckpointStep, SignCheckpointCommand,
                              LoseCheckpointCommand, cpVars
  <2>2. s.body.checkpointHash = h /\ checkpoints'[h].digests = s.body.digests
    BY <2>0, <2>1, AttachKeeps
  <2>3. s.op = "AttachProof" /\ s.body \in ProofInput /\ s.nonce \in Nat
    BY <2>0, <2>1, CommandFields DEF attachProof
  <2>4. s.body = [checkpointHash |-> h, digests |-> checkpoints'[h].digests]
    BY <2>2, <2>3 DEF ProofInput
  <2> DEFINE t == checkpoints[h].input.trackId
  <2>5. t \in TrackId /\ trackNonce \in [TrackId -> Nat]
    BY <2>0 DEF TypeOK, StoredCheckpoint, CheckpointInput
  <2>6. /\ ConsumesCommand(s, t) /\ CommandTrack(s) = t
        /\ trackNonce' = [trackNonce EXCEPT ![t] = s.nonce + 1]
    BY <2>1, <2>2, <2>3 DEF attachProof, CommandTrack
  <2>7. ~s.used
    BY <1>1, <2>6, AcceptedIsUnused
  <2> HIDE DEF t
  <2>8. /\ s.signer = trackOwner(t) /\ s.ownerEpoch = trackOwnerEpoch(t)
        /\ trackNonce'[t] > s.nonce
    BY <2>3, <2>5, <2>6 DEF ConsumesCommand
  <2> QED
    BY <2>4, <2>7, <2>8 DEF t
<1> QED
  BY <1>1, Invariance, PTL DEF Spec, ProofOnlyByOwner
===============================================================================
