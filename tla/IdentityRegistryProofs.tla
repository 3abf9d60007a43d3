------------------------ MODULE IdentityRegistryProofs ------------------------
(***************************************************************************)
(* What every step of IdentityRegistry keeps, for any number of addresses, *)
(* identities, tracks and signed commands.  The specifications that build  *)
(* on the registry cite these lemmas for their own IdentityStep.           *)
(***************************************************************************)
EXTENDS IdentityRegistry, TLAPS

(* An accepted command stays in the relayer's hands, marked and unchanged otherwise. *)
LEMMA MarkUsedType ==
  ASSUME NEW s \in IdentityCommand, NEW S \in SUBSET IdentityCommand
  PROVE  MarkUsed(S, s) \subseteq IdentityCommand
BY DEF MarkUsed, IdentityCommand

(* The state the contract starts in is well typed. *)
LEMMA IdentityTypeInit == IdentityInit => IdentityTypeOK
<1> SUFFICES ASSUME IdentityInit PROVE IdentityTypeOK
  OBVIOUS
<1>1. NoTrack \in Track
  BY IdentityAssumption DEF NoTrack, Track
<1>2. NoIdentity \in Identity
  BY DEF NoIdentity, Identity
<1> QED
  BY <1>1, <1>2 DEF IdentityInit, IdentityTypeOK

(* No external function, signature or clock tick leaves the types. *)
LEMMA IdentityTypeStep ==
  ASSUME IdentityTypeOK, IdentityStep \/ Tick
  PROVE  IdentityTypeOK'
<1> USE DEF IdentityTypeOK
<1>1. ASSUME NEW caller \in Address, NEW id \in IdentityId, createIdentity(caller, id)
      PROVE  IdentityTypeOK'
  BY <1>1 DEF createIdentity, Identity
<1>2. ASSUME NEW s \in idSigs, NEW t \in TrackId, createTrack(s, t)
      PROVE  IdentityTypeOK'
  <2>1. s \in IdentityCommand
    OBVIOUS
  <2>2. s.identityId \in IdentityId
    BY <2>1 DEF IdentityCommand
  <2>3. identities' \in [IdentityId -> Identity]
    BY <1>2, <2>2 DEF createTrack, Identity
  <2>4. tracks' \in [TrackId -> Track]
    BY <1>2, <2>2 DEF createTrack, Track
  <2> QED
    BY <1>2, <2>1, <2>3, <2>4, MarkUsedType DEF createTrack
<1>3. ASSUME NEW s \in idSigs, proposeOwnerRotation(s)
      PROVE  IdentityTypeOK'
  <2>1. s \in IdentityCommand
    OBVIOUS
  <2>2. s.identityId \in IdentityId /\ s.newOwner \in Address \cup {NoAddr}
    BY <2>1 DEF IdentityCommand
  <2>3. identities' \in [IdentityId -> Identity]
    BY <1>3, <2>2 DEF proposeOwnerRotation, Identity
  <2> QED
    BY <1>3, <2>1, <2>3, MarkUsedType DEF proposeOwnerRotation
<1>4. ASSUME NEW s \in idSigs, confirmOwnerRotation(s)
      PROVE  IdentityTypeOK'
  <2>1. s \in IdentityCommand
    OBVIOUS
  <2>2. s.identityId \in IdentityId /\ s.newOwner \in Address \cup {NoAddr}
    BY <2>1 DEF IdentityCommand
  <2>3. identities' \in [IdentityId -> Identity]
    BY <1>4, <2>2 DEF confirmOwnerRotation, Identity
  <2> QED
    BY <1>4, <2>1, <2>3, MarkUsedType DEF confirmOwnerRotation
<1>5. ASSUME NEW id \in IdentityId, NEW op \in IdentityOp,
             NEW o \in Address \cup {NoAddr}, NEW p \in Address,
             SignIdentityCommand(id, op, o, p)
      PROVE  IdentityTypeOK'
  <2>1. now + Window \in Nat
    BY IdentityAssumption
  <2>2. IdentityChallenge(id, op, o, p) \in IdentityCommand
    BY <2>1 DEF IdentityChallenge, IdentityCommand, Identity
  <2> QED
    BY <1>5, <2>2 DEF SignIdentityCommand
<1>6. ASSUME NEW s \in idSigs, LoseIdentityCommand(s)
      PROVE  IdentityTypeOK'
  BY <1>6 DEF LoseIdentityCommand
<1>7. ASSUME Tick PROVE IdentityTypeOK'
  BY <1>7 DEF Tick, idVars
<1> QED
  BY <1>1, <1>2, <1>3, <1>4, <1>5, <1>6, <1>7 DEF IdentityStep

-----------------------------------------------------------------------------
(* A command accepted from S leaves the others of S as they are. *)
LEMMA MarkUsedMember ==
  ASSUME NEW S, NEW s, NEW r \in MarkUsed(S, s)
  PROVE  r \in S \/ r = [s EXCEPT !.used = TRUE]
BY DEF MarkUsed

(* Nothing is signed yet: no command is spent. *)
LEMMA IdentitySpentInit == IdentityInit => IdentitySpent
BY DEF IdentityInit, IdentitySpent

(***************************************************************************)
(* An accepted command of identity id moves the nonce of id by one, leaves *)
(* every other identity alone, and marks the command: this keeps the       *)
(* relation between the nonces of the commands and of the identities.      *)
(***************************************************************************)
LEMMA ConsumeSpends ==
  ASSUME IdentityTypeOK, IdentitySpent, NEW s \in idSigs,
         s.nonce = identities[s.identityId].nonce,
         idSigs' = MarkUsed(idSigs, s),
         \A id \in IdentityId :
           /\ identities'[id].exists = identities[id].exists
           /\ identities'[id].nonce =
                IF id = s.identityId THEN identities[id].nonce + 1 ELSE identities[id].nonce
  PROVE  IdentitySpent'
<1> SUFFICES ASSUME NEW r \in idSigs'
             PROVE  /\ identities'[r.identityId].exists
                    /\ r.nonce <= identities'[r.identityId].nonce
                    /\ r.used => r.nonce < identities'[r.identityId].nonce
  BY DEF IdentitySpent
<1>1. /\ s \in IdentityCommand
      /\ s.identityId \in IdentityId /\ s.nonce \in Nat
      /\ identities[s.identityId].exists
  BY DEF IdentityTypeOK, IdentityCommand, IdentitySpent
<1>2. \A id \in IdentityId : identities[id].nonce \in Nat
  BY DEF IdentityTypeOK, Identity
<1>3. CASE r \in idSigs
  <2>1. /\ r.identityId \in IdentityId /\ r.nonce \in Nat
        /\ identities[r.identityId].exists
        /\ r.nonce <= identities[r.identityId].nonce
        /\ r.used => r.nonce < identities[r.identityId].nonce
    BY <1>3 DEF IdentityTypeOK, IdentityCommand, IdentitySpent
  <2> QED
    BY <1>2, <2>1
<1>4. CASE r = [s EXCEPT !.used = TRUE]
  <2>1. r.identityId = s.identityId /\ r.nonce = s.nonce
    BY <1>1, <1>4 DEF IdentityCommand
  <2> QED
    BY <1>1, <1>2, <2>1
<1> QED
  BY <1>3, <1>4, MarkUsedMember

(* No step brings back a spent command or signs one ahead of the nonce. *)
LEMMA IdentitySpentStep ==
  ASSUME IdentityTypeOK, IdentitySpent, IdentityStep \/ Tick
  PROVE  IdentitySpent'
<1>0. \A id \in IdentityId : identities[id] \in Identity
  BY DEF IdentityTypeOK
<1>1. ASSUME NEW caller \in Address, NEW id \in IdentityId, createIdentity(caller, id)
      PROVE  IdentitySpent'
  <2>1. \A s \in idSigs : s.identityId \in IdentityId /\ s.identityId # id
    BY <1>1 DEF createIdentity, IdentitySpent, IdentityTypeOK, IdentityCommand
  <2>2. \A s \in idSigs : identities'[s.identityId] = identities[s.identityId]
    BY <1>1, <2>1 DEF createIdentity, IdentityTypeOK
  <2> QED
    BY <1>1, <2>2 DEF createIdentity, IdentitySpent
<1>2. ASSUME NEW s \in idSigs, NEW t \in TrackId, createTrack(s, t)
      PROVE  IdentitySpent'
  <2>1. s.identityId \in IdentityId /\ s.nonce = identities[s.identityId].nonce
    BY <1>2 DEF createTrack, CreateTrackAllowed, ConsumesOwnerCommand, IdentityTypeOK,
                IdentityCommand
  <2>2. \A id \in IdentityId :
          /\ identities'[id].exists = identities[id].exists
          /\ identities'[id].nonce =
               IF id = s.identityId THEN identities[id].nonce + 1 ELSE identities[id].nonce
    BY <1>0, <1>2, <2>1 DEF createTrack, IdentityTypeOK, Identity
  <2> QED
    BY <1>2, <2>1, <2>2, ConsumeSpends DEF createTrack
<1>3. ASSUME NEW s \in idSigs, proposeOwnerRotation(s)
      PROVE  IdentitySpent'
  <2>1. s.identityId \in IdentityId /\ s.nonce = identities[s.identityId].nonce
    BY <1>3 DEF proposeOwnerRotation, ProposeAllowed, ConsumesOwnerCommand, IdentityTypeOK,
                IdentityCommand
  <2>2. \A id \in IdentityId :
          /\ identities'[id].exists = identities[id].exists
          /\ identities'[id].nonce =
               IF id = s.identityId THEN identities[id].nonce + 1 ELSE identities[id].nonce
    BY <1>0, <1>3, <2>1 DEF proposeOwnerRotation, IdentityTypeOK, Identity
  <2> QED
    BY <1>3, <2>1, <2>2, ConsumeSpends DEF proposeOwnerRotation
<1>4. ASSUME NEW s \in idSigs, confirmOwnerRotation(s)
      PROVE  IdentitySpent'
  <2>1. s.identityId \in IdentityId /\ s.nonce = identities[s.identityId].nonce
    BY <1>4 DEF confirmOwnerRotation, ConfirmAllowed, ConsumesOwnerCommand, IdentityTypeOK,
                IdentityCommand
  <2>2. \A id \in IdentityId :
          /\ identities'[id].exists = identities[id].exists
          /\ identities'[id].nonce =
               IF id = s.identityId THEN identities[id].nonce + 1 ELSE identities[id].nonce
    BY <1>0, <1>4, <2>1 DEF confirmOwnerRotation, IdentityTypeOK, Identity
  <2> QED
    BY <1>4, <2>1, <2>2, ConsumeSpends DEF confirmOwnerRotation
<1>5. ASSUME NEW id \in IdentityId, NEW op \in IdentityOp,
             NEW o \in Address \cup {NoAddr}, NEW p \in Address,
             SignIdentityCommand(id, op, o, p)
      PROVE  IdentitySpent'
  <2>1. /\ IdentityChallenge(id, op, o, p).identityId = id
        /\ IdentityChallenge(id, op, o, p).nonce = identities[id].nonce
        /\ IdentityChallenge(id, op, o, p).used = FALSE
    BY DEF IdentityChallenge
  <2>2. identities[id].exists /\ identities[id].nonce \in Nat
    BY <1>0, <1>5 DEF SignIdentityCommand, Identity
  <2> QED
    BY <1>5, <2>1, <2>2 DEF SignIdentityCommand, IdentitySpent
<1>6. ASSUME NEW s \in idSigs, LoseIdentityCommand(s)
      PROVE  IdentitySpent'
  BY <1>6 DEF LoseIdentityCommand, IdentitySpent
<1>7. ASSUME Tick PROVE IdentitySpent'
  BY <1>7 DEF Tick, idVars, IdentitySpent
<1> QED
  BY <1>1, <1>2, <1>3, <1>4, <1>5, <1>6, <1>7 DEF IdentityStep

(* What is spent is not acceptable: the nonce check alone rejects it. *)
LEMMA SpentNotAcceptable ==
  ASSUME IdentityTypeOK, IdentitySpent
  PROVE  IdentityNoReplay
<1> SUFFICES ASSUME NEW s \in idSigs, s.used, IdentityAcceptable(s)
             PROVE  FALSE
  BY DEF IdentityNoReplay
<1>1. s.nonce = identities[s.identityId].nonce
  BY DEF IdentityAcceptable, CreateTrackAllowed, ProposeAllowed, ConfirmAllowed,
         ConsumesOwnerCommand
<1>2. s.nonce < identities[s.identityId].nonce /\ s.nonce \in Nat
  BY DEF IdentitySpent, IdentityTypeOK, IdentityCommand
<1> QED
  BY <1>1, <1>2

-----------------------------------------------------------------------------
(* No identity exists yet: no rotation is pending. *)
LEMMA RotationInit == IdentityInit => RotationConsistent
BY IdentityAssumption DEF IdentityInit, RotationConsistent, NoIdentity

(* An accepted command touches the record of its own identity only. *)
LEMMA OthersUntouched ==
  ASSUME IdentityTypeOK, NEW s \in idSigs, NEW id \in IdentityId, id # s.identityId,
         (\E t \in TrackId : createTrack(s, t)) \/ proposeOwnerRotation(s)
            \/ confirmOwnerRotation(s)
  PROVE  identities'[id] = identities[id]
BY DEF IdentityTypeOK, createTrack, proposeOwnerRotation, confirmOwnerRotation

(* What createTrack writes into the record of the command's identity. *)
LEMMA CreateTrackWrites ==
  ASSUME IdentityTypeOK, NEW s \in idSigs, NEW t \in TrackId, createTrack(s, t)
  PROVE  LET i == identities[s.identityId]  j == identities'[s.identityId] IN
           /\ i \in Identity /\ i.exists /\ s.nonce = i.nonce
           /\ j.exists = i.exists /\ j.owner = i.owner /\ j.pendingOwner = i.pendingOwner
           /\ j.ownerEpoch = i.ownerEpoch /\ j.nonce = i.nonce + 1
<1>1. s.identityId \in IdentityId
  BY DEF IdentityTypeOK, IdentityCommand
<1>2. identities[s.identityId] \in Identity
  BY <1>1 DEF IdentityTypeOK
<1> QED
  BY <1>1, <1>2 DEF IdentityTypeOK, Identity, createTrack, CreateTrackAllowed,
                    ConsumesOwnerCommand

(* What proposeOwnerRotation writes into the record of the command's identity. *)
LEMMA ProposeWrites ==
  ASSUME IdentityTypeOK, NEW s \in idSigs, proposeOwnerRotation(s)
  PROVE  LET i == identities[s.identityId]  j == identities'[s.identityId] IN
           /\ i \in Identity /\ i.exists /\ s.nonce = i.nonce
           /\ s.newOwner # i.owner
           /\ j.exists = i.exists /\ j.owner = i.owner /\ j.pendingOwner = s.newOwner
           /\ j.ownerEpoch = i.ownerEpoch /\ j.nonce = i.nonce + 1
<1>1. s.identityId \in IdentityId
  BY DEF IdentityTypeOK, IdentityCommand
<1>2. identities[s.identityId] \in Identity
  BY <1>1 DEF IdentityTypeOK
<1> QED
  BY <1>1, <1>2 DEF IdentityTypeOK, Identity, proposeOwnerRotation, ProposeAllowed,
                    ConsumesOwnerCommand

(* What confirmOwnerRotation demands of and writes into the record. *)
LEMMA ConfirmWrites ==
  ASSUME IdentityTypeOK, NEW s \in idSigs, confirmOwnerRotation(s)
  PROVE  LET i == identities[s.identityId]  j == identities'[s.identityId] IN
           /\ i \in Identity /\ i.exists /\ s.nonce = i.nonce
           /\ s.ownerEpoch = i.ownerEpoch /\ s.signer = i.pendingOwner
           /\ i.pendingOwner # NoAddr /\ s.newOwner = i.pendingOwner
           /\ j.exists = i.exists /\ j.owner = s.newOwner /\ j.pendingOwner = NoAddr
           /\ j.ownerEpoch = i.ownerEpoch + 1 /\ j.nonce = i.nonce + 1
<1>1. s.identityId \in IdentityId
  BY DEF IdentityTypeOK, IdentityCommand
<1>2. identities[s.identityId] \in Identity
  BY <1>1 DEF IdentityTypeOK
<1> QED
  BY <1>1, <1>2 DEF IdentityTypeOK, Identity, confirmOwnerRotation, ConfirmAllowed,
                    ConsumesOwnerCommand

(* A rotation stays consistent whatever happens between its two halves. *)
LEMMA RotationStep ==
  ASSUME IdentityTypeOK, RotationConsistent, IdentityStep \/ Tick
  PROVE  RotationConsistent'
<1> DEFINE Good(i) == /\ i.exists <=> i.owner # NoAddr
                      /\ 2 * i.ownerEpoch <= i.nonce
                      /\ i.pendingOwner # NoAddr =>
                           i.exists /\ i.pendingOwner # i.owner /\ 2 * i.ownerEpoch < i.nonce
<1>0. /\ \A id \in IdentityId : identities[id] \in Identity /\ Good(identities[id])
      /\ \A s \in idSigs : s.identityId \in IdentityId
  BY DEF IdentityTypeOK, IdentityCommand, RotationConsistent
<1> SUFFICES ASSUME NEW id \in IdentityId PROVE Good(identities'[id])
  BY DEF RotationConsistent
<1>1. ASSUME NEW caller \in Address, NEW n \in IdentityId, createIdentity(caller, n)
      PROVE  Good(identities'[id])
  <2>1. CASE id = n
    BY <1>1, <2>1, IdentityAssumption DEF createIdentity, IdentityTypeOK
  <2>2. CASE id # n
    BY <1>0, <1>1, <2>2 DEF createIdentity, IdentityTypeOK
  <2> QED
    BY <2>1, <2>2
<1>2. ASSUME NEW s \in idSigs, NEW t \in TrackId, createTrack(s, t)
      PROVE  Good(identities'[id])
  <2>1. CASE id = s.identityId
    BY <1>0, <1>2, <2>1, CreateTrackWrites DEF Identity
  <2>2. CASE id # s.identityId
    BY <1>0, <1>2, <2>2, OthersUntouched
  <2> QED
    BY <2>1, <2>2
<1>3. ASSUME NEW s \in idSigs, proposeOwnerRotation(s)
      PROVE  Good(identities'[id])
  <2>1. CASE id = s.identityId
    BY <1>0, <1>3, <2>1, ProposeWrites DEF Identity
  <2>2. CASE id # s.identityId
    BY <1>0, <1>3, <2>2, OthersUntouched
  <2> QED
    BY <2>1, <2>2
<1>4. ASSUME NEW s \in idSigs, confirmOwnerRotation(s)
      PROVE  Good(identities'[id])
  <2>1. CASE id = s.identityId
    BY <1>0, <1>4, <2>1, ConfirmWrites DEF Identity
  <2>2. CASE id # s.identityId
    BY <1>0, <1>4, <2>2, OthersUntouched
  <2> QED
    BY <2>1, <2>2
<1>5. CASE UNCHANGED identities
  BY <1>0, <1>5
<1>6. ASSUME Tick \/ (\E s \in idSigs : LoseIdentityCommand(s))
               \/ (\E n \in IdentityId, op \in IdentityOp, o \in Address \cup {NoAddr},
                      p \in Address : SignIdentityCommand(n, op, o, p))
      PROVE  UNCHANGED identities
  BY <1>6 DEF Tick, idVars, LoseIdentityCommand, SignIdentityCommand
<1> QED
  BY <1>1, <1>2, <1>3, <1>4, <1>5, <1>6 DEF IdentityStep

(* A step that changes an existing identity is an accepted command of it. *)
LEMMA ChangedByCommand ==
  ASSUME IdentityTypeOK, IdentityStep \/ Tick, NEW id \in IdentityId,
         identities[id].exists, identities'[id] # identities[id]
  PROVE  \E s \in idSigs :
           /\ s.identityId = id
           /\ (\E t \in TrackId : createTrack(s, t)) \/ proposeOwnerRotation(s)
                \/ confirmOwnerRotation(s)
<1>1. ASSUME NEW caller \in Address, NEW n \in IdentityId, createIdentity(caller, n)
      PROVE  FALSE
  <2>1. id # n
    BY <1>1 DEF createIdentity
  <2> QED
    BY <1>1, <2>1 DEF createIdentity, IdentityTypeOK
<1>2. ASSUME Tick \/ (\E s \in idSigs : LoseIdentityCommand(s))
               \/ (\E n \in IdentityId, op \in IdentityOp, o \in Address \cup {NoAddr},
                      p \in Address : SignIdentityCommand(n, op, o, p))
      PROVE  FALSE
  BY <1>2 DEF Tick, idVars, LoseIdentityCommand, SignIdentityCommand
<1>3. PICK s \in idSigs : (\E t \in TrackId : createTrack(s, t)) \/ proposeOwnerRotation(s)
                            \/ confirmOwnerRotation(s)
  BY <1>1, <1>2 DEF IdentityStep
<1>4. s.identityId = id
  BY <1>3, OthersUntouched
<1> QED
  BY <1>3, <1>4

(* An accepted command takes every command of its nonce with it. *)
LEMMA SpendsOneNonceStep ==
  ASSUME IdentityTypeOK, IdentitySpent, IdentityStep \/ Tick
  PROVE  SpendsOneNonce
<1> SUFFICES ASSUME NEW id \in IdentityId,
                    identities[id].exists, identities'[id] # identities[id]
             PROVE  /\ identities'[id].nonce = identities[id].nonce + 1
                    /\ \A s \in idSigs \cap idSigs' :
                         s.identityId = id => ~IdentityAcceptable(s)'
  BY DEF SpendsOneNonce
<1>1. identities'[id].nonce = identities[id].nonce + 1
  <2>1. PICK s \in idSigs : /\ s.identityId = id
                            /\ (\E t \in TrackId : createTrack(s, t))
                                 \/ proposeOwnerRotation(s) \/ confirmOwnerRotation(s)
    BY ChangedByCommand
  <2> QED
    BY <2>1, CreateTrackWrites, ProposeWrites, ConfirmWrites
<1>2. ASSUME NEW s \in idSigs \cap idSigs', s.identityId = id, IdentityAcceptable(s)'
      PROVE  FALSE
  <2>1. s.nonce = identities'[id].nonce
    BY <1>2 DEF IdentityAcceptable, CreateTrackAllowed, ProposeAllowed, ConfirmAllowed,
                ConsumesOwnerCommand
  <2>2. s.nonce <= identities[id].nonce
    BY <1>2 DEF IdentitySpent
  <2>3. identities[id].nonce \in Nat
    BY DEF IdentityTypeOK, Identity
  <2> QED
    BY <1>1, <2>1, <2>2, <2>3
<1> QED
  BY <1>1, <1>2

(* Only a confirmation changes the owner, and it carries the pending owner's signature. *)
LEMMA ConsentedStep ==
  ASSUME IdentityTypeOK, IdentityStep \/ Tick
  PROVE  Consented
<1> SUFFICES ASSUME NEW id \in IdentityId, identities[id].exists,
                    identities'[id].owner # identities[id].owner
             PROVE  /\ identities'[id].owner = identities[id].pendingOwner
                    /\ identities'[id].ownerEpoch = identities[id].ownerEpoch + 1
                    /\ \E s \in idSigs : /\ s.identityId = id
                                         /\ s.op = "ConfirmOwnerRotation"
                                         /\ s.signer = identities'[id].owner
                                         /\ s.ownerEpoch = identities[id].ownerEpoch
  BY DEF Consented
<1>1. PICK s \in idSigs : /\ s.identityId = id
                          /\ (\E t \in TrackId : createTrack(s, t))
                               \/ proposeOwnerRotation(s) \/ confirmOwnerRotation(s)
  BY ChangedByCommand
<1>2. confirmOwnerRotation(s)
  BY <1>1, CreateTrackWrites, ProposeWrites
<1>3. s.op = "ConfirmOwnerRotation"
  BY <1>2 DEF confirmOwnerRotation, ConfirmAllowed
<1> QED
  BY <1>1, <1>2, <1>3, ConfirmWrites

(***************************************************************************)
(* What the other registries rely on when they read this one live: time    *)
(* does not run back, a track keeps its identity, an identity stays, its   *)
(* owner epoch never falls, and a new track is one of an identity there.   *)
(***************************************************************************)
LEMMA IdentityKeeps ==
  ASSUME IdentityTypeOK, IdentityStep \/ Tick
  PROVE  /\ now <= now'
         /\ \A t \in TrackId : tracks[t].exists => tracks'[t] = tracks[t]
         /\ \A id \in IdentityId : identities[id].exists =>
              identities'[id].exists /\ identities[id].ownerEpoch <= identities'[id].ownerEpoch
         /\ \A t \in TrackId : tracks'[t].exists => \/ tracks[t].exists
                                                    \/ identities'[tracks'[t].identityId].exists
<1>0. now \in Nat /\ \A id \in IdentityId : identities[id].ownerEpoch \in Nat
  BY DEF IdentityTypeOK, Identity
<1>1. now <= now'
  <2>1. now' = now \/ now' = now + 1
    BY DEF IdentityStep, createIdentity, createTrack, proposeOwnerRotation,
           confirmOwnerRotation, SignIdentityCommand, LoseIdentityCommand, Tick
  <2> QED
    BY <1>0, <2>1
<1>2. ASSUME NEW id \in IdentityId, identities[id].exists
      PROVE  identities'[id].exists /\ identities[id].ownerEpoch <= identities'[id].ownerEpoch
  <2>1. CASE identities'[id] = identities[id]
    BY <1>0, <1>2, <2>1
  <2>2. CASE identities'[id] # identities[id]
    <3>1. PICK s \in idSigs : /\ s.identityId = id
                              /\ (\E t \in TrackId : createTrack(s, t))
                                   \/ proposeOwnerRotation(s) \/ confirmOwnerRotation(s)
      BY <1>2, <2>2, ChangedByCommand
    <3> QED
      BY <1>0, <1>2, <3>1, CreateTrackWrites, ProposeWrites, ConfirmWrites
  <2> QED
    BY <2>1, <2>2
<1>3. ASSUME NEW s \in idSigs, NEW u \in TrackId, createTrack(s, u), NEW t \in TrackId
      PROVE  /\ tracks[t].exists => tracks'[t] = tracks[t]
             /\ tracks'[t].exists => \/ tracks[t].exists
                                     \/ identities'[tracks'[t].identityId].exists
  <2>1. identities'[s.identityId].exists
    BY <1>3, CreateTrackWrites
  <2>2. ~tracks[u].exists /\ tracks' = [tracks EXCEPT ![u] =
                                          [identityId |-> s.identityId, exists |-> TRUE]]
    BY <1>3 DEF createTrack
  <2> QED
    BY <2>1, <2>2 DEF IdentityTypeOK
<1>4. (\E s \in idSigs, u \in TrackId : createTrack(s, u)) \/ UNCHANGED tracks
  BY DEF IdentityStep, createIdentity, proposeOwnerRotation, confirmOwnerRotation,
         SignIdentityCommand, LoseIdentityCommand, Tick, idVars
<1> QED
  BY <1>1, <1>2, <1>3, <1>4
=============================================================================
