------------------------- MODULE AccountRegistryProofs -------------------------
(***************************************************************************)
(* Two registries that stand beside each other over the live identities:   *)
(* the names and bios of ProfileRegistry, and the account bindings and     *)
(* membership epochs of AccountRegistry, each for any number of addresses, *)
(* identities, tracks, accounts, texts and commands.                       *)
(***************************************************************************)
EXTENDS AccountRegistry, ProfileRegistry, IdentityRegistryProofs, FiniteSetTheorems

(***************************************************************************)
(* ProfileRegistry: the inductive invariant ProfileInv and what follows.   *)
(***************************************************************************)
(* IdentityStep and Tick leave the profiles alone; every other step the identities. *)
LEMMA ProfileStepFrame ==
  ASSUME ProfileStep
  PROVE  UNCHANGED <<now, identities, tracks, idSigs>>
BY DEF ProfileStep, setProfile, SignProfile, LoseProfileCommand, idVars

(* The initial state has the types and no spent command. *)
LEMMA ProfileInvInit == ProfileInit => ProfileInv
<1> SUFFICES ASSUME ProfileInit PROVE ProfileInv
  OBVIOUS
<1>1. IdentityInit /\ ProfilesEmpty
  BY DEF ProfileInit
<1>2. IdentityTypeOK /\ IdentitySpent /\ RotationConsistent
  BY <1>1, IdentityTypeInit, IdentitySpentInit, RotationInit
<1>3. /\ profiles \in [IdentityId -> Profile]
      /\ nonces \in [IdentityId -> Nat]
      /\ profileSigs \subseteq SetProfileCommand
      /\ ProfileSpent
  BY <1>1 DEF ProfilesEmpty, Profile, ProfileSpent
<1> QED
  BY <1>2, <1>3 DEF ProfileInv, ProfileTypeOK

(* No step of either registry leaves the types. *)
LEMMA ProfileTypeStep ==
  ASSUME ProfileTypeOK, ProfileNext
  PROVE  ProfileTypeOK'
<1>1. CASE IdentityStep /\ UNCHANGED profileVars
  BY <1>1, IdentityTypeStep DEF ProfileTypeOK, profileVars
<1>2. CASE Tick /\ UNCHANGED profileVars
  BY <1>2, IdentityTypeStep DEF ProfileTypeOK, profileVars
<1>3. CASE ProfileStep
  <2>1. IdentityTypeOK'
    BY <1>3, ProfileStepFrame DEF ProfileTypeOK, IdentityTypeOK
  <2>2. ASSUME NEW s \in profileSigs, setProfile(s)
        PROVE  ProfileTypeOK'
    <3>1. s \in SetProfileCommand
      BY DEF ProfileTypeOK
    <3>2. s.identityId \in IdentityId /\ s.text \in Text /\ s.nonce \in Nat
      BY <3>1 DEF SetProfileCommand
    <3>3. now \in Nat
      BY DEF ProfileTypeOK, IdentityTypeOK
    <3>4. profiles' \in [IdentityId -> Profile]
      BY <2>2, <3>2, <3>3 DEF setProfile, ProfileTypeOK, Profile
    <3>5. nonces' \in [IdentityId -> Nat]
      BY <2>2, <3>2 DEF setProfile, ProfileTypeOK
    <3>6. profileSigs' \subseteq SetProfileCommand
      BY <2>2, <3>1 DEF setProfile, MarkUsed, ProfileTypeOK, SetProfileCommand
    <3> QED
      BY <2>1, <3>4, <3>5, <3>6 DEF ProfileTypeOK
  <2>3. ASSUME NEW id \in IdentityId, NEW x \in Text, NEW p \in Address, SignProfile(id, x, p)
        PROVE  ProfileTypeOK'
    <3>1. now + Window \in Nat /\ nonces[id] \in Nat
      BY IdentityAssumption DEF ProfileTypeOK, IdentityTypeOK
    <3>2. [identityId |-> id, text |-> x, nonce |-> nonces[id], deadline |-> now + Window,
           signer |-> p, used |-> FALSE] \in SetProfileCommand
      BY <3>1 DEF SetProfileCommand
    <3> QED
      BY <2>1, <2>3, <3>2 DEF SignProfile, ProfileTypeOK
  <2>4. ASSUME NEW s \in profileSigs, LoseProfileCommand(s)
        PROVE  ProfileTypeOK'
    BY <2>1, <2>4 DEF LoseProfileCommand, ProfileTypeOK
  <2> QED
    BY <1>3, <2>2, <2>3, <2>4 DEF ProfileStep
<1> QED
  BY <1>1, <1>2, <1>3 DEF ProfileNext

(* No step revives a spent profile command or signs one ahead of the nonce. *)
LEMMA ProfileSpentStep ==
  ASSUME ProfileTypeOK, ProfileSpent, ProfileNext
  PROVE  ProfileSpent'
<1>0. /\ \A s \in profileSigs : s.identityId \in IdentityId /\ s.nonce \in Nat
      /\ \A id \in IdentityId : nonces[id] \in Nat
  BY DEF ProfileTypeOK, SetProfileCommand
<1>1. CASE UNCHANGED profileVars
  BY <1>1 DEF profileVars, ProfileSpent
<1>2. ASSUME NEW s \in profileSigs, setProfile(s)
      PROVE  ProfileSpent'
  <2>1. /\ s.nonce = nonces[s.identityId]
        /\ s \in SetProfileCommand
        /\ profileSigs' = MarkUsed(profileSigs, s)
    BY <1>2 DEF setProfile, SetProfileAllowed, ProfileTypeOK
  <2>2. \A id \in IdentityId :
          nonces'[id] = IF id = s.identityId THEN s.nonce + 1 ELSE nonces[id]
    BY <1>2 DEF setProfile, ProfileTypeOK
  <2> SUFFICES ASSUME NEW r \in profileSigs'
               PROVE  /\ r.nonce <= nonces'[r.identityId]
                      /\ r.used => r.nonce < nonces'[r.identityId]
    BY DEF ProfileSpent
  <2>3. CASE r \in profileSigs
    BY <1>0, <2>1, <2>2, <2>3 DEF ProfileSpent
  <2>4. CASE r = [s EXCEPT !.used = TRUE]
    <3>1. r.identityId = s.identityId /\ r.nonce = s.nonce
      BY <2>1, <2>4 DEF SetProfileCommand
    <3> QED
      BY <1>0, <2>2, <3>1
  <2> QED
    BY <2>1, <2>3, <2>4, MarkUsedMember
<1>3. ASSUME NEW id \in IdentityId, NEW x \in Text, NEW p \in Address, SignProfile(id, x, p)
      PROVE  ProfileSpent'
  BY <1>0, <1>3 DEF SignProfile, ProfileSpent
<1>4. ASSUME NEW s \in profileSigs, LoseProfileCommand(s)
      PROVE  ProfileSpent'
  BY <1>4 DEF LoseProfileCommand, ProfileSpent
<1> QED
  BY <1>1, <1>2, <1>3, <1>4 DEF ProfileNext, ProfileStep

-----------------------------------------------------------------------------
(* Every step keeps the inductive invariant. *)
LEMMA ProfileInvStep == ProfileInv /\ [ProfileNext]_profileRegistryVars => ProfileInv'
<1> SUFFICES ASSUME ProfileInv, [ProfileNext]_profileRegistryVars PROVE ProfileInv'
  OBVIOUS
<1>1. ProfileTypeOK /\ IdentityTypeOK /\ IdentitySpent /\ RotationConsistent /\ ProfileSpent
  BY DEF ProfileInv, ProfileTypeOK
<1>2. CASE ProfileNext
  <2>1. ProfileTypeOK' /\ ProfileSpent'
    BY <1>1, <1>2, ProfileTypeStep, ProfileSpentStep
  <2>2. CASE IdentityStep \/ Tick
    BY <1>1, <2>1, <2>2, IdentitySpentStep, RotationStep DEF ProfileInv
  <2>3. CASE ProfileStep
    BY <1>1, <2>1, <2>3, ProfileStepFrame DEF ProfileInv, IdentitySpent, RotationConsistent
  <2> QED
    BY <1>2, <2>2, <2>3 DEF ProfileNext
<1>3. CASE UNCHANGED profileRegistryVars
  BY <1>1, <1>3 DEF profileRegistryVars, idVars, profileVars, ProfileInv, ProfileTypeOK, IdentityTypeOK, IdentitySpent,
                    RotationConsistent, ProfileSpent
<1> QED
  BY <1>2, <1>3

(* The two registries stay within the inductive invariant for ever. *)
THEOREM ProfileInvariance == ProfileSpec => []ProfileInv
BY ProfileInvInit, ProfileInvStep, PTL DEF ProfileSpec

(* The state of IdentityRegistry and ProfileRegistry is always well typed. *)
THEOREM ProfileTypeCorrect == ProfileSpec => []ProfileTypeOK
<1>1. ProfileInv => ProfileTypeOK
  BY DEF ProfileInv
<1> QED
  BY <1>1, ProfileInvariance, PTL

(* No command IdentityRegistry has accepted can be accepted a second time. *)
THEOREM IdentityReplaySafe == ProfileSpec => []IdentityNoReplay
<1>1. ProfileInv => IdentityNoReplay
  BY SpentNotAcceptable DEF ProfileInv, ProfileTypeOK
<1> QED
  BY <1>1, ProfileInvariance, PTL

(* A pending rotation always names somebody else and belongs to the running epoch. *)
THEOREM PendingSafe == ProfileSpec => []RotationConsistent
<1>1. ProfileInv => RotationConsistent
  BY DEF ProfileInv
<1> QED
  BY <1>1, ProfileInvariance, PTL

(* No profile command setProfile has accepted can be accepted a second time. *)
THEOREM ProfileReplaySafe == ProfileSpec => []ProfileNoReplay
<1>1. ASSUME ProfileInv PROVE ProfileNoReplay
  <2> SUFFICES ASSUME NEW s \in profileSigs, s.used, SetProfileAllowed(s)
               PROVE  FALSE
    BY DEF ProfileNoReplay
  <2>1. s.nonce = nonces[s.identityId] /\ s.nonce \in Nat
    BY <1>1 DEF SetProfileAllowed, ProfileInv, ProfileTypeOK, SetProfileCommand
  <2>2. s.nonce < nonces[s.identityId]
    BY <1>1 DEF ProfileInv, ProfileSpent
  <2> QED
    BY <2>1, <2>2
<1> QED
  BY <1>1, ProfileInvariance, PTL

(* At most one of the commands signed against one nonce of an identity takes effect. *)
THEOREM OneCommandSafe == ProfileSpec => OneCommandPerNonce
<1>1. ASSUME ProfileInv, [ProfileNext]_profileRegistryVars PROVE [SpendsOneNonce]_<<now, idVars>>
  <2>1. CASE IdentityStep \/ Tick
    BY <1>1, <2>1, SpendsOneNonceStep DEF ProfileInv, ProfileTypeOK
  <2>2. CASE ProfileStep \/ UNCHANGED profileRegistryVars
    BY <2>2, ProfileStepFrame DEF profileRegistryVars, idVars
  <2> QED
    BY <1>1, <2>1, <2>2 DEF ProfileNext
<1> QED
  BY <1>1, ProfileInvariance, PTL DEF ProfileSpec, OneCommandPerNonce

(* An identity changes hands only to the proposed address and on its signature. *)
THEOREM OwnershipSafe == ProfileSpec => OwnerChangesByConsent
<1>1. ASSUME ProfileInv, [ProfileNext]_profileRegistryVars PROVE [Consented]_<<now, idVars>>
  <2>1. CASE IdentityStep \/ Tick
    BY <1>1, <2>1, ConsentedStep DEF ProfileInv, ProfileTypeOK
  <2>2. CASE ProfileStep \/ UNCHANGED profileRegistryVars
    BY <2>2, ProfileStepFrame DEF profileRegistryVars, idVars
  <2> QED
    BY <1>1, <2>1, <2>2 DEF ProfileNext
<1> QED
  BY <1>1, ProfileInvariance, PTL DEF ProfileSpec, OwnerChangesByConsent

(* A profile text is written only by an unused command of the owner of the moment. *)
THEOREM ProfileSafe == ProfileSpec => ProfileOnlyByOwner
<1>1. ASSUME ProfileInv, ProfileNext PROVE WrittenByOwner
  <2> SUFFICES ASSUME NEW id \in IdentityId, profiles'[id] # profiles[id]
               PROVE  /\ identities'[id] = identities[id]
                      /\ nonces'[id] = nonces[id] + 1
                      /\ \E s \in profileSigs : /\ s.identityId = id /\ ~s.used
                                                /\ s.text = profiles'[id].text
                                                /\ s.signer = identities[id].owner
    BY DEF WrittenByOwner
  <2>1. PICK s \in profileSigs : setProfile(s)
    BY <1>1 DEF ProfileNext, profileVars, ProfileStep, SignProfile, LoseProfileCommand
  <2>2. /\ s.identityId \in IdentityId
        /\ profiles \in [IdentityId -> Profile]
        /\ nonces \in [IdentityId -> Nat]
    BY <1>1 DEF ProfileInv, ProfileTypeOK, SetProfileCommand
  <2>3. s.identityId = id
    BY <2>1, <2>2 DEF setProfile
  <2>4. profiles'[id].text = s.text /\ nonces'[id] = s.nonce + 1
    BY <2>1, <2>2, <2>3 DEF setProfile
  <2>5. s.nonce = nonces[id] /\ s.signer = identities[id].owner
    BY <2>1, <2>3 DEF setProfile, SetProfileAllowed
  <2>6. ~s.used
    BY <1>1, <2>2, <2>3, <2>5 DEF ProfileInv, ProfileSpent
  <2>7. identities' = identities
    BY <2>1 DEF setProfile, idVars
  <2> QED
    BY <2>3, <2>4, <2>5, <2>6, <2>7
<1> QED
  BY <1>1, ProfileInvariance, PTL DEF ProfileSpec, ProfileOnlyByOwner

(***************************************************************************)
(* AccountRegistry: the inductive invariant IInv and what follows.         *)
(***************************************************************************)

(* The fields of a command in a relayer's hands. *)
LEMMA AccountCommandFields ==
  ASSUME TypeOK, NEW s \in acSigs
  PROVE  /\ s \in AccountCommand
         /\ s.op \in AccountOp /\ s.subject \in TrackId \cup AccountId
         /\ s.commitment \in Commitment /\ s.eligibleFrom \in Nat
         /\ s.ownerEpoch \in Nat /\ s.nonce \in Nat
BY DEF TypeOK, AccountCommand

(* Marking a command changes nothing but its mark. *)
LEMMA MarkedAccountCommand ==
  ASSUME TypeOK, NEW s \in acSigs
  PROVE  LET m == [s EXCEPT !.used = TRUE] IN
           /\ m \in AccountCommand
           /\ m.op = s.op /\ m.subject = s.subject /\ m.nonce = s.nonce
           /\ m.ownerEpoch = s.ownerEpoch
BY DEF TypeOK, AccountCommand

(* The steps of this contract leave IdentityRegistry alone. *)
LEMMA AccountStepFrame ==
  ASSUME AccountStep
  PROVE  UNCHANGED <<now, identities, tracks, idSigs>>
BY DEF AccountStep, registerAccount, activateAccount, removeAccount, rotateBindingCredential,
       buildRegisterAccountChallenge, buildActivateAccountChallenge,
       buildRemoveAccountChallenge, SignRotateBindingCredential, SignAccountCommand,
       LoseAccountCommand, idVars

(* What an accepted command names, and the track whose nonce it spends. *)
LEMMA AcceptedNames ==
  ASSUME TypeOK, NEW s \in acSigs, AccountSpent, AccountAcceptable(s)
  PROVE  /\ CommandTrack(s) \in TrackId
         /\ ConsumesCommand(s, CommandTrack(s))
         /\ s.op = "RegisterAccount" => s.subject \in TrackId
         /\ s.op # "RegisterAccount" => s.subject \in AccountId /\ accounts[s.subject].exists
<1>1. /\ s.op = "RegisterAccount" => s.subject \in TrackId
      /\ s.op # "RegisterAccount" => s.subject \in AccountId /\ accounts[s.subject].exists
  BY DEF AccountSpent
<1>2. \A x \in AccountId : accounts[x].trackId \in TrackId
  BY DEF TypeOK, AccountBinding
<1> QED
  BY <1>1, <1>2 DEF AccountAcceptable, RegisterAllowed, ActivateAllowed, RemoveAllowed,
                    RotateAllowed, CommandTrack

-----------------------------------------------------------------------------
(***************************************************************************)
(* removeAccount's copy loop: of an array that lists x once it makes the   *)
(* array of the others, each listed once.                                  *)
(***************************************************************************)
LEMMA WithoutDrops ==
  ASSUME NEW S, NEW ids \in Seq(S), NEW x, \E p \in 1..Len(ids) : ids[p] = x,
         \A j, k \in 1..Len(ids) : ids[j] = ids[k] => j = k
  PROVE  LET out == Without(ids, x) IN
         /\ out \in Seq(S) /\ Len(out) = Len(ids) - 1
         /\ \A k \in 1..Len(out) : out[k] # x /\ \E j \in 1..Len(ids) : ids[j] = out[k]
         /\ \A j \in 1..Len(ids) : ids[j] # x => \E k \in 1..Len(out) : out[k] = ids[j]
         /\ \A j, k \in 1..Len(out) : out[j] = out[k] => j = k
<1> DEFINE out == Without(ids, x)
<1>0. PICK p \in 1..Len(ids) : ids[p] = x
  OBVIOUS
<1>1. Position(ids, x) = p
  BY <1>0 DEF Position
<1>2. Len(ids) \in Nat /\ Len(ids) >= 1 /\ p \in Nat /\ p <= Len(ids) /\ ids[p] = x
  BY <1>0
<1>3. out = [k \in 1..(Len(ids) - 1) |-> IF k < p THEN ids[k] ELSE ids[k + 1]]
  BY <1>1 DEF Without
<1> HIDE DEF out
<1>4. out \in Seq(S) /\ Len(out) = Len(ids) - 1
  <2>1. \A k \in 1..(Len(ids) - 1) : (IF k < p THEN ids[k] ELSE ids[k + 1]) \in S
    BY <1>2
  <2>2. out \in [1..(Len(ids) - 1) -> S] /\ Len(ids) - 1 \in Nat
    BY <1>2, <1>3, <2>1
  <2> QED
    BY <2>2
<1>5. \A k \in 1..Len(out) : out[k] # x /\ \E j \in 1..Len(ids) : ids[j] = out[k]
  BY <1>2, <1>3, <1>4
<1>6. ASSUME NEW j \in 1..Len(ids), ids[j] # x
      PROVE  \E k \in 1..Len(out) : out[k] = ids[j]
  <2>1. CASE j < p
    BY <1>2, <1>3, <1>4, <2>1
  <2>2. CASE j > p
    <3>1. j - 1 \in 1..Len(out) /\ ~(j - 1 < p) /\ (j - 1) + 1 = j
      BY <1>2, <1>4, <2>2
    <3> QED
      BY <1>3, <1>4, <3>1
  <2> QED
    BY <1>2, <1>6, <2>1, <2>2
<1>7. ASSUME NEW j \in 1..Len(out), NEW k \in 1..Len(out), out[j] = out[k]
      PROVE  j = k
  BY <1>2, <1>3, <1>4, <1>7
<1> QED
  BY <1>4, <1>5, <1>6, <1>7 DEF out

(***************************************************************************)
(* _openMembershipEpoch: one more epoch at the end of one track's list,    *)
(* with the given members, linked to the epoch before it.                  *)
(***************************************************************************)
LEMMA OpenedEpoch ==
  ASSUME TypeOK, NEW t \in TrackId, NEW ids \in Seq(AccountId), openMembershipEpoch(t, ids)
  PROVE  LET e == membershipEpochs[t]  f == membershipEpochs'[t] IN
         /\ membershipEpochs' \in [TrackId -> Seq(MembershipEpoch)]
         /\ \A u \in TrackId : u # t => membershipEpochs'[u] = membershipEpochs[u]
         /\ Len(e) \in Nat /\ Len(f) = Len(e) + 1 /\ f # <<>>
         /\ \A k \in 1..Len(e) : f[k] = e[k]
         /\ f[Len(f)].accountIds = ids
         /\ f[Len(f)].accountSetRoot = Root(ids)
         /\ f[Len(f)].effectiveFrom = now
         /\ Len(e) = 0 => f[Len(f)].previousRoot = NoRoot
         /\ Len(e) > 0 => f[Len(f)].previousRoot = e[Len(e)].accountSetRoot
<1> DEFINE e == membershipEpochs[t]
           new == [accountIds |-> ids, accountSetRoot |-> Root(ids),
                   previousRoot |-> IF e = <<>> THEN NoRoot ELSE e[Len(e)].accountSetRoot,
                   effectiveFrom |-> now]
<1>1. e \in Seq(MembershipEpoch) /\ Len(e) \in Nat /\ now \in Nat
  BY DEF TypeOK, IdentityTypeOK
<1>2. Len(e) > 0 => e[Len(e)] \in MembershipEpoch
  BY <1>1
<1>3. e = <<>> <=> Len(e) = 0
  BY <1>1
<1>4. Root(ids) \in [keccak256 : Seq(AccountId)]
  BY DEF Root
<1>5. new.previousRoot \in {NoRoot} \cup [keccak256 : Seq(AccountId)]
  BY <1>1, <1>2, <1>3 DEF MembershipEpoch
<1>6. new \in MembershipEpoch
  BY <1>1, <1>4, <1>5 DEF MembershipEpoch
<1>7. membershipEpochs' = [membershipEpochs EXCEPT ![t] = Append(e, new)]
  BY DEF openMembershipEpoch, TypeOK
<1>8. /\ new.accountIds = ids /\ new.accountSetRoot = Root(ids) /\ new.effectiveFrom = now
      /\ Len(e) = 0 => new.previousRoot = NoRoot
      /\ Len(e) > 0 => new.previousRoot = e[Len(e)].accountSetRoot
  BY <1>3
<1> HIDE DEF new
<1>9. /\ membershipEpochs'[t] = Append(e, new)
      /\ \A u \in TrackId : u # t => membershipEpochs'[u] = membershipEpochs[u]
      /\ membershipEpochs' \in [TrackId -> Seq(MembershipEpoch)]
  BY <1>1, <1>6, <1>7 DEF TypeOK
<1>10. /\ Len(Append(e, new)) = Len(e) + 1 /\ Append(e, new)[Len(e) + 1] = new
       /\ Append(e, new) # <<>>
       /\ \A k \in 1..Len(e) : Append(e, new)[k] = e[k]
  BY <1>1, <1>6
<1> QED
  BY <1>1, <1>8, <1>9, <1>10

(* The members of the newest epoch are an array of accounts. *)
LEMMA MembersType ==
  ASSUME TypeOK, NEW t \in TrackId
  PROVE  /\ currentMembers(t) \in Seq(AccountId)
         /\ membershipEpochs[t] \in Seq(MembershipEpoch) /\ Len(membershipEpochs[t]) \in Nat
         /\ membershipEpochs[t] = <<>> <=> Len(membershipEpochs[t]) = 0
         /\ \A k \in 1..Len(membershipEpochs[t]) :
              /\ membershipEpochs[t][k] \in MembershipEpoch
              /\ membershipEpochs[t][k].accountIds \in Seq(AccountId)
<1>1. membershipEpochs[t] \in Seq(MembershipEpoch)
  BY DEF TypeOK
<1>2. \A k \in 1..Len(membershipEpochs[t]) :
        /\ membershipEpochs[t][k] \in MembershipEpoch
        /\ membershipEpochs[t][k].accountIds \in Seq(AccountId)
  <2>1. \A k \in 1..Len(membershipEpochs[t]) : membershipEpochs[t][k] \in MembershipEpoch
    BY <1>1
  <2>2. \A m \in MembershipEpoch : m.accountIds \in Seq(AccountId)
    BY DEF MembershipEpoch
  <2> QED
    BY <2>1, <2>2
<1>3. Len(membershipEpochs[t]) \in Nat /\ (membershipEpochs[t] = <<>> <=> Len(membershipEpochs[t]) = 0)
  BY <1>1
<1>4. currentMembers(t) \in Seq(AccountId)
  BY <1>2, <1>3 DEF currentMembers
<1> QED
  BY <1>1, <1>2, <1>3, <1>4

-----------------------------------------------------------------------------
(* What registerAccount writes: a pending binding where there was none. *)
LEMMA RegisterWrites ==
  ASSUME TypeOK, AccountSpent, NEW s \in acSigs, NEW x \in AccountId, registerAccount(s, x)
  PROVE  LET b == accounts'[x] IN
         /\ AccountAcceptable(s) /\ s.subject \in TrackId /\ CommandTrack(s) = s.subject
         /\ ~accounts[x].exists
         /\ accounts' \in [AccountId -> AccountBinding]
         /\ \A y \in AccountId : y # x => accounts'[y] = accounts[y]
         /\ b.exists /\ b.state = "PendingBaseline" /\ b.trackId = s.subject
         /\ UNCHANGED membershipEpochs
<1>1. /\ AccountAcceptable(s) /\ s.op = "RegisterAccount" /\ ~accounts[x].exists
      /\ UNCHANGED membershipEpochs
  BY DEF registerAccount, RegisterAllowed, AccountAcceptable
<1>2. s.subject \in TrackId /\ s.commitment \in Commitment /\ now \in Nat
  BY <1>1, AcceptedNames, AccountCommandFields DEF TypeOK, IdentityTypeOK
<1>3. accounts' \in [AccountId -> AccountBinding]
  BY <1>2 DEF registerAccount, TypeOK, AccountBinding, AccountState
<1> QED
  BY <1>1, <1>2, <1>3 DEF registerAccount, TypeOK, CommandTrack

(* What activateAccount writes: the pending binding becomes active and joins the members. *)
LEMMA ActivateWrites ==
  ASSUME TypeOK, AccountSpent, NEW s \in acSigs, activateAccount(s)
  PROVE  LET x == s.subject  t == accounts[x].trackId  a == accounts[x]  b == accounts'[x] IN
         /\ AccountAcceptable(s) /\ x \in AccountId /\ t \in TrackId /\ CommandTrack(s) = t
         /\ a.exists /\ a.state = "PendingBaseline"
         /\ accounts' \in [AccountId -> AccountBinding]
         /\ \A y \in AccountId : y # x => accounts'[y] = accounts[y]
         /\ b.exists /\ b.state = "Active" /\ b.trackId = t /\ b.registeredAt = a.registeredAt
         /\ Append(currentMembers(t), x) \in Seq(AccountId)
         /\ openMembershipEpoch(t, Append(currentMembers(t), x))
<1>1. /\ AccountAcceptable(s) /\ s.op = "ActivateAccount"
      /\ accounts[s.subject].exists /\ accounts[s.subject].state = "PendingBaseline"
  BY DEF activateAccount, ActivateAllowed, AccountAcceptable
<1>2. s.subject \in AccountId /\ s.eligibleFrom \in Nat
  BY <1>1, AcceptedNames, AccountCommandFields
<1>3. accounts[s.subject] \in AccountBinding
  BY <1>2 DEF TypeOK
<1>4. accounts[s.subject].trackId \in TrackId /\ CommandTrack(s) = accounts[s.subject].trackId
  BY <1>1, <1>3 DEF AccountBinding, CommandTrack
<1>5. accounts' = [accounts EXCEPT ![s.subject].state = "Active",
                                   ![s.subject].eligibleFrom = s.eligibleFrom]
  BY DEF activateAccount
<1>6. accounts' \in [AccountId -> AccountBinding]
  BY <1>2, <1>3, <1>5 DEF TypeOK, AccountBinding, AccountState
<1>7. Append(currentMembers(accounts[s.subject].trackId), s.subject) \in Seq(AccountId)
  BY <1>2, <1>4, MembersType
<1>8. /\ \A y \in AccountId : y # s.subject => accounts'[y] = accounts[y]
      /\ accounts'[s.subject].exists = accounts[s.subject].exists
      /\ accounts'[s.subject].state = "Active"
      /\ accounts'[s.subject].trackId = accounts[s.subject].trackId
      /\ accounts'[s.subject].registeredAt = accounts[s.subject].registeredAt
  BY <1>2, <1>3, <1>5 DEF TypeOK, AccountBinding
<1> QED
  BY <1>1, <1>2, <1>4, <1>6, <1>7, <1>8 DEF activateAccount

(* What removeAccount writes into the binding. *)
LEMMA RemoveWrites ==
  ASSUME TypeOK, AccountSpent, NEW s \in acSigs, removeAccount(s)
  PROVE  LET x == s.subject  t == accounts[x].trackId  a == accounts[x]  b == accounts'[x] IN
         /\ AccountAcceptable(s) /\ x \in AccountId /\ t \in TrackId /\ CommandTrack(s) = t
         /\ a.exists /\ a.state # "Removed"
         /\ accounts' \in [AccountId -> AccountBinding]
         /\ \A y \in AccountId : y # x => accounts'[y] = accounts[y]
         /\ b.exists /\ b.state = "Removed" /\ b.trackId = t /\ b.registeredAt = a.registeredAt
         /\ IF a.state = "Active" THEN openMembershipEpoch(t, Without(currentMembers(t), x))
            ELSE UNCHANGED membershipEpochs
<1>1. /\ AccountAcceptable(s) /\ s.op = "RemoveAccount"
      /\ accounts[s.subject].exists /\ accounts[s.subject].state # "Removed"
  BY DEF removeAccount, RemoveAllowed, AccountAcceptable
<1>2. s.subject \in AccountId /\ now \in Nat
  BY <1>1, AcceptedNames DEF TypeOK, IdentityTypeOK
<1>3. accounts[s.subject] \in AccountBinding
  BY <1>2 DEF TypeOK
<1>4. accounts[s.subject].trackId \in TrackId /\ CommandTrack(s) = accounts[s.subject].trackId
  BY <1>1, <1>3 DEF AccountBinding, CommandTrack
<1>5. accounts' = [accounts EXCEPT ![s.subject].state = "Removed", ![s.subject].removedAt = now]
  BY DEF removeAccount
<1>6. accounts' \in [AccountId -> AccountBinding]
  BY <1>2, <1>3, <1>5 DEF TypeOK, AccountBinding, AccountState
<1>7. /\ \A y \in AccountId : y # s.subject => accounts'[y] = accounts[y]
      /\ accounts'[s.subject].exists = accounts[s.subject].exists
      /\ accounts'[s.subject].state = "Removed"
      /\ accounts'[s.subject].trackId = accounts[s.subject].trackId
      /\ accounts'[s.subject].registeredAt = accounts[s.subject].registeredAt
  BY <1>2, <1>3, <1>5 DEF TypeOK, AccountBinding
<1> QED
  BY <1>1, <1>2, <1>4, <1>6, <1>7 DEF removeAccount

(* What rotateBindingCredential writes: nothing the membership depends on. *)
LEMMA RotateWrites ==
  ASSUME TypeOK, AccountSpent, NEW s \in acSigs, NEW c \in Commitment,
         rotateBindingCredential(s, c)
  PROVE  LET x == s.subject  t == accounts[x].trackId  a == accounts[x]  b == accounts'[x] IN
         /\ AccountAcceptable(s) /\ x \in AccountId /\ t \in TrackId /\ CommandTrack(s) = t
         /\ a.exists /\ a.state # "Removed"
         /\ accounts' \in [AccountId -> AccountBinding]
         /\ \A y \in AccountId : y # x => accounts'[y] = accounts[y]
         /\ b.exists /\ b.state = a.state /\ b.trackId = t /\ b.registeredAt = a.registeredAt
         /\ UNCHANGED membershipEpochs
<1>1. /\ AccountAcceptable(s) /\ s.op = "RotateBindingCredential"
      /\ accounts[s.subject].exists /\ accounts[s.subject].state # "Removed"
  BY DEF rotateBindingCredential, RotateAllowed, AccountAcceptable
<1>2. s.subject \in AccountId
  BY <1>1, AcceptedNames
<1>3. accounts[s.subject] \in AccountBinding
  BY <1>2 DEF TypeOK
<1>4. accounts[s.subject].trackId \in TrackId /\ CommandTrack(s) = accounts[s.subject].trackId
  BY <1>1, <1>3 DEF AccountBinding, CommandTrack
<1>5. accounts' = [accounts EXCEPT ![s.subject].commitment = c, ![s.subject].bindingEpoch = @ + 1]
  BY DEF rotateBindingCredential
<1>6. accounts' \in [AccountId -> AccountBinding]
  <2>1. accounts[s.subject].bindingEpoch + 1 \in Nat
    BY <1>3 DEF AccountBinding
  <2> QED
    BY <1>2, <1>3, <1>5, <2>1 DEF TypeOK, AccountBinding
<1>7. /\ \A y \in AccountId : y # s.subject => accounts'[y] = accounts[y]
      /\ accounts'[s.subject].exists = accounts[s.subject].exists
      /\ accounts'[s.subject].state = accounts[s.subject].state
      /\ accounts'[s.subject].trackId = accounts[s.subject].trackId
      /\ accounts'[s.subject].registeredAt = accounts[s.subject].registeredAt
  BY <1>2, <1>3, <1>5 DEF TypeOK, AccountBinding
<1> QED
  BY <1>1, <1>2, <1>4, <1>6, <1>7 DEF rotateBindingCredential

-----------------------------------------------------------------------------
(* What signing a command adds to the relayers' hands, and all it changes. *)
CommandSigned(new) ==
  /\ UNCHANGED <<accounts, membershipEpochs, trackNonce>>
  /\ acSigs' = acSigs \cup {new}
  /\ IF new.op = "RegisterAccount" THEN new.subject \in TrackId
     ELSE new.subject \in AccountId /\ accounts[new.subject].exists
  /\ tracks[CommandTrack(new)].exists
  /\ new.nonce = trackNonce[CommandTrack(new)] /\ new.used = FALSE
  /\ new.ownerEpoch = trackOwnerEpoch(CommandTrack(new))

(* A signed command carries the nonce and the epoch of the track it is for. *)
LEMMA SignedCommand ==
  ASSUME TypeOK, NEW op \in AccountOp, NEW subject, NEW t \in TrackId,
         IF op = "RegisterAccount" THEN t = subject
         ELSE subject \in AccountId /\ accounts[subject].exists /\ t = accounts[subject].trackId,
         \E c \in Commitment, e \in Nat, p \in Address :
           SignAccountCommand(op, subject, t, c, e, p)
  PROVE  \E new \in AccountCommand : CommandSigned(new)
<1>0. PICK c \in Commitment, e \in Nat, p \in Address :
        SignAccountCommand(op, subject, t, c, e, p)
  OBVIOUS
<1> DEFINE new == [op |-> op, subject |-> subject, commitment |-> c, eligibleFrom |-> e,
                   ownerEpoch |-> trackOwnerEpoch(t), nonce |-> trackNonce[t],
                   deadline |-> now + Window, signer |-> p, used |-> FALSE]
<1>1. now + Window \in Nat /\ trackNonce[t] \in Nat
  BY IdentityAssumption DEF TypeOK, IdentityTypeOK
<1>2. trackOwnerEpoch(t) \in Nat
  BY DEF trackOwnerEpoch, TypeOK, IdentityTypeOK, Track, Identity
<1>3. new \in AccountCommand
  BY <1>1, <1>2 DEF AccountCommand
<1>4. /\ acSigs' = acSigs \cup {new} /\ tracks[t].exists
      /\ UNCHANGED <<accounts, membershipEpochs, trackNonce>>
  BY <1>0 DEF SignAccountCommand
<1>5. /\ new.op = op /\ new.subject = subject /\ new.used = FALSE
      /\ new.nonce = trackNonce[t] /\ new.ownerEpoch = trackOwnerEpoch(t)
  OBVIOUS
<1> HIDE DEF new
<1>6. CommandTrack(new) = t
  BY <1>5 DEF CommandTrack
<1>7. CommandSigned(new)
  BY <1>4, <1>5, <1>6 DEF CommandSigned
<1> QED
  BY <1>3, <1>7

(* The four challenges, each over the track it reads the nonce of. *)
LEMMA SigningStep ==
  ASSUME TypeOK,
         \/ \E t \in TrackId, c \in Commitment, p \in Address :
              buildRegisterAccountChallenge(t, c, p)
         \/ \E x \in AccountId, e \in Eligible, p \in Address :
              buildActivateAccountChallenge(x, e, p)
         \/ \E x \in AccountId, p \in Address : buildRemoveAccountChallenge(x, p)
         \/ \E x \in AccountId, c \in Commitment, p \in Address :
              SignRotateBindingCredential(x, c, p)
  PROVE  \E new \in AccountCommand : CommandSigned(new)
<1>0. /\ \A x \in AccountId : accounts[x].trackId \in TrackId /\ accounts[x].commitment \in Commitment
      /\ \A e \in Eligible : now + e \in Nat
      /\ 0 \in Nat
  BY AccountAssumption DEF TypeOK, AccountBinding, IdentityTypeOK
<1>1. ASSUME NEW t \in TrackId, NEW c \in Commitment, NEW p \in Address,
             buildRegisterAccountChallenge(t, c, p)
      PROVE  \E new \in AccountCommand : CommandSigned(new)
  <2>1. SignAccountCommand("RegisterAccount", t, t, c, 0, p)
    BY <1>1 DEF buildRegisterAccountChallenge
  <2>2. "RegisterAccount" \in AccountOp
    BY DEF AccountOp
  <2> QED
    BY <1>0, <2>1, <2>2, SignedCommand
<1>2. ASSUME NEW x \in AccountId, NEW op \in AccountOp \ {"RegisterAccount"},
             NEW c \in Commitment, NEW e, e \in Nat, NEW p \in Address,
             accounts[x].exists, SignAccountCommand(op, x, accounts[x].trackId, c, e, p)
      PROVE  \E new \in AccountCommand : CommandSigned(new)
  BY <1>0, <1>2, SignedCommand
<1>3. ASSUME NEW x \in AccountId, NEW e \in Eligible, NEW p \in Address,
             buildActivateAccountChallenge(x, e, p)
      PROVE  \E new \in AccountCommand : CommandSigned(new)
  BY <1>0, <1>2, <1>3 DEF buildActivateAccountChallenge, AccountOp
<1>4. ASSUME NEW x \in AccountId, NEW p \in Address, buildRemoveAccountChallenge(x, p)
      PROVE  \E new \in AccountCommand : CommandSigned(new)
  BY <1>0, <1>2, <1>4 DEF buildRemoveAccountChallenge, AccountOp
<1>5. ASSUME NEW x \in AccountId, NEW c \in Commitment, NEW p \in Address,
             SignRotateBindingCredential(x, c, p)
      PROVE  \E new \in AccountCommand : CommandSigned(new)
  BY <1>0, <1>2, <1>5 DEF SignRotateBindingCredential, AccountOp
<1> QED
  BY <1>1, <1>3, <1>4, <1>5

(* An active account stands in the newest epoch of its track, once. *)
LEMMA RemovedMember ==
  ASSUME TypeOK, MembersAreActive, NEW x \in AccountId, accounts[x].exists,
         accounts[x].state = "Active"
  PROVE  LET ids == currentMembers(accounts[x].trackId)  out == Without(ids, x) IN
         /\ out \in Seq(AccountId)
         /\ Len(ids) > 0
         /\ \A k \in 1..Len(out) : out[k] # x /\ \E j \in 1..Len(ids) : ids[j] = out[k]
         /\ \A j \in 1..Len(ids) : ids[j] # x => \E k \in 1..Len(out) : out[k] = ids[j]
         /\ \A j, k \in 1..Len(out) : out[j] = out[k] => j = k
         /\ \E k \in 1..Len(ids) : ids[k] = x
<1> DEFINE ids == currentMembers(accounts[x].trackId)
<1>1. accounts[x].trackId \in TrackId
  BY DEF TypeOK, AccountBinding
<1>2. ids \in Seq(AccountId)
  BY <1>1, MembersType
<1>3. /\ \E k \in 1..Len(ids) : ids[k] = x
      /\ \A j, k \in 1..Len(ids) : ids[j] = ids[k] => j = k
  BY <1>1 DEF MembersAreActive
<1> HIDE DEF ids
<1> DEFINE out == Without(ids, x)
<1>5. /\ out \in Seq(AccountId) /\ Len(out) = Len(ids) - 1
      /\ \A k \in 1..Len(out) : out[k] # x /\ \E j \in 1..Len(ids) : ids[j] = out[k]
      /\ \A j \in 1..Len(ids) : ids[j] # x => \E k \in 1..Len(out) : out[k] = ids[j]
      /\ \A j, k \in 1..Len(out) : out[j] = out[k] => j = k
  BY <1>2, <1>3, WithoutDrops
<1>6. Len(ids) > 0
  BY <1>2, <1>3
<1> HIDE DEF out
<1> QED
  BY <1>3, <1>5, <1>6 DEF ids, out

(* No call and no signature leaves the types. *)
LEMMA AccountTypeStep ==
  ASSUME TypeOK, AccountSpent, MembersAreActive, AccountStep
  PROVE  TypeOK'
<1>0. IdentityTypeOK' /\ \A t \in TrackId : trackNonce[t] \in Nat
  BY AccountStepFrame DEF TypeOK, IdentityTypeOK
<1>1. ASSUME NEW s \in acSigs, NEW t \in TrackId,
             trackNonce' = [trackNonce EXCEPT ![t] = s.nonce + 1],
             acSigs' = MarkUsed(acSigs, s)
      PROVE  trackNonce' \in [TrackId -> Nat] /\ acSigs' \subseteq AccountCommand
  <2>1. s.nonce + 1 \in Nat
    BY AccountCommandFields
  <2> QED
    BY <1>1, <2>1, MarkedAccountCommand DEF MarkUsed, TypeOK
<1>2. ASSUME NEW s \in acSigs, NEW x \in AccountId, registerAccount(s, x)
      PROVE  TypeOK'
  <2>1. trackNonce' \in [TrackId -> Nat] /\ acSigs' \subseteq AccountCommand
    BY <1>1, <1>2, RegisterWrites DEF registerAccount
  <2> QED
    BY <1>0, <1>2, <2>1, RegisterWrites DEF TypeOK
<1>3. ASSUME NEW s \in acSigs, activateAccount(s)
      PROVE  TypeOK'
  <2>1. trackNonce' \in [TrackId -> Nat] /\ acSigs' \subseteq AccountCommand
    BY <1>1, <1>3, ActivateWrites DEF activateAccount
  <2>2. membershipEpochs' \in [TrackId -> Seq(MembershipEpoch)]
    BY <1>3, ActivateWrites, OpenedEpoch
  <2> QED
    BY <1>0, <1>3, <2>1, <2>2, ActivateWrites DEF TypeOK
<1>4. ASSUME NEW s \in acSigs, removeAccount(s)
      PROVE  TypeOK'
  <2>1. trackNonce' \in [TrackId -> Nat] /\ acSigs' \subseteq AccountCommand
    BY <1>1, <1>4, RemoveWrites DEF removeAccount
  <2>2. membershipEpochs' \in [TrackId -> Seq(MembershipEpoch)]
    <3>1. CASE accounts[s.subject].state = "Active"
      BY <1>4, <3>1, RemoveWrites, RemovedMember, OpenedEpoch
    <3>2. CASE accounts[s.subject].state # "Active"
      BY <1>4, <3>2, RemoveWrites DEF TypeOK
    <3> QED
      BY <3>1, <3>2
  <2> QED
    BY <1>0, <1>4, <2>1, <2>2, RemoveWrites DEF TypeOK
<1>5. ASSUME NEW s \in acSigs, NEW c \in Commitment, rotateBindingCredential(s, c)
      PROVE  TypeOK'
  <2>1. trackNonce' \in [TrackId -> Nat] /\ acSigs' \subseteq AccountCommand
    BY <1>1, <1>5, RotateWrites DEF rotateBindingCredential
  <2> QED
    BY <1>0, <1>5, <2>1, RotateWrites DEF TypeOK
<1>6. ASSUME UNCHANGED <<accounts, membershipEpochs, trackNonce>>,
             acSigs' \subseteq AccountCommand
      PROVE  TypeOK'
  BY <1>0, <1>6 DEF TypeOK
<1>7. ASSUME NEW s \in acSigs, LoseAccountCommand(s)
      PROVE  TypeOK'
  <2>1. /\ UNCHANGED <<accounts, membershipEpochs, trackNonce>>
        /\ acSigs' \subseteq AccountCommand
    BY <1>7 DEF LoseAccountCommand, TypeOK
  <2> QED
    BY <1>6, <2>1
<1>8. ASSUME \/ \E t \in TrackId, c \in Commitment, p \in Address :
                  buildRegisterAccountChallenge(t, c, p)
             \/ \E x \in AccountId, e \in Eligible, p \in Address :
                  buildActivateAccountChallenge(x, e, p)
             \/ \E x \in AccountId, p \in Address : buildRemoveAccountChallenge(x, p)
             \/ \E x \in AccountId, c \in Commitment, p \in Address :
                  SignRotateBindingCredential(x, c, p)
      PROVE  TypeOK'
  <2>1. /\ UNCHANGED <<accounts, membershipEpochs, trackNonce>>
        /\ \E new \in AccountCommand : acSigs' = acSigs \cup {new}
    BY <1>8, SigningStep DEF CommandSigned
  <2>2. acSigs' \subseteq AccountCommand
    BY <2>1 DEF TypeOK
  <2> QED
    BY <1>6, <2>1, <2>2
<1> QED
  BY <1>2, <1>3, <1>4, <1>5, <1>7, <1>8 DEF AccountStep

-----------------------------------------------------------------------------
(* An accepted command moves its track's nonce past every command signed before it. *)
LEMMA AcceptedAccountSpends ==
  ASSUME TypeOK, AccountSpent, NEW s \in acSigs, AccountAcceptable(s),
         UNCHANGED <<identities, tracks>>,
         trackNonce' = [trackNonce EXCEPT ![CommandTrack(s)] = s.nonce + 1],
         acSigs' = MarkUsed(acSigs, s),
         \A x \in AccountId : accounts[x].exists =>
           accounts'[x].exists /\ accounts'[x].trackId = accounts[x].trackId
  PROVE  AccountSpent'
<1> DEFINE Kept(q) ==
      /\ IF q.op = "RegisterAccount" THEN q.subject \in TrackId
         ELSE q.subject \in AccountId /\ accounts'[q.subject].exists
      /\ tracks'[CommandTrack(q)'].exists
      /\ q.ownerEpoch <= trackOwnerEpoch(CommandTrack(q))'
      /\ q.nonce <= trackNonce'[CommandTrack(q)']
      /\ q.used => q.nonce < trackNonce'[CommandTrack(q)']
<1> SUFFICES ASSUME NEW r \in acSigs' PROVE Kept(r)
  BY DEF AccountSpent
<1>1. /\ CommandTrack(s) \in TrackId /\ s.nonce = trackNonce[CommandTrack(s)]
  BY AcceptedNames DEF ConsumesCommand
<1>2. \A t \in TrackId :
        /\ trackNonce[t] \in Nat
        /\ trackNonce'[t] = IF t = CommandTrack(s) THEN trackNonce[t] + 1 ELSE trackNonce[t]
        /\ trackOwnerEpoch(t)' = trackOwnerEpoch(t)
  BY <1>1 DEF TypeOK, trackOwnerEpoch
<1>3. ASSUME NEW q \in acSigs
      PROVE  /\ CommandTrack(q) \in TrackId /\ CommandTrack(q)' = CommandTrack(q)
             /\ q.nonce \in Nat /\ Kept(q)
  <2>1. \A x \in AccountId : accounts[x].trackId \in TrackId
    BY DEF TypeOK, AccountBinding
  <2>2. CommandTrack(q) \in TrackId /\ CommandTrack(q)' = CommandTrack(q)
    BY <2>1 DEF AccountSpent, CommandTrack
  <2>3. q.nonce \in Nat
    BY AccountCommandFields
  <2>4. trackOwnerEpoch(CommandTrack(q))' = trackOwnerEpoch(CommandTrack(q))
    BY <2>2 DEF trackOwnerEpoch
  <2>5. Kept(q)
    BY <1>2, <2>2, <2>3, <2>4 DEF AccountSpent
  <2> QED
    BY <2>2, <2>3, <2>5
<1>4. CASE r \in acSigs
  BY <1>3, <1>4
<1>5. CASE r = [s EXCEPT !.used = TRUE]
  <2>1. r.op = s.op /\ r.subject = s.subject /\ r.nonce = s.nonce /\ r.ownerEpoch = s.ownerEpoch
    BY <1>5, MarkedAccountCommand
  <2>2. CommandTrack(r)' = CommandTrack(s)'
    BY <2>1 DEF CommandTrack
  <2>3. trackOwnerEpoch(CommandTrack(r))' = trackOwnerEpoch(CommandTrack(s))'
    BY <2>2 DEF trackOwnerEpoch
  <2>4. r.nonce < trackNonce'[CommandTrack(r)']
    BY <1>1, <1>2, <1>3, <2>1, <2>2
  <2> QED
    BY <1>3, <2>1, <2>2, <2>3, <2>4
<1> QED
  BY <1>4, <1>5, MarkUsedMember

(* A command is signed against the nonce and the epoch of that moment. *)
LEMMA SignedAccountSpends ==
  ASSUME TypeOK, AccountSpent, UNCHANGED <<identities, tracks>>,
         NEW new \in AccountCommand, CommandSigned(new)
  PROVE  AccountSpent'
<1>1. \A r : CommandTrack(r)' = CommandTrack(r) /\ trackOwnerEpoch(r)' = trackOwnerEpoch(r)
  BY DEF CommandSigned, CommandTrack, trackOwnerEpoch
<1>2. trackOwnerEpoch(CommandTrack(new)) \in Nat /\ trackNonce[CommandTrack(new)] \in Nat
  BY DEF CommandSigned, AccountCommand
<1>3. acSigs' = acSigs \cup {new} /\ UNCHANGED <<accounts, trackNonce>>
  BY DEF CommandSigned
<1>4. \A r \in acSigs' :
        /\ IF r.op = "RegisterAccount" THEN r.subject \in TrackId
           ELSE r.subject \in AccountId /\ accounts[r.subject].exists
        /\ tracks[CommandTrack(r)].exists
        /\ r.ownerEpoch <= trackOwnerEpoch(CommandTrack(r))
        /\ r.nonce <= trackNonce[CommandTrack(r)]
        /\ r.used => r.nonce < trackNonce[CommandTrack(r)]
  BY <1>2, <1>3 DEF AccountSpent, CommandSigned
<1>5. \A r : trackOwnerEpoch(CommandTrack(r))' = trackOwnerEpoch(CommandTrack(r))
  BY <1>3 DEF CommandTrack, trackOwnerEpoch
<1> QED
  BY <1>1, <1>3, <1>4, <1>5 DEF AccountSpent

(* An accepted command, a signature or a loss keeps the relation of commands to nonces. *)
LEMMA AccountSpentStep ==
  ASSUME TypeOK, AccountSpent, AccountStep
  PROVE  AccountSpent'
<1>0. UNCHANGED <<identities, tracks>>
  BY AccountStepFrame
<1>1. ASSUME NEW s \in acSigs, NEW x \in AccountId, registerAccount(s, x)
      PROVE  AccountSpent'
  <2>1. /\ AccountAcceptable(s) /\ CommandTrack(s) = s.subject
        /\ \A y \in AccountId : accounts[y].exists => accounts'[y] = accounts[y]
    BY <1>1, RegisterWrites
  <2> QED
    BY <1>0, <1>1, <2>1, AcceptedAccountSpends DEF registerAccount
<1>2. ASSUME NEW s \in acSigs, activateAccount(s)
      PROVE  AccountSpent'
  <2>1. /\ AccountAcceptable(s) /\ CommandTrack(s) = accounts[s.subject].trackId
        /\ \A y \in AccountId : accounts[y].exists =>
             accounts'[y].exists /\ accounts'[y].trackId = accounts[y].trackId
    BY <1>2, ActivateWrites
  <2> QED
    BY <1>0, <1>2, <2>1, AcceptedAccountSpends DEF activateAccount
<1>3. ASSUME NEW s \in acSigs, removeAccount(s)
      PROVE  AccountSpent'
  <2>1. /\ AccountAcceptable(s) /\ CommandTrack(s) = accounts[s.subject].trackId
        /\ \A y \in AccountId : accounts[y].exists =>
             accounts'[y].exists /\ accounts'[y].trackId = accounts[y].trackId
    BY <1>3, RemoveWrites
  <2> QED
    BY <1>0, <1>3, <2>1, AcceptedAccountSpends DEF removeAccount
<1>4. ASSUME NEW s \in acSigs, NEW c \in Commitment, rotateBindingCredential(s, c)
      PROVE  AccountSpent'
  <2>1. /\ AccountAcceptable(s) /\ CommandTrack(s) = accounts[s.subject].trackId
        /\ \A y \in AccountId : accounts[y].exists =>
             accounts'[y].exists /\ accounts'[y].trackId = accounts[y].trackId
    BY <1>4, RotateWrites
  <2> QED
    BY <1>0, <1>4, <2>1, AcceptedAccountSpends DEF rotateBindingCredential
<1>5. ASSUME NEW s \in acSigs, LoseAccountCommand(s)
      PROVE  AccountSpent'
  BY <1>0, <1>5 DEF LoseAccountCommand, AccountSpent, CommandTrack, trackOwnerEpoch
<1> QED
  BY <1>0, <1>1, <1>2, <1>3, <1>4, <1>5, SigningStep, SignedAccountSpends DEF AccountStep

-----------------------------------------------------------------------------
(* An array of accounts lists accounts. *)
LEMMA ListedIn ==
  ASSUME NEW S, NEW ids \in Seq(S)
  PROVE  Listed(ids) \subseteq S
BY DEF Listed

(* Whether an epoch is linked depends on the epochs up to it alone. *)
LEMMA LinkedPrefix ==
  ASSUME NEW e, NEW f, NEW k \in Nat \ {0}, \A j \in 1..k : f[j] = e[j], EpochLinked(e, k)
  PROVE  EpochLinked(f, k)
<1>1. /\ f[k] = e[k] /\ \A j \in 1..(k-1) : f[j] = e[j]
      /\ k > 1 => f[k-1] = e[k-1]
  OBVIOUS
<1> QED
  BY <1>1 DEF EpochLinked

(* What a step leaves of the membership when it opens no epoch. *)
LEMMA MembershipKept ==
  ASSUME TypeOK, MembersAreActive, ListedWasActivated, EpochsChained,
         UNCHANGED membershipEpochs, now' \in Nat, now <= now',
         \A y \in AccountId :
           /\ (accounts[y].exists /\ accounts[y].state = "Active") <=>
                (accounts'[y].exists /\ accounts'[y].state = "Active")
           /\ accounts[y].exists =>
                /\ accounts'[y].exists /\ accounts'[y].trackId = accounts[y].trackId
                /\ accounts[y].state # "PendingBaseline" => accounts'[y].state # "PendingBaseline"
  PROVE  MembersAreActive' /\ ListedWasActivated' /\ EpochsChained'
<1>0. \A t \in TrackId : /\ currentMembers(t)' = currentMembers(t)
                         /\ currentMembers(t) \in Seq(AccountId)
  BY MembersType DEF currentMembers
<1>1. MembersAreActive'
  <2> SUFFICES ASSUME NEW t \in TrackId
               PROVE  LET ids == currentMembers(t) IN
                      /\ \A k \in 1..Len(ids) :
                           /\ accounts'[ids[k]].exists /\ accounts'[ids[k]].state = "Active"
                           /\ accounts'[ids[k]].trackId = t
                      /\ \A x \in AccountId :
                           accounts'[x].exists /\ accounts'[x].state = "Active"
                             /\ accounts'[x].trackId = t => \E k \in 1..Len(ids) : ids[k] = x
                      /\ \A j, k \in 1..Len(ids) : ids[j] = ids[k] => j = k
    BY <1>0 DEF MembersAreActive
  <2> DEFINE ids == currentMembers(t)
  <2>1. /\ \A k \in 1..Len(ids) : /\ ids[k] \in AccountId
                                  /\ accounts[ids[k]].exists /\ accounts[ids[k]].state = "Active"
                                  /\ accounts[ids[k]].trackId = t
        /\ \A x \in AccountId :
             accounts[x].exists /\ accounts[x].state = "Active" /\ accounts[x].trackId = t
               => \E k \in 1..Len(ids) : ids[k] = x
        /\ \A j, k \in 1..Len(ids) : ids[j] = ids[k] => j = k
    BY <1>0 DEF MembersAreActive
  <2> HIDE DEF ids
  <2> QED
    BY <2>1 DEF ids
<1>2. ListedWasActivated'
  <2> SUFFICES ASSUME NEW t \in TrackId, NEW k \in 1..Len(membershipEpochs[t]),
                      NEW x \in Listed(membershipEpochs[t][k].accountIds)
               PROVE  accounts'[x].exists /\ accounts'[x].state # "PendingBaseline"
    BY DEF ListedWasActivated
  <2>1. x \in AccountId
    BY MembersType, ListedIn
  <2> QED
    BY <2>1 DEF ListedWasActivated
<1>3. EpochsChained'
  <2>1. \A t \in TrackId : \A k \in 1..Len(membershipEpochs[t]) :
          membershipEpochs[t][k].effectiveFrom \in Nat
    <3>1. \A m \in MembershipEpoch : m.effectiveFrom \in Nat
      BY DEF MembershipEpoch
    <3> QED
      BY <3>1, MembersType
  <2>2. now \in Nat
    BY DEF TypeOK, IdentityTypeOK
  <2> QED
    BY <2>1, <2>2 DEF EpochsChained
<1> QED
  BY <1>1, <1>2, <1>3

(***************************************************************************)
(* A new epoch that differs from the newest one by a single account, and   *)
(* lists nobody who had left, continues the chain.                         *)
(***************************************************************************)
LEMMA EpochOpens ==
  ASSUME TypeOK, EpochsChained, now' = now, NEW t \in TrackId,
         NEW ids \in Seq(AccountId), openMembershipEpoch(t, ids), NEW x,
         (Listed(ids) \ Listed(currentMembers(t)))
           \cup (Listed(currentMembers(t)) \ Listed(ids)) = {x},
         \A j \in 1..Len(membershipEpochs[t]) :
           Listed(membershipEpochs[t][j].accountIds) \cap Listed(ids)
             \subseteq Listed(currentMembers(t))
  PROVE  EpochsChained'
<1> DEFINE e == membershipEpochs[t]
           f == membershipEpochs'[t]
           n == Len(e)
<1>1. /\ \A u \in TrackId : u # t => membershipEpochs'[u] = membershipEpochs[u]
      /\ n \in Nat /\ Len(f) = n + 1
      /\ \A k \in 1..n : f[k] = e[k]
      /\ f[n + 1].accountIds = ids /\ f[n + 1].accountSetRoot = Root(ids)
      /\ f[n + 1].effectiveFrom = now
      /\ n = 0 => f[n + 1].previousRoot = NoRoot
      /\ n > 0 => f[n + 1].previousRoot = e[n].accountSetRoot
  BY OpenedEpoch
<1>2. n > 0 => currentMembers(t) = e[n].accountIds
  BY MembersType DEF currentMembers
<1>3. now \in Nat
  BY DEF TypeOK, IdentityTypeOK
<1>4. Cardinality({x}) = 1
  BY FS_Singleton
<1> SUFFICES ASSUME NEW u \in TrackId, NEW k \in 1..Len(membershipEpochs'[u])
             PROVE  /\ membershipEpochs'[u][k].effectiveFrom <= now
                    /\ EpochLinked(membershipEpochs'[u], k)
  BY DEF EpochsChained
<1>5. CASE u # t
  BY <1>1, <1>5 DEF EpochsChained
<1>6. CASE u = t /\ k \in 1..n
  <2>1. /\ e[k].effectiveFrom <= now /\ EpochLinked(e, k)
        /\ k \in Nat \ {0} /\ \A j \in 1..k : f[j] = e[j]
    BY <1>1, <1>6 DEF EpochsChained
  <2> HIDE DEF e, f
  <2>2. f[k].effectiveFrom <= now /\ EpochLinked(f, k)
    BY <1>6, <2>1, LinkedPrefix
  <2> QED
    BY <1>6, <2>2 DEF f
<1>7. CASE u = t /\ k = n + 1
  <2> HIDE DEF e, f, n
  <2>1. CASE n = 0
    <3>1. EpochLinked(f, 1)
      BY <1>1, <2>1 DEF EpochLinked
    <3> QED
      BY <1>1, <1>3, <1>7, <2>1, <3>1 DEF f
  <2>2. CASE n > 0
    <3>1. /\ f[n] = e[n] /\ n \in 1..n /\ (n + 1) - 1 = n
          /\ e[n].effectiveFrom <= now
      BY <1>1, <2>2 DEF EpochsChained, e, n
    <3>2. (Listed(f[n+1].accountIds) \ Listed(f[n].accountIds))
            \cup (Listed(f[n].accountIds) \ Listed(f[n+1].accountIds)) = {x}
      BY <1>1, <1>2, <2>2, <3>1
    <3>3. \A j \in 1..n : Listed(f[j].accountIds) \cap Listed(f[n+1].accountIds)
                            \subseteq Listed(f[n].accountIds)
      BY <1>1, <1>2, <2>2, <3>1 DEF e, n
    <3> DEFINE k1 == n + 1
    <3>4. /\ k1 \in Nat /\ k1 > 1 /\ k1 # 1 /\ k1 - 1 = n
          /\ f[k1].accountSetRoot = Root(f[k1].accountIds)
          /\ f[k1].previousRoot = f[n].accountSetRoot
          /\ f[n].effectiveFrom <= f[k1].effectiveFrom
      BY <1>1, <2>2, <3>1
    <3>5. Cardinality((Listed(f[k1].accountIds) \ Listed(f[n].accountIds))
            \cup (Listed(f[n].accountIds) \ Listed(f[k1].accountIds))) = 1
      BY <1>4, <3>2
    <3>6. \A j \in 1..n : Listed(f[j].accountIds) \cap Listed(f[k1].accountIds)
                            \subseteq Listed(f[n].accountIds)
      BY <3>3
    <3> HIDE DEF k1
    <3>7. EpochLinked(f, k1)
      BY <3>4, <3>5, <3>6 DEF EpochLinked
    <3> QED
      BY <1>1, <1>3, <1>7, <3>7 DEF f, k1
  <2> QED
    BY <1>1, <2>1, <2>2
<1> QED
  BY <1>1, <1>5, <1>6, <1>7

(* The newest epoch of a track after _openMembershipEpoch, and what any epoch lists. *)
LEMMA OpenedMembers ==
  ASSUME TypeOK, NEW t \in TrackId, NEW ids \in Seq(AccountId), openMembershipEpoch(t, ids)
  PROVE  /\ currentMembers(t)' = ids
         /\ \A u \in TrackId : u # t => currentMembers(u)' = currentMembers(u)
         /\ \A u \in TrackId : \A k \in 1..Len(membershipEpochs'[u]) :
              \/ k \in 1..Len(membershipEpochs[u])
                   /\ membershipEpochs'[u][k] = membershipEpochs[u][k]
              \/ u = t /\ membershipEpochs'[u][k].accountIds = ids
<1>1. currentMembers(t)' = ids
  BY OpenedEpoch DEF currentMembers
<1>2. \A u \in TrackId : u # t => currentMembers(u)' = currentMembers(u)
  BY OpenedEpoch DEF currentMembers
<1>3. ASSUME NEW u \in TrackId, NEW k \in 1..Len(membershipEpochs'[u])
      PROVE  \/ k \in 1..Len(membershipEpochs[u])
                  /\ membershipEpochs'[u][k] = membershipEpochs[u][k]
             \/ u = t /\ membershipEpochs'[u][k].accountIds = ids
  BY OpenedEpoch, MembersType
<1> QED
  BY <1>1, <1>2, <1>3

(* Activation: the account joins the members of its track, and nobody else moves. *)
LEMMA ActivationJoins ==
  ASSUME TypeOK, MembersAreActive, ListedWasActivated, EpochsChained, AccountSpent,
         NEW s \in acSigs, activateAccount(s)
  PROVE  MembersAreActive' /\ ListedWasActivated' /\ EpochsChained'
<1> DEFINE x == s.subject
<1>0. PICK t \in TrackId : t = accounts[x].trackId
  BY ActivateWrites
<1> DEFINE old == currentMembers(t)
           ids == Append(old, x)
<1>1. /\ x \in AccountId
      /\ accounts[x].exists /\ accounts[x].state = "PendingBaseline"
      /\ \A y \in AccountId : y # x => accounts'[y] = accounts[y]
      /\ accounts'[x].exists /\ accounts'[x].state = "Active" /\ accounts'[x].trackId = t
      /\ ids \in Seq(AccountId) /\ openMembershipEpoch(t, ids)
  BY <1>0, ActivateWrites
<1>2. old \in Seq(AccountId)
  BY <1>1, MembersType
<1> HIDE DEF x, old
<1>3. /\ Len(ids) = Len(old) + 1 /\ ids[Len(old) + 1] = x
      /\ \A k \in 1..Len(old) : ids[k] = old[k]
      /\ Len(old) \in Nat
  BY <1>1, <1>2
<1>4. /\ currentMembers(t)' = ids
      /\ \A u \in TrackId : u # t => currentMembers(u)' = currentMembers(u)
      /\ \A u \in TrackId : \A k \in 1..Len(membershipEpochs'[u]) :
           \/ k \in 1..Len(membershipEpochs[u])
                /\ membershipEpochs'[u][k] = membershipEpochs[u][k]
           \/ u = t /\ membershipEpochs'[u][k].accountIds = ids
  BY <1>1, OpenedMembers
<1> HIDE DEF ids
<1>5. ASSUME NEW u \in TrackId
      PROVE  LET c == currentMembers(u) IN
             /\ c \in Seq(AccountId)
             /\ \A k \in 1..Len(c) : /\ c[k] \in AccountId /\ c[k] # x
                                     /\ accounts[c[k]].exists /\ accounts[c[k]].state = "Active"
                                     /\ accounts[c[k]].trackId = u
             /\ \A y \in AccountId :
                  accounts[y].exists /\ accounts[y].state = "Active" /\ accounts[y].trackId = u
                    => \E k \in 1..Len(c) : c[k] = y
             /\ \A j, k \in 1..Len(c) : c[j] = c[k] => j = k
  BY <1>1, MembersType DEF MembersAreActive
<1>6. MembersAreActive'
  <2> SUFFICES ASSUME NEW u \in TrackId
               PROVE  LET c == currentMembers(u)' IN
                      /\ \A k \in 1..Len(c) :
                           /\ accounts'[c[k]].exists /\ accounts'[c[k]].state = "Active"
                           /\ accounts'[c[k]].trackId = u
                      /\ \A y \in AccountId :
                           accounts'[y].exists /\ accounts'[y].state = "Active"
                             /\ accounts'[y].trackId = u => \E k \in 1..Len(c) : c[k] = y
                      /\ \A j, k \in 1..Len(c) : c[j] = c[k] => j = k
    BY DEF MembersAreActive
  <2>1. CASE u # t
    <3> DEFINE c == currentMembers(u)
    <3>1. /\ c' = c
          /\ \A k \in 1..Len(c) : /\ c[k] \in AccountId /\ c[k] # x
                                  /\ accounts[c[k]].exists /\ accounts[c[k]].state = "Active"
                                  /\ accounts[c[k]].trackId = u
          /\ \A y \in AccountId :
               accounts[y].exists /\ accounts[y].state = "Active" /\ accounts[y].trackId = u
                 => \E k \in 1..Len(c) : c[k] = y
          /\ \A j, k \in 1..Len(c) : c[j] = c[k] => j = k
      BY <1>4, <1>5, <2>1
    <3> HIDE DEF c
    <3>2. \A y \in AccountId : accounts'[y].trackId = u => accounts'[y] = accounts[y]
      BY <1>1, <2>1
    <3>3. \A k \in 1..Len(c) : accounts'[c[k]] = accounts[c[k]]
      BY <1>1, <3>1
    <3> QED
      BY <3>1, <3>2, <3>3 DEF c
  <2>2. CASE u = t
    <3>1. /\ \A k \in 1..Len(old) : /\ old[k] \in AccountId /\ old[k] # x
                                    /\ accounts[old[k]].exists /\ accounts[old[k]].state = "Active"
                                    /\ accounts[old[k]].trackId = t
          /\ \A y \in AccountId :
               accounts[y].exists /\ accounts[y].state = "Active" /\ accounts[y].trackId = t
                 => \E k \in 1..Len(old) : old[k] = y
          /\ \A j, k \in 1..Len(old) : old[j] = old[k] => j = k
      BY <1>1, <1>5 DEF old
    <3>2. \A k \in 1..Len(ids) : k \in 1..Len(old) \/ k = Len(old) + 1
      BY <1>3
    <3>3. \A k \in 1..Len(ids) :
            /\ accounts'[ids[k]].exists /\ accounts'[ids[k]].state = "Active"
            /\ accounts'[ids[k]].trackId = t
      BY <1>1, <1>3, <3>1, <3>2
    <3>4. ASSUME NEW y \in AccountId, accounts'[y].exists, accounts'[y].state = "Active",
                 accounts'[y].trackId = t
          PROVE  \E k \in 1..Len(ids) : ids[k] = y
      <4>1. CASE y = x
        BY <1>3, <4>1
      <4>2. CASE y # x
        <5>1. PICK k \in 1..Len(old) : old[k] = y
          BY <1>1, <3>1, <3>4, <4>2
        <5> QED
          BY <1>3, <5>1
      <4> QED
        BY <4>1, <4>2
    <3>5. \A j, k \in 1..Len(ids) : ids[j] = ids[k] => j = k
      BY <1>3, <3>1, <3>2
    <3> QED
      BY <1>4, <2>2, <3>3, <3>4, <3>5
  <2> QED
    BY <2>1, <2>2
<1>7. Listed(ids) = Listed(old) \cup {x} /\ x \notin Listed(old)
  <2>1. \A k \in 1..Len(old) : old[k] # x
    BY <1>1, <1>5 DEF old
  <2> QED
    BY <1>3, <2>1 DEF Listed
<1>8. \A u \in TrackId : \A k \in 1..Len(membershipEpochs[u]) :
        \A y \in Listed(membershipEpochs[u][k].accountIds) :
          y \in AccountId /\ y # x /\ accounts[y].exists /\ accounts[y].state # "PendingBaseline"
  BY <1>1, MembersType, ListedIn DEF ListedWasActivated
<1>9. ListedWasActivated'
  <2>1. ASSUME NEW y \in Listed(ids)
        PROVE  accounts'[y].exists /\ accounts'[y].state # "PendingBaseline"
    <3>1. \A k \in 1..Len(old) : /\ old[k] \in AccountId /\ old[k] # x
                                 /\ accounts[old[k]].exists /\ accounts[old[k]].state = "Active"
      BY <1>1, <1>5 DEF old
    <3>2. y = x \/ \E k \in 1..Len(old) : y = old[k]
      BY <1>7, <2>1 DEF Listed
    <3> QED
      BY <1>1, <3>1, <3>2
  <2> SUFFICES ASSUME NEW u \in TrackId, NEW k \in 1..Len(membershipEpochs'[u]),
                      NEW y \in Listed(membershipEpochs'[u][k].accountIds)
               PROVE  accounts'[y].exists /\ accounts'[y].state # "PendingBaseline"
    BY DEF ListedWasActivated
  <2>2. CASE k \in 1..Len(membershipEpochs[u]) /\ membershipEpochs'[u][k] = membershipEpochs[u][k]
    BY <1>1, <1>8, <2>2
  <2>3. CASE u = t /\ membershipEpochs'[u][k].accountIds = ids
    BY <2>1, <2>3
  <2> QED
    BY <1>4, <2>2, <2>3
<1>10. EpochsChained'
  <2>1. (Listed(ids) \ Listed(old)) \cup (Listed(old) \ Listed(ids)) = {x}
    BY <1>7
  <2>2. \A j \in 1..Len(membershipEpochs[t]) :
          Listed(membershipEpochs[t][j].accountIds) \cap Listed(ids) \subseteq Listed(old)
    BY <1>1, <1>7, <1>8
  <2>3. now' = now
    BY DEF activateAccount
  <2> QED
    BY <1>1, <2>1, <2>2, <2>3, EpochOpens DEF old
<1> QED
  BY <1>6, <1>9, <1>10

(* Removal of an active account: it leaves the members of its track, and nobody else moves. *)
LEMMA RemovalLeaves ==
  ASSUME TypeOK, MembersAreActive, ListedWasActivated, EpochsChained, AccountSpent,
         NEW s \in acSigs, removeAccount(s), accounts[s.subject].state = "Active"
  PROVE  MembersAreActive' /\ ListedWasActivated' /\ EpochsChained'
<1> DEFINE x == s.subject
<1>0. PICK t \in TrackId : t = accounts[x].trackId
  BY RemoveWrites
<1> DEFINE old == currentMembers(t)
           ids == Without(old, x)
<1>1. /\ x \in AccountId
      /\ accounts[x].exists /\ accounts[x].state = "Active"
      /\ \A y \in AccountId : y # x => accounts'[y] = accounts[y]
      /\ accounts'[x].exists /\ accounts'[x].state = "Removed" /\ accounts'[x].trackId = t
      /\ openMembershipEpoch(t, ids)
  BY <1>0, RemoveWrites
<1>2. /\ ids \in Seq(AccountId)
      /\ \A k \in 1..Len(ids) : ids[k] # x /\ \E j \in 1..Len(old) : old[j] = ids[k]
      /\ \A j \in 1..Len(old) : old[j] # x => \E k \in 1..Len(ids) : ids[k] = old[j]
      /\ \A j, k \in 1..Len(ids) : ids[j] = ids[k] => j = k
      /\ \E k \in 1..Len(old) : old[k] = x
  <2> DEFINE was == currentMembers(accounts[x].trackId)
             out == Without(was, x)
  <2>1. /\ out \in Seq(AccountId)
        /\ \A k \in 1..Len(out) : out[k] # x /\ \E j \in 1..Len(was) : was[j] = out[k]
        /\ \A j \in 1..Len(was) : was[j] # x => \E k \in 1..Len(out) : out[k] = was[j]
        /\ \A j, k \in 1..Len(out) : out[j] = out[k] => j = k
        /\ \E k \in 1..Len(was) : was[k] = x
    BY <1>1, RemovedMember
  <2>2. was = old /\ out = ids
    BY <1>0
  <2> HIDE DEF was, out, old, ids
  <2> QED
    BY <2>1, <2>2
<1> HIDE DEF x, old, ids
<1>3. /\ currentMembers(t)' = ids
      /\ \A u \in TrackId : u # t => currentMembers(u)' = currentMembers(u)
      /\ \A u \in TrackId : \A k \in 1..Len(membershipEpochs'[u]) :
           \/ k \in 1..Len(membershipEpochs[u])
                /\ membershipEpochs'[u][k] = membershipEpochs[u][k]
           \/ u = t /\ membershipEpochs'[u][k].accountIds = ids
  BY <1>1, <1>2, OpenedMembers
<1>4. ASSUME NEW u \in TrackId
      PROVE  LET c == currentMembers(u) IN
             /\ c \in Seq(AccountId)
             /\ \A k \in 1..Len(c) : /\ c[k] \in AccountId
                                     /\ accounts[c[k]].exists /\ accounts[c[k]].state = "Active"
                                     /\ accounts[c[k]].trackId = u
             /\ \A y \in AccountId :
                  accounts[y].exists /\ accounts[y].state = "Active" /\ accounts[y].trackId = u
                    => \E k \in 1..Len(c) : c[k] = y
             /\ \A j, k \in 1..Len(c) : c[j] = c[k] => j = k
  BY MembersType DEF MembersAreActive
<1>5. MembersAreActive'
  <2> SUFFICES ASSUME NEW u \in TrackId
               PROVE  LET c == currentMembers(u)' IN
                      /\ \A k \in 1..Len(c) :
                           /\ accounts'[c[k]].exists /\ accounts'[c[k]].state = "Active"
                           /\ accounts'[c[k]].trackId = u
                      /\ \A y \in AccountId :
                           accounts'[y].exists /\ accounts'[y].state = "Active"
                             /\ accounts'[y].trackId = u => \E k \in 1..Len(c) : c[k] = y
                      /\ \A j, k \in 1..Len(c) : c[j] = c[k] => j = k
    BY DEF MembersAreActive
  <2>1. CASE u # t
    <3> DEFINE c == currentMembers(u)
    <3>1. /\ c' = c
          /\ \A k \in 1..Len(c) : /\ c[k] \in AccountId
                                  /\ accounts[c[k]].exists /\ accounts[c[k]].state = "Active"
                                  /\ accounts[c[k]].trackId = u
          /\ \A y \in AccountId :
               accounts[y].exists /\ accounts[y].state = "Active" /\ accounts[y].trackId = u
                 => \E k \in 1..Len(c) : c[k] = y
          /\ \A j, k \in 1..Len(c) : c[j] = c[k] => j = k
      BY <1>3, <1>4, <2>1
    <3> HIDE DEF c
    <3>2. \A y \in AccountId : accounts'[y].trackId = u => accounts'[y] = accounts[y]
      BY <1>1, <2>1
    <3>3. \A k \in 1..Len(c) : accounts'[c[k]] = accounts[c[k]]
      BY <1>0, <1>1, <2>1, <3>1
    <3> QED
      BY <3>1, <3>2, <3>3 DEF c
  <2>2. CASE u = t
    <3>1. /\ \A k \in 1..Len(old) : /\ old[k] \in AccountId
                                    /\ accounts[old[k]].exists /\ accounts[old[k]].state = "Active"
                                    /\ accounts[old[k]].trackId = t
          /\ \A y \in AccountId :
               accounts[y].exists /\ accounts[y].state = "Active" /\ accounts[y].trackId = t
                 => \E k \in 1..Len(old) : old[k] = y
      BY <1>4 DEF old
    <3>2. \A k \in 1..Len(ids) :
            /\ accounts'[ids[k]].exists /\ accounts'[ids[k]].state = "Active"
            /\ accounts'[ids[k]].trackId = t
      <4> SUFFICES ASSUME NEW k \in 1..Len(ids)
                   PROVE  /\ accounts'[ids[k]].exists /\ accounts'[ids[k]].state = "Active"
                          /\ accounts'[ids[k]].trackId = t
        OBVIOUS
      <4>1. PICK j \in 1..Len(old) : old[j] = ids[k] /\ ids[k] # x
        BY <1>2
      <4> QED
        BY <1>1, <3>1, <4>1
    <3>3. ASSUME NEW y \in AccountId, accounts'[y].exists, accounts'[y].state = "Active",
                 accounts'[y].trackId = t
          PROVE  \E k \in 1..Len(ids) : ids[k] = y
      <4>1. y # x /\ accounts'[y] = accounts[y]
        BY <1>1, <3>3
      <4>2. PICK j \in 1..Len(old) : old[j] = y
        BY <3>1, <3>3, <4>1
      <4> QED
        BY <1>2, <4>1, <4>2
    <3> QED
      BY <1>2, <1>3, <2>2, <3>2, <3>3
  <2> QED
    BY <2>1, <2>2
<1>6. Listed(old) = Listed(ids) \cup {x} /\ x \notin Listed(ids)
  <2>1. \A y \in Listed(ids) : y # x /\ y \in Listed(old)
    BY <1>2 DEF Listed
  <2>2. \A y \in Listed(old) : y = x \/ y \in Listed(ids)
    BY <1>2 DEF Listed
  <2>3. x \in Listed(old)
    BY <1>2 DEF Listed
  <2> QED
    BY <2>1, <2>2, <2>3
<1>7. \A u \in TrackId : \A k \in 1..Len(membershipEpochs[u]) :
        \A y \in Listed(membershipEpochs[u][k].accountIds) :
          y \in AccountId /\ accounts[y].exists /\ accounts[y].state # "PendingBaseline"
  BY MembersType, ListedIn DEF ListedWasActivated
<1>8. ListedWasActivated'
  <2>1. ASSUME NEW y \in AccountId, accounts[y].exists, accounts[y].state # "PendingBaseline"
        PROVE  accounts'[y].exists /\ accounts'[y].state # "PendingBaseline"
    BY <1>1, <2>1
  <2>2. ASSUME NEW y \in Listed(ids)
        PROVE  y \in AccountId /\ accounts[y].exists /\ accounts[y].state # "PendingBaseline"
    <3>1. \A k \in 1..Len(old) : /\ old[k] \in AccountId
                                 /\ accounts[old[k]].exists /\ accounts[old[k]].state = "Active"
      BY <1>4 DEF old
    <3>2. PICK k \in 1..Len(old) : y = old[k]
      BY <1>2, <2>2 DEF Listed
    <3> QED
      BY <3>1, <3>2
  <2> SUFFICES ASSUME NEW u \in TrackId, NEW k \in 1..Len(membershipEpochs'[u]),
                      NEW y \in Listed(membershipEpochs'[u][k].accountIds)
               PROVE  accounts'[y].exists /\ accounts'[y].state # "PendingBaseline"
    BY DEF ListedWasActivated
  <2>3. CASE k \in 1..Len(membershipEpochs[u]) /\ membershipEpochs'[u][k] = membershipEpochs[u][k]
    BY <1>7, <2>1, <2>3
  <2>4. CASE u = t /\ membershipEpochs'[u][k].accountIds = ids
    BY <2>1, <2>2, <2>4
  <2> QED
    BY <1>3, <2>3, <2>4
<1>9. EpochsChained'
  <2>1. (Listed(ids) \ Listed(old)) \cup (Listed(old) \ Listed(ids)) = {x}
    BY <1>6
  <2>2. \A j \in 1..Len(membershipEpochs[t]) :
          Listed(membershipEpochs[t][j].accountIds) \cap Listed(ids) \subseteq Listed(old)
    BY <1>6
  <2>3. now' = now
    BY DEF removeAccount
  <2>4. ids \in Seq(AccountId) /\ openMembershipEpoch(t, ids)
    BY <1>1, <1>2
  <2> QED
    BY <2>1, <2>2, <2>3, <2>4, EpochOpens DEF old
<1> QED
  BY <1>5, <1>8, <1>9

-----------------------------------------------------------------------------
(* Every call of the contract, and every signature, keeps the inductive invariant. *)
LEMMA AccountIInvStep ==
  ASSUME IInv, AccountStep
  PROVE  IInv'
<1>0. /\ TypeOK /\ TracksOwned /\ AccountSpent /\ MembersAreActive /\ ListedWasActivated
      /\ EpochsChained
      /\ now \in Nat
  BY DEF IInv, TypeOK, IdentityTypeOK
<1>1. TypeOK' /\ AccountSpent'
  BY <1>0, AccountTypeStep, AccountSpentStep
<1>2. UNCHANGED <<now, identities, tracks, idSigs>>
  BY AccountStepFrame
<1>3. TracksOwned'
  BY <1>0, <1>2 DEF TracksOwned
<1>4. ASSUME NEW s \in acSigs, NEW x \in AccountId, registerAccount(s, x)
      PROVE  MembersAreActive' /\ ListedWasActivated' /\ EpochsChained'
  BY <1>0, <1>2, <1>4, RegisterWrites, MembershipKept
<1>5. ASSUME NEW s \in acSigs, activateAccount(s)
      PROVE  MembersAreActive' /\ ListedWasActivated' /\ EpochsChained'
  BY <1>0, <1>5, ActivationJoins
<1>6. ASSUME NEW s \in acSigs, removeAccount(s)
      PROVE  MembersAreActive' /\ ListedWasActivated' /\ EpochsChained'
  <2>1. CASE accounts[s.subject].state = "Active"
    BY <1>0, <1>6, <2>1, RemovalLeaves
  <2>2. CASE accounts[s.subject].state # "Active"
    BY <1>0, <1>2, <1>6, <2>2, RemoveWrites, MembershipKept
  <2> QED
    BY <2>1, <2>2
<1>7. ASSUME NEW s \in acSigs, NEW c \in Commitment, rotateBindingCredential(s, c)
      PROVE  MembersAreActive' /\ ListedWasActivated' /\ EpochsChained'
  BY <1>0, <1>2, <1>7, RotateWrites, MembershipKept
<1>8. ASSUME UNCHANGED <<accounts, membershipEpochs>>
      PROVE  MembersAreActive' /\ ListedWasActivated' /\ EpochsChained'
  BY <1>0, <1>2, <1>8, MembershipKept
<1>9. ASSUME NEW s \in acSigs, LoseAccountCommand(s)
      PROVE  UNCHANGED <<accounts, membershipEpochs>>
  BY <1>9 DEF LoseAccountCommand
<1>10. MembersAreActive' /\ ListedWasActivated' /\ EpochsChained'
  BY <1>0, <1>4, <1>5, <1>6, <1>7, <1>8, <1>9, SigningStep DEF AccountStep, CommandSigned
<1> QED
  BY <1>1, <1>3, <1>10 DEF IInv

(* What happens on the identities' side leaves the accounts consistent with it. *)
LEMMA AccountFrame ==
  ASSUME IInv, UNCHANGED acVars, IdentityTypeOK', now <= now',
         \A t \in TrackId : tracks[t].exists => tracks'[t] = tracks[t],
         \A id \in IdentityId : identities[id].exists =>
           identities'[id].exists /\ identities[id].ownerEpoch <= identities'[id].ownerEpoch,
         \A t \in TrackId : tracks'[t].exists => \/ tracks[t].exists
                                                 \/ identities'[tracks'[t].identityId].exists
  PROVE  IInv'
<1>0. /\ TypeOK /\ TracksOwned /\ AccountSpent /\ MembersAreActive /\ ListedWasActivated
      /\ EpochsChained
      /\ UNCHANGED <<accounts, membershipEpochs, trackNonce, acSigs>>
      /\ now' \in Nat
  BY DEF IInv, acVars, IdentityTypeOK
<1>1. TypeOK'
  BY <1>0 DEF TypeOK
<1>2. \A t \in TrackId : tracks[t].identityId \in IdentityId
  BY <1>0 DEF TypeOK, IdentityTypeOK, Track
<1>3. TracksOwned'
  BY <1>0, <1>2 DEF TracksOwned
<1>4. MembersAreActive' /\ ListedWasActivated' /\ EpochsChained'
  BY <1>0, MembershipKept
<1>5. ASSUME NEW s \in acSigs
      PROVE  /\ CommandTrack(s)' = CommandTrack(s)
             /\ tracks'[CommandTrack(s)].exists
             /\ s.ownerEpoch <= trackOwnerEpoch(CommandTrack(s))'
  <2>1. CommandTrack(s) \in TrackId /\ CommandTrack(s)' = CommandTrack(s)
    BY <1>0 DEF AccountSpent, CommandTrack, TypeOK, AccountBinding
  <2> DEFINE t == CommandTrack(s)
             id == tracks[t].identityId
  <2>2. /\ tracks[t].exists /\ tracks'[t] = tracks[t] /\ id \in IdentityId
        /\ identities[id].exists
        /\ s.ownerEpoch <= identities[id].ownerEpoch
    BY <1>0, <1>2, <2>1 DEF AccountSpent, TracksOwned, trackOwnerEpoch
  <2>3. /\ s.ownerEpoch \in Nat /\ identities[id].ownerEpoch \in Nat
        /\ identities'[id].ownerEpoch \in Nat
    BY <1>0, <2>2, AccountCommandFields DEF TypeOK, IdentityTypeOK, Identity
  <2>4. trackOwnerEpoch(CommandTrack(s))' = identities'[id].ownerEpoch
    BY <2>1, <2>2 DEF trackOwnerEpoch
  <2> QED
    BY <2>1, <2>2, <2>3, <2>4
<1>6. AccountSpent'
  BY <1>0, <1>5 DEF AccountSpent
<1> QED
  BY <1>1, <1>3, <1>4, <1>6 DEF IInv

(* The state a new deployment starts in satisfies the inductive invariant. *)
LEMMA AccountInitIInv == Init => IInv
<1> SUFFICES ASSUME Init PROVE IInv
  OBVIOUS
<1>1. IdentityInit /\ AccountInit /\ IdentityTypeOK
  BY IdentityTypeInit DEF Init
<1>2. NoAccount \in AccountBinding
  BY AccountAssumption DEF NoAccount, AccountBinding, AccountState
<1>3. TypeOK
  BY <1>1, <1>2 DEF AccountInit, TypeOK
<1>4. TracksOwned /\ AccountSpent
  BY <1>1 DEF IdentityInit, AccountInit, TracksOwned, NoTrack, AccountSpent
<1>5. \A t \in TrackId : Len(membershipEpochs[t]) = 0 /\ currentMembers(t) = <<>>
  BY <1>1 DEF AccountInit, currentMembers
<1>6. \A x \in AccountId : ~accounts[x].exists
  BY <1>1 DEF AccountInit, NoAccount
<1>7. MembersAreActive /\ ListedWasActivated /\ EpochsChained
  BY <1>5, <1>6 DEF MembersAreActive, ListedWasActivated, EpochsChained
<1> QED
  BY <1>3, <1>4, <1>7 DEF IInv

(* Every step of the composed system keeps the inductive invariant. *)
LEMMA IInvStep == IInv /\ [Next]_vars => IInv'
<1> SUFFICES ASSUME IInv, [Next]_vars PROVE IInv'
  OBVIOUS
<1>1. IdentityTypeOK
  BY DEF IInv, TypeOK
<1>2. CASE (IdentityStep \/ Tick) /\ UNCHANGED acVars
  BY <1>1, <1>2, IdentityTypeStep, IdentityKeeps, AccountFrame
<1>3. CASE AccountStep
  BY <1>3, AccountIInvStep
<1>4. CASE UNCHANGED vars
  <2>1. /\ IdentityTypeOK' /\ UNCHANGED acVars /\ UNCHANGED <<now, tracks, identities>>
        /\ now \in Nat /\ \A id \in IdentityId : identities[id].ownerEpoch \in Nat
    BY <1>1, <1>4 DEF vars, idVars, acVars, IdentityTypeOK, Identity
  <2> QED
    BY <2>1, AccountFrame
<1> QED
  BY <1>2, <1>3, <1>4 DEF Next

(* The registry never leaves the inductive invariant. *)
THEOREM Invariance == Spec => []IInv
BY AccountInitIInv, IInvStep, PTL DEF Spec

(***************************************************************************)
(* In whatever order registrations, activations, removals and rotations    *)
(* are signed and relayed, the newest epoch of a track lists each active   *)
(* account of the track exactly once and nothing else.                     *)
(***************************************************************************)
THEOREM MembersSafe == Spec => []MembersAreActive
<1>1. IInv => MembersAreActive
  BY DEF IInv
<1> QED
  BY <1>1, Invariance, PTL

(***************************************************************************)
(* The membership epochs of a track are a hash-linked, time-ordered chain  *)
(* of one-account changes in which nobody who left ever returns.           *)
(***************************************************************************)
THEOREM EpochsSafe == Spec => []EpochsChained
<1>1. IInv => EpochsChained
  BY DEF IInv
<1> QED
  BY <1>1, Invariance, PTL

(* No account command is accepted twice, however late and often it is relayed. *)
THEOREM AccountReplaySafe == Spec => []AccountNoReplay
<1>1. ASSUME IInv, NEW s \in acSigs, s.used, AccountAcceptable(s)
      PROVE  FALSE
  <2>1. TypeOK /\ AccountSpent
    BY <1>1 DEF IInv
  <2>2. s.nonce = trackNonce[CommandTrack(s)] /\ s.nonce \in Nat
    BY <1>1, <2>1, AcceptedNames, AccountCommandFields DEF ConsumesCommand
  <2> QED
    BY <1>1, <2>1, <2>2 DEF AccountSpent
<1>2. IInv => AccountNoReplay
  BY <1>1 DEF AccountNoReplay
<1> QED
  BY <1>2, Invariance, PTL

(***************************************************************************)
(* A confirmed rotation of an identity's owner, which this registry is     *)
(* never told of, kills every command on the identity's tracks that was    *)
(* signed before it: the epoch it was signed for is over.                  *)
(***************************************************************************)
THEOREM RotationSafe == Spec => RotationKillsCommands
<1>1. ASSUME IInv, Next PROVE KillsCommands
  <2>0. TypeOK /\ AccountSpent /\ TracksOwned /\ IdentityTypeOK
    BY <1>1 DEF IInv, TypeOK
  <2> SUFFICES ASSUME NEW s \in acSigs \cap acSigs',
                      identities'[tracks[CommandTrack(s)].identityId].owner
                        # identities[tracks[CommandTrack(s)].identityId].owner,
                      AccountAcceptable(s)'
               PROVE  FALSE
    BY DEF KillsCommands
  <2>1. CASE AccountStep
    BY <2>1, AccountStepFrame
  <2>2. CASE (IdentityStep \/ Tick) /\ UNCHANGED acVars
    <3>1. CommandTrack(s) \in TrackId /\ CommandTrack(s)' = CommandTrack(s)
      <4>1. \A x \in AccountId : accounts[x].trackId \in TrackId
        BY <2>0 DEF TypeOK, AccountBinding
      <4> QED
        BY <2>0, <2>2, <4>1 DEF AccountSpent, CommandTrack, acVars
    <3>2. PICK id \in IdentityId : id = tracks[CommandTrack(s)].identityId
      BY <2>0, <3>1 DEF IdentityTypeOK, Track
    <3>3. /\ tracks[CommandTrack(s)].exists /\ identities[id].exists
          /\ s.ownerEpoch <= identities[id].ownerEpoch
      BY <2>0, <3>1, <3>2 DEF AccountSpent, TracksOwned, trackOwnerEpoch
    <3>4. identities'[id].ownerEpoch = identities[id].ownerEpoch + 1
      BY <2>0, <2>2, <3>2, <3>3, ConsentedStep DEF Consented
    <3>5. tracks'[CommandTrack(s)] = tracks[CommandTrack(s)]
      BY <2>0, <2>2, <3>1, <3>3, IdentityKeeps
    <3>6. s.ownerEpoch = trackOwnerEpoch(CommandTrack(s))'
      BY DEF AccountAcceptable, RegisterAllowed, ActivateAllowed, RemoveAllowed, RotateAllowed,
             ConsumesCommand, CommandTrack
    <3>7. s.ownerEpoch = identities'[id].ownerEpoch
      BY <3>1, <3>2, <3>5, <3>6 DEF trackOwnerEpoch
    <3>8. s.ownerEpoch \in Nat /\ identities[id].ownerEpoch \in Nat
      BY <2>0, AccountCommandFields DEF IdentityTypeOK, Identity
    <3> QED
      BY <3>3, <3>4, <3>7, <3>8
  <2> QED
    BY <1>1, <2>1, <2>2 DEF Next
<1> QED
  BY <1>1, Invariance, PTL DEF Spec, RotationKillsCommands

(***************************************************************************)
(* No call rewrites history: bindings keep their track and registration, a *)
(* removed one is final, states only move forward, epochs only grow.       *)
(***************************************************************************)
THEOREM HistorySafe == Spec => HistoryKept
<1>1. ASSUME IInv, Next PROVE KeepsHistory
  <2>0. TypeOK /\ AccountSpent /\ MembersAreActive
    BY <1>1 DEF IInv
  <2>1. ASSUME UNCHANGED membershipEpochs
        PROVE  \A t \in TrackId :
                 /\ Len(membershipEpochs'[t]) \in {Len(membershipEpochs[t]), Len(membershipEpochs[t]) + 1}
                 /\ \A k \in 1..Len(membershipEpochs[t]) :
                      membershipEpochs'[t][k] = membershipEpochs[t][k]
    BY <2>1
  <2>2. ASSUME NEW t \in TrackId, NEW ids \in Seq(AccountId), openMembershipEpoch(t, ids)
        PROVE  \A u \in TrackId :
                 /\ Len(membershipEpochs'[u]) \in {Len(membershipEpochs[u]), Len(membershipEpochs[u]) + 1}
                 /\ \A k \in 1..Len(membershipEpochs[u]) :
                      membershipEpochs'[u][k] = membershipEpochs[u][k]
    BY <2>0, <2>2, OpenedEpoch
  <2>3. ASSUME NEW s \in acSigs, NEW x \in AccountId, registerAccount(s, x)
        PROVE  KeepsHistory
    BY <2>0, <2>1, <2>3, RegisterWrites DEF KeepsHistory
  <2>4. ASSUME NEW s \in acSigs, activateAccount(s)
        PROVE  KeepsHistory
    <3>1. PICK t \in TrackId : t = accounts[s.subject].trackId
      BY <2>0, <2>4, ActivateWrites
    <3>2. PICK ids \in Seq(AccountId) : openMembershipEpoch(t, ids)
      BY <2>0, <2>4, <3>1, ActivateWrites
    <3> QED
      BY <2>0, <2>2, <2>4, <3>2, ActivateWrites DEF KeepsHistory
  <2>5. ASSUME NEW s \in acSigs, removeAccount(s)
        PROVE  KeepsHistory
    <3>1. CASE accounts[s.subject].state = "Active"
      <4>1. PICK t \in TrackId : t = accounts[s.subject].trackId
        BY <2>0, <2>5, RemoveWrites
      <4>2. PICK ids \in Seq(AccountId) : openMembershipEpoch(t, ids)
        BY <2>0, <2>5, <3>1, <4>1, RemoveWrites, RemovedMember
      <4> QED
        BY <2>0, <2>2, <2>5, <4>2, RemoveWrites DEF KeepsHistory
    <3>2. CASE accounts[s.subject].state # "Active"
      BY <2>0, <2>1, <2>5, <3>2, RemoveWrites DEF KeepsHistory
    <3> QED
      BY <3>1, <3>2
  <2>6. ASSUME NEW s \in acSigs, NEW c \in Commitment, rotateBindingCredential(s, c)
        PROVE  KeepsHistory
    BY <2>0, <2>1, <2>6, RotateWrites DEF KeepsHistory
  <2>7. ASSUME UNCHANGED <<accounts, membershipEpochs>> PROVE KeepsHistory
    BY <2>1, <2>7 DEF KeepsHistory
  <2>8. ASSUME NEW s \in acSigs, LoseAccountCommand(s) PROVE KeepsHistory
    BY <2>7, <2>8 DEF LoseAccountCommand
  <2>9. CASE AccountStep
    BY <2>0, <2>3, <2>4, <2>5, <2>6, <2>7, <2>8, <2>9, SigningStep
       DEF AccountStep, CommandSigned
  <2> QED
    BY <1>1, <2>7, <2>9 DEF Next, acVars
<1> QED
  BY <1>1, Invariance, PTL DEF Spec, HistoryKept
=============================================================================
