---------------------------- MODULE ProfileRegistry ----------------------------
(***************************************************************************)
(* contracts/src/ProfileRegistry.sol over the live IdentityRegistry: the   *)
(* optional public name and bio of an identity.  A text is a member of     *)
(* Text; the ones within MAX_NAME_BYTES and MAX_BIO_BYTES are Fits.        *)
(* SetProfile, unlike the commands of the other registries, carries no     *)
(* owner epoch: what binds it to the owner is the signature alone, checked *)
(* against the owner of the moment.                                        *)
(***************************************************************************)
EXTENDS IdentityRegistry

CONSTANTS
  Text, Fits,       \* name and bio together; the ones that are not too long
  NoText,           \* the empty profile
  MaxProfileNonce,  \* bound on an identity's profile nonce
  MaxProfileSigs    \* bound on the profile commands in relayers' hands

ASSUME ProfileAssumption ==
  /\ Fits \subseteq Text
  /\ MaxProfileNonce \in Nat /\ MaxProfileSigs \in Nat

VARIABLES
  profiles,      \* mapping(bytes32 => Profile)
  nonces,        \* mapping(bytes32 => uint64)
  profileSigs    \* signed commands of this contract's EIP-712 domain

profileVars == <<profiles, nonces, profileSigs>>
profileRegistryVars == <<now, idVars, profileVars>>

Profile == [text : Text \cup {NoText}, updatedAt : Nat]

SetProfileCommand ==
  [identityId : IdentityId, text : Text, nonce : Nat, deadline : Nat,
   signer : Address, used : BOOLEAN]

ProfilesEmpty ==
  /\ profiles = [i \in IdentityId |-> [text |-> NoText, updatedAt |-> 0]]
  /\ nonces = [i \in IdentityId |-> 0]
  /\ profileSigs = {}

(* Fault: the pending owner's signature is accepted as well. *)
SetProfileAllowedToPending(s) ==
  /\ identities[s.identityId].exists
  /\ s.text \in Fits
  /\ now <= s.deadline
  /\ s.nonce = nonces[s.identityId]
  /\ s.signer \in {identities[s.identityId].owner, identities[s.identityId].pendingOwner}

SetProfileAllowed(s) ==
  /\ identities[s.identityId].exists
  /\ s.text \in Fits
  /\ now <= s.deadline
  /\ s.nonce = nonces[s.identityId]
  /\ s.signer = identities[s.identityId].owner

(* Fault: the nonce is not consumed. *)
setProfileKeepsNonce(s) ==
  /\ SetProfileAllowed(s)
  /\ profiles' = [profiles EXCEPT ![s.identityId] =
                    [text |-> s.text, updatedAt |-> now]]
  /\ profileSigs' = MarkUsed(profileSigs, s)
  /\ UNCHANGED <<now, idVars, nonces>>

setProfile(s) ==
  /\ SetProfileAllowed(s)
  /\ nonces' = [nonces EXCEPT ![s.identityId] = s.nonce + 1]
  /\ profiles' = [profiles EXCEPT ![s.identityId] =
                    [text |-> s.text, updatedAt |-> now]]
  /\ profileSigs' = MarkUsed(profileSigs, s)
  /\ UNCHANGED <<now, idVars>>

(* buildSetProfileChallenge, signed by p. *)
SignProfile(id, text, p) ==
  /\ nonces[id] < MaxProfileNonce
  /\ Cardinality(profileSigs) < MaxProfileSigs
  /\ profileSigs' = profileSigs \cup
       {[identityId |-> id, text |-> text, nonce |-> nonces[id],
         deadline |-> now + Window, signer |-> p, used |-> FALSE]}
  /\ UNCHANGED <<now, idVars, profiles, nonces>>

LoseProfileCommand(s) ==
  /\ profileSigs' = profileSigs \ {s}
  /\ UNCHANGED <<now, idVars, profiles, nonces>>

ProfileStep ==
  \/ \E s \in profileSigs : setProfile(s)
  \/ \E id \in IdentityId, x \in Text, p \in Address : SignProfile(id, x, p)
  \/ \E s \in profileSigs : LoseProfileCommand(s)

ProfileInit == IdentityInit /\ ProfilesEmpty

ProfileNext ==
  \/ IdentityStep /\ UNCHANGED profileVars
  \/ ProfileStep
  \/ Tick /\ UNCHANGED profileVars

ProfileSpec == ProfileInit /\ [][ProfileNext]_profileRegistryVars

-----------------------------------------------------------------------------
ProfileTypeOK ==
  /\ IdentityTypeOK
  /\ profiles \in [IdentityId -> Profile]
  /\ nonces \in [IdentityId -> Nat]
  /\ profileSigs \subseteq SetProfileCommand

(***************************************************************************)
(* An accepted profile command is never acceptable again, so overwriting a *)
(* bio cannot be undone by resubmitting the command of the earlier text.   *)
(***************************************************************************)
ProfileNoReplay == \A s \in profileSigs : s.used => ~SetProfileAllowed(s)

(***************************************************************************)
(* The text changes only to one the owner of the moment signed for this    *)
(* identity, and it does not change together with the owner: no relayer,   *)
(* former owner or pending owner writes it.                                *)
(***************************************************************************)
WrittenByOwner ==
  \A id \in IdentityId :
    profiles'[id] # profiles[id] =>
      /\ identities'[id] = identities[id]
      /\ nonces'[id] = nonces[id] + 1
      /\ \E s \in profileSigs : /\ s.identityId = id /\ ~s.used
                                /\ s.text = profiles'[id].text
                                /\ s.signer = identities[id].owner
ProfileOnlyByOwner == [][WrittenByOwner]_profileRegistryVars

(* The strengthening of ProfileNoReplay that is inductive. *)
ProfileSpent ==
  \A s \in profileSigs :
    /\ s.nonce <= nonces[s.identityId]
    /\ s.used => s.nonce < nonces[s.identityId]

(* The inductive invariant of the two registries together. *)
ProfileInv == ProfileTypeOK /\ IdentitySpent /\ RotationConsistent /\ ProfileSpent
=============================================================================
