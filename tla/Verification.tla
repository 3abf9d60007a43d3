---------------------------- MODULE Verification ----------------------------
(***************************************************************************)
(* From figures to a verdict: the signed envelope (attestation, prove.rs), *)
(* the performance guest that checks the signature and recomputes return   *)
(* and drawdown in integers, and the verifier that judges an exported      *)
(* bundle against what its operator trusts.                                *)
(*                                                                         *)
(* Digests, commitments and fingerprints are the values they are taken of: *)
(* SHA-256 is assumed to be injective.  A signature is the key and what it *)
(* signs; a receipt is what the guest committed, sealed under the guest's  *)
(* image.                                                                  *)
(***************************************************************************)
EXTENDS Figures

CONSTANTS
    Scale,           \* fixed point: SCALE
    Image,           \* the image id of the performance guest
    Interval, Grace  \* CalendarPolicy of the verifier

ASSUME VerificationAssumption == Scale \in Nat \ {0} /\ Interval \in Nat \ {0} /\ Grace \in Nat

(***************************************************************************)
(* The prover's input.                                                     *)
(***************************************************************************)
\* decimal_to_scaled_i64 over the chained index.
Scaled(index) == [i \in DOMAIN index |-> Round(Times(index[i], Int2Rat(Scale)))]

Deltas(nav) == [i \in 1..(Len(nav) - 1) |-> nav[i + 1] - nav[i]]

\* build_guest_input: what the envelope commits to, signed.  `first` is the
\* record as it was loaded for the commitments, `history` what was computed
\* from a second load.
Envelope(account, first, history, now) ==
    [account |-> account, raw |-> first, normalized |-> history.index,
     coverage |-> Len(history.grid),
     start |-> Head(history.grid), end |-> Last(history.grid), observed |-> now]

Signature(key, envelope) == [key |-> key, over |-> envelope]

GuestInput(key, envelope, history) ==
    LET nav == Scaled(history.index)
    IN [envelope |-> envelope, key |-> key, signature |-> Signature(key, envelope),
        nav |-> nav, deltas |-> Deltas(nav)]

(***************************************************************************)
(* The guest.                                                              *)
(***************************************************************************)
Rejected == [kind |-> "rejected"]

\* verify_origin: the signature is this key's, over this envelope.
OriginVerified(input) == input.signature = Signature(input.key, input.envelope)

\* reconcile: the deltas add up to the change of the series.
Reconciled(input) == Last(input.nav) - Head(input.nav) = FoldLeft(LAMBDA s, d : s + d, 0, input.deltas)

\* twr_index: chained ratios, each rounded down.
TwrIndex(nav) ==
    FoldLeftDomain(LAMBDA index, i : IF i = 1 THEN index
                                     ELSE (index * ((nav[i] * Scale) \div nav[i - 1])) \div Scale,
                   Scale, nav)

\* Fault: the fall below the first value.
DrawdownFromStart(nav) ==
    (Max({0} \cup {((Head(nav) - nav[i]) * Scale) \div Head(nav) : i \in DOMAIN nav}) * 10000) \div Scale

\* max_drawdown_bp: the deepest fall below a running peak, rounded down twice.
MaxDrawdownBp(nav) ==
    LET Step(acc, value) ==
            LET fall == ((acc.peak - value) * Scale) \div acc.peak
            IN IF value > acc.peak THEN [acc EXCEPT !.peak = value]
               ELSE [acc EXCEPT !.worst = Max({@, fall})]
    IN (FoldLeft(Step, [peak |-> Head(nav), worst |-> 0], nav).worst * 10000) \div Scale

\* run: a journal, or nothing at all for an input that does not validate.
GuestRun(input) ==
    IF /\ OriginVerified(input) /\ Reconciled(input)
       /\ \A i \in DOMAIN input.nav : input.nav[i] > 0
    THEN [kind |-> "journal", digest |-> input.envelope, signer |-> input.key,
          start |-> input.envelope.start, end |-> input.envelope.end,
          twr |-> TwrIndex(input.nav), mdd |-> MaxDrawdownBp(input.nav), capital |-> Last(input.nav)]
    ELSE Rejected

Receipt(journal) == [image |-> Image, sealed |-> journal, journal |-> journal]

(***************************************************************************)
(* The verifier.                                                           *)
(***************************************************************************)
\* Time zero of the verifier's clock: further back than an interval and its grace.
Epoch == -(Interval + Grace)

\* derive_gaps: every interval since the last committed one whose deadline has passed.
DeriveGaps(last, now) ==
    LET missed == Max({0} \cup {k \in 1..(now - last) : last + k * Interval + Grace <= now})
    IN [k \in 1..missed |-> <<last + (k - 1) * Interval, last + k * Interval>>]

\* verify_hashes: every file the manifest lists is there and is the one it lists.
HashesPass(bundle) ==
    \A f \in DOMAIN bundle.manifest : f \in DOMAIN bundle.files /\ bundle.files[f] = bundle.manifest[f]

Carried(bundle, f) == f \in DOMAIN bundle.files /\ f \in DOMAIN bundle.manifest

\* The root commits to the members and their order; a bundle without members has nothing to check.
RootPasses(bundle) ==
    /\ Carried(bundle, "accounts")
    /\ bundle.files["accounts"].members # << >>
    /\ bundle.files["accounts"].root = bundle.files["accounts"].members

\* verify_receipt: sealed under the guest's image, and the journal the bundle shows.
CalculationPasses(bundle) ==
    /\ Carried(bundle, "proofs")
    /\ LET r == bundle.files["proofs"].receipt
       IN r.image = Image /\ r.sealed = r.journal /\ r.journal = bundle.files["proofs"].journal

RegistryPasses(bundle, trustedAnchors) ==
    Carried(bundle, "anchors") /\ bundle.files["anchors"] \in trustedAnchors

\* A bundle without checkpoints claims none since time zero.
CoveragePasses(bundle, now) ==
    LET c == IF Carried(bundle, "checkpoints") THEN bundle.files["checkpoints"] ELSE [last |-> Epoch, gaps |-> << >>]
    IN c.gaps = DeriveGaps(c.last, now)

\* Fault: a listed signer is trusted, revoked or not, for any period.
AssessOriginListed(journal, trust) ==
    IF journal.signer \in DOMAIN trust THEN "trusted" ELSE "self attested"

\* assess_origin: the signer against the verifier's own list.
AssessOrigin(journal, trust) ==
    LET c == trust[journal.signer]
    IN CASE journal.signer \notin DOMAIN trust -> "self attested"
         [] journal.signer \in DOMAIN trust /\ c.revoked -> "revoked"
         [] journal.signer \in DOMAIN trust /\ ~c.revoked /\ (journal.end < c.from \/ journal.end > c.until) -> "outside validity"
         [] OTHER -> "trusted"

\* verify and the exit code of linvesther-verify: 1 when a check does not
\* pass, 3 when all do and the origin is not trusted.
Verify(bundle, trust, trustedAnchors, now) ==
    LET origin == IF CalculationPasses(bundle) THEN AssessOrigin(bundle.files["proofs"].receipt.journal, trust)
                  ELSE "unavailable"
        allPass == /\ HashesPass(bundle) /\ RootPasses(bundle) /\ CalculationPasses(bundle)
                   /\ RegistryPasses(bundle, trustedAnchors) /\ CoveragePasses(bundle, now)
    IN [exit |-> IF ~allPass THEN 1 ELSE IF origin # "trusted" THEN 3 ELSE 0,
        origin |-> origin]

=============================================================================
