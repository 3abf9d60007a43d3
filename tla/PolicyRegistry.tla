---------------------------- MODULE PolicyRegistry ----------------------------
(***************************************************************************)
(* contracts/src/PolicyRegistry.sol: policy versions published by two of   *)
(* three governors under a timelock, and invalidated by two of three at    *)
(* once.                                                                   *)
(*                                                                         *)
(* Governors send their own transactions, so there is no signed command;   *)
(* what interleaves are their proposals and approvals.  An actionId is     *)
(* keccak256 of a counter: here the counter plus one.  `data' is the       *)
(* metadata hash of a version and, for an invalidation, the reason hash    *)
(* together with the exposure interval, which is stored and never read.    *)
(***************************************************************************)
EXTENDS Naturals, Sequences, FiniteSets

CONSTANTS
  Governor,            \* the three addresses of the constructor
  PolicyKind, PolicyHash,
  Data, NoData,
  TIMELOCK_DELAY,
  MaxTime,             \* bound on block.timestamp
  MaxActions           \* bound on _actionCounter

REQUIRED_APPROVALS == 2

ASSUME PolicyAssumption ==
  /\ IsFiniteSet(Governor) /\ Cardinality(Governor) = 3
  /\ NoData \notin Data
  /\ TIMELOCK_DELAY \in Nat \ {0}
  /\ MaxTime \in Nat /\ MaxActions \in Nat

VARIABLES
  now,            \* block.timestamp
  actions,        \* mapping(bytes32 => GovernanceAction), by counter
  hasApproved,    \* mapping(bytes32 => mapping(address => bool)), as a set per action
  versions,       \* mapping(bytes32 => mapping(bytes32 => PolicyVersion))
  versionHistory  \* mapping(bytes32 => bytes32[])

vars == <<now, actions, hasApproved, versions, versionHistory>>

GovernanceAction ==
  [kind : {"ScheduleVersion", "InvalidateVersion"}, policyKind : PolicyKind,
   policyHash : PolicyHash, data : Data, proposedAt : Nat, proposer : Governor,
   approvalCount : Nat, executed : BOOLEAN]

PolicyVersion ==
  [metadataHash : Data \cup {NoData}, proposer : Governor \cup {NoData},
   publishedAt : Nat, effectiveFrom : Nat, status : {"Scheduled", "Invalidated"},
   invalidation : Data \cup {NoData}, invalidatedAt : Nat, exists : BOOLEAN]

NoVersion ==
  [metadataHash |-> NoData, proposer |-> NoData, publishedAt |-> 0,
   effectiveFrom |-> 0, status |-> "Scheduled", invalidation |-> NoData,
   invalidatedAt |-> 0, exists |-> FALSE]

Init ==
  /\ now = 0
  /\ actions = <<>>
  /\ hasApproved = <<>>
  /\ versions = [k \in PolicyKind |-> [h \in PolicyHash |-> NoVersion]]
  /\ versionHistory = [k \in PolicyKind |-> <<>>]

-----------------------------------------------------------------------------
(* The proposer's own approval is the first of the two. *)
Propose(kind, g, k, h, d) ==
  /\ Len(actions) < MaxActions
  /\ actions' = Append(actions,
       [kind |-> kind, policyKind |-> k, policyHash |-> h, data |-> d,
        proposedAt |-> now, proposer |-> g, approvalCount |-> 1, executed |-> FALSE])
  /\ hasApproved' = Append(hasApproved, {g})
  /\ UNCHANGED <<now, versions, versionHistory>>

proposeVersion(g, k, h, d) ==
  /\ ~versions[k][h].exists
  /\ Propose("ScheduleVersion", g, k, h, d)

proposeInvalidation(g, k, h, d) ==
  /\ versions[k][h].exists
  /\ versions[k][h].status # "Invalidated"
  /\ Propose("InvalidateVersion", g, k, h, d)

(* Fault: the kind of the action is not checked. *)
PendingAnyKind(n, kind) == ~actions[n].executed

(* _requirePendingAction *)
Pending(n, kind) == ~actions[n].executed /\ actions[n].kind = kind

(* _approve, with the flag the caller sets when the count is reached. *)
Approved(n) == actions[n].approvalCount + 1 >= REQUIRED_APPROVALS

(* Fault: a governor may approve the same action twice. *)
approveTwice(g, n) ==
  /\ hasApproved' = [hasApproved EXCEPT ![n] = @ \cup {g}]
  /\ actions' = [actions EXCEPT ![n].approvalCount = @ + 1, ![n].executed = Approved(n)]

approve(g, n) ==
  /\ g \notin hasApproved[n]
  /\ hasApproved' = [hasApproved EXCEPT ![n] = @ \cup {g}]
  /\ actions' = [actions EXCEPT ![n].approvalCount = @ + 1, ![n].executed = Approved(n)]

(* Fault: the timelock runs from the proposal. *)
activationFromProposal(a) == a.proposedAt + TIMELOCK_DELAY

(* The timelock runs from the second approval. *)
activationTime(a) == now + TIMELOCK_DELAY

(* The version is written whether or not one of this hash exists by now. *)
approveVersion(g, n) ==
  LET a == actions[n] IN
  /\ Pending(n, "ScheduleVersion")
  /\ approve(g, n)
  /\ IF Approved(n)
       THEN /\ versions' = [versions EXCEPT ![a.policyKind][a.policyHash] =
                 [metadataHash |-> a.data, proposer |-> a.proposer,
                  publishedAt |-> a.proposedAt, effectiveFrom |-> activationTime(a),
                  status |-> "Scheduled", invalidation |-> NoData, invalidatedAt |-> 0,
                  exists |-> TRUE]]
            /\ versionHistory' = [versionHistory EXCEPT ![a.policyKind] =
                                    Append(@, a.policyHash)]
       ELSE UNCHANGED <<versions, versionHistory>>
  /\ UNCHANGED now

(* Reverts as a whole when another invalidation of the version came first. *)
approveInvalidation(g, n) ==
  LET a == actions[n] IN
  /\ Pending(n, "InvalidateVersion")
  /\ approve(g, n)
  /\ IF Approved(n)
       THEN /\ versions[a.policyKind][a.policyHash].status # "Invalidated"
            /\ versions' = [versions EXCEPT
                 ![a.policyKind][a.policyHash].status = "Invalidated",
                 ![a.policyKind][a.policyHash].invalidation = a.data,
                 ![a.policyKind][a.policyHash].invalidatedAt = now]
       ELSE UNCHANGED versions
  /\ UNCHANGED <<now, versionHistory>>

isEffective(k, h) ==
  /\ versions[k][h].exists
  /\ versions[k][h].status # "Invalidated"
  /\ now >= versions[k][h].effectiveFrom

Tick ==
  /\ now < MaxTime
  /\ now' = now + 1
  /\ UNCHANGED <<actions, hasApproved, versions, versionHistory>>

Next ==
  \/ \E g \in Governor, k \in PolicyKind, h \in PolicyHash, d \in Data :
       proposeVersion(g, k, h, d)
  \/ \E g \in Governor, k \in PolicyKind, h \in PolicyHash, d \in Data :
       proposeInvalidation(g, k, h, d)
  \/ \E g \in Governor, n \in DOMAIN actions : approveVersion(g, n)
  \/ \E g \in Governor, n \in DOMAIN actions : approveInvalidation(g, n)
  \/ Tick

Spec == Init /\ [][Next]_vars

-----------------------------------------------------------------------------
TypeOK ==
  /\ now \in Nat
  /\ actions \in Seq(GovernanceAction)
  /\ hasApproved \in Seq(SUBSET Governor)
  /\ Len(hasApproved) = Len(actions)
  /\ versions \in [PolicyKind -> [PolicyHash -> PolicyVersion]]
  /\ versionHistory \in [PolicyKind -> Seq(PolicyHash)]

(***************************************************************************)
(* Every published version was written by an executed action that two      *)
(* distinct governors approved, carries that action's data, and became     *)
(* effective no earlier than TIMELOCK_DELAY after its proposal; every      *)
(* executed schedule action is in the history, once.                       *)
(***************************************************************************)
ExecutedSchedules(k, h) ==
  {n \in DOMAIN actions : /\ actions[n].kind = "ScheduleVersion" /\ actions[n].executed
                          /\ actions[n].policyKind = k /\ actions[n].policyHash = h}
PublishedByTwo ==
  \A k \in PolicyKind, h \in PolicyHash :
    LET v == versions[k][h] IN
      /\ v.exists =>
           \E n \in ExecutedSchedules(k, h) :
             /\ Cardinality(hasApproved[n]) >= REQUIRED_APPROVALS
             /\ v.metadataHash = actions[n].data /\ v.proposer = actions[n].proposer
             /\ v.proposer \in hasApproved[n]
             /\ v.effectiveFrom >= actions[n].proposedAt + TIMELOCK_DELAY
      /\ Cardinality(ExecutedSchedules(k, h)) =
           Cardinality({j \in DOMAIN versionHistory[k] : versionHistory[k][j] = h})

(***************************************************************************)
(* An invalidated version carries the reason of an invalidation that two   *)
(* distinct governors approved while the version was in force, and was     *)
(* proposed after the version was.                                         *)
(***************************************************************************)
InvalidatedByTwo ==
  \A k \in PolicyKind, h \in PolicyHash :
    LET v == versions[k][h] IN
      v.status = "Invalidated" =>
        /\ v.exists
        /\ \E n \in DOMAIN actions :
             /\ actions[n].kind = "InvalidateVersion" /\ actions[n].executed
             /\ actions[n].policyKind = k /\ actions[n].policyHash = h
             /\ actions[n].data = v.invalidation
             /\ actions[n].proposedAt <= v.invalidatedAt
             /\ Cardinality(hasApproved[n]) >= REQUIRED_APPROVALS

(***************************************************************************)
(* Activation is never instant: a version that is not effective becomes    *)
(* effective only because time passes over its effectiveFrom, never by a   *)
(* governor's transaction.                                                 *)
(***************************************************************************)
ActivatesByTime ==
  \A k \in PolicyKind, h \in PolicyHash :
    ~isEffective(k, h) /\ isEffective(k, h)' =>
      /\ versions'[k][h] = versions[k][h]
      /\ now < versions[k][h].effectiveFrom
NoInstantActivation == [][ActivatesByTime]_vars

(***************************************************************************)
(* A version is immutable once it exists: its metadata, proposer and       *)
(* effective time never change, and an invalidated version stays           *)
(* invalidated.                                                            *)
(***************************************************************************)
VersionImmutable ==
  [][\A k \in PolicyKind, h \in PolicyHash :
       LET v == versions[k][h]  w == versions'[k][h] IN
       v.exists => /\ w.metadataHash = v.metadataHash
                   /\ w.proposer = v.proposer
                   /\ w.effectiveFrom = v.effectiveFrom
                   /\ v.status = "Invalidated" => w = v]_vars

-----------------------------------------------------------------------------
(***************************************************************************)
(* What the governors' actions keep among themselves: the counter is the   *)
(* number of distinct approvers, the action is executed exactly when there *)
(* are two of them, and one that invalidates names a version that exists.  *)
(***************************************************************************)
ApprovalsCounted ==
  \A n \in DOMAIN actions :
    LET a == actions[n] IN
      /\ a.approvalCount = Cardinality(hasApproved[n])
      /\ a.executed <=> a.approvalCount >= REQUIRED_APPROVALS
      /\ a.proposer \in hasApproved[n]
      /\ a.proposedAt <= now
      /\ a.kind = "InvalidateVersion" => versions[a.policyKind][a.policyHash].exists

(* The inductive invariant of the policy registry. *)
IInv == TypeOK /\ ApprovalsCounted /\ PublishedByTwo /\ InvalidatedByTwo
=============================================================================
