------------------------- MODULE PolicyRegistryProofs -------------------------
(***************************************************************************)
(* Two of three governors, counted: the versions of PolicyRegistry for any *)
(* number of kinds, hashes and concurrent actions.                         *)
(***************************************************************************)
EXTENDS PolicyRegistry, TLAPS, FiniteSetTheorems

(* A set of approvers is finite: there are three governors. *)
LEMMA ApproversFinite ==
  ASSUME NEW S \in SUBSET Governor
  PROVE  IsFiniteSet(S) /\ Cardinality(S) \in Nat
BY PolicyAssumption, FS_Subset, FS_CardinalityType

(* The actions and their approvals, index by index. *)
LEMMA ActionFields ==
  ASSUME TypeOK
  PROVE  /\ Len(actions) \in Nat /\ DOMAIN actions = 1..Len(actions)
         /\ DOMAIN hasApproved = 1..Len(actions)
         /\ \A n \in DOMAIN actions :
              /\ actions[n] \in GovernanceAction
              /\ actions[n].policyKind \in PolicyKind /\ actions[n].policyHash \in PolicyHash
              /\ actions[n].data \in Data /\ actions[n].proposer \in Governor
              /\ actions[n].proposedAt \in Nat /\ actions[n].approvalCount \in Nat
              /\ actions[n].executed \in BOOLEAN
              /\ hasApproved[n] \in SUBSET Governor
<1>1. /\ Len(actions) \in Nat /\ DOMAIN actions = 1..Len(actions)
      /\ DOMAIN hasApproved = 1..Len(actions)
      /\ \A n \in DOMAIN actions : actions[n] \in GovernanceAction
      /\ \A n \in DOMAIN actions : hasApproved[n] \in SUBSET Governor
  BY DEF TypeOK
<1>2. \A a \in GovernanceAction :
        /\ a.policyKind \in PolicyKind /\ a.policyHash \in PolicyHash
        /\ a.data \in Data /\ a.proposer \in Governor
        /\ a.proposedAt \in Nat /\ a.approvalCount \in Nat /\ a.executed \in BOOLEAN
  BY DEF GovernanceAction
<1> QED
  BY <1>1, <1>2

(* The sets both sides of the history count are finite. *)
LEMMA SchedulesFinite ==
  ASSUME TypeOK, NEW k \in PolicyKind, NEW h \in PolicyHash
  PROVE  /\ IsFiniteSet(ExecutedSchedules(k, h))
         /\ IsFiniteSet({j \in DOMAIN versionHistory[k] : versionHistory[k][j] = h})
<1>1. IsFiniteSet(1..Len(actions))
  BY ActionFields, FS_Interval
<1>2. ExecutedSchedules(k, h) \in SUBSET (1..Len(actions))
  BY ActionFields DEF ExecutedSchedules
<1>3. /\ versionHistory[k] \in Seq(PolicyHash) /\ Len(versionHistory[k]) \in Nat
      /\ DOMAIN versionHistory[k] = 1..Len(versionHistory[k])
  BY DEF TypeOK
<1>4. IsFiniteSet(1..Len(versionHistory[k]))
  BY <1>3, FS_Interval
<1>5. {j \in DOMAIN versionHistory[k] : versionHistory[k][j] = h}
        \in SUBSET (1..Len(versionHistory[k]))
  BY <1>3
<1> QED
  BY <1>1, <1>2, <1>4, <1>5, FS_Subset

-----------------------------------------------------------------------------
(* A proposal appends one action, approved by its proposer, and changes nothing else. *)
LEMMA ProposeWrites ==
  ASSUME TypeOK, NEW kind \in {"ScheduleVersion", "InvalidateVersion"}, NEW g \in Governor,
         NEW k \in PolicyKind, NEW h \in PolicyHash, NEW d \in Data, Propose(kind, g, k, h, d)
  PROVE  LET m == Len(actions) + 1 IN
         /\ TypeOK' /\ UNCHANGED <<now, versions, versionHistory>>
         /\ m \in Nat /\ m \notin DOMAIN actions /\ DOMAIN actions' = DOMAIN actions \cup {m}
         /\ \A n \in DOMAIN actions : actions'[n] = actions[n] /\ hasApproved'[n] = hasApproved[n]
         /\ actions'[m].kind = kind /\ actions'[m].policyKind = k /\ actions'[m].policyHash = h
         /\ actions'[m].proposedAt = now /\ actions'[m].proposer = g
         /\ actions'[m].approvalCount = 1 /\ ~actions'[m].executed
         /\ hasApproved'[m] = {g}
<1> DEFINE new == [kind |-> kind, policyKind |-> k, policyHash |-> h, data |-> d,
                   proposedAt |-> now, proposer |-> g, approvalCount |-> 1, executed |-> FALSE]
<1>1. /\ actions' = Append(actions, new) /\ hasApproved' = Append(hasApproved, {g})
      /\ UNCHANGED <<now, versions, versionHistory>>
  BY DEF Propose
<1>2. now \in Nat /\ actions \in Seq(GovernanceAction) /\ hasApproved \in Seq(SUBSET Governor)
      /\ Len(hasApproved) = Len(actions)
  BY DEF TypeOK
<1>3. new \in GovernanceAction
  BY <1>2 DEF GovernanceAction
<1>4. /\ new.kind = kind /\ new.policyKind = k /\ new.policyHash = h
      /\ new.proposedAt = now /\ new.proposer = g /\ new.approvalCount = 1 /\ ~new.executed
  OBVIOUS
<1> HIDE DEF new
<1>5. /\ actions' \in Seq(GovernanceAction) /\ hasApproved' \in Seq(SUBSET Governor)
      /\ Len(actions') = Len(actions) + 1 /\ Len(hasApproved') = Len(actions')
      /\ actions'[Len(actions) + 1] = new /\ hasApproved'[Len(actions) + 1] = {g}
      /\ \A n \in 1..Len(actions) : actions'[n] = actions[n] /\ hasApproved'[n] = hasApproved[n]
      /\ DOMAIN actions' = 1..(Len(actions) + 1)
  BY <1>1, <1>2, <1>3
<1>6. /\ Len(actions) + 1 \in Nat /\ Len(actions) + 1 \notin DOMAIN actions
      /\ DOMAIN actions' = DOMAIN actions \cup {Len(actions) + 1}
  BY <1>5, ActionFields
<1>7. TypeOK'
  BY <1>1, <1>5 DEF TypeOK
<1> QED
  BY <1>1, <1>4, <1>5, <1>6, <1>7, ActionFields

(* An approval adds one governor to one action, which with it has its two. *)
LEMMA ApproveWrites ==
  ASSUME TypeOK, ApprovalsCounted, NEW g \in Governor, NEW n \in DOMAIN actions,
         ~actions[n].executed, approve(g, n)
  PROVE  LET a == actions[n]  b == actions'[n] IN
         /\ Approved(n)
         /\ DOMAIN actions' = DOMAIN actions /\ DOMAIN hasApproved' = DOMAIN hasApproved
         /\ actions' \in Seq(GovernanceAction) /\ hasApproved' \in Seq(SUBSET Governor)
         /\ Len(hasApproved') = Len(actions')
         /\ \A m \in DOMAIN actions :
              m # n => actions'[m] = actions[m] /\ hasApproved'[m] = hasApproved[m]
         /\ b.kind = a.kind /\ b.policyKind = a.policyKind /\ b.policyHash = a.policyHash
         /\ b.data = a.data /\ b.proposedAt = a.proposedAt /\ b.proposer = a.proposer
         /\ b.approvalCount = a.approvalCount + 1 /\ b.executed
         /\ b.approvalCount >= REQUIRED_APPROVALS
         /\ b.proposer \in hasApproved'[n]
         /\ Cardinality(hasApproved'[n]) = b.approvalCount
<1>0. /\ actions[n] \in GovernanceAction /\ hasApproved[n] \in SUBSET Governor
      /\ n \in DOMAIN hasApproved
      /\ actions \in Seq(GovernanceAction) /\ hasApproved \in Seq(SUBSET Governor)
      /\ Len(hasApproved) = Len(actions)
      /\ actions[n].approvalCount \in Nat
  BY ActionFields DEF TypeOK
<1>1. /\ IsFiniteSet(hasApproved[n])
      /\ actions[n].approvalCount = Cardinality(hasApproved[n])
      /\ actions[n].proposer \in hasApproved[n]
  BY <1>0, ApproversFinite DEF ApprovalsCounted
<1>2. actions[n].approvalCount >= 1
  <2>1. hasApproved[n] # {} /\ Cardinality(hasApproved[n]) # 0
    BY <1>1, FS_EmptySet
  <2> QED
    BY <1>0, <1>1, <2>1
<1>3. Approved(n)
  BY <1>0, <1>2 DEF Approved, REQUIRED_APPROVALS
<1>4. /\ hasApproved' = [hasApproved EXCEPT ![n] = @ \cup {g}] /\ g \notin hasApproved[n]
      /\ actions' = [actions EXCEPT ![n].approvalCount = @ + 1, ![n].executed = TRUE]
  <2>1. Approved(n) = TRUE
    BY <1>3 DEF Approved
  <2> QED
    BY <2>1 DEF approve
<1>5. Cardinality(hasApproved[n] \cup {g}) = actions[n].approvalCount + 1
  BY <1>1, <1>4, FS_AddElement
<1>6. /\ hasApproved'[n] = hasApproved[n] \cup {g}
      /\ hasApproved' \in Seq(SUBSET Governor) /\ Len(hasApproved') = Len(hasApproved)
      /\ \A m \in DOMAIN hasApproved : m # n => hasApproved'[m] = hasApproved[m]
      /\ DOMAIN hasApproved' = DOMAIN hasApproved
  BY <1>0, <1>4
<1>7. [actions[n] EXCEPT !.approvalCount = @ + 1, !.executed = TRUE] \in GovernanceAction
  <2>1. actions[n].approvalCount + 1 \in Nat
    BY <1>0
  <2> QED
    BY <1>0, <2>1 DEF GovernanceAction
<1>8. /\ actions'[n] = [actions[n] EXCEPT !.approvalCount = @ + 1, !.executed = TRUE]
      /\ DOMAIN actions' = DOMAIN actions
      /\ \A m \in DOMAIN actions : m # n => actions'[m] = actions[m]
  BY <1>0, <1>4
<1>9. actions' \in Seq(GovernanceAction) /\ Len(actions') = Len(actions)
  <2> DEFINE new == [actions[n] EXCEPT !.approvalCount = @ + 1, !.executed = TRUE]
  <2>1. actions' = [actions EXCEPT ![n] = new]
    BY <1>4
  <2>2. new \in GovernanceAction
    BY <1>7
  <2> HIDE DEF new
  <2> QED
    BY <1>0, <2>1, <2>2
<1>10. LET a == actions[n]  b == actions'[n] IN
       /\ b.kind = a.kind /\ b.policyKind = a.policyKind /\ b.policyHash = a.policyHash
       /\ b.data = a.data /\ b.proposedAt = a.proposedAt /\ b.proposer = a.proposer
       /\ b.approvalCount = a.approvalCount + 1 /\ b.executed
  BY <1>0, <1>8 DEF GovernanceAction
<1>11. actions'[n].approvalCount >= REQUIRED_APPROVALS
  BY <1>0, <1>2, <1>10 DEF REQUIRED_APPROVALS
<1> QED
  BY <1>0, <1>1, <1>3, <1>5, <1>6, <1>8, <1>9, <1>10, <1>11, ActionFields

-----------------------------------------------------------------------------
(* Nothing is proposed, approved or published at first. *)
LEMMA PolicyInit == ASSUME Init PROVE IInv
<1>1. TypeOK
  <2>1. NoVersion \in PolicyVersion
    BY DEF NoVersion, PolicyVersion
  <2> QED
    BY <2>1 DEF Init, TypeOK
<1>2. DOMAIN actions = {}
  BY DEF Init
<1>3. ApprovalsCounted
  BY <1>2 DEF ApprovalsCounted
<1>4. ASSUME NEW k \in PolicyKind, NEW h \in PolicyHash
      PROVE  /\ ~versions[k][h].exists /\ versions[k][h].status = "Scheduled"
             /\ ExecutedSchedules(k, h) = {}
             /\ {j \in DOMAIN versionHistory[k] : versionHistory[k][j] = h} = {}
  BY <1>2 DEF Init, NoVersion, ExecutedSchedules
<1>5. PublishedByTwo
  BY <1>4 DEF PublishedByTwo
<1>6. InvalidatedByTwo
  BY <1>4 DEF InvalidatedByTwo
<1> QED
  BY <1>1, <1>3, <1>5, <1>6 DEF IInv

(* A proposal executes nothing, so it publishes and invalidates nothing. *)
LEMMA ProposeStep ==
  ASSUME IInv, NEW kind \in {"ScheduleVersion", "InvalidateVersion"}, NEW g \in Governor,
         NEW k \in PolicyKind, NEW h \in PolicyHash, NEW d \in Data, Propose(kind, g, k, h, d),
         kind = "InvalidateVersion" => versions[k][h].exists
  PROVE  IInv'
<1> DEFINE m == Len(actions) + 1
<1>0. TypeOK /\ ApprovalsCounted /\ PublishedByTwo /\ InvalidatedByTwo
  BY DEF IInv
<1>1. /\ TypeOK' /\ now' = now /\ versions' = versions /\ versionHistory' = versionHistory
      /\ m \in Nat /\ m \notin DOMAIN actions /\ DOMAIN actions' = DOMAIN actions \cup {m}
      /\ \A n \in DOMAIN actions : actions'[n] = actions[n] /\ hasApproved'[n] = hasApproved[n]
      /\ actions'[m].kind = kind /\ actions'[m].policyKind = k /\ actions'[m].policyHash = h
      /\ actions'[m].proposedAt = now /\ actions'[m].proposer = g
      /\ actions'[m].approvalCount = 1 /\ ~actions'[m].executed
      /\ hasApproved'[m] = {g}
  BY <1>0, ProposeWrites
<1> HIDE DEF m
<1>2. now \in Nat
  BY <1>0 DEF TypeOK
<1>3. ApprovalsCounted'
  <2>1. ASSUME NEW n \in DOMAIN actions'
        PROVE  LET a == actions'[n] IN
               /\ a.approvalCount = Cardinality(hasApproved'[n])
               /\ a.executed <=> a.approvalCount >= REQUIRED_APPROVALS
               /\ a.proposer \in hasApproved'[n]
               /\ a.proposedAt <= now'
               /\ a.kind = "InvalidateVersion" => versions'[a.policyKind][a.policyHash].exists
    <3>1. CASE n \in DOMAIN actions
      BY <1>0, <1>1, <3>1 DEF ApprovalsCounted
    <3>2. CASE n = m
      <4>1. Cardinality({g}) = 1
        BY FS_Singleton
      <4> QED
        BY <1>1, <1>2, <3>2, <4>1 DEF REQUIRED_APPROVALS
    <3> QED
      BY <1>1, <2>1, <3>1, <3>2
  <2> QED
    BY <2>1 DEF ApprovalsCounted
<1>4. \A kk \in PolicyKind, hh \in PolicyHash :
        ExecutedSchedules(kk, hh)' = ExecutedSchedules(kk, hh)
  BY <1>1 DEF ExecutedSchedules
<1>5. \A kk \in PolicyKind, hh \in PolicyHash : ExecutedSchedules(kk, hh) \subseteq DOMAIN actions
  BY DEF ExecutedSchedules
<1>6. PublishedByTwo'
  BY <1>0, <1>1, <1>4, <1>5 DEF PublishedByTwo
<1>7. InvalidatedByTwo'
  BY <1>0, <1>1 DEF InvalidatedByTwo
<1> QED
  BY <1>1, <1>3, <1>6, <1>7 DEF IInv

(* An approval keeps the counts: the approved action now has its two approvers. *)
LEMMA ApprovalsStep ==
  ASSUME TypeOK, ApprovalsCounted, NEW g \in Governor, NEW n \in DOMAIN actions,
         ~actions[n].executed, approve(g, n), now' = now,
         \A k \in PolicyKind, h \in PolicyHash : versions[k][h].exists => versions'[k][h].exists
  PROVE  ApprovalsCounted'
<1>1. ASSUME NEW m \in DOMAIN actions'
      PROVE  LET a == actions'[m] IN
             /\ a.approvalCount = Cardinality(hasApproved'[m])
             /\ a.executed <=> a.approvalCount >= REQUIRED_APPROVALS
             /\ a.proposer \in hasApproved'[m]
             /\ a.proposedAt <= now'
             /\ a.kind = "InvalidateVersion" => versions'[a.policyKind][a.policyHash].exists
  <2>0. m \in DOMAIN actions
    BY ApproveWrites
  <2>1. CASE m # n
    <3>1. actions'[m] = actions[m] /\ hasApproved'[m] = hasApproved[m]
      BY <2>0, <2>1, ApproveWrites
    <3> QED
      BY <2>0, <3>1, ActionFields DEF ApprovalsCounted
  <2>2. CASE m = n
    <3>1. /\ actions[n].proposedAt <= now
          /\ actions[n].kind = "InvalidateVersion" =>
               versions[actions[n].policyKind][actions[n].policyHash].exists
      BY DEF ApprovalsCounted
    <3> QED
      BY <2>2, <3>1, ApproveWrites, ActionFields
  <2> QED
    BY <2>1, <2>2
<1> QED
  BY <1>1 DEF ApprovalsCounted

(* What an approval executes: the one action, counted where it is a schedule of that version. *)
LEMMA ApproveExecutes ==
  ASSUME TypeOK, ApprovalsCounted, NEW g \in Governor, NEW n \in DOMAIN actions,
         ~actions[n].executed, approve(g, n), NEW k \in PolicyKind, NEW h \in PolicyHash
  PROVE  /\ n \notin ExecutedSchedules(k, h)
         /\ ExecutedSchedules(k, h)' =
              IF /\ actions[n].kind = "ScheduleVersion"
                 /\ actions[n].policyKind = k /\ actions[n].policyHash = h
                THEN ExecutedSchedules(k, h) \cup {n} ELSE ExecutedSchedules(k, h)
<1> DEFINE a == actions[n]
<1> DEFINE b == actions'[n]
<1>1. /\ DOMAIN actions' = DOMAIN actions
      /\ \A m \in DOMAIN actions : m # n => actions'[m] = actions[m]
      /\ b.kind = a.kind /\ b.policyKind = a.policyKind /\ b.policyHash = a.policyHash
      /\ b.executed
  BY ApproveWrites
<1> QED
  BY <1>1 DEF ExecutedSchedules

(* The second approval of a schedule writes that version and appends to that history. *)
LEMMA PublishWrites ==
  ASSUME TypeOK, ApprovalsCounted, NEW g \in Governor, NEW n \in DOMAIN actions,
         approveVersion(g, n)
  PROVE  LET a == actions[n]  v == versions'[actions[n].policyKind][actions[n].policyHash] IN
         /\ ~a.executed /\ a.kind = "ScheduleVersion" /\ approve(g, n) /\ now' = now
         /\ a.policyKind \in PolicyKind /\ a.policyHash \in PolicyHash
         /\ v \in PolicyVersion /\ v.exists /\ v.status = "Scheduled"
         /\ v.metadataHash = a.data /\ v.proposer = a.proposer
         /\ v.effectiveFrom = now + TIMELOCK_DELAY
         /\ versions' \in [PolicyKind -> [PolicyHash -> PolicyVersion]]
         /\ \A k \in PolicyKind, h \in PolicyHash :
              k # a.policyKind \/ h # a.policyHash => versions'[k][h] = versions[k][h]
         /\ versionHistory' = [versionHistory EXCEPT ![a.policyKind] = Append(@, a.policyHash)]
<1> DEFINE a == actions[n]
<1> DEFINE new == [metadataHash |-> a.data, proposer |-> a.proposer,
                   publishedAt |-> a.proposedAt, effectiveFrom |-> now + TIMELOCK_DELAY,
                   status |-> "Scheduled", invalidation |-> NoData, invalidatedAt |-> 0,
                   exists |-> TRUE]
<1>1. ~a.executed /\ a.kind = "ScheduleVersion" /\ approve(g, n) /\ now' = now
  BY DEF approveVersion, Pending
<1>2. Approved(n)
  BY <1>1, ApproveWrites
<1>3. /\ a.policyKind \in PolicyKind /\ a.policyHash \in PolicyHash /\ a.data \in Data
      /\ a.proposer \in Governor /\ a.proposedAt \in Nat
  BY ActionFields
<1>4. /\ versions' = [versions EXCEPT ![a.policyKind][a.policyHash] = new]
      /\ versionHistory' = [versionHistory EXCEPT ![a.policyKind] = Append(@, a.policyHash)]
  BY <1>2 DEF approveVersion, activationTime
<1>5. new \in PolicyVersion
  <2>1. now + TIMELOCK_DELAY \in Nat
    BY PolicyAssumption DEF TypeOK
  <2> QED
    BY <1>3, <2>1 DEF PolicyVersion
<1>6. /\ new.exists /\ new.status = "Scheduled" /\ new.metadataHash = a.data
      /\ new.proposer = a.proposer /\ new.effectiveFrom = now + TIMELOCK_DELAY
  OBVIOUS
<1> HIDE DEF new
<1>7. versions \in [PolicyKind -> [PolicyHash -> PolicyVersion]]
  BY DEF TypeOK
<1> HIDE DEF a
<1>8. /\ versions'[a.policyKind][a.policyHash] = new
      /\ versions' \in [PolicyKind -> [PolicyHash -> PolicyVersion]]
      /\ \A k \in PolicyKind, h \in PolicyHash :
           k # a.policyKind \/ h # a.policyHash => versions'[k][h] = versions[k][h]
  BY <1>3, <1>4, <1>5, <1>7
<1> QED
  BY <1>1, <1>3, <1>4, <1>5, <1>6, <1>8 DEF a

(* Appending a hash to a history adds one position of that hash and of no other. *)
LEMMA HistoryGrows ==
  ASSUME NEW S, NEW s \in Seq(S), NEW x \in S, NEW h \in S
  PROVE  LET t == Append(s, x) IN
         /\ Len(s) + 1 \notin {j \in DOMAIN s : s[j] = h}
         /\ {j \in DOMAIN t : t[j] = h} =
              IF x = h THEN {j \in DOMAIN s : s[j] = h} \cup {Len(s) + 1}
                       ELSE {j \in DOMAIN s : s[j] = h}
<1> DEFINE t == Append(s, x)
<1>1. /\ DOMAIN t = 1..(Len(s) + 1) /\ DOMAIN s = 1..Len(s) /\ Len(s) \in Nat
      /\ t[Len(s) + 1] = x /\ \A j \in 1..Len(s) : t[j] = s[j]
  OBVIOUS
<1> HIDE DEF t
<1>2. DOMAIN t = DOMAIN s \cup {Len(s) + 1} /\ Len(s) + 1 \notin DOMAIN s
  BY <1>1
<1>3. \A j \in DOMAIN s : t[j] = s[j]
  BY <1>1
<1> QED
  BY <1>1, <1>2, <1>3 DEF t

(* Publishing counts once on both sides: one executed schedule, one place in the history. *)
LEMMA PublishCounts ==
  ASSUME IInv, NEW g \in Governor, NEW n \in DOMAIN actions, approveVersion(g, n),
         NEW k \in PolicyKind, NEW h \in PolicyHash
  PROVE  Cardinality(ExecutedSchedules(k, h)') =
           Cardinality({j \in DOMAIN versionHistory'[k] : versionHistory'[k][j] = h})
<1> DEFINE a == actions[n]
<1> DEFINE Places == {j \in DOMAIN versionHistory[k] : versionHistory[k][j] = h}
<1> DEFINE PlacesAfter == {j \in DOMAIN versionHistory'[k] : versionHistory'[k][j] = h}
<1>0. TypeOK /\ ApprovalsCounted /\ PublishedByTwo
  BY DEF IInv
<1>1. Cardinality(ExecutedSchedules(k, h)) = Cardinality(Places)
  BY <1>0 DEF PublishedByTwo
<1>2. IsFiniteSet(ExecutedSchedules(k, h)) /\ IsFiniteSet(Places)
  BY <1>0, SchedulesFinite
<1>3. /\ a.policyKind \in PolicyKind /\ a.policyHash \in PolicyHash
      /\ ~a.executed /\ a.kind = "ScheduleVersion" /\ approve(g, n)
      /\ versionHistory' = [versionHistory EXCEPT ![a.policyKind] = Append(@, a.policyHash)]
  BY <1>0, PublishWrites
<1>4. /\ n \notin ExecutedSchedules(k, h)
      /\ ExecutedSchedules(k, h)' =
           IF a.policyKind = k /\ a.policyHash = h
             THEN ExecutedSchedules(k, h) \cup {n} ELSE ExecutedSchedules(k, h)
  BY <1>0, <1>3, ApproveExecutes
<1>5. /\ versionHistory \in [PolicyKind -> Seq(PolicyHash)]
      /\ versionHistory[k] \in Seq(PolicyHash)
  BY <1>0 DEF TypeOK
<1>6. CASE a.policyKind = k
  <2>1. versionHistory'[k] = Append(versionHistory[k], a.policyHash)
    BY <1>3, <1>5, <1>6
  <2>2. /\ Len(versionHistory[k]) + 1 \notin Places
        /\ PlacesAfter = IF a.policyHash = h THEN Places \cup {Len(versionHistory[k]) + 1}
                                             ELSE Places
    BY <1>3, <1>5, <2>1, HistoryGrows
  <2> HIDE DEF Places, PlacesAfter, a
  <2>3. CASE a.policyHash = h
    <3>1. Cardinality(ExecutedSchedules(k, h)') = Cardinality(ExecutedSchedules(k, h)) + 1
      BY <1>2, <1>4, <1>6, <2>3, FS_AddElement
    <3>2. Cardinality(PlacesAfter) = Cardinality(Places) + 1
      BY <1>2, <2>2, <2>3, FS_AddElement
    <3> QED
      BY <1>1, <3>1, <3>2 DEF PlacesAfter
  <2>4. CASE a.policyHash # h
    BY <1>1, <1>4, <2>2, <2>4 DEF PlacesAfter
  <2> QED
    BY <2>3, <2>4
<1>7. CASE a.policyKind # k
  <2>1. versionHistory'[k] = versionHistory[k]
    BY <1>3, <1>5, <1>7
  <2> QED
    BY <1>1, <1>4, <1>7, <2>1
<1> QED
  BY <1>6, <1>7

(* An approved schedule publishes its own data, under the timelock from now. *)
LEMMA ApproveVersionStep ==
  ASSUME IInv, NEW g \in Governor, NEW n \in DOMAIN actions, approveVersion(g, n)
  PROVE  IInv'
<1> DEFINE a == actions[n]
<1>0. TypeOK /\ ApprovalsCounted /\ PublishedByTwo /\ InvalidatedByTwo
  BY DEF IInv
<1>1. /\ ~a.executed /\ a.kind = "ScheduleVersion" /\ approve(g, n) /\ now' = now
      /\ a.policyKind \in PolicyKind /\ a.policyHash \in PolicyHash
      /\ versions' \in [PolicyKind -> [PolicyHash -> PolicyVersion]]
      /\ \A k \in PolicyKind, h \in PolicyHash :
           k # a.policyKind \/ h # a.policyHash => versions'[k][h] = versions[k][h]
      /\ versionHistory' = [versionHistory EXCEPT ![a.policyKind] = Append(@, a.policyHash)]
  BY <1>0, PublishWrites
<1>2. LET v == versions'[a.policyKind][a.policyHash] IN
        /\ v.exists /\ v.status = "Scheduled" /\ v.metadataHash = a.data
        /\ v.proposer = a.proposer /\ v.effectiveFrom = now + TIMELOCK_DELAY
  BY <1>0, PublishWrites
<1>3. LET b == actions'[n] IN
        /\ DOMAIN actions' = DOMAIN actions
        /\ \A m \in DOMAIN actions :
             m # n => actions'[m] = actions[m] /\ hasApproved'[m] = hasApproved[m]
        /\ b.data = a.data /\ b.proposedAt = a.proposedAt /\ b.proposer = a.proposer
        /\ b.proposer \in hasApproved'[n]
        /\ Cardinality(hasApproved'[n]) >= REQUIRED_APPROVALS
  BY <1>0, <1>1, ApproveWrites
<1>4. TypeOK'
  <2>1. /\ actions' \in Seq(GovernanceAction) /\ hasApproved' \in Seq(SUBSET Governor)
        /\ Len(hasApproved') = Len(actions')
    BY <1>0, <1>1, ApproveWrites
  <2>2. versionHistory' \in [PolicyKind -> Seq(PolicyHash)]
    <3>1. versionHistory \in [PolicyKind -> Seq(PolicyHash)]
      BY <1>0 DEF TypeOK
    <3>2. versionHistory[a.policyKind] \in Seq(PolicyHash)
      BY <1>1, <3>1
    <3>3. Append(versionHistory[a.policyKind], a.policyHash) \in Seq(PolicyHash)
      BY <1>1, <3>2
    <3> QED
      BY <1>1, <3>1, <3>3
  <2>3. now' \in Nat
    BY <1>0, <1>1 DEF TypeOK
  <2> QED
    BY <1>1, <2>1, <2>2, <2>3 DEF TypeOK
<1>5. ApprovalsCounted'
  <2>1. \A k \in PolicyKind, h \in PolicyHash : versions[k][h].exists => versions'[k][h].exists
    BY <1>1, <1>2
  <2> QED
    BY <1>0, <1>1, <2>1, ApprovalsStep
<1>6. PublishedByTwo'
  <2>1. ASSUME NEW k \in PolicyKind, NEW h \in PolicyHash, versions'[k][h].exists
        PROVE  \E m \in ExecutedSchedules(k, h)' :
                 /\ Cardinality(hasApproved'[m]) >= REQUIRED_APPROVALS
                 /\ versions'[k][h].metadataHash = actions'[m].data
                 /\ versions'[k][h].proposer = actions'[m].proposer
                 /\ versions'[k][h].proposer \in hasApproved'[m]
                 /\ versions'[k][h].effectiveFrom >= actions'[m].proposedAt + TIMELOCK_DELAY
    <3>1. /\ n \notin ExecutedSchedules(k, h)
          /\ ExecutedSchedules(k, h)' =
               IF a.policyKind = k /\ a.policyHash = h
                 THEN ExecutedSchedules(k, h) \cup {n} ELSE ExecutedSchedules(k, h)
      BY <1>0, <1>1, ApproveExecutes
    <3>2. CASE a.policyKind = k /\ a.policyHash = h
      <4>1. a.proposedAt <= now /\ a.proposedAt \in Nat /\ now \in Nat
        BY <1>0, ActionFields DEF ApprovalsCounted, TypeOK
      <4>2. now + TIMELOCK_DELAY >= a.proposedAt + TIMELOCK_DELAY
        BY <4>1, PolicyAssumption
      <4>3. versions'[k][h].effectiveFrom >= actions'[n].proposedAt + TIMELOCK_DELAY
        BY <1>2, <1>3, <3>2, <4>2
      <4> QED
        BY <1>2, <1>3, <3>1, <3>2, <4>3
    <3>3. CASE ~(a.policyKind = k /\ a.policyHash = h)
      <4>1. versions'[k][h] = versions[k][h]
        BY <1>1, <3>3
      <4>2. PICK m \in ExecutedSchedules(k, h) :
               /\ Cardinality(hasApproved[m]) >= REQUIRED_APPROVALS
               /\ versions[k][h].metadataHash = actions[m].data
               /\ versions[k][h].proposer = actions[m].proposer
               /\ versions[k][h].proposer \in hasApproved[m]
               /\ versions[k][h].effectiveFrom >= actions[m].proposedAt + TIMELOCK_DELAY
        BY <1>0, <2>1, <4>1 DEF PublishedByTwo
      <4>3. m \in DOMAIN actions /\ m # n
        BY <3>1 DEF ExecutedSchedules
      <4>4. actions'[m] = actions[m] /\ hasApproved'[m] = hasApproved[m]
        BY <1>3, <4>3
      <4> QED
        BY <3>1, <3>3, <4>1, <4>2, <4>4
    <3> QED
      BY <3>2, <3>3
  <2>2. \A k \in PolicyKind, h \in PolicyHash :
          Cardinality(ExecutedSchedules(k, h)') =
            Cardinality({j \in DOMAIN versionHistory'[k] : versionHistory'[k][j] = h})
    BY PublishCounts
  <2> QED
    BY <2>1, <2>2 DEF PublishedByTwo
<1>7. InvalidatedByTwo'
  <2>1. ASSUME NEW k \in PolicyKind, NEW h \in PolicyHash,
               versions'[k][h].status = "Invalidated"
        PROVE  /\ versions'[k][h].exists
               /\ \E m \in DOMAIN actions' :
                    /\ actions'[m].kind = "InvalidateVersion" /\ actions'[m].executed
                    /\ actions'[m].policyKind = k /\ actions'[m].policyHash = h
                    /\ actions'[m].data = versions'[k][h].invalidation
                    /\ actions'[m].proposedAt <= versions'[k][h].invalidatedAt
                    /\ Cardinality(hasApproved'[m]) >= REQUIRED_APPROVALS
    <3>1. versions'[k][h] = versions[k][h]
      BY <1>1, <1>2, <2>1
    <3>2. versions[k][h].exists
      BY <1>0, <2>1, <3>1 DEF InvalidatedByTwo
    <3>3. PICK m \in DOMAIN actions :
             /\ actions[m].kind = "InvalidateVersion" /\ actions[m].executed
             /\ actions[m].policyKind = k /\ actions[m].policyHash = h
             /\ actions[m].data = versions[k][h].invalidation
             /\ actions[m].proposedAt <= versions[k][h].invalidatedAt
             /\ Cardinality(hasApproved[m]) >= REQUIRED_APPROVALS
      BY <1>0, <2>1, <3>1 DEF InvalidatedByTwo
    <3>4. actions'[m] = actions[m] /\ hasApproved'[m] = hasApproved[m]
      BY <1>1, <1>3, <3>3
    <3> QED
      BY <1>3, <3>1, <3>2, <3>3, <3>4
  <2> QED
    BY <2>1 DEF InvalidatedByTwo
<1> QED
  BY <1>4, <1>5, <1>6, <1>7 DEF IInv

(* The second approval of an invalidation marks that version, and touches no other field of it. *)
LEMMA InvalidateWrites ==
  ASSUME TypeOK, ApprovalsCounted, NEW g \in Governor, NEW n \in DOMAIN actions,
         approveInvalidation(g, n)
  PROVE  LET a == actions[n]
             v == versions[actions[n].policyKind][actions[n].policyHash]
             w == versions'[actions[n].policyKind][actions[n].policyHash] IN
         /\ ~a.executed /\ a.kind = "InvalidateVersion" /\ approve(g, n)
         /\ UNCHANGED <<now, versionHistory>>
         /\ a.policyKind \in PolicyKind /\ a.policyHash \in PolicyHash
         /\ w.exists = v.exists /\ w.metadataHash = v.metadataHash /\ w.proposer = v.proposer
         /\ w.effectiveFrom = v.effectiveFrom
         /\ w.status = "Invalidated" /\ w.invalidation = a.data /\ w.invalidatedAt = now
         /\ versions' \in [PolicyKind -> [PolicyHash -> PolicyVersion]]
         /\ \A k \in PolicyKind, h \in PolicyHash :
              k # a.policyKind \/ h # a.policyHash => versions'[k][h] = versions[k][h]
<1> DEFINE a == actions[n]
<1> DEFINE v == versions[a.policyKind][a.policyHash]
<1> DEFINE new == [v EXCEPT !.status = "Invalidated", !.invalidation = a.data,
                            !.invalidatedAt = now]
<1>1. ~a.executed /\ a.kind = "InvalidateVersion" /\ approve(g, n)
      /\ UNCHANGED <<now, versionHistory>>
  BY DEF approveInvalidation, Pending
<1>2. Approved(n)
  BY <1>1, ApproveWrites
<1>3. /\ a.policyKind \in PolicyKind /\ a.policyHash \in PolicyHash /\ a.data \in Data
      /\ now \in Nat
  BY ActionFields DEF TypeOK
<1>4. versions \in [PolicyKind -> [PolicyHash -> PolicyVersion]]
  BY DEF TypeOK
<1>5. v \in PolicyVersion
  BY <1>3, <1>4
<1>6. versions' = [versions EXCEPT ![a.policyKind][a.policyHash].status = "Invalidated",
                                   ![a.policyKind][a.policyHash].invalidation = a.data,
                                   ![a.policyKind][a.policyHash].invalidatedAt = now]
  BY <1>2 DEF approveInvalidation
<1>7. versions' = [versions EXCEPT ![a.policyKind][a.policyHash] = new]
  <2> HIDE DEF a
  <2> QED
    BY <1>3, <1>4, <1>6
<1>8. new \in PolicyVersion
  <2>1. ASSUME NEW u \in PolicyVersion, NEW d \in Data, NEW t \in Nat
        PROVE  [u EXCEPT !.status = "Invalidated", !.invalidation = d, !.invalidatedAt = t]
                 \in PolicyVersion
    BY DEF PolicyVersion
  <2> HIDE DEF a, v
  <2> QED
    BY <1>3, <1>5, <2>1
<1>9. /\ new.exists = v.exists /\ new.metadataHash = v.metadataHash /\ new.proposer = v.proposer
      /\ new.effectiveFrom = v.effectiveFrom
      /\ new.status = "Invalidated" /\ new.invalidation = a.data /\ new.invalidatedAt = now
  <2> HIDE DEF a, v
  <2> QED
    BY <1>5 DEF PolicyVersion
<1> HIDE DEF new, a
<1>10. /\ versions'[a.policyKind][a.policyHash] = new
       /\ versions' \in [PolicyKind -> [PolicyHash -> PolicyVersion]]
       /\ \A k \in PolicyKind, h \in PolicyHash :
            k # a.policyKind \/ h # a.policyHash => versions'[k][h] = versions[k][h]
  BY <1>3, <1>4, <1>7, <1>8
<1> QED
  BY <1>1, <1>3, <1>9, <1>10 DEF a

(* An approved invalidation leaves its reason on a version that exists. *)
LEMMA ApproveInvalidationStep ==
  ASSUME IInv, NEW g \in Governor, NEW n \in DOMAIN actions, approveInvalidation(g, n)
  PROVE  IInv'
<1> DEFINE a == actions[n]
<1>0. TypeOK /\ ApprovalsCounted /\ PublishedByTwo /\ InvalidatedByTwo
  BY DEF IInv
<1>1. /\ ~a.executed /\ a.kind = "InvalidateVersion" /\ approve(g, n)
      /\ now' = now /\ versionHistory' = versionHistory
      /\ a.policyKind \in PolicyKind /\ a.policyHash \in PolicyHash
      /\ versions' \in [PolicyKind -> [PolicyHash -> PolicyVersion]]
      /\ \A k \in PolicyKind, h \in PolicyHash :
           k # a.policyKind \/ h # a.policyHash => versions'[k][h] = versions[k][h]
  BY <1>0, InvalidateWrites
<1>2. LET v == versions[a.policyKind][a.policyHash]
          w == versions'[a.policyKind][a.policyHash] IN
        /\ w.exists = v.exists /\ w.metadataHash = v.metadataHash /\ w.proposer = v.proposer
        /\ w.effectiveFrom = v.effectiveFrom
        /\ w.invalidation = a.data /\ w.invalidatedAt = now
  BY <1>0, InvalidateWrites
<1>3. LET b == actions'[n] IN
        /\ DOMAIN actions' = DOMAIN actions
        /\ \A m \in DOMAIN actions :
             m # n => actions'[m] = actions[m] /\ hasApproved'[m] = hasApproved[m]
        /\ b.kind = a.kind /\ b.policyKind = a.policyKind /\ b.policyHash = a.policyHash
        /\ b.data = a.data /\ b.proposedAt = a.proposedAt /\ b.executed
        /\ Cardinality(hasApproved'[n]) >= REQUIRED_APPROVALS
  BY <1>0, <1>1, ApproveWrites
<1>4. TypeOK'
  <2>1. /\ actions' \in Seq(GovernanceAction) /\ hasApproved' \in Seq(SUBSET Governor)
        /\ Len(hasApproved') = Len(actions')
    BY <1>0, <1>1, ApproveWrites
  <2> QED
    BY <1>0, <1>1, <2>1 DEF TypeOK
<1>5. \A k \in PolicyKind, h \in PolicyHash : versions'[k][h].exists = versions[k][h].exists
  BY <1>1, <1>2
<1>6. ApprovalsCounted'
  BY <1>0, <1>1, <1>5, ApprovalsStep
<1>7. PublishedByTwo'
  <2>1. \A k \in PolicyKind, h \in PolicyHash :
          /\ ExecutedSchedules(k, h)' = ExecutedSchedules(k, h)
          /\ n \notin ExecutedSchedules(k, h)
    BY <1>0, <1>1, ApproveExecutes
  <2>2. \A k \in PolicyKind, h \in PolicyHash : \A m \in ExecutedSchedules(k, h) :
          actions'[m] = actions[m] /\ hasApproved'[m] = hasApproved[m]
    BY <1>3, <2>1 DEF ExecutedSchedules
  <2>3. \A k \in PolicyKind, h \in PolicyHash :
          /\ versions'[k][h].metadataHash = versions[k][h].metadataHash
          /\ versions'[k][h].proposer = versions[k][h].proposer
          /\ versions'[k][h].effectiveFrom = versions[k][h].effectiveFrom
    BY <1>1, <1>2
  <2>4. ASSUME NEW k \in PolicyKind, NEW h \in PolicyHash, versions'[k][h].exists
        PROVE  \E m \in ExecutedSchedules(k, h)' :
                 /\ Cardinality(hasApproved'[m]) >= REQUIRED_APPROVALS
                 /\ versions'[k][h].metadataHash = actions'[m].data
                 /\ versions'[k][h].proposer = actions'[m].proposer
                 /\ versions'[k][h].proposer \in hasApproved'[m]
                 /\ versions'[k][h].effectiveFrom >= actions'[m].proposedAt + TIMELOCK_DELAY
    <3>1. PICK m \in ExecutedSchedules(k, h) :
             /\ Cardinality(hasApproved[m]) >= REQUIRED_APPROVALS
             /\ versions[k][h].metadataHash = actions[m].data
             /\ versions[k][h].proposer = actions[m].proposer
             /\ versions[k][h].proposer \in hasApproved[m]
             /\ versions[k][h].effectiveFrom >= actions[m].proposedAt + TIMELOCK_DELAY
      BY <1>0, <1>5, <2>4 DEF PublishedByTwo
    <3>2. m \in ExecutedSchedules(k, h)'
      BY <2>1
    <3> QED
      BY <2>2, <2>3, <3>1, <3>2
  <2>5. \A k \in PolicyKind, h \in PolicyHash :
          Cardinality(ExecutedSchedules(k, h)') =
            Cardinality({j \in DOMAIN versionHistory'[k] : versionHistory'[k][j] = h})
    BY <1>0, <1>1, <2>1 DEF PublishedByTwo
  <2> QED
    BY <2>4, <2>5 DEF PublishedByTwo
<1>8. InvalidatedByTwo'
  <2>1. ASSUME NEW k \in PolicyKind, NEW h \in PolicyHash,
               versions'[k][h].status = "Invalidated"
        PROVE  /\ versions'[k][h].exists
               /\ \E m \in DOMAIN actions' :
                    /\ actions'[m].kind = "InvalidateVersion" /\ actions'[m].executed
                    /\ actions'[m].policyKind = k /\ actions'[m].policyHash = h
                    /\ actions'[m].data = versions'[k][h].invalidation
                    /\ actions'[m].proposedAt <= versions'[k][h].invalidatedAt
                    /\ Cardinality(hasApproved'[m]) >= REQUIRED_APPROVALS
    <3>1. CASE k = a.policyKind /\ h = a.policyHash
      <4>1. versions[k][h].exists /\ a.proposedAt <= now
        BY <1>0, <1>1, <3>1 DEF ApprovalsCounted
      <4> QED
        BY <1>1, <1>2, <1>3, <1>5, <3>1, <4>1
    <3>2. CASE ~(k = a.policyKind /\ h = a.policyHash)
      <4>1. versions'[k][h] = versions[k][h]
        BY <1>1, <3>2
      <4>2. versions[k][h].exists
        BY <1>0, <2>1, <4>1 DEF InvalidatedByTwo
      <4>3. PICK m \in DOMAIN actions :
               /\ actions[m].kind = "InvalidateVersion" /\ actions[m].executed
               /\ actions[m].policyKind = k /\ actions[m].policyHash = h
               /\ actions[m].data = versions[k][h].invalidation
               /\ actions[m].proposedAt <= versions[k][h].invalidatedAt
               /\ Cardinality(hasApproved[m]) >= REQUIRED_APPROVALS
        BY <1>0, <2>1, <4>1 DEF InvalidatedByTwo
      <4>4. actions'[m] = actions[m] /\ hasApproved'[m] = hasApproved[m]
        BY <1>1, <1>3, <4>3
      <4> QED
        BY <1>3, <4>1, <4>2, <4>3, <4>4
    <3> QED
      BY <3>1, <3>2
  <2> QED
    BY <2>1 DEF InvalidatedByTwo
<1> QED
  BY <1>4, <1>6, <1>7, <1>8 DEF IInv

(* Time only brings effective times nearer. *)
LEMMA PolicyTickStep == ASSUME IInv, Tick PROVE IInv'
<1>1. /\ now' = now + 1 /\ actions' = actions /\ hasApproved' = hasApproved
      /\ versions' = versions /\ versionHistory' = versionHistory
  BY DEF Tick
<1>2. TypeOK'
  BY <1>1 DEF IInv, TypeOK
<1>3. ApprovalsCounted'
  <2>1. \A n \in DOMAIN actions : actions[n].proposedAt <= now' /\ actions[n].proposedAt <= now
    <3>1. now \in Nat /\ \A n \in DOMAIN actions : actions[n].proposedAt \in Nat
      BY ActionFields DEF IInv, TypeOK
    <3>2. \A n \in DOMAIN actions : actions[n].proposedAt <= now
      BY DEF IInv, ApprovalsCounted
    <3> QED
      BY <1>1, <3>1, <3>2
  <2> QED
    BY <1>1, <2>1 DEF IInv, ApprovalsCounted
<1>4. PublishedByTwo' /\ InvalidatedByTwo'
  BY <1>1 DEF IInv, PublishedByTwo, InvalidatedByTwo, ExecutedSchedules
<1> QED
  BY <1>2, <1>3, <1>4 DEF IInv

-----------------------------------------------------------------------------
(* Every transaction of a governor, and time, keeps the invariant. *)
LEMMA PolicyStep == ASSUME IInv, [Next]_vars PROVE IInv'
<1>1. ASSUME NEW g \in Governor, NEW k \in PolicyKind, NEW h \in PolicyHash, NEW d \in Data,
             proposeVersion(g, k, h, d)
      PROVE  IInv'
  BY <1>1, ProposeStep DEF proposeVersion
<1>2. ASSUME NEW g \in Governor, NEW k \in PolicyKind, NEW h \in PolicyHash, NEW d \in Data,
             proposeInvalidation(g, k, h, d)
      PROVE  IInv'
  BY <1>2, ProposeStep DEF proposeInvalidation
<1>3. ASSUME NEW g \in Governor, NEW n \in DOMAIN actions, approveVersion(g, n)
      PROVE  IInv'
  BY <1>3, ApproveVersionStep
<1>4. ASSUME NEW g \in Governor, NEW n \in DOMAIN actions, approveInvalidation(g, n)
      PROVE  IInv'
  BY <1>4, ApproveInvalidationStep
<1>5. CASE Tick
  BY <1>5, PolicyTickStep
<1>6. CASE UNCHANGED vars
  <2>1. /\ now' = now /\ actions' = actions /\ hasApproved' = hasApproved
        /\ versions' = versions /\ versionHistory' = versionHistory
    BY <1>6 DEF vars
  <2>2. TypeOK'
    BY <2>1 DEF IInv, TypeOK
  <2>3. ApprovalsCounted'
    BY <2>1 DEF IInv, ApprovalsCounted
  <2>4. PublishedByTwo'
    BY <2>1 DEF IInv, PublishedByTwo, ExecutedSchedules
  <2>5. InvalidatedByTwo'
    BY <2>1 DEF IInv, InvalidatedByTwo
  <2> QED
    BY <2>2, <2>3, <2>4, <2>5 DEF IInv
<1> QED
  BY <1>1, <1>2, <1>3, <1>4, <1>5, <1>6 DEF Next

(* No transaction makes a version effective: what it publishes waits for the timelock. *)
LEMMA ActivationStep == ASSUME IInv, [Next]_vars PROVE ActivatesByTime
<1> SUFFICES ASSUME NEW k \in PolicyKind, NEW h \in PolicyHash,
                    ~isEffective(k, h), isEffective(k, h)'
             PROVE  versions'[k][h] = versions[k][h] /\ now < versions[k][h].effectiveFrom
  BY DEF ActivatesByTime
<1>0. /\ TypeOK /\ ApprovalsCounted /\ now \in Nat
      /\ versions \in [PolicyKind -> [PolicyHash -> PolicyVersion]]
  BY DEF IInv, TypeOK
<1>1. /\ versions'[k][h].exists /\ versions'[k][h].status # "Invalidated"
      /\ now' >= versions'[k][h].effectiveFrom
  BY DEF isEffective
<1>2. versions[k][h] \in PolicyVersion /\ versions[k][h].effectiveFrom \in Nat
  <2>1. versions[k][h] \in PolicyVersion
    BY <1>0
  <2>2. \A v \in PolicyVersion : v.effectiveFrom \in Nat
    BY DEF PolicyVersion
  <2> QED
    BY <2>1, <2>2
<1>3. versions'[k][h] = versions[k][h]
  <2>1. ASSUME NEW g \in Governor, NEW n \in DOMAIN actions, approveVersion(g, n)
        PROVE  versions'[k][h] = versions[k][h]
    <3>1. k # actions[n].policyKind \/ h # actions[n].policyHash =>
            versions'[k][h] = versions[k][h]
      BY <1>0, <2>1, PublishWrites
    <3>2. /\ now' = now
          /\ k = actions[n].policyKind /\ h = actions[n].policyHash =>
               versions'[k][h].effectiveFrom = now + TIMELOCK_DELAY
      BY <1>0, <2>1, PublishWrites
    <3>3. ~(now >= now + TIMELOCK_DELAY)
      BY <1>0, PolicyAssumption
    <3> QED
      BY <1>1, <3>1, <3>2, <3>3
  <2>2. ASSUME NEW g \in Governor, NEW n \in DOMAIN actions, approveInvalidation(g, n)
        PROVE  versions'[k][h] = versions[k][h]
    <3>1. /\ k # actions[n].policyKind \/ h # actions[n].policyHash =>
               versions'[k][h] = versions[k][h]
          /\ k = actions[n].policyKind /\ h = actions[n].policyHash =>
               versions'[k][h].status = "Invalidated"
      BY <1>0, <2>2, InvalidateWrites
    <3> QED
      BY <1>1, <3>1
  <2>3. ASSUME ~ \E g \in Governor, n \in DOMAIN actions :
                   approveVersion(g, n) \/ approveInvalidation(g, n)
        PROVE  versions' = versions
    BY <2>3 DEF Next, vars, proposeVersion, proposeInvalidation, Propose, Tick
  <2> QED
    BY <2>1, <2>2, <2>3
<1>4. ~(now >= versions[k][h].effectiveFrom)
  BY <1>1, <1>3 DEF isEffective
<1> QED
  BY <1>0, <1>2, <1>3, <1>4

-----------------------------------------------------------------------------
(* The inductive invariant holds in every reachable state, for any timelock and any number of actions. *)
THEOREM Invariance == Spec => []IInv
BY PolicyInit, PolicyStep, PTL DEF Spec

(* approveVersion: what is published was approved by two distinct governors, once, under the timelock. *)
THEOREM PublishedSafe == Spec => []PublishedByTwo
<1>1. IInv => PublishedByTwo
  BY DEF IInv
<1> QED
  BY <1>1, Invariance, PTL

(* approveInvalidation: what is invalidated was invalidated by two distinct governors, while it existed. *)
THEOREM InvalidatedSafe == Spec => []InvalidatedByTwo
<1>1. IInv => InvalidatedByTwo
  BY DEF IInv
<1> QED
  BY <1>1, Invariance, PTL

(* isEffective turns true by the passing of time alone: no governor's transaction activates a version. *)
THEOREM ActivationSafe == Spec => NoInstantActivation
<1>1. IInv /\ [Next]_vars => [ActivatesByTime]_vars
  BY ActivationStep
<1> QED
  BY <1>1, Invariance, PTL DEF Spec, NoInstantActivation
=============================================================================
