------------------------- MODULE DraftApproval_proofs --------------------------
(* Theorems about the approval workflow, for every number of requests,     *)
(* users, keys, contents, profiles and revisions.                          *)
EXTENDS DraftApproval, TLAPS

\* Writing back some columns of a draft row leaves a draft row.
LEMMA FlushType ==
    ASSUME NEW row \in DraftRow, NEW new \in DraftRow, draft \in DraftRow, Flush(row, new)
    PROVE  draft' \in DraftRow
  BY DEF Flush, Column, DraftRow

\* An edit takes a row below the bound to a row at the next revision.
LEMMA EditedType ==
    ASSUME NEW row \in EditableRow, NEW profile \in Profiles
    PROVE  Edited(row, profile) \in DraftRow
  BY ConstantsAssumption DEF EditableRow, Edited, DraftRow, Statuses, Revisions, Checksums

\* What a request has read is in the session set.
LEMMA EnterType ==
    ASSUME TypeOK, NEW p \in Requests, NEW s \in Session, Enter(p, s)
    PROVE  session' \in [Requests -> Session]
  BY DEF TypeOK, Enter

LEMMA LeaveType ==
    ASSUME TypeOK, NEW p \in Requests, Leave(p)
    PROVE  session' \in [Requests -> Session]
  BY EnterType DEF Leave, Session

\* The step of a session tells which of the session records it is.
LEMMA SessionShape ==
    ASSUME NEW s \in Session
    PROVE  /\ s.step = "editing" => s \in [step: {"editing"}, user: Users, row: EditableRow]
           /\ s.step = "reprofiling" =>
                s \in [step: {"reprofiling"}, user: Users, row: EditableRow, profile: Profiles]
           /\ s.step = "reviewing" => s \in [step: {"reviewing"}, row: DraftRow]
           /\ s.step = "approving" =>
                s \in [step: {"approving"}, user: Users, row: ChecksummedRow]
           /\ s.step = "loaded" =>
                s \in [step: {"loaded"}, key: Purposes, content: Contents, profile: Profiles]
           /\ s.step = "saving" =>
                s \in [step: {"saving"}, key: Purposes, checksum: Contents, passed: BOOLEAN,
                       row: DraftRow]
           /\ s.step = "composed" => s \in [step: {"composed"}, key: Keys, checksum: Contents]
           /\ s.step = "submitting" =>
                s \in [step: {"submitting"}, key: Keys, checksum: Contents, row: DraftRow]
  BY DEF Session, Idle

LEMMA InitType == Init => TypeOK
  BY ConstantsAssumption
     DEF Init, TypeOK, DraftRow, Statuses, Revisions, Checksums, Session

\* Every step of a request, and every import of evidence, keeps the types.
LEMMA StepType == TypeOK /\ [Next]_vars => TypeOK'
<1> SUFFICES ASSUME TypeOK, [Next]_vars
             PROVE  TypeOK'
  OBVIOUS
<1>1. ASSUME NEW p \in Requests, Abort(p)
      PROVE  TypeOK'
  BY <1>1, LeaveType DEF Abort, TypeOK
<1>2. ASSUME NEW p \in Requests, NEW u \in Users, BeginEdit(p, u)
      PROVE  TypeOK'
  <2>1. draft \in EditableRow
    BY <1>2 DEF BeginEdit, TypeOK, EditableRow
  <2>2. [step |-> "editing", user |-> u, row |-> draft] \in Session
    BY <2>1 DEF Session
  <2>3. QED
    BY <1>2, <2>2, EnterType DEF BeginEdit, TypeOK
<1>3. ASSUME NEW p \in Requests, NEW u \in Users, NEW profile \in Profiles,
             BeginProfile(p, u, profile)
      PROVE  TypeOK'
  <2>1. draft \in EditableRow
    BY <1>3 DEF BeginProfile, TypeOK, EditableRow
  <2>2. [step |-> "reprofiling", user |-> u, row |-> draft, profile |-> profile] \in Session
    BY <2>1 DEF Session
  <2>3. QED
    BY <1>3, <2>2, EnterType DEF BeginProfile, TypeOK
<1>4. ASSUME NEW row \in EditableRow, NEW profile \in Profiles, NEW u \in Users,
             MarkEdited(row, profile, u)
      PROVE  draft' \in DraftRow /\ approvals' \subseteq Approval /\ edits' \subseteq EditEvent
  <2>1. row \in DraftRow /\ row.revision + 1 \in Revisions
    BY ConstantsAssumption DEF EditableRow, DraftRow, Revisions
  <2>2. draft' \in DraftRow
    BY <1>4, <2>1, EditedType, FlushType DEF MarkEdited, TypeOK
  <2>3. approvals' \subseteq Approval
    BY <1>4 DEF MarkEdited, Invalidated, TypeOK, Approval
  <2>4. edits' \subseteq EditEvent
    BY <1>4, <2>1 DEF MarkEdited, TypeOK, EditEvent
  <2>5. QED
    BY <2>2, <2>3, <2>4
<1>5. ASSUME NEW p \in Requests, NEW c \in Contents, CommitEdit(p, c)
      PROVE  TypeOK'
  <2>1. session[p].row \in EditableRow /\ session[p].user \in Users
    BY <1>5, SessionShape DEF CommitEdit, TypeOK
  <2>2. session[p].row.profile \in Profiles
    BY <2>1 DEF EditableRow, DraftRow
  <2>3. QED
    BY <1>5, <1>4, <2>1, <2>2, LeaveType DEF CommitEdit, TypeOK
<1>6. ASSUME NEW p \in Requests, CommitProfile(p)
      PROVE  TypeOK'
  <2>1. session[p].row \in EditableRow /\ session[p].user \in Users
        /\ session[p].profile \in Profiles
    BY <1>6, SessionShape DEF CommitProfile, TypeOK
  <2>2. QED
    BY <1>6, <1>4, <2>1, LeaveType DEF CommitProfile, TypeOK
<1>7. ASSUME NEW p \in Requests, NEW u \in Users, NEW k \in Purposes, Load(p, u, k)
      PROVE  TypeOK'
  <2>1. [step |-> "loaded", key |-> k, content |-> content, profile |-> draft.profile]
          \in Session
    BY DEF Session, TypeOK, DraftRow
  <2>2. QED
    BY <1>7, <2>1, EnterType DEF Load, TypeOK
<1>8. ASSUME NEW p \in Requests, BeginSave(p)
      PROVE  TypeOK'
  <2>1. session[p] \in [step: {"loaded"}, key: Purposes, content: Contents, profile: Profiles]
    BY <1>8, SessionShape DEF BeginSave, TypeOK
  <2>2. [step |-> "saving", key |-> session[p].key, checksum |-> session[p].content,
         passed |-> PassesLocally(session[p].content, session[p].profile), row |-> draft]
          \in Session
    BY <2>1 DEF Session, TypeOK, PassesLocally
  <2>3. QED
    BY <1>8, <2>2, EnterType DEF BeginSave, TypeOK
<1>9. ASSUME NEW p \in Requests, CommitSave(p)
      PROVE  TypeOK'
  <2> DEFINE s == session[p]
             new == [s.row EXCEPT !.checksum = s.checksum,
                                  !.status = ComposedStatus(s.row, s.checksum, s.passed)]
  <2>1. s \in [step: {"saving"}, key: Purposes, checksum: Contents, passed: BOOLEAN,
               row: DraftRow]
    BY <1>9, SessionShape DEF CommitSave, TypeOK
  <2>2. ComposedStatus(s.row, s.checksum, s.passed) \in Statuses
    BY <2>1 DEF ComposedStatus, Statuses, DraftRow
  <2>3. new \in DraftRow
    BY <2>1, <2>2 DEF DraftRow, Checksums
  <2>4. draft' \in DraftRow
    BY <1>9, <2>1, <2>3, FlushType DEF CommitSave, TypeOK
  <2>5. versions' \in [Revisions -> Checksums]
    BY <1>9, <2>1 DEF CommitSave, TypeOK, Checksums
  <2>6. CASE s.key # NoKey /\ s.passed
    <3>1. [step |-> "composed", key |-> s.key, checksum |-> s.checksum] \in Session
      BY <2>1, <2>6 DEF Session, Purposes
    <3>2. Enter(p, [step |-> "composed", key |-> s.key, checksum |-> s.checksum])
      BY <1>9, <2>6 DEF CommitSave
    <3>3. QED
      BY <1>9, <2>4, <2>5, <3>1, <3>2, EnterType DEF CommitSave, TypeOK
  <2>7. CASE ~(s.key # NoKey /\ s.passed)
    BY <1>9, <2>4, <2>5, <2>7, LeaveType DEF CommitSave, TypeOK, Leave
  <2>8. QED
    BY <2>6, <2>7
<1>10. ASSUME NEW p \in Requests, NEW u \in Users, BeginReview(p, u)
       PROVE  TypeOK'
  <2>1. [step |-> "reviewing", row |-> draft] \in Session
    BY DEF Session, TypeOK
  <2>2. QED
    BY <1>10, <2>1, EnterType DEF BeginReview, TypeOK
<1>11. ASSUME NEW p \in Requests, CommitReview(p)
       PROVE  TypeOK'
  <2>1. session[p].row \in DraftRow
    BY <1>11, SessionShape DEF CommitReview, TypeOK
  <2>2. [session[p].row EXCEPT !.status = "REVIEW_REQUESTED"] \in DraftRow
    BY <2>1 DEF DraftRow, Statuses
  <2>3. draft' \in DraftRow
    BY <1>11, <2>1, <2>2, FlushType DEF CommitReview, TypeOK
  <2>4. reviews' \subseteq Review
    BY <1>11, <2>1 DEF CommitReview, TypeOK, Review, DraftRow
  <2>5. QED
    BY <1>11, <2>3, <2>4, LeaveType DEF CommitReview, TypeOK
<1>12. ASSUME NEW p \in Requests, NEW u \in Users, BeginApprove(p, u)
       PROVE  TypeOK'
  <2>1. [step |-> "approving", user |-> u, row |-> draft] \in Session
    BY <1>12 DEF BeginApprove, Session, TypeOK, ChecksummedRow
  <2>2. QED
    BY <1>12, <2>1, EnterType DEF BeginApprove, TypeOK
<1>13. ASSUME NEW p \in Requests, CommitApprove(p)
       PROVE  TypeOK'
  <2>1. session[p].row \in ChecksummedRow /\ session[p].user \in Users
    BY <1>13, SessionShape DEF CommitApprove, TypeOK
  <2>2. session[p].row \in DraftRow /\ session[p].row.checksum \in Contents
    BY <2>1 DEF ChecksummedRow, DraftRow, Checksums
  <2>3. [session[p].row EXCEPT !.status = "APPROVED"] \in DraftRow
    BY <2>2 DEF DraftRow, Statuses
  <2>4. draft' \in DraftRow
    BY <1>13, <2>2, <2>3, FlushType DEF CommitApprove, TypeOK
  <2>5. approvals' \subseteq Approval
    <3> DEFINE given == [revision |-> session[p].row.revision,
                         checksum |-> session[p].row.checksum,
                         by |-> session[p].user, active |-> TRUE]
    <3>1. approvals' = approvals \cup {given}
      BY <1>13 DEF CommitApprove
    <3>2. given \in Approval
      BY <2>1, <2>2 DEF Approval, DraftRow
    <3>3. QED
      BY <3>1, <3>2 DEF TypeOK
  <2>6. reviews' \subseteq Review
    BY <1>13 DEF CommitApprove, TypeOK, Review
  <2>7. QED
    BY <1>13, <2>4, <2>5, <2>6, LeaveType DEF CommitApprove, TypeOK
<1>14. ASSUME NEW u \in Users, NEW passed \in Outcomes, ImportEvidence(u, passed)
       PROVE  TypeOK'
  BY <1>14, ConstantsAssumption DEF ImportEvidence, TypeOK, Evidence, DraftRow, Checksums
<1>15. ASSUME NEW p \in Requests, ReplaySubmit(p)
       PROVE  TypeOK'
  BY <1>15, LeaveType DEF ReplaySubmit, TypeOK
<1>16. ASSUME NEW p \in Requests, BeginSubmit(p)
       PROVE  TypeOK'
  <2>1. session[p] \in [step: {"composed"}, key: Keys, checksum: Contents]
    BY <1>16, SessionShape DEF BeginSubmit, TypeOK
  <2>2. [step |-> "submitting", key |-> session[p].key, checksum |-> session[p].checksum,
         row |-> draft] \in Session
    BY <2>1 DEF Session, TypeOK
  <2>3. QED
    BY <1>16, <2>2, EnterType DEF BeginSubmit, TypeOK
<1>17. ASSUME NEW p \in Requests, CommitSubmit(p)
       PROVE  TypeOK'
  <2>1. session[p] \in [step: {"submitting"}, key: Keys, checksum: Contents, row: DraftRow]
    BY <1>17, SessionShape DEF CommitSubmit, TypeOK
  <2>2. [session[p].row EXCEPT !.status = "ACKNOWLEDGED"] \in DraftRow
    BY <2>1 DEF DraftRow, Statuses
  <2>3. draft' \in DraftRow
    BY <1>17, <2>1, <2>2, FlushType DEF CommitSubmit, TypeOK
  <2>4. submissions' \subseteq Submission
    BY <1>17, <2>1 DEF CommitSubmit, TypeOK, Submission, DraftRow
  <2>5. QED
    BY <1>17, <2>3, <2>4, LeaveType DEF CommitSubmit, TypeOK
<1>18. CASE UNCHANGED vars
  BY <1>18 DEF vars, TypeOK
<1>19. QED
  BY <1>1, <1>2, <1>3, <1>5, <1>6, <1>7, <1>8, <1>9, <1>10, <1>11, <1>12, <1>13, <1>14,
     <1>15, <1>16, <1>17, <1>18 DEF Next

\* Every table and every session always has its type: in particular no
\* commit stores a revision past the bound or an approval without a checksum.
THEOREM TypeCorrect == Spec => []TypeOK
<1>1. QED
  BY InitType, StepType, PTL DEF Spec

-------------------------------------------------------------------------------
(* The inductive invariant behind the submission's guarantee.  The guard   *)
(* of an approval and the one of a submission are evaluated when the row   *)
(* is read; what makes them still true at the commit is that created_by is *)
(* never written and that an approval is never deleted, only deactivated.  *)
WasApproved(revision, checksum) ==
    \E a \in approvals : a.revision = revision /\ a.checksum = checksum

CheckedByAnother ==
    /\ \A a \in approvals : a.by # creator
    /\ \A p \in Requests : session[p].step = "approving" => session[p].user # creator
    /\ \A p \in Requests : session[p].step = "submitting" =>
          WasApproved(session[p].row.revision, session[p].checksum)
    /\ \A s \in submissions : WasApproved(s.revision, s.checksum)

\* What is not the session of an approving or submitting request keeps the
\* part of the invariant that speaks of sessions.
LEMMA OtherSessions ==
    ASSUME TypeOK, CheckedByAnother, NEW p \in Requests, NEW s, Enter(p, s),
           s.step \notin {"approving", "submitting"}, UNCHANGED <<creator, approvals>>,
           UNCHANGED submissions
    PROVE  CheckedByAnother'
  BY DEF TypeOK, CheckedByAnother, Enter, WasApproved

\* Deactivating approvals takes none of them away.
LEMMA InvalidatedKeeps ==
    ASSUME approvals' = Invalidated(approvals), approvals \subseteq Approval
    PROVE  /\ \A a \in approvals' : \E b \in approvals :
                 a.revision = b.revision /\ a.checksum = b.checksum /\ a.by = b.by
           /\ \A b \in approvals : \E a \in approvals' :
                 a.revision = b.revision /\ a.checksum = b.checksum /\ a.by = b.by
<1>1. ASSUME NEW b \in approvals
      PROVE  LET a == [b EXCEPT !.active = FALSE]
             IN  /\ a \in approvals'
                 /\ a.revision = b.revision /\ a.checksum = b.checksum /\ a.by = b.by
  BY DEF Invalidated, Approval
<1>2. ASSUME NEW a \in approvals'
      PROVE  \E b \in approvals :
               a.revision = b.revision /\ a.checksum = b.checksum /\ a.by = b.by
  <2>1. PICK b \in approvals : a = [b EXCEPT !.active = FALSE]
    BY DEF Invalidated
  <2>2. a.revision = b.revision /\ a.checksum = b.checksum /\ a.by = b.by
    BY <2>1 DEF Approval
  <2>3. QED
    BY <2>2
<1>3. QED
  BY <1>1, <1>2

LEMMA InitChecked == Init => CheckedByAnother
  BY DEF Init, CheckedByAnother, Idle

LEMMA StepChecked == TypeOK /\ CheckedByAnother /\ [Next]_vars => CheckedByAnother'
<1> SUFFICES ASSUME TypeOK, CheckedByAnother, [Next]_vars
             PROVE  CheckedByAnother'
  OBVIOUS
<1>1. ASSUME NEW p \in Requests, Abort(p) \/ ReplaySubmit(p) \/ CommitReview(p)
      PROVE  CheckedByAnother'
  BY <1>1, OtherSessions DEF Abort, ReplaySubmit, CommitReview, Leave, Idle
<1>2. ASSUME NEW p \in Requests, NEW u \in Users, BeginEdit(p, u)
      PROVE  CheckedByAnother'
  BY <1>2, OtherSessions DEF BeginEdit
<1>3. ASSUME NEW p \in Requests, NEW u \in Users, NEW profile \in Profiles,
             BeginProfile(p, u, profile)
      PROVE  CheckedByAnother'
  BY <1>3, OtherSessions DEF BeginProfile
<1>4. ASSUME NEW p \in Requests, NEW u \in Users, NEW k \in Purposes, Load(p, u, k)
      PROVE  CheckedByAnother'
  BY <1>4, OtherSessions DEF Load
<1>5. ASSUME NEW p \in Requests, NEW u \in Users, BeginReview(p, u)
      PROVE  CheckedByAnother'
  BY <1>5, OtherSessions DEF BeginReview
<1>6. ASSUME NEW p \in Requests, BeginSave(p)
      PROVE  CheckedByAnother'
  BY <1>6, OtherSessions DEF BeginSave
<1>7. ASSUME NEW p \in Requests, CommitSave(p)
      PROVE  CheckedByAnother'
  BY <1>7, OtherSessions DEF CommitSave, Idle
<1>8. ASSUME NEW p \in Requests, Leave(p), approvals' = Invalidated(approvals),
             UNCHANGED <<creator, submissions>>
      PROVE  CheckedByAnother'
  <2>1. approvals \subseteq Approval
    BY DEF TypeOK
  <2>2. \A q \in Requests : session'[q] = Idle \/ session'[q] = session[q]
    BY <1>8 DEF Leave, Enter, TypeOK
  <2>3. QED
    BY <1>8, <2>1, <2>2, InvalidatedKeeps DEF CheckedByAnother, WasApproved, Idle
<1>9. ASSUME NEW p \in Requests, NEW c \in Contents, CommitEdit(p, c)
      PROVE  CheckedByAnother'
  BY <1>8, <1>9 DEF CommitEdit, MarkEdited
<1>10. ASSUME NEW p \in Requests, CommitProfile(p)
       PROVE  CheckedByAnother'
  BY <1>8, <1>10 DEF CommitProfile, MarkEdited
<1>11. ASSUME NEW p \in Requests, NEW u \in Users, BeginApprove(p, u)
       PROVE  CheckedByAnother'
  BY <1>11 DEF BeginApprove, IsChecker, Enter, TypeOK, CheckedByAnother, WasApproved
<1>12. ASSUME NEW p \in Requests, CommitApprove(p)
       PROVE  CheckedByAnother'
  <2> DEFINE given == [revision |-> session[p].row.revision,
                       checksum |-> session[p].row.checksum,
                       by |-> session[p].user, active |-> TRUE]
  <2>1. approvals' = approvals \cup {given} /\ given.by # creator
    BY <1>12 DEF CommitApprove, CheckedByAnother
  <2>2. /\ UNCHANGED <<creator, submissions>>
        /\ \A q \in Requests : session'[q] = Idle \/ session'[q] = session[q]
    BY <1>12 DEF CommitApprove, Leave, Enter, TypeOK
  <2>3. QED
    BY <2>1, <2>2 DEF CheckedByAnother, WasApproved, Idle
<1>13. ASSUME NEW u \in Users, NEW passed \in Outcomes, ImportEvidence(u, passed)
       PROVE  CheckedByAnother'
  BY <1>13 DEF ImportEvidence, CheckedByAnother, WasApproved
<1>14. ASSUME NEW p \in Requests, BeginSubmit(p)
       PROVE  CheckedByAnother'
  <2>1. WasApproved(draft.revision, session[p].checksum)
    BY <1>14 DEF BeginSubmit, ActivelyApproved, WasApproved
  <2>2. QED
    BY <1>14, <2>1 DEF BeginSubmit, Enter, TypeOK, CheckedByAnother, WasApproved
<1>15. ASSUME NEW p \in Requests, CommitSubmit(p)
       PROVE  CheckedByAnother'
  <2> DEFINE sent == [key |-> session[p].key, revision |-> session[p].row.revision,
                      checksum |-> session[p].checksum]
  <2>1. submissions' = submissions \cup {sent}
    BY <1>15 DEF CommitSubmit
  <2>2. WasApproved(sent.revision, sent.checksum)
    BY <1>15 DEF CommitSubmit, CheckedByAnother
  <2>3. /\ UNCHANGED <<creator, approvals>>
        /\ \A q \in Requests : session'[q] = Idle \/ session'[q] = session[q]
    BY <1>15 DEF CommitSubmit, Leave, Enter, TypeOK
  <2>4. QED
    BY <2>1, <2>2, <2>3 DEF CheckedByAnother, WasApproved, Idle
<1>16. CASE UNCHANGED vars
  BY <1>16 DEF vars, CheckedByAnother, WasApproved
<1>17. QED
  BY <1>1, <1>2, <1>3, <1>4, <1>5, <1>6, <1>7, <1>9, <1>10, <1>11, <1>12, <1>13, <1>14,
     <1>15, <1>16 DEF Next

LEMMA Checked == Spec => []CheckedByAnother
<1>1. QED
  BY InitChecked, StepChecked, TypeCorrect, PTL DEF Spec

\* Whatever is submitted was approved, for exactly its revision and checksum,
\* by someone other than the draft's creator, however requests interleave.
THEOREM OnlyApprovedIsSubmitted == Spec => []SubmissionsWereApproved
<1>1. CheckedByAnother => SubmissionsWereApproved
  BY DEF CheckedByAnother, SubmissionsWereApproved, WasApproved
<1>2. QED
  BY <1>1, Checked, PTL

-------------------------------------------------------------------------------
(* A submission's text passed validation when the request itself composed  *)
(* it: neither the draft's status nor its approvals, which other requests   *)
(* may have changed since, say so.                                         *)
ValidText(checksum) == \E profile \in Profiles : <<checksum, profile>> \in Valid

SendsValidText(s) ==
    /\ s.step = "saving" /\ s.passed => ValidText(s.checksum)
    /\ s.step \in {"composed", "submitting"} => ValidText(s.checksum)

ComposedIsValid ==
    /\ \A p \in Requests : SendsValidText(session[p])
    /\ \A s \in submissions : ValidText(s.checksum)

\* A request that enters a step keeping the invariant leaves it as it was.
LEMMA EnterKeepsValid ==
    ASSUME TypeOK, ComposedIsValid, NEW p \in Requests, NEW s, Enter(p, s),
           SendsValidText(s), UNCHANGED submissions
    PROVE  ComposedIsValid'
  BY DEF TypeOK, ComposedIsValid, Enter, SendsValidText, ValidText

LEMMA IdleIsValid == SendsValidText(Idle)
  BY DEF SendsValidText, Idle

LEMMA InitValid == Init => ComposedIsValid
  BY IdleIsValid DEF Init, ComposedIsValid

LEMMA StepValid == TypeOK /\ ComposedIsValid /\ [Next]_vars => ComposedIsValid'
<1> SUFFICES ASSUME TypeOK, ComposedIsValid, [Next]_vars
             PROVE  ComposedIsValid'
  OBVIOUS
<1>1. ASSUME NEW p \in Requests,
             \/ Abort(p) \/ ReplaySubmit(p) \/ CommitReview(p) \/ CommitProfile(p)
             \/ CommitApprove(p) \/ \E c \in Contents : CommitEdit(p, c)
      PROVE  ComposedIsValid'
  <2>1. Enter(p, Idle) /\ UNCHANGED submissions
    BY <1>1 DEF Abort, ReplaySubmit, CommitReview, CommitProfile, CommitApprove,
       CommitEdit, Leave
  <2>2. QED
    BY <2>1, IdleIsValid, EnterKeepsValid
<1>2. ASSUME NEW p \in Requests, NEW u \in Users,
             \/ BeginEdit(p, u) \/ BeginReview(p, u) \/ BeginApprove(p, u)
             \/ \E profile \in Profiles : BeginProfile(p, u, profile)
             \/ \E k \in Purposes : Load(p, u, k)
      PROVE  ComposedIsValid'
  <2>1. CASE BeginEdit(p, u)
    BY <2>1, EnterKeepsValid DEF BeginEdit, SendsValidText
  <2>2. CASE BeginReview(p, u)
    BY <2>2, EnterKeepsValid DEF BeginReview, SendsValidText
  <2>3. CASE BeginApprove(p, u)
    BY <2>3, EnterKeepsValid DEF BeginApprove, SendsValidText
  <2>4. ASSUME NEW profile \in Profiles, BeginProfile(p, u, profile)
        PROVE  ComposedIsValid'
    BY <2>4, EnterKeepsValid DEF BeginProfile, SendsValidText
  <2>5. ASSUME NEW k \in Purposes, Load(p, u, k)
        PROVE  ComposedIsValid'
    BY <2>5, EnterKeepsValid DEF Load, SendsValidText
  <2>6. QED
    BY <1>2, <2>1, <2>2, <2>3, <2>4, <2>5
<1>3. ASSUME NEW p \in Requests, BeginSave(p)
      PROVE  ComposedIsValid'
  <2> DEFINE s == session[p]
             saving == [step |-> "saving", key |-> s.key, checksum |-> s.content,
                        passed |-> PassesLocally(s.content, s.profile), row |-> draft]
  <2>1. s.profile \in Profiles
    BY <1>3, SessionShape DEF BeginSave, TypeOK
  <2>2. SendsValidText(saving)
    BY <2>1 DEF SendsValidText, PassesLocally, ValidText
  <2>3. Enter(p, saving) /\ UNCHANGED submissions
    BY <1>3 DEF BeginSave
  <2>4. QED
    BY <2>2, <2>3, EnterKeepsValid
<1>4. ASSUME NEW p \in Requests, CommitSave(p)
      PROVE  ComposedIsValid'
  <2> DEFINE s == session[p]
             composed == [step |-> "composed", key |-> s.key, checksum |-> s.checksum]
  <2>1. CASE s.key # NoKey /\ s.passed
    <3>1. SendsValidText(composed)
      BY <1>4, <2>1 DEF CommitSave, ComposedIsValid, SendsValidText
    <3>2. Enter(p, composed) /\ UNCHANGED submissions
      BY <1>4, <2>1 DEF CommitSave
    <3>3. QED
      BY <3>1, <3>2, EnterKeepsValid
  <2>2. CASE ~(s.key # NoKey /\ s.passed)
    <3>1. Enter(p, Idle) /\ UNCHANGED submissions
      BY <1>4, <2>2 DEF CommitSave
    <3>2. QED
      BY <3>1, IdleIsValid, EnterKeepsValid
  <2>3. QED
    BY <2>1, <2>2
<1>5. ASSUME NEW u \in Users, NEW passed \in Outcomes, ImportEvidence(u, passed)
      PROVE  ComposedIsValid'
  BY <1>5 DEF ImportEvidence, ComposedIsValid
<1>6. ASSUME NEW p \in Requests, BeginSubmit(p)
      PROVE  ComposedIsValid'
  <2> DEFINE s == session[p]
             submitting == [step |-> "submitting", key |-> s.key, checksum |-> s.checksum,
                            row |-> draft]
  <2>1. SendsValidText(submitting)
    BY <1>6 DEF BeginSubmit, ComposedIsValid, SendsValidText
  <2>2. Enter(p, submitting) /\ UNCHANGED submissions
    BY <1>6 DEF BeginSubmit
  <2>3. QED
    BY <2>1, <2>2, EnterKeepsValid
<1>7. ASSUME NEW p \in Requests, CommitSubmit(p)
      PROVE  ComposedIsValid'
  <2> DEFINE sent == [key |-> session[p].key, revision |-> session[p].row.revision,
                      checksum |-> session[p].checksum]
  <2>1. submissions' = submissions \cup {sent}
    BY <1>7 DEF CommitSubmit
  <2>2. ValidText(sent.checksum)
    BY <1>7 DEF CommitSubmit, ComposedIsValid, SendsValidText
  <2>3. \A q \in Requests : session'[q] = Idle \/ session'[q] = session[q]
    BY <1>7 DEF CommitSubmit, Leave, Enter, TypeOK
  <2>4. QED
    BY <2>1, <2>2, <2>3, IdleIsValid DEF ComposedIsValid, SendsValidText, ValidText
<1>8. CASE UNCHANGED vars
  BY <1>8 DEF vars, ComposedIsValid
<1>9. QED
  BY <1>1, <1>2, <1>3, <1>4, <1>5, <1>6, <1>7, <1>8 DEF Next

\* Whatever is submitted passed local validation under some profile, however
\* stale the review, the approval or the status it was submitted under.
THEOREM OnlyValidIsSubmitted == Spec => []SubmissionsAreValid
<1>1. ComposedIsValid => SubmissionsAreValid
  BY DEF ComposedIsValid, SubmissionsAreValid, ValidText
<1>2. QED
  BY <1>1, InitValid, StepValid, TypeCorrect, PTL DEF Spec

-------------------------------------------------------------------------------
(* The workflow implements MakerChecker.                                   *)
Shown(a) == [revision |-> a.revision, checksum |-> a.checksum, by |-> a.by]
Approved == {Shown(a) : a \in approvals}
Sent == {[key |-> s.key, revision |-> s.revision, checksum |-> s.checksum] : s \in submissions}

LEMMA InitPromise == Init => Promise!Init
  BY RolesAssumption DEF Init, Promise!Init

LEMMA StepPromise ==
    TypeOK /\ CheckedByAnother /\ [Next]_vars => [Promise!Next]_(Promise!vars)
<1> SUFFICES ASSUME TypeOK, CheckedByAnother, [Next]_vars
             PROVE  [Promise!Next]_(Promise!vars)
  OBVIOUS
<1>1. ASSUME UNCHANGED <<creator, approvals, submissions>>
      PROVE  UNCHANGED Promise!vars
  BY <1>1 DEF Promise!vars
<1>2. ASSUME UNCHANGED <<creator, submissions>>, approvals' = Invalidated(approvals)
      PROVE  UNCHANGED Promise!vars
  <2>1. approvals \subseteq Approval
    BY DEF TypeOK
  <2>2. Approved' = Approved
    <3>1. ASSUME NEW x \in Approved'
          PROVE  x \in Approved
      <4>1. PICK a \in approvals' : x = Shown(a)
        BY DEF Approved
      <4>2. QED
        BY <1>2, <2>1, <4>1, InvalidatedKeeps DEF Approved, Shown
    <3>2. ASSUME NEW x \in Approved
          PROVE  x \in Approved'
      <4>1. PICK b \in approvals : x = Shown(b)
        BY DEF Approved
      <4>2. QED
        BY <1>2, <2>1, <4>1, InvalidatedKeeps DEF Approved, Shown
    <3>3. QED
      BY <3>1, <3>2
  <2>3. QED
    BY <1>2, <2>2 DEF Promise!vars, Approved, Shown
<1>3. ASSUME NEW p \in Requests, CommitApprove(p)
      PROVE  Promise!Next
  <2>1. session[p].user \in Users /\ session[p].row \in ChecksummedRow
    BY <1>3, SessionShape DEF CommitApprove, TypeOK
  <2>2. PICK u \in Users, r \in Revisions, c \in Contents :
          u = session[p].user /\ r = session[p].row.revision /\ c = session[p].row.checksum
    BY <2>1 DEF ChecksummedRow, DraftRow, Checksums
  <2> DEFINE given == [revision |-> r, checksum |-> c, by |-> u, active |-> TRUE]
  <2>3. u # creator
    BY <1>3, <2>2 DEF CommitApprove, CheckedByAnother
  <2>4. approvals' = approvals \cup {given} /\ UNCHANGED <<creator, submissions>>
    BY <1>3, <2>2 DEF CommitApprove
  <2>5. Approved' = Approved \cup {Shown(given)}
    BY <2>4 DEF Approved
  <2>6. Promise!Approve(u, r, c)
    BY <2>3, <2>4, <2>5 DEF Promise!Approve, Approved, Shown
  <2>7. QED
    BY <2>6 DEF Promise!Next
<1>4. ASSUME NEW p \in Requests, CommitSubmit(p)
      PROVE  Promise!Next
  <2>1. PICK k \in Keys, r \in Revisions, c \in Contents :
          k = session[p].key /\ r = session[p].row.revision /\ c = session[p].checksum
    BY <1>4, SessionShape DEF CommitSubmit, TypeOK, DraftRow
  <2>2. PICK a \in approvals : a.revision = r /\ a.checksum = c
    <3>1. session[p].step = "submitting"
      BY <1>4 DEF CommitSubmit
    <3>2. QED
      BY <2>1, <3>1 DEF CheckedByAnother, WasApproved
  <2>3. /\ \A s \in submissions : s.key # k
        /\ submissions' = submissions \cup {[key |-> k, revision |-> r, checksum |-> c]}
        /\ UNCHANGED <<creator, approvals>>
    BY <1>4, <2>1 DEF CommitSubmit, KeyUsed
  <2>4. Shown(a) \in Approved /\ Shown(a).revision = r /\ Shown(a).checksum = c
    BY <2>2 DEF Approved, Shown
  <2>5. /\ \A s \in Sent : s.key # k
        /\ Sent' = Sent \cup {[key |-> k, revision |-> r, checksum |-> c]}
    BY <2>3 DEF Sent
  <2>6. Promise!Send(k, r, c)
    BY <2>3, <2>4, <2>5 DEF Promise!Send, Approved, Shown, Sent
  <2>7. QED
    BY <2>6 DEF Promise!Next
<1>5. QED
  BY <1>1, <1>2, <1>3, <1>4 DEF Next, vars, Abort, CommitProfile, BeginSave, CommitSave,
     CommitReview, ReplaySubmit, BeginSubmit, CommitEdit, BeginEdit, BeginReview,
     BeginApprove, BeginProfile, Load, ImportEvidence, MarkEdited

\* Seen through its approvals and submissions, every behaviour of the workflow
\* is one of the maker-checker promise.
THEOREM PromiseKept == Spec => KeepsPromise
<1>1. QED
  BY InitPromise, StepPromise, TypeCorrect, Checked, PTL
     DEF Spec, KeepsPromise, Promise!Spec
-------------------------------------------------------------------------------
(***************************************************************************)
(* One request at a time.  What a session has read is what is stored when  *)
(* it commits; a text has one revision, since an edit takes the next one   *)
(* and deactivates every approval.                                         *)
(***************************************************************************)
OneRequest == \A p, q \in Requests : p = q

ReadsCurrent(s) ==
    /\ s.step \in {"editing", "reprofiling", "reviewing", "approving", "saving", "submitting"}
          => s.row = draft
    /\ s.step = "reviewing" => draft.status = "VALIDATED"
    /\ s.step = "approving" => draft.status = "REVIEW_REQUESTED"
    /\ s.step = "submitting" => draft.status = "APPROVED"
    /\ s.step = "loaded" => s.content = content /\ s.profile = draft.profile
    /\ s.step = "saving" => /\ s.checksum = content
                            /\ s.passed <=> <<content, draft.profile>> \in Valid

ChecksumTells == draft.checksum \in {NoChecksum, content}
VersionsTell ==
    /\ versions[draft.revision] \in {NoChecksum, content}
    /\ \A r \in Revisions : r > draft.revision => versions[r] = NoChecksum

DraftTells ==
    /\ ChecksumTells /\ VersionsTell
    /\ StatusDescribesContent /\ ApprovedIsApproved /\ ActiveApprovalsAreCurrent

SerialInv == DraftTells /\ \A p \in Requests : ReadsCurrent(session[p])

LEMMA InitSerial == Init => SerialInv
<1> SUFFICES ASSUME Init PROVE SerialInv
  OBVIOUS
<1>1. draft.status = "DRAFT" /\ draft.checksum = NoChecksum /\ draft.revision = 1
  BY DEF Init
<1>2. DraftTells
  BY <1>1, ConstantsAssumption
     DEF Init, DraftTells, ChecksumTells, VersionsTell, StatusDescribesContent,
         ApprovedIsApproved, ActiveApprovalsAreCurrent, Revisions
<1>3. \A p \in Requests : ReadsCurrent(session[p])
  BY DEF Init, ReadsCurrent, Idle
<1> QED
  BY <1>2, <1>3 DEF SerialInv

\* Alone, a session that writes its row back leaves what it meant to write.
LEMMA FlushAlone ==
    ASSUME draft \in DraftRow, NEW new \in DraftRow, Flush(draft, new)
    PROVE  draft' = new
<1>1. draft' = [status |-> new.status, revision |-> new.revision,
                checksum |-> new.checksum, profile |-> new.profile]
  BY DEF Flush, Column
<1> QED
  BY <1>1 DEF DraftRow

\* A request that only reads keeps the invariant if what it has read is current.
LEMMA ReadingKeeps ==
    ASSUME TypeOK, SerialInv, NEW p \in Requests, NEW s, Enter(p, s), ReadsCurrent(s),
           UNCHANGED <<draft, content, versions, approvals>>
    PROVE  SerialInv'
<1>1. \A q \in Requests : session'[q] \in {s, session[q]}
  BY DEF Enter, TypeOK
<1>2. \A q \in Requests : ReadsCurrent(session[q])'
  BY <1>1 DEF SerialInv, ReadsCurrent
<1>3. DraftTells'
  BY DEF SerialInv, DraftTells, ChecksumTells, VersionsTell, StatusDescribesContent,
     ApprovedIsApproved, ActivelyApproved, ActiveApprovalsAreCurrent
<1> QED
  BY <1>2, <1>3 DEF SerialInv

\* A request that commits is the only one, so that no session is left that has read
\* the old row.
LEMMA CommitKeeps ==
    ASSUME TypeOK, OneRequest, NEW p \in Requests, NEW s, Enter(p, s),
           s.step \in {"idle", "composed"}, DraftTells'
    PROVE  SerialInv'
<1>1. \A q \in Requests : session'[q] = s
  BY DEF Enter, TypeOK, OneRequest
<1>2. \A q \in Requests : ReadsCurrent(session[q])'
  BY <1>1 DEF ReadsCurrent
<1> QED
  BY <1>2 DEF SerialInv

\* An edit moves to a revision that has no version and no active approval.
LEMMA EditKeeps ==
    ASSUME TypeOK, SerialInv, NEW profile \in Profiles, NEW u,
           draft \in EditableRow, MarkEdited(draft, profile, u), UNCHANGED versions,
           content' \in Contents
    PROVE  DraftTells'
<1>1. draft' = Edited(draft, profile)
  BY EditedType, FlushAlone DEF MarkEdited, TypeOK
<1>2. /\ draft'.status = "DRAFT" /\ draft'.checksum = NoChecksum
      /\ draft'.revision = draft.revision + 1
  BY <1>1 DEF Edited
<1>3. draft.revision \in Nat /\ draft'.revision \in Revisions
  BY <1>2, ConstantsAssumption DEF EditableRow, DraftRow, Revisions
<1>4. ActiveApprovalsAreCurrent'
  <2>1. \A a \in approvals' : ~a.active
    BY DEF MarkEdited, Invalidated, TypeOK, Approval
  <2> QED
    BY <2>1 DEF ActiveApprovalsAreCurrent
<1>5. VersionsTell'
  BY <1>2, <1>3 DEF VersionsTell, SerialInv, DraftTells, Revisions
<1> QED
  BY <1>2, <1>4, <1>5 DEF DraftTells, ChecksumTells, StatusDescribesContent, ApprovedIsApproved

LEMMA StepSerial == OneRequest /\ TypeOK /\ SerialInv /\ [Next]_vars => SerialInv'
<1> SUFFICES ASSUME OneRequest, TypeOK, SerialInv, [Next]_vars
             PROVE  SerialInv'
  OBVIOUS
<1>a. ReadsCurrent(Idle) /\ Idle.step = "idle"
  BY DEF ReadsCurrent, Idle
<1>1. ASSUME NEW p \in Requests, Abort(p) \/ ReplaySubmit(p)
      PROVE  SerialInv'
  BY <1>a, <1>1, ReadingKeeps DEF Abort, ReplaySubmit, Leave
<1>2. ASSUME NEW p \in Requests, NEW u \in Users, BeginEdit(p, u)
      PROVE  SerialInv'
  BY <1>2, ReadingKeeps DEF BeginEdit, ReadsCurrent
<1>3. ASSUME NEW p \in Requests, NEW u \in Users, NEW profile \in Profiles,
             BeginProfile(p, u, profile)
      PROVE  SerialInv'
  BY <1>3, ReadingKeeps DEF BeginProfile, ReadsCurrent
<1>4. ASSUME NEW p \in Requests, NEW u \in Users, NEW k \in Purposes, Load(p, u, k)
      PROVE  SerialInv'
  BY <1>4, ReadingKeeps DEF Load, ReadsCurrent
<1>5. ASSUME NEW p \in Requests, NEW u \in Users, BeginReview(p, u)
      PROVE  SerialInv'
  BY <1>5, ReadingKeeps DEF BeginReview, ReadsCurrent
<1>6. ASSUME NEW p \in Requests, NEW u \in Users, BeginApprove(p, u)
      PROVE  SerialInv'
  BY <1>6, ReadingKeeps DEF BeginApprove, ReadsCurrent
<1>7. ASSUME NEW p \in Requests, BeginSubmit(p)
      PROVE  SerialInv'
  BY <1>7, ReadingKeeps DEF BeginSubmit, ReadsCurrent
<1>8. ASSUME NEW p \in Requests, BeginSave(p)
      PROVE  SerialInv'
  <2> DEFINE s == [step |-> "saving", key |-> session[p].key, checksum |-> session[p].content,
                   passed |-> PassesLocally(session[p].content, session[p].profile),
                   row |-> draft]
  <2>1. session[p].content = content /\ session[p].profile = draft.profile
    BY <1>8 DEF BeginSave, SerialInv, ReadsCurrent
  <2>2. s.passed <=> <<content, draft.profile>> \in Valid
    BY <2>1, Zenon DEF PassesLocally
  <2>3. ReadsCurrent(s)
    BY <2>1, <2>2 DEF ReadsCurrent
  <2> QED
    BY <1>8, <2>3, ReadingKeeps DEF BeginSave
<1>9. ASSUME NEW p \in Requests, NEW c \in Contents, CommitEdit(p, c)
      PROVE  SerialInv'
  <2>1. session[p].row = draft /\ draft \in EditableRow /\ draft.profile \in Profiles
    BY <1>9, SessionShape DEF CommitEdit, SerialInv, ReadsCurrent, TypeOK, EditableRow, DraftRow
  <2>2. DraftTells'
    BY <1>9, <2>1, EditKeeps DEF CommitEdit
  <2> QED
    BY <1>a, <1>9, <2>2, CommitKeeps DEF CommitEdit, Leave
<1>10. ASSUME NEW p \in Requests, CommitProfile(p)
       PROVE  SerialInv'
  <2>1. session[p].row = draft /\ draft \in EditableRow /\ session[p].profile \in Profiles
    BY <1>10, SessionShape DEF CommitProfile, SerialInv, ReadsCurrent, TypeOK
  <2>2. content \in Contents /\ content' \in Contents
    BY <1>10 DEF CommitProfile, TypeOK
  <2>3. DraftTells'
    BY <1>10, <2>1, <2>2, EditKeeps DEF CommitProfile
  <2> QED
    BY <1>a, <1>10, <2>3, CommitKeeps DEF CommitProfile, Leave
<1>11. ASSUME NEW p \in Requests, CommitSave(p)
       PROVE  SerialInv'
  <2> DEFINE s == session[p]
             status == ComposedStatus(draft, content, s.passed)
             new == [draft EXCEPT !.checksum = content, !.status = status]
  <2>1. /\ s \in [step: {"saving"}, key: Purposes, checksum: Contents, passed: BOOLEAN,
                  row: DraftRow]
        /\ s.row = draft /\ s.checksum = content
        /\ s.passed <=> <<content, draft.profile>> \in Valid
    BY <1>11, SessionShape DEF CommitSave, SerialInv, ReadsCurrent, TypeOK
  <2>2. /\ status \in Statuses
        /\ status # "DRAFT" => s.passed
        /\ status = "APPROVED" => draft.status = "APPROVED"
    BY <2>1 DEF ComposedStatus, Statuses, TypeOK, DraftRow
  <2>3. /\ new \in DraftRow /\ new.status = status /\ new.checksum = content
        /\ new.revision = draft.revision /\ new.profile = draft.profile
    BY <2>2 DEF TypeOK, DraftRow, Checksums
  <2>4. draft' = new
    BY <1>11, <2>1, <2>3, FlushAlone DEF CommitSave, TypeOK
  <2>5. /\ versions' = [versions EXCEPT ![draft.revision] = content]
        /\ UNCHANGED <<content, approvals>>
    BY <1>11, <2>1 DEF CommitSave
  <2>6. draft.revision \in Revisions /\ draft.revision \in Nat
    BY ConstantsAssumption DEF TypeOK, DraftRow, Revisions
  <2>7. ChecksumTells' /\ VersionsTell'
    BY <2>3, <2>4, <2>5, <2>6
       DEF ChecksumTells, VersionsTell, SerialInv, DraftTells, TypeOK, Revisions
  <2>8. StatusDescribesContent' /\ ApprovedIsApproved' /\ ActiveApprovalsAreCurrent'
    BY <2>1, <2>2, <2>3, <2>4, <2>5
       DEF SerialInv, DraftTells, StatusDescribesContent, ApprovedIsApproved,
           ActiveApprovalsAreCurrent, ActivelyApproved
  <2>9. PICK t : Enter(p, t) /\ t.step \in {"idle", "composed"}
    BY <1>a, <1>11 DEF CommitSave
  <2> QED
    BY <2>7, <2>8, <2>9, CommitKeeps DEF DraftTells
<1>12. ASSUME NEW p \in Requests, CommitReview(p)
       PROVE  SerialInv'
  <2> DEFINE new == [draft EXCEPT !.status = "REVIEW_REQUESTED"]
  <2>1. session[p].row = draft /\ draft.status = "VALIDATED"
    BY <1>12 DEF CommitReview, SerialInv, ReadsCurrent
  <2>2. /\ new \in DraftRow /\ new.status = "REVIEW_REQUESTED" /\ new.checksum = draft.checksum
        /\ new.revision = draft.revision /\ new.profile = draft.profile
    BY DEF TypeOK, DraftRow, Statuses
  <2>3. draft' = new /\ UNCHANGED <<content, versions, approvals>>
    BY <1>12, <2>1, <2>2, FlushAlone DEF CommitReview, TypeOK
  <2>4. DraftTells'
    BY <2>1, <2>2, <2>3
       DEF SerialInv, DraftTells, ChecksumTells, VersionsTell, StatusDescribesContent,
           ApprovedIsApproved, ActiveApprovalsAreCurrent
  <2> QED
    BY <1>a, <1>12, <2>4, CommitKeeps DEF CommitReview, Leave
<1>13. ASSUME NEW p \in Requests, CommitApprove(p)
       PROVE  SerialInv'
  <2> DEFINE new == [draft EXCEPT !.status = "APPROVED"]
             given == [revision |-> draft.revision, checksum |-> draft.checksum,
                       by |-> session[p].user, active |-> TRUE]
  <2>1. session[p].row = draft /\ draft.status = "REVIEW_REQUESTED"
    BY <1>13 DEF CommitApprove, SerialInv, ReadsCurrent
  <2>2. draft.checksum = content /\ <<content, draft.profile>> \in Valid
    BY <2>1 DEF SerialInv, DraftTells, StatusDescribesContent
  <2>3. /\ new \in DraftRow /\ new.status = "APPROVED" /\ new.checksum = draft.checksum
        /\ new.revision = draft.revision /\ new.profile = draft.profile
    BY DEF TypeOK, DraftRow, Statuses
  <2>4. /\ draft' = new /\ UNCHANGED <<content, versions>>
        /\ approvals' = approvals \cup {given}
    BY <1>13, <2>1, <2>3, FlushAlone DEF CommitApprove, TypeOK
  <2>5. ChecksumTells' /\ VersionsTell' /\ StatusDescribesContent'
    BY <2>2, <2>3, <2>4
       DEF SerialInv, DraftTells, ChecksumTells, VersionsTell, StatusDescribesContent
  <2>6. given.revision = draft.revision /\ given.checksum = content /\ given.active
    BY <2>2
  <2>7. ApprovedIsApproved' /\ ActiveApprovalsAreCurrent'
    BY <2>3, <2>4, <2>6
       DEF SerialInv, DraftTells, ApprovedIsApproved, ActivelyApproved, ActiveApprovalsAreCurrent
  <2> QED
    BY <1>a, <1>13, <2>5, <2>7, CommitKeeps DEF CommitApprove, Leave, DraftTells
<1>14. ASSUME NEW u \in Users, NEW passed \in Outcomes, ImportEvidence(u, passed)
       PROVE  SerialInv'
  BY <1>14 DEF ImportEvidence, SerialInv, ReadsCurrent, DraftTells, ChecksumTells, VersionsTell,
     StatusDescribesContent, ApprovedIsApproved, ActivelyApproved, ActiveApprovalsAreCurrent
<1>15. ASSUME NEW p \in Requests, CommitSubmit(p)
       PROVE  SerialInv'
  <2> DEFINE new == [draft EXCEPT !.status = "ACKNOWLEDGED"]
  <2>1. session[p].row = draft /\ draft.status = "APPROVED"
    BY <1>15 DEF CommitSubmit, SerialInv, ReadsCurrent
  <2>2. /\ new \in DraftRow /\ new.status = "ACKNOWLEDGED" /\ new.checksum = draft.checksum
        /\ new.revision = draft.revision /\ new.profile = draft.profile
    BY DEF TypeOK, DraftRow, Statuses
  <2>3. draft' = new /\ UNCHANGED <<content, versions, approvals>>
    BY <1>15, <2>1, <2>2, FlushAlone DEF CommitSubmit, TypeOK
  <2>4. DraftTells'
    BY <2>1, <2>2, <2>3
       DEF SerialInv, DraftTells, ChecksumTells, VersionsTell, StatusDescribesContent,
           ApprovedIsApproved, ActiveApprovalsAreCurrent
  <2> QED
    BY <1>a, <1>15, <2>4, CommitKeeps DEF CommitSubmit, Leave
<1>16. CASE UNCHANGED vars
  BY <1>16 DEF vars, SerialInv, ReadsCurrent, DraftTells, ChecksumTells, VersionsTell,
     StatusDescribesContent, ApprovedIsApproved, ActivelyApproved, ActiveApprovalsAreCurrent
<1> QED
  BY <1>1, <1>2, <1>3, <1>4, <1>5, <1>6, <1>7, <1>8, <1>9, <1>10, <1>11, <1>12, <1>13, <1>14,
     <1>15, <1>16 DEF Next

LEMMA SerialHolds == ASSUME OneRequest PROVE Spec => []SerialInv
<1>1. TypeOK /\ SerialInv /\ [Next]_vars => SerialInv'
  BY StepSerial
<1> QED
  BY <1>1, InitSerial, TypeCorrect, PTL DEF Spec

\* While requests run one at a time, a status other than DRAFT says that the current
\* text was composed and passed under the current profile.
THEOREM StatusIsTrue == ASSUME OneRequest PROVE Spec => []StatusDescribesContent
<1>1. SerialInv => StatusDescribesContent
  BY DEF SerialInv, DraftTells
<1> QED
  BY <1>1, SerialHolds, PTL

\* While requests run one at a time, an approved draft has an active approval of its
\* current revision and text.
THEOREM ApprovedHasApproval == ASSUME OneRequest PROVE Spec => []ApprovedIsApproved
<1>1. SerialInv => ApprovedIsApproved
  BY DEF SerialInv, DraftTells
<1> QED
  BY <1>1, SerialHolds, PTL

\* While requests run one at a time, no approval outlives the text it was given for:
\* every edit deactivates all of them (_mark_edited).
THEOREM ApprovalsFollowTheText == ASSUME OneRequest PROVE Spec => []ActiveApprovalsAreCurrent
<1>1. SerialInv => ActiveApprovalsAreCurrent
  BY DEF SerialInv, DraftTells
<1> QED
  BY <1>1, SerialHolds, PTL

\* While requests run one at a time, the version stored for a revision never changes:
\* composing a revision again finds the text it had.
THEOREM VersionsStay == ASSUME OneRequest PROVE Spec => VersionsAreImmutable
<1>1. TypeOK /\ SerialInv /\ [Next]_vars
        => [\A r \in Revisions : versions[r] # NoChecksum => versions'[r] = versions[r]]_vars
  <2> SUFFICES ASSUME TypeOK, SerialInv, [Next]_vars, NEW r \in Revisions,
                      versions[r] # NoChecksum
               PROVE  versions'[r] = versions[r]
    OBVIOUS
  <2>1. ASSUME NEW p \in Requests, CommitSave(p)
        PROVE  versions'[r] = versions[r]
    <3>1. session[p].row = draft /\ session[p].checksum = content
      BY <2>1 DEF CommitSave, SerialInv, ReadsCurrent
    <3>2. versions' = [versions EXCEPT ![draft.revision] = content]
      BY <2>1, <3>1 DEF CommitSave
    <3>3. r = draft.revision => versions[r] = content
      BY DEF SerialInv, DraftTells, VersionsTell
    <3> QED
      BY <3>2, <3>3 DEF TypeOK
  <2>2. CASE UNCHANGED versions
    BY <2>2
  <2> QED
    BY <2>1, <2>2 DEF Next, vars, Abort, CommitProfile, BeginSave, CommitReview, CommitApprove,
       ReplaySubmit, BeginSubmit, CommitSubmit, CommitEdit, BeginEdit, BeginReview,
       BeginApprove, BeginProfile, Load, ImportEvidence
<1> QED
  BY <1>1, SerialHolds, TypeCorrect, PTL DEF Spec, VersionsAreImmutable
===============================================================================
