---------------------------- MODULE DraftApproval -----------------------------
(***************************************************************************)
(* The draft, review, approval and submission workflow of the authoring    *)
(* stack (backend/app/authoring) for one draft of one tenant.              *)
(*                                                                         *)
(* Every endpoint runs in a thread of its own and opens one database       *)
(* session after another.  A session first reads rows and later writes and *)
(* commits; no row is locked or version-checked in between, so a request   *)
(* is modelled by one action per read and one per commit, and what it read *)
(* stays in its session record while other requests commit.  The message   *)
(* text is abstract: a content is a model value, its checksum is the       *)
(* content itself, and Valid says which contents pass local validation     *)
(* under which profile.                                                    *)
(***************************************************************************)
EXTENDS Naturals

CONSTANTS
    Requests,          \* concurrent HTTP requests (worker threads)
    Users,
    Authors, Reviewers, Approvers, Submitters,  \* the users holding each role
    Keys,              \* idempotency keys of submissions
    Contents,          \* the messages the field rows can spell
    Profiles,          \* client profiles
    Valid,             \* the <<content, profile>> pairs that pass validation
    Outcomes,          \* the results imported evidence may report: passed or not
    EvidenceRequired,  \* setting external_validation_required_for_submission
    NoKey,             \* in place of a key: a request that only composes
    NoChecksum,        \* current_checksum IS NULL
    MaxRevision        \* bound on the revision counter

ASSUME RolesAssumption ==
    /\ Authors \subseteq Users
    /\ Reviewers \subseteq Users
    /\ Approvers \subseteq Users
    /\ Submitters \subseteq Users

ASSUME ConstantsAssumption ==
    /\ MaxRevision \in Nat \ {0}
    /\ NoChecksum \notin Contents
    /\ NoKey \notin Keys
    /\ Valid \subseteq Contents \X Profiles
    /\ Outcomes \subseteq BOOLEAN
    /\ EvidenceRequired \in BOOLEAN

VARIABLES
    draft,        \* the row of message_drafts
    creator,      \* its created_by column, never written again
    content,      \* what its sequence and field rows spell
    versions,     \* draft_versions: the checksum stored for each revision
    reviews,      \* message_reviews
    approvals,    \* message_approvals
    edits,        \* the edit events of the audit table
    evidence,     \* external_validation_results
    submissions,  \* message_submissions
    session       \* what each request has read and not yet acted on

vars == <<draft, creator, content, versions, reviews, approvals, edits,
          evidence, submissions, session>>

-------------------------------------------------------------------------------
Statuses == {"DRAFT", "VALIDATED", "REVIEW_REQUESTED", "APPROVED", "ACKNOWLEDGED"}
Revisions == 1 .. MaxRevision
Checksums == Contents \cup {NoChecksum}

DraftRow == [status: Statuses, revision: Revisions, checksum: Checksums, profile: Profiles]
Review == [revision: Revisions, status: {"REQUESTED", "APPROVED"}]
Approval == [revision: Revisions, checksum: Contents, by: Users, active: BOOLEAN]
EditEvent == [revision: Revisions, by: Users]
Evidence == [checksum: Contents, profile: Profiles, passed: BOOLEAN]
Submission == [key: Keys, revision: Revisions, checksum: Contents]

Purposes == Keys \cup {NoKey}

\* The rows an edit and an approval go on with once their guards have passed.
EditableRow == {row \in DraftRow : row.revision < MaxRevision}
ChecksummedRow == {row \in DraftRow : row.checksum # NoChecksum}

Idle == [step |-> "idle"]
Session ==
    {Idle}
    \cup [step: {"editing"}, user: Users, row: EditableRow]
    \cup [step: {"reprofiling"}, user: Users, row: EditableRow, profile: Profiles]
    \cup [step: {"reviewing"}, row: DraftRow]
    \cup [step: {"approving"}, user: Users, row: ChecksummedRow]
    \cup [step: {"loaded"}, key: Purposes, content: Contents, profile: Profiles]
    \cup [step: {"saving"}, key: Purposes, checksum: Contents, passed: BOOLEAN, row: DraftRow]
    \cup [step: {"composed"}, key: Keys, checksum: Contents]
    \cup [step: {"submitting"}, key: Keys, checksum: Contents, row: DraftRow]

TypeOK ==
    /\ draft \in DraftRow
    /\ creator \in Authors
    /\ content \in Contents
    /\ versions \in [Revisions -> Checksums]
    /\ reviews \subseteq Review
    /\ approvals \subseteq Approval
    /\ edits \subseteq EditEvent
    /\ evidence \subseteq Evidence
    /\ submissions \subseteq Submission
    /\ session \in [Requests -> Session]

-------------------------------------------------------------------------------
(* create_draft: the mandatory sequences only, revision 1, no checksum.    *)
Init ==
    /\ draft \in [status: {"DRAFT"}, revision: {1}, checksum: {NoChecksum}, profile: Profiles]
    /\ creator \in Authors
    /\ content \in Contents
    /\ versions = [r \in Revisions |-> NoChecksum]
    /\ reviews = {}
    /\ approvals = {}
    /\ edits = {}
    /\ evidence = {}
    /\ submissions = {}
    /\ session = [p \in Requests |-> Idle]

(* The flush of the draft row: the ORM emits only the columns whose value  *)
(* differs from the one the session loaded, so a column another request    *)
(* committed in the meantime survives when this session "writes back" what *)
(* it had read.                                                            *)
Column(old, new, stored) == IF new = old THEN stored ELSE new

Flush(row, new) ==
    draft' = [status   |-> Column(row.status, new.status, draft.status),
              revision |-> Column(row.revision, new.revision, draft.revision),
              checksum |-> Column(row.checksum, new.checksum, draft.checksum),
              profile  |-> Column(row.profile, new.profile, draft.profile)]

Enter(p, s) == session' = [session EXCEPT ![p] = s]
Leave(p) == Enter(p, Idle)

(* A request whose guard fails, whose commit is refused by the database or *)
(* whose process dies rolls its open session back and is gone.             *)
Abort(p) ==
    /\ session[p] # Idle
    /\ Leave(p)
    /\ UNCHANGED <<draft, creator, content, versions, reviews, approvals, edits,
                   evidence, submissions>>

-------------------------------------------------------------------------------
(* Editing.                                                                *)
FaultSameRevision(row, profile) ==
    [status |-> "DRAFT", revision |-> row.revision, checksum |-> NoChecksum,
     profile |-> profile]

FaultKeepStatus(row, profile) ==
    [status |-> row.status, revision |-> row.revision + 1, checksum |-> NoChecksum,
     profile |-> profile]

Edited(row, profile) ==
    [status |-> "DRAFT", revision |-> row.revision + 1, checksum |-> NoChecksum,
     profile |-> profile]

Invalidated(as) == {[a EXCEPT !.active = FALSE] : a \in as}

FaultApprovalsSurvive(row, profile, u) ==
    /\ Flush(row, Edited(row, profile))
    /\ edits' = edits \cup {[revision |-> row.revision + 1, by |-> u]}
    /\ UNCHANGED approvals

MarkEdited(row, profile, u) ==
    /\ Flush(row, Edited(row, profile))
    /\ approvals' = Invalidated(approvals)
    /\ edits' = edits \cup {[revision |-> row.revision + 1, by |-> u]}

\* The read of upsert_field, delete_field, add_sequence or remove_sequence.
BeginEdit(p, u) ==
    /\ session[p] = Idle
    /\ u \in Authors
    /\ draft.revision < MaxRevision
    /\ Enter(p, [step |-> "editing", user |-> u, row |-> draft])
    /\ UNCHANGED <<draft, creator, content, versions, reviews, approvals, edits,
                   evidence, submissions>>

\* Its commit: some new content, the same one when a value is put again.
CommitEdit(p, c) ==
    /\ session[p].step = "editing"
    /\ content' = c
    /\ MarkEdited(session[p].row, session[p].row.profile, session[p].user)
    /\ Leave(p)
    /\ UNCHANGED <<creator, versions, reviews, evidence, submissions>>

\* update_profile returns early when the profile is the one already chosen.
BeginProfile(p, u, profile) ==
    /\ session[p] = Idle
    /\ u \in Authors
    /\ draft.profile # profile
    /\ draft.revision < MaxRevision
    /\ Enter(p, [step |-> "reprofiling", user |-> u, row |-> draft, profile |-> profile])
    /\ UNCHANGED <<draft, creator, content, versions, reviews, approvals, edits,
                   evidence, submissions>>

CommitProfile(p) ==
    /\ session[p].step = "reprofiling"
    /\ MarkEdited(session[p].row, session[p].profile, session[p].user)
    /\ Leave(p)
    /\ UNCHANGED <<creator, content, versions, reviews, evidence, submissions>>

-------------------------------------------------------------------------------
(* Composing: load_for_composition and save_composition are two sessions.  *)
(* Compose, validate and every download run it; so does submit, first.     *)
MayCompose(u, k) ==
    IF k = NoKey THEN u \in Authors \cup Reviewers \cup Approvers ELSE u \in Submitters

Load(p, u, k) ==
    /\ session[p] = Idle
    /\ MayCompose(u, k)
    /\ Enter(p, [step |-> "loaded", key |-> k, content |-> content,
                 profile |-> draft.profile])
    /\ UNCHANGED <<draft, creator, content, versions, reviews, approvals, edits,
                   evidence, submissions>>

FaultNeverInvalid(text, profile) == TRUE

PassesLocally(text, profile) == <<text, profile>> \in Valid

\* The composer renders and validates what was loaded; the saving session
\* reads the draft row again.
BeginSave(p) ==
    /\ session[p].step = "loaded"
    /\ Enter(p, [step |-> "saving", key |-> session[p].key,
                 checksum |-> session[p].content,
                 passed |-> PassesLocally(session[p].content, session[p].profile),
                 row |-> draft])
    /\ UNCHANGED <<draft, creator, content, versions, reviews, approvals, edits,
                   evidence, submissions>>

\* A revision under review or approved keeps its status only while the
\* checksum is the one the row had; any other status is recomputed.
ComposedStatus(row, checksum, passed) ==
    CASE ~passed -> "DRAFT"
      [] passed /\ row.status \in {"REVIEW_REQUESTED", "APPROVED"}
                /\ row.checksum = checksum -> row.status
      [] OTHER -> "VALIDATED"

\* submit goes on only with a composition that passed every local level.
CommitSave(p) ==
    LET s == session[p] IN
    /\ s.step = "saving"
    /\ Flush(s.row, [s.row EXCEPT !.checksum = s.checksum,
                                  !.status = ComposedStatus(s.row, s.checksum, s.passed)])
    /\ versions' = [versions EXCEPT ![s.row.revision] = s.checksum]
    /\ Enter(p, IF s.key # NoKey /\ s.passed
                  THEN [step |-> "composed", key |-> s.key, checksum |-> s.checksum]
                  ELSE Idle)
    /\ UNCHANGED <<creator, content, reviews, approvals, edits, evidence, submissions>>

-------------------------------------------------------------------------------
(* Review and approval.                                                    *)
BeginReview(p, u) ==
    /\ session[p] = Idle
    /\ u \in Authors
    /\ draft.status = "VALIDATED"
    /\ Enter(p, [step |-> "reviewing", row |-> draft])
    /\ UNCHANGED <<draft, creator, content, versions, reviews, approvals, edits,
                   evidence, submissions>>

CommitReview(p) ==
    LET row == session[p].row IN
    /\ session[p].step = "reviewing"
    /\ Flush(row, [row EXCEPT !.status = "REVIEW_REQUESTED"])
    /\ reviews' = reviews \cup {[revision |-> row.revision, status |-> "REQUESTED"]}
    /\ Leave(p)
    /\ UNCHANGED <<creator, content, versions, approvals, edits, evidence, submissions>>

FaultSelfApproval(u) == TRUE

IsChecker(u) == creator # u

FaultApproveUncomposed(p, u) ==
    /\ session[p] = Idle
    /\ u \in Approvers
    /\ draft.status = "REVIEW_REQUESTED"
    /\ IsChecker(u)
    /\ Enter(p, [step |-> "approving", user |-> u, row |-> draft])
    /\ UNCHANGED <<draft, creator, content, versions, reviews, approvals, edits,
                   evidence, submissions>>

BeginApprove(p, u) ==
    /\ session[p] = Idle
    /\ u \in Approvers
    /\ draft.status = "REVIEW_REQUESTED"
    /\ IsChecker(u)
    /\ draft.checksum # NoChecksum
    /\ Enter(p, [step |-> "approving", user |-> u, row |-> draft])
    /\ UNCHANGED <<draft, creator, content, versions, reviews, approvals, edits,
                   evidence, submissions>>

\* The approval binds the revision and the checksum the session read.
CommitApprove(p) ==
    LET row == session[p].row IN
    /\ session[p].step = "approving"
    /\ Flush(row, [row EXCEPT !.status = "APPROVED"])
    /\ approvals' = approvals \cup {[revision |-> row.revision, checksum |-> row.checksum,
                                     by |-> session[p].user, active |-> TRUE]}
    /\ reviews' = {IF r.revision = row.revision THEN [r EXCEPT !.status = "APPROVED"] ELSE r :
                     r \in reviews}
    /\ Leave(p)
    /\ UNCHANGED <<creator, content, versions, edits, evidence, submissions>>

-------------------------------------------------------------------------------
(* External validation evidence: one session that inserts a row and never  *)
(* writes the draft, so its read and its insert are one step.              *)
ImportEvidence(u, passed) ==
    /\ u \in Reviewers \cup Approvers
    /\ draft.checksum # NoChecksum
    /\ evidence' = evidence \cup {[checksum |-> draft.checksum, profile |-> draft.profile,
                                   passed |-> passed]}
    /\ UNCHANGED <<draft, creator, content, versions, reviews, approvals, edits,
                   submissions, session>>

(* Submission through the mock UAT connector, the only operational one.    *)
KeyUsed(k) == \E s \in submissions : s.key = k

FaultAnyChecksumApproved(revision, checksum) ==
    \E a \in approvals : a.revision = revision /\ a.active

ActivelyApproved(revision, checksum) ==
    \E a \in approvals : a.revision = revision /\ a.checksum = checksum /\ a.active

EvidencePassed(checksum) == \E e \in evidence : e.checksum = checksum /\ e.passed

\* A key already used answers with the earlier submission and changes nothing.
ReplaySubmit(p) ==
    /\ session[p].step = "composed"
    /\ KeyUsed(session[p].key)
    /\ Leave(p)
    /\ UNCHANGED <<draft, creator, content, versions, reviews, approvals, edits,
                   evidence, submissions>>

BeginSubmit(p) ==
    LET s == session[p] IN
    /\ s.step = "composed"
    /\ ~KeyUsed(s.key)
    /\ ActivelyApproved(draft.revision, s.checksum)
    /\ draft.status = "APPROVED"
    /\ EvidenceRequired => EvidencePassed(s.checksum)
    /\ Enter(p, [step |-> "submitting", key |-> s.key, checksum |-> s.checksum,
                 row |-> draft])
    /\ UNCHANGED <<draft, creator, content, versions, reviews, approvals, edits,
                   evidence, submissions>>

\* The unique index on idempotency_key_hash refuses a second row for a key.
CommitSubmit(p) ==
    LET s == session[p] IN
    /\ s.step = "submitting"
    /\ ~KeyUsed(s.key)
    /\ submissions' = submissions \cup {[key |-> s.key, revision |-> s.row.revision,
                                         checksum |-> s.checksum]}
    /\ Flush(s.row, [s.row EXCEPT !.status = "ACKNOWLEDGED"])
    /\ Leave(p)
    /\ UNCHANGED <<creator, content, versions, reviews, approvals, edits, evidence>>

-------------------------------------------------------------------------------
Next ==
    \/ \E p \in Requests :
          \/ Abort(p)
          \/ CommitProfile(p) \/ BeginSave(p) \/ CommitSave(p)
          \/ CommitReview(p) \/ CommitApprove(p)
          \/ ReplaySubmit(p) \/ BeginSubmit(p) \/ CommitSubmit(p)
          \/ \E c \in Contents : CommitEdit(p, c)
          \/ \E u \in Users :
                \/ BeginEdit(p, u) \/ BeginReview(p, u) \/ BeginApprove(p, u)
                \/ \E profile \in Profiles : BeginProfile(p, u, profile)
                \/ \E k \in Purposes : Load(p, u, k)
    \/ \E u \in Users, passed \in Outcomes : ImportEvidence(u, passed)

Spec == Init /\ [][Next]_vars

-------------------------------------------------------------------------------
(* However requests interleave.                                            *)

\* Whatever was submitted, under whichever revision, had been approved for
\* exactly that revision and checksum by a user other than the creator, even
\* if edits, compositions and further approvals ran between the reads and the
\* commit of submit.
SubmissionsWereApproved ==
    \A s \in submissions :
        \E a \in approvals : a.revision = s.revision /\ a.checksum = s.checksum
                            /\ a.by # creator

\* No text that local validation refuses under every profile is submitted,
\* although a stale review or composition can give it the status APPROVED.
SubmissionsAreValid ==
    \A s \in submissions : \E profile \in Profiles : <<s.checksum, profile>> \in Valid

(* The workflow implements its promise: each commit of an approval is an   *)
(* Approve, each commit of a submission a Send, and nothing else is seen.  *)
Promise == INSTANCE MakerChecker WITH
    Checksums <- Contents,
    maker <- creator,
    approved <- {[revision |-> a.revision, checksum |-> a.checksum, by |-> a.by] : a \in approvals},
    sent <- {[key |-> s.key, revision |-> s.revision, checksum |-> s.checksum] : s \in submissions}

KeepsPromise == Promise!Spec

(* What holds while requests run one at a time, and is lost when they race. *)

\* A draft that is validated, under review, approved or acknowledged carries
\* the checksum of its current text, which passes under its current profile.
StatusDescribesContent ==
    draft.status # "DRAFT" =>
        draft.checksum = content /\ <<content, draft.profile>> \in Valid

\* APPROVED is never shown for a revision without an active approval of its
\* current text, across edits, profile changes and compositions.
ApprovedIsApproved ==
    draft.status = "APPROVED" => ActivelyApproved(draft.revision, content)

\* An approval stays active only while the draft is at the revision and the
\* text it was given for.
ActiveApprovalsAreCurrent ==
    \A a \in approvals : a.active => a.revision = draft.revision /\ a.checksum = content

\* The checksum stored for a revision is written once: composing it again
\* finds the same text.
VersionsAreImmutable ==
    [][\A r \in Revisions : versions[r] # NoChecksum => versions'[r] = versions[r]]_vars

(* What the documentation and the code's own messages say, which the code  *)
(* does not keep.                                                          *)

\* docs/security.md: "An approver cannot be the author of what they approve."
\* Only the creator of the draft is refused; whoever edited the approved
\* revision is not.
ApproverIsNotAnAuthor ==
    \A a \in approvals, e \in edits : a.active /\ a.revision = e.revision => a.by # e.by

\* "Validation evidence profile does not match the draft" guards the import,
\* and the submission then relies on evidence of another profile.
EvidenceIsForTheProfile ==
    [][\A p \in Requests : CommitSubmit(p) /\ EvidenceRequired =>
          \E e \in evidence : e.passed /\ e.checksum = session[p].checksum
                             /\ e.profile = draft.profile]_vars

\* "A locally validated immutable revision is required" of a review request,
\* so what gets approved has passed validation: a review requested while an
\* edit commits puts text under review that never did.
ApprovalsAreOfValidText ==
    \A a \in approvals : \E profile \in Profiles : <<a.checksum, profile>> \in Valid
===============================================================================
