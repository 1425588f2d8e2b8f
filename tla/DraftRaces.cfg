SPECIFICATION Spec
CONSTANTS
    ann = ann
    bob = bob
    sue = sue
    good = good
    other = other
    bad = bad
    base = base
    market = market
    NoKey = NoKey
    NoChecksum = NoChecksum
    Requests = {r1, r2}
    Users <- MCUsers
    Authors = {ann}
    Reviewers = {}
    Approvers <- MCApprovers
    Submitters = {sue}
    Keys = {k1}
    Contents <- MCContents
    Profiles <- OneProfile
    Valid <- MCValid
    Outcomes = {}
    EvidenceRequired = FALSE
    MaxRevision = 2
SYMMETRY RequestSymmetry
INVARIANTS
    TypeOK
    SubmissionsWereApproved
    SubmissionsAreValid
PROPERTIES
    KeepsPromise
