SPECIFICATION Spec
CONSTANTS
    ann = ann
    bob = bob
    sue = sue
    good = good
    other = other
    bad = bad
    base = base
    market = market
    NoKey = NoKey
    NoChecksum = NoChecksum
    Requests = {r1}
    Users <- MCUsers
    Authors = {ann}
    Reviewers = {}
    Approvers <- MCApprovers
    Submitters = {sue}
    Keys = {k1, k2}
    Contents <- MCContents
    Profiles <- TwoProfiles
    Valid <- MCValid
    Outcomes = {TRUE}
    EvidenceRequired = TRUE
    MaxRevision = 3
INVARIANTS
    StatusDescribesContent
    ApprovedIsApproved
    ActiveApprovalsAreCurrent
PROPERTIES
    VersionsAreImmutable
