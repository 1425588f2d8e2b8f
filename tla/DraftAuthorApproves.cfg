SPECIFICATION Spec
CONSTANTS
    ann = ann
    bob = bob
    sue = sue
    good = good
    other = other
    bad = bad
    base = base
    market = market
    NoKey = NoKey
    NoChecksum = NoChecksum
    Requests = {r1}
    Users <- MCUsers
    Authors <- MCAuthors
    Reviewers = {}
    Approvers <- MCApprovers
    Submitters = {sue}
    Keys = {k1}
    Contents <- MCContents
    Profiles <- OneProfile
    Valid <- MCValid
    Outcomes = {}
    EvidenceRequired = FALSE
    MaxRevision = 3
INVARIANTS
    ApproverIsNotAnAuthor
