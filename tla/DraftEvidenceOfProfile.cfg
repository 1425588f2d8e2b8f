SPECIFICATION Spec
CONSTANTS
    ann = ann
    bob = bob
    sue = sue
    good = good
    other = other
    bad = bad
    base = base
    market = market
    NoKey = NoKey
    NoChecksum = NoChecksum
    Requests = {r1}
    Users <- MCUsers
    Authors = {ann}
    Reviewers = {}
    Approvers <- MCApprovers
    Submitters = {sue}
    Keys = {k1}
    Contents <- MCContents
    Profiles <- TwoProfiles
    Valid <- MCValid
    Outcomes = {TRUE, FALSE}
    EvidenceRequired = TRUE
    MaxRevision = 3
PROPERTIES
    EvidenceIsForTheProfile
