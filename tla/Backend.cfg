SPECIFICATION BackendSpec

CONSTANTS
    a = a
    b = b
    p = p
    x = x
    s1 = s1
    s2 = s2
    q1 = q1
    q2 = q2
    t1 = t1
    t2 = t2
    None = None
    Contents = {a, b, p, x}
    Ready = {a, b}
    Broken = {x}
    Syncs = {s1}
    Requests = {q1}
    MaxTrouble = 2
    Clients = {t1, t2}
    References = {a, b}
    Synthetic = Synthetic
    MaxMessages = 5
    MaxInstructions = 1
    OwnReference = {"other"}
    Paths = {"A", "B"}
    Layout <- MCLayout
    NoPath = NoPath
    Values = {a, b}
    Editors = {t1, t2}
    MaxSequences = 3
    MaxFields = 2
    Workflows = {a, b}
    Names = {a, b}
    Senders = {t1, t2}
    Eligible = 2
    MaxSaved = 4
    Layouts <- MCLayouts
    Begun <- MCBegun
    MaxLines <- MCMaxLines
    MaxValues = 8
    MaxOccurrence = 2
    Schemas <- MCSchemas
    MaxNodes = 7
    MaxSupplied = 6
    MaxRepeat = 3

INVARIANT
    BackendTypeOK
    PackIsOfItsRow
    CleanSyncServesTheSource
    CachesFollowTheSync
    SamplesAreOfTheirKey
    RebookedWasCancelled
    OneActiveCancellation
    AmendmentReferencesAreNew
    SettledIsNotRebooked
    SerialEditsKeepTheLayout
    PassingTextIsComplete
    RoundTripsBelowFirstParents
    ChainsAreOfOneEvent
    EventsAndStatementsAreDistinct
    AnsweredReferencesAreTaken
    NothingIsReshaped
    WrittenIsReadBack
    DocumentsRoundTrip

SYMMETRY BackendSymmetry

CHECK_DEADLOCK FALSE
