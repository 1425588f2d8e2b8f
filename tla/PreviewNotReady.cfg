SPECIFICATION UninterruptedSpec

CONSTANTS
    a = a
    b = b
    p = p
    x = x
    s1 = s1
    s2 = s2
    q1 = q1
    q2 = q2
    None = None
    Contents = {a, p}
    Ready = {a}
    Broken = {}
    Syncs = {s1}
    Requests = {q1}
    MaxTrouble = 2

INVARIANT
    RefusesWhatIsNotReady
