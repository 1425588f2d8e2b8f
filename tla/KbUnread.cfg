SPECIFICATION Spec

CONSTANTS
    d1 = d1
    d2 = d2
    d3 = d3
    x = x
    y = y
    ta = ta
    tb = tb
    tc = tc
    r1 = r1
    r2 = r2
    None = None
    Mixture = Mixture
    Paths = {1, 2}
    Docs = {d1, d2, d3}
    Ids = {x, y}
    Texts = {ta, tb, tc}
    MaxSegments = 2
    SourceOf <- MCSourceOf
    TextOf <- MCTextOf
    Blocked = {d3}
    Runs = {r1}
    MayReindex = {FALSE}
    MaxTrouble = 3

INVARIANTS
    UnreadVersionsAreTombstoned
