CONSTANTS
    k1 = k1
    k2 = k2
    r1 = r1
    r2 = r2
    Key = {k1, k2}
    Changing = {k1}
    Request = {r1, r2}
    Load = Load
    Kinds = {"validators", "nodes", "info", "scores"}
    All = All
    None = None
    Interval = 1
    MaxDelay = 1
SPECIFICATION Spec
INVARIANT TypeOK
INVARIANT BallotedIsFound
PROPERTY ReadsSpec
