CONSTANTS
    r1 = r1
    t1 = t1
    t2 = t2
    Request = {r1}
    Load = Load
    Refresh = {t1, t2}
    Undefined = Undefined
SPECIFICATION FairSpec
INVARIANT TypeOK
INVARIANT NothingIsDropped
INVARIANT NotBackInVoting
PROPERTY EnabledIsShown
