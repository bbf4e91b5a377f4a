SPECIFICATION Spec
CONSTANTS
    Schedulers = {p1, p2}
    Days = 2
    MaxTime = 8
    Policies <- HomeAndAhead
    MaxStep = 3
    MaxBack = 3
    MaxEdits = 2
    MaxOffers = 3
SYMMETRY Symmetric
INVARIANTS
    CursorFits
    SampledOnce
    NoBurst
    GrantsExecutable
