CONSTANTS
    h1 = h1
    h2 = h2
    t1 = t1
    t2 = t2
    None = None
    Bad = Bad
    Handles = {h1, h2}
    Threads = {t1, t2}
    HandleOf <- MCHandleOf
    Keys = {k1}
    ScopeOf <- MCScopeOf
    CatalogOf <- MCCatalogOf
    Gens = {g1, g2, g3}
    SizeOf <- MCSizeOf
    MaxBytes = 2
    MaxEntries = 2
    TempGrace = 1
    Lifetimes = {0, 1}
    MaxTime = 1
    MaxFaults = 1
INIT MCInit
NEXT MCNext
INVARIANTS LeasedObjectStays RefsResolve CaptureKept LocksComeBack
PROPERTIES LookupSparesReplacement OpenRecovers RefinesStore BoundsKept
SYMMETRY Symmetry
