\* Up to three published documents, fair refresh loop.
SPECIFICATION FairSpec
CONSTANTS
    old = old  new = new  sig = sig
    Kids = {old, new, sig}
    Documents <- MCDocuments
    first = first  second = second
    Calls = {first, second}
    MaxPublished = 3
INVARIANTS
    TypeOK
    ServesOneDocument
PROPERTIES
    CacheMovesForward
    ImplementsKeyCache
    RefreshEnds
    EventuallyFresh
