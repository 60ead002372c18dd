SPECIFICATION MCSpec
CONSTANTS
    p1 = p1
    p2 = p2
    m = m
    e1 = e1
    e2 = e2
    k1 = k1
    k2 = k2
    Policies = {p1, p2}
    Names = {m}
    Endpoints = {e1, e2}
    CacheKeys = {k1, k2}
    cacheKeyOf <- MCcacheKeyOf
    Plain = Plain
    Slots = {cred1, cred2}
    Mutators = {p1}
    Methods <- MCMethods
    Commits <- MCCommits
    Identities = {b1, s1, s2}
    Builtins = {b1}
    Kinds = {kind1, kind2}
    Tokens = {t1, t2, t3}
    Credentials = {cred1, cred2}
    TTL = 2
    NoOwner = NoOwner
    Calls = {cred1, cred2}
SYMMETRY Symmetry
INVARIANTS
    NamesUnique
    CacheExact
    NoStrayData
    ActionsBacked
    ConfigCurrent
PROPERTY
    ImplementsKindLease
