SPECIFICATION Spec
CONSTANTS
    Names = {na, nb}
    Fqdns = {na}
    Sessions = {s1}
    Ids = {i1}
    Answers <- MCAnswers
    requery_ttl = 1
    blacklist_rounds = 2
    laundry_cap = 1
    TtlMod = 3
    MaxMessages = 2
    None = None
INVARIANTS
    TypeOK
    VerdictHasResponse
PROPERTIES
    FirstServeExact
    ExpiredLeaves
    ConfiguredNameRetried
