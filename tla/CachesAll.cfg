CONSTANTS
    c1 = c1
    c2 = c2
    s1 = s1
    s2 = s2
    o1 = o1
    Clients = {c1, c2}
    Suppliers = {s1, s2}
    Askers <- EverybodyAsks
    Orders = {o1}
    Rows <- MCRows
    Statuses = {"pending", "shipped"}
    Questions <- MCQuestions
    Categories = {g1}
    Handlers = {h1, h2}
    Lifetime <- MCLifetime
    MaxDelay = 1
    Ops = {"orders", "categories", "fail"}
SPECIFICATION FairSpec
CONSTRAINT TwoKeys
INVARIANTS
    TypeOK
    StatisticsNotTooOld
PROPERTIES
    ClientsGetTheirOwn
    NewCategoryAppears
    CatalogueComesBack
    ImplementsStatistics
