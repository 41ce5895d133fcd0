CONSTANTS
    o1 = o1
    o2 = o2
    c1 = c1
    s1 = s1
    s2 = s2
    a1 = a1
    p1 = p1
    p2 = p2
    OrderIds = {o1, o2}
    Seeded = {o1}
    Owner <- MCOwnerStaff
    Handlers = {h1, h2}
    Workers = {w1}
    Clients = {c1}
    Suppliers = {s1}
    Staff = {a1}
    Buyers = {c1}
    Switching = {}
    Retyped = {o2}
    Products = {p1, p2}
    SupplierOf <- MCOneSupplier
    Stock <- MCStock
    Carts <- MCCarts
    Edits <- MCEditsPlain
    Ops = {"create", "confirm", "admin", "destroy", "fail"}
SPECIFICATION FairSpec
CHECK_DEADLOCK FALSE
INVARIANTS
    TotalNeverPartial
    AnsweredOrderIsAnnounced
PROPERTIES
    SettledTotalStays
    SettledConfirmationStays
    RequestsEnd
    PlacedOrderIsAnnounced
