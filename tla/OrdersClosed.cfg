CONSTANTS
    o1 = o1
    o2 = o2
    c1 = c1
    s1 = s1
    s2 = s2
    a1 = a1
    p1 = p1
    p2 = p2
    OrderIds = {o1, o2}
    Seeded = {o1}
    Owner <- MCOwner
    Handlers = {h1, h2}
    Workers = {w1}
    Clients = {c1}
    Suppliers = {s1, s2}
    Staff = {}
    Buyers = {c1}
    Switching = {s1, s2}
    Retyped = {}
    Products = {p1, p2}
    SupplierOf <- MCSupplierOf
    Stock <- MCStock
    Carts <- MCCarts
    Edits <- MCEdits
    Ops = {"create", "toggle"}
SPECIFICATION Spec
PROPERTIES
    ClosedSupplierGetsNoOrder
