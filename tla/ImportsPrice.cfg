CONSTANTS
    s1 = s1
    s2 = s2
    k1 = k1
    k2 = k2
    g1 = g1
    g2 = g2
    v1 = v1
    v2 = v2
    Suppliers = {s1, s2}
    Skus = {k1, k2}
    Categories = {g1, g2}
    Values = {v1, v2}
    Handlers = {h1, h2}
    Files <- PriceFiles
    Forms <- MCForms
    MaxId = 2
    MaxLogs = 2
    Ops = {"import"}
SPECIFICATION Spec
PROPERTIES
    BadPriceFailsItsRecord
