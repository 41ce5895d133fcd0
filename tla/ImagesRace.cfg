CONSTANTS
    Avatars = {a1}
    Suppliers = {s1}
    Products = {p1}
    Extras = {e1}
    Handlers = {h1, h2}
    Workers = {w1}
    Last = 1
    Sent = Sent
    MaxRetries = 0
    MaxUploads = 2
    Uploaded = {p1}
    Emptied = {e1}
    Edited = {p1}
    Destroyed = {s1, p1}
    Failures = {"error"}
SPECIFICATION Spec
CHECK_DEADLOCK FALSE
SYMMETRY HandlerSymmetry
INVARIANTS
    TypeOK
    ThumbsNeverNewer
PROPERTIES
    SettledPictureStays
