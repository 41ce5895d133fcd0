CONSTANTS
    Avatars = {a1}
    Suppliers = {s1}
    Products = {p1}
    Extras = {}
    Handlers = {h1}
    Workers = {w1}
    Last = 2
    Sent = Sent
    MaxRetries = 1
    MaxUploads = 2
    Uploaded = {a1, p1}
    Emptied = {a1}
    Edited = {p1}
    Destroyed = {s1}
    Failures = {"error", "kill"}
SPECIFICATION FairSpec
CHECK_DEADLOCK FALSE
PROPERTIES
    ThumbnailsArrive
    TasksEnd
