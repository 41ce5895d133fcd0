CONSTANTS
    Avatars = {a1}
    Suppliers = {}
    Products = {}
    Extras = {}
    Handlers = {h1, h2}
    Workers = {w1}
    Last = 2
    Sent = Sent
    MaxRetries = 1
    MaxUploads = 2
    Uploaded = {a1}
    Emptied = {}
    Edited = {}
    Destroyed = {}
    Failures = {}
SPECIFICATION Spec
CHECK_DEADLOCK FALSE
PROPERTIES
    TaskKeepsPicture
