CONSTANTS
    n1 = n1
    n2 = n2
    e1 = e1
    e2 = e2
    E1 = E1
    Ids = {u1, u2}
    Handlers = {h1, h2}
    Names = {n1, n2}
    Emails = {e1, e2, E1, blank}
    Blank = blank
    Normal <- MCNormal
    Texts <- MCTexts
    Registrations <- MCRegistrations
    Changes <- MCChanges
    Ops = {"register", "edit", "profile", "delete", "fail"}
SPECIFICATION Spec
CHECK_DEADLOCK FALSE
SYMMETRY HandlerSymmetry
INVARIANTS
    TypeOK
    ProfilesBelongToSuppliers
    PasswordResetWorks
    RegisteredNumberIsValid
    StoredNumbersFit
PROPERTIES
    GoneUserStaysGone
    DeactivatedUserStaysOut
