SPECIFICATION Spec
CHECK_DEADLOCK FALSE
CONSTANTS
    Users = {"admin"}
    Admin = "admin"
    Roles = {"admin", "operator"}
    Paths = {"admin"}
    Requests = {1, 2}
    AccessLife = 1
    RefreshLife = 2
    MaxTime = 3
    MaxLogins = 1
INVARIANT LoginsAreAudited
INVARIANT SessionBounded
INVARIANT SignOutIsBounded
PROPERTY RequestSettles
