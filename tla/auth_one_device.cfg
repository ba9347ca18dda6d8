CONSTANTS
    Rate = 2
    TTL = 2
    Issuer = "gongaji"
    Requests = {r1}
    Devices = {d1, d2}
    User = "u"
    Roles = {"USER", "BRANCH", "Admin", ""}
    Fold <- MCFold
    SingleDeviceRoles = {"USER"}
    BoundRoles = {"BRANCH"}
    Routes <- MCRoutes
    HandlerErrors <- MCHandlerErrors
    MaxTime = 5
    MaxChanges = 2
SPECIFICATION Spec
INVARIANT LatestDeviceOnly
