\* An owner who was removed after passing the guard.
SPECIFICATION Spec
CONSTANTS
    o1 = o1
    o2 = o2
    sa = sa
    p1 = p1
    None = None
    Users = {o1, o2, sa}
    Owners0 = {o1, o2}
    PlatformRole <- MCPlatformRole
    Properties = {p1}
    Scopes = {{}, {p1}}
    Sessions = {s1, s2, s3}
    Requests = {r1, r2}
    MaxChanges = 2
SYMMETRY MCAlike
PROPERTY RemovedIsOut
CHECK_DEADLOCK FALSE
