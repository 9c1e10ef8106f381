CONSTANTS
    Replicas = {r1, r2}
    Requests = {q1, q2}
    Attempts = {a1, a2}
    Logins = {l1}
    Revalidate = 2
    TouchEvery = 3
    Idle = 1
    Absolute = 2
    LoginTTL = 0
    CodeTTL = 0
    TicketTTL = 0
    MaxTime = 3
    Budget = 1
    MaxChanges = 1
    MaxBegun = 1
    LastLogin = 1
    Policies <- MCPolicies
SYMMETRY Symmetry
SPECIFICATION LoginSpec
INVARIANTS
    SignOutWithinWindow
    OnceOnly
    
CHECK_DEADLOCK FALSE
