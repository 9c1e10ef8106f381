SPECIFICATION Spec
CONSTANTS
    Callers = {c1, c2}
    People = {u1}
    TeamNames = {t1}
    Everyone = everyone
    Projects = {p1}
    Roles = {"viewer", "developer"}
    PlatformRoles = {"none", "platformViewer"}
    Nobody = Nobody
    Operator = Operator
    Budget = 3
SYMMETRY Symmetry
CHECK_DEADLOCK FALSE

    
    
    
PROPERTIES
    ImplementsMemory
