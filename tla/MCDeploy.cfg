CONSTANTS
    Drains = {d1, d2}
    Values = {1, 2}
    MaxChanges = 3
    MaxFaults = 1
    MaxLines = 1
    Chatty = {d1}
    None = None
    Processes = {1, 2}
    Single = {2}
    Layouts = {{1}, {2}}
    Archives = {s1, s2}
    s1 = s1
    i1 = i1
    Pins = {i1}
    Strategies = {"dockerfile", "buildpacks"}
    Pasts <- MCPasts
    MaxTrouble = 1
    Nothing = Nothing
SPECIFICATION MCSpec
PROPERTIES
    
    
    ToldOfItsOwn
    
CHECK_DEADLOCK FALSE
