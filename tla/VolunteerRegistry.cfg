SPECIFICATION Spec
CONSTANTS
    a = a
    b = b
    v1 = v1
    v2 = v2
    c1 = c1
    c2 = c2
    ravi = ravi
    Instance = {a, b}
    Volunteer = {v1, v2}
    Sample = {}
    Username = {ravi}
    NameOf <- OneName
    Change = {c1, c2}
    AdminChange = {c1}
    Initial = Initial
    None = None
    MaxFaults = 1
SYMMETRY Symmetry
CHECK_DEADLOCK FALSE
INVARIANTS
    IndexesFollowList
    SettledRegistriesAgree
