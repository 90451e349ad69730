SPECIFICATION Spec
CONSTANTS
    n1 = n1
    net1 = net1
    None = None
    BadNet = bad
    Codes = {n1}
    DefaultCode = None
    MaxEvents = 2
    Clients = {c1, c2}
    Admins = {a1}
    Nets = {net1, net2}
    ConfigNets <- MCConfigNets
    StateIds = {k1, k2}
INVARIANTS RegistryInv ConfigurationsAgree ServedIsListed
PROPERTIES ListedIsNotReplaced
SYMMETRY Symmetry
CHECK_DEADLOCK FALSE
