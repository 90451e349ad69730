SPECIFICATION Spec
CONSTANTS
    None = None
    s1 = s1
    s2 = s2
    Servers = {s1, s2}
    First = s1
    Sweeping = {s1}
    i1 = i1
    i2 = i2
    Ips = {i1, i2}
    Fixed = None
INVARIANTS TypeOK ServedAsItself
PROPERTIES JoinEnds LostLinkIsLeft
