SPECIFICATION Spec
CONSTANTS
    p1 = p1
    p2 = p2
    p3 = p3
    here = here
    None = None
    Proc = {p1, p2, p3}
    Host = {here}
    HostOf <- SameHost
INVARIANTS TakeoverExclusive
