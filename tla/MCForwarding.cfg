SPECIFICATION Spec
CONSTANTS
    u1 = u1
    u2 = u2
    z1 = z1
    p1 = p1
    g1 = g1
    g2 = g2
    Addresses = {u1, u2, z1, p1, g1, g2}
    Trusted = {p1, g1, g2}
    Gateways = {g1, g2}
    Zoned = {z1}
    Settings <- MCSettings
    Junk = Junk
    None = None
    MaxClaims = 2
    MaxHops = 4
SYMMETRY UntrustedSymmetry
INVARIANT ClientIsNearestUntrusted
PROPERTY HeadersAgree
CHECK_DEADLOCK FALSE
