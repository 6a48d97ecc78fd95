SPECIFICATION MCSpec
CONSTANTS
    None = None
    People = {u, v}
    Founder = u
    Invitations = {i1, i2}
    Calls = {c1, c2}
    OfferedRoles = {"owner", "viewer"}
    MaxTokens = 2
    Bases = {k1, k2, k3}
    Docs = {d1, d2, d3}
    Asks = {a1, a2}
    Reviews = {r1, r2}
    Operators = {u}
    Home = k1
    Shared = k2
    Notes = {d1}
    Author = v
    MaxClosing = 1
    MaxGrants = 1
INVARIANTS InvitationsSound PublicationsSound SearchAuthorized
SYMMETRY Interchange
CHECK_DEADLOCK FALSE
