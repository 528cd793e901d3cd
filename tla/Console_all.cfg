SPECIFICATION Spec
CONSTANTS
    Users = {u1, u2, u3}
    Codes = {c1}
    Tokens = {k1, k2}
    Submissions = {1, 2, 3, 4}
    MaxWorkspaces = 2
    InviteRoles = {"member"}
    SetRoles = {"owner", "admin"}
    p1 = p1
    p2 = p2
    m1 = m1
    m2 = m2
    y1 = y1
    Providers = {p1, p2}
    Known = {p1}
    EnvKeys = {}
    Names = {m1, m2}
    Aliases = {y1}
    Yaml <- OneAlias
    Tried <- Combinations
    Agents = {a1}
    Sessions = {s1}
    Edits = {1, 2, 3}
    NoRef = NoRef
    i1 = i1
    i2 = i2
    b1 = b1
    b2 = b2
    Instances = {i1, i2}
    Clients = {b1, b2}
    Home <- HomeOf
    Writes = {1, 2}
    MaxFaults = 1
    q1 = q1
    q2 = q2
    t1 = t1
    t2 = t2
    Plugins = {q1, q2}
    ToolNames = {t1, t2}
    Builtin = {t2}
    Manifests <- Offers
    Patches = {1, 2, 3}
    MaxUses = 1
    MaxAttempts = 2
INVARIANTS
    TypeOK
    MembershipSound
    LogoutIsFinal
    CallFollowsChain
    DeletedModelIsUnused
    
    
SYMMETRY Symmetry
\* Requests and changes run out.
CHECK_DEADLOCK FALSE
