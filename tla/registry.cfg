CONSTANTS
    k1 = k1
    k2 = k2
    k3 = k3
    alice = alice
    bob = bob
    Ops = {x, y, z}
    Keys = {k1, k2, k3}
    Owners = {alice, bob}
    Owner <- MCOwner
    Names = {n}
    Ttl = 1
    Horizon = 1
    Patches = {p, q, r}
    Items = {i, j, l}
    Stamps = {1, 2, 3}
    PageSize = 2
    None = None
SPECIFICATION Spec
SYMMETRY Symmetry
INVARIANTS
    OwnActorsOnly
    SameName
    EnsureAgrees
    PatchesKept
    NothingPassedOver
CHECK_DEADLOCK FALSE
