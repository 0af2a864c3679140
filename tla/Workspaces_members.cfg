SPECIFICATION Spec
CONSTANTS
    Proc = {r1, r2}
    alice = alice
    bob = bob
    User = {alice, bob}
    Tenant = {t1}
    Invite = {i1}
    Schedule = {c1}
    InputRole = {"owner", "viewer", "admin"}
    Setups <- MCMounted
    Nil = Nil
INVARIANT MembershipIdAccepted
SYMMETRY MCSymmetry
CHECK_DEADLOCK FALSE
