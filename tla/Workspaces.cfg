SPECIFICATION Spec
CONSTANTS
    Proc = {r1, r2}
    alice = alice
    bob = bob
    User = {alice, bob}
    Tenant = {t1}
    Invite = {i1}
    Schedule = {c1}
    InputRole = {"owner", "viewer", "admin"}
    Setups <- MCSetups
    Nil = Nil
INVARIANTS TypeOK RolesTraceable IdentityLast ActiveWasMember
PROPERTIES SchedulesKept MembersKept
SYMMETRY MCSymmetry
CHECK_DEADLOCK FALSE
