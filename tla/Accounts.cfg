SPECIFICATION AccountsSpec
CONSTANTS
    Caller = {c1, c2}
    Address = {a1, a2}
    Password = {p1, p2}
    k1 = k1
    k2 = k2
    AccountId = {k1, k2}
    MaxUser = 2
    Hashes = TRUE
    Delegated = FALSE
    MaxTime = 2
    Replica = {r1, r2}
    Recipient = {a1, a2}
    m1 = m1
    m2 = m2
    m3 = m3
    Mailing = {m1, m2, m3}
    Cooldown = 1
    MaxSends = 1
    r1 = r1
    plain = plain
    boss = boss
    Member = {u1}
    Roles = {plain, boss}
    Asker = {q1}
    Changer = {h1}
    RoleTtl = 1
    CacheMax = 1
    LookupTime = 0
SYMMETRY Renamings
CHECK_DEADLOCK FALSE
INVARIANTS AccountsTypeOK EitherDoor NoOrphans MailsApart RolesInEffect
