SPECIFICATION Spec
CONSTANTS
    member = member
    admin = admin
    ns1 = ns1
    Users <- MCUsers
    Admins <- MCAdmins
    Namespaces <- MCNamespaces
    Membership <- MCMembership
    Names = {n1}
    PublicURIs = {hf}
    PrivateURIs = {s3}
    ModelIds = {m1, m2, m3}
    RequestIds = {r1, r2}
    Calls = {c1, c2}
    None = None
    Postgres = FALSE
INVARIANT RejectedNotInCatalog
CHECK_DEADLOCK FALSE
