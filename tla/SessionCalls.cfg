\* Three calls of two tenants, which may be removed and registered again.
SPECIFICATION Spec
CONSTANTS
    t1 = t1
    t2 = t2
    c1 = c1
    c2 = c2
    c3 = c3
    Tenants <- TwoTenants
    Calls <- ThreeCalls
    Configs = {"small"}
    MaxRegistrations = 2
    MaxFailures = 0
    Probed = {}
SYMMETRY Symmetry
INVARIANTS
    TypeOK
    CountersMatchContext
    AnswersFollowQuestions
    RequestsAreSnapshots
    SharedIdsMeanOverlap
    TenantIsolation
PROPERTIES
    ContextOnlyGrows
    ImplementsTenantLog
