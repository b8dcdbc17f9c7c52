\* An answer that reaches the tenant's next session.
SPECIFICATION Spec
CONSTANTS
    t1 = t1
    t2 = t2
    c1 = c1
    c2 = c2
    c3 = c3
    Tenants <- OneTenant
    Calls <- TwoCalls
    Configs = {"small"}
    MaxRegistrations = 2
    MaxFailures = 0
    Probed = {}
SYMMETRY Symmetry
INVARIANTS
    AnswersStayInTheirSession
