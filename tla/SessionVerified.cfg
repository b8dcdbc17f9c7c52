\* Two calls of a tenant that may be registered again with another
\* configuration, verification failures and health reports beside them.
SPECIFICATION VerifiedSpec
CONSTANTS
    t1 = t1
    c1 = c1
    c2 = c2
    Tenants <- OneTenant
    Calls <- TwoCalls
    Configs = {"small"}
    MaxRegistrations = 2
    MaxFailures = 1
    Probed <- OneTenant
    LengthLimit = 4
    Key <- TheKey
    Signed <- TheSigned
    Wire <- TheWire
INVARIANTS
    ContextIsAuthentic
PROPERTIES
    HealthNeverGoesBack
    QuestionsAreSettled
