SPECIFICATION VerdictSpec
CONSTANTS
    Policies <- MCPolicies
    MaxRun = 5
    MaxAge = 3
INVARIANT VerdictTypeOK
PROPERTIES
    StatusIsEarned
    StaleIsEarned
