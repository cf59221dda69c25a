SPECIFICATION FairSpec
CONSTANTS
    Callers = {c1}
    Admins = {a1, a2}
    Props = {p1}
    Scopes = {"table", "other"}
    Nobody = Nobody
    Capability = TRUE
    MaxCols = 1
    MaxChanges = 1
INVARIANTS
    OnboardingInv
PROPERTIES
    AppliedIsFinal
    WritesAreGranted
    RevocationSettles
