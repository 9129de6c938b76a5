SPECIFICATION Spec
CONSTANTS
    e1 = e1
    e2 = e2
    e3 = e3
    a1 = a1
    a2 = a2
    a3 = a3
    v1 = v1
    v2 = v2
    ana = ana
    bob = bob
    Email = {e1, e2, e3}
    Applicant = {e1, e2}
    Word = {ana, bob}
    BaseOf <- MCBaseOf
    Chosen <- MCChosen
    Flags <- MCFlags
    Account = {a1, a2, a3}
    Absent = Absent
    Reviewer = {v1, v2}
    Web = {q1}
    Form = {"profile", "password", "user"}
    CookieRoom = {0, 1}
    MaxIssued = 2
    MaxForms = 1
SYMMETRY Symmetry
INVARIANTS NoSuffixIsSkipped CredentialsAreShown
PROPERTIES TemporaryMustChange DecisionIsFinal
CHECK_DEADLOCK FALSE
