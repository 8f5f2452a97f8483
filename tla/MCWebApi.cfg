SPECIFICATION Spec
CONSTANTS
    r1 = r1
    r2 = r2
    r3 = r3
    t0 = t0
    None = None
    Requests <- MCRequests
    AuthUsers <- MCAuthUsers
    Calls <- MCCalls
    EarlierUsers <- MCEarlierUsers
    Seeds = {"seed"}
SYMMETRY Symmetry
INVARIANTS
    TypeOK
    EmailOnce
    TokenDies
    PasswordCurrent
    DeletedStaysDeleted
    AnswerMatchesEffect
CHECK_DEADLOCK FALSE
