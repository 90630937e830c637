SPECIFICATION Spec
CHECK_DEADLOCK FALSE
CONSTANTS
    Requests = {r1, r2}
    Names = {n1, n2}
    Emails = {e1}
    Parallelism = 1
    MaxAttempts = 2
    MaxRequests = 5
    MaxFaults = 1
SYMMETRY Symmetry
VIEW View
INVARIANTS
    TypeOK
    SomeSuperuser
    UsableTokensAreCurrent
    PasswordsVerify
    GuessesAreLimited
    CodesWorkOnce
PROPERTIES
    AnswersAreTrue
    LaterUsersAreOrdinary
    DeliveredCodesStay
