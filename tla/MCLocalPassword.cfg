\* One email, two passwords, two reset requests, two identities.
CONSTANTS
    e1 = e1
    p1 = p1
    p2 = p2
    r1 = r1
    r2 = r2
    Emails <- MCEmails
    Passwords <- MCPasswords
    Requests <- MCRequests
    MaxIds = 2
    NoFactor = NoFactor
SPECIFICATION Spec
INVARIANT TypeOK
INVARIANT ResetRetiresTokens
\* Once the identities are used up and both requests answered the server is
\* idle: no client sends anything more.
CHECK_DEADLOCK FALSE
