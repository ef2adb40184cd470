\* Four challenges: registration ceremonies and authentications in any
\* order, so two browsers can race their registrations and then both
\* present one assertion.  Symmetry over browsers, handles and credentials.
CONSTANTS
    e1 = e1
    c1 = c1
    c2 = c2
    h1 = h1
    h2 = h2
    k1 = k1
    k2 = k2
    Emails <- MCEmails
    Clients <- MCClients
    Handles <- MCHandles
    Creds <- MCCreds
    MaxChals = 4
    NoRow = NoRow
SPECIFICATION Spec
INVARIANT TypeOK
INVARIANT HandlePerEmail
INVARIANT ChallengeUsedOnce
SYMMETRY MCSymmetry
\* Idle once every challenge is issued and every request answered.
CHECK_DEADLOCK FALSE
