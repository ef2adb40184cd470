\* One-time codes, PKCE exchange and identity deletion with one factor,
\* two codes (so that code_hash collisions happen) and two concurrent
\* /token requests.  One verifier: a /token request that presents it for a
\* row not yet bound is rejected just as one with a wrong verifier is.  No
\* symmetry, because PkceRefinement and NoTokenForDeletedIdentity are
\* checked over the steps between states.
CONSTANTS
    Factors = {f1}
    Codes = {c1, c2}
    Verifiers = {v1}
    Requests = {r1, r2}
    TTL = 1
    MaxFailedAttempts = 1
    AttemptWindow = 2
    MaxTime = 1
    MaxOtcs = 2
    MaxLedger = 2
    MaxGen = 2
    NoRow = NoRow
    NoIdentity = NoIdentity
    NoOtc = NoOtc
SPECIFICATION Spec
INVARIANT TypeOK
INVARIANT OtcSingleUse
INVARIANT NoLateAcceptance
INVARIANT TokenOncePerRow
PROPERTY NoTokenForDeletedIdentity
PROPERTY PkceRefinement
