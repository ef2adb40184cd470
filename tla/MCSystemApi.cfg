\* Two requests in flight; a multi-tenant server, so a request without a
\* tenant of its own has none; three changes of tenant and backend state.
CONSTANTS
    Requests = {r1, r2}
    HasDefaultTenant = FALSE
    MaxEnvSteps = 3
SPECIFICATION Spec
INVARIANT TypeOK
INVARIANT ServiceUnavailableExactlyWhenUnavailable
