------------------------------ MODULE SystemApi ------------------------------
(***************************************************************************)
(* The /server/status endpoints of edb/server/protocol/system_api.py.     *)
(*                                                                         *)
(* handle_request runs on the server's event loop, one coroutine per HTTP  *)
(* request.  For a GET of status/ready or status/alive it resolves the     *)
(* tenant (the one passed in, else the default tenant; a multi-tenant      *)
(* server has none and get_default_tenant raises, which is swallowed) and  *)
(* awaits a task that pings the backend with SELECT 'OK'.  While a ping    *)
(* is awaited, other coroutines run: the tenant becomes ready or stops     *)
(* being ready, and the backend comes and goes.  An exception of the ping  *)
(* travels back through the awaited task to handle_request's except        *)
(* clauses, which turn it into an error response.                          *)
(***************************************************************************)
EXTENDS Naturals

CONSTANTS
    Requests,         \* HTTP requests in flight at once
    HasDefaultTenant, \* TRUE on a single-tenant server
    MaxEnvSteps       \* bound on changes of tenant and backend state

Paths == {"ready", "alive", "other"}
Methods == {"GET", "POST"}

(* What SELECT 'OK' does against the backend: it returns, raises           *)
(* BackendUnavailableError, raises another EdgeDBError (the compiler pool  *)
(* failing), or raises an exception that is not an EdgeDBError.           *)
Outcomes == {"ok", "unavailable", "edgedb_error", "exception"}

Statuses == {0, 200, 404, 500, 503}
ErrTypes == {"none", "AccessError", "BackendUnavailableError",
             "EdgeDBError", "InternalServerError"}

VARIABLES
    ready,     \* tenant.is_ready()
    backend,   \* the outcome a ping started now would have
    envSteps,  \* state changes made so far
    req        \* req[r]: the request, where its coroutine is, its response

vars == <<ready, backend, envSteps, req>>

Req == [pc : {"idle", "ping", "done"}, path : Paths, method : Methods,
        tenant : BOOLEAN, status : Statuses, err : ErrTypes,
        checkedReady : BOOLEAN, cause : Outcomes \cup {"none"}]

TypeOK ==
    /\ ready \in BOOLEAN
    /\ backend \in Outcomes
    /\ envSteps \in 0..MaxEnvSteps
    /\ req \in [Requests -> Req]

Init ==
    /\ ready = FALSE
    /\ backend \in Outcomes
    /\ envSteps = 0
    /\ req = [r \in Requests |-> [pc |-> "idle", path |-> "other",
                method |-> "GET", tenant |-> FALSE, status |-> 0,
                err |-> "none", checkedReady |-> FALSE, cause |-> "none"]]

-----------------------------------------------------------------------------
(* handle_request up to its first await: resolve the tenant, dispatch on   *)
(* the path and the method.  Without a tenant, ready and alive answer OK   *)
(* at once; an unknown path or method is 404.  With a tenant the handler  *)
(* task starts: handle_readiness_query answers 503 AccessError when the    *)
(* tenant is not ready, and otherwise, like handle_liveness_query, awaits  *)
(* the ping.  A slot whose response was sent takes the next request.      *)
Receive(r, p, m, given) ==
    LET tenant == given \/ HasDefaultTenant
        base   == [req[r] EXCEPT !.path = p, !.method = m, !.tenant = tenant,
                     !.checkedReady = ready, !.cause = "none", !.err = "none",
                     !.status = 0]
    IN
    /\ req[r].pc \in {"idle", "done"}
    /\ req' = [req EXCEPT ![r] =
         CASE m = "GET" /\ p \in {"ready", "alive"} /\ ~tenant ->
                [base EXCEPT !.pc = "done", !.status = 200]
           [] m = "GET" /\ p = "ready" /\ ~ready ->
                [base EXCEPT !.pc = "done", !.status = 503,
                             !.err = "AccessError"]
           [] m = "GET" /\ p \in {"ready", "alive"} ->
                [base EXCEPT !.pc = "ping"]
           [] OTHER -> [base EXCEPT !.pc = "done", !.status = 404]]
    /\ UNCHANGED <<ready, backend, envSteps>>

(* The classes an exception of each ping outcome is an instance of       *)
(* (edb.errors: BackendUnavailableError derives from EdgeDBError), and     *)
(* the name type(ex).__name__ gives.                                       *)
IsA == [unavailable  |-> {"BackendUnavailableError", "EdgeDBError", "Exception"},
        edgedb_error |-> {"EdgeDBError", "Exception"},
        exception    |-> {"Exception"}]
TypeName == [unavailable |-> "BackendUnavailableError",
             edgedb_error |-> "EdgeDBError", exception |-> "Exception"]

(* handle_request's except clauses in source order: the class caught, the *)
(* status sent, and whether the error reports type(ex) or, for a plain    *)
(* Exception, InternalServerError.                                         *)
ExceptClauses ==
    << [cls |-> "BackendUnavailableError", status |-> 503, own |-> TRUE],
       [cls |-> "EdgeDBError",             status |-> 500, own |-> TRUE],
       [cls |-> "Exception",               status |-> 500, own |-> FALSE] >>

(* Python runs the first except clause whose class the exception is an    *)
(* instance of; _response_error sends its status and error type.          *)
Catch(clauses, o) ==
    LET i == CHOOSE i \in DOMAIN clauses :
                 /\ clauses[i].cls \in IsA[o]
                 /\ \A j \in 1..(i - 1) : clauses[j].cls \notin IsA[o]
    IN <<clauses[i].status,
         IF clauses[i].own THEN TypeName[o] ELSE "InternalServerError">>

(* Mutant of ErrorResponse: an exception that is not an EdgeDBError is    *)
(* reported with its own type, which has no get_code().                    *)
ErrorResponseRawType(o) == Catch([ExceptClauses EXCEPT ![3].own = TRUE], o)

(* Mutant of ErrorResponse: the EdgeDBError clause comes first, so it     *)
(* catches its subclass BackendUnavailableError too.                      *)
ErrorResponseSwapped(o) ==
    Catch(<<ExceptClauses[2], ExceptClauses[1], ExceptClauses[3]>>, o)

(* The status and error type sent for an exception the ping raised.      *)
ErrorResponse(o) == Catch(ExceptClauses, o)

(* _ping returns and _response_ok sends 200 with its JSON, or it raises   *)
(* and handle_request's except clauses send the error.                     *)
Ping(r) ==
    /\ req[r].pc = "ping"
    /\ req' = [req EXCEPT ![r].pc = "done", ![r].cause = backend,
                 ![r].status = IF backend = "ok" THEN 200
                               ELSE ErrorResponse(backend)[1],
                 ![r].err = IF backend = "ok" THEN "none"
                            ELSE ErrorResponse(backend)[2]]
    /\ UNCHANGED <<ready, backend, envSteps>>

(* The rest of the server: the tenant starts or stops accepting           *)
(* connections.                                                            *)
SetReady(b) ==
    /\ envSteps < MaxEnvSteps
    /\ ready' = b
    /\ envSteps' = envSteps + 1
    /\ UNCHANGED <<backend, req>>

(* The backend and the compiler pool change what a ping would do.         *)
SetBackend(o) ==
    /\ envSteps < MaxEnvSteps
    /\ backend' = o
    /\ envSteps' = envSteps + 1
    /\ UNCHANGED <<ready, req>>

Next ==
    \/ \E r \in Requests, p \in Paths, m \in Methods, g \in BOOLEAN :
          Receive(r, p, m, g)
    \/ \E r \in Requests : Ping(r)
    \/ \E b \in BOOLEAN : SetReady(b)
    \/ \E o \in Outcomes : SetBackend(o)

Spec == Init /\ [][Next]_vars

-----------------------------------------------------------------------------
(* Properties.                                                             *)

(* A 503 tells a load balancer to try later.  A status request with a     *)
(* tenant gets 503 exactly when is_ready() said no or the ping raised      *)
(* BackendUnavailableError; every other failure is a 500.  This rests on  *)
(* the except clause of the subclass coming before that of EdgeDBError.   *)
ServiceUnavailableExactlyWhenUnavailable ==
    \A r \in Requests :
        req[r].pc = "done" /\ req[r].tenant /\ req[r].path # "other"
        /\ req[r].method = "GET" =>
            (req[r].status = 503 <=>
                \/ req[r].cause = "unavailable"
                \/ req[r].path = "ready" /\ ~req[r].checkedReady)

=============================================================================
