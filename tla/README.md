# TLA+ models of the test runner, the system API and the auth extension

This directory holds TLA+ specifications of the code under `src/`, the TLC
configurations that check them, and `PROJECT.json`, which records every
component, run, mutant, finding and hazard, and maps each definition to the
source lines it translates.

## The system

The repository has four source files:

| File | Lines | What it is |
|---|---|---|
| `src/edb/tools/test/runner.py` | 676 | EdgeDB's parallel unittest runner |
| `src/edb/server/protocol/system_api.py` | 163 | the `/server/status/ready` and `/server/status/alive` HTTP endpoints |
| `src/edgedb/server/pgsql/common.py` | 160 | the early "caos" table wrappers over PostgreSQL |
| `src/tests/test_http_ext_auth.py` | 5924 | the HTTP tests of the `ext::auth` extension |

`spec.md` describes the auth extension (components C1-C12). Its
implementation is not in this repository; only its tests are. The auth
handlers are therefore modelled from the spec, and every such definition is
marked `spec_modelled` in the map. Client steps, seeded rows and the
behaviour a test asserts are mapped to the test lines that perform or assert
them.

### Inventory

**Test runner (runner.py).**
- `ParallelTextTestRunner.run` sorts the test cases (`_sort_tests`):
  - each SERIALIZED class becomes one suite task;
  - every other test becomes a task of its own.
- With `num_workers > 1` it runs a `ParallelTestSuite`; otherwise a
  `SequentialTestSuite`.
- `ParallelTestSuite.run` has three kinds of actor:
  - **Pool workers.** Each runs `init_worker`, which takes a server
    connection from `worker_param_queue` after an `empty()` check. It then
    takes tasks from `map_async` (chunksize 1) and runs every test through
    `StreamingTestSuite._run`:
    - it tears down the previous class;
    - it runs setUpClass when the class changes, and skips silently after a
      failed setUpClass;
    - it calls `test.run`, then `record_test_stats`.
    - Every result call is pickled onto one `multiprocessing.SimpleQueue`.
      `put` holds the queue's write lock while it writes.
  - **The monitor thread** (`monitor_thread`). It replays each message on
    the `ParallelTextTestResult`. With failfast, `addFailure` and `addError`
    set `suite.stop_requested`. It stops on the `(None, None, None)`
    sentinel.
  - **The main thread.** It polls `ar.get(timeout=0.1)` and calls
    `pool.terminate()` when a stop is requested. It then posts the sentinel
    and joins the monitor with a 3 s timeout.
- State:
  - the param queue;
  - the task list and how far it has been handed out;
  - each worker's place, task, class fixture and failed classes;
  - the result queue and its write lock;
  - the monitor's and main thread's places;
  - `stop_requested`, `testsRun` and the recorded outcomes.
- Hard behaviours:
  - workers interleave on the shared queue;
  - `terminate()` can hit a worker at any point, including inside `put`;
  - the join has a timeout;
  - the `empty()`/`get()` pair is not atomic;
  - a crashed worker's task is never completed;
  - the last class's tearDownClass is never called.

**System API (system_api.py).**
- `handle_request` falls back to the default tenant. A failure there is
  swallowed, and a tenant-less server answers OK.
- It routes `status/ready` and `status/alive`.
- It maps `BackendUnavailableError` to 503 and other errors to 500.
- Readiness checks `tenant.is_ready()` and then awaits a `SELECT 'OK'` ping.
  The check can be stale by the time the ping answers.

**caos tables (common.py).**
- `DatabaseTable.create` runs the DDL in the docstring and ignores only
  `DuplicateTableError`.
- `insert` runs the docstring's INSERT.
- `ConceptTable.insert` and `ConceptMapTable.insert` drop the returned id.
- `concept_map` finds its concepts with subselects on the non-unique
  `concept.name`.
- `EntityTable.insert` always raises.
- Foreign keys cascade on delete, except `entity.concept_id`.

**Auth extension (spec.md, tests).**
- State:
  - identities and email factors;
  - OneTimeCode rows (code_hash unique, expires_at);
  - the AuthenticationAttempt ledger;
  - PKCEChallenge rows (record, bind, claim);
  - the webhook events emitted.
- Operations:
  - magic-link register, email and authenticate in Code mode;
  - local password register, authenticate, send-reset-email and
    reset-password;
  - WebAuthn register/options, register, authenticate/options and
    authenticate;
  - `/token`;
  - identity delete.
- Hard behaviours:
  - expiry at the boundary;
  - the rate-limit window;
  - code_hash collisions;
  - two `/token` exchanges of one row racing each other;
  - a delete racing an exchange;
  - serialization conflicts, answered 500;
  - a password reset racing another reset or a password change;
  - two WebAuthn registrations of one email racing with different handles;
  - one WebAuthn assertion presented twice at once.
- Correctness properties: spec section 3's invariants and section 8's
  testable properties.

## Modules

The runner's modules are layered:

| Module | Holds |
|---|---|
| `TestCases` | the test cases as constants, plus `SortTests` (`_sort_tests`) and its result `Tasks` |
| `TestResult` | the `ParallelTextTestResult` variables (`testsRun`, `recorded`, `stopRequested`) and `ApplyResult`, the effect of one result call |
| `AbstractSuite` | what any suite promises its result object; both suites refine it |
| `ParallelTestSuite` | the worker pool, the result queue, the monitor thread and the main thread |
| `SequentialTestSuite` | the single-process suite |

The other modules stand alone: `SystemApi`, `CaosTables`, `AuthCore`
(with its abstract `PkceStore`), `LocalPassword`, `WebAuthn` and `Webhooks`.

### TestCases.tla and TestResult.tla (runner.py)

Constants give:
- the classes and tests (`ClassOf`, `Cases`, the dict order `CaseOrder`);
- the SERIALIZED classes;
- the outcomes `test.run` can report;
- `Failfast`.

`SortTests` translates `_sort_tests`. `ApplyResult(m)` is the
`ParallelTextTestResult` method that message `m` names:
- `startTest` counts the test;
- an outcome is recorded against the test, or against the class for a
  setUpClass error;
- under failfast, `addFailure` and `addError` set `stop_requested`.

### ParallelTestSuite.tla (runner.py)

This module EXTENDS `TestResult`. It adds the workers, the number of server
connections, and `MaxCrashes`.

| Action | Code |
|---|---|
| `InitWorker`, `GetParam` | `init_worker`: `empty()`, then a blocking `get()` |
| `TakeTask` | the pool hands out the next task |
| `RunTest` / `RunCase` | `StreamingTestSuite._run`, with its fixture branches (`TearDownCalls`: the previous class's tearDownClass may raise, reported as an `addError` for that class); the result calls go to `pending` |
| `PutResult` / `ReleaseLock` | one `SimpleQueue.put`: lock taken, message appended, lock released |
| `FinishTest` | next test of a suite, or task collected |
| `MonitorDispatch` / `MonitorStop` | `monitor_thread`, which applies `ApplyResult` |
| `CollectAll`, `StopPool`, `PostSentinel`, `JoinMonitor` | the main thread's steps in `ParallelTestSuite.run` |
| `Crash` | a worker process dies (at most `MaxCrashes` times) and the pool starts a replacement, which runs `init_worker` again; the dead worker's task is lost |

### SequentialTestSuite.tla (runner.py)

This is the suite `ParallelTextTestRunner.run` uses with one worker. State:
- `spc`: where `run()` is;
- `idx` and `pos`: the item of `Tasks` and the test within it;
- `pending`: the current test's result calls not yet made;
- `prev`: `result._previousTestClass`;
- `setupFailed`: the classes whose setUpClass failed;
- `open`: a ghost, the classes set up and not yet torn down.

| Action | Code |
|---|---|
| `Start` | `next(iter(self.server_conns))`, which raises when the runner started no server (runner.py:254) |
| `RunTest` / `RunCase` | `StreamingTestSuite._run`, or `TestSuite.run` for a test of a SERIALIZED suite: tear down the previous class (`TearDownCalls`: when tearDownClass raises, an `addError` for that class), set up the new one (a failure is an `addError` for the class), skip the tests of a failed class |
| `Report` | one call on the result (`ApplyResult`) |
| `NextTest` | the `shouldStop` check of `TestSuite.run` before the next test of a suite, the `stop_requested` check after each item, and the end of the loop |

### AbstractSuite.tla and the refinement

`AbstractSuite` EXTENDS `TestResult` and adds one variable, `returned`. Its
actions are the steps a result object may see:
- `StartTest`: a test is started;
- `Outcome(t, o)`: a started test gets its one outcome;
- `ClassError(c)`: a setUpClass error;
- `Return`: `run()` returns, allowed only after a stop request or when every
  test has its outcome or its class's error (`Complete`).

`ASpec` adds weak fairness on `Return`.

Each suite module instantiates it:

    Suite == INSTANCE AbstractSuite WITH returned <- (...)

- The result variables map to themselves.
- `returned` is the suite's "main thread has returned" (`mpc` or `spc`).
- `SuiteRefinement == Suite!ASpec` is checked as a PROPERTY.
- Under failfast the parallel suite checks only `SuiteSafetyRefinement`
  (the safety part), because its run can hang there (finding 1).

The refinement rules out several kinds of step:
- a monitor replaying a message twice;
- an outcome that overtakes its `startTest`;
- a second outcome for a test;
- `run()` returning with results still in the queue.

### SystemApi.tla (system_api.py)

Each HTTP request is a slot of `req`. Its fields are:
- `pc`: where its coroutine is;
- the path, the method, and whether it has a tenant;
- the response's status and error type;
- two ghost fields: `checkedReady` (what `is_ready()` answered) and
  `cause` (what the ping met).

| Action | Code |
|---|---|
| `Receive` | `handle_request` up to its first await: tenant fallback, dispatch, the `is_ready()` check of `handle_readiness_query` |
| `Ping` | `_ping` returning (`_response_ok`) or raising into the except clauses (`ErrorResponse`) |

The except clauses are data: `ExceptClauses` lists them in source order
(class caught, status, whether `type(ex)` is reported). `Catch` picks the
first clause whose class the exception is an instance of, over the class
hierarchy `IsA`, in which BackendUnavailableError derives from EdgeDBError.
| `SetReady`, `SetBackend` | the rest of the server changing tenant readiness and what a ping would meet |

### CaosTables.tla (common.py)

- State: the tables that exist, the rows of `concept` and `concept_map`,
  the id sequences, and `ret`, which is what the last call gave its caller.
- `Create` is `DatabaseTable.create`, with its three outcomes: exists,
  created, and a foreign key to a missing table raising.
- `InsertConcept` and `InsertConceptMap` are the two inserts that can
  succeed. `IdsNamed` is the name subselect.
- `InsertEntity` (MetaError), `InsertEntityMap` (no INSERT docstring, so
  `DatabaseTable.insert` raises) and `InsertPathCache` (the foreign key to
  the never-filled entity table) are the inserts that always raise.

### AuthCore.tla (spec 3, 4.2, 4.3, 4.6, 4.10)

Each handler is one transaction, except `/token`. Its transaction is split
into `TokenBegin` (read the PKCE row) and `TokenCommit` / `TokenReject` /
`TokenConflict`:
- `TokenCommit` commits only if the row is unchanged (serializable isolation);
- `TokenConflict` is the serialization failure when it changed. Spec 5
  names no retry, so the error reaches the client as a 500
  (InternalServerError, spec 7), and nothing is written.

Handlers:
- `RegisterMagicLink` creates the identity and factor, records PKCE, issues
  an OTC and emits events. `IssueOtc` has no step for a code whose
  code_hash is already stored: the insert raises ConstraintViolationError
  (test 4810-4828) and the handler's transaction aborts.
- `SendCode` issues a fresh code to an existing factor.
- `VerifyCode` is the whole `/magic-link/authenticate`:
  - it sweeps expired codes;
  - on a match it deletes the code, marks the factor verified, records a
    successful attempt, emits `OneTimeCodeVerified` and binds PKCE;
  - with no match, at the limit it returns AttemptsExceeded;
  - with no match below the limit it records a failed attempt and returns
    InvalidCode or CodeExpired.
- `DeleteIdentity` is the cascade.
- `Tick` advances the injected clock.

The model's abstractions:
- `S256` and `HashCode` are injective, as SHA-256 is for the inputs that
  occur.
- Factor `f` stands for its identity.
- PKCE rows are keyed by challenge. A generation number tells a re-created
  row from the one a request read.

The refinement: `PkceStore` is what the PKCE store promises, with a claim
that is one atomic step. Its state is a row per challenge (absent, unbound
or bound to an identity), the claims handed out, and the deleted
identities. Its actions are `Record`, `Bind`, `Claim` and `Delete`, and
`Delete` takes the identity's rows with it. `AuthCore` instantiates it as
`Pkce`:
- a row maps to its identity, and its generation is forgotten;
- an issued token maps to its challenge and identity;
- `deleted` is `removed`.

`TokenBegin`, `TokenReject` and `TokenConflict` leave the mapped state alone.
`TokenCommit` must then be a `Claim`, `VerifyCode` a `Bind`, and
`DeleteIdentity` a `Delete`. `PkceRefinement` checks that.

### LocalPassword.tla (spec 4.5, C5, modelled from the spec)

The email/password provider, as the `local_password` tests drive it with
`require_verification` on. Every step of a request is one action, except
`/reset-password`. That one reads the subject's factor in `ResetBegin`,
then ends in `ResetCommit`, `ResetReject` (400, invalid token) or
`ResetConflict` (a serialization conflict, answered 500).

| Action | What it models |
|---|---|
| `Register(e, p)` | `/register`: identity and factor, hash with a fresh salt |
| `Authenticate(e, p)` | `/authenticate` with the right password: a PKCE row bound to the identity |
| `SendReset(e)` | `/send-reset-email`: a token whose secret is the current password hash |
| `DeleteIdentity(e)` | the delete of the identity, which takes its factor and PKCE rows |
| `ResetBegin` / `ResetCommit` / `ResetReject` / `ResetConflict` | `/reset-password` |

The model's abstractions:
- A hash is a password plus a salt number. Every hash draws a new salt, so
  two hashes of one password differ, as with Argon2id.
- The token's secret is SHA-256 of the password hash, and SHA-256 is
  injective here, so the secret is the hash itself. `forgot_form_01`
  checks this binding.
- Requests that change nothing (a taken email, a wrong password, a reset
  email for an unknown address) are stuttering steps and are left out.

### WebAuthn.tla (spec 4.7, C7, modelled from the spec)

The WebAuthn provider is not in this repository, so its handlers follow
spec 4.7. The option requests and the invalid-request answer are mapped to
the tests that perform them (test_http_ext_auth.py 3965-4290).
- State:
  - `factors`: the WebAuthnFactor rows (email, user_handle, credential);
  - `regChals` and `authChals`: the registration and authentication
    challenge rows;
  - `drawn`: the handles ever drawn;
  - `minted`: the credentials ever created;
  - `cl`: each browser's request in flight, with its cookie and snapshot;
  - `logins`: the successful authentications, in order.
- `register` and `authenticate` each read in one step and commit in
  another, as a serializable transaction does. A commit whose reads have
  changed meanwhile is a serialization failure, answered 500.

| Action | What it models |
|---|---|
| `RegisterOptions(c, e)` | reuse the email's handle, or draw a fresh one; store a registration challenge; set the handle cookie |
| `RegisterBegin(c, k, att)` | `POST /webauthn/register` reads the email's factors |
| `RegisterReject(c)` | a bad attestation, a missing challenge or a handle other than the stored one (`AssertionFailed`): 400 |
| `RegisterCommit(c)` | insert the factor, if the factors read are unchanged |
| `RegisterConflict(c)` | conflict: 500, nothing written |
| `AuthOptions(c, e)` | store an authentication challenge |
| `AuthBegin(c, a, k)` | `POST /webauthn/authenticate` reads the challenge and the credential's factor |
| `AuthReject(c)` | no such challenge or credential, or a credential of another email: 400 |
| `AuthCommit(c)` | delete the challenge and sign in, if the rows read are unchanged |
| `AuthConflict(c)` | conflict: 500, nothing written |
| `DeleteIdentity(k)` | an identity's delete takes its factor with it |

- A challenge may be presented by any browser, so a replayed assertion is
  part of the model.
- Signature checks are abstracted to a boolean (attestation) and to
  credential membership (assertion). Challenge expiry is not modelled.

### Webhooks.tla (spec 4.10, modelled from the spec)

The webhook dispatcher is not in this repository, so this module follows
spec 4.10. Its subscription constants are the ones
`test_http_auth_ext_local_password_register_form_01` configures:
- `webhook-01` subscribes to IdentityCreated and EmailFactorCreated;
- `webhook-03` subscribes to IdentityCreated only.

Each delivery (an event and a subscriber) moves through these statuses:
`none`, `queued`, `inflight`, `failed`, then `queued` again, `acked` or
`dropped`.

| Action | What it models |
|---|---|
| `Emit(e)` | a handler emits an event: one delivery per subscription is queued |
| `Send(d)` | the POST, counted in `attempts` |
| `Respond(d)` | three ways a POST can end, including where the subscriber saw it (`received`) but the dispatcher saw a failure |
| `Backoff(d)` | re-queue the delivery, or drop it at `MaxAttempts` |

- The HMAC signature and the body are abstracted away.
- The backoff delay is abstracted to "some later step".

### MC modules

- `MCParallelTestSuite` defines two classes: `A` (SERIALIZED, tests a1 and
  a2) and `B` (test b1).
- `MCSequentialTestSuite` defines four classes:
  - `A` (SERIALIZED, a1 and a2);
  - `B` (b1 and b2);
  - `C` (c1);
  - `D` (SERIALIZED, d1 and d2).
- `MCAuthCore` defines the model values.
- `MCLocalPassword` has one email, two passwords and two `/reset-password`
  requests.
- `MCWebAuthn` has one email, two browsers, two handles, two credentials
  and four challenges, with symmetry over browsers, handles and credentials.
- `MCWebhooks` defines the two events and two subscribers described above.

## Runs

There are 9 passing runs and 3 violation runs.

| Run | Checks | Result |
|---|---|---|
| `parallel_suite` | `TypeOK`, `SerializedExclusive`, `SuiteRefinement`, `RunnerReturns` | pass, 80,269 states |
| `parallel_suite_failfast` | `OutcomesComplete`, `SuiteSafetyRefinement`; failfast, no server connections, one worker crash | pass, 616,628 states |
| `parallel_suite_failfast_hang` | `RunnerReturns` | **violation** (finding 1) |
| `parallel_suite_crash_hang` | `RunnerReturns` with one worker crash | **violation** (finding 2) |
| `sequential_suite` | `TypeOK`, `SuiteRefinement` | pass, 796 states |
| `sequential_teardown` | `FixturesTornDown` | **violation** (finding 3) |
| `system_api` | `TypeOK`, `ServiceUnavailableExactlyWhenUnavailable` | pass, 24,580 states |
| `caos_tables` | `TypeOK` | pass, 34,646 states |
| `auth_core` | `TypeOK`, `OtcSingleUse`, `NoLateAcceptance`, `TokenOncePerRow`, `NoTokenForDeletedIdentity`, `PkceRefinement` | pass, 18,684 states |
| `local_password` | `TypeOK`, `ResetRetiresTokens` | pass, 9,821 states |
| `webhooks` | `TypeOK`, `DeliverySettles` | pass, 30,784 states |
| `webauthn` | `TypeOK`, `HandlePerEmail`, `ChallengeUsedOnce` | pass, 145,717 states |

The failfast run does not check `TypeOK` and `SerializedExclusive` again:
neither a stop nor a crash hands a task out twice, so it adds no way to
break them. The sequential suite does not check that it returns, or that
at most one class fixture is open. Its loop is finite, and `RunTest` tears
one class down and sets the next up in one step, so both hold by the
model's shape.

The sequential suite is a single loop, so its state space is small. It is
exhaustive over every outcome of every test and every setUpClass result of
the seven tests in four classes, and every tearDownClass that runs may raise.

What each property says:
- **SerializedExclusive**: two workers never run tests of the same
  SERIALIZED class at once.
- **OutcomesComplete**: when run returns without a terminate, no message
  was lost or duplicated between workers, queue, sentinel and monitor. The
  main result then has:
  - a `startTest` and exactly one outcome for every executed test;
  - its class's setUpClass error for every test that never executed.
- **SuiteRefinement / SuiteSafetyRefinement**: the suite implements
  `AbstractSuite` (see above).
- **RunnerReturns**: `ParallelTestSuite.run` eventually returns.
- **FixturesTornDown**: when `run()` returns, every class set up has been
  torn down.
- **ServiceUnavailableExactlyWhenUnavailable**: a status request with a
  tenant gets 503 exactly when `is_ready()` said no or the ping raised
  BackendUnavailableError. Every other failure is a 500. The response is
  computed by matching the except clauses first to last against the class
  hierarchy, so the property checks their order.
- **OtcSingleUse**: no code is accepted twice.
- **NoLateAcceptance**: every accepted code was requested for that factor
  and accepted strictly before `requested + TTL`.
- **TokenOncePerRow**: two tokens never come from the same PKCE row.
- **NoTokenForDeletedIdentity** (action property): a token issued in a step
  belongs to an identity that still exists after that step.
- **PkceRefinement**: AuthCore implements `PkceStore` (see above).
- **ResetRetiresTokens**: no successful reset uses a token minted against a
  password hash that an earlier reset already replaced. This covers the same
  token used twice, two concurrent resets, and a token minted before a
  password change, even when the password is later set back to its old
  value.
- **HandlePerEmail**: all WebAuthn factors of one email carry one
  user_handle (spec 8.3), even when two browsers that drew different fresh
  handles register the email at once.
- **ChallengeUsedOnce**: no authentication challenge signs anyone in twice,
  even when its assertion is presented by two browsers at once.
- **DeliverySettles**: every queued delivery is eventually acknowledged or
  dropped.

### Findings

1. **Failfast can hang the runner (`parallel_suite_failfast_hang`).**
   TLC's trace:
   1. worker w1 is inside `SimpleQueue.put`, holding the write lock;
   2. a failure reaches the monitor, which sets `stop_requested`;
   3. the main thread calls `pool.terminate()`, which kills w1 with the lock
      held;
   4. `result_queue.put((None, None, None))` at runner.py:236 waits for the
      lock forever.

   The join timeout at 242 is never reached. The multiprocessing
   documentation warns that terminating a process that uses a queue can
   corrupt it or leave its lock held.
2. **A crashed worker hangs the runner (`parallel_suite_crash_hang`).** A
   test that kills its worker process loses the worker's task: the pool
   starts a replacement but never re-dispatches the task. `ar.get` at
   runner.py:225 then times out forever, and without failfast nothing stops
   the loop. In TLC's trace the replacement worker also takes the last
   server connection in `init_worker`, so the other worker blocks in
   `param_queue.get()` at runner.py:59.
3. **The last class is never torn down (`sequential_teardown`).**
   `StreamingTestSuite` replaces `unittest.TestSuite.run`, which ends with
   `_tearDownPreviousClass(None, result)`. `_run` tears a class down only
   when a test of another class follows (runner.py:83), and nothing makes
   the final call. tearDownClass of the last class set up therefore never
   runs, and neither does the cleanup of its test database.
#### Observed, not kept as runs

These disagreements were found while modelling. They are listed as hazards
in `PROJECT.json`, and the models still reach them. No run checks them,
because each is a one-line defect or an open question, not a guarantee the
code makes:
- `ConceptMapTable.insert` finds its ids by scalar subselects on
  `concept.name`, which has no UNIQUE constraint (common.py:44-49, 81).
  After two concepts share a name, every concept_map insert naming it
  raises.
- `ConceptTable.insert` and `ConceptMapTable.insert` call
  `super().insert(...)` without `return` (common.py:57, 88), so the
  `RETURNING id` never reaches the caller.
- No server connection, no run. When no test case needs set-up,
  `ParallelTextTestRunner.run` starts no server and passes `conns = []`
  (runner.py:487, 493). With one worker, `SequentialTestSuite.run` then
  calls `next(iter(self.server_conns))` (runner.py:254), which raises
  StopIteration before any test runs. With `NumConns = 0`, `Start`
  raises before the loop. The parallel suite's `init_worker`
  treats an empty connection queue as a normal case (runner.py:58).
- Spec 4.3 checks the rate limit only when no code matches, so a correct
  code right after MaxFailedAttempts failures is accepted. The docstring of
  `test_http_auth_ext_otc_13` says further attempts are blocked.
  `VerifyCode` follows the spec.
- Spec 4.10 promises at-least-once webhook delivery, while
  `test_http_auth_ext_token_01` (line 3449) asserts exactly one POST.
  `Webhooks` reaches a second POST of one delivery after a lost answer.
  That test holds only on a network that loses nothing.

### Mutants

Every property of a passing run has a mutant in `PROJECT.json`: a plausible
bug in a mapped definition, defined just before it. TLC finds each one
violated under the run's own cfg.

| Mutant | Bug | Violates |
|---|---|---|
| `SortTestsUngrouped` | serialized tests split into separate tasks | SerializedExclusive |
| `JoinMonitorNoWait` | join without waiting | OutcomesComplete, SuiteRefinement, SuiteSafetyRefinement |
| `TakeTaskUnguarded` | task index not bounded | TypeOK |
| `TakeTaskOffByOne` | last task never handed out | RunnerReturns |
| `NextTestPastEnd` | the sequential loop runs past the last item | TypeOK |
| `NextTestSkipLast` | the sequential loop ends one item early | SuiteRefinement |
| `ErrorResponseSwapped` | the `EdgeDBError` clause placed before that of its subclass `BackendUnavailableError` | ServiceUnavailableExactlyWhenUnavailable |
| `ErrorResponseRawType` | a non-EdgeDB exception reported with its own type | TypeOK |
| `InsertConceptMapNullable` | NULL accepted for a missing name | TypeOK |
| `IssueOtcPlaintext` | plaintext code stored | TypeOK |
| `VerifyCodeKeepMatch` | matched code not deleted | OtcSingleUse |
| `ExpiredOffByOne` | `<` for `<=` | NoLateAcceptance |
| `TokenCommitNoConflictCheck` | commit without conflict check | TokenOncePerRow |
| `DeleteIdentityKeepPkce` | cascade forgets PKCE rows | NoTokenForDeletedIdentity |
| `DeleteIdentityKeepPkce` | (as above) | PkceRefinement |
| `ResetRejectForbidden` | an invalid token answered 403 | TypeOK (local_password) |
| `NewHashUnsalted` | password hashed without a salt | ResetRetiresTokens |
| `ResetCommitNoConflictCheck` | reset commits over a changed row | ResetRetiresTokens |
| `RegisterRejectForbidden` | a failed attestation answered 403 instead of 400 | TypeOK (webauthn) |
| `RegisterCommitSnapshot` | register commits without the conflict check | HandlePerEmail |
| `AuthCommitNoConflictCheck` | authenticate commits over a deleted challenge | ChallengeUsedOnce |
| `BackoffOffByOne` | the retry cap compared with `<=` | TypeOK (webhooks) |
| `BackoffNoDrop` | a delivery at the cap is neither retried nor dropped | DeliverySettles |

### Bounds and why they are enough

**Parallel runner.**
- Two workers are enough to run two tests at once, to hold and contend for
  the lock, and to be killed in every local state.
- A SERIALIZED class with two tests gives one task that spans two tests and
  two fixture changes. The plain class gives singleton tasks.
- The outcomes are success and failure, and setUpClass can fail in each
  worker.
- The failfast run also allows one worker crash, so a crash, a terminate
  and a replacement worker meet in one state space.
- A run with four tests (two per class) also passes but takes about 6
  minutes. The three-test suite keeps every interleaving of the shapes
  above.

**Sequential runner.**
- Four classes: two SERIALIZED ones (suite items of two tests), a plain
  class of two tests and a class of one.
- This covers:
  - a class change inside the task list;
  - a failed class followed by a later test of the same class;
  - a stop inside a suite.
- All four outcomes (success, failure, error, skip) are enumerated.

**System API.**
- Two requests can overlap, so one awaits its ping while the other is
  answered.
- The server is multi-tenant: a request either brings its tenant or has
  none, so both branches of the fallback are reached.
- Three state changes let the tenant become ready, the backend fail, and
  the tenant stop being ready while a ping is awaited.

**caos tables.**
- Two names let a name be reused while another stays unique.
- Three ids per sequence allow two concepts with one name and a link.

**Auth.**
- One factor (identity): every property concerns one factor's rows.
- Two codes make a code_hash collision possible on the second issue.
- One verifier: a `/token` request for a row not yet bound is rejected on
  the same path as one with a wrong verifier.
- Two concurrent `/token` requests.
- TTL 1 and a clock up to 1 let codes be issued, used at the boundary and
  expire.
- One failed attempt reaches the limit, and two ledger entries allow a
  step after it, or a second success on one code.
- Two OTCs and two PKCE generations allow a re-issue and a re-record after
  a claim.
- There is no symmetry: `NoTokenForDeletedIdentity` and `PkceRefinement`
  are checked over steps.

**Local password.**
- One email and two passwords: a password can change and later be set back
  to an old value.
- Two identities in a behaviour, so an identity can be deleted and the email
  registered again.
- Two `/reset-password` requests, which can race each other or reuse one
  token.

**WebAuthn.**
- One email, because every property is about the rows of one email.
- Two browsers and two handles: both browsers can draw different fresh
  handles for the new email and race to register.
- Two credentials: two factors for the email, and an assertion that either
  browser can present.
- Four challenges: two registrations and two authentications, or three
  and one, in any order. Five take about a minute and a half.
- Symmetry over browsers, handles and credentials, which are all
  interchangeable: every property of the run is an invariant.

**Webhooks.**
- Three deliveries: one event with two subscribers and one with one.
- Three attempts each, so there is a retry after a lost answer, a
  duplicate, and a drop at the cap.

### Fairness

- **Runner.** Every worker process, the monitor thread and the main thread
  is weakly fair. They are separate OS processes and threads, and none waits
  on anything but the queue, its lock and the task list, which are all in
  the model. The sequential suite is one thread that never waits, so its
  `Next` is weakly fair.
- **System API and auth.** No fairness: every property of these runs is
  an invariant or a property of steps. `SystemApi` once checked that every
  awaited ping is answered, and the auth modules that every begun request
  is answered. Each followed from weak fairness on an action that every
  waiting state enables, so they said nothing about the code and were
  dropped.
- **Webhooks.** Each delivery's dispatch steps are weakly fair: spec 5 says
  the delivery task belongs to the worker and is cancelled only at
  shutdown. The network's answer is a nondeterministic choice, not a fair
  one. Settling therefore rests on the retry cap, not on a POST eventually
  succeeding.

## Not modelled, and the plan

Done so far:
- the parallel suite with worker crash and replacement, and a raising
  tearDownClass in both suites;
- the sequential suite;
- the abstract suite and both refinements;
- SystemApi;
- CaosTables;
- the magic-link and `/token` core of the auth extension, and its
  refinement of the abstract PKCE store;
- the local password provider with the reset token bound to the password
  hash (spec 8.5);
- webhook delivery;
- the WebAuthn provider with the user_handle-per-email invariant under
  concurrent registrations.

The sequential suite with failfast passed (169 states) when it had its own
configuration. It is no longer a kept run: `sequential_suite` and the
parallel failfast run cover its actions, and the stop checks it adds are
one-line guards.

Next, most important first:
1. Module-level fixtures (`_handleModuleFixture`, runner.py:83). No test
   module of this repository defines setUpModule, so the models leave them
   out.
2. The join timeout firing while the monitor is merely slow
   (runner.py:242). This needs a notion of time in `ParallelTestSuite`.
   Without one, a timeout that may fire at any moment is the
   `JoinMonitorNoWait` mutant: it breaks `OutcomesComplete` at once and
   says nothing about the 3 s bound the comment at 238-241 relies on.
3. The cascades of the caos foreign keys, once a delete exists in the code
   (common.py has none today).

Left out, and why:
- the licence headers and imports of system_api.py and common.py, the only
  lines of the two files the map leaves out;
- four components of spec.md whose code is not in this repository:
  - C1, the signed token codec: a pure function of key, claims and time
    whose HMAC is out of a model checker's reach;
  - C4, the OIDC/OAuth client: its discovery cache has a single-flight
    guard, but no test here drives it, so a model would follow only the
    spec's one sentence about it;
  - C11, the allowed-URL policy: a prefix match with no state;
  - C12, the config registry: read-only, and present in the models as the
    constants TTL, MaxFailedAttempts and AttemptWindow;
- the result renderers: output and time formatting (runner.py 268-395,
  562-644);
- HMAC, SHA-256 and Argon2 internals (modelled as injective functions);
- OAuth provider HTTP exchanges;
- HTML UI pages.
