------------------------- MODULE ParallelTestSuite -------------------------
(***************************************************************************)
(* The parallel test runner of edb/tools/test/runner.py.                   *)
(*                                                                         *)
(* ParallelTestSuite.run starts a "test-monitor" thread and a              *)
(* multiprocessing.Pool.  Every pool worker runs init_worker and then      *)
(* takes tasks (chunksize=1) produced by _sort_tests: one task per         *)
(* SERIALIZED test class (the whole suite) and one task per test of the    *)
(* other classes.  A worker runs each test through StreamingTestSuite      *)
(* (class fixtures, then test.run) and reports every result call as a     *)
(* message on a shared multiprocessing.SimpleQueue (ChannelingTestResult). *)
(* SimpleQueue.put holds the queue's write lock while the bytes are sent.  *)
(* The monitor thread replays the messages on the ParallelTextTestResult   *)
(* of the main process; with failfast an addFailure/addError sets          *)
(* stop_requested.  The main thread polls the map_async result, terminates *)
(* the pool when a stop is requested, posts the (None, None, None)         *)
(* sentinel and joins the monitor.                                         *)
(***************************************************************************)
EXTENDS TestResult

CONSTANTS
    Workers,      \* the pool's worker processes (num_workers of them)
    NumConns,     \* number of server connections put on worker_param_queue
    MaxCrashes,   \* bound on worker processes that die while running
    NoHolder      \* the write lock is free

ASSUME /\ NumConns \in Nat
       /\ MaxCrashes \in Nat

Sentinel == [meth |-> "None", test |-> "None"]

VARIABLES
    paramQ,         \* worker_param_queue: connections not yet taken
    nextTask,       \* index of the next task map_async hands out
    tasksDone,      \* tasks whose completion the pool has collected
    wpc,            \* wpc[w]: where worker w is
    task,           \* task[w]: the task worker w runs
    pos,            \* pos[w]: the test of that task worker w is at
    pending,        \* pending[w]: result calls of the current test not yet put
    fixture,        \* fixture[w]: the class whose setUpClass ran last in w
    setupFailed,    \* setupFailed[w]: classes with _classSetupFailed in w
    lock,           \* holder of the result queue's write lock
    queue,          \* the result SimpleQueue
    mon,            \* the test-monitor thread
    mpc,            \* the main thread in ParallelTestSuite.run
    terminated,     \* pool.terminate() was called
    executed,       \* tests whose test.run started in some worker
    crashes         \* worker processes that died so far

workerVars == <<paramQ, wpc, task, pos, pending, fixture, setupFailed>>
vars == <<paramQ, nextTask, tasksDone, wpc, task, pos, pending, fixture,
          setupFailed, lock, queue, mon, mpc, stopRequested, terminated,
          testsRun, recorded, executed, crashes>>

WPcs == {"init", "getparam", "idle", "test", "put", "release", "dead"}

TypeOK ==
    /\ paramQ \in 0..NumConns
    /\ nextTask \in 1..(Len(Tasks) + 1)
    /\ tasksDone \in 0..Len(Tasks)
    /\ wpc \in [Workers -> WPcs]
    /\ task \in [Workers -> 0..Len(Tasks)]
    /\ pos \in [Workers -> Nat]
    /\ pending \in [Workers -> Seq(Msg)]
    /\ fixture \in [Workers -> Classes \cup {NoClass}]
    /\ setupFailed \in [Workers -> SUBSET Classes]
    /\ lock \in Workers \cup {NoHolder}
    /\ queue \in Seq(Msg \cup {Sentinel})
    /\ mon \in {"running", "done"}
    /\ mpc \in {"wait", "post", "join", "returned"}
    /\ stopRequested \in BOOLEAN
    /\ terminated \in BOOLEAN
    /\ testsRun \in Nat
    /\ recorded \in [Tests \cup Classes -> Nat]
    /\ executed \in SUBSET Tests
    /\ crashes \in 0..MaxCrashes

Init ==
    /\ paramQ = NumConns
    /\ nextTask = 1
    /\ tasksDone = 0
    /\ wpc = [w \in Workers |-> "init"]
    /\ task = [w \in Workers |-> 0]
    /\ pos = [w \in Workers |-> 0]
    /\ pending = [w \in Workers |-> <<>>]
    /\ fixture = [w \in Workers |-> NoClass]
    /\ setupFailed = [w \in Workers |-> {}]
    /\ lock = NoHolder
    /\ queue = <<>>
    /\ mon = "running"
    /\ mpc = "wait"
    /\ stopRequested = FALSE
    /\ terminated = FALSE
    /\ testsRun = 0
    /\ recorded = [x \in Tests \cup Classes |-> 0]
    /\ executed = {}
    /\ crashes = 0
-----------------------------------------------------------------------------
(* Worker side.                                                            *)

CurrentTest(w) == Tasks[task[w]][pos[w]]

(* init_worker: `if not param_queue.empty(): param_queue.get()`.  The      *)
(* emptiness check and the get are two separate calls on the queue.        *)
InitWorker(w) ==
    /\ wpc[w] = "init"
    /\ wpc' = [wpc EXCEPT ![w] = IF paramQ # 0 THEN "getparam" ELSE "idle"]
    /\ UNCHANGED <<paramQ, nextTask, tasksDone, task, pos, pending, fixture,
                   setupFailed, lock, queue, executed>>

(* param_queue.get() blocks until a connection is available.               *)
GetParam(w) ==
    /\ wpc[w] = "getparam"
    /\ paramQ > 0
    /\ paramQ' = paramQ - 1
    /\ wpc' = [wpc EXCEPT ![w] = "idle"]
    /\ UNCHANGED <<nextTask, tasksDone, task, pos, pending, fixture,
                   setupFailed, lock, queue, executed>>

(* Mutant of TakeTask: the task index is not checked against the list.   *)
TakeTaskUnguarded(w) ==
    /\ wpc[w] = "idle"
    /\ task' = [task EXCEPT ![w] = nextTask]
    /\ pos' = [pos EXCEPT ![w] = 1]
    /\ nextTask' = nextTask + 1
    /\ wpc' = [wpc EXCEPT ![w] = "test"]
    /\ UNCHANGED <<paramQ, tasksDone, pending, fixture, setupFailed, lock,
                   queue, executed>>

(* Mutant of TakeTask: the last task is never handed out.                *)
TakeTaskOffByOne(w) ==
    /\ wpc[w] = "idle"
    /\ nextTask < Len(Tasks)
    /\ task' = [task EXCEPT ![w] = nextTask]
    /\ pos' = [pos EXCEPT ![w] = 1]
    /\ nextTask' = nextTask + 1
    /\ wpc' = [wpc EXCEPT ![w] = "test"]
    /\ UNCHANGED <<paramQ, tasksDone, pending, fixture, setupFailed, lock,
                   queue, executed>>

(* The pool hands the next task (chunksize=1) to an idle worker.           *)
TakeTask(w) ==
    /\ wpc[w] = "idle"
    /\ nextTask <= Len(Tasks)
    /\ task' = [task EXCEPT ![w] = nextTask]
    /\ pos' = [pos EXCEPT ![w] = 1]
    /\ nextTask' = nextTask + 1
    /\ wpc' = [wpc EXCEPT ![w] = "test"]
    /\ UNCHANGED <<paramQ, tasksDone, pending, fixture, setupFailed, lock,
                   queue, executed>>

(* test.run(result) reports startTest, one outcome and, back in           *)
(* StreamingTestSuite._run, record_test_stats, after the calls td of the  *)
(* class change.                                                           *)
RunCase(w, t, td) ==
    /\ \E o \in Outcomes :
         pending' = [pending EXCEPT ![w] = td \o <<[meth |-> "startTest", test |-> t],
                                                   [meth |-> o, test |-> t],
                                                   [meth |-> "record_test_stats",
                                                    test |-> t]>>]
    /\ executed' = executed \cup {t}

(* _tearDownPreviousClass in worker w: tearDownClass of the worker's       *)
(* previous class runs when the class changes and that class was set up;   *)
(* when it raises, unittest reports an addError for that class.           *)
TearDownCalls(w, c) ==
    IF fixture[w] \notin {c, NoClass} /\ fixture[w] \notin setupFailed[w]
    THEN {<<>>, <<[meth |-> "addError", test |-> fixture[w]]>>}
    ELSE {<<>>}

(* StreamingTestSuite._run on the current test: when the class differs    *)
(* from the previous one in this worker the previous class is torn down    *)
(* (which may raise) and setUpClass runs; a failing setUpClass is reported *)
(* as an addError for the class and marks it _classSetupFailed, and every  *)
(* test of a class marked so returns without running.                      *)
RunTest(w) ==
    LET t == CurrentTest(w)
        c == ClassOf[t]
    IN
    /\ wpc[w] = "test"
    /\ \/ /\ fixture[w] = c
          /\ c \notin setupFailed[w]
          /\ RunCase(w, t, <<>>)
          /\ UNCHANGED <<fixture, setupFailed>>
       \/ /\ fixture[w] = c
          /\ c \in setupFailed[w]
          /\ UNCHANGED <<pending, executed, fixture, setupFailed>>
       \/ /\ fixture[w] # c
          /\ fixture' = [fixture EXCEPT ![w] = c]
          /\ \E td \in TearDownCalls(w, c) :
             \/ /\ setupFailed' = [setupFailed EXCEPT ![w] = @ \ {c}]
                /\ RunCase(w, t, td)
             \/ /\ setupFailed' = [setupFailed EXCEPT ![w] = @ \cup {c}]
                /\ pending' = [pending EXCEPT ![w] =
                                 td \o <<[meth |-> "addError", test |-> c]>>]
                /\ UNCHANGED executed
    /\ wpc' = [wpc EXCEPT ![w] = "put"]
    /\ UNCHANGED <<paramQ, nextTask, tasksDone, task, pos, lock, queue>>

(* ChannelingTestResult forwards one call: SimpleQueue.put takes the       *)
(* write lock and sends the pickled message ...                            *)
PutResult(w) ==
    /\ wpc[w] = "put"
    /\ pending[w] # <<>>
    /\ lock = NoHolder
    /\ lock' = w
    /\ queue' = Append(queue, Head(pending[w]))
    /\ pending' = [pending EXCEPT ![w] = Tail(@)]
    /\ wpc' = [wpc EXCEPT ![w] = "release"]
    /\ UNCHANGED <<paramQ, nextTask, tasksDone, task, pos, fixture,
                   setupFailed, executed>>

(* ... and releases the lock when the bytes are written.                   *)
ReleaseLock(w) ==
    /\ wpc[w] = "release"
    /\ lock' = NoHolder
    /\ wpc' = [wpc EXCEPT ![w] = "put"]
    /\ UNCHANGED <<paramQ, nextTask, tasksDone, task, pos, pending, fixture,
                   setupFailed, queue, executed>>

(* The test's calls are all sent: go on with the next test of the suite,  *)
(* or return from _run_test so that the pool collects the task.            *)
FinishTest(w) ==
    /\ wpc[w] = "put"
    /\ pending[w] = <<>>
    /\ IF pos[w] < Len(Tasks[task[w]])
       THEN /\ pos' = [pos EXCEPT ![w] = @ + 1]
            /\ wpc' = [wpc EXCEPT ![w] = "test"]
            /\ UNCHANGED tasksDone
       ELSE /\ tasksDone' = tasksDone + 1
            /\ wpc' = [wpc EXCEPT ![w] = "idle"]
            /\ UNCHANGED pos
    /\ UNCHANGED <<paramQ, nextTask, task, pending, fixture, setupFailed,
                   lock, queue, executed>>

-----------------------------------------------------------------------------
(* The test-monitor thread (monitor_thread).                               *)

(* monitor_thread: take the next message and call the named method.       *)
MonitorDispatch ==
    /\ mon = "running"
    /\ queue # <<>>
    /\ Head(queue) # Sentinel
    /\ queue' = Tail(queue)
    /\ ApplyResult(Head(queue))
    /\ UNCHANGED <<mon, mpc, terminated, lock, executed, nextTask, tasksDone>>
    /\ UNCHANGED workerVars

(* The (None, None, None) message ends the thread.                         *)
MonitorStop ==
    /\ mon = "running"
    /\ queue # <<>>
    /\ Head(queue) = Sentinel
    /\ queue' = Tail(queue)
    /\ mon' = "done"
    /\ UNCHANGED resultVars
    /\ UNCHANGED <<mpc, terminated, lock, executed, nextTask, tasksDone>>
    /\ UNCHANGED workerVars

-----------------------------------------------------------------------------
(* The main thread in ParallelTestSuite.run.                               *)

(* ar.get(timeout=0.1) returns: every task is collected.                   *)
CollectAll ==
    /\ mpc = "wait"
    /\ tasksDone = Len(Tasks)
    /\ mpc' = "post"
    /\ UNCHANGED <<terminated, wpc, lock, queue>>
    /\ UNCHANGED <<paramQ, task, pos, pending, fixture, setupFailed, nextTask,
                   tasksDone, mon, executed, resultVars>>

(* ar.get timed out and stop_requested is set: pool.terminate() kills     *)
(* every worker wherever it is.                                            *)
StopPool ==
    /\ mpc = "wait"
    /\ tasksDone < Len(Tasks)
    /\ stopRequested
    /\ terminated' = TRUE
    /\ wpc' = [w \in Workers |-> "dead"]
    /\ mpc' = "post"
    /\ UNCHANGED <<lock, queue>>
    /\ UNCHANGED <<paramQ, task, pos, pending, fixture, setupFailed, nextTask,
                   tasksDone, mon, executed, resultVars>>

(* result_queue.put((None, None, None)) takes the same write lock.         *)
PostSentinel ==
    /\ mpc = "post"
    /\ lock = NoHolder
    /\ queue' = Append(queue, Sentinel)
    /\ mpc' = "join"
    /\ UNCHANGED <<terminated, wpc, lock>>
    /\ UNCHANGED <<paramQ, task, pos, pending, fixture, setupFailed, nextTask,
                   tasksDone, mon, executed, resultVars>>

(* Mutant of JoinMonitor: the join gives up before the monitor is done.  *)
JoinMonitorNoWait ==
    /\ mpc = "join"
    /\ mpc' = "returned"
    /\ UNCHANGED <<terminated, wpc, lock, queue>>
    /\ UNCHANGED <<paramQ, task, pos, pending, fixture, setupFailed, nextTask,
                   tasksDone, mon, executed, resultVars>>

(* result_thread.join(timeout=3); the monitor only stops on the sentinel. *)
JoinMonitor ==
    /\ mpc = "join"
    /\ mon = "done"
    /\ mpc' = "returned"
    /\ UNCHANGED <<terminated, wpc, lock, queue>>
    /\ UNCHANGED <<paramQ, task, pos, pending, fixture, setupFailed, nextTask,
                   tasksDone, mon, executed, resultVars>>

(* A worker process dies (a test segfaults or calls os._exit).  The pool  *)
(* starts a new process in its place, which runs init_worker again; the   *)
(* task the dead process had taken is never completed, and a write lock   *)
(* it held is never released.                                              *)
Crash(w) ==
    /\ crashes < MaxCrashes
    /\ ~terminated
    /\ crashes' = crashes + 1
    /\ wpc' = [wpc EXCEPT ![w] = "init"]
    /\ task' = [task EXCEPT ![w] = 0]
    /\ pos' = [pos EXCEPT ![w] = 0]
    /\ pending' = [pending EXCEPT ![w] = <<>>]
    /\ fixture' = [fixture EXCEPT ![w] = NoClass]
    /\ setupFailed' = [setupFailed EXCEPT ![w] = {}]
    /\ UNCHANGED <<paramQ, nextTask, tasksDone, lock, queue, mon, mpc,
                   terminated, executed, resultVars>>

-----------------------------------------------------------------------------

WorkerStep(w) ==
    /\ \/ InitWorker(w) \/ GetParam(w) \/ TakeTask(w) \/ RunTest(w)
       \/ PutResult(w) \/ ReleaseLock(w) \/ FinishTest(w)
    /\ UNCHANGED <<mon, mpc, terminated, resultVars, crashes>>

MonitorStep == (MonitorDispatch \/ MonitorStop) /\ UNCHANGED crashes

MainStep ==
    /\ CollectAll \/ StopPool \/ PostSentinel \/ JoinMonitor
    /\ UNCHANGED crashes

Next == \/ \E w \in Workers : WorkerStep(w) \/ Crash(w)
        \/ MonitorStep
        \/ MainStep

(* Every worker process, the monitor thread and the main thread keep      *)
(* running while they can: none of them is ever descheduled for good.      *)
Spec ==
    /\ Init /\ [][Next]_vars
    /\ \A w \in Workers : WF_vars(WorkerStep(w))
    /\ WF_vars(MonitorStep)
    /\ WF_vars(MainStep)
-----------------------------------------------------------------------------
(* Properties.                                                             *)

(* Tests of a SERIALIZED class never run in two workers at the same time: *)
(* _sort_tests hands the whole class to one worker as a single suite.      *)
Running(w) == wpc[w] \in {"test", "put", "release"}

SerializedExclusive ==
    \A w1, w2 \in Workers :
        (w1 # w2 /\ Running(w1) /\ Running(w2)) =>
            ~(/\ ClassOf[CurrentTest(w1)] \in Serialized
              /\ ClassOf[CurrentTest(w1)] = ClassOf[CurrentTest(w2)])

(* When ParallelTestSuite.run returns without having terminated the pool, *)
(* the main process's result holds, for every test a worker ran, its      *)
(* startTest and exactly one outcome, and for every test no worker ran,   *)
(* the addError of its class's failed setUpClass: no call a worker put on *)
(* the queue is lost between the workers, the queue, the sentinel and the *)
(* monitor thread.                                                         *)
OutcomesComplete ==
    (mpc = "returned" /\ ~terminated) =>
        /\ testsRun = Cardinality(executed)
        /\ \A t \in executed : recorded[t] = 1
        /\ \A t \in Tests \ executed :
               recorded[t] = 0 /\ recorded[ClassOf[t]] > 0

(* The suite keeps the promise of AbstractSuite: the monitor thread      *)
(* replays the calls on the main result in an order one run of the tests  *)
(* could make (each test's startTest before its single outcome, whichever *)
(* workers and queue interleavings delivered them), and run() returns only *)
(* after a stop request or with every test accounted for.                  *)
Suite == INSTANCE AbstractSuite WITH returned <- (mpc = "returned")

SuiteRefinement == Suite!ASpec

(* The same without its liveness part, for the runs where run() may hang. *)
SuiteSafetyRefinement == Suite!SafetySpec

(* ParallelTestSuite.run eventually returns.                               *)
RunnerReturns == <>(mpc = "returned")
=============================================================================
