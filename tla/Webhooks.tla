------------------------------- MODULE Webhooks -------------------------------
(***************************************************************************)
(* The webhook dispatcher of the auth extension (spec 4.10, C10).  Its     *)
(* code is not in this repository; its tests are.  A handler that emits   *)
(* an event enqueues one delivery per subscription to the event's type    *)
(* and returns without waiting.  A background task of the worker POSTs    *)
(* each delivery; when no 2xx answer arrives it backs off and retries, up *)
(* to MaxAttempts POSTs, and then drops the delivery.  The network may    *)
(* lose the POST before the subscriber sees it, or the answer after the  *)
(* subscriber has seen it.  Backoff delays are abstracted away: a retry   *)
(* is a step that may come at any later time.                              *)
(***************************************************************************)
EXTENDS Naturals

CONSTANTS
    Events,         \* events the handlers emit, each with its event_id
    Subscribers,    \* webhook URLs
    Subscriptions,  \* Subscriptions[e]: subscribers of e's event type
    MaxAttempts     \* the retry cap: POSTs per delivery

ASSUME MaxAttempts \in Nat \ {0}

(* One delivery per event and subscription.                                *)
Deliveries == {<<e, s>> \in Events \X Subscribers : s \in Subscriptions[e]}

VARIABLES
    status,   \* status[d]: where delivery d is
    attempts, \* attempts[d]: POSTs sent for d
    received  \* received[d]: POSTs of d the subscriber has seen

vars == <<status, attempts, received>>

Status == {"none", "queued", "inflight", "failed", "acked", "dropped"}

TypeOK ==
    /\ status \in [Deliveries -> Status]
    /\ attempts \in [Deliveries -> 0..MaxAttempts]
    /\ received \in [Deliveries -> Nat]

Init ==
    /\ status = [d \in Deliveries |-> "none"]
    /\ attempts = [d \in Deliveries |-> 0]
    /\ received = [d \in Deliveries |-> 0]

(* A handler emits event e: a delivery is queued for every subscription;  *)
(* the HTTP response does not wait for it.                                 *)
Emit(e) ==
    /\ \A d \in Deliveries : d[1] = e => status[d] = "none"
    /\ \E d \in Deliveries : d[1] = e
    /\ status' = [d \in Deliveries |->
                    IF d[1] = e THEN "queued" ELSE status[d]]
    /\ UNCHANGED <<attempts, received>>

(* The dispatcher POSTs the signed body.                                   *)
Send(d) ==
    /\ status[d] = "queued"
    /\ status' = [status EXCEPT ![d] = "inflight"]
    /\ attempts' = [attempts EXCEPT ![d] = @ + 1]
    /\ UNCHANGED received

(* The POST ends: the subscriber saw it and its 2xx came back; or it saw  *)
(* it and the answer was lost, timed out or was not 2xx; or the request   *)
(* never reached it.                                                       *)
Respond(d) ==
    /\ status[d] = "inflight"
    /\ \/ /\ status' = [status EXCEPT ![d] = "acked"]
          /\ received' = [received EXCEPT ![d] = @ + 1]
       \/ /\ status' = [status EXCEPT ![d] = "failed"]
          /\ received' = [received EXCEPT ![d] = @ + 1]
       \/ /\ status' = [status EXCEPT ![d] = "failed"]
          /\ UNCHANGED received
    /\ UNCHANGED attempts

(* Mutant of Backoff: a delivery that used up its attempts is neither     *)
(* retried nor dropped.                                                    *)
BackoffNoDrop(d) ==
    /\ status[d] = "failed"
    /\ attempts[d] < MaxAttempts
    /\ status' = [status EXCEPT ![d] = "queued"]
    /\ UNCHANGED <<attempts, received>>

(* Mutant of Backoff: the cap is compared with <= instead of <.            *)
BackoffOffByOne(d) ==
    /\ status[d] = "failed"
    /\ status' = [status EXCEPT ![d] =
                    IF attempts[d] <= MaxAttempts THEN "queued" ELSE "dropped"]
    /\ UNCHANGED <<attempts, received>>

(* After the backoff delay a failed delivery is queued again, unless it   *)
(* has had MaxAttempts POSTs, in which case it is dropped.                 *)
Backoff(d) ==
    /\ status[d] = "failed"
    /\ status' = [status EXCEPT ![d] =
                    IF attempts[d] < MaxAttempts THEN "queued" ELSE "dropped"]
    /\ UNCHANGED <<attempts, received>>

Dispatch(d) == Send(d) \/ Respond(d) \/ Backoff(d)

Next ==
    \/ \E e \in Events : Emit(e)
    \/ \E d \in Deliveries : Dispatch(d)

(* The delivery task is owned by the worker and cancelled only at         *)
(* shutdown (spec 5), so it keeps making progress on every delivery; the  *)
(* network's answer is nondeterministic, not fair.                         *)
Spec == Init /\ [][Next]_vars /\ \A d \in Deliveries : WF_vars(Dispatch(d))

-----------------------------------------------------------------------------
(* Properties.                                                             *)

(* Every emitted event is eventually acknowledged by, or given up on for, *)
(* each subscriber: no delivery is left pending.                           *)
DeliverySettles ==
    \A d \in Deliveries :
        status[d] = "queued" ~> status[d] \in {"acked", "dropped"}
=============================================================================
