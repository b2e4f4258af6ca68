--------------------------- MODULE PublishEngine ---------------------------
(***************************************************************************)
(* The publish engine (src/effects/publish.rs) and the Kafka topic it      *)
(* writes: every request is attempted at once, a failed attempt is tried   *)
(* again up to MAX_DELIVERY_ATTEMPTS, and the outcomes of automated        *)
(* requests go back in batches.                                            *)
(*                                                                         *)
(* A failed attempt may or may not have reached the topic: the error can   *)
(* be a lost acknowledgement.  An attempt reaches it before it returns or  *)
(* never.                                                                  *)
(***************************************************************************)
EXTENDS Channels

CONSTANTS
  MAX_DELIVERY_ATTEMPTS,
  PublishMayFail           \* whether attempts can fail in this instance

ASSUME PublishAssumption ==
  MAX_DELIVERY_ATTEMPTS \in Nat \ {0} /\ PublishMayFail \in BOOLEAN

VARIABLES
  in_flight,         \* the attempts being made
  completed_batch,   \* results of automated requests not yet flushed
  kafka              \* [Keys -> the last status written for the key, or None]

publishVars == <<in_flight, completed_batch, kafka>>

PublishAttempt == [request : Publish, attempt_count : 1 .. MAX_DELIVERY_ATTEMPTS]

PublishTypeOK ==
  /\ in_flight \subseteq PublishAttempt
  /\ completed_batch \subseteq PublishResult
  /\ kafka \in [Keys -> Status \cup {None}]

PublishInit ==
  /\ in_flight = {} /\ completed_batch = {}
  /\ kafka = [k \in Keys |-> None]

-----------------------------------------------------------------------------

ReceivePublish(request) ==
  /\ request \in publish_queue
  /\ publish_queue' = publish_queue \ {request}
  /\ in_flight' = in_flight \cup {[request |-> request, attempt_count |-> 1]}
  /\ UNCHANGED <<completed_batch, kafka, publish_outcomes>>

\* Mutant: a user result goes back at once and with the next batch.
handle_completed_work_twice(attempt, ok) ==
  LET result == [key |-> attempt.request.key, ok |-> ok]
  IN  /\ completed_batch' = completed_batch \cup {result}
      /\ publish_outcomes' = IF attempt.request.user_initiated
                                THEN publish_outcomes \cup {result}
                                ELSE publish_outcomes

\* User results go back at once, automated ones wait for the flush tick.
handle_completed_work(attempt, ok) ==
  LET result == [key |-> attempt.request.key, ok |-> ok]
  IN  IF attempt.request.user_initiated
        THEN /\ publish_outcomes' = publish_outcomes \cup {result}
             /\ UNCHANGED completed_batch
        ELSE /\ completed_batch' = completed_batch \cup {result}
             /\ UNCHANGED publish_outcomes

Write(request) == kafka' = [kafka EXCEPT ![request.key] = request.status]

DeliverOk(attempt) ==
  /\ attempt \in in_flight
  /\ Write(attempt.request)
  /\ in_flight' = in_flight \ {attempt}
  /\ handle_completed_work(attempt, TRUE)
  /\ UNCHANGED publish_queue

DeliverFails(attempt) ==
  /\ PublishMayFail
  /\ attempt \in in_flight
  /\ Write(attempt.request) \/ UNCHANGED kafka
  /\ IF attempt.attempt_count < MAX_DELIVERY_ATTEMPTS
       THEN /\ in_flight' = (in_flight \ {attempt}) \cup
                 {[attempt EXCEPT !.attempt_count = @ + 1]}
            /\ UNCHANGED <<completed_batch, publish_outcomes>>
       ELSE /\ in_flight' = in_flight \ {attempt}
            /\ handle_completed_work(attempt, FALSE)
  /\ UNCHANGED publish_queue

flush_completed_batch ==
  /\ completed_batch # {}
  /\ publish_outcomes' = publish_outcomes \cup completed_batch
  /\ completed_batch' = {}
  /\ UNCHANGED <<in_flight, kafka, publish_queue>>
=============================================================================
