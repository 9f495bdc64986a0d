----------------------------- MODULE Submission -----------------------------
(***************************************************************************)
(* How an order reaches the exchange: submit_order of src/src/execution.rs *)
(* with its retries, and the background queue of src/src/clob_executor.rs. *)
(* The exchange may take a request whose sender has given up on it, and    *)
(* every answer may be lost.  Signing and payloads are left out; so is how *)
(* long a retry waits.                                                     *)
(***************************************************************************)
EXTENDS Integers, Sequences, SequencesExt

CONSTANTS OrderId,   \* orders
          MaxRetries \* retries on a 429

ASSUME SubmissionAssumption == MaxRetries \in Nat

VARIABLES
    call,     \* order -> where its submission is, or what it returned
    attempt,  \* order -> attempts that were answered 429
    request,  \* external: order -> its latest request, or the answer to it
    accepted, \* external: order -> how often the exchange took it
    queue     \* ClobExecutor.order_tx: orders for the background task

submissionVars == <<call, attempt, request, accepted, queue>>

Answers == {"ok", "limited", "refused"}

SubmissionInit ==
    /\ call = [o \in OrderId |-> "new"]
    /\ attempt = [o \in OrderId |-> 0]
    /\ request = [o \in OrderId |-> "none"]
    /\ accepted = [o \in OrderId |-> 0]
    /\ queue = <<>>
-----------------------------------------------------------------------------
(* The exchange takes a request at most once; what it limits or refuses it *)
(* has not taken.                                                          *)
ServeOrder(o) ==
    /\ request[o] = "sent"
    /\ \E a \in Answers :
          /\ request' = [request EXCEPT ![o] = a]
          /\ accepted' = IF a = "ok" THEN [accepted EXCEPT ![o] = @ + 1] ELSE accepted
    /\ UNCHANGED <<call, attempt, queue>>

(* submit_order.  A dry run answers by itself.                             *)
DryRun(o) ==
    /\ call[o] = "new"
    /\ call' = [call EXCEPT ![o] = "dry"]
    /\ UNCHANGED <<attempt, request, accepted, queue>>

Send(o) ==
    /\ call[o] \in {"new", "sleeping"}
    /\ call' = [call EXCEPT ![o] = "waiting"]
    /\ request' = [request EXCEPT ![o] = "sent"]
    /\ UNCHANGED <<attempt, accepted, queue>>

(* Mutant: a request that fails is sent again like one that is limited.    *)
RequestError_Retries(o) ==
    /\ call[o] = "waiting"
    /\ call' = [call EXCEPT ![o] = IF attempt[o] = MaxRetries THEN "error" ELSE "sleeping"]
    /\ attempt' = [attempt EXCEPT ![o] = IF @ = MaxRetries THEN @ ELSE @ + 1]
    /\ UNCHANGED <<request, accepted, queue>>

(* The request fails before an answer has come.                            *)
RequestError(o) ==
    /\ call[o] = "waiting"
    /\ call' = [call EXCEPT ![o] = "error"]
    /\ UNCHANGED <<attempt, request, accepted, queue>>

(* An answer: only a 429 is tried again, and a 200 whose body cannot be    *)
(* read is an error like any other.                                        *)
ReadAnswer(o) ==
    /\ call[o] = "waiting" /\ request[o] \in Answers
    /\ \E result \in CASE request[o] = "ok"      -> {"ok", "error"}
                       [] request[o] = "refused" -> {"rejected"}
                       [] OTHER -> {IF attempt[o] = MaxRetries THEN "limited" ELSE "sleeping"} :
          /\ call' = [call EXCEPT ![o] = result]
          /\ attempt' = [attempt EXCEPT ![o] = IF result = "sleeping" THEN @ + 1 ELSE @]
    /\ UNCHANGED <<request, accepted, queue>>
-----------------------------------------------------------------------------
(* The executor: submitting only queues.                                   *)
Enqueue(o) ==
    /\ call[o] = "new"
    /\ call' = [call EXCEPT ![o] = "queued"]
    /\ queue' = Append(queue, o)
    /\ UNCHANGED <<attempt, request, accepted>>

(* The background task sends one order at a time, without retries.         *)
Process ==
    /\ queue # <<>>
    /\ \A o \in OrderId : call[o] # "processing"
    /\ call' = [call EXCEPT ![Head(queue)] = "processing"]
    /\ request' = [request EXCEPT ![Head(queue)] = "sent"]
    /\ queue' = Tail(queue)
    /\ UNCHANGED <<attempt, accepted>>

(* It goes on after an answer, an error or ten seconds; which it was is    *)
(* only logged.                                                            *)
Processed(o) ==
    /\ call[o] = "processing"
    /\ call' = [call EXCEPT ![o] = "logged"]
    /\ UNCHANGED <<attempt, request, accepted, queue>>

SubmissionNext ==
    \/ \E o \in OrderId :
          \/ ServeOrder(o) \/ DryRun(o) \/ Send(o) \/ RequestError(o) \/ ReadAnswer(o)
          \/ Enqueue(o) \/ Processed(o)
    \/ Process

SubmissionSpec == SubmissionInit /\ [][SubmissionNext]_submissionVars
-----------------------------------------------------------------------------
(* What submit_order returns can be relied on: Ok means the exchange has   *)
(* the order once, a rejection, an exhausted limit or a dry run that it    *)
(* has not and never will.  An error says neither, and still the order is  *)
(* taken once at most, as is one of the executor's                         *)
(* (execution.rs:157-197, clob_executor.rs:85-88).                         *)
AnswersTrue ==
    \A o \in OrderId :
        /\ accepted[o] <= 1
        /\ call[o] = "ok" => accepted[o] = 1
        /\ call[o] \in {"dry", "rejected", "limited"} =>
              accepted[o] = 0 /\ request[o] # "sent"
=============================================================================
