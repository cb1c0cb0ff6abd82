------------------------------ MODULE Webhooks ------------------------------
(***************************************************************************)
(* WebhookManager of tftpos/webhooks.py: events are handed to a pool of    *)
(* threads, each delivery is posted until the endpoint accepts it or its   *)
(* attempts are used up, and the last deliveries are kept for a report.    *)
(*                                                                         *)
(* A delivery is known by its place in jobs.  fire() submits one to the    *)
(* pool for each webhook, fire_sync() and send_test() deliver in their own *)
(* thread; the three loops run between the steps of everything else, so    *)
(* shutdown() may come in the middle of one.                               *)
(***************************************************************************)
EXTENDS Integers, Sequences, Functions

CONSTANTS
    Order,          \* the configured webhooks, in the order of the list
    Events,         \* the supported events
    Listed,         \* wh.events of each webhook; empty is all events
    RetryCount,     \* wh.retry_count
    Workers,        \* threads of the pool (max_workers)
    Callers,        \* threads that fire events
    MaxDeliveries,  \* _max_deliveries
    MaxJobs         \* bound: deliveries begun in a behaviour

Webhooks == Range(Order)
Threads == Workers \cup Callers

ASSUME WebhookAssumption ==
    /\ Order \in Seq(Webhooks)
    /\ Listed \in [Webhooks -> SUBSET Events]
    /\ RetryCount \in [Webhooks -> Int]
    /\ Workers \cap Callers = {} /\ Workers # {}
    /\ MaxDeliveries \in Nat \ {0} /\ MaxJobs \in Nat

VARIABLES
    jobs,       \* the WebhookDelivery of each delivery begun
    queue,      \* deliveries the pool has not started
    pc,         \* what each thread does next
    job,        \* the delivery a thread is at, or 0
    left,       \* webhooks the loop of a caller has still to visit
    deliveries, \* _deliveries
    pool,       \* "open", "closing" while shutdown(wait=True) waits, "down"
    recorded    \* history variable: all that was ever put in deliveries

vars == <<jobs, queue, pc, job, left, deliveries, pool, recorded>>

(* accepted and late belong to the endpoint: how often it accepted the     *)
(* delivery, and whether the answer to that was once lost on its way.      *)
Delivery ==
    [webhook: Webhooks, attempts: Nat, success: BOOLEAN, error: BOOLEAN,
     accepted: Nat, late: BOOLEAN]

TypeOK ==
    /\ jobs \in Seq(Delivery)
    /\ queue \in Seq(1 .. Len(jobs))
    /\ pc \in [Threads -> {"idle", "fire", "sync", "post", "sleep", "record", "notify"}]
    /\ \A w \in Workers : pc[w] \notin {"fire", "sync"}
    /\ job \in [Threads -> 0 .. Len(jobs)]
    /\ \A t \in Threads : pc[t] \in {"idle", "fire", "sync"} <=> job[t] = 0
    /\ left \in [Callers -> Seq(Webhooks)]
    /\ deliveries \in Seq(1 .. Len(jobs)) /\ Len(deliveries) <= MaxDeliveries
    /\ pool \in {"open", "closing", "down"}
    /\ recorded \in Seq(1 .. Len(jobs))
    /\ IsInjective(recorded)

Init ==
    /\ jobs = <<>>
    /\ queue = <<>>
    /\ pc = [t \in Threads |-> "idle"]
    /\ job = [t \in Threads |-> 0]
    /\ left = [c \in Callers |-> <<>>]
    /\ deliveries = <<>>
    /\ pool = "open"
    /\ recorded = <<>>

-----------------------------------------------------------------------------
(* How a delivery begins. *)
Begun(w) ==
    [webhook |-> w, attempts |-> 0, success |-> FALSE, error |-> FALSE,
     accepted |-> 0, late |-> FALSE]

(* wh.events and event not in wh.events *)
Wants(w, e) == Listed[w] = {} \/ e \in Listed[w]

(* The webhooks a loop over self._webhooks does not skip, in their order. *)
Targets(e) ==
    LET first[n \in 0 .. Len(Order)] ==
          IF n = 0 THEN <<>>
          ELSE IF Wants(Order[n], e) THEN Append(first[n - 1], Order[n]) ELSE first[n - 1]
    IN  first[Len(Order)]

(* max_attempts *)
Attempts(w) == IF RetryCount[w] < 1 THEN 1 ELSE RetryCount[w]

BeginLoop(c, kind, targets) ==
    /\ pc[c] = "idle"
    /\ Len(jobs) + Len(targets) <= MaxJobs
    /\ pc' = [pc EXCEPT ![c] = kind]
    /\ left' = [left EXCEPT ![c] = targets]
    /\ UNCHANGED <<jobs, queue, job, deliveries, pool, recorded>>

Fire(c, e)     == BeginLoop(c, "fire", Targets(e))
FireSync(c, e) == BeginLoop(c, "sync", Targets(e))

(* send_test(), to all the webhooks or to one of them *)
SendTest(c) ==
    \E targets \in {Order} \cup {<<w>> : w \in Webhooks} : BeginLoop(c, "sync", targets)

(* One turn of the loop of fire(). *)
Submit(c) ==
    /\ pc[c] = "fire" /\ left[c] # <<>>
    /\ pool = "open"
    /\ jobs' = Append(jobs, Begun(Head(left[c])))
    /\ queue' = Append(queue, Len(jobs) + 1)
    /\ left' = [left EXCEPT ![c] = Tail(@)]
    /\ UNCHANGED <<pc, job, deliveries, pool, recorded>>

(* The pool no longer takes work: submit() raises out of the loop. *)
SubmitRaises(c) ==
    /\ pc[c] = "fire" /\ left[c] # <<>>
    /\ pool # "open"
    /\ pc' = [pc EXCEPT ![c] = "idle"]
    /\ left' = [left EXCEPT ![c] = <<>>]
    /\ UNCHANGED <<jobs, queue, job, deliveries, pool, recorded>>

(* One turn of the loop of fire_sync() or send_test(). *)
DeliverHere(c) ==
    /\ pc[c] = "sync" /\ left[c] # <<>>
    /\ jobs' = Append(jobs, Begun(Head(left[c])))
    /\ left' = [left EXCEPT ![c] = Tail(@)]
    /\ pc' = [pc EXCEPT ![c] = "post"]
    /\ job' = [job EXCEPT ![c] = Len(jobs) + 1]
    /\ UNCHANGED <<queue, deliveries, pool, recorded>>

EndLoop(c) ==
    /\ pc[c] \in {"fire", "sync"} /\ left[c] = <<>>
    /\ pc' = [pc EXCEPT ![c] = "idle"]
    /\ UNCHANGED <<jobs, queue, job, left, deliveries, pool, recorded>>

(* A thread of the pool takes the next delivery. *)
Take(t) ==
    /\ t \in Workers /\ pc[t] = "idle" /\ queue # <<>>
    /\ job' = [job EXCEPT ![t] = Head(queue)]
    /\ queue' = Tail(queue)
    /\ pc' = [pc EXCEPT ![t] = "post"]
    /\ UNCHANGED <<jobs, left, deliveries, pool, recorded>>

-----------------------------------------------------------------------------
(* A slip: an exception of the post is not caught. *)
PostEscapes(t, answer) ==
    /\ pc[t] = "post"
    /\ IF answer = "accepted"
       THEN /\ jobs' = [jobs EXCEPT ![job[t]] =
                   [@ EXCEPT !.attempts = @ + 1, !.success = TRUE, !.accepted = @ + 1]]
            /\ pc' = [pc EXCEPT ![t] = "record"]
            /\ UNCHANGED job
       ELSE /\ pc' = [pc EXCEPT ![t] = IF t \in Callers THEN "sync" ELSE "idle"]
            /\ job' = [job EXCEPT ![t] = 0]
            /\ UNCHANGED jobs
    /\ UNCHANGED <<queue, left, deliveries, pool, recorded>>

(* A slip: the loop goes on after an answer of 2xx. *)
PostAgain(t, answer) ==
    LET d == jobs[job[t]]
        ok == answer = "accepted"
    IN  /\ pc[t] = "post"
        /\ jobs' = [jobs EXCEPT ![job[t]] =
               [d EXCEPT !.attempts = @ + 1, !.success = @ \/ ok, !.error = @ \/ ~ok,
                         !.accepted = IF answer = "failed" THEN @ ELSE @ + 1,
                         !.late = @ \/ answer = "late"]]
        /\ pc' = [pc EXCEPT ![t] =
               IF d.attempts + 1 = Attempts(d.webhook) THEN "record" ELSE "sleep"]
        /\ UNCHANGED <<queue, job, left, deliveries, pool, recorded>>

(* One turn of the loop of _deliver().  The endpoint accepts the delivery; *)
(* or the attempt fails, because it is refused or does not get there; or   *)
(* the endpoint accepts it and the answer comes too late, which the post   *)
(* cannot tell from a failure.  A failure keeps delivery.error set, also   *)
(* when a later attempt succeeds.                                          *)
Post(t, answer) ==
    LET d == jobs[job[t]]
        ok == answer = "accepted"
    IN  /\ pc[t] = "post"
        /\ jobs' = [jobs EXCEPT ![job[t]] =
               [d EXCEPT !.attempts = @ + 1, !.success = ok, !.error = @ \/ ~ok,
                         !.accepted = IF answer = "failed" THEN @ ELSE @ + 1,
                         !.late = @ \/ answer = "late"]]
        /\ pc' = [pc EXCEPT ![t] =
               IF ok \/ d.attempts + 1 = Attempts(d.webhook) THEN "record" ELSE "sleep"]
        /\ UNCHANGED <<queue, job, left, deliveries, pool, recorded>>

(* time.sleep() between two attempts *)
Wake(t) ==
    /\ pc[t] = "sleep"
    /\ pc' = [pc EXCEPT ![t] = "post"]
    /\ UNCHANGED <<jobs, queue, job, left, deliveries, pool, recorded>>

(* A slip: nothing is dropped from the report. *)
RecordAll(t) ==
    /\ pc[t] = "record"
    /\ deliveries' = Append(deliveries, job[t])
    /\ recorded' = Append(recorded, job[t])
    /\ pc' = [pc EXCEPT ![t] = "notify"]
    /\ UNCHANGED <<jobs, queue, job, left, pool>>

(* The last n elements of a sequence, s[-n:] *)
LastOf(s, n) == IF Len(s) > n THEN SubSeq(s, Len(s) - n + 1, Len(s)) ELSE s

(* Under the lock the delivery is appended and the oldest is dropped. *)
Record(t) ==
    /\ pc[t] = "record"
    /\ deliveries' = LastOf(Append(deliveries, job[t]), MaxDeliveries)
    /\ recorded' = Append(recorded, job[t])
    /\ pc' = [pc EXCEPT ![t] = "notify"]
    /\ UNCHANGED <<jobs, queue, job, left, pool>>

(* on_delivery(); what it raises is caught.  Then the thread goes back to  *)
(* the pool, or to its loop.                                               *)
Notify(t) ==
    /\ pc[t] = "notify"
    /\ job' = [job EXCEPT ![t] = 0]
    /\ pc' = [pc EXCEPT ![t] = IF t \in Callers THEN "sync" ELSE "idle"]
    /\ UNCHANGED <<jobs, queue, left, deliveries, pool, recorded>>

(* shutdown(): no work is taken any more, what is queued is still done. *)
Shutdown ==
    /\ pool = "open"
    /\ pool' = "closing"
    /\ UNCHANGED <<jobs, queue, pc, job, left, deliveries, recorded>>

(* A slip: the shutdown waits for the queue only. *)
ShutdownEarly ==
    /\ pool = "closing" /\ queue = <<>>
    /\ pool' = "down"
    /\ UNCHANGED <<jobs, queue, pc, job, left, deliveries, recorded>>

(* shutdown(wait=True) returns when the threads of the pool have ended. *)
ShutdownReturns ==
    /\ pool = "closing" /\ queue = <<>>
    /\ \A w \in Workers : pc[w] = "idle"
    /\ pool' = "down"
    /\ UNCHANGED <<jobs, queue, pc, job, left, deliveries, recorded>>

Deliver(t) ==
    \/ Take(t)
    \/ \E answer \in {"accepted", "failed", "late"} : Post(t, answer)
    \/ Wake(t)
    \/ Record(t)
    \/ Notify(t)

Loop(c) == Submit(c) \/ SubmitRaises(c) \/ DeliverHere(c) \/ EndLoop(c)

Call(c) ==
    \/ \E e \in Events : Fire(c, e) \/ FireSync(c, e)
    \/ SendTest(c)

Next ==
    \/ \E t \in Threads : Deliver(t)
    \/ \E c \in Callers : Loop(c) \/ Call(c)
    \/ Shutdown
    \/ ShutdownReturns

(* Fairness: the threads of the pool and those in a call go on; a post     *)
(* ends, at the latest with its timeout.  Nobody has to fire or shut down. *)
Fairness ==
    /\ \A t \in Threads : WF_vars(Deliver(t))
    /\ \A c \in Callers : WF_vars(Loop(c))
    /\ WF_vars(ShutdownReturns)

Spec == Init /\ [][Next]_vars /\ Fairness

-----------------------------------------------------------------------------
(***************************************************************************)
(* Properties                                                              *)
(***************************************************************************)

(* A delivery reported as a success was accepted; one reported as a        *)
(* failure says why and has used up its attempts, which are never more     *)
(* than configured; and only a late answer makes the endpoint accept the   *)
(* same delivery twice (webhooks.py:219-265).                              *)
VerdictIsRight ==
    \A n \in Range(recorded) :
      LET d == jobs[n] IN
      /\ d.attempts <= Attempts(d.webhook)
      /\ d.success => d.accepted > 0
      /\ ~d.success => d.error /\ d.attempts = Attempts(d.webhook)
      /\ d.accepted > 1 => d.late

(* Every delivery that is begun is recorded, whatever the endpoint does    *)
(* and even when the pool is shut down (webhooks.py:122, 222-279).         *)
BegunIsRecorded ==
    \A n \in 1 .. MaxJobs : (n <= Len(jobs)) ~> (n \in Range(recorded))

(* When shutdown(wait=True) returns, no delivery is left to the pool: each *)
(* is recorded, or in the hands of a caller (webhooks.py:184-186).         *)
ShutdownDrains ==
    pool = "down" =>
        \A n \in 1 .. Len(jobs) :
          n \in Range(recorded) \/ \E c \in Callers : job[c] = n

=============================================================================
