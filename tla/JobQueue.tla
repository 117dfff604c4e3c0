------------------------------ MODULE JobQueue ------------------------------
(***************************************************************************)
(* The job side of the in-memory message broker: one pending queue per     *)
(* process key, the in-flight set with its per-instance index and its      *)
(* redelivery timers, the resume timers, and the goroutine behind each     *)
(* FetchJobs call.                                                         *)
(*                                                                         *)
(* Every operation of the code runs under the broker's mutex, so one       *)
(* critical section is one action.  What is not under the mutex is a step  *)
(* of its own: a timer firing, its callback acquiring the mutex later, a   *)
(* fetch goroutine between two iterations, a context being cancelled.      *)
(***************************************************************************)
EXTENDS BrokerBase

CONSTANTS
  Traffic,       \* the (kind, key, instance) triples queued besides starts
  FetchKeys,     \* the keys argument of each worker's FetchJobs call
  Goroutines,    \* timer callbacks that may wait for the mutex at once
  MaxJobs,       \* bound: jobs ever enqueued
  MaxOrphans,    \* bound: running resume timers missing from the timers map
  CipherFails    \* whether a job's envelope round trip may fail

RequestKind == {"JobRespondToInput", "JobCancel", "JobTerminate"}

ASSUME JobQueueAssumption ==
  /\ Traffic \subseteq RequestKind \X QueueKeys \X Instances
  /\ FetchKeys \in [Workers -> Seq(Keys)]
  /\ MaxJobs \in Nat
  /\ MaxOrphans \in Nat
  /\ CipherFails \in BOOLEAN
  /\ Nil \notin Job

VARIABLES
  queues,    \* pending jobs per key
  inFlight,  \* jobs delivered and not settled
  byInst,    \* the in-flight index per instance
  settled,   \* jobs whose settled flag is set
  armed,     \* jobs whose redelivery timer is running
  callback,  \* redelivery callbacks waiting for the mutex, per goroutine
  timers,    \* the timers map: no entry, a running timer, one that fired
  orphans,   \* running resume timers without a map entry, per instance
  resumer,   \* resume callbacks waiting for the mutex, per goroutine
  nextJob,   \* next job pointer
  pc,        \* where each worker's fetch goroutine is
  hand,      \* the job a fetch goroutine is handing over
  ctxDone,   \* workers whose FetchJobs context is cancelled
  submitted, \* instances whose start was queued; Submit's ids are fresh
  held,      \* jobs each worker is executing
  handed     \* history: jobs some worker has received

queueVars == <<queues, inFlight, byInst, settled, armed>>
resumeVars == <<timers, orphans, resumer>>
fetchVars == <<hand, ctxDone>>
workVars == <<submitted, held, handed>>
jqVars == <<closed, queueVars, callback, resumeVars, nextJob, pc, fetchVars, workVars>>

Queued(k) == {queues[k][n] : n \in DOMAIN queues[k]}
AllQueued == UNION {Queued(k) : k \in QueueKeys}

JQInit ==
  /\ closed = FALSE
  /\ queues = [k \in QueueKeys |-> <<>>]
  /\ inFlight = {} /\ settled = {} /\ armed = {}
  /\ byInst = [i \in Instances |-> {}]
  /\ callback = [g \in Goroutines |-> Nil]
  /\ resumer = [g \in Goroutines |-> Nil]
  /\ timers = [i \in Instances |-> "none"]
  /\ orphans = [i \in Instances |-> 0]
  /\ nextJob = 1
  /\ pc = [w \in Workers |-> "off"]
  /\ hand = [w \in Workers |-> Nil]
  /\ ctxDone = {}
  /\ submitted = {}
  /\ held = [w \in Workers |-> {}]
  /\ handed = {}
-----------------------------------------------------------------------------
(* The helpers that run with the mutex held. *)

\* signalLocked: every fetcher parked on the notify channel can go on.
signalled == [w \in Workers |-> IF pc[w] = "wait" THEN "woken" ELSE pc[w]]

enqueueLocked(kind, key, i) ==
  /\ nextJob <= MaxJobs
  /\ LET j == [id |-> nextJob, kind |-> kind, key |-> key, inst |-> i]
     IN  queues' = [queues EXCEPT ![key] = Append(@, j)]
  /\ nextJob' = nextJob + 1
  /\ pc' = signalled

\* Mutant: the job stays in the per-instance index.
releaseKeepsIndex(j) ==
  /\ armed' = armed \ {j}
  /\ inFlight' = inFlight \ {j}
  /\ UNCHANGED byInst

releaseLocked(j) ==
  /\ armed' = armed \ {j}
  /\ inFlight' = inFlight \ {j}
  /\ byInst' = [byInst EXCEPT ![j.inst] = @ \ {j}]

settleInstanceLocked(i) ==
  /\ settled' = settled \cup byInst[i]
  /\ armed' = armed \ byInst[i]
  /\ inFlight' = inFlight \ byInst[i]
  /\ byInst' = [byInst EXCEPT ![i] = {}]


\* Mutant: the in-flight check is dropped.
RequeueableUnchecked(j) == ~closed /\ j \notin settled

\* requeue after its early returns; the caller moves pc to signalled.
Requeueable(j) == ~closed /\ j \notin settled /\ j \in inFlight

\* Mutant: the job is released and not put back.
requeueDrops(j) ==
  IF Requeueable(j)
  THEN releaseLocked(j) /\ UNCHANGED <<queues, settled>>
  ELSE UNCHANGED queueVars

requeue(j) ==
  IF Requeueable(j)
  THEN /\ releaseLocked(j)
       /\ queues' = [queues EXCEPT ![j.key] = Cons(j, @)]
       /\ UNCHANGED settled
  ELSE UNCHANGED queueVars

\* Mutant: requeue does not signal.
afterRequeueSilent(j) == pc

afterRequeue(j) == IF Requeueable(j) THEN signalled ELSE pc

\* takePendingLocked: the head of the first non-empty queue among keys.
FirstPending(keys, n) ==
  /\ n \in DOMAIN keys
  /\ queues[keys[n]] # <<>>
  /\ \A m \in 1..(n - 1) : queues[keys[m]] = <<>>

\* Mutant: no redelivery timer is armed.
takeUnarmed(w, k) ==
  LET j == Head(queues[k])
  IN  /\ queues' = [queues EXCEPT ![k] = Tail(@)]
      /\ inFlight' = inFlight \cup {j}
      /\ byInst' = [byInst EXCEPT ![j.inst] = @ \cup {j}]
      /\ hand' = [hand EXCEPT ![w] = j]
      /\ UNCHANGED <<settled, armed>>

takePendingLocked(w, k) ==
  LET j == Head(queues[k])
  IN  /\ queues' = [queues EXCEPT ![k] = Tail(@)]
      /\ settled' = settled \ {j}
      /\ inFlight' = inFlight \cup {j}
      /\ byInst' = [byInst EXCEPT ![j.inst] = @ \cup {j}]
      /\ armed' = armed \cup {j}
      /\ hand' = [hand EXCEPT ![w] = j]

\* removeQueuedStartLocked: position n holds the first JobStart of i.
IsQueuedStart(k, i, n) ==
  /\ n \in DOMAIN queues[k]
  /\ queues[k][n].kind = "JobStart" /\ queues[k][n].inst = i
  /\ \A m \in 1..(n - 1) : ~(queues[k][m].kind = "JobStart" /\ queues[k][m].inst = i)

\* The map entry's timer is stopped and the entry dropped, as finishLocked does.
stopTimer(i) == timers' = [timers EXCEPT ![i] = "none"]
-----------------------------------------------------------------------------
(* The job half of the producer's and the worker's verbs. *)

\* Submit's job, the only start its instance ever has.
Start(key, i) ==
  /\ ~closed
  /\ i \notin submitted
  /\ submitted' = submitted \cup {i}
  /\ enqueueLocked("JobStart", key, i)
  /\ UNCHANGED <<closed, inFlight, byInst, settled, armed, callback, resumeVars, fetchVars, held, handed>>

Enqueue(kind, key, i) ==
  /\ ~closed
  /\ enqueueLocked(kind, key, i)
  /\ UNCHANGED <<closed, inFlight, byInst, settled, armed, callback, resumeVars, fetchVars, workVars>>

\* Cancel of a still-queued start: the job is removed, then finishLocked.
CancelQueued(key, i) ==
  /\ ~closed
  /\ \E n \in DOMAIN queues[key] :
       /\ IsQueuedStart(key, i, n)
       /\ queues' = [queues EXCEPT ![key] = RemoveAt(@, n)]
  /\ settleInstanceLocked(i)
  /\ stopTimer(i)
  /\ UNCHANGED <<closed, callback, orphans, resumer, nextJob, pc, fetchVars, workVars>>

\* Mutant: a suspension without resumeAt stops the timer of an earlier one.
SuspendStops(w, j, scheduled) ==
  /\ ~closed
  /\ j \in held[w]
  /\ held' = [held EXCEPT ![w] = @ \ {j}]
  /\ settleInstanceLocked(j.inst)
  /\ scheduled => orphans[j.inst] < MaxOrphans
  /\ timers' = [timers EXCEPT ![j.inst] = IF scheduled THEN "armed" ELSE "none"]
  /\ UNCHANGED <<closed, queues, callback, orphans, resumer, nextJob, pc, fetchVars, submitted, handed>>

\* ReportSuspended by a worker executing j; scheduled says resumeAt is given.
\* MaxOrphans bounds the resume timers: with 0 no suspension is scheduled.
Suspend(w, j, scheduled) ==
  /\ ~closed
  /\ j \in held[w]
  /\ held' = [held EXCEPT ![w] = @ \ {j}]
  /\ settleInstanceLocked(j.inst)
  /\ IF scheduled
     THEN /\ orphans[j.inst] < MaxOrphans
          /\ timers' = [timers EXCEPT ![j.inst] = "armed"]
     ELSE UNCHANGED timers
  /\ UNCHANGED <<closed, queues, callback, orphans, resumer, nextJob, pc, fetchVars, submitted, handed>>

\* ReportCompleted, ReportFailed, ReportCancelled: finishLocked's job half.
Finish(w, j) ==
  /\ ~closed
  /\ j \in held[w]
  /\ held' = [held EXCEPT ![w] = @ \ {j}]
  /\ settleInstanceLocked(j.inst)
  /\ stopTimer(j.inst)
  /\ UNCHANGED <<closed, queues, callback, orphans, resumer, nextJob, pc, fetchVars, submitted, handed>>

\* A worker dies or gives up: it reports nothing for what it was executing.
WorkerDies(w) ==
  /\ held[w] # {}
  /\ held' = [held EXCEPT ![w] = {}]
  /\ UNCHANGED <<closed, queueVars, callback, resumeVars, nextJob, pc, fetchVars, submitted, handed>>

\* Close's job half: timers stop, every fetcher is woken.
CloseJobs ==
  /\ ~closed
  /\ closed' = TRUE
  /\ pc' = signalled
  /\ timers' = [i \in Instances |-> "none"]
  /\ armed' = armed \ inFlight
  /\ UNCHANGED <<queues, inFlight, byInst, settled, callback, orphans, resumer, nextJob, fetchVars, workVars>>
-----------------------------------------------------------------------------
(* FetchJobs and its goroutine. *)

FetchJobs(w) ==
  /\ ~closed
  /\ pc[w] = "off"
  /\ pc' = [pc EXCEPT ![w] = "scan"]
  /\ ctxDone' = ctxDone \ {w}
  /\ UNCHANGED <<closed, queueVars, callback, resumeVars, nextJob, hand, workVars>>

CancelFetch(w) ==
  /\ pc[w] # "off"
  /\ w \notin ctxDone
  /\ ctxDone' = ctxDone \cup {w}
  /\ UNCHANGED <<closed, queueVars, callback, resumeVars, nextJob, pc, hand, workVars>>

\* One critical section of the loop: take a job, or capture notify and wait.
ScanTakes(w) ==
  /\ pc[w] \in {"scan", "woken"}
  /\ ~closed
  /\ \E n \in DOMAIN FetchKeys[w] :
       /\ FirstPending(FetchKeys[w], n)
       /\ takePendingLocked(w, FetchKeys[w][n])
  /\ pc' = [pc EXCEPT ![w] = "hand"]
  /\ UNCHANGED <<closed, callback, resumeVars, nextJob, ctxDone, workVars>>

ScanWaits(w) ==
  /\ pc[w] \in {"scan", "woken"}
  /\ ~closed
  /\ \A n \in DOMAIN FetchKeys[w] : queues[FetchKeys[w][n]] = <<>>
  /\ pc' = [pc EXCEPT ![w] = "wait"]
  /\ UNCHANGED <<closed, queueVars, callback, resumeVars, nextJob, fetchVars, workVars>>

\* Mutant: the hand-over does not watch for Close.
FetchExitsIdle(w) ==
  /\ pc[w] \in {"scan", "wait", "woken"}
  /\ closed \/ (pc[w] # "scan" /\ w \in ctxDone)
  /\ pc' = [pc EXCEPT ![w] = "off"]
  /\ UNCHANGED <<closed, queueVars, callback, resumeVars, nextJob, fetchVars, workVars>>

\* The goroutine returns: broker closed, or context done while it waits.
FetchExits(w) ==
  /\ \/ pc[w] \in {"scan", "wait", "woken", "hand"} /\ closed
     \/ pc[w] \in {"wait", "woken"} /\ w \in ctxDone
  /\ pc' = [pc EXCEPT ![w] = "off"]
  /\ hand' = [hand EXCEPT ![w] = Nil]
  /\ UNCHANGED <<closed, queueVars, callback, resumeVars, nextJob, ctxDone, workVars>>

\* Mutant: the goroutine goes on with the job still in its hand.
HandOverKeeps(w) ==
  /\ pc[w] = "hand"
  /\ held' = [held EXCEPT ![w] = @ \cup {hand[w]}]
  /\ handed' = handed \cup {hand[w]}
  /\ pc' = [pc EXCEPT ![w] = "scan"]
  /\ UNCHANGED <<closed, queueVars, callback, resumeVars, nextJob, fetchVars, submitted>>

\* The worker receives the job from the unbuffered channel.
HandOver(w) ==
  /\ pc[w] = "hand"
  /\ held' = [held EXCEPT ![w] = @ \cup {hand[w]}]
  /\ handed' = handed \cup {hand[w]}
  /\ hand' = [hand EXCEPT ![w] = Nil]
  /\ pc' = [pc EXCEPT ![w] = "scan"]
  /\ UNCHANGED <<closed, queueVars, callback, resumeVars, nextJob, ctxDone, submitted>>

\* The context is done while the goroutine offers a job: requeue it, return.
AbandonHand(w) ==
  /\ pc[w] = "hand"
  /\ w \in ctxDone
  /\ requeue(hand[w])
  /\ pc' = [afterRequeue(hand[w]) EXCEPT ![w] = "off"]
  /\ hand' = [hand EXCEPT ![w] = Nil]
  /\ UNCHANGED <<closed, callback, resumeVars, nextJob, ctxDone, workVars>>
-----------------------------------------------------------------------------
(* Timers.  Stop does not recall a callback that has already started. *)

RedeliveryFires(j, g) ==
  /\ j \in armed
  /\ callback[g] = Nil
  /\ armed' = armed \ {j}
  /\ callback' = [callback EXCEPT ![g] = j]
  /\ UNCHANGED <<closed, queues, inFlight, byInst, settled, resumeVars, nextJob, pc, fetchVars, workVars>>

Redeliver(g) ==
  /\ callback[g] # Nil
  /\ requeue(callback[g])
  /\ pc' = afterRequeue(callback[g])
  /\ callback' = [callback EXCEPT ![g] = Nil]
  /\ UNCHANGED <<closed, resumeVars, nextJob, fetchVars, workVars>>

\* The timer in the map fires, or one that lost its map entry does.
ResumeFires(i, g) ==
  /\ resumer[g] = Nil
  /\ resumer' = [resumer EXCEPT ![g] = i]
  /\ \/ /\ timers[i] = "armed"
        /\ timers' = [timers EXCEPT ![i] = "fired"]
        /\ UNCHANGED orphans
     \/ /\ orphans[i] > 0
        /\ orphans' = [orphans EXCEPT ![i] = @ - 1]
        /\ UNCHANGED timers
  /\ UNCHANGED <<closed, queueVars, callback, nextJob, pc, fetchVars, workVars>>

\* The callback deletes the map entry, whichever timer it belongs to, and
\* enqueues the resume job unless the broker is closed or key is Nil: no
\* record, or a finished one.
Resume(g, key) ==
  LET i == resumer[g]
  IN  /\ i # Nil
      /\ timers' = [timers EXCEPT ![i] = "none"]
      /\ orphans' = [orphans EXCEPT ![i] = IF timers[i] = "armed" THEN @ + 1 ELSE @]
      /\ \/ ~closed /\ key # Nil /\ enqueueLocked("JobResume", key, i)
         \/ (closed \/ key = Nil \/ CipherFails) /\ UNCHANGED <<queues, nextJob, pc>>
      /\ resumer' = [resumer EXCEPT ![g] = Nil]
      /\ UNCHANGED <<closed, inFlight, byInst, settled, armed, callback, fetchVars, workVars>>
-----------------------------------------------------------------------------
FetchStep(w) ==
  FetchJobs(w) \/ CancelFetch(w) \/ ScanTakes(w) \/ ScanWaits(w) \/ FetchExits(w)
    \/ HandOver(w) \/ AbandonHand(w) \/ WorkerDies(w)

TimerStep ==
  \/ \E j \in armed, g \in Goroutines : RedeliveryFires(j, g)
  \/ \E g \in Goroutines : Redeliver(g)
  \/ \E i \in Instances, g \in Goroutines : ResumeFires(i, g)

JQNext ==
  \/ \E key \in Keys, i \in Instances : Start(key, i)
  \/ \E t \in Traffic : Enqueue(t[1], t[2], t[3])
  \/ \E key \in Keys, i \in Instances : CancelQueued(key, i)
  \/ \E w \in Workers : \E j \in held[w] :
       Finish(w, j) \/ \E scheduled \in BOOLEAN : Suspend(w, j, scheduled)
  \/ CloseJobs
  \/ \E w \in Workers : FetchStep(w)
  \/ TimerStep
  \/ \E g \in Goroutines, key \in QueueKeys \cup {Nil} : Resume(g, key)

JQSpec == JQInit /\ [][JQNext]_jqVars

\* A goroutine that can run does run, a started timer fires, a callback gets
\* the mutex.  Nothing is assumed of producers, workers and contexts.  Strong
\* fairness of a job's timer makes up for the bound on Goroutines: the runtime
\* has one for every callback.
JQFairness ==
  /\ \A w \in Workers : WF_jqVars(ScanTakes(w) \/ ScanWaits(w)) /\ WF_jqVars(FetchExits(w))
  /\ \A g \in Goroutines : WF_jqVars(Redeliver(g))
  /\ \A n \in 1..MaxJobs :
       SF_jqVars(\E j \in armed, g \in Goroutines : j.id = n /\ RedeliveryFires(j, g))

JQFairSpec == JQSpec /\ JQFairness
-----------------------------------------------------------------------------
(* Properties. *)

\* Type correctness; a fetch goroutine holds a job exactly while it hands one
\* over.
JQTypeOK ==
  /\ closed \in BOOLEAN
  /\ queues \in [QueueKeys -> Seq(Job)]
  /\ inFlight \subseteq Job /\ settled \subseteq Job /\ armed \subseteq Job /\ handed \subseteq Job
  /\ byInst \in [Instances -> SUBSET Job]
  /\ callback \in [Goroutines -> Job \cup {Nil}]
  /\ timers \in [Instances -> {"none", "armed", "fired"}]
  /\ orphans \in [Instances -> Nat]
  /\ resumer \in [Goroutines -> Instances \cup {Nil}]
  /\ nextJob \in Nat
  /\ pc \in [Workers -> {"off", "scan", "wait", "woken", "hand"}]
  /\ hand \in [Workers -> Job \cup {Nil}]
  /\ \A w \in Workers : pc[w] = "hand" <=> hand[w] # Nil
  /\ ctxDone \subseteq Workers
  /\ submitted \subseteq Instances
  /\ held \in [Workers -> SUBSET Job]

\* A job is in one place at a time: once in the queue of its own key, or in
\* flight, or settled.  Redelivery, an abandoned hand-over and a settling
\* report race for the same pointer; requeue's early returns keep it single.
OnePlace ==
  /\ \A k \in QueueKeys : \A m, n \in DOMAIN queues[k] :
       queues[k][m] = queues[k][n] => m = n
  /\ \A k \in QueueKeys : \A j \in Queued(k) : j.key = k /\ j \notin inFlight \cup settled
  /\ inFlight \cap settled = {}

\* The per-instance index lists exactly the in-flight jobs: a settling report
\* reaches every one of them and none that has gone back to its queue.
IndexesAgree ==
  \A i \in Instances : byInst[i] = {j \in inFlight : j.inst = i}

\* No job is stuck in flight: its redelivery timer runs, or the callback is
\* already waiting for the mutex, whatever stale callbacks do meanwhile.
RedeliveryPending ==
  closed \/ \A j \in inFlight : j \in armed \/ \E g \in Goroutines : callback[g] = j

\* No wake-up is lost: a fetcher parked on an unsignalled notify channel has
\* nothing pending under any of its keys.
NoLostWakeup ==
  closed \/ \A w \in Workers : pc[w] = "wait" =>
    \A n \in DOMAIN FetchKeys[w] : queues[FetchKeys[w][n]] = <<>>

\* At-least-once bookkeeping: a pending job leaves the broker only by being
\* settled, or, a queued start, by the Cancel of its instance; a settled job
\* never comes back.
NoJobVanishes ==
  [][/\ \A j \in (AllQueued \cup inFlight) \ (AllQueued' \cup inFlight' \cup settled') :
          j.kind = "JobStart" /\ j \in AllQueued /\ CancelQueued(j.key, j.inst)
     /\ settled \subseteq settled']_jqVars

\* A running fetcher never sleeps on pending work: it takes a job, or its
\* queues empty, or it stops.
PendingIsTaken ==
  \A w \in Workers :
    pc[w] \in {"scan", "wait", "woken"} /\ (\E n \in DOMAIN FetchKeys[w] : queues[FetchKeys[w][n]] # <<>>)
      ~> \/ pc[w] \in {"hand", "off"} \/ closed
         \/ \A n \in DOMAIN FetchKeys[w] : queues[FetchKeys[w][n]] = <<>>

\* The in-flight timeout works: what a dead worker held is eventually settled
\* by someone or pending again.
InFlightEnds ==
  \A n \in 1..MaxJobs :
    (\E j \in inFlight : j.id = n) ~> (closed \/ ~ \E j \in inFlight : j.id = n)

\* Close ends every fetch goroutine, also one blocked handing over a job
\* nobody receives.
CloseEndsFetchers == closed ~> \A w \in Workers : pc[w] = "off"

\* At-least-once delivery: a job is settled only once a worker has received
\* it, or a fetcher still offers it.
SettledWasHanded == \A j \in settled : j \in handed \/ \E w \in Workers : hand[w] = j
=============================================================================
