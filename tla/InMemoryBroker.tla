--------------------------- MODULE InMemoryBroker ---------------------------
(***************************************************************************)
(* The in-memory message broker: its verbs, each one critical section of   *)
(* the broker's mutex that steps the job queue, the instance topics and    *)
(* the process registry together, and its timer callbacks and sweeper.     *)
(* A verb that returns an error leaves everything alone and is no step.    *)
(***************************************************************************)
EXTENDS JobQueue, InstanceTopic, ProcessRegistry

CONSTANT Strangers   \* instance ids that no Submit of this broker returns

ASSUME InMemoryBrokerAssumption ==
  /\ Strangers \subseteq Instances
  /\ Traffic = RequestKind \X QueueKeys \X Instances

jobVars == <<queueVars, callback, resumeVars, nextJob, pc, fetchVars, workVars>>
recordVars == <<insts, subs>>
registryVars == <<workers, pumps, views, now>>
vars == <<closed, jobVars, recordVars, registryVars>>

Init == JQInit /\ TopicInit /\ RegInit

Known == submitted \cup Strangers

Holds(i) == insts[i] # Nil
Live(i) == Holds(i) /\ ~insts[i].finished
-----------------------------------------------------------------------------
(* Producer verbs. *)

\* The id is new, so nothing refers to it yet.
Submit(i, key) ==
  /\ i \notin Known
  /\ liveRegistrations(key) # {}
  /\ Start(key, i)
  /\ NewInstance(i, key)
  /\ UNCHANGED registryVars

\* Mutant: the queued start is removed and the instance is not finished.
CancelUnfinished(i, key) ==
  /\ \E reg \in liveRegistrations(key) :
       \/ CancelQueued(key, i) /\ UNCHANGED recordVars
       \/ /\ \A n \in DOMAIN queues[key] : ~IsQueuedStart(key, i, n)
          /\ "cancel" \in reg.allow
          /\ Enqueue("JobCancel", key, i)
          /\ UNCHANGED recordVars
  /\ UNCHANGED registryVars

Cancel(i, key) ==
  /\ \E reg \in liveRegistrations(key) :
       \/ CancelQueued(key, i) /\ FinishInstance(i, "Cancelled", Nil)
       \/ /\ \A n \in DOMAIN queues[key] : ~IsQueuedStart(key, i, n)
          /\ "cancel" \in reg.allow
          /\ Enqueue("JobCancel", key, i)
          /\ UNCHANGED recordVars
  /\ UNCHANGED registryVars

Terminate(i, key) ==
  /\ \E reg \in liveRegistrations(key) : "terminate" \in reg.allow
  /\ Enqueue("JobTerminate", key, i)
  /\ UNCHANGED <<recordVars, registryVars>>

RespondToInputRequest(i) ==
  /\ \/ Live(i) /\ Enqueue("JobRespondToInput", insts[i].key, i) /\ UNCHANGED recordVars
     \/ RejectResponse(i) /\ UNCHANGED jobVars
  /\ UNCHANGED registryVars
-----------------------------------------------------------------------------
(* Worker verbs: a worker reports about the jobs it was handed, also when they *)
(* have meanwhile been redelivered or settled.                                 *)

ReportRunning(w, j) ==
  /\ j \in held[w]
  /\ Publish(j.inst, Lifecycle("Running"))
  /\ UNCHANGED <<jobVars, registryVars>>

\* PostError, PostInputRequest, PostNodeCompleted.
Post(w, j, e) ==
  /\ j \in held[w]
  /\ Publish(j.inst, e)
  /\ UNCHANGED <<jobVars, registryVars>>

ReportSuspended(w, j, scheduled) ==
  /\ Suspend(w, j, scheduled)
  /\ Publish(j.inst, Lifecycle("Suspended"))
  /\ UNCHANGED registryVars

\* ReportCompleted, ReportFailed, ReportCancelled.
ReportFinished(w, j, phase) ==
  /\ Finish(w, j)
  /\ FinishInstance(j.inst, phase, ExtraOf(phase))
  /\ UNCHANGED registryVars
-----------------------------------------------------------------------------
(* The broker's own steps. *)

\* The resume callback reads the record when it gets the mutex.
ResumeCallback(g) ==
  /\ resumer[g] # Nil
  /\ Resume(g, IF Live(resumer[g]) THEN insts[resumer[g]].key ELSE Nil)
  /\ UNCHANGED <<recordVars, registryVars>>

\* One tick of the sweeper.
sweep(gone, old) ==
  /\ ExpireWorkers(gone)
  /\ PurgeRecords(old)
  /\ UNCHANGED jobVars

\* Mutant: the subscriber channels stay open.
CloseKeepsTopic == CloseJobs /\ CloseRegistry /\ UNCHANGED recordVars

Close ==
  /\ CloseJobs
  /\ CloseTopic
  /\ CloseRegistry
-----------------------------------------------------------------------------
JobStep ==
  /\ (\E w \in Workers : FetchStep(w)) \/ TimerStep
  /\ UNCHANGED <<recordVars, registryVars>>

TopicStep ==
  /\ \/ \E s \in Subs, i \in Known : SubscribeToInstance(s, i)
     \/ \E s \in Subs : CancelSubscription(s) \/ Receive(s)
     \/ \E i \in Instances : RetentionLapses(i)
  /\ UNCHANGED <<jobVars, registryVars>>

RegistryStep ==
  /\ \/ \E w \in Workers, regs \in CapabilitySets : RegisterProcesses(w, regs)
     \/ \E w \in Workers : Heartbeat(w) \/ Unregister(w) \/ DeadlinePasses(w)
     \/ \E p \in Watchers : SubscribeToProcessRegistry(p) \/ CancelWatch(p) \/ Deliver(p)
  /\ UNCHANGED <<jobVars, recordVars>>

ProducerStep ==
  \/ \E i \in Instances, key \in Keys : Submit(i, key)
  \/ \E i \in Known, key \in Keys : Cancel(i, key) \/ Terminate(i, key)
  \/ \E i \in Known : RespondToInputRequest(i)

WorkerStep ==
  \E w \in Workers : \E j \in held[w] :
    \/ ReportRunning(w, j)
    \/ \E e \in Posts : Post(w, j, e)
    \/ \E scheduled \in BOOLEAN : ReportSuspended(w, j, scheduled)
    \/ \E phase \in FinishedPhase : ReportFinished(w, j, phase)

Next ==
  \/ ProducerStep \/ WorkerStep
  \/ JobStep \/ TopicStep \/ RegistryStep
  \/ \E g \in Goroutines : ResumeCallback(g)
  \/ \E gone \in SUBSET Lapsed, old \in SUBSET Purgeable : sweep(gone, old)
  \/ Close

Spec == Init /\ [][Next]_vars

\* What runs by itself: fetch goroutines, timers and their callbacks, the clock
\* and the sweeper's ticker.  Strong fairness of a timer makes up for the bound
\* on Goroutines.
Fairness ==
  /\ \A w \in Workers :
       /\ WF_vars((ScanTakes(w) \/ ScanWaits(w)) /\ UNCHANGED <<recordVars, registryVars>>)
       /\ WF_vars(FetchExits(w) /\ UNCHANGED <<recordVars, registryVars>>)
  /\ \A g \in Goroutines : WF_vars(ResumeCallback(g))
  /\ \A i \in Instances :
       /\ SF_vars(\E g \in Goroutines : ResumeFires(i, g) /\ UNCHANGED <<recordVars, registryVars>>)
       /\ WF_vars(RetentionLapses(i) /\ UNCHANGED <<jobVars, registryVars>>)
       /\ WF_vars(\E gone \in SUBSET Lapsed, old \in SUBSET Purgeable : i \in old /\ sweep(gone, old))

FairSpec == Spec /\ Fairness
-----------------------------------------------------------------------------
(* Properties. *)

\* An instance shown as Pending really waits for a worker: its start job is
\* queued or in flight.  Submit, Cancel, redelivery and reports about other
\* jobs of the instance keep queue and topic in step.
PendingHasStart ==
  \A i \in Instances :
    ~closed /\ Holds(i) /\ insts[i].latest = "Pending" =>
      \E j \in AllQueued \cup inFlight : j.kind = "JobStart" /\ j.inst = i


\* Close lets go of everyone who waits on the broker, for good: every fetch
\* goroutine ends, every channel SubscribeToInstance returned is closed and
\* every registry watcher's pump is stopped.
Released ==
  /\ \A w \in Workers : pc[w] = "off"
  /\ \A s \in Subs : subs[s].inst # Nil => subs[s].closed
  /\ \A p \in Watchers : pumps[p] = Nil

ShutdownCompletes == closed ~> []Released

\* A scheduled resume comes: stale callbacks may delete the timer's map entry
\* and later suspensions replace or keep it, but unless suspensions go on for
\* ever, the live instance has its resume job queued.
ScheduledResumeComes ==
  <>[][\A w \in Workers : \A j \in held[w] : ~ReportSuspended(w, j, TRUE)]_vars =>
    \A i \in Instances :
      Live(i) /\ (timers[i] = "armed" \/ orphans[i] > 0)
        ~> \/ closed \/ ~Live(i) \/ nextJob > MaxJobs
           \/ \E j \in AllQueued : j.kind = "JobResume" /\ j.inst = i

\* A start that Cancel removed from its queue is not delivered afterwards.
CancelledStartNotDelivered ==
  [][\A j \in handed' \ handed : j.kind = "JobStart" =>
       ~(Holds(j.inst) /\ insts[j.inst].outcome = "Cancelled")]_vars
=============================================================================
