---------------------------- MODULE RegistryPump ----------------------------
(***************************************************************************)
(* registryPump, the delivery queue behind SubscribeToProcessRegistry, at  *)
(* the grain of its own mutex: push appends and signals in two steps, the  *)
(* run goroutine tests the queue and then waits in two steps.  Pushes are  *)
(* serialized by the broker's mutex.                                       *)
(***************************************************************************)
EXTENDS Naturals, Sequences

CONSTANTS Updates, Nil, MaxPushes

ASSUME PumpAssumption == Nil \notin Updates /\ MaxPushes \in Nat

VARIABLES
  queue,     \* the slice guarded by the pump's mutex
  signal,    \* whether the one-slot signal channel is full
  done,      \* whether stop was called
  pushing,   \* push has appended and not yet signalled
  pc,        \* the run goroutine: "check", "wait", "send", "gone"
  u,         \* the update being sent
  received,  \* what the watcher has received
  pushes     \* how many updates were pushed

pumpVars == <<queue, signal, done, pushing, pc, u, received, pushes>>

PumpInit ==
  /\ queue = <<>> /\ signal = FALSE /\ done = FALSE /\ pushing = FALSE
  /\ pc = "check" /\ u = Nil
  /\ received = <<>> /\ pushes = 0

\* The broker drops a pump from its watchers as it stops it: no later push.
PushAppend(x) ==
  /\ ~pushing /\ ~done
  /\ pushes < MaxPushes
  /\ queue' = Append(queue, x)
  /\ pushes' = pushes + 1
  /\ pushing' = TRUE
  /\ UNCHANGED <<signal, done, pc, u, received>>

\* Mutant: the signal is not sent.
PushSilent ==
  /\ pushing
  /\ pushing' = FALSE
  /\ UNCHANGED <<queue, signal, done, pc, u, received, pushes>>

PushSignal ==
  /\ pushing
  /\ signal' = TRUE
  /\ pushing' = FALSE
  /\ UNCHANGED <<queue, done, pc, u, received, pushes>>

stop ==
  /\ ~done
  /\ ~pushing
  /\ done' = TRUE
  /\ UNCHANGED <<queue, signal, pushing, pc, u, received, pushes>>

\* Mutant: the newest update is taken.
RunChecksNewest ==
  /\ pc = "check"
  /\ IF queue = <<>>
     THEN pc' = "wait" /\ UNCHANGED <<queue, u>>
     ELSE pc' = "send" /\ u' = queue[Len(queue)] /\ queue' = SubSeq(queue, 1, Len(queue) - 1)
  /\ UNCHANGED <<signal, done, pushing, received, pushes>>

RunChecks ==
  /\ pc = "check"
  /\ IF queue = <<>>
     THEN pc' = "wait" /\ UNCHANGED <<queue, u>>
     ELSE pc' = "send" /\ u' = Head(queue) /\ queue' = Tail(queue)
  /\ UNCHANGED <<signal, done, pushing, received, pushes>>

RunWakes ==
  /\ pc = "wait"
  /\ signal
  /\ signal' = FALSE
  /\ pc' = "check"
  /\ UNCHANGED <<queue, done, pushing, u, received, pushes>>

\* Mutant: the update sent stays in the goroutine's hand.
RunSendsKeeps ==
  /\ pc = "send"
  /\ received' = Append(received, u)
  /\ pc' = "check"
  /\ UNCHANGED <<queue, signal, done, pushing, u, pushes>>

\* The watcher receives from the unbuffered channel.
RunSends ==
  /\ pc = "send"
  /\ received' = Append(received, u)
  /\ u' = Nil
  /\ pc' = "check"
  /\ UNCHANGED <<queue, signal, done, pushing, pushes>>

\* Mutant: the send does not watch for stop.
RunExitsWaiting ==
  /\ pc = "wait"
  /\ done
  /\ pc' = "gone"
  /\ UNCHANGED <<queue, signal, done, pushing, u, received, pushes>>

\* Closes the channel.  Only the two selects notice done.
RunExits ==
  /\ pc \in {"wait", "send"}
  /\ done
  /\ pc' = "gone"
  /\ u' = Nil
  /\ UNCHANGED <<queue, signal, done, pushing, received, pushes>>

Run == RunChecks \/ RunWakes \/ RunSends \/ RunExits

PumpNext == (\E x \in Updates : PushAppend(x)) \/ PushSignal \/ stop \/ Run

PumpSpec == PumpInit /\ [][PumpNext]_pumpVars

\* push runs to its end and the goroutine is scheduled.  Nothing is assumed of
\* the watcher.
PumpFairSpec ==
  /\ PumpSpec
  /\ WF_pumpVars(PushSignal) /\ WF_pumpVars(RunChecks \/ RunWakes) /\ WF_pumpVars(RunExits)
-----------------------------------------------------------------------------
(* Properties. *)

\* Type correctness.
PumpTypeOK ==
  /\ queue \in Seq(Updates) /\ received \in Seq(Updates) /\ pushes \in Nat
  /\ signal \in BOOLEAN /\ done \in BOOLEAN /\ pushing \in BOOLEAN
  /\ pc \in {"check", "wait", "send", "gone"}
  /\ u \in Updates \cup {Nil}
  /\ pc = "send" <=> u # Nil

\* What the watcher still has to receive: the update in the goroutine's hand
\* and the queue behind it; nothing once the channel is closed.
Pending == CASE pc = "gone" -> <<>>
             [] pc = "send" -> <<u>> \o queue
             [] OTHER -> queue

Abstract == INSTANCE LosslessQueue WITH pending <- Pending, open <- pc # "gone"

\* The pump is the lossless queue the registry relies on: pushes are received
\* once each and in order, until the channel closes.
ImplementsLosslessQueue == Abstract!QueueSpec

\* The goroutine never sleeps on a queued update: a full signal slot, or a
\* push that is about to fill it, will wake it.
NoSleepOnUpdates == pc = "wait" /\ queue # <<>> => signal \/ pushing

\* Every update is delivered to a watcher that keeps receiving, unless the pump
\* is stopped.
AllDelivered ==
  WF_pumpVars(RunSends) => \A n \in 1..MaxPushes : pushes >= n ~> (Len(received) >= n \/ done)

\* A stopped pump closes its channel, also when the watcher has gone away.
StopEndsPump == done ~> pc = "gone"
=============================================================================
