--------------------------- MODULE InstanceTopic ---------------------------
(***************************************************************************)
(* The instance-topic side of the in-memory message broker: the record     *)
(* kept per instance (latest lifecycle event, terminal event, finished     *)
(* flag, retention) and the subscriptions fed from it through bounded      *)
(* channels that drop events when full.                                    *)
(***************************************************************************)
EXTENDS BrokerBase

CONSTANTS
  Subs,             \* subscription ids (nextSub never repeats one)
  EventBufferSize,  \* the WithEventBufferSize option
  Posts             \* the events workers post besides lifecycle reports

\* PostError, PostInputRequest, PostNodeCompleted.
PostedEvent == {ErrorEvent("POSTED"), PostEvent("InputRequest"), PostEvent("NodeCompleted")}

ASSUME InstanceTopicAssumption ==
  /\ EventBufferSize \in Nat
  /\ Posts \subseteq PostedEvent

VARIABLES
  insts,   \* the instance records, Nil where the map has none
  subs     \* the subscriptions

topicVars == <<closed, insts, subs>>

\* Mutant: the option is used as it is.
CapacityUnpadded == EventBufferSize

\* max(eventBufferSize, 2): room for the two events Subscribe replays while it
\* holds the mutex.
Capacity == Max({EventBufferSize, 2})

\* outcome is history: the phase the record finished with.
Record == [key : QueueKeys, latest : Phase \cup {Nil}, terminal : Event \cup {Nil},
           finished : BOOLEAN, expired : BOOLEAN, outcome : FinishedPhase \cup {Nil},
           subs : SUBSET Subs]

NewRecord(key) == [key |-> key, latest |-> Nil, terminal |-> Nil, finished |-> FALSE,
                   expired |-> FALSE, outcome |-> Nil, subs |-> {}]

\* A subscription: its channel's buffer, the dropped flag of the code and, as
\* history, whether an event was lost since the last one that was sent (missed,
\* and per buffered entry gap).
Entry == [event : Event, gap : BOOLEAN]
Subscription == [inst : Instances \cup {Nil}, buffer : Seq(Entry), missed : BOOLEAN,
                 dropped : BOOLEAN, closed : BOOLEAN]
Unsubscribed == [inst |-> Nil, buffer |-> <<>>, missed |-> FALSE, dropped |-> FALSE,
                 closed |-> FALSE]

TopicInit ==
  /\ closed = FALSE
  /\ insts = [i \in Instances |-> Nil]
  /\ subs = [s \in Subs |-> Unsubscribed]
-----------------------------------------------------------------------------
(* The helpers that run with the mutex held. *)

recordLocked(i) == IF insts[i] = Nil THEN NewRecord(NoKey) ELSE insts[i]

\* Mutant: every error is retained as the terminal event.
retainAnyError(rec, e) ==
  CASE e.kind = "Lifecycle" -> [rec EXCEPT !.latest = e.what]
    [] e.kind \in {"Result", "Error"} -> [rec EXCEPT !.terminal = e]
    [] OTHER -> rec

\* What publishLocked retains of an event for late subscribers.
retain(rec, e) ==
  CASE e.kind = "Lifecycle" -> [rec EXCEPT !.latest = e.what]
    [] e.kind = "Result"    -> [rec EXCEPT !.terminal = e]
    [] e.kind = "Error" /\ rec.latest = "Failed" -> [rec EXCEPT !.terminal = e]
    [] OTHER -> rec

\* A channel send in a select with a default: the event is lost when the
\* buffer is full.
full(sub) == Len(sub.buffer) >= Capacity
push(sub, e) == [sub EXCEPT !.buffer = Append(@, [event |-> e, gap |-> sub.missed]),
                            !.missed = FALSE]
lose(sub) == [sub EXCEPT !.missed = TRUE, !.dropped = TRUE]

\* Mutant: no marker is sent after a drop.
sendUnmarked(sub, e) ==
  CASE sub.closed -> sub
    [] ~sub.closed /\ full(sub) -> lose(sub)
    [] OTHER -> [push(sub, e) EXCEPT !.dropped = FALSE]

\* After a drop the marker goes first; where it does not fit the event is lost
\* as well.
send(sub, e) ==
  LET marked == IF sub.dropped
                THEN [push(sub, ErrorEvent("BACKPRESSURE_DROP")) EXCEPT !.dropped = FALSE]
                ELSE sub
  IN  CASE sub.closed -> sub
        [] ~sub.closed /\ full(sub) -> lose(sub)
        [] ~sub.closed /\ ~full(sub) /\ full(marked) -> lose(marked)
        [] OTHER -> push(marked, e)

publishLocked(i, e) ==
  LET rec == recordLocked(i)
  IN  /\ insts' = [insts EXCEPT ![i] = retain(rec, e)]
      /\ subs' = [s \in Subs |-> IF s \in rec.subs THEN send(subs[s], e) ELSE subs[s]]

\* The terminal lifecycle event, then the extra one: what is retained, and
\* what a subscription is sent.
retainEnd(rec, phase, extra) ==
  LET life == retain(rec, Lifecycle(phase))
  IN  IF extra = Nil THEN life ELSE retain(life, extra)

sendEnd(sub, phase, extra) ==
  LET life == send(sub, Lifecycle(phase))
  IN  IF extra = Nil THEN life ELSE send(life, extra)

\* finishLocked past its early return: retention starts, every channel is
\* closed.
finish(i, phase, extra) ==
  LET rec == recordLocked(i)
  IN  /\ insts' = [insts EXCEPT ![i] = [retainEnd(rec, phase, extra) EXCEPT
                                         !.finished = TRUE, !.outcome = phase, !.subs = {}]]
      /\ subs' = [s \in Subs |-> IF s \in rec.subs
                                 THEN [sendEnd(subs[s], phase, extra) EXCEPT !.closed = TRUE]
                                 ELSE subs[s]]

\* Mutant: the channels stay open.
finishOpen(i, phase, extra) ==
  LET rec == recordLocked(i)
  IN  IF rec.finished
      THEN UNCHANGED <<insts, subs>>
      ELSE /\ insts' = [insts EXCEPT ![i] = [retainEnd(rec, phase, extra) EXCEPT
                                              !.finished = TRUE, !.outcome = phase]]
           /\ subs' = [s \in Subs |-> IF s \in rec.subs
                                      THEN sendEnd(subs[s], phase, extra) ELSE subs[s]]

finishLocked(i, phase, extra) ==
  IF recordLocked(i).finished
  THEN UNCHANGED <<insts, subs>>
  ELSE finish(i, phase, extra)
-----------------------------------------------------------------------------
(* The topic half of the broker's verbs. *)

\* Submit: a fresh record, then the Pending lifecycle event; no subscriber yet.
NewInstance(i, key) ==
  /\ ~closed
  /\ insts[i] = Nil
  /\ insts' = [insts EXCEPT ![i] = retain(NewRecord(key), Lifecycle("Pending"))]
  /\ UNCHANGED <<closed, subs>>

Publish(i, e) ==
  /\ ~closed
  /\ publishLocked(i, e)
  /\ UNCHANGED closed

\* RespondToInputRequest for an instance that is unknown or finished.
RejectResponse(i) ==
  /\ ~closed
  /\ insts[i] # Nil => insts[i].finished
  /\ publishLocked(i, ErrorEvent(IF insts[i] = Nil THEN "INSTANCE_NOT_FOUND"
                                 ELSE "ALREADY_FINISHED"))
  /\ UNCHANGED closed

FinishInstance(i, phase, extra) ==
  /\ ~closed
  /\ finishLocked(i, phase, extra)
  /\ UNCHANGED closed

\* The event ReportCompleted and ReportFailed add; the others add none.
ExtraOf(phase) == CASE phase = "Completed" -> ResultEvent
                    [] phase = "Failed" -> ErrorEvent("PROCESS_FAILED")
                    [] phase = "Cancelled" -> Nil

\* Mutant: the latest lifecycle event is replayed unseen.
retainedUnchecked(rec) ==
  <<Lifecycle(rec.latest)>> \o (IF rec.terminal = Nil THEN <<>> ELSE <<rec.terminal>>)

\* The events a late subscriber is sent first.
retained(rec) ==
  (IF rec.latest = Nil THEN <<>> ELSE <<Lifecycle(rec.latest)>>)
    \o (IF rec.terminal = Nil THEN <<>> ELSE <<rec.terminal>>)

\* Mutant: a finished instance's subscription is registered as well.
SubscribeRegisters(s, i) ==
  LET rec == insts[i]
      replay == IF rec = Nil THEN <<ErrorEvent("INSTANCE_NOT_FOUND")>> ELSE retained(rec)
  IN  /\ ~closed
      /\ subs[s].inst = Nil
      /\ subs' = [subs EXCEPT ![s] = [inst |-> i, buffer |-> [n \in DOMAIN replay |->
                                                    [event |-> replay[n], gap |-> FALSE]],
                                      missed |-> FALSE, dropped |-> FALSE,
                                      closed |-> recordLocked(i).finished]]
      /\ insts' = [insts EXCEPT ![i] = [recordLocked(i) EXCEPT !.subs = @ \cup {s}]]
      /\ UNCHANGED closed

\* SubscribeToInstance: replay, then register unless finished.  The sends are
\* blocking ones; Capacity leaves them room.
SubscribeToInstance(s, i) ==
  LET rec == insts[i]
      replay == IF rec = Nil THEN <<ErrorEvent("INSTANCE_NOT_FOUND")>> ELSE retained(rec)
      over == rec # Nil /\ rec.finished
  IN  /\ ~closed
      /\ subs[s].inst = Nil
      /\ subs' = [subs EXCEPT ![s] = [inst |-> i, buffer |-> [n \in DOMAIN replay |->
                                                    [event |-> replay[n], gap |-> FALSE]],
                                      missed |-> FALSE, dropped |-> FALSE, closed |-> over]]
      /\ insts' = IF over THEN insts
                  ELSE [insts EXCEPT ![i] = [recordLocked(i) EXCEPT !.subs = @ \cup {s}]]
      /\ UNCHANGED closed

\* Mutant: the channel is closed and stays registered.
CancelKeepsEntry(s) ==
  /\ subs[s].inst # Nil /\ insts[subs[s].inst] # Nil /\ s \in insts[subs[s].inst].subs
  /\ subs' = [subs EXCEPT ![s].closed = TRUE]
  /\ UNCHANGED <<closed, insts>>

\* The goroutine that waits for the subscription's context.
CancelSubscription(s) ==
  LET i == subs[s].inst
  IN  /\ i # Nil /\ insts[i] # Nil /\ s \in insts[i].subs
      /\ insts' = [insts EXCEPT ![i].subs = @ \ {s}]
      /\ subs' = [subs EXCEPT ![s].closed = TRUE]
      /\ UNCHANGED closed

\* The subscriber receives from its channel; a closed channel still drains.
Receive(s) ==
  /\ subs[s].buffer # <<>>
  /\ subs' = [subs EXCEPT ![s].buffer = Tail(@)]
  /\ UNCHANGED <<closed, insts>>

\* Time passes expiresAt.
RetentionLapses(i) ==
  /\ insts[i] # Nil /\ insts[i].finished /\ ~insts[i].expired
  /\ insts' = [insts EXCEPT ![i].expired = TRUE]
  /\ UNCHANGED <<closed, subs>>

\* The sweeper's second loop.  Its tick may be older than the mutex it waited
\* for, so it sees some of what has expired.
Purgeable == {i \in Instances : insts[i] # Nil /\ insts[i].finished /\ insts[i].expired
                                  /\ insts[i].subs = {}}

PurgeRecords(gone) ==
  /\ ~closed
  /\ gone \subseteq Purgeable
  /\ insts' = [i \in Instances |-> IF i \in gone THEN Nil ELSE insts[i]]
  /\ UNCHANGED <<closed, subs>>

\* Close's topic half: every registered channel is closed and dropped.
CloseTopic ==
  /\ ~closed
  /\ closed' = TRUE
  /\ insts' = [i \in Instances |-> IF insts[i] = Nil THEN Nil ELSE [insts[i] EXCEPT !.subs = {}]]
  /\ subs' = [s \in Subs |-> IF \E i \in Instances : insts[i] # Nil /\ s \in insts[i].subs
                             THEN [subs[s] EXCEPT !.closed = TRUE] ELSE subs[s]]
-----------------------------------------------------------------------------
\* What the non-terminal report verbs and the post verbs publish.
Published == {Lifecycle("Running"), Lifecycle("Suspended")} \cup Posts

TopicNext ==
  \/ \E i \in Instances, key \in Keys : NewInstance(i, key)
  \/ \E i \in Instances, e \in Published : Publish(i, e)
  \/ \E i \in Instances : RejectResponse(i)
  \/ \E i \in Instances, phase \in FinishedPhase : FinishInstance(i, phase, ExtraOf(phase))
  \/ \E s \in Subs, i \in Instances : SubscribeToInstance(s, i)
  \/ \E s \in Subs : CancelSubscription(s) \/ Receive(s)
  \/ \E i \in Instances : RetentionLapses(i)
  \/ \E gone \in SUBSET Purgeable : PurgeRecords(gone)
  \/ CloseTopic

TopicSpec == TopicInit /\ [][TopicNext]_topicVars
-----------------------------------------------------------------------------
(* Properties. *)

\* Type correctness.
TopicTypeOK ==
  /\ closed \in BOOLEAN
  /\ insts \in [Instances -> Record \cup {Nil}]
  /\ subs \in [Subs -> Subscription]

\* No event is ever sent to a subscription that nobody will close, and no
\* open subscription is cut off from its topic: a channel is open exactly
\* while it is registered with its instance's current record, and a finished
\* record has none, across finish, purge, re-creation and cancellation.
OpenIffRegistered ==
  \A s \in Subs : subs[s].inst # Nil =>
    (~subs[s].closed <=> /\ insts[subs[s].inst] # Nil
                         /\ s \in insts[subs[s].inst].subs
                         /\ ~insts[subs[s].inst].finished)

\* The broker never blocks on a subscriber while it holds the mutex: the
\* buffer always had room, also for the two replayed events.
BufferNeverOverflows == \A s \in Subs : Len(subs[s].buffer) <= Capacity

\* The first event a subscriber receives after a gap is BACKPRESSURE_DROP: one
\* that reads on can always tell that something is missing.
GapsAreMarked ==
  \A s \in Subs : \A n \in DOMAIN subs[s].buffer :
    subs[s].buffer[n].gap => subs[s].buffer[n].event = ErrorEvent("BACKPRESSURE_DROP")

\* A subscriber sees one ending: after a terminal lifecycle event its channel
\* carries no other lifecycle event, and it is closed.
NothingAfterTheEnd ==
  \A s \in Subs : \A n \in DOMAIN subs[s].buffer :
    LET sent == subs[s].buffer
    IN  sent[n].event.kind = "Lifecycle" /\ sent[n].event.what \in FinishedPhase =>
          /\ subs[s].closed
          /\ \A m \in (n + 1)..Len(sent) : sent[m].event.kind # "Lifecycle"

\* The retained terminal event fits the outcome that closed the topic, however
\* many workers report afterwards: a result for Completed, an error for Failed,
\* none for Cancelled, and none before the end.
TerminalFitsOutcome ==
  \A i \in Instances : insts[i] # Nil =>
    CASE insts[i].outcome = "Completed" -> insts[i].terminal = ResultEvent
      [] insts[i].outcome = "Failed" -> insts[i].terminal # Nil /\ insts[i].terminal.kind = "Error"
      [] OTHER -> insts[i].terminal = Nil

\* A subscriber to a finished instance is told that it finished: the retained
\* latest lifecycle event is the one that ended it.
FinishedStaysFinished ==
  \A i \in Instances : insts[i] # Nil /\ insts[i].finished => insts[i].latest = insts[i].outcome

\* The terminal event replayed for a failed instance is the error ReportFailed
\* carried.
TerminalErrorIsKept ==
  \A i \in Instances : insts[i] # Nil /\ insts[i].outcome = "Failed" =>
    insts[i].terminal = ErrorEvent("PROCESS_FAILED")

\* Retention ends: whoever subscribes to a finished instance and however often,
\* the sweeper gets to drop its record.  A subscription left registered with it
\* would keep it for ever.
RetentionEnds ==
  \A i \in Instances :
    insts[i] # Nil /\ insts[i].finished ~> closed \/ insts[i] = Nil
=============================================================================
