----------------------------- MODULE BrokerBase -----------------------------
(***************************************************************************)
(* What the three parts of the in-memory message broker share: the         *)
(* vocabulary of core/message_broker.go (process keys, job kinds,          *)
(* lifecycle phases, instance events) and the flag that Close sets.        *)
(***************************************************************************)
EXTENDS Naturals, FiniteSets, SequencesExt

CONSTANTS
  Keys,        \* process keys (Namespace, ProcessID, Version)
  NoKey,       \* the zero ProcessKey of a record nobody submitted
  Instances,   \* process instance ids
  Workers,     \* worker ids; each makes one FetchJobs call at a time
  Nil          \* a nil pointer

VARIABLE
  closed       \* InMemoryMessageBroker.closed

ASSUME BaseAssumption ==
  /\ NoKey \notin Keys
  /\ Nil \notin Instances

QueueKeys == Keys \cup {NoKey}

JobKind == {"JobStart", "JobRespondToInput", "JobCancel", "JobTerminate", "JobResume"}

\* An inMemJob: the pointer is the id, the rest is the job it carries.
Job == [id : Nat, kind : JobKind, key : QueueKeys, inst : Instances]

FinishedPhase == {"Completed", "Cancelled", "Failed"}
Phase == {"Pending", "Running", "Suspended"} \cup FinishedPhase

\* The codes that matter to the broker: its own three, the error ReportFailed
\* carries, and anything a worker posts.
ErrorCode == {"INSTANCE_NOT_FOUND", "ALREADY_FINISHED", "BACKPRESSURE_DROP",
              "PROCESS_FAILED", "POSTED"}

Lifecycle(phase)    == [kind |-> "Lifecycle", what |-> phase]
ErrorEvent(code)    == [kind |-> "Error", what |-> code]
ResultEvent         == [kind |-> "Result", what |-> "Result"]
PostEvent(kind)     == [kind |-> kind, what |-> "Posted"]

Event == {Lifecycle(p) : p \in Phase} \cup {ErrorEvent(c) : c \in ErrorCode}
           \cup {ResultEvent, PostEvent("InputRequest"), PostEvent("NodeCompleted")}
=============================================================================
