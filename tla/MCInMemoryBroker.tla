-------------------------- MODULE MCInMemoryBroker --------------------------
(* Small instances of the whole broker. *)
EXTENDS InMemoryBroker

CONSTANTS k1

FetchNothing == [w \in Workers |-> <<>>]
MCFetchKeys == [w \in Workers |-> <<k1>>]

MCTraffic == RequestKind \X QueueKeys \X Instances

PostErrorOnly == {ErrorEvent("POSTED")}

NoAllowance == {<<[key |-> k1, allow |-> {}]>>}
CancelOnly == {<<[key |-> k1, allow |-> {"cancel"}]>>}
CancelAndTerminate == {<<[key |-> k1, allow |-> {"cancel", "terminate"}]>>}

\* A quiet environment: no FetchJobs context is cancelled, heartbeats are in
\* time and workers report before the in-flight timeout.
Quiet ==
  /\ ctxDone = {} /\ callback = [g \in Goroutines |-> Nil]
  /\ \A w \in Workers : workers[w] # Nil => ~workers[w].lapsed

\* Next in a quiet environment; the broker's own steps leave it quiet.
QuietNext ==
  \/ (ProducerStep \/ WorkerStep \/ JobStep \/ TopicStep \/ RegistryStep) /\ Quiet'
  \/ \E g \in Goroutines : ResumeCallback(g)
  \/ \E gone \in SUBSET Lapsed, old \in SUBSET Purgeable : sweep(gone, old)
  \/ Close

QuietSpec == Init /\ [][QuietNext]_vars /\ Fairness
=============================================================================
