--------------------------- MODULE LosslessQueue ---------------------------
(***************************************************************************)
(* What a registry watcher is promised of its delivery queue: an unbounded *)
(* first-in first-out buffer that loses nothing until it is closed.        *)
(***************************************************************************)
EXTENDS Sequences

CONSTANT Updates

VARIABLES pending, received, open

QueueInit == pending = <<>> /\ received = <<>> /\ open = TRUE

Push(x) ==
  /\ open
  /\ pending' = Append(pending, x)
  /\ UNCHANGED <<received, open>>

Take ==
  /\ pending # <<>>
  /\ received' = Append(received, Head(pending))
  /\ pending' = Tail(pending)
  /\ UNCHANGED open

Shut ==
  /\ open
  /\ open' = FALSE
  /\ pending' = <<>>
  /\ UNCHANGED received

QueueNext == (\E x \in Updates : Push(x)) \/ Take \/ Shut

QueueSpec == QueueInit /\ [][QueueNext]_<<pending, received, open>>
=============================================================================
