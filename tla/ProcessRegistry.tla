-------------------------- MODULE ProcessRegistry --------------------------
(***************************************************************************)
(* The registry side of the in-memory message broker: the capability set   *)
(* each worker registers, its deadline, and the watchers that mirror the   *)
(* registry from a snapshot and the updates that follow it.  A watcher's   *)
(* pump is the lossless queue that RegistryPump refines.                   *)
(***************************************************************************)
EXTENDS BrokerBase

CONSTANTS
  CapabilitySets,    \* the regs arguments of RegisterProcesses: sequences
  Watchers,          \* SubscribeToProcessRegistry calls
  MaxRegistrations   \* bound: RegisterProcesses calls

Allowance == {"cancel", "terminate"}

ASSUME ProcessRegistryAssumption ==
  /\ CapabilitySets \subseteq Seq([key : Keys, allow : SUBSET Allowance])
  /\ MaxRegistrations \in Nat

VARIABLES
  workers,   \* the workers map, Nil where there is no entry
  pumps,     \* undelivered updates per watcher, Nil while it does not watch
  views,     \* the registry as each watcher has reconstructed it
  now        \* wall clock, advanced by each RegisterProcesses

regVars == <<closed, workers, pumps, views, now>>

Registration == [worker : Workers, key : Keys, allow : SUBSET Allowance, at : Nat]

\* firstReg gives the time of a key's first registration, 0 if there is none;
\* lapsed says that the deadline has passed.
Worker == [regs : Seq(Registration), firstReg : [Keys -> Nat], lapsed : BOOLEAN]

Update == [kind : {"Snapshot", "Added", "Removed", "HeartbeatLost"}, reg : Registration]
            \cup [kind : {"SnapshotComplete"}]

Regs(w) == IF workers[w] = Nil THEN <<>> ELSE workers[w].regs
Registered == UNION {Range(Regs(w)) : w \in Workers}

RegInit ==
  /\ closed = FALSE
  /\ workers = [w \in Workers |-> Nil]
  /\ pumps = [p \in Watchers |-> Nil]
  /\ views = [p \in Watchers |-> {}]
  /\ now = 0
-----------------------------------------------------------------------------
updates(kind, regs) == [n \in DOMAIN regs |-> [kind |-> kind, reg |-> regs[n]]]

emitRegistryUpdateLocked(us) ==
  pumps' = [p \in Watchers |-> IF pumps[p] = Nil THEN Nil ELSE pumps[p] \o us]

\* liveRegistrationLocked: the first registration of the key in the slice of
\* some worker before its deadline; map order decides which worker.
liveRegistrations(key) ==
  {reg \in Registered : \E w \in Workers :
     /\ workers[w] # Nil /\ ~workers[w].lapsed
     /\ \E n \in DOMAIN workers[w].regs :
          /\ reg = workers[w].regs[n] /\ reg.key = key
          /\ \A m \in 1..(n - 1) : workers[w].regs[m].key # key}

\* Mutant: a key registered again gets the time of this call.
stampFirstAnew(first, regs) ==
  [k \in Keys |-> IF \E n \in DOMAIN regs : regs[n].key = k THEN now + 1 ELSE first[k]]

\* A key registered for the first time gets the time of this call.
stampFirst(first, regs) ==
  [k \in Keys |-> IF first[k] = 0 /\ \E n \in DOMAIN regs : regs[n].key = k
                  THEN now + 1 ELSE first[k]]

\* Mutant: the worker id is not stamped.
stampWithoutWorker(w, regs, first) ==
  [n \in DOMAIN regs |-> [key |-> regs[n].key, allow |-> regs[n].allow, at |-> first[regs[n].key]]]

stamp(w, regs, first) ==
  [n \in DOMAIN regs |-> [worker |-> w, key |-> regs[n].key, allow |-> regs[n].allow,
                          at |-> first[regs[n].key]]]

RegisterProcesses(w, regs) ==
  LET kept == stampFirst(IF workers[w] = Nil THEN [k \in Keys |-> 0] ELSE workers[w].firstReg, regs)
      stamped == stamp(w, regs, kept)
  IN  /\ ~closed
      /\ now < MaxRegistrations
      /\ now' = now + 1
      /\ workers' = [workers EXCEPT ![w] = [regs |-> stamped, firstReg |-> kept,
                                            lapsed |-> FALSE]]
      /\ emitRegistryUpdateLocked(updates("Removed", Regs(w)) \o updates("Added", stamped))
      /\ UNCHANGED <<closed, views>>

Heartbeat(w) ==
  /\ ~closed
  /\ workers[w] # Nil
  /\ workers' = [workers EXCEPT ![w].lapsed = FALSE]
  /\ UNCHANGED <<closed, pumps, views, now>>

\* Mutant: the watchers are not told.
UnregisterSilent(w) ==
  /\ ~closed
  /\ workers[w] # Nil
  /\ workers' = [workers EXCEPT ![w] = Nil]
  /\ UNCHANGED <<closed, pumps, views, now>>

Unregister(w) ==
  /\ ~closed
  /\ workers[w] # Nil
  /\ workers' = [workers EXCEPT ![w] = Nil]
  /\ emitRegistryUpdateLocked(updates("Removed", Regs(w)))
  /\ UNCHANGED <<closed, views, now>>

\* Time passes the worker's deadline.
DeadlinePasses(w) ==
  /\ workers[w] # Nil /\ ~workers[w].lapsed
  /\ workers' = [workers EXCEPT ![w].lapsed = TRUE]
  /\ UNCHANGED <<closed, pumps, views, now>>

\* The sweeper's first loop; the order of the workers, which the map decides,
\* does not matter to a mirror.  Its tick may be older than the
\* mutex it waited for, so it sees some of the workers that have lapsed.
Lapsed == {w \in Workers : workers[w] # Nil /\ workers[w].lapsed}

\* Mutant: the watchers are not told.
ExpireSilent(gone) ==
  /\ ~closed
  /\ gone \subseteq Lapsed
  /\ workers' = [w \in Workers |-> IF w \in gone THEN Nil ELSE workers[w]]
  /\ UNCHANGED <<closed, pumps, views, now>>

ExpireWorkers(gone) ==
  /\ ~closed
  /\ gone \subseteq Lapsed
  /\ workers' = [w \in Workers |-> IF w \in gone THEN Nil ELSE workers[w]]
  /\ emitRegistryUpdateLocked(
       FlattenSeq(SetToSeq({updates("HeartbeatLost", Regs(w)) : w \in gone})))
  /\ UNCHANGED <<closed, views, now>>

Snapshot == FlattenSeq(SetToSeq({updates("Snapshot", Regs(w)) : w \in Workers}))

\* Mutant: the sentinel comes first.
SubscribeSentinelFirst(p) ==
  /\ ~closed
  /\ pumps[p] = Nil
  /\ pumps' = [pumps EXCEPT ![p] = <<[kind |-> "SnapshotComplete"]>> \o Snapshot]
  /\ views' = [views EXCEPT ![p] = {}]
  /\ UNCHANGED <<closed, workers, now>>

SubscribeToProcessRegistry(p) ==
  /\ ~closed
  /\ pumps[p] = Nil
  /\ pumps' = [pumps EXCEPT ![p] = Snapshot \o <<[kind |-> "SnapshotComplete"]>>]
  /\ views' = [views EXCEPT ![p] = {}]
  /\ UNCHANGED <<closed, workers, now>>

CancelWatch(p) ==
  /\ ~closed
  /\ pumps[p] # Nil
  /\ pumps' = [pumps EXCEPT ![p] = Nil]
  /\ UNCHANGED <<closed, workers, views, now>>

\* A watcher's mirror: registrations are identified by worker and key.
apply(view, u) ==
  LET others == {r \in view : r.worker # u.reg.worker \/ r.key # u.reg.key}
  IN  CASE u.kind = "SnapshotComplete" -> view
        [] u.kind \in {"Snapshot", "Added"} -> others \cup {u.reg}
        [] u.kind \in {"Removed", "HeartbeatLost"} -> others

Deliver(p) ==
  /\ pumps[p] \notin {Nil, <<>>}
  /\ views' = [views EXCEPT ![p] = apply(@, Head(pumps[p]))]
  /\ pumps' = [pumps EXCEPT ![p] = Tail(@)]
  /\ UNCHANGED <<closed, workers, now>>

CloseRegistry ==
  /\ ~closed
  /\ closed' = TRUE
  /\ pumps' = [p \in Watchers |-> Nil]
  /\ UNCHANGED <<workers, views, now>>
-----------------------------------------------------------------------------
RegNext ==
  \/ \E w \in Workers, regs \in CapabilitySets : RegisterProcesses(w, regs)
  \/ \E w \in Workers : Heartbeat(w) \/ Unregister(w) \/ DeadlinePasses(w)
  \/ \E gone \in SUBSET Lapsed : ExpireWorkers(gone)
  \/ \E p \in Watchers : SubscribeToProcessRegistry(p) \/ CancelWatch(p) \/ Deliver(p)
  \/ CloseRegistry

RegSpec == RegInit /\ [][RegNext]_regVars

\* The ticker keeps ticking, and a tick later than a deadline sees it; a
\* watcher that keeps receiving is served by its pump.
RegFairness ==
  /\ \A w \in Workers : WF_regVars(\E gone \in SUBSET Lapsed : w \in gone /\ ExpireWorkers(gone))
  /\ \A p \in Watchers : WF_regVars(Deliver(p))

RegFairSpec == RegSpec /\ RegFairness
-----------------------------------------------------------------------------
(* Properties. *)

\* Type correctness.
RegTypeOK ==
  /\ closed \in BOOLEAN
  /\ workers \in [Workers -> Worker \cup {Nil}]
  /\ pumps \in [Watchers -> Seq(Update) \cup {Nil}]
  /\ views \in [Watchers -> SUBSET Registration]
  /\ now \in Nat

\* A watcher never drifts from the registry: its mirror, brought forward by
\* the updates still in its pump, is exactly what the workers have registered,
\* through re-registration, removal, expiry and subscriptions at any moment.
MirrorConverges ==
  \A p \in Watchers : pumps[p] # Nil => FoldLeft(apply, views[p], pumps[p]) = Registered

\* A snapshot is recognisable: at most one sentinel is under way, no snapshot
\* entry comes after it and no incremental update before it.
SnapshotThenUpdates ==
  \A p \in Watchers : pumps[p] # Nil =>
    \A n \in DOMAIN pumps[p] : pumps[p][n].kind = "SnapshotComplete" =>
      /\ \A m \in 1..(n - 1) : pumps[p][m].kind = "Snapshot"
      /\ \A m \in (n + 1)..Len(pumps[p]) : pumps[p][m].kind \in {"Added", "Removed", "HeartbeatLost"}

\* RegisteredAt survives re-registration: while a worker stays in the map, a
\* key it registers, drops and registers again keeps the time of the first.
RegisteredAtKept ==
  [][\A w \in Workers, k \in Keys :
       /\ workers[w] # Nil /\ workers'[w] # Nil
       /\ workers[w].firstReg[k] # 0
       => /\ workers'[w].firstReg[k] = workers[w].firstReg[k]
          /\ \A n \in DOMAIN workers'[w].regs :
               workers'[w].regs[n].key = k => workers'[w].regs[n].at = workers[w].firstReg[k]]_regVars

\* A worker that falls silent disappears everywhere: unless it comes back, the
\* sweeper removes it and every watcher that keeps receiving drops it.
Mentions(p, w) ==
  /\ pumps[p] # Nil
  /\ \/ \E r \in views[p] : r.worker = w
     \/ \E n \in DOMAIN pumps[p] :
          pumps[p][n].kind # "SnapshotComplete" /\ pumps[p][n].reg.worker = w

SilentWorkerForgotten ==
  \A w \in Workers :
    workers[w] # Nil /\ workers[w].lapsed
      ~> \/ closed
         \/ workers[w] # Nil /\ ~workers[w].lapsed
         \/ workers[w] = Nil /\ \A p \in Watchers : ~Mentions(p, w)
=============================================================================
