--------------------------- MODULE JobQueueProofs ---------------------------
(***************************************************************************)
(* Proofs about the job queue, for any keys, instances, workers and bounds. *)
(***************************************************************************)
EXTENDS JobQueue, SequenceTheorems, TLAPS

Elements(q) == {q[n] : n \in DOMAIN q}
Distinct(q) == \A m, n \in DOMAIN q : q[m] = q[n] => m = n

\* Every job of queue k is filed under its key and nowhere else, and is older
\* than the next job pointer.
Filed(k) ==
  /\ Distinct(queues[k])
  /\ \A j \in Elements(queues[k]) :
       j.key = k /\ j \notin inFlight /\ j \notin settled /\ j.id < nextJob

\* Where jobs are.  OnePlace alone is not inductive: an enqueued job is new only
\* because ids of all tracked jobs are below nextJob.
QueueInv ==
  /\ queues \in [QueueKeys -> Seq(Job)]
  /\ inFlight \subseteq Job /\ settled \subseteq Job
  /\ byInst \in [Instances -> SUBSET Job]
  /\ nextJob \in Nat
  /\ \A k \in QueueKeys : Filed(k)
  /\ \A j \in inFlight : j \notin settled /\ j.id < nextJob
  /\ \A j \in settled : j.id < nextJob
  /\ IndexesAgree

\* The inductive invariant.
JQInv == JQTypeOK /\ QueueInv /\ RedeliveryPending /\ NoLostWakeup
-----------------------------------------------------------------------------
(* What the queue operations do to the elements of a queue. *)

\* A queue of jobs holds jobs.
LEMMA ElementsType == ASSUME NEW S, NEW q \in Seq(S) PROVE Elements(q) \subseteq S
<1>1. \A n \in DOMAIN q : q[n] \in S
  OBVIOUS
<1> QED BY <1>1 DEF Elements

\* Appending a new job keeps a queue free of duplicates (enqueueLocked).
LEMMA AppendElements ==
  ASSUME NEW S, NEW q \in Seq(S), NEW e \in S, e \notin Elements(q), Distinct(q)
  PROVE  /\ Append(q, e) \in Seq(S) /\ Append(q, e) # <<>>
         /\ Elements(Append(q, e)) = Elements(q) \cup {e}
         /\ Distinct(Append(q, e))
<1> DEFINE a == Append(q, e)
<1>1. /\ a \in Seq(S) /\ Len(a) = Len(q) + 1 /\ a[Len(q) + 1] = e
      /\ \A n \in 1..Len(q) : a[n] = q[n]
  OBVIOUS
<1>2. DOMAIN a = 1..(Len(q) + 1) /\ DOMAIN q = 1..Len(q) /\ Len(q) \in Nat
  BY <1>1
<1> HIDE DEF a
<1>3. Elements(a) = Elements(q) \cup {e}
  BY <1>1, <1>2 DEF Elements
<1>4. Distinct(a)
  BY <1>1, <1>2 DEF Distinct, Elements
<1> QED
  BY <1>1, <1>3, <1>4 DEF a

\* Putting a job back in front keeps a queue free of duplicates (requeue).
LEMMA ConsElements ==
  ASSUME NEW S, NEW q \in Seq(S), NEW e \in S, e \notin Elements(q), Distinct(q)
  PROVE  /\ Cons(e, q) \in Seq(S) /\ Cons(e, q) # <<>>
         /\ Elements(Cons(e, q)) = Elements(q) \cup {e}
         /\ Distinct(Cons(e, q))
<1> DEFINE a == Cons(e, q)
<1>1. /\ a \in Seq(S) /\ Len(a) = Len(q) + 1 /\ a[1] = e
      /\ \A n \in 1..Len(q) : a[n + 1] = q[n]
  BY DEF Cons
<1>2. DOMAIN a = 1..(Len(q) + 1) /\ DOMAIN q = 1..Len(q) /\ Len(q) \in Nat
  BY <1>1
<1> HIDE DEF a
<1>3. \A m \in DOMAIN a : m = 1 \/ (m - 1 \in DOMAIN q /\ a[m] = q[m - 1])
  <2> TAKE m \in DOMAIN a
  <2>1. CASE m = 1
    BY <2>1
  <2>2. CASE m # 1
    <3>1. m - 1 \in 1..Len(q) /\ (m - 1) + 1 = m
      BY <1>2, <2>2
    <3> QED BY <3>1, <1>1, <1>2
  <2> QED BY <2>1, <2>2
<1>4. Elements(a) = Elements(q) \cup {e}
  <2>1. Elements(a) \subseteq Elements(q) \cup {e}
    BY <1>1, <1>3 DEF Elements
  <2>2. e \in Elements(a)
    BY <1>1, <1>2 DEF Elements
  <2>3. ASSUME NEW n \in DOMAIN q PROVE q[n] \in Elements(a)
    <3>1. n + 1 \in DOMAIN a /\ a[n + 1] = q[n]
      BY <1>1, <1>2
    <3> QED BY <3>1 DEF Elements
  <2> QED BY <2>1, <2>2, <2>3 DEF Elements
<1>5. Distinct(a)
  <2> SUFFICES ASSUME NEW m \in DOMAIN a, NEW n \in DOMAIN a, a[m] = a[n]
               PROVE  m = n
    BY DEF Distinct
  <2>1. CASE m = 1 /\ n # 1
    BY <2>1, <1>1, <1>3 DEF Elements
  <2>2. CASE n = 1 /\ m # 1
    BY <2>2, <1>1, <1>3 DEF Elements
  <2>3. CASE m # 1 /\ n # 1
    <3>1. m - 1 = n - 1
      BY <2>3, <1>3 DEF Distinct
    <3> QED BY <3>1, <1>2
  <2> QED BY <2>1, <2>2, <2>3
<1> QED
  BY <1>1, <1>4, <1>5 DEF a

\* Taking the head removes exactly that job (takePendingLocked).
LEMMA TailElements ==
  ASSUME NEW S, NEW q \in Seq(S), q # <<>>, Distinct(q)
  PROVE  /\ Tail(q) \in Seq(S) /\ Head(q) \in S /\ Head(q) \in Elements(q)
         /\ Elements(Tail(q)) = Elements(q) \ {Head(q)}
         /\ Distinct(Tail(q))
<1> DEFINE t == Tail(q)
<1>1. /\ t \in Seq(S) /\ Len(t) = Len(q) - 1 /\ Head(q) = q[1] /\ Head(q) \in S
      /\ \A n \in 1..Len(t) : t[n] = q[n + 1]
  BY HeadTailProperties
<1>2. /\ DOMAIN t = 1..(Len(q) - 1) /\ DOMAIN q = 1..Len(q) /\ Len(q) \in Nat /\ Len(q) # 0
  BY <1>1, EmptySeq
<1> HIDE DEF t
<1>3. \A n \in DOMAIN t : n + 1 \in DOMAIN q /\ t[n] = q[n + 1] /\ n + 1 # 1
  BY <1>1, <1>2
<1>4. \A m \in DOMAIN q : m # 1 => m - 1 \in DOMAIN t /\ t[m - 1] = q[m]
  <2> SUFFICES ASSUME NEW m \in DOMAIN q, m # 1 PROVE m - 1 \in DOMAIN t /\ t[m - 1] = q[m]
    OBVIOUS
  <2>1. m - 1 \in 1..Len(t) /\ (m - 1) + 1 = m
    BY <1>1, <1>2
  <2> QED BY <2>1, <1>1, <1>2
<1>5. 1 \in DOMAIN q
  BY <1>2
<1>6. Elements(t) = Elements(q) \ {Head(q)}
  <2>1. ASSUME NEW n \in DOMAIN t PROVE t[n] \in Elements(q) \ {Head(q)}
    BY <1>1, <1>3, <1>5 DEF Elements, Distinct
  <2>2. ASSUME NEW m \in DOMAIN q, q[m] # Head(q) PROVE q[m] \in Elements(t)
    <3>1. m # 1
      BY <2>2, <1>1
    <3>2. m - 1 \in DOMAIN t /\ t[m - 1] = q[m]
      BY <3>1, <1>4
    <3> QED BY <3>2 DEF Elements
  <2> QED BY <2>1, <2>2 DEF Elements
<1>7. Distinct(t)
  <2> SUFFICES ASSUME NEW m \in DOMAIN t, NEW n \in DOMAIN t, t[m] = t[n] PROVE m = n
    BY DEF Distinct
  <2>1. m + 1 = n + 1
    BY <1>3 DEF Distinct
  <2> QED BY <2>1, <1>2
<1>8. Head(q) \in Elements(q)
  BY <1>1, <1>5 DEF Elements
<1> QED
  BY <1>1, <1>6, <1>7, <1>8 DEF t

\* Removing position n removes exactly that job (removeQueuedStartLocked).
LEMMA RemoveAtElements ==
  ASSUME NEW S, NEW q \in Seq(S), NEW n \in DOMAIN q, Distinct(q)
  PROVE  /\ RemoveAt(q, n) \in Seq(S)
         /\ Elements(RemoveAt(q, n)) = Elements(q) \ {q[n]}
         /\ Distinct(RemoveAt(q, n))
<1> DEFINE r == RemoveAt(q, n)
<1>0. n \in 1..Len(q) /\ Len(q) \in Nat /\ DOMAIN q = 1..Len(q)
  OBVIOUS
<1>1. /\ r \in Seq(S) /\ Len(r) = Len(q) - 1
      /\ \A m \in 1..(Len(q) - 1) : r[m] = IF m < n THEN q[m] ELSE q[m + 1]
  <2> DEFINE a == SubSeq(q, 1, n - 1)
             b == SubSeq(q, n + 1, Len(q))
  <2>1. /\ a \in Seq(S) /\ Len(a) = n - 1
        /\ \A m \in 1..(n - 1) : a[m] = q[m]
    BY <1>0
  <2>2. /\ b \in Seq(S) /\ Len(b) = Len(q) - n
        /\ \A m \in 1..(Len(q) - n) : b[m] = q[n + m]
    BY <1>0
  <2>3. r = a \o b
    BY DEF RemoveAt
  <2> HIDE DEF a, b, r
  <2>4. /\ r \in Seq(S) /\ Len(r) = Len(a) + Len(b)
        /\ \A m \in 1..(Len(a) + Len(b)) :
             r[m] = IF m <= Len(a) THEN a[m] ELSE b[m - Len(a)]
    BY <2>1, <2>2, <2>3, ConcatProperties, Zenon
  <2>5. Len(r) = Len(q) - 1
    BY <1>0, <2>1, <2>2, <2>4
  <2>6. ASSUME NEW m \in 1..(Len(q) - 1)
        PROVE  r[m] = IF m < n THEN q[m] ELSE q[m + 1]
    <3>1. r[m] = IF m <= n - 1 THEN a[m] ELSE b[m - (n - 1)]
      BY <1>0, <2>1, <2>2, <2>4
    <3>2. CASE m < n
      BY <3>1, <3>2, <1>0, <2>1
    <3>3. CASE m >= n
      <4>1. m - (n - 1) \in 1..(Len(q) - n) /\ ~(m <= n - 1) /\ n + (m - (n - 1)) = m + 1
        BY <1>0, <3>3
      <4> QED BY <4>1, <3>1, <3>3, <1>0, <2>2
    <3> QED BY <3>2, <3>3, <1>0
  <2> QED BY <2>4, <2>5, <2>6
<1>2. DOMAIN r = 1..(Len(q) - 1)
  BY <1>1
<1> HIDE DEF r
<1>3. \A m \in DOMAIN r : \/ m < n /\ m \in DOMAIN q /\ r[m] = q[m]
                          \/ m >= n /\ m + 1 \in DOMAIN q /\ r[m] = q[m + 1]
  BY <1>0, <1>1, <1>2
<1>4. ASSUME NEW m \in DOMAIN q, m # n PROVE q[m] \in Elements(r)
  <2>1. CASE m < n
    <3>1. m \in DOMAIN r /\ r[m] = q[m]
      BY <2>1, <1>0, <1>1, <1>2
    <3> QED BY <3>1 DEF Elements
  <2>2. CASE m > n
    <3>1. m - 1 \in 1..(Len(q) - 1) /\ ~(m - 1 < n) /\ (m - 1) + 1 = m
      BY <2>2, <1>0
    <3>2. m - 1 \in DOMAIN r /\ r[m - 1] = q[m]
      BY <3>1, <1>1, <1>2
    <3> QED BY <3>2 DEF Elements
  <2> QED BY <2>1, <2>2, <1>0, <1>4
<1>5. Elements(r) \subseteq Elements(q) \ {q[n]}
  <2> SUFFICES ASSUME NEW m \in DOMAIN r PROVE r[m] \in Elements(q) /\ r[m] # q[n]
    BY DEF Elements
  <2>1. CASE m < n /\ m \in DOMAIN q /\ r[m] = q[m]
    BY <2>1, <1>0 DEF Elements, Distinct
  <2>2. CASE m >= n /\ m + 1 \in DOMAIN q /\ r[m] = q[m + 1]
    <3>1. m + 1 # n
      BY <2>2, <1>0, <1>2
    <3> QED BY <3>1, <2>2 DEF Elements, Distinct
  <2> QED BY <2>1, <2>2, <1>3
<1>6. Elements(q) \ {q[n]} \subseteq Elements(r)
  BY <1>4 DEF Elements
<1>7. Distinct(r)
  <2> SUFFICES ASSUME NEW m \in DOMAIN r, NEW l \in DOMAIN r, r[m] = r[l] PROVE m = l
    BY DEF Distinct
  <2>0. m \in Int /\ l \in Int
    BY <1>2
  <2>1. CASE m < n /\ l < n
    BY <2>1, <1>3, <2>0 DEF Distinct
  <2>2. CASE m >= n /\ l >= n
    <3>1. m + 1 = l + 1
      BY <2>2, <1>0, <1>3, <2>0 DEF Distinct
    <3> QED BY <3>1, <2>0
  <2>3. CASE m < n /\ l >= n
    <3>1. m = l + 1
      BY <2>3, <1>0, <1>3, <2>0 DEF Distinct
    <3> QED BY <3>1, <2>3, <2>0, <1>0
  <2>4. CASE m >= n /\ l < n
    <3>1. m + 1 = l
      BY <2>4, <1>0, <1>3, <2>0 DEF Distinct
    <3> QED BY <3>1, <2>4, <2>0, <1>0
  <2> QED BY <2>0, <2>1, <2>2, <2>3, <2>4, <1>0
<1> QED
  BY <1>1, <1>5, <1>6, <1>7 DEF r
-----------------------------------------------------------------------------
(* How the locked helpers keep QueueInv. *)

\* QueueInv says what OnePlace says.
LEMMA QueueInvImpliesOnePlace == QueueInv => OnePlace
  BY DEF QueueInv, OnePlace, Filed, Queued, Elements, Distinct

\* enqueueLocked files a job that is nowhere else.
LEMMA EnqueueKeepsQueueInv ==
  ASSUME QueueInv, NEW kind \in JobKind, NEW key \in QueueKeys, NEW i \in Instances,
         enqueueLocked(kind, key, i), UNCHANGED <<inFlight, byInst, settled>>
  PROVE  QueueInv'
<1> DEFINE j == [id |-> nextJob, kind |-> kind, key |-> key, inst |-> i]
           q == Append(queues[key], j)
<1>1. /\ j \in Job /\ j.id = nextJob /\ j.key = key
      /\ queues' = [queues EXCEPT ![key] = q]
      /\ nextJob' = nextJob + 1
  BY DEF enqueueLocked, Job, QueueInv
<1>2. j \notin Elements(queues[key]) /\ j \notin inFlight /\ j \notin settled
  BY <1>1 DEF QueueInv, Filed
<1> HIDE DEF j
<1>3. queues[key] \in Seq(Job) /\ Distinct(queues[key])
  BY DEF QueueInv, Filed
<1>4. q \in Seq(Job) /\ Elements(q) = Elements(queues[key]) \cup {j} /\ Distinct(q)
  BY <1>1, <1>2, <1>3, AppendElements
<1> HIDE DEF q
<1>5. queues' \in [QueueKeys -> Seq(Job)]
  BY <1>1, <1>4 DEF QueueInv
<1>6. ASSUME NEW k \in QueueKeys PROVE Filed(k)'
  <2>1. CASE k = key
    <3>1. queues'[k] = q
      BY <1>1, <2>1 DEF QueueInv
    <3>2. \A x \in Elements(queues[k]) : x.key = k /\ x \notin inFlight /\ x \notin settled /\ x.id < nextJob
      BY DEF QueueInv, Filed
    <3>3. \A x \in Elements(queues[k]) : x.id \in Nat
      BY <1>3, <2>1, ElementsType DEF Job
    <3>4. \A x \in Elements(q) : x.key = k /\ x \notin inFlight /\ x \notin settled /\ x.id < nextJob'
      BY <3>2, <3>3, <1>1, <1>2, <1>4, <2>1 DEF QueueInv
    <3> QED BY <3>1, <3>4, <1>4 DEF Filed
  <2>2. CASE k # key
    <3>1. queues'[k] = queues[k]
      BY <1>1, <2>2 DEF QueueInv
    <3>2. \A x \in Elements(queues[k]) : x.id \in Nat
      <4>1. queues[k] \in Seq(Job)
        BY DEF QueueInv
      <4> QED BY <4>1, ElementsType DEF Job
    <3>3. \A x \in Elements(queues[k]) : x.id < nextJob + 1
      BY <3>2 DEF QueueInv, Filed
    <3> QED BY <3>1, <3>3, <1>1 DEF Filed, QueueInv
  <2> QED BY <2>1, <2>2
<1>7. /\ \A x \in inFlight : x.id < nextJob + 1
      /\ \A x \in settled : x.id < nextJob + 1
  BY DEF QueueInv, Job
<1> QED
  BY <1>1, <1>5, <1>6, <1>7 DEF QueueInv, IndexesAgree

\* takePendingLocked moves the head of a queue into flight.
LEMMA TakeKeepsQueueInv ==
  ASSUME QueueInv, NEW w, NEW k \in QueueKeys, queues[k] # <<>>,
         takePendingLocked(w, k), UNCHANGED nextJob
  PROVE  QueueInv' /\ Head(queues[k]) \in Job
<1> DEFINE j == Head(queues[k])
           q == Tail(queues[k])
<1>1. queues[k] \in Seq(Job) /\ Distinct(queues[k])
  BY DEF QueueInv, Filed
<1>2. /\ q \in Seq(Job) /\ j \in Job /\ j \in Elements(queues[k])
      /\ Elements(q) = Elements(queues[k]) \ {j} /\ Distinct(q)
  BY <1>1, TailElements
<1>3. /\ queues' = [queues EXCEPT ![k] = q]
      /\ settled' = settled \ {j} /\ inFlight' = inFlight \cup {j}
      /\ byInst' = [byInst EXCEPT ![j.inst] = @ \cup {j}]
  BY DEF takePendingLocked
<1> HIDE DEF j, q
<1>4. j.key = k /\ j \notin settled /\ j.id < nextJob /\ j.inst \in Instances
  BY <1>2 DEF QueueInv, Filed, Job
<1>5. ASSUME NEW l \in QueueKeys PROVE Filed(l)'
  <2>1. CASE l = k
    <3>1. queues'[l] = q
      BY <1>3, <2>1 DEF QueueInv
    <3> QED BY <3>1, <2>1, <1>2, <1>3 DEF Filed, QueueInv
  <2>2. CASE l # k
    <3>1. queues'[l] = queues[l]
      BY <1>3, <2>2 DEF QueueInv
    <3>2. j \notin Elements(queues[l])
      BY <2>2, <1>4 DEF QueueInv, Filed
    <3> QED BY <3>1, <3>2, <1>3 DEF Filed, QueueInv
  <2> QED BY <2>1, <2>2
<1>6. queues' \in [QueueKeys -> Seq(Job)]
  BY <1>2, <1>3 DEF QueueInv
<1>7. byInst' \in [Instances -> SUBSET Job] /\ IndexesAgree'
  BY <1>2, <1>3, <1>4 DEF QueueInv, IndexesAgree
<1> QED
  BY <1>2, <1>3, <1>4, <1>5, <1>6, <1>7 DEF QueueInv, j

\* requeue moves an in-flight job to the front of its queue, or does nothing.
LEMMA RequeueKeepsQueueInv ==
  ASSUME QueueInv, NEW j \in Job, requeue(j), UNCHANGED nextJob
  PROVE  QueueInv'
<1>1. CASE ~Requeueable(j)
  BY <1>1 DEF requeue, queueVars, QueueInv, Filed, IndexesAgree
<1>2. CASE Requeueable(j)
  <2> DEFINE k == j.key
             q == Cons(j, queues[k])
  <2>1. /\ queues' = [queues EXCEPT ![k] = q]
        /\ inFlight' = inFlight \ {j} /\ settled' = settled
        /\ byInst' = [byInst EXCEPT ![j.inst] = @ \ {j}]
        /\ j \in inFlight /\ k \in QueueKeys /\ j.inst \in Instances
    BY <1>2 DEF requeue, releaseLocked, Requeueable, Job
  <2>2. j \notin Elements(queues[k]) /\ j \notin settled /\ j.id < nextJob
    BY <2>1 DEF QueueInv, Filed
  <2>3. queues[k] \in Seq(Job) /\ Distinct(queues[k])
    BY <2>1 DEF QueueInv, Filed
  <2>4. q \in Seq(Job) /\ Elements(q) = Elements(queues[k]) \cup {j} /\ Distinct(q)
    BY <2>2, <2>3, ConsElements
  <2> HIDE DEF q
  <2>5. ASSUME NEW l \in QueueKeys PROVE Filed(l)'
    <3>1. CASE l = k
      <4>1. queues'[l] = q
        BY <2>1, <3>1 DEF QueueInv
      <4> QED BY <4>1, <3>1, <2>1, <2>2, <2>4 DEF Filed, QueueInv
    <3>2. CASE l # k
      <4>1. queues'[l] = queues[l]
        BY <2>1, <3>2 DEF QueueInv
      <4> QED BY <4>1, <2>1 DEF Filed, QueueInv
    <3> QED BY <3>1, <3>2
  <2>6. queues' \in [QueueKeys -> Seq(Job)]
    BY <2>1, <2>4 DEF QueueInv
  <2>7. byInst' \in [Instances -> SUBSET Job] /\ IndexesAgree'
    BY <2>1 DEF QueueInv, IndexesAgree
  <2> QED
    BY <2>1, <2>5, <2>6, <2>7 DEF QueueInv
<1> QED BY <1>1, <1>2

\* settleInstanceLocked settles exactly the instance's in-flight jobs.
LEMMA SettleKeepsQueueInv ==
  ASSUME QueueInv, NEW i \in Instances, settleInstanceLocked(i), UNCHANGED <<queues, nextJob>>
  PROVE  QueueInv'
<1>1. /\ settled' = settled \cup byInst[i] /\ inFlight' = inFlight \ byInst[i]
      /\ byInst' = [byInst EXCEPT ![i] = {}]
      /\ byInst[i] = {j \in inFlight : j.inst = i}
  BY DEF settleInstanceLocked, QueueInv, IndexesAgree
<1>2. ASSUME NEW k \in QueueKeys PROVE Filed(k)'
  BY <1>1 DEF QueueInv, Filed
<1>3. byInst' \in [Instances -> SUBSET Job] /\ IndexesAgree'
  BY <1>1 DEF QueueInv, IndexesAgree
<1> QED
  BY <1>1, <1>2, <1>3 DEF QueueInv

\* Cancel removes a queued start and settles what is in flight.
LEMMA CancelKeepsQueueInv ==
  ASSUME QueueInv, NEW i \in Instances, NEW key \in QueueKeys, NEW n \in DOMAIN queues[key],
         queues' = [queues EXCEPT ![key] = RemoveAt(@, n)],
         settleInstanceLocked(i), UNCHANGED nextJob
  PROVE  QueueInv'
<1> DEFINE q == RemoveAt(queues[key], n)
<1>1. /\ settled' = settled \cup byInst[i] /\ inFlight' = inFlight \ byInst[i]
      /\ byInst' = [byInst EXCEPT ![i] = {}]
      /\ byInst[i] = {j \in inFlight : j.inst = i}
      /\ queues' = [queues EXCEPT ![key] = q]
  BY DEF settleInstanceLocked, QueueInv, IndexesAgree
<1>2. queues[key] \in Seq(Job) /\ Distinct(queues[key])
  BY DEF QueueInv, Filed
<1>3. q \in Seq(Job) /\ Elements(q) \subseteq Elements(queues[key]) /\ Distinct(q)
  BY <1>2, RemoveAtElements
<1> HIDE DEF q
<1>4. ASSUME NEW k \in QueueKeys PROVE Filed(k)'
  <2>1. CASE k = key
    <3>1. queues'[k] = q
      BY <1>1, <2>1 DEF QueueInv
    <3> QED BY <3>1, <2>1, <1>1, <1>3 DEF Filed, QueueInv
  <2>2. CASE k # key
    <3>1. queues'[k] = queues[k]
      BY <1>1, <2>2 DEF QueueInv
    <3> QED BY <3>1, <1>1 DEF Filed, QueueInv
  <2> QED BY <2>1, <2>2
<1>5. queues' \in [QueueKeys -> Seq(Job)]
  BY <1>1, <1>3 DEF QueueInv
<1>6. byInst' \in [Instances -> SUBSET Job] /\ IndexesAgree'
  BY <1>1 DEF QueueInv, IndexesAgree
<1> QED
  BY <1>1, <1>4, <1>5, <1>6 DEF QueueInv
-----------------------------------------------------------------------------
(* One lemma per kind of step: it keeps the inductive invariant. *)

\* The keys a worker fetches are queue keys.
LEMMA FetchKeysType ==
  \A w \in Workers : \A n \in DOMAIN FetchKeys[w] : FetchKeys[w][n] \in QueueKeys
<1> SUFFICES ASSUME NEW w \in Workers, NEW n \in DOMAIN FetchKeys[w]
             PROVE  FetchKeys[w][n] \in QueueKeys
  OBVIOUS
<1>1. FetchKeys[w] \in Seq(Keys)
  BY JobQueueAssumption
<1>2. FetchKeys[w][n] \in Keys
  BY <1>1
<1> QED BY <1>2 DEF QueueKeys

\* signalLocked leaves no fetcher waiting.
LEMMA Signalled ==
  ASSUME JQTypeOK
  PROVE  /\ signalled \in [Workers -> {"off", "scan", "wait", "woken", "hand"}]
         /\ \A w \in Workers : signalled[w] # "wait"
         /\ \A w \in Workers : signalled[w] = "hand" <=> pc[w] = "hand"
  BY DEF JQTypeOK, signalled

\* Submit's and the other verbs' enqueue, and the resume callback's.
LEMMA EnqueueKeepsInv ==
  ASSUME JQInv, NEW kind \in JobKind, NEW key \in QueueKeys, NEW i \in Instances,
         enqueueLocked(kind, key, i),
         UNCHANGED <<closed, inFlight, byInst, settled, armed, callback, fetchVars, held, handed>>,
         submitted' \subseteq Instances,
         timers' \in [Instances -> {"none", "armed", "fired"}],
         orphans' \in [Instances -> Nat],
         resumer' \in [Goroutines -> Instances \cup {Nil}]
  PROVE  JQInv'
<1>1. QueueInv'
  BY EnqueueKeepsQueueInv DEF JQInv
<1>2. pc' = signalled
  BY DEF enqueueLocked
<1>3. JQTypeOK'
  BY <1>1, <1>2, Signalled DEF JQInv, JQTypeOK, QueueInv, fetchVars
<1>4. RedeliveryPending'
  BY DEF JQInv, RedeliveryPending
<1>5. NoLostWakeup'
  BY <1>2, Signalled DEF JQInv, NoLostWakeup
<1> QED BY <1>1, <1>3, <1>4, <1>5 DEF JQInv

\* The queues and the fetchers are left alone, whatever else happens.
LEMMA IdleKeepsInv ==
  ASSUME JQInv, UNCHANGED <<queueVars, nextJob>>, JQTypeOK', RedeliveryPending', NoLostWakeup'
  PROVE  JQInv'
<1>1. QueueInv'
  BY DEF JQInv, QueueInv, queueVars, Filed, IndexesAgree
<1> QED BY <1>1 DEF JQInv

\* A report that settles the instance of a job the worker holds.
LEMMA SettleKeepsInv ==
  ASSUME JQInv, NEW i \in Instances, settleInstanceLocked(i),
         UNCHANGED <<closed, queues, callback, orphans, resumer, nextJob, pc, fetchVars, submitted, handed>>,
         held' \in [Workers -> SUBSET Job],
         timers' \in [Instances -> {"none", "armed", "fired"}]
  PROVE  JQInv'
<1>1. QueueInv'
  BY SettleKeepsQueueInv DEF JQInv
<1>2. JQTypeOK'
  BY <1>1 DEF JQInv, JQTypeOK, QueueInv, fetchVars, settleInstanceLocked
<1>3. RedeliveryPending'
  BY DEF JQInv, RedeliveryPending, settleInstanceLocked
<1>4. NoLostWakeup'
  BY DEF JQInv, NoLostWakeup
<1> QED BY <1>1, <1>2, <1>3, <1>4 DEF JQInv

\* Cancel of a queued start: the queue it shortens was not empty, so no fetcher
\* of that key waits.
LEMMA CancelKeepsInv ==
  ASSUME JQInv, NEW key \in Keys, NEW i \in Instances, CancelQueued(key, i)
  PROVE  JQInv'
<1>0. key \in QueueKeys
  BY DEF QueueKeys
<1>1. PICK n \in DOMAIN queues[key] : queues' = [queues EXCEPT ![key] = RemoveAt(@, n)]
  BY DEF CancelQueued
<1>2. QueueInv'
  BY <1>0, <1>1, CancelKeepsQueueInv DEF JQInv, CancelQueued
<1>3. JQTypeOK'
  BY <1>2 DEF JQInv, JQTypeOK, QueueInv, CancelQueued, stopTimer, fetchVars, workVars,
              settleInstanceLocked
<1>4. RedeliveryPending'
  BY DEF JQInv, RedeliveryPending, settleInstanceLocked, CancelQueued
<1>5. queues[key] # <<>>
  BY <1>1
<1>6. NoLostWakeup'
  <2> SUFFICES ASSUME NEW w \in Workers, ~closed, pc[w] = "wait", NEW m \in DOMAIN FetchKeys[w]
               PROVE  queues'[FetchKeys[w][m]] = <<>>
    BY DEF NoLostWakeup, CancelQueued
  <2>1. queues[FetchKeys[w][m]] = <<>> /\ FetchKeys[w][m] \in QueueKeys
    BY FetchKeysType DEF JQInv, NoLostWakeup
  <2>2. FetchKeys[w][m] # key
    BY <2>1, <1>5
  <2> QED BY <1>1, <2>1, <2>2 DEF JQInv, QueueInv
<1> QED BY <1>2, <1>3, <1>4, <1>6 DEF JQInv

\* A fetcher takes a job and arms its redelivery timer.
LEMMA TakeKeepsInv ==
  ASSUME JQInv, NEW w \in Workers, ScanTakes(w)
  PROVE  JQInv'
<1>1. PICK n \in DOMAIN FetchKeys[w] :
        FirstPending(FetchKeys[w], n) /\ takePendingLocked(w, FetchKeys[w][n])
  BY DEF ScanTakes
<1> DEFINE k == FetchKeys[w][n]
           j == Head(queues[k])
<1>2. k \in QueueKeys /\ queues[k] # <<>>
  BY <1>1, FetchKeysType DEF FirstPending
<1>3. QueueInv' /\ j \in Job
  BY <1>1, <1>2, TakeKeepsQueueInv DEF JQInv, ScanTakes
<1>4. /\ queues' = [queues EXCEPT ![k] = Tail(@)] /\ inFlight' = inFlight \cup {j}
      /\ armed' = armed \cup {j} /\ hand' = [hand EXCEPT ![w] = j]
      /\ settled' \subseteq settled
      /\ byInst' = [byInst EXCEPT ![j.inst] = @ \cup {j}]
      /\ pc' = [pc EXCEPT ![w] = "hand"]
      /\ UNCHANGED <<closed, callback, resumeVars, nextJob, ctxDone, workVars>>
  BY <1>1 DEF takePendingLocked, ScanTakes
<1> HIDE DEF j
<1>5. JQTypeOK'
  <2>1. j # Nil
    BY <1>3, JobQueueAssumption
  <2>2. /\ pc' \in [Workers -> {"off", "scan", "wait", "woken", "hand"}]
        /\ hand' \in [Workers -> Job \cup {Nil}]
        /\ \A v \in Workers : pc'[v] = "hand" <=> hand'[v] # Nil
    BY <1>3, <1>4, <2>1 DEF JQInv, JQTypeOK
  <2> QED BY <2>2, <1>3, <1>4 DEF JQInv, JQTypeOK, QueueInv, resumeVars, workVars
<1>6. RedeliveryPending'
  BY <1>4 DEF JQInv, RedeliveryPending
<1>7. NoLostWakeup'
  <2> SUFFICES ASSUME NEW v \in Workers, ~closed, pc'[v] = "wait", NEW m \in DOMAIN FetchKeys[v]
               PROVE  queues'[FetchKeys[v][m]] = <<>>
    BY <1>4 DEF NoLostWakeup
  <2>1. pc[v] = "wait"
    BY <1>4 DEF JQInv, JQTypeOK
  <2>2. queues[FetchKeys[v][m]] = <<>> /\ FetchKeys[v][m] \in QueueKeys
    BY <2>1, FetchKeysType DEF JQInv, NoLostWakeup
  <2>3. FetchKeys[v][m] # k
    BY <2>2, <1>2
  <2> QED BY <1>4, <2>2, <2>3 DEF JQInv, QueueInv
<1> QED BY <1>3, <1>5, <1>6, <1>7 DEF JQInv

\* Redelivery and an abandoned hand-over: in both, the job that loses its
\* callback or its fetcher is requeued unless it is settled or pending.
LEMMA RequeueKeepsInv ==
  ASSUME JQInv, NEW j \in Job, requeue(j),
         UNCHANGED <<closed, resumeVars, nextJob, ctxDone, workVars>>,
         pc' \in [Workers -> {"off", "scan", "wait", "woken", "hand"}],
         \A w \in Workers : pc'[w] \in {"off", afterRequeue(j)[w]},
         hand' \in [Workers -> Job \cup {Nil}],
         \A w \in Workers : pc'[w] = "hand" <=> hand'[w] # Nil,
         callback' \in [Goroutines -> Job \cup {Nil}],
         \A g \in Goroutines : callback[g] # j => callback'[g] = callback[g]
  PROVE  JQInv'
<1>1. QueueInv'
  BY RequeueKeepsQueueInv DEF JQInv
<1>2. armed' \subseteq armed
  BY DEF requeue, releaseLocked, queueVars
<1>3. JQTypeOK'
  BY <1>1, <1>2 DEF JQInv, JQTypeOK, QueueInv, resumeVars, workVars
<1>4. RedeliveryPending'
  <2> SUFFICES ASSUME ~closed, NEW x \in inFlight'
               PROVE  x \in armed' \/ \E g \in Goroutines : callback'[g] = x
    BY DEF RedeliveryPending
  <2>1. x \in inFlight /\ x # j
    <3>1. CASE Requeueable(j)
      BY <3>1 DEF requeue, releaseLocked
    <3>2. CASE ~Requeueable(j)
      BY <3>2 DEF requeue, queueVars, Requeueable, JQInv, QueueInv
    <3> QED BY <3>1, <3>2
  <2>2. x \in armed \/ \E g \in Goroutines : callback[g] = x
    BY <2>1 DEF JQInv, RedeliveryPending
  <2>3. x \in armed => x \in armed'
    BY <2>1 DEF requeue, releaseLocked, queueVars
  <2> QED BY <2>1, <2>2, <2>3
<1>5. NoLostWakeup'
  <2>1. CASE Requeueable(j)
    <3>1. \A w \in Workers : pc'[w] # "wait"
      BY <2>1, Signalled DEF JQInv, afterRequeue
    <3> QED BY <3>1 DEF NoLostWakeup
  <2>2. CASE ~Requeueable(j)
    BY <2>2 DEF requeue, queueVars, afterRequeue, JQInv, NoLostWakeup
  <2> QED BY <2>1, <2>2
<1> QED BY <1>1, <1>3, <1>4, <1>5 DEF JQInv

\* A fetch goroutine's other steps leave the queues alone.
LEMMA FetchStepKeepsInv ==
  ASSUME JQInv, NEW w \in Workers, FetchStep(w)
  PROVE  JQInv'
<1>1. CASE FetchJobs(w)
  <2>1. JQTypeOK' /\ RedeliveryPending' /\ NoLostWakeup'
    BY <1>1 DEF JQInv, JQTypeOK, RedeliveryPending, NoLostWakeup, FetchJobs, queueVars, resumeVars, workVars
  <2> QED BY <2>1, <1>1, IdleKeepsInv DEF FetchJobs
<1>2. CASE CancelFetch(w)
  <2>1. JQTypeOK' /\ RedeliveryPending' /\ NoLostWakeup'
    BY <1>2 DEF JQInv, JQTypeOK, RedeliveryPending, NoLostWakeup, CancelFetch, queueVars, resumeVars, workVars
  <2> QED BY <2>1, <1>2, IdleKeepsInv DEF CancelFetch
<1>3. CASE ScanTakes(w)
  BY <1>3, TakeKeepsInv
<1>4. CASE ScanWaits(w)
  <2>1. JQTypeOK'
    BY <1>4 DEF JQInv, JQTypeOK, ScanWaits, queueVars, resumeVars, workVars, fetchVars
  <2>2. RedeliveryPending'
    BY <1>4 DEF JQInv, RedeliveryPending, ScanWaits, queueVars
  <2>3. NoLostWakeup'
    <3> SUFFICES ASSUME NEW v \in Workers, pc'[v] = "wait", ~closed
                 PROVE  \A n \in DOMAIN FetchKeys[v] : queues[FetchKeys[v][n]] = <<>>
      BY <1>4 DEF NoLostWakeup, ScanWaits, queueVars
    <3>1. CASE v = w
      BY <3>1, <1>4 DEF ScanWaits
    <3>2. CASE v # w
      BY <3>2, <1>4 DEF ScanWaits, JQInv, JQTypeOK, NoLostWakeup
    <3> QED BY <3>1, <3>2
  <2> QED BY <2>1, <2>2, <2>3, <1>4, IdleKeepsInv DEF ScanWaits
<1>5. CASE FetchExits(w)
  <2>1. JQTypeOK' /\ RedeliveryPending' /\ NoLostWakeup'
    BY <1>5 DEF JQInv, JQTypeOK, RedeliveryPending, NoLostWakeup, FetchExits, queueVars, resumeVars, workVars
  <2> QED BY <2>1, <1>5, IdleKeepsInv DEF FetchExits
<1>6. CASE HandOver(w)
  <2>1. JQTypeOK'
    BY <1>6 DEF JQInv, JQTypeOK, HandOver, queueVars, resumeVars
  <2>2. RedeliveryPending' /\ NoLostWakeup'
    BY <1>6 DEF JQInv, JQTypeOK, RedeliveryPending, NoLostWakeup, HandOver, queueVars
  <2> QED BY <2>1, <2>2, <1>6, IdleKeepsInv DEF HandOver
<1>7. CASE AbandonHand(w)
  <2>1. hand[w] \in Job
    BY <1>7 DEF AbandonHand, JQInv, JQTypeOK
  <2> DEFINE j == hand[w]
  <2>2. /\ afterRequeue(j) \in [Workers -> {"off", "scan", "wait", "woken", "hand"}]
        /\ \A v \in Workers : afterRequeue(j)[v] = "hand" <=> pc[v] = "hand"
    BY Signalled DEF afterRequeue, JQInv, JQTypeOK
  <2>3. /\ requeue(j)
        /\ UNCHANGED <<closed, callback, resumeVars, nextJob, ctxDone, workVars>>
        /\ pc' = [afterRequeue(j) EXCEPT ![w] = "off"]
        /\ hand' = [hand EXCEPT ![w] = Nil]
    BY <1>7 DEF AbandonHand
  <2>4. /\ pc' \in [Workers -> {"off", "scan", "wait", "woken", "hand"}]
        /\ \A v \in Workers : pc'[v] \in {"off", afterRequeue(j)[v]}
    BY <2>2, <2>3
  <2>5. /\ hand' \in [Workers -> Job \cup {Nil}]
        /\ \A v \in Workers : pc'[v] = "hand" <=> hand'[v] # Nil
    BY <2>2, <2>3 DEF JQInv, JQTypeOK
  <2>6. callback' \in [Goroutines -> Job \cup {Nil}]
    BY <2>3 DEF JQInv, JQTypeOK
  <2> HIDE DEF j
  <2> QED BY <2>1, <2>3, <2>4, <2>5, <2>6, RequeueKeepsInv DEF j
<1>8. CASE WorkerDies(w)
  <2>1. JQTypeOK' /\ RedeliveryPending' /\ NoLostWakeup'
    BY <1>8 DEF JQInv, JQTypeOK, RedeliveryPending, NoLostWakeup, WorkerDies, queueVars, resumeVars, fetchVars
  <2> QED BY <2>1, <1>8, IdleKeepsInv DEF WorkerDies
<1> QED
  BY <1>1, <1>2, <1>3, <1>4, <1>5, <1>6, <1>7, <1>8 DEF FetchStep

\* A timer firing and its redelivery callback.
LEMMA TimerStepKeepsInv ==
  ASSUME JQInv, TimerStep
  PROVE  JQInv'
<1>1. ASSUME NEW j \in armed, NEW g \in Goroutines, RedeliveryFires(j, g)
      PROVE  JQInv'
  <2>1. QueueInv'
    BY <1>1 DEF JQInv, QueueInv, Filed, IndexesAgree, RedeliveryFires
  <2>2. JQTypeOK'
    BY <1>1 DEF JQInv, JQTypeOK, RedeliveryFires, resumeVars, fetchVars, workVars
  <2>3. RedeliveryPending'
    <3> SUFFICES ASSUME ~closed, NEW x \in inFlight
                 PROVE  x \in armed' \/ \E h \in Goroutines : callback'[h] = x
      BY <1>1 DEF RedeliveryPending, RedeliveryFires
    <3>1. /\ callback[g] = Nil /\ armed' = armed \ {j}
          /\ callback' = [callback EXCEPT ![g] = j]
          /\ callback \in [Goroutines -> Job \cup {Nil}]
          /\ x # Nil
      BY <1>1, JobQueueAssumption DEF RedeliveryFires, JQInv, JQTypeOK
    <3>2. CASE x = j
      BY <3>1, <3>2
    <3>3. CASE x # j /\ x \in armed
      BY <3>1, <3>3
    <3>4. CASE x \notin armed
      <4>1. PICK h \in Goroutines : callback[h] = x
        BY <3>4 DEF JQInv, RedeliveryPending
      <4>2. h # g
        BY <4>1, <3>1
      <4> QED BY <4>1, <4>2, <3>1
    <3> QED BY <3>2, <3>3, <3>4
  <2>4. NoLostWakeup'
    BY <1>1 DEF JQInv, NoLostWakeup, RedeliveryFires
  <2> QED BY <2>1, <2>2, <2>3, <2>4 DEF JQInv
<1>2. ASSUME NEW g \in Goroutines, Redeliver(g)
      PROVE  JQInv'
  <2> DEFINE j == callback[g]
  <2>1. j \in Job
    BY <1>2 DEF Redeliver, JQInv, JQTypeOK
  <2>2. /\ requeue(j) /\ pc' = afterRequeue(j)
        /\ UNCHANGED <<closed, resumeVars, nextJob, hand, ctxDone, workVars>>
        /\ callback' = [callback EXCEPT ![g] = Nil]
    BY <1>2 DEF Redeliver, fetchVars
  <2>3. /\ pc' \in [Workers -> {"off", "scan", "wait", "woken", "hand"}]
        /\ \A v \in Workers : pc'[v] = "hand" <=> pc[v] = "hand"
        /\ \A v \in Workers : pc'[v] \in {"off", afterRequeue(j)[v]}
    BY <2>2, Signalled DEF afterRequeue, JQInv, JQTypeOK
  <2>4. /\ hand' \in [Workers -> Job \cup {Nil}]
        /\ \A v \in Workers : pc'[v] = "hand" <=> hand'[v] # Nil
    BY <2>2, <2>3 DEF JQInv, JQTypeOK
  <2>5. /\ callback' \in [Goroutines -> Job \cup {Nil}]
        /\ \A h \in Goroutines : callback[h] # j => callback'[h] = callback[h]
    BY <2>2 DEF JQInv, JQTypeOK
  <2> HIDE DEF j
  <2> QED BY <2>1, <2>2, <2>3, <2>4, <2>5, RequeueKeepsInv
<1>3. ASSUME NEW i \in Instances, NEW g \in Goroutines, ResumeFires(i, g)
      PROVE  JQInv'
  <2>1. JQTypeOK'
    <3>1. timers' \in [Instances -> {"none", "armed", "fired"}]
      BY <1>3 DEF JQInv, JQTypeOK, ResumeFires
    <3>2. orphans' \in [Instances -> Nat]
      <4>1. CASE UNCHANGED orphans
        BY <4>1 DEF JQInv, JQTypeOK
      <4>2. CASE orphans[i] > 0 /\ orphans' = [orphans EXCEPT ![i] = orphans[i] - 1]
        <5>1. orphans \in [Instances -> Nat] /\ orphans[i] \in Nat
          BY DEF JQInv, JQTypeOK
        <5>2. orphans[i] - 1 \in Nat
          BY <4>2, <5>1
        <5> QED BY <4>2, <5>1, <5>2
      <4> QED BY <4>1, <4>2, <1>3 DEF ResumeFires
    <3>3. resumer' \in [Goroutines -> Instances \cup {Nil}]
      BY <1>3 DEF JQInv, JQTypeOK, ResumeFires
    <3>4. UNCHANGED <<closed, queueVars, callback, nextJob, pc, fetchVars, workVars>>
      BY <1>3 DEF ResumeFires
    <3> QED BY <3>1, <3>2, <3>3, <3>4 DEF JQInv, JQTypeOK, queueVars, fetchVars, workVars
  <2>2. RedeliveryPending' /\ NoLostWakeup'
    BY <1>3 DEF JQInv, RedeliveryPending, NoLostWakeup, ResumeFires, queueVars
  <2> QED BY <2>1, <2>2, <1>3, IdleKeepsInv DEF ResumeFires
<1> QED
  BY <1>1, <1>2, <1>3 DEF TimerStep

\* The resume callback enqueues, or only drops its timer's map entry.
LEMMA ResumeKeepsInv ==
  ASSUME JQInv, NEW g \in Goroutines, NEW key \in QueueKeys \cup {Nil}, Resume(g, key)
  PROVE  JQInv'
<1> DEFINE i == resumer[g]
<1>1. /\ i \in Instances
      /\ timers' \in [Instances -> {"none", "armed", "fired"}]
      /\ orphans' \in [Instances -> Nat]
      /\ resumer' \in [Goroutines -> Instances \cup {Nil}]
  BY DEF Resume, JQInv, JQTypeOK
<1>2. UNCHANGED <<closed, inFlight, byInst, settled, armed, callback, fetchVars, workVars>>
  BY DEF Resume
<1>3. CASE key # Nil /\ enqueueLocked("JobResume", key, i)
  <2>1. submitted' \subseteq Instances
    BY <1>2 DEF JQInv, JQTypeOK, workVars
  <2> QED BY <1>1, <1>2, <1>3, <2>1, EnqueueKeepsInv DEF JobKind, workVars
<1>4. CASE UNCHANGED <<queues, nextJob, pc>>
  <2>1. JQTypeOK'
    BY <1>1, <1>2, <1>4 DEF JQInv, JQTypeOK, fetchVars, workVars
  <2>2. RedeliveryPending' /\ NoLostWakeup'
    BY <1>2, <1>4 DEF JQInv, RedeliveryPending, NoLostWakeup
  <2> QED BY <2>1, <2>2, <1>2, <1>4, IdleKeepsInv DEF queueVars
<1> QED
  BY <1>3, <1>4 DEF Resume

\* Close stops the redelivery timers of the jobs in flight.
LEMMA CloseKeepsInv ==
  ASSUME JQInv, CloseJobs
  PROVE  JQInv'
<1>1. QueueInv'
  BY DEF JQInv, QueueInv, Filed, IndexesAgree, CloseJobs
<1>2. JQTypeOK'
  BY Signalled DEF JQInv, JQTypeOK, CloseJobs, fetchVars, workVars
<1>3. RedeliveryPending' /\ NoLostWakeup'
  BY DEF RedeliveryPending, NoLostWakeup, CloseJobs
<1> QED BY <1>1, <1>2, <1>3 DEF JQInv
-----------------------------------------------------------------------------
(* The theorems. *)

\* The invariant holds initially.
LEMMA JQInitInv == JQInit => JQInv
<1> SUFFICES ASSUME JQInit PROVE JQInv
  OBVIOUS
<1>1. JQTypeOK
  <2>1. <<>> \in Seq(Job)
    BY EmptySeq
  <2>2. queues \in [QueueKeys -> Seq(Job)]
    BY <2>1 DEF JQInit
  <2>3. /\ orphans \in [Instances -> Nat]
        /\ nextJob \in Nat
    BY DEF JQInit
  <2>4. \A w \in Workers : pc[w] = "hand" <=> hand[w] # Nil
    BY DEF JQInit
  <2>5. /\ inFlight \subseteq Job /\ settled \subseteq Job /\ armed \subseteq Job
        /\ handed \subseteq Job /\ ctxDone \subseteq Workers /\ submitted \subseteq Instances
        /\ byInst \in [Instances -> SUBSET Job]
        /\ held \in [Workers -> SUBSET Job]
    BY DEF JQInit
  <2>6. /\ callback \in [Goroutines -> Job \cup {Nil}]
        /\ resumer \in [Goroutines -> Instances \cup {Nil}]
        /\ hand \in [Workers -> Job \cup {Nil}]
    BY DEF JQInit
  <2>7. /\ closed \in BOOLEAN
        /\ timers \in [Instances -> {"none", "armed", "fired"}]
        /\ pc \in [Workers -> {"off", "scan", "wait", "woken", "hand"}]
    BY DEF JQInit
  <2> QED BY <2>2, <2>3, <2>4, <2>5, <2>6, <2>7 DEF JQTypeOK
<1>2. QueueInv
  BY DEF JQInit, QueueInv, Filed, Elements, Distinct, IndexesAgree
<1>3. RedeliveryPending /\ NoLostWakeup
  BY DEF JQInit, RedeliveryPending, NoLostWakeup
<1> QED BY <1>1, <1>2, <1>3 DEF JQInv

\* A report is about a job, and takes it from its worker.
LEMMA HeldType ==
  ASSUME JQInv, NEW w \in Workers, NEW j \in held[w],
         held' = [held EXCEPT ![w] = @ \ {j}]
  PROVE  j \in Job /\ j.inst \in Instances /\ held' \in [Workers -> SUBSET Job]
<1>1. held \in [Workers -> SUBSET Job]
  BY DEF JQInv, JQTypeOK
<1>2. j \in Job
  BY <1>1
<1>3. j.inst \in Instances
  BY <1>2 DEF Job
<1>4. held' \in [Workers -> SUBSET Job]
  BY <1>1
<1> QED
  BY <1>2, <1>3, <1>4

\* Every step of the job queue keeps the invariant.
LEMMA JQStepInv == JQInv /\ [JQNext]_jqVars => JQInv'
<1> SUFFICES ASSUME JQInv, [JQNext]_jqVars PROVE JQInv'
  OBVIOUS
<1>1. ASSUME NEW key \in Keys, NEW i \in Instances, Start(key, i)
      PROVE  JQInv'
  <2>1. /\ key \in QueueKeys /\ "JobStart" \in JobKind
        /\ submitted' \subseteq Instances
        /\ timers' \in [Instances -> {"none", "armed", "fired"}]
        /\ orphans' \in [Instances -> Nat]
        /\ resumer' \in [Goroutines -> Instances \cup {Nil}]
    BY <1>1 DEF QueueKeys, JobKind, Start, resumeVars, JQInv, JQTypeOK
  <2> QED BY <2>1, <1>1, EnqueueKeepsInv DEF Start
<1>2. ASSUME NEW t \in Traffic, Enqueue(t[1], t[2], t[3])
      PROVE  JQInv'
  <2>1. t[1] \in JobKind /\ t[2] \in QueueKeys /\ t[3] \in Instances
    BY JobQueueAssumption DEF RequestKind, JobKind
  <2>2. /\ submitted' \subseteq Instances
        /\ timers' \in [Instances -> {"none", "armed", "fired"}]
        /\ orphans' \in [Instances -> Nat]
        /\ resumer' \in [Goroutines -> Instances \cup {Nil}]
    BY <1>2 DEF Enqueue, resumeVars, workVars, JQInv, JQTypeOK
  <2>3. /\ enqueueLocked(t[1], t[2], t[3])
        /\ UNCHANGED <<closed, inFlight, byInst, settled, armed, callback, fetchVars, held, handed>>
    BY <1>2 DEF Enqueue, workVars
  <2> QED BY <2>1, <2>2, <2>3, EnqueueKeepsInv
<1>3. ASSUME NEW key \in Keys, NEW i \in Instances, CancelQueued(key, i)
      PROVE  JQInv'
  BY <1>3, CancelKeepsInv
<1>4. ASSUME NEW w \in Workers, NEW j \in held[w], Finish(w, j)
      PROVE  JQInv'
  <2>1. j.inst \in Instances /\ held' \in [Workers -> SUBSET Job]
    BY <1>4, HeldType DEF Finish
  <2>2. timers' \in [Instances -> {"none", "armed", "fired"}]
    BY <2>1, <1>4 DEF Finish, stopTimer, JQInv, JQTypeOK
  <2> QED BY <2>1, <2>2, <1>4, SettleKeepsInv DEF Finish
<1>5. ASSUME NEW w \in Workers, NEW j \in held[w], NEW scheduled \in BOOLEAN,
             Suspend(w, j, scheduled)
      PROVE  JQInv'
  <2>1. j.inst \in Instances /\ held' \in [Workers -> SUBSET Job]
    BY <1>5, HeldType DEF Suspend
  <2>2. timers' \in [Instances -> {"none", "armed", "fired"}]
    BY <2>1, <1>5 DEF Suspend, JQInv, JQTypeOK
  <2> QED BY <2>1, <2>2, <1>5, SettleKeepsInv DEF Suspend
<1>6. CASE CloseJobs
  BY <1>6, CloseKeepsInv
<1>7. ASSUME NEW w \in Workers, FetchStep(w) PROVE JQInv'
  BY <1>7, FetchStepKeepsInv
<1>8. CASE TimerStep
  BY <1>8, TimerStepKeepsInv
<1>9. ASSUME NEW g \in Goroutines, NEW key \in QueueKeys \cup {Nil}, Resume(g, key)
      PROVE  JQInv'
  BY <1>9, ResumeKeepsInv
<1>10. CASE UNCHANGED jqVars
  <2>1. UNCHANGED <<queueVars, nextJob>> /\ JQTypeOK' /\ RedeliveryPending' /\ NoLostWakeup'
    BY <1>10 DEF jqVars, queueVars, resumeVars, fetchVars, workVars,
                 JQInv, JQTypeOK, RedeliveryPending, NoLostWakeup
  <2> QED BY <2>1, IdleKeepsInv
<1> QED
  BY <1>1, <1>2, <1>3, <1>4, <1>5, <1>6, <1>7, <1>8, <1>9, <1>10 DEF JQNext

\* The inductive invariant holds in every reachable state.
THEOREM JQInvariant == JQSpec => []JQInv
  BY JQInitInv, JQStepInv, PTL DEF JQSpec

\* The job queue is type correct.
THEOREM JQTypeCorrect == JQSpec => []JQTypeOK
<1>1. JQInv => JQTypeOK
  BY DEF JQInv
<1> QED BY <1>1, JQInvariant, PTL

\* A job is queued once under its own key, or in flight, or settled, whatever
\* races redelivery, abandoned hand-overs, Cancel and reports run.
THEOREM JobInOnePlace == JQSpec => []OnePlace
<1>1. JQInv => OnePlace
  BY QueueInvImpliesOnePlace DEF JQInv
<1> QED BY <1>1, JQInvariant, PTL

\* byInst always lists exactly the in-flight jobs of each instance.
THEOREM InFlightIndexed == JQSpec => []IndexesAgree
<1>1. JQInv => IndexesAgree
  BY DEF JQInv, QueueInv
<1> QED BY <1>1, JQInvariant, PTL

\* Every in-flight job of an open broker has a redelivery under way.
THEOREM RedeliveryAlwaysPending == JQSpec => []RedeliveryPending
<1>1. JQInv => RedeliveryPending
  BY DEF JQInv
<1> QED BY <1>1, JQInvariant, PTL

\* No fetcher waits on the notify channel while one of its queues has a job.
THEOREM WakeupsNeverLost == JQSpec => []NoLostWakeup
<1>1. JQInv => NoLostWakeup
  BY DEF JQInv
<1> QED BY <1>1, JQInvariant, PTL
=============================================================================
