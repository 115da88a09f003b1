------------------------- MODULE Controller_proofs -------------------------
(***************************************************************************)
(* Proofs about Controller for every number of workers and keys: the       *)
(* workqueue's dedup keeps a key from being reconciled by two workers at   *)
(* once (NoConcurrentReconcile), and a key Added since it was last taken   *)
(* is never left unscheduled (WantScheduled).                              *)
(***************************************************************************)
EXTENDS Controller, SequenceTheorems, TLAPS

USE ControllerAssumption DEF ControllerAssumption

\* The workers in the middle of a reconcile.
Busy == {w \in Workers : wpc[w] = "rec"}

InQueue(k) == \E i \in 1..Len(queue) : queue[i] = k

(* The invariants of the workqueue the controller relies on.              *)
\* No key is in the queue slice twice.
QueueDistinct == \A i, j \in 1..Len(queue) : i # j => queue[i] # queue[j]

\* A queued key is dirty and not being processed.
QueuedDirty == \A i \in 1..Len(queue) : queue[i] \in dirty /\ queue[i] \notin processing

\* A dirty key is queued or being processed.
DirtyScheduled == \A k \in dirty : InQueue(k) \/ k \in processing

\* An Added key stays dirty until a worker takes it.
WantDirty == want \subseteq dirty

QInv == QueueDistinct /\ QueuedDirty /\ DirtyScheduled /\ WantDirty

(* The processing set is the set of keys the busy workers hold.           *)
WInv == /\ \A w \in Busy : witem[w] \in Keys
        /\ processing = {witem[w] : w \in Busy}
        /\ NoConcurrentReconcile

IInv == TypeOK /\ QInv /\ WInv

-----------------------------------------------------------------------------
(* Queue.Add preserves the queue invariants.                               *)
LEMMA AddPreserves ==
    ASSUME TypeOK, QInv, NEW k \in Keys, Add(k), processing' = processing
    PROVE  QInv' /\ queue' \in Seq(Keys)
<1>1. CASE k \in dirty \cup processing
  <2>1. queue' = queue /\ dirty' = dirty \cup {k} /\ want' = want \cup {k}
    BY <1>1 DEF Add
  <2>2. DirtyScheduled'
    BY <1>1, <2>1 DEF DirtyScheduled, QInv, InQueue
  <2>3. QED
    BY <2>1, <2>2 DEF QInv, QueueDistinct, QueuedDirty, WantDirty, TypeOK
<1>2. CASE k \notin dirty \cup processing
  <2>1. queue' = Append(queue, k) /\ dirty' = dirty \cup {k} /\ want' = want \cup {k}
    BY <1>2 DEF Add
  <2>2. /\ queue' \in Seq(Keys)
        /\ Len(queue') = Len(queue) + 1
        /\ \A i \in 1..Len(queue) : queue'[i] = queue[i]
        /\ queue'[Len(queue) + 1] = k
    BY <2>1, AppendProperties DEF TypeOK
  <2>3. \A i \in 1..Len(queue) : queue[i] # k
    BY <1>2 DEF QInv, QueuedDirty
  <2>4. QueueDistinct'
    <3>1. SUFFICES ASSUME NEW i \in 1..Len(queue'), NEW j \in 1..Len(queue'), i # j
                   PROVE queue'[i] # queue'[j]
      BY DEF QueueDistinct
    <3>2. CASE i \in 1..Len(queue) /\ j \in 1..Len(queue)
      BY <2>2, <3>1, <3>2 DEF QInv, QueueDistinct
    <3>3. CASE i = Len(queue) + 1 /\ j \in 1..Len(queue)
      BY <2>2, <2>3, <3>3
    <3>4. CASE j = Len(queue) + 1 /\ i \in 1..Len(queue)
      BY <2>2, <2>3, <3>4
    <3>5. QED
      BY <2>2, <3>1, <3>2, <3>3, <3>4 DEF TypeOK
  <2>5. QueuedDirty'
    BY <1>2, <2>1, <2>2 DEF QInv, QueuedDirty, TypeOK
  <2>6. DirtyScheduled'
    <3>1. InQueue(k)'
      <4>1. Len(queue) + 1 \in 1..Len(queue')
        BY <2>2 DEF TypeOK
      <4>2. QED BY <2>2, <4>1 DEF InQueue
    <3>2. ASSUME NEW j \in dirty, InQueue(j) PROVE InQueue(j)'
      <4>1. PICK i \in 1..Len(queue) : queue[i] = j
        BY <3>2 DEF InQueue
      <4>2. i \in 1..Len(queue') /\ queue'[i] = j
        BY <2>2, <4>1 DEF TypeOK
      <4>3. QED BY <4>2 DEF InQueue
    <3>3. QED
      BY <2>1, <3>1, <3>2 DEF QInv, DirtyScheduled
  <2>7. QED
    BY <2>1, <2>2, <2>4, <2>5, <2>6 DEF QInv, WantDirty
<1>3. QED
  BY <1>1, <1>2

\* Appending a key the slice does not hold keeps its keys distinct.
LEMMA AppendDistinct ==
    ASSUME NEW S, NEW q \in Seq(S), NEW k \in S,
           \A i, j \in 1..Len(q) : i # j => q[i] # q[j],
           \A i \in 1..Len(q) : q[i] # k
    PROVE  \A i, j \in 1..Len(Append(q, k)) :
               i # j => Append(q, k)[i] # Append(q, k)[j]
<1>1. /\ Len(Append(q, k)) = Len(q) + 1
      /\ \A i \in 1..Len(q) : Append(q, k)[i] = q[i]
      /\ Append(q, k)[Len(q) + 1] = k
  BY AppendProperties
<1>2. QED
  BY <1>1

(* Queue.Done of a key in processing preserves the queue invariants.      *)
LEMMA DonePreserves ==
    ASSUME TypeOK, QInv, NEW k \in processing, Done(k),
           dirty' = dirty, want' = want
    PROVE  QInv' /\ queue' \in Seq(Keys)
<1>1. \A i \in 1..Len(queue) : queue[i] # k
  BY DEF QInv, QueuedDirty
<1>2. CASE k \notin dirty
  <2>1. queue' = queue /\ processing' = processing \ {k}
    BY <1>2 DEF Done
  <2>2. DirtyScheduled'
    BY <1>2, <2>1 DEF QInv, DirtyScheduled, InQueue
  <2>3. QED
    BY <2>1, <2>2 DEF QInv, QueueDistinct, QueuedDirty, WantDirty, TypeOK
<1>3. CASE k \in dirty
  <2>1. queue' = Append(queue, k) /\ processing' = processing \ {k}
    BY <1>3 DEF Done
  <2>2. /\ queue' \in Seq(Keys)
        /\ Len(queue') = Len(queue) + 1
        /\ \A i \in 1..Len(queue) : queue'[i] = queue[i]
        /\ queue'[Len(queue) + 1] = k
    BY <2>1, AppendProperties DEF TypeOK
  <2>3. QueueDistinct'
    BY <1>1, <2>1, AppendDistinct DEF QInv, QueueDistinct, TypeOK
  <2>4. QueuedDirty'
    BY <1>3, <2>1, <2>2 DEF QInv, QueuedDirty, TypeOK
  <2>5. DirtyScheduled'
    <3>1. InQueue(k)'
      <4>1. Len(queue) + 1 \in 1..Len(queue')
        BY <2>2 DEF TypeOK
      <4>2. QED BY <2>2, <4>1 DEF InQueue
    <3>2. ASSUME NEW j \in dirty, InQueue(j) PROVE InQueue(j)'
      <4>1. PICK i \in 1..Len(queue) : queue[i] = j
        BY <3>2 DEF InQueue
      <4>2. i \in 1..Len(queue') /\ queue'[i] = j
        BY <2>2, <4>1 DEF TypeOK
      <4>3. QED BY <4>2 DEF InQueue
    <3>3. QED
      BY <2>1, <3>1, <3>2 DEF QInv, DirtyScheduled
  <2>6. QED
    BY <2>2, <2>3, <2>4, <2>5 DEF QInv, WantDirty
<1>4. QED
  BY <1>2, <1>3

(* Queue.Get by an idle worker preserves every invariant: the head is not  *)
(* in processing, so the worker takes a key no other worker holds.        *)
LEMMA GetPreserves ==
    ASSUME IInv, NEW w \in Workers, Get(w)
    PROVE  IInv'
<1> DEFINE k == Head(queue)
<1>1. /\ queue # <<>> /\ wpc[w] = "get"
      /\ queue' = Tail(queue)
      /\ processing' = processing \cup {k}
      /\ dirty' = dirty \ {k} /\ want' = want \ {k}
      /\ wpc' = [wpc EXCEPT ![w] = "rec"] /\ witem' = [witem EXCEPT ![w] = k]
      /\ UNCHANGED <<started, pendingW, activeW, inbox, sent, waiting, retries,
                     alive>>
  BY DEF Get
<1>2. /\ k \in Keys /\ k = queue[1] /\ Len(queue) >= 1
      /\ queue' \in Seq(Keys)
      /\ Len(queue') = Len(queue) - 1
      /\ \A i \in 1..Len(queue') : queue'[i] = queue[i + 1]
  BY <1>1, HeadTailProperties DEF IInv, TypeOK
<1>3. k \in dirty /\ k \notin processing
  BY <1>2 DEF IInv, QInv, QueuedDirty
<1>4. \A i \in 1..Len(queue') : queue'[i] # k
  BY <1>2 DEF IInv, QInv, QueueDistinct
<1>5. QInv'
  <2>1. QueueDistinct'
    BY <1>2 DEF IInv, QInv, QueueDistinct
  <2>2. QueuedDirty'
    BY <1>1, <1>2, <1>4 DEF IInv, QInv, QueuedDirty
  <2>3. DirtyScheduled'
    <3>1. SUFFICES ASSUME NEW j \in dirty', j \notin processing' PROVE InQueue(j)'
      BY DEF DirtyScheduled
    <3>2. j \in dirty /\ j # k /\ j \notin processing
      BY <1>1, <3>1
    <3>3. PICK i \in 1..Len(queue) : queue[i] = j
      BY <3>2 DEF IInv, QInv, DirtyScheduled, InQueue
    <3>4. i # 1 /\ i - 1 \in 1..Len(queue') /\ queue'[i - 1] = j
      BY <1>2, <3>2, <3>3
    <3>5. QED BY <3>4 DEF InQueue
  <2>4. WantDirty'
    BY <1>1 DEF IInv, QInv, WantDirty
  <2>5. QED BY <2>1, <2>2, <2>3, <2>4 DEF QInv
<1>6. Busy' = Busy \cup {w} /\ w \notin Busy
  BY <1>1 DEF Busy, IInv, TypeOK
<1>7. WInv'
  <2>1. \A v \in Busy' : witem'[v] \in Keys
    BY <1>1, <1>2, <1>6 DEF IInv, WInv, TypeOK
  <2>2. processing' = {witem'[v] : v \in Busy'}
    BY <1>1, <1>6 DEF IInv, WInv, TypeOK
  <2>3. NoConcurrentReconcile'
    <3>1. \A v \in Busy : witem[v] # k
      BY <1>3 DEF IInv, WInv
    <3>2. QED
      BY <1>1, <1>6, <3>1 DEF IInv, WInv, NoConcurrentReconcile, Busy, TypeOK
  <2>4. QED BY <2>1, <2>2, <2>3 DEF WInv
<1>8. TypeOK'
  BY <1>1, <1>2 DEF IInv, TypeOK
<1>9. QED
  BY <1>5, <1>7, <1>8 DEF IInv

(* A worker finishing its reconcile hands back the only copy of its key.  *)
LEMMA ReconcileEndPreserves ==
    ASSUME IInv, NEW w \in Workers, NEW o \in Outcomes, ReconcileEnd(w, o)
    PROVE  IInv'
<1> DEFINE k == witem[w]
<1>1. /\ wpc[w] = "rec" /\ Done(k)
      /\ Requeues(o) => retries < MaxRetry
      /\ retries' = IF Requeues(o) THEN retries + 1 ELSE retries
      /\ waiting' = IF Requeues(o) THEN waiting \cup {k} ELSE waiting
      /\ wpc' = [wpc EXCEPT ![w] = "get"] /\ witem' = [witem EXCEPT ![w] = NoKey]
      /\ UNCHANGED <<started, pendingW, activeW, inbox, sent, dirty, alive, want>>
  BY DEF ReconcileEnd
<1>2. w \in Busy /\ k \in Keys /\ k \in processing
  BY <1>1 DEF Busy, IInv, WInv
<1>3. QInv' /\ queue' \in Seq(Keys)
  BY <1>1, <1>2, DonePreserves DEF IInv
<1>4. processing' = processing \ {k}
  BY <1>1 DEF Done
<1>5. Busy' = Busy \ {w}
  BY <1>1 DEF Busy, IInv, TypeOK
<1>6. \A v \in Busy \ {w} : witem[v] # k
  BY <1>2 DEF IInv, WInv, NoConcurrentReconcile, Busy
<1>7. WInv'
  <2>1. \A v \in Busy' : witem'[v] \in Keys
    BY <1>1, <1>5 DEF IInv, WInv, TypeOK
  <2>2. processing' = {witem'[v] : v \in Busy'}
    BY <1>1, <1>4, <1>5, <1>6 DEF IInv, WInv, TypeOK
  <2>3. NoConcurrentReconcile'
    BY <1>1, <1>5 DEF IInv, WInv, NoConcurrentReconcile, Busy, TypeOK
  <2>4. QED BY <2>1, <2>2, <2>3 DEF WInv
<1>8. TypeOK'
  BY <1>1, <1>2, <1>3, <1>4 DEF IInv, TypeOK
<1>9. QED
  BY <1>3, <1>7, <1>8 DEF IInv

(* An action that Adds a key and leaves the workers alone.                *)
LEMMA AddActionPreserves ==
    ASSUME IInv, NEW k \in Keys, Add(k),
           UNCHANGED <<processing, wpc, witem>>, TypeOK'
    PROVE  IInv'
<1>1. QInv'
  BY AddPreserves DEF IInv
<1>2. WInv'
  BY DEF IInv, WInv, Busy, NoConcurrentReconcile
<1>3. QED
  BY <1>1, <1>2 DEF IInv

(* A step that leaves the workqueue and the workers alone keeps QInv and  *)
(* WInv, which depend on nothing else.                                      *)
LEMMA FramePreserves ==
    ASSUME IInv, UNCHANGED <<queue, dirty, processing, want, wpc, witem>>, TypeOK'
    PROVE  IInv'
<1>1. QInv'
  <2>1. QueueDistinct' /\ QueuedDirty' /\ WantDirty'
    BY DEF IInv, QInv, QueueDistinct, QueuedDirty, WantDirty
  <2>2. DirtyScheduled'
    BY DEF IInv, QInv, DirtyScheduled, InQueue
  <2>3. QED BY <2>1, <2>2 DEF QInv
<1>2. WInv'
  BY DEF IInv, WInv, Busy, NoConcurrentReconcile
<1>3. QED
  BY <1>1, <1>2 DEF IInv

-----------------------------------------------------------------------------
(* Every step of the controller preserves the inductive invariant.         *)
LEMMA IInvStep == IInv /\ [Next]_vars => IInv'
<1> SUFFICES ASSUME IInv, [Next]_vars PROVE IInv'
  OBVIOUS
<1>1. ASSUME NEW d \in Watches, Watch(d) PROVE IInv'
  <2>1. TypeOK'
    BY <1>1 DEF Watch, IInv, TypeOK, qVars
  <2>2. QED BY <1>1, <2>1, FramePreserves DEF Watch, qVars
<1>2. CASE Start
  <2>1. TypeOK'
    BY <1>2 DEF Start, IInv, TypeOK, qVars
  <2>2. QED BY <1>2, <2>1, FramePreserves DEF Start, qVars
<1>3. ASSUME NEW e \in Events, StoreEvent(e) PROVE IInv'
  <2>1. TypeOK'
    BY <1>3, AppendProperties DEF StoreEvent, IInv, TypeOK, qVars
  <2>2. QED BY <1>3, <2>1, FramePreserves DEF StoreEvent, qVars
<1>4. CASE SourceRecv
  <2>1. /\ inbox # <<>> /\ inbox' = Tail(inbox)
        /\ Head(inbox) \in Events /\ Tail(inbox) \in Seq(Events)
    BY <1>4, HeadTailProperties DEF SourceRecv, IInv, TypeOK
  <2>2. TypeOK' => IInv'
    <3>1. CASE Add(Head(inbox).key)
      BY <1>4, <2>1, <3>1, AddActionPreserves DEF SourceRecv, Events
    <3>2. CASE UNCHANGED <<queue, dirty, want>>
      BY <1>4, <3>2, FramePreserves DEF SourceRecv
    <3>3. QED BY <1>4, <3>1, <3>2 DEF SourceRecv
  <2>3. TypeOK'
    <3>1. CASE Add(Head(inbox).key)
      BY <1>4, <2>1, <3>1, AddPreserves DEF SourceRecv, Events, IInv, TypeOK, Add
    <3>2. CASE UNCHANGED <<queue, dirty, want>>
      BY <1>4, <2>1, <3>2 DEF SourceRecv, IInv, TypeOK
    <3>3. QED BY <1>4, <3>1, <3>2 DEF SourceRecv
  <2>4. QED BY <2>2, <2>3
<1>5. CASE TimerTick
  <2>1. TypeOK'
    BY <1>5, AddPreserves DEF TimerTick, IInv, TypeOK, Add
  <2>2. QED
    BY <1>5, <2>1, AddActionPreserves DEF TimerTick
<1>6. ASSUME NEW k \in Keys, WaitingReady(k) PROVE IInv'
  <2>1. TypeOK'
    BY <1>6, AddPreserves DEF WaitingReady, IInv, TypeOK, Add
  <2>2. QED
    BY <1>6, <2>1, AddActionPreserves DEF WaitingReady
<1>7. ASSUME NEW w \in Workers, Get(w) PROVE IInv'
  BY <1>7, GetPreserves
<1>8. ASSUME NEW w \in Workers, ReconcilePanic(w) PROVE IInv'
  <2>1. TypeOK'
    BY <1>8 DEF ReconcilePanic, IInv, TypeOK, qVars
  <2>2. QED BY <1>8, <2>1, FramePreserves DEF ReconcilePanic, qVars
<1>9. ASSUME NEW w \in Workers, NEW o \in Outcomes, ReconcileEnd(w, o) PROVE IInv'
  BY <1>9, ReconcileEndPreserves
<1>10. CASE UNCHANGED vars
  <2>1. TypeOK'
    BY <1>10 DEF vars, IInv, TypeOK
  <2>2. QED BY <1>10, <2>1, FramePreserves DEF vars
<1>11. QED
  BY <1>1, <1>2, <1>3, <1>4, <1>5, <1>6, <1>7, <1>8, <1>9, <1>10 DEF Next

LEMMA InitIInv == Init => IInv
<1> SUFFICES ASSUME Init PROVE IInv
  OBVIOUS
<1>1. TypeOK
  <2>1. inbox \in Seq(Events) /\ queue \in Seq(Keys)
    BY EmptySeq DEF Init
  <2>2. wpc \in [Workers -> {"get", "rec"}] /\ witem \in [Workers -> Keys \cup {NoKey}]
    BY DEF Init
  <2>3. sent \in 0..MaxEvents /\ retries \in 0..MaxRetry
    BY DEF Init
  <2>4. QED
    BY <2>1, <2>2, <2>3 DEF Init, TypeOK
<1>2. QInv
  BY DEF Init, QInv, QueueDistinct, QueuedDirty, DirtyScheduled, WantDirty
<1>3. Busy = {}
  BY DEF Init, Busy
<1>4. WInv
  BY <1>3 DEF Init, WInv, NoConcurrentReconcile, Busy
<1>5. QED
  BY <1>1, <1>2, <1>4 DEF IInv

LEMMA IInvWantScheduled == IInv => WantScheduled
BY DEF IInv, QInv, WantDirty, DirtyScheduled, InQueue, WantScheduled

-----------------------------------------------------------------------------
(* Type correctness of the controller: queue, sets, workers and the inbox *)
(* keep their shapes under every interleaving of sources and workers.     *)
THEOREM ControllerTypeCorrect == Spec => []TypeOK
<1>1. IInv => TypeOK
  BY DEF IInv
<1>2. QED
  BY <1>1, InitIInv, IInvStep, PTL DEF Spec

(* Spec 5: with any number of workers and keys, the workqueue's processing *)
(* set keeps two workers from reconciling one key at the same time         *)
(* (processNextWorkItem's Get and deferred Done, controller.go:170-186).   *)
THEOREM NoConcurrentReconcileHolds == Spec => []NoConcurrentReconcile
<1>1. IInv => NoConcurrentReconcile
  BY DEF IInv, WInv
<1>2. QED
  BY <1>1, InitIInv, IInvStep, PTL DEF Spec

(* No lost wakeup: a key Added by a Source, the timer or a requeue since a *)
(* worker last took it is queued, or is being processed and dirty so that  *)
(* the deferred Done queues it again.                                      *)
THEOREM WantScheduledHolds == Spec => []WantScheduled
BY IInvWantScheduled, InitIInv, IInvStep, PTL DEF Spec

-----------------------------------------------------------------------------
(* Refinement: the workqueue and the workers implement ReconcileScheduler  *)
(* under pending <- dirty and running <- Running.                          *)

\* An Add is an abstract Request, or leaves dirty alone if the key was dirty.
LEMMA AddRefines ==
    ASSUME NEW k \in Keys, Add(k), UNCHANGED <<wpc, witem>>
    PROVE  [Sched!Next]_Sched!vars
<1>1. Running' = Running
  BY DEF Running
<1>2. Sched!Request(k)
  BY <1>1 DEF Add, Sched!Request
<1>3. QED
  BY <1>2 DEF Sched!Next

\* A step that leaves dirty and the workers alone is an abstract stutter.
LEMMA FrameRefines ==
    ASSUME UNCHANGED <<dirty, wpc, witem>>
    PROVE  [Sched!Next]_Sched!vars
BY DEF Running, Sched!vars

\* Get takes the head of the queue: it is dirty, and no busy worker holds it.
LEMMA GetRefines ==
    ASSUME IInv, NEW w \in Workers, Get(w)
    PROVE  Sched!Take(w, Head(queue))
<1> DEFINE h == Head(queue)
<1>1. Len(queue) > 0 /\ h = queue[1] /\ h \in Keys
  BY DEF Get, IInv, TypeOK
<1>2. h \in dirty /\ h \notin processing
  BY <1>1 DEF IInv, QInv, QueuedDirty
<1>3. Running[w] = NoKey
  BY DEF Get, Running
<1>4. \A x \in Workers : Running[x] # h
  <2> SUFFICES ASSUME NEW x \in Workers, wpc[x] = "rec" PROVE witem[x] # h
    BY <1>1 DEF Running, ControllerAssumption
  <2>1. witem[x] \in processing
    BY DEF IInv, WInv, Busy
  <2>2. QED BY <1>2, <2>1
<1>5. Running' = [Running EXCEPT ![w] = h]
  BY DEF Get, Running, IInv, TypeOK
<1>6. QED
  BY <1>2, <1>3, <1>4, <1>5 DEF Get, Sched!Take

\* A reconcile that ends is an abstract Finish of its worker.
LEMMA ReconcileEndRefines ==
    ASSUME IInv, NEW w \in Workers, NEW o \in Outcomes, ReconcileEnd(w, o)
    PROVE  Sched!Finish(w)
<1>1. wpc[w] = "rec" /\ witem[w] \in Keys
  BY DEF ReconcileEnd, IInv, WInv, Busy
<1>2. Running[w] # NoKey
  BY <1>1 DEF Running, ControllerAssumption
<1>3. Running' = [Running EXCEPT ![w] = NoKey]
  BY DEF ReconcileEnd, Running, IInv, TypeOK
<1>4. QED
  BY <1>2, <1>3 DEF ReconcileEnd, Sched!Finish

\* Each step of the controller is a step of the scheduler or a stutter.
LEMMA StepRefines == IInv /\ [Next]_vars => [Sched!Next]_Sched!vars
<1> SUFFICES ASSUME IInv, [Next]_vars PROVE [Sched!Next]_Sched!vars
  OBVIOUS
<1>1. ASSUME NEW d \in Watches, Watch(d) PROVE [Sched!Next]_Sched!vars
  BY <1>1, FrameRefines DEF Watch, qVars
<1>2. CASE Start
  BY <1>2, FrameRefines DEF Start, qVars
<1>3. ASSUME NEW e \in Events, StoreEvent(e) PROVE [Sched!Next]_Sched!vars
  BY <1>3, FrameRefines DEF StoreEvent, qVars
<1>4. CASE SourceRecv
  <2>1. Head(inbox).key \in Keys
    <3>1. inbox # <<>> /\ inbox \in Seq(Events)
      BY <1>4 DEF SourceRecv, IInv, TypeOK
    <3>2. Head(inbox) \in Events
      BY <3>1, HeadTailProperties
    <3>3. QED BY <3>2 DEF Events
  <2>2. CASE Add(Head(inbox).key)
    BY <1>4, <2>1, <2>2, AddRefines DEF SourceRecv
  <2>3. CASE UNCHANGED <<queue, dirty, want>>
    BY <1>4, <2>3, FrameRefines DEF SourceRecv
  <2>4. QED BY <1>4, <2>2, <2>3 DEF SourceRecv
<1>5. CASE TimerTick
  BY <1>5, AddRefines DEF TimerTick, ControllerAssumption
<1>6. ASSUME NEW k \in Keys, WaitingReady(k) PROVE [Sched!Next]_Sched!vars
  BY <1>6, AddRefines DEF WaitingReady
<1>7. ASSUME NEW w \in Workers, Get(w) PROVE [Sched!Next]_Sched!vars
  <2>1. Head(queue) \in Keys
    BY <1>7 DEF Get, IInv, TypeOK
  <2>2. QED BY <1>7, <2>1, GetRefines DEF Sched!Next
<1>8. ASSUME NEW w \in Workers, ReconcilePanic(w) PROVE [Sched!Next]_Sched!vars
  BY <1>8, FrameRefines DEF ReconcilePanic, qVars
<1>9. ASSUME NEW w \in Workers, NEW o \in Outcomes, ReconcileEnd(w, o)
      PROVE [Sched!Next]_Sched!vars
  BY <1>9, ReconcileEndRefines DEF Sched!Next
<1>10. CASE UNCHANGED vars
  BY <1>10, FrameRefines DEF vars
<1>11. QED
  BY <1>1, <1>2, <1>3, <1>4, <1>5, <1>6, <1>7, <1>8, <1>9, <1>10 DEF Next

(* For any workers and keys the controller implements ReconcileScheduler: *)
(* a worker's Get takes only a key requested since it was last taken and  *)
(* held by no other worker, and no request is dropped except by that take *)
(* (workqueue Add/Get/Done, processNextWorkItem, reconcileHandler).        *)
THEOREM ImplementsSchedulerHolds == Spec => ImplementsScheduler
<1>1. Init => Sched!Init
  BY DEF Init, Sched!Init, Running
<1>2. QED
  BY <1>1, InitIInv, IInvStep, StepRefines, PTL
  DEF Spec, ImplementsScheduler, Sched!Spec

=============================================================================
