--------------------------- MODULE TaskHub_proofs ---------------------------
(***************************************************************************)
(* Proofs about TaskHub for every value of its constants: type             *)
(* correctness, at-least-once handling of ackLate tasks, and that a        *)
(* message is redelivered only after a crash.                              *)
(***************************************************************************)
EXTENDS TaskHub, TLAPS

USE HubAssumption DEF HubAssumption

(* The shape of a topic's subscriber and worker.  A subscriber holding a   *)
(* transaction delivers the message after offset_acked; a running worker  *)
(* handles an emitted message; a worker of an early-acking task still      *)
(* running after the commit handles the message just acked.               *)
Shape ==
    \A t \in Tasks :
        /\ acked[t] <= emitted[t]
        /\ sub[t] # "idle" => cur[t] = acked[t] + 1 /\ cur[t] <= emitted[t]
        /\ wk[t] = "run" => cur[t] \in 1..emitted[t]
        /\ (wk[t] = "run" /\ sub[t] = "idle") => cur[t] = acked[t]

(* An ackLate topic: the subscriber waits for the Ack while the worker     *)
(* runs, acks only a message whose run finished, and every offset up to   *)
(* offset_acked was handled.                                               *)
LateShape ==
    \A t \in AckLateTasks :
        /\ wk[t] = "run" => sub[t] = "waitAck"
        /\ sub[t] = "acking" => cur[t] \in done[t]
        /\ \A i \in 1..acked[t] : i \in done[t]

(* Deliveries per offset: none past the next message; the next message was *)
(* delivered once per crash that rolled its transaction back, plus the     *)
(* open delivery; an acked message at most 1 + crashes times.             *)
RunsBound ==
    \A t \in Tasks : \A i \in Offsets :
        /\ i > acked[t] + 1 => runs[t][i] = 0
        /\ i = acked[t] + 1 =>
               runs[t][i] + (IF sub[t] = "idle" THEN 1 ELSE 0) <= 1 + crashes
        /\ i <= acked[t] => runs[t][i] <= 1 + crashes

\* The inductive invariant.
IInv == TypeOK /\ Shape /\ LateShape /\ RunsBound

-----------------------------------------------------------------------------
(* Lemmas.                                                                 *)

\* Shape, LateShape and RunsBound read only the topics and the ghosts: a
\* step of Register or RunForever keeps them.
LEMMA TopicsUnchanged ==
    ASSUME Shape, LateShape, RunsBound, UNCHANGED <<msgVars, ghostVars>>
    PROVE  Shape' /\ LateShape' /\ RunsBound'
BY DEF Shape, LateShape, RunsBound, msgVars, ghostVars

LEMMA InitIInv == Init => IInv
<1> SUFFICES ASSUME Init PROVE IInv
  OBVIOUS
<1>1. TypeOK
  <2>1. /\ registry \subseteq Tasks /\ running \in BOOLEAN
        /\ regpc \in [RegCalls -> {"idle", "checked", "done", "rejected", "dup"}]
        /\ hubpc \in {"init", "iter", "serve"}
        /\ snapshot \subseteq Tasks /\ subscribed \subseteq Tasks
    BY DEF Init, Fresh
  <2>2. /\ emitted \in [Tasks -> 0..MaxEmit] /\ acked \in [Tasks -> 0..MaxEmit]
        /\ cur \in [Tasks -> 0..MaxEmit]
    BY DEF Init, Fresh
  <2>3. /\ sub \in [Tasks -> {"idle", "waitAck", "acking"}]
        /\ wk \in [Tasks -> {"recv", "run"}]
    BY DEF Init, Fresh
  <2>4. /\ runs \in [Tasks -> [Offsets -> Nat]]
        /\ done \in [Tasks -> SUBSET Offsets]
        /\ clean \in [Tasks -> SUBSET Offsets]
        /\ crashes \in 0..MaxCrash
    BY DEF Init
  <2>5. QED
    BY <2>1, <2>2, <2>3, <2>4 DEF TypeOK
<1>2. Shape
  BY DEF Init, Fresh, Shape
<1>3. LateShape
  BY DEF Init, Fresh, LateShape
<1>4. RunsBound
  BY DEF Init, Fresh, RunsBound
<1>5. QED
  BY <1>1, <1>2, <1>3, <1>4 DEF IInv

(* Every step keeps the inductive invariant: the Register and RunForever   *)
(* steps leave the topics alone, and each topic step is checked on the     *)
(* conjuncts it can disturb.                                               *)
LEMMA NextIInv == IInv /\ [Next]_vars => IInv'
<1> SUFFICES ASSUME TypeOK, Shape, LateShape, RunsBound, [Next]_vars
             PROVE  IInv'
  BY DEF IInv
<1>1. ASSUME NEW r \in RegCalls, RegCheck(r) PROVE IInv'
  <2>1. TypeOK'
    BY <1>1 DEF RegCheck, TypeOK, msgVars, ghostVars
  <2>2. QED BY <1>1, <2>1, TopicsUnchanged DEF RegCheck, IInv
<1>2. ASSUME NEW r \in RegCalls, RegInsert(r) PROVE IInv'
  <2>1. TypeOK'
    BY <1>2 DEF RegInsert, TypeOK, msgVars, ghostVars
  <2>2. QED BY <1>2, <2>1, TopicsUnchanged DEF RegInsert, IInv
<1>3. CASE RunStart
  <2>1. TypeOK'
    BY <1>3 DEF RunStart, TypeOK, msgVars, ghostVars
  <2>2. QED BY <1>3, <2>1, TopicsUnchanged DEF RunStart, IInv
<1>4. CASE RunIterEnd
  <2>1. TypeOK'
    BY <1>4 DEF RunIterEnd, TypeOK, msgVars, ghostVars
  <2>2. QED BY <1>4, <2>1, TopicsUnchanged DEF RunIterEnd, IInv
<1>5. ASSUME NEW t \in Tasks, RunSubscribe(t) PROVE IInv'
  <2>1. TypeOK'
    BY <1>5 DEF RunSubscribe, TypeOK, msgVars, ghostVars
  <2>2. QED BY <1>5, <2>1, TopicsUnchanged DEF RunSubscribe, IInv
<1>6. ASSUME NEW t \in Tasks, Emit(t) PROVE IInv'
  <2>1. TypeOK'
    BY <1>6 DEF Emit, TypeOK, hubVars, ghostVars
  <2>2. Shape'
    BY <1>6 DEF Emit, Shape, TypeOK, ghostVars
  <2>3. LateShape'
    BY <1>6 DEF Emit, LateShape, ghostVars
  <2>4. RunsBound'
    BY <1>6 DEF Emit, RunsBound, ghostVars
  <2>5. QED BY <2>1, <2>2, <2>3, <2>4 DEF IInv
<1>7. ASSUME NEW t \in Tasks, Deliver(t) PROVE IInv'
  <2>0. NextOffset(t) \in Offsets /\ NextOffset(t) <= MaxEmit
    BY <1>7 DEF Deliver, TypeOK, NextOffset, Offsets
  <2>1. TypeOK'
    <3>1. cur' \in [Tasks -> 0..MaxEmit]
      BY <1>7, <2>0 DEF Deliver, TypeOK, Offsets
    <3>2. runs' \in [Tasks -> [Offsets -> Nat]]
      BY <1>7, <2>0 DEF Deliver, TypeOK
    <3>3. /\ sub' \in [Tasks -> {"idle", "waitAck", "acking"}]
          /\ wk' \in [Tasks -> {"recv", "run"}]
      BY <1>7 DEF Deliver, TypeOK
    <3>4. QED
      BY <1>7, <3>1, <3>2, <3>3 DEF Deliver, TypeOK, hubVars
  <2>2. Shape'
    BY <1>7 DEF Deliver, Shape, TypeOK, NextOffset
  <2>3. LateShape'
    BY <1>7 DEF Deliver, LateShape, TypeOK
  <2>4. RunsBound'
    <3> SUFFICES ASSUME NEW u \in Tasks, NEW i \in Offsets
                 PROVE  /\ i > acked'[u] + 1 => runs'[u][i] = 0
                        /\ i = acked'[u] + 1 =>
                              runs'[u][i] + (IF sub'[u] = "idle" THEN 1 ELSE 0)
                                <= 1 + crashes'
                        /\ i <= acked'[u] => runs'[u][i] <= 1 + crashes'
      BY DEF RunsBound
    <3>1. CASE u = t /\ i = NextOffset(t)
      BY <1>7, <3>1, <2>0 DEF Deliver, RunsBound, TypeOK, NextOffset, Offsets
    <3>2. CASE ~(u = t /\ i = NextOffset(t))
      <4>1. runs'[u][i] = runs[u][i]
        BY <1>7, <3>2, <2>0 DEF Deliver, TypeOK
      <4>2. u = t => i # acked[t] + 1
        BY <3>2 DEF NextOffset
      <4>3. sub'[u] # "idle" => u = t \/ sub[u] # "idle"
        BY <1>7 DEF Deliver, TypeOK
      <4>4. QED
        BY <1>7, <4>1, <4>2, <4>3 DEF Deliver, RunsBound, TypeOK
    <3>3. QED BY <3>1, <3>2
  <2>5. QED BY <2>1, <2>2, <2>3, <2>4 DEF IInv
<1>8. ASSUME NEW t \in Tasks, NEW o \in Outcomes, HandlerEnd(t, o) PROVE IInv'
  <2>1. TypeOK'
    <3>1. cur[t] \in Offsets
      BY <1>8 DEF HandlerEnd, Shape, TypeOK, Offsets
    <3>2. /\ done' \in [Tasks -> SUBSET Offsets]
          /\ clean' \in [Tasks -> SUBSET Offsets]
      BY <1>8, <3>1 DEF HandlerEnd, TypeOK
    <3>3. /\ sub' \in [Tasks -> {"idle", "waitAck", "acking"}]
          /\ wk' \in [Tasks -> {"recv", "run"}]
      BY <1>8 DEF HandlerEnd, TypeOK
    <3>4. QED
      BY <1>8, <3>2, <3>3 DEF HandlerEnd, TypeOK, hubVars
  <2>2. Shape'
    BY <1>8 DEF HandlerEnd, Shape, LateShape, TypeOK
  <2>3. LateShape'
    BY <1>8 DEF HandlerEnd, LateShape, TypeOK
  <2>4. RunsBound'
    BY <1>8 DEF HandlerEnd, RunsBound, LateShape, TypeOK
  <2>5. QED BY <2>1, <2>2, <2>3, <2>4 DEF IInv
<1>9. ASSUME NEW t \in Tasks, AckCommit(t) PROVE IInv'
  <2>1. TypeOK'
    BY <1>9 DEF AckCommit, TypeOK, hubVars, ghostVars
  <2>2. Shape'
    BY <1>9 DEF AckCommit, Shape, TypeOK
  <2>3. LateShape'
    BY <1>9 DEF AckCommit, LateShape, Shape, TypeOK, ghostVars
  <2>4. RunsBound'
    <3> SUFFICES ASSUME NEW u \in Tasks, NEW i \in Offsets
                 PROVE  /\ i > acked'[u] + 1 => runs'[u][i] = 0
                        /\ i = acked'[u] + 1 =>
                              runs'[u][i] + (IF sub'[u] = "idle" THEN 1 ELSE 0)
                                <= 1 + crashes'
                        /\ i <= acked'[u] => runs'[u][i] <= 1 + crashes'
      BY DEF RunsBound
    <3>1. UNCHANGED <<runs, crashes>>
      BY <1>9 DEF AckCommit, ghostVars
    <3>2. CASE u = t
      <4>1. /\ acked'[t] = acked[t] + 1 /\ sub'[t] = "idle"
            /\ sub[t] = "acking"
        BY <1>9 DEF AckCommit, Shape, TypeOK
      <4>2. runs[t][i] \in Nat /\ crashes \in Nat /\ acked[t] \in Nat /\ i \in Nat
        BY DEF TypeOK, Offsets
      <4>3. QED
        BY <3>1, <3>2, <4>1, <4>2 DEF RunsBound
    <3>3. CASE u # t
      BY <1>9, <3>1, <3>3 DEF AckCommit, RunsBound, TypeOK
    <3>4. QED BY <3>2, <3>3
  <2>5. QED BY <2>1, <2>2, <2>3, <2>4 DEF IInv
<1>10. CASE Crash
  <2>1. TypeOK'
    <3>1. crashes' \in 0..MaxCrash
      BY <1>10 DEF Crash, TypeOK
    <3>2. /\ regpc' \in [RegCalls -> {"idle", "checked", "done", "rejected", "dup"}]
          /\ registry' \subseteq Tasks /\ running' \in BOOLEAN
          /\ hubpc' \in {"init", "iter", "serve"}
          /\ snapshot' \subseteq Tasks /\ subscribed' \subseteq Tasks
      BY <1>10 DEF Crash
    <3>3. /\ cur' \in [Tasks -> 0..MaxEmit]
          /\ sub' \in [Tasks -> {"idle", "waitAck", "acking"}]
          /\ wk' \in [Tasks -> {"recv", "run"}]
      BY <1>10 DEF Crash
    <3>4. QED
      BY <1>10, <3>1, <3>2, <3>3 DEF Crash, TypeOK
  <2>2. Shape'
    BY <1>10 DEF Crash, Shape, TypeOK
  <2>3. LateShape'
    BY <1>10 DEF Crash, LateShape, TypeOK
  <2>4. RunsBound'
    <3> SUFFICES ASSUME NEW u \in Tasks, NEW i \in Offsets
                 PROVE  /\ i > acked'[u] + 1 => runs'[u][i] = 0
                        /\ i = acked'[u] + 1 =>
                              runs'[u][i] + (IF sub'[u] = "idle" THEN 1 ELSE 0)
                                <= 1 + crashes'
                        /\ i <= acked'[u] => runs'[u][i] <= 1 + crashes'
      BY DEF RunsBound
    <3>1. /\ UNCHANGED <<acked, runs>> /\ sub'[u] = "idle"
          /\ crashes' = crashes + 1
      BY <1>10 DEF Crash
    <3>2. runs[u][i] \in Nat /\ crashes \in Nat
      BY DEF TypeOK
    <3>3. QED
      BY <3>1, <3>2 DEF RunsBound
  <2>5. QED BY <2>1, <2>2, <2>3, <2>4 DEF IInv
<1>11. CASE UNCHANGED vars
  BY <1>11 DEF vars, IInv, TypeOK, Shape, LateShape, RunsBound
<1>12. QED
  BY <1>1, <1>2, <1>3, <1>4, <1>5, <1>6, <1>7, <1>8, <1>9, <1>10, <1>11
     DEF Next

-----------------------------------------------------------------------------
(* Theorems.                                                               *)

LEMMA IInvHolds == Spec => []IInv
BY InitIInv, NextIInv, PTL DEF Spec

(* Type correctness of the hub: registrations, both goroutines of every    *)
(* topic, the persisted offsets and the ghosts keep their shapes under any *)
(* interleaving with crashes.                                              *)
THEOREM TaskHubTypeCorrect == Spec => []TypeOK
BY IInvHolds, PTL DEF IInv

(* An ackLate task's offset_acked never passes a message whose handler run *)
(* did not finish, whatever crashes happen: the subscriber commits only    *)
(* after the deferred Ack (taskhub.go:224-228, adapter.go:71-74).          *)
THEOREM AckLateAtLeastOnceHolds == Spec => []AckLateAtLeastOnce
<1>1. IInv => AckLateAtLeastOnce
  BY DEF IInv, LateShape, AckLateAtLeastOnce, AckedWereHandled
<1>2. QED
  BY <1>1, IInvHolds, PTL

(* No message is handled more than 1 + crashes times: SelectQuery's strict *)
(* offset_msg > offset_acked (adapter.go:39) delivers each message once    *)
(* per transaction, and only a crash rolls a transaction back.             *)
THEOREM RedeliveryOnlyAfterCrashHolds == Spec => []RedeliveryOnlyAfterCrash
<1>1. IInv => RedeliveryOnlyAfterCrash
  <2> SUFFICES ASSUME IInv, NEW t \in Tasks, NEW i \in Offsets
               PROVE  runs[t][i] <= 1 + crashes
    BY DEF RedeliveryOnlyAfterCrash
  <2>1. runs[t][i] \in Nat /\ crashes \in Nat /\ acked[t] \in Nat /\ i \in Nat
    BY DEF IInv, TypeOK, Offsets
  <2>2. QED
    BY <2>1 DEF IInv, RunsBound
<1>2. QED
  BY <1>1, IInvHolds, PTL

=============================================================================
