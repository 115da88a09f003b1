-------------------------- MODULE GormStore_proofs --------------------------
(***************************************************************************)
(* Proofs about GormStore for every value of its constants: type           *)
(* correctness, and that optimistic concurrency loses no revisioned        *)
(* update (NoLostUpdate).                                                  *)
(***************************************************************************)
EXTENDS GormStore, TLAPS

USE StoreAssumption DEF StoreAssumption

\* A caller in the middle of a call holds a real operation in req: the
\* CASEs of EventOf are then defined.  TypeOK alone is not inductive
\* because Publish builds its event from req.
BusyHasOp == \A c \in Clients : pc[c] # "Idle" => req[c].op \in Ops

TInv == TypeOK /\ BusyHasOp

\* The inductive invariant for NoLostUpdate.
IInv == TInv /\ NoLostUpdate

-----------------------------------------------------------------------------
(* Lemmas about the operators the actions are built from.                  *)

\* The event a caller publishes has the shape of Events.
LEMMA EventOfType ==
    ASSUME TypeOK, NEW c \in Clients, req[c].op \in Ops
    PROVE  EventOf(c) \in Events
<1>1. /\ req[c].key \in Keys /\ req[c].val \in Vals
      /\ req[c].rv \in RowRevs \cup {NoRev} /\ cid[c] \in Nat
  BY DEF TypeOK
<1>2. EventRev(c) \in Nat \cup {NoRev}
  <2>1. CASE req[c].op = "create" BY <2>1 DEF EventRev, InitRev
  <2>2. CASE req[c].op = "update" BY <1>1, <2>2 DEF EventRev, RowRevs
  <2>3. CASE req[c].op = "delete" BY <1>1, <2>3 DEF EventRev, RowRevs
  <2>4. QED BY <2>1, <2>2, <2>3 DEF Ops
<1>3. EventOf(c).type \in EventTypes
  <2>1. CASE req[c].op = "create" BY <2>1 DEF EventOf, EventTypes
  <2>2. CASE req[c].op = "update" BY <2>2 DEF EventOf, EventTypes
  <2>3. CASE req[c].op = "delete" BY <2>3 DEF EventOf, EventTypes
  <2>4. QED BY <2>1, <2>2, <2>3 DEF Ops
<1>4. QED BY <1>1, <1>2, <1>3 DEF EventOf, Events

\* The row an Update writes has the shape of Rows.
LEMMA UpdatedRowType ==
    ASSUME TypeOK, NEW c \in Clients, pc[c] = "UpdateWrite",
           BusyHasOp, Matches(req[c].key, req[c].rv)
    PROVE  UpdatedRow(req[c].key, req[c].rv, req[c].val) \in Rows
<1>1. /\ req[c].key \in Keys /\ req[c].val \in Vals
      /\ req[c].rv \in RowRevs \cup {NoRev}
      /\ db[req[c].key] \in Rows
  BY DEF TypeOK, Matches
<1>2. QED BY <1>1 DEF UpdatedRow, Rows, RowRevs

-----------------------------------------------------------------------------
(* Type correctness of the store: the table, the callers' requests and the *)
(* published events keep their shapes under every interleaving of calls.   *)
LEMMA TypeStep == TInv /\ [Next]_vars => TInv'
<1> SUFFICES ASSUME TypeOK, BusyHasOp, [Next]_vars PROVE TInv'
  BY DEF TInv
<1>1. ASSUME NEW c \in Clients, NEW k \in Keys, NEW v \in Vals,
             CreateInsert(c, k, v)
      PROVE TInv'
  BY <1>1 DEF CreateInsert, Begin, Commit, TInv, BusyHasOp, TypeOK, Rows,
              RowRevs, InitRev, Ops
<1>2. ASSUME NEW c \in Clients, NEW k \in Keys, NEW v \in Vals,
             CreateDuplicate(c, k, v)
      PROVE TInv'
  BY <1>2 DEF CreateDuplicate, Begin, Return, TInv, BusyHasOp, TypeOK,
              RowRevs, InitRev, Ops, Results
<1>3. ASSUME NEW c \in Clients, NEW k \in Keys, NEW r \in ReqRevs, NEW v \in Vals,
             UpdateRead(c, k, r, v)
      PROVE TInv'
  <2>1. Begin(c, "update", k, r, v) /\ UNCHANGED <<db, published, commits, wrote>>
    BY <1>3 DEF UpdateRead
  <2>2. CASE pc' = [pc EXCEPT ![c] = "UpdateWrite"] /\ UNCHANGED <<res, cid>>
    BY <2>1, <2>2 DEF Begin, TInv, BusyHasOp, TypeOK, ReqRevs, RowRevs, Ops
  <2>3. CASE Return(c, "RecordNotFound")
    BY <2>1, <2>3 DEF Begin, Return, TInv, BusyHasOp, TypeOK, ReqRevs,
                      RowRevs, Ops, Results
  <2>4. QED BY <1>3, <2>2, <2>3 DEF UpdateRead
<1>4. ASSUME NEW c \in Clients, NEW k \in Keys, NEW r \in ReqRevs,
             DeleteExec(c, k, r)
      PROVE TInv'
  <2>1. /\ Begin(c, "delete", k, r, CHOOSE v \in Vals : TRUE)
        /\ UNCHANGED <<res, published, wrote>>
    BY <1>4 DEF DeleteExec
  <2>2. CASE Matches(k, r) /\ db' = [db EXCEPT ![k] = Absent] /\ Commit(c)
             /\ pc' = [pc EXCEPT ![c] = "Publish"]
    <3>1. db' \in [Keys -> Rows \cup {Absent}]
      BY <2>2 DEF TypeOK
    <3>2. commits' \in Nat /\ cid' \in [Clients -> Nat]
      BY <2>2 DEF Commit, TypeOK
    <3>3. req' \in [Clients -> [op : Ops \cup {"none"}, key : Keys,
                                 rv : RowRevs \cup {NoRev}, val : Vals]]
      BY <2>1 DEF Begin, TypeOK, ReqRevs, RowRevs, Ops
    <3>4. pc' \in [Clients -> {"Idle", "UpdateWrite", "ZeroRows", "Publish"}]
      BY <2>2 DEF TypeOK
    <3>5. started' \in 0..MaxOps
      BY <2>1 DEF Begin, TypeOK
    <3>6. BusyHasOp'
      BY <2>1, <2>2 DEF Begin, BusyHasOp, Ops, TypeOK
    <3>7. QED
      BY <2>1, <3>1, <3>2, <3>3, <3>4, <3>5, <3>6 DEF TInv, TypeOK
  <2>3. CASE pc' = [pc EXCEPT ![c] = "ZeroRows"] /\ UNCHANGED <<db, commits, cid>>
    BY <2>1, <2>3 DEF Begin, TInv, BusyHasOp, TypeOK, ReqRevs, RowRevs, Ops
  <2>4. QED BY <1>4, <2>2, <2>3 DEF DeleteExec
<1>5. ASSUME NEW c \in Clients, UpdateWrite(c) PROVE TInv'
  <2> DEFINE k == req[c].key
             r == req[c].rv
             new == UpdatedRow(k, r, req[c].val)
  <2>1. pc[c] = "UpdateWrite" /\ UNCHANGED <<req, res, published, started>>
    BY <1>5 DEF UpdateWrite
  <2>2. CASE Matches(k, r) /\ db' = [db EXCEPT ![k] = new] /\ Commit(c)
             /\ wrote' = [wrote EXCEPT ![k] = IF r = NoRev THEN @ ELSE @ + 1]
             /\ pc' = [pc EXCEPT ![c] = "Publish"]
    <3>1. new \in Rows /\ k \in Keys
      BY <2>1, <2>2, UpdatedRowType DEF TypeOK
    <3>2. db' \in [Keys -> Rows \cup {Absent}]
      BY <2>2, <3>1 DEF TypeOK
    <3>3. wrote' \in [Keys -> Nat]
      BY <2>2, <3>1 DEF TypeOK
    <3>4. commits' \in Nat /\ cid' \in [Clients -> Nat]
      BY <2>2 DEF Commit, TypeOK
    <3>5. pc' \in [Clients -> {"Idle", "UpdateWrite", "ZeroRows", "Publish"}]
      BY <2>2 DEF TypeOK
    <3>6. BusyHasOp'
      BY <2>1, <2>2 DEF BusyHasOp
    <3>7. QED
      BY <2>1, <3>2, <3>3, <3>4, <3>5, <3>6 DEF TInv, TypeOK
  <2>3. CASE pc' = [pc EXCEPT ![c] = "ZeroRows"] /\ UNCHANGED <<db, commits, cid, wrote>>
    BY <2>1, <2>3 DEF TInv, BusyHasOp, TypeOK
  <2>4. QED BY <1>5, <2>2, <2>3 DEF UpdateWrite
<1>6. ASSUME NEW c \in Clients, ZeroRows(c) PROVE TInv'
  <2>1. pc[c] = "ZeroRows" /\ UNCHANGED <<db, req, published, started, commits, wrote>>
    BY <1>6 DEF ZeroRows
  <2>2. CASE \E x \in {"NotFound", "Conflict"} : Return(c, x)
    BY <2>1, <2>2 DEF Return, TInv, BusyHasOp, TypeOK, Results
  <2>3. CASE pc' = [pc EXCEPT ![c] = "Publish"] /\ UNCHANGED <<res, cid>>
    BY <2>1, <2>3 DEF TInv, BusyHasOp, TypeOK
  <2>4. QED BY <1>6, <2>2, <2>3 DEF ZeroRows
<1>7. ASSUME NEW c \in Clients, Publish(c) PROVE TInv'
  <2>1. pc[c] = "Publish" /\ UNCHANGED <<db, req, started, commits, wrote>>
    BY <1>7 DEF Publish
  <2>2. CASE published' = Append(published, EventOf(c)) /\ Return(c, "Ok")
    <3>1. EventOf(c) \in Events
      BY <2>1, EventOfType DEF BusyHasOp
    <3>2. published' \in Seq(Events)
      BY <2>2, <3>1 DEF TypeOK
    <3>3. QED BY <2>1, <2>2, <3>2 DEF Return, TInv, BusyHasOp, TypeOK, Results
  <2>3. CASE Return(c, "PublishFailed") /\ UNCHANGED published
    BY <2>1, <2>3 DEF Return, TInv, BusyHasOp, TypeOK, Results
  <2>4. QED BY <1>7, <2>2, <2>3 DEF Publish
<1>8. CASE UNCHANGED vars
  BY <1>8 DEF vars, TInv, BusyHasOp, TypeOK
<1>9. QED
  BY <1>1, <1>2, <1>3, <1>4, <1>5, <1>6, <1>7, <1>8 DEF Next, ClientStep

(* Type correctness of the store as a property of the specification: the  *)
(* model's TypeOK, checked by the safety run, holds for all constants.    *)
THEOREM TypeCorrect == Spec => []TypeOK
<1>1. Init => TInv
  BY DEF Init, TInv, BusyHasOp, TypeOK, Rows, RowRevs, Ops, Results, InitRev
<1>2. TInv => TypeOK
  BY DEF TInv
<1>3. QED
  BY <1>1, <1>2, TypeStep, PTL DEF Spec

-----------------------------------------------------------------------------
(* NoLostUpdate: while a row exists, its revision is 1 plus the number of  *)
(* revisioned Updates applied since its Create, so no two Updates sent     *)
(* with the same revision are both applied (modify, store.go:178-184).     *)
THEOREM NoLostUpdateHolds == Spec => []NoLostUpdate
<1>1. Init => IInv
  BY DEF Init, IInv, TInv, BusyHasOp, NoLostUpdate, TypeOK, Rows, RowRevs,
         Ops, Results, InitRev
<1>2. IInv /\ [Next]_vars => IInv'
  <2> SUFFICES ASSUME IInv, [Next]_vars PROVE IInv'
    OBVIOUS
  <2>1. TInv'
    BY TypeStep DEF IInv
  <2>2. ASSUME NEW c \in Clients, NEW k \in Keys, NEW v \in Vals,
               CreateInsert(c, k, v)
        PROVE NoLostUpdate'
    BY <2>2 DEF CreateInsert, Begin, Commit, IInv, TInv, NoLostUpdate, TypeOK,
                InitRev
  <2>3. ASSUME NEW c \in Clients, UpdateWrite(c) PROVE NoLostUpdate'
    <3> DEFINE kk == req[c].key
               r == req[c].rv
               new == UpdatedRow(kk, r, req[c].val)
    <3>1. kk \in Keys /\ r \in RowRevs \cup {NoRev} /\ wrote \in [Keys -> Nat]
      BY DEF IInv, TInv, TypeOK
    <3>2. CASE Matches(kk, r) /\ db' = [db EXCEPT ![kk] = new]
               /\ wrote' = [wrote EXCEPT ![kk] = IF r = NoRev THEN @ ELSE @ + 1]
      <4>1. SUFFICES ASSUME RevColumn PROVE NoLostUpdate'
        BY DEF NoLostUpdate
      <4>2. db[kk] # Absent /\ (r = NoRev \/ db[kk].rv = r)
        BY <3>2 DEF Matches
      <4>3. db[kk].rv = 1 + wrote[kk]
        BY <4>1, <4>2, <3>1 DEF IInv, NoLostUpdate
      <4>4. new.rv = 1 + wrote'[kk]
        <5>1. CASE r = NoRev BY <3>1, <3>2, <4>3, <5>1 DEF UpdatedRow
        <5>2. CASE r # NoRev BY <3>1, <3>2, <4>2, <4>3, <5>2 DEF UpdatedRow
        <5>3. QED BY <5>1, <5>2
      <4>5. \A k \in Keys \ {kk} : db'[k] = db[k] /\ wrote'[k] = wrote[k]
        BY <3>1, <3>2
      <4>6. QED
        BY <3>1, <3>2, <4>1, <4>4, <4>5 DEF IInv, NoLostUpdate, TInv, TypeOK
    <3>3. CASE UNCHANGED <<db, wrote>>
      BY <3>3 DEF IInv, NoLostUpdate
    <3>4. \/ /\ Matches(kk, r) /\ db' = [db EXCEPT ![kk] = new]
             /\ wrote' = [wrote EXCEPT ![kk] = IF r = NoRev THEN @ ELSE @ + 1]
          \/ UNCHANGED <<db, wrote>>
      BY <2>3 DEF UpdateWrite
    <3>5. QED
      BY <3>2, <3>3, <3>4
  <2>4. ASSUME NEW c \in Clients, NEW k \in Keys, NEW r \in ReqRevs,
               DeleteExec(c, k, r)
        PROVE NoLostUpdate'
    <3>1. CASE db' = [db EXCEPT ![k] = Absent] /\ UNCHANGED wrote
      BY <3>1 DEF IInv, TInv, NoLostUpdate, TypeOK
    <3>2. CASE UNCHANGED <<db, wrote>>
      BY <3>2 DEF IInv, NoLostUpdate
    <3>3. QED
      BY <2>4, <3>1, <3>2 DEF DeleteExec
  <2>5. UNCHANGED <<db, wrote>> => NoLostUpdate'
    BY DEF IInv, NoLostUpdate
  <2>6. NoLostUpdate'
    <3>1. ASSUME NEW c \in Clients, NEW k \in Keys, NEW v \in Vals,
                 CreateDuplicate(c, k, v)
          PROVE UNCHANGED <<db, wrote>>
      BY <3>1 DEF CreateDuplicate
    <3>2. ASSUME NEW c \in Clients, NEW k \in Keys, NEW r \in ReqRevs,
                 NEW v \in Vals, UpdateRead(c, k, r, v)
          PROVE UNCHANGED <<db, wrote>>
      BY <3>2 DEF UpdateRead
    <3>3. ASSUME NEW c \in Clients, ZeroRows(c) \/ Publish(c)
          PROVE UNCHANGED <<db, wrote>>
      BY <3>3 DEF ZeroRows, Publish
    <3>4. UNCHANGED vars => UNCHANGED <<db, wrote>>
      BY DEF vars
    <3>5. \/ \E c \in Clients, k \in Keys, v \in Vals : CreateInsert(c, k, v)
          \/ \E c \in Clients : UpdateWrite(c)
          \/ \E c \in Clients, k \in Keys, r \in ReqRevs : DeleteExec(c, k, r)
          \/ UNCHANGED <<db, wrote>>
      BY <3>1, <3>2, <3>3, <3>4, Zenon DEF Next, ClientStep
    <3>6. QED
      BY <2>2, <2>3, <2>4, <2>5, <3>5
  <2>7. QED
    BY <2>1, <2>6 DEF IInv
<1>3. IInv => NoLostUpdate
  BY DEF IInv
<1>4. QED
  BY <1>1, <1>2, <1>3, PTL DEF Spec

-----------------------------------------------------------------------------
(* Refinement: the table of the store behaves as AtomicTable.  Every step  *)
(* of a caller either leaves the rows alone or is one abstract Create,     *)
(* Update or Delete of the row as it is at that step.                      *)

\* A committed Update writes the row one abstract Update would write.
LEMMA UpdateWriteRefines ==
    ASSUME TypeOK, NEW c \in Clients,
           Matches(req[c].key, req[c].rv),
           db' = [db EXCEPT ![req[c].key] = UpdatedRow(req[c].key, req[c].rv, req[c].val)]
    PROVE  Atomic!BlindUpdate(req[c].key, req[c].val)
           \/ Atomic!RevisionedUpdate(req[c].key, req[c].val)
<1> DEFINE k == req[c].key
           r == req[c].rv
<1>1. k \in Keys /\ r \in RowRevs \cup {NoRev} /\ db[k] # Absent
  BY DEF TypeOK, Matches
<1>2. CASE r = NoRev
  BY <1>1, <1>2 DEF UpdatedRow, Atomic!BlindUpdate
<1>3. CASE r # NoRev
  <2>1. RevColumn /\ db[k].rv = r
    BY <1>1, <1>3 DEF RowRevs, Matches
  <2>2. QED
    BY <1>1, <1>3, <2>1 DEF UpdatedRow, Atomic!RevisionedUpdate
<1>4. QED BY <1>2, <1>3

\* Each step of the store is a step of AtomicTable on db, or leaves db alone.
LEMMA StepRefines == TInv /\ [Next]_vars => [Atomic!Next]_db
<1> SUFFICES ASSUME TypeOK, [Next]_vars PROVE [Atomic!Next]_db
  BY DEF TInv
<1>1. ASSUME NEW c \in Clients, NEW k \in Keys, NEW v \in Vals,
             CreateInsert(c, k, v)
      PROVE Atomic!Next
  <2>1. Atomic!Create(k, v)
    BY <1>1 DEF CreateInsert, Atomic!Create, Atomic!FirstRev, InitRev
  <2>2. QED BY <2>1 DEF Atomic!Next
<1>2. ASSUME NEW c \in Clients, UpdateWrite(c) PROVE [Atomic!Next]_db
  <2> DEFINE k == req[c].key
  <2>1. CASE Matches(k, req[c].rv)
             /\ db' = [db EXCEPT ![k] = UpdatedRow(k, req[c].rv, req[c].val)]
    <3>1. k \in Keys /\ req[c].val \in Vals
      BY DEF TypeOK
    <3>2. QED
      BY <2>1, <3>1, UpdateWriteRefines DEF Atomic!Next
  <2>2. CASE UNCHANGED db
    BY <2>2
  <2>3. QED
    BY <1>2, <2>1, <2>2 DEF UpdateWrite
<1>3. ASSUME NEW c \in Clients, NEW k \in Keys, NEW r \in ReqRevs,
             DeleteExec(c, k, r)
      PROVE [Atomic!Next]_db
  <2>1. CASE Matches(k, r) /\ db' = [db EXCEPT ![k] = Absent]
    BY <2>1 DEF Matches, Atomic!Delete, Atomic!Next
  <2>2. CASE UNCHANGED db
    BY <2>2
  <2>3. QED
    BY <1>3, <2>1, <2>2 DEF DeleteExec
<1>4. ASSUME NEW c \in Clients, NEW k \in Keys, NEW v \in Vals,
             CreateDuplicate(c, k, v)
      PROVE UNCHANGED db
  BY <1>4 DEF CreateDuplicate
<1>5. ASSUME NEW c \in Clients, NEW k \in Keys, NEW r \in ReqRevs,
             NEW v \in Vals, UpdateRead(c, k, r, v)
      PROVE UNCHANGED db
  BY <1>5 DEF UpdateRead
<1>6. ASSUME NEW c \in Clients, ZeroRows(c) \/ Publish(c)
      PROVE UNCHANGED db
  BY <1>6 DEF ZeroRows, Publish
<1>7. UNCHANGED vars => UNCHANGED db
  BY DEF vars
<1>8. QED
  BY <1>1, <1>2, <1>3, <1>4, <1>5, <1>6, <1>7 DEF Next, ClientStep

(* The store implements the Store interface's atomic table for all         *)
(* constants, with the refinement mapping table <- db: the statements of a *)
(* call run separately, yet the conditional INSERT, UPDATE and DELETE of   *)
(* store.go change the rows only as atomic abstract operations would.      *)
THEOREM ImplementsAtomicTableHolds == Spec => ImplementsAtomicTable
<1>1. Init => Atomic!Init
  BY DEF Init, Atomic!Init
<1>2. Init => TInv
  BY DEF Init, TInv, BusyHasOp, TypeOK, Rows, RowRevs, Ops, Results, InitRev
<1>3. QED
  BY <1>1, <1>2, TypeStep, StepRefines, PTL
  DEF Spec, ImplementsAtomicTable, Atomic!Spec

=============================================================================
