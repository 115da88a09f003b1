----------------------------- MODULE GormStore -----------------------------
(***************************************************************************)
(* The gorm-backed Store of pkg/storage/gorm/store.go: Create, Update and  *)
(* Delete issued concurrently by several callers against one SQL table,    *)
(* with the optimistic-concurrency protocol of modify() and the Publish of *)
(* a change event after each mutation.                                     *)
(*                                                                         *)
(* Every SQL statement is one atomic step.  The closure passed to          *)
(* s.db.Transaction receives `tx` but builds its Dao from                  *)
(* s.genDaoGetter(ctx), never from tx, so the statements of one call are   *)
(* separate autocommitted statements: another caller may run between the  *)
(* pre-read, the conditional write, the re-read and the Publish of a call. *)
(* Each caller is therefore a small state machine whose pc names the next  *)
(* statement it runs.                                                      *)
(*                                                                         *)
(* Data is abstracted: a row is its revision column and one value; a       *)
(* payload is a member of Vals.  The revision column holds a decimal       *)
(* string; it is modelled by the number it denotes, NoRev standing for "". *)
(***************************************************************************)
EXTENDS Naturals, Sequences

CONSTANTS
    Clients,    \* goroutines calling the store concurrently
    Keys,       \* values of the key column
    Vals,       \* the rest of a row, abstracted
    MaxRev,     \* bound on request revisions: Update sends at most MaxRev - 1
    MaxOps,     \* bound on the number of store calls in a behaviour
    RevColumn,  \* Config.RevisionColumnName # ""
    AutoTimestamp, \* the model has an autoUpdateTime column among its columns
    Absent,     \* no row with this key
    NoRev,      \* the empty revision string ""
    NoVal       \* payload of a Deleted event: MySQL ignores RETURNING

ASSUME StoreAssumption ==
    /\ Keys # {} /\ Vals # {}
    /\ MaxRev \in Nat \ {0}
    /\ MaxOps \in Nat
    /\ RevColumn \in BOOLEAN
    /\ AutoTimestamp \in BOOLEAN
    /\ NoRev \notin Nat
    /\ NoVal \notin Vals

VARIABLES
    db,         \* the table: key -> row or Absent
    pc,         \* caller -> next statement of its current call
    req,        \* caller -> the call's key, request revision and value
    res,        \* caller -> what its last call returned
    published,  \* the events handed to pubwatcher.Publish, in call order
    started,    \* number of store calls begun (bounded by MaxOps)
    commits,    \* ghost: number of row-changing statements so far
    cid,        \* ghost: caller -> id of the statement its call committed, 0 if none
    wrote       \* ghost: key -> revisioned updates applied since the row was created

vars == <<db, pc, req, res, published, started, commits, cid, wrote>>

\* The revision column holds a number when there is one, nothing otherwise.
RowRevs == IF RevColumn THEN Nat ELSE {NoRev}

Rows == [rv : RowRevs, val : Vals]

Ops == {"create", "update", "delete"}

Results == {"None", "Ok", "AlreadyExists", "NotFound", "Conflict", "RecordNotFound",
            "PublishFailed"}

EventTypes == {"Created", "Updated", "Deleted"}

Events == [type : EventTypes, key : Keys, rv : Nat \cup {NoRev},
           val : Vals \cup {NoVal}, cid : Nat]

\* The revisions a caller may send: "" or a number (Atoi'd in Update).
ReqRevs == IF RevColumn THEN {NoRev} \cup 1..(MaxRev - 1) ELSE {NoRev}

\* store.go:150-152: Create writes "1" into the revision column if there is one.
InitRev == IF RevColumn THEN 1 ELSE NoRev

\* Mutant: modify() without the revision condition in the WHERE clause.
MatchesKeyOnly(k, r) == db[k] # Absent

\* modify(), store.go:169-184: WHERE key = k, plus AND rv = r when r # "".
Matches(k, r) == db[k] # Absent /\ (r = NoRev \/ db[k].rv = r)

\* Mutant: opFn always selects every column, so a blind update writes "".
UpdatedRowAllColumns(k, r, v) == [rv |-> IF r = NoRev THEN NoRev ELSE r + 1, val |-> v]

\* Update's opFn, store.go:227-248: the revision written is rvInReq + 1;
\* without a request revision the revision column is left out of the SET.
UpdatedRow(k, r, v) == [rv |-> IF r = NoRev THEN db[k].rv ELSE r + 1, val |-> v]

\* The payload revision of the event: obj's revision field at Publish time.
EventRev(c) ==
    CASE req[c].op = "create" -> InitRev
      [] req[c].op = "update" -> IF req[c].rv = NoRev THEN NoRev ELSE req[c].rv + 1
      [] req[c].op = "delete" -> req[c].rv

EventOf(c) ==
    [type |-> CASE req[c].op = "create" -> "Created"
                [] req[c].op = "update" -> "Updated"
                [] req[c].op = "delete" -> "Deleted",
     key  |-> req[c].key,
     rv   |-> EventRev(c),
     val  |-> IF req[c].op = "delete" THEN NoVal ELSE req[c].val,
     cid  |-> cid[c]]

TypeOK ==
    /\ db \in [Keys -> Rows \cup {Absent}]
    /\ pc \in [Clients -> {"Idle", "UpdateWrite", "ZeroRows", "Publish"}]
    /\ req \in [Clients -> [op : Ops \cup {"none"}, key : Keys,
                            rv : RowRevs \cup {NoRev}, val : Vals]]
    /\ res \in [Clients -> Results]
    /\ published \in Seq(Events)
    /\ started \in 0..MaxOps
    /\ commits \in Nat
    /\ cid \in [Clients -> Nat]
    /\ wrote \in [Keys -> Nat]

Init ==
    /\ db = [k \in Keys |-> Absent]
    /\ pc = [c \in Clients |-> "Idle"]
    /\ req = [c \in Clients |-> [op |-> "none", key |-> CHOOSE k \in Keys : TRUE,
                                 rv |-> NoRev, val |-> CHOOSE v \in Vals : TRUE]]
    /\ res = [c \in Clients |-> "None"]
    /\ published = <<>>
    /\ started = 0
    /\ commits = 0
    /\ cid = [c \in Clients |-> 0]
    /\ wrote = [k \in Keys |-> 0]

-----------------------------------------------------------------------------
(* Helpers shared by the actions.                                          *)

\* An idle caller begins a store call.
Begin(c, op, k, r, v) ==
    /\ pc[c] = "Idle"
    /\ started < MaxOps
    /\ started' = started + 1
    /\ req' = [req EXCEPT ![c] = [op |-> op, key |-> k, rv |-> r, val |-> v]]

\* The call of c returns x.
Return(c, x) ==
    /\ pc' = [pc EXCEPT ![c] = "Idle"]
    /\ res' = [res EXCEPT ![c] = x]
    /\ cid' = [cid EXCEPT ![c] = 0]

\* A statement of c changed a row.
Commit(c) ==
    /\ commits' = commits + 1
    /\ cid' = [cid EXCEPT ![c] = commits + 1]

-----------------------------------------------------------------------------
(* Create, store.go:140-165: INSERT; on MySQL error 1062 AlreadyExist;     *)
(* otherwise Publish(Created).                                             *)

\* Mutant: an upsert that overwrites an existing row instead of failing.
CreateUpsert(c, k, v) ==
    /\ Begin(c, "create", k, InitRev, v)
    /\ db' = [db EXCEPT ![k] = [rv |-> InitRev, val |-> v]]
    /\ Commit(c)
    /\ wrote' = [wrote EXCEPT ![k] = 0]
    /\ pc' = [pc EXCEPT ![c] = "Publish"]
    /\ UNCHANGED <<res, published>>

CreateInsert(c, k, v) ==
    /\ Begin(c, "create", k, InitRev, v)
    /\ db[k] = Absent
    /\ db' = [db EXCEPT ![k] = [rv |-> InitRev, val |-> v]]
    /\ Commit(c)
    /\ wrote' = [wrote EXCEPT ![k] = 0]
    /\ pc' = [pc EXCEPT ![c] = "Publish"]
    /\ UNCHANGED <<res, published>>

CreateDuplicate(c, k, v) ==
    /\ Begin(c, "create", k, InitRev, v)
    /\ db[k] # Absent
    /\ Return(c, "AlreadyExists")
    /\ UNCHANGED <<db, published, commits, wrote>>

(* Update, store.go:210-259.  The pre-read `First()` by key returns        *)
(* gorm.ErrRecordNotFound unchanged when the row is missing.               *)
UpdateRead(c, k, r, v) ==
    /\ Begin(c, "update", k, r, v)
    /\ \/ /\ db[k] # Absent
          /\ pc' = [pc EXCEPT ![c] = "UpdateWrite"]
          /\ UNCHANGED <<res, cid>>
       \/ /\ db[k] = Absent
          /\ Return(c, "RecordNotFound")
    /\ UNCHANGED <<db, published, commits, wrote>>

(* The conditional UPDATE of modify()/opFn, store.go:186-191 and 249.     *)
(* MySQL's RowsAffected counts changed rows: a matched row written with    *)
(* its own values reports 0, unless an autoUpdateTime column among         *)
(* s.columns makes it differ.                                              *)
UpdateWrite(c) ==
    LET k == req[c].key
        r == req[c].rv
        new == UpdatedRow(k, r, req[c].val)
        changed == Matches(k, r) /\ (new # db[k] \/ AutoTimestamp)
    IN  /\ pc[c] = "UpdateWrite"
        /\ \/ /\ changed
              /\ db' = [db EXCEPT ![k] = new]
              /\ Commit(c)
              /\ wrote' = [wrote EXCEPT ![k] = IF r = NoRev THEN @ ELSE @ + 1]
              /\ pc' = [pc EXCEPT ![c] = "Publish"]
           \/ /\ ~changed
              /\ pc' = [pc EXCEPT ![c] = "ZeroRows"]
              /\ UNCHANGED <<db, commits, cid, wrote>>
        /\ UNCHANGED <<req, res, published, started>>

(* Delete, store.go:263-282: conditional DELETE inside modify().           *)
DeleteExec(c, k, r) ==
    /\ Begin(c, "delete", k, r, CHOOSE v \in Vals : TRUE)
    /\ \/ /\ Matches(k, r)
          /\ db' = [db EXCEPT ![k] = Absent]
          /\ Commit(c)
          /\ pc' = [pc EXCEPT ![c] = "Publish"]
       \/ /\ ~Matches(k, r)
          /\ pc' = [pc EXCEPT ![c] = "ZeroRows"]
          /\ UNCHANGED <<db, commits, cid>>
    /\ UNCHANGED <<res, published, wrote>>

(* modify(), store.go:191-205: RowsAffected != 1, so re-read by key alone. *)
ZeroRows(c) ==
    LET k == req[c].key
        r == req[c].rv
    IN  /\ pc[c] = "ZeroRows"
        /\ \/ /\ db[k] = Absent
              /\ Return(c, "NotFound")
           \/ /\ db[k] # Absent
              /\ r # NoRev
              /\ db[k].rv # r
              /\ Return(c, "Conflict")
           \/ /\ Matches(k, r)
              /\ pc' = [pc EXCEPT ![c] = "Publish"]
              /\ UNCHANGED <<res, cid>>
        /\ UNCHANGED <<db, req, published, started, commits, wrote>>

(* pubwatcher.Publish (pkg/watch/watcher.go:41-49), the last statement of  *)
(* Create, Update and Delete: hand the event to the in-process bus.  Its   *)
(* json.Marshal, or the gochannel's Publish once the pubsub is closed, can *)
(* fail.  The error aborts s.db.Transaction (store.go:162, 255, 279), but  *)
(* the row was written by an autocommitted statement and stays: the       *)
(* caller gets the error and no event is sent.                             *)
Publish(c) ==
    /\ pc[c] = "Publish"
    /\ \/ /\ published' = Append(published, EventOf(c))
          /\ Return(c, "Ok")
       \/ /\ Return(c, "PublishFailed")
          /\ UNCHANGED published
    /\ UNCHANGED <<db, req, started, commits, wrote>>

-----------------------------------------------------------------------------

\* The steps of a call in progress: the caller's goroutine runs them.
ClientStep(c) == UpdateWrite(c) \/ ZeroRows(c) \/ Publish(c)

Next ==
    \E c \in Clients :
        \/ \E k \in Keys, v \in Vals : CreateInsert(c, k, v) \/ CreateDuplicate(c, k, v)
        \/ \E k \in Keys, r \in ReqRevs, v \in Vals : UpdateRead(c, k, r, v)
        \/ \E k \in Keys, r \in ReqRevs : DeleteExec(c, k, r)
        \/ ClientStep(c)

Spec == Init /\ [][Next]_vars

\* A call in progress is not abandoned: its goroutine keeps being scheduled
\* and the database answers each statement.
FairSpec == Spec /\ \A c \in Clients : WF_vars(ClientStep(c))

-----------------------------------------------------------------------------
(* Properties.                                                             *)

(* Optimistic concurrency loses no revisioned update: while a row exists,  *)
(* its revision is 1 plus the number of revisioned Updates applied to it   *)
(* since its Create.  Two callers that both read revision r and both send  *)
(* it cannot both be applied (modify's WHERE rv = r, store.go:181-183).    *)
NoLostUpdate ==
    RevColumn =>
        \A k \in Keys : db[k] # Absent => db[k].rv = 1 + wrote[k]

(* Spec 4.D: the publication happens inside the mutation's transaction and *)
(* a publication failure aborts it, so every row change that stays         *)
(* committed is eventually published on the watch bus (store.go:162, 255, *)
(* 279 return Publish's error from the Transaction closure).               *)
EveryCommitPublished ==
    \A n \in 1..MaxOps :
        (commits >= n) ~> (\E i \in DOMAIN published : published[i].cid = n)

(* Spec 4.D ordering guarantee: for one key, events are published in the  *)
(* order their mutations were committed.                                   *)
PublishOrderFollowsCommitOrder ==
    \A i, j \in DOMAIN published :
        /\ i < j
        /\ published[i].key = published[j].key
        /\ published[i].cid # 0
        /\ published[j].cid # 0
        => published[i].cid < published[j].cid

(* Spec 8: a successful Update with request revision r leaves the row at   *)
(* revision r + 1.  A call about to report success for a revisioned        *)
(* Update has written its row.                                             *)
RevisionedUpdateApplied ==
    \A c \in Clients :
        (pc[c] = "Publish" /\ req[c].op = "update" /\ req[c].rv # NoRev)
            => cid[c] # 0

\* The rows of the store as the abstract table of the Store interface.
Atomic == INSTANCE AtomicTable WITH table <- db

(* Although a call's statements run as separate autocommitted statements,  *)
(* the table only ever changes by one atomic Create of a missing row,      *)
(* Update of the row as it is now, or Delete of an existing row: the       *)
(* conditional INSERT, UPDATE ... WHERE rv = r and DELETE of modify()      *)
(* (store.go:140-165, 169-191, 263-282) implement AtomicTable.             *)
ImplementsAtomicTable == Atomic!Spec

=============================================================================
