------------------------------ MODULE RestCore ------------------------------
(***************************************************************************)
(* The REST layer of pkg/rest: the go-restful Handler (handler.go) that    *)
(* parses a request and writes the Status envelope, the RestAPI behind it  *)
(* (rest.go) that runs the admission chain (admission/chain.go), converts  *)
(* between API and storage objects and maps storage errors to API errors,  *)
(* and the error kinds of pkg/errors and pkg/storage.                      *)
(*                                                                         *)
(* Each HTTP request is one step: the Store call inside it is atomic here  *)
(* (GormStore models the interleavings inside a Store call).  The Store's  *)
(* answers follow store.go: an Update of a missing key fails in its        *)
(* pre-read with gorm's raw ErrRecordNotFound, a Delete carries no         *)
(* revision, and a Publish or a FromStorage conversion can fail after the  *)
(* write has committed.  Objects are abstracted to their key and revision; *)
(* a selector to the set of keys it matches.                               *)
(***************************************************************************)
EXTENDS Integers, Sequences, FiniteSets

CONSTANTS
    Keys,         \* the non-empty object keys, as naturals: rows list in key order
    EmptyKey,     \* the key ""
    NoRev,        \* an object sent without a resourceVersion
    MaxRev,       \* the largest revision a row reaches
    MaxReqs,      \* bound on the requests of a behaviour
    Chain,        \* the admission plug-ins given to NewRestAPI, in order
    Validators,   \* the plug-ins implementing ValidationInterface
    Mutators,     \* the plug-ins implementing MutationInterface
    HandlesOps,   \* plug-in -> the operations its Handles accepts
    Faults,       \* the failures after a write: "publish", "convert"
    NoParam,      \* a query parameter left out
    BadNum,       \* a query parameter strconv.Atoi rejects
    OffsetParams, \* offset query parameters a List may carry
    LimitParams   \* limit query parameters a List may carry

\* admission.Operation (admission/interface.go:13-18).
AdmitOps == {"CREATE", "UPDATE", "DELETE"}

\* What a plug-in's Validate or Admit returns: nil, a StatusError made by
\* errors.NewForbidden, or an error that is not an APIStatus.
Verdicts == {"allow", "Forbidden", "raw"}

ASSUME RestCoreAssumption ==
    /\ Keys \subseteq Nat \ {0} /\ EmptyKey \notin Keys
    /\ MaxRev \in Nat \ {0} /\ MaxReqs \in Nat
    /\ NoRev \notin Int
    /\ Chain \in Seq(Validators \cup Mutators)
    /\ HandlesOps \in [Validators \cup Mutators -> SUBSET AdmitOps]
    /\ Faults \subseteq {"publish", "convert"}
    /\ OffsetParams \subseteq Int \cup {NoParam, BadNum}
    /\ LimitParams \subseteq (Nat \ {0}) \cup {NoParam, BadNum}

VARIABLES
    rows,   \* the table: key -> revision, 0 for no row
    resp,   \* the last response written
    nreq,   \* requests served so far
    denied  \* ghost: some plug-in handling the last request refused it

vars == <<rows, resp, nreq, denied>>

\* The errors a layer can return.  The API kinds are pkg/errors StatusErrors
\* (APIStatus); the storage kinds are pkg/storage StatusErrors, which are not.
APIKinds == {"BadRequest", "Forbidden", "NotFound", "Conflict", "Internal"}
StorageKinds == {"sNotFound", "sAlreadyExist", "sConflict"}
Errors == {"nil", "raw"} \cup APIKinds \cup StorageKinds

\* Where a request failed, as a ghost for the properties.
Causes == {"none", "emptykey", "admit", "param", "selector", "convert",
           "notfound", "exists", "conflict", "storeraw", "publish"}

Ops == {"get", "list", "create", "update", "delete"}

Responses ==
    [op : Ops, key : Keys \cup {EmptyKey}, code : Nat, err : Errors,
     cause : Causes, count : Nat, items : Nat, cont : BOOLEAN,
     offset : OffsetParams \cup {NoParam}, limit : LimitParams \cup {NoParam}]

TypeOK ==
    /\ rows \in [Keys -> 0..MaxRev]
    /\ resp \in Responses \cup {NoParam}
    /\ nreq \in 0..MaxReqs
    /\ denied \in BOOLEAN

Init ==
    /\ rows = [k \in Keys |-> 0]
    /\ resp = NoParam
    /\ nreq = 0
    /\ denied = FALSE

-----------------------------------------------------------------------------
(* Error kinds and the status each one is written with.                    *)

\* The Code of each StatusError constructor of pkg/errors.
APICode == [BadRequest |-> 400, Forbidden |-> 403, NotFound |-> 404,
            Conflict |-> 409, Internal |-> 500]

\* Handler.Error: an APIStatus keeps its code; anything else is wrapped by
\* NewInternalError.
StatusOf(e) == IF e \in APIKinds THEN APICode[e] ELSE 500

\* Mutant: convertStorageError forgets the concurrent-conflict case.
ConvertNoConflict(e) ==
    CASE e = "sNotFound" -> "NotFound"
      [] e = "sAlreadyExist" -> "Conflict"
      [] OTHER -> e

\* RestAPI.convertStorageError: storage kinds become API kinds, the rest
\* passes through.
ConvertStorageError(e) ==
    CASE e = "sNotFound" -> "NotFound"
      [] e = "sAlreadyExist" -> "Conflict"
      [] e = "sConflict" -> "Conflict"
      [] OTHER -> e

-----------------------------------------------------------------------------
(* The admission chain.                                                    *)

\* chainAdmissionHandler.Handles: some plug-in handles the operation.
ChainHandles(op) == \E i \in 1..Len(Chain) : op \in HandlesOps[Chain[i]]

\* chain.Validate or chain.Admit over the plug-ins of kind S: the verdict of
\* the first plug-in that handles op and does not allow, or "allow".
ChainRun(S, op, v) ==
    LET Refusing == {i \in 1..Len(Chain) : /\ Chain[i] \in S
                                           /\ op \in HandlesOps[Chain[i]]
                                           /\ v[Chain[i]] # "allow"}
    IN  IF Refusing = {} THEN "allow"
        ELSE v[Chain[CHOOSE i \in Refusing : \A j \in Refusing : i <= j]]

\* Mutant: doAdmit runs only the mutators.
DoAdmitNoValidate(op, dv, dm) ==
    IF ChainHandles(op) THEN ChainRun(Mutators, op, dm) ELSE "allow"

\* RestAPI.doAdmit: when the chain handles op, Validate, then Admit.
DoAdmit(op, dv, dm) ==
    IF ~ChainHandles(op) THEN "allow"
    ELSE IF ChainRun(Validators, op, dv) # "allow"
         THEN ChainRun(Validators, op, dv)
         ELSE ChainRun(Mutators, op, dm)

\* Some plug-in of the chain that handles op, as a validator or as a mutator,
\* does not allow the request.
Denied(op, dv, dm) ==
    \E i \in 1..Len(Chain) :
        LET h == Chain[i] IN
        /\ op \in HandlesOps[h]
        /\ \/ h \in Validators /\ dv[h] # "allow"
           \/ h \in Mutators /\ dm[h] # "allow"

ErrOfVerdict(v) == IF v = "Forbidden" THEN "Forbidden" ELSE "raw"

-----------------------------------------------------------------------------
(* Requests.  Each action is one handler of handler.go with the RestAPI    *)
(* method it calls.                                                        *)

\* The failures one request may meet: a converter error before or after
\* the Store call, or a Publish error inside it.
FaultsOf ==
    {"none"} \cup (IF "publish" \in Faults THEN {"publish"} ELSE {})
             \cup (IF "convert" \in Faults THEN {"tostorage", "fromstorage"}
                                          ELSE {})

\* The Status code Handler writes for the error a RestAPI method returned.
Code(e) == IF e = "nil" THEN 200 ELSE StatusOf(e)

\* Write the response of a request that returned error e, which came from c.
Answer(op, k, e, c) ==
    /\ resp' = [op |-> op, key |-> k, code |-> Code(e), err |-> e, cause |-> c,
                count |-> 0, items |-> 0, cont |-> FALSE,
                offset |-> NoParam, limit |-> NoParam]
    /\ nreq' = nreq + 1

\* A write the Store committed: the Publish inside it, then FromStorage.
AnswerCommitted(op, k, f) ==
    CASE f = "publish" -> Answer(op, k, "raw", "publish")
      [] f = "fromstorage" /\ op # "delete" -> Answer(op, k, "raw", "convert")
      [] OTHER -> Answer(op, k, "nil", "none")

\* Handler.Get and RestAPI.Get: store.Get maps a missing row to NotFound.
Get(k, f) ==
    /\ UNCHANGED rows /\ denied' = FALSE
    /\ \/ /\ rows[k] = 0
          /\ Answer("get", k, ConvertStorageError("sNotFound"), "notfound")
       \/ /\ rows[k] # 0
          /\ IF f = "fromstorage" THEN Answer("get", k, "raw", "convert")
                                  ELSE Answer("get", k, "nil", "none")

\* Handler.Create and RestAPI.Create: the empty-key check, admission, the
\* conversion, then store.Create (AlreadyExist on a duplicate key).
Create(k, dv, dm, f) ==
    LET a == DoAdmit("CREATE", dv, dm) IN
    /\ denied' = Denied("CREATE", dv, dm)
    /\ \/ /\ k = EmptyKey
          /\ Answer("create", k, "BadRequest", "emptykey") /\ UNCHANGED rows
       \/ /\ k # EmptyKey /\ a # "allow"
          /\ Answer("create", k, ErrOfVerdict(a), "admit") /\ UNCHANGED rows
       \/ /\ k # EmptyKey /\ a = "allow" /\ f = "tostorage"
          /\ Answer("create", k, "raw", "convert") /\ UNCHANGED rows
       \/ /\ k # EmptyKey /\ a = "allow" /\ f # "tostorage" /\ rows[k] # 0
          /\ Answer("create", k, ConvertStorageError("sAlreadyExist"), "exists")
          /\ UNCHANGED rows
       \/ /\ k # EmptyKey /\ a = "allow" /\ f # "tostorage" /\ rows[k] = 0
          /\ rows' = [rows EXCEPT ![k] = 1]
          /\ AnswerCommitted("create", k, f)

\* Mutant: store.Update writes before it compares the revision.
StoreUpdateWriteFirst(k, rv) ==
    IF rv = NoRev THEN rows ELSE [rows EXCEPT ![k] = rv + 1]

\* The row store.Update leaves: a revisioned write sets rv + 1 (modify's
\* WHERE rv = r), a blind one keeps the stored revision.
StoreUpdate(k, rv) ==
    IF rv = NoRev \/ rv # rows[k] THEN rows ELSE [rows EXCEPT ![k] = rv + 1]

\* Handler.Update and RestAPI.Update: admission, conversion, store.Update.
\* Its pre-read returns gorm's ErrRecordNotFound unmapped for a missing row.
Update(k, rv, dv, dm, f) ==
    LET a == DoAdmit("UPDATE", dv, dm) IN
    /\ denied' = Denied("UPDATE", dv, dm)
    /\ rv # NoRev => rv < MaxRev
    /\ \/ /\ a # "allow"
          /\ Answer("update", k, ErrOfVerdict(a), "admit") /\ UNCHANGED rows
       \/ /\ a = "allow" /\ f = "tostorage"
          /\ Answer("update", k, "raw", "convert") /\ UNCHANGED rows
       \/ /\ a = "allow" /\ f # "tostorage" /\ rows[k] = 0
          /\ Answer("update", k, ConvertStorageError("raw"), "storeraw")
          /\ UNCHANGED rows
       \/ /\ a = "allow" /\ f # "tostorage" /\ rows[k] # 0
          /\ rv # NoRev /\ rv # rows[k]
          /\ rows' = StoreUpdate(k, rv)
          /\ Answer("update", k, ConvertStorageError("sConflict"), "conflict")
       \/ /\ a = "allow" /\ f # "tostorage" /\ rows[k] # 0
          /\ rv = NoRev \/ rv = rows[k]
          /\ rows' = StoreUpdate(k, rv)
          /\ AnswerCommitted("update", k, f)

\* Handler.Delete and RestAPI.Delete: admission on an ObjectMeta holding
\* only the key, then store.Delete without a revision.
Delete(k, dv, dm, f) ==
    LET a == DoAdmit("DELETE", dv, dm) IN
    /\ denied' = Denied("DELETE", dv, dm)
    /\ \/ /\ a # "allow"
          /\ Answer("delete", k, ErrOfVerdict(a), "admit") /\ UNCHANGED rows
       \/ /\ a = "allow" /\ rows[k] = 0
          /\ Answer("delete", k, ConvertStorageError("sNotFound"), "notfound")
          /\ UNCHANGED rows
       \/ /\ a = "allow" /\ rows[k] # 0
          /\ rows' = [rows EXCEPT ![k] = 0]
          /\ AnswerCommitted("delete", k, f)

\* A selector: one selector.Parse rejects, one GenerateConditions rejects
\* (an unknown field, an operator or a value its column type does not take),
\* or a valid one and the keys whose rows it matches.
Selectors ==
    {[kind |-> "unparsable", match |-> {}], [kind |-> "uncompilable", match |-> {}]}
        \cup {[kind |-> "valid", match |-> m] : m \in SUBSET Keys}

\* The value a List query parameter gives, or the handler's default.
ParamValue(p, default) == IF p = NoParam THEN default ELSE p

\* RestAPI.GetList's normalisation of a negative offset or limit to 0.
NonNeg(n) == IF n < 0 THEN 0 ELSE n

\* Mutant: the page size forgets that an offset past the end leaves no rows.
PageSizeNoClamp(n, off, lim) == IF n - off < lim THEN n - off ELSE lim

\* The rows store.GetList's FindByPage returns: the matching rows, in key
\* order, from position off + 1 on, at most lim of them.
PageSize(n, off, lim) ==
    IF n - off < 0 THEN 0 ELSE IF n - off < lim THEN n - off ELSE lim

\* Handler.List and RestAPI.GetList.  The handler parses offset (default 0)
\* and limit (default 10); GetList normalises them, parses the selector,
\* compiles it (GenerateConditions) and pages; the handler then sets
\* Continue from the offset and limit it parsed.
List(op, lp, sel, f) ==
    LET offv  == ParamValue(op, 0)
        limv  == ParamValue(lp, 10)
        match == {k \in sel.match : rows[k] # 0}
        n     == Cardinality(match)
        size  == PageSize(n, NonNeg(offv), NonNeg(limv))
    IN
    /\ UNCHANGED rows /\ denied' = FALSE
    /\ \/ /\ op = BadNum \/ lp = BadNum
          /\ Answer("list", EmptyKey, "raw", "param")
       \/ /\ op # BadNum /\ lp # BadNum /\ sel.kind # "valid"
          /\ Answer("list", EmptyKey, ConvertStorageError("raw"), "selector")
       \/ /\ op # BadNum /\ lp # BadNum /\ sel.kind = "valid"
          /\ f = "fromstorage" /\ size > 0
          /\ Answer("list", EmptyKey, "raw", "convert")
       \/ /\ op # BadNum /\ lp # BadNum /\ sel.kind = "valid"
          /\ f # "fromstorage" \/ size = 0
          /\ resp' = [op |-> "list", key |-> EmptyKey, code |-> 200, err |-> "nil",
                      cause |-> "none", count |-> n, items |-> size,
                      cont |-> offv + limv < n, offset |-> op, limit |-> lp]
          /\ nreq' = nreq + 1

\* The plug-ins of the chain.
Plugins == Validators \cup Mutators

Next ==
    /\ nreq < MaxReqs
    /\ \E f \in FaultsOf :
        \/ \E k \in Keys : Get(k, f)
        \/ \E op \in OffsetParams, lp \in LimitParams, sel \in Selectors :
               List(op, lp, sel, f)
        \/ \E dv, dm \in [Plugins -> Verdicts] :
               \/ \E k \in Keys \cup {EmptyKey} : Create(k, dv, dm, f)
               \/ \E k \in Keys, rv \in {NoRev} \cup 1..MaxRev :
                      Update(k, rv, dv, dm, f)
               \/ \E k \in Keys : Delete(k, dv, dm, f)

Spec == Init /\ [][Next]_vars

-----------------------------------------------------------------------------
(* Properties.                                                             *)

\* The status spec section 7 gives each failure: storage kinds map 1:1 to
\* API kinds (NotFound 404, AlreadyExists and ConcurrentConflict 409), an
\* empty key is a BadRequest, and a failing converter, publisher or other
\* Store error is Internal.
SpecStatus == [none |-> 200, emptykey |-> 400, notfound |-> 404,
               exists |-> 409, conflict |-> 409, storeraw |-> 500,
               publish |-> 500, convert |-> 500]

(* Every response carries the status spec section 7 gives the failure     *)
(* behind it: a Store error crosses store.go's storage StatusError,        *)
(* convertStorageError (rest.go:56-70) and Handler.Error's APIStatus test  *)
(* (handler.go:32-47), which writes anything else as a 500.               *)
StatusFollowsCause ==
    resp # NoParam /\ resp.cause \in DOMAIN SpecStatus =>
        resp.code = SpecStatus[resp.cause]

(* A request changes the table only if every admission plug-in handling   *)
(* its operation allowed it: doAdmit (rest.go:72-95) runs the chain's     *)
(* Validate and then its Admit, and the first refusal aborts the call.     *)
WriteOnlyIfAdmitted == [][rows' # rows => ~denied']_vars

(* A request answered with a 4xx status left the table as it was: only a   *)
(* success, or a 500 from a Publish or conversion failing after the       *)
(* autocommitted write (store.go:162, 255, 279), may come with a change.   *)
ClientErrorHasNoEffect == [][resp'.code \in 400..499 => rows' = rows]_vars

(* The Continue flag of a List answer is the external contract of spec     *)
(* sections 4.D and 4.F: offset + limit < count, computed from the offset *)
(* and limit after GetList's normalisation (rest.go:116-121); the handler *)
(* computes it from the values it parsed (handler.go:106).                *)
ContinueFollowsContract ==
    resp # NoParam /\ resp.op = "list" /\ resp.code = 200 =>
        resp.cont = (NonNeg(ParamValue(resp.offset, 0))
                       + NonNeg(ParamValue(resp.limit, 10)) < resp.count)

=============================================================================
