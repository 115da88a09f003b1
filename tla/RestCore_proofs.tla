-------------------------- MODULE RestCore_proofs ---------------------------
(***************************************************************************)
(* Proofs about RestCore for every value of its constants: type            *)
(* correctness, the status each failure is answered with, and the two      *)
(* rules on writes: only admitted requests write, and a 4xx answer comes   *)
(* with no write.                                                          *)
(***************************************************************************)
EXTENDS RestCore, FiniteSetTheorems, WellFoundedInduction, TLAPS

\* The assumptions on the constants, but for the chain's type, which only
\* the chain lemmas need.
LEMMA ConstantFacts ==
    /\ Keys \subseteq Nat \ {0} /\ EmptyKey \notin Keys
    /\ MaxRev \in Nat \ {0} /\ MaxReqs \in Nat
    /\ NoRev \notin Int
    /\ HandlesOps \in [Validators \cup Mutators -> SUBSET AdmitOps]
    /\ Faults \subseteq {"publish", "convert"}
    /\ OffsetParams \subseteq Int \cup {NoParam, BadNum}
    /\ LimitParams \subseteq (Nat \ {0}) \cup {NoParam, BadNum}
BY RestCoreAssumption DEF RestCoreAssumption

LEMMA ChainType == Chain \in Seq(Plugins)
BY RestCoreAssumption DEF RestCoreAssumption, Plugins

USE ConstantFacts DEF AdmitOps, Verdicts, Plugins

\* The keys that have a row.
Stored == {k \in Keys : rows[k] # 0}

(* The table holds finitely many rows: each request writes at most one.    *)
(* TypeOK needs it, since a List answers with the number of matching rows. *)
FiniteTable == IsFiniteSet(Stored)

\* The inductive invariant.
IInv == TypeOK /\ FiniteTable

-----------------------------------------------------------------------------
(* Lemmas about the chain.                                                 *)

\* A non-empty set of naturals has a least element.
LEMMA LeastIndex ==
    ASSUME NEW T \in SUBSET Nat, T # {}
    PROVE  \E i \in T : \A j \in T : i <= j
<1>1. T \subseteq Nat
  OBVIOUS
<1>2. PICK x \in T : \A y \in T : <<y, x>> \notin OpToRel(<, Nat)
  BY <1>1, WFMin, NatLessThanWellFounded, ZenonT(120)
<1>3. \A y \in T : ~(y < x)
  BY <1>1, <1>2, Zenon DEF OpToRel
<1>4. QED
  BY <1>1, <1>3

\* chain.Validate or chain.Admit returns a refusal when a plug-in of the
\* kind run handles op and refuses.
LEMMA ChainRunRefuses ==
    ASSUME NEW S, NEW op, NEW v \in [Plugins -> Verdicts],
           NEW i \in 1..Len(Chain), Chain[i] \in S,
           op \in HandlesOps[Chain[i]], v[Chain[i]] # "allow"
    PROVE  ChainRun(S, op, v) # "allow"
<1> DEFINE Refusing == {j \in 1..Len(Chain) : /\ Chain[j] \in S
                                              /\ op \in HandlesOps[Chain[j]]
                                              /\ v[Chain[j]] # "allow"}
<1>1. i \in Refusing /\ Refusing \in SUBSET Nat /\ Refusing # {}
  BY ChainType
<1>2. \E m \in Refusing : \A j \in Refusing : m <= j
  BY <1>1, LeastIndex, Zenon
<1>3. LET m == CHOOSE m \in Refusing : \A j \in Refusing : m <= j
      IN  v[Chain[m]] # "allow"
  BY <1>2
<1>4. QED
  BY <1>1, <1>3 DEF ChainRun

(* doAdmit allows a request only if no plug-in handling its operation      *)
(* refused it, as a validator or as a mutator.                             *)
LEMMA AdmitMeansNotDenied ==
    ASSUME NEW op, NEW dv \in [Plugins -> Verdicts], NEW dm \in [Plugins -> Verdicts],
           DoAdmit(op, dv, dm) = "allow"
    PROVE  ~Denied(op, dv, dm)
<1> SUFFICES ASSUME NEW i \in 1..Len(Chain), op \in HandlesOps[Chain[i]],
                    \/ Chain[i] \in Validators /\ dv[Chain[i]] # "allow"
                    \/ Chain[i] \in Mutators /\ dm[Chain[i]] # "allow"
             PROVE  FALSE
  BY DEF Denied
<1>1. ChainHandles(op)
  BY DEF ChainHandles
<1>2. CASE Chain[i] \in Validators /\ dv[Chain[i]] # "allow"
  <2>1. ChainRun(Validators, op, dv) # "allow"
    BY <1>2, ChainRunRefuses
  <2>2. QED BY <1>1, <2>1 DEF DoAdmit
<1>3. CASE Chain[i] \in Mutators /\ dm[Chain[i]] # "allow"
  <2>1. ChainRun(Mutators, op, dm) # "allow"
    BY <1>3, ChainRunRefuses
  <2>2. QED BY <1>1, <2>1 DEF DoAdmit
<1>4. QED BY <1>2, <1>3

-----------------------------------------------------------------------------
(* Lemmas about responses.                                                 *)

LEMMA ConvertType ==
    ASSUME NEW e \in Errors PROVE ConvertStorageError(e) \in Errors
BY DEF ConvertStorageError, Errors, APIKinds, StorageKinds

LEMMA ErrOfVerdictType ==
    ASSUME NEW v PROVE ErrOfVerdict(v) \in Errors
BY DEF ErrOfVerdict, Errors, APIKinds

\* What Answer writes.
LEMMA AnswerFacts ==
    ASSUME NEW op \in Ops, NEW k \in Keys \cup {EmptyKey}, NEW e \in Errors,
           NEW c \in Causes, Answer(op, k, e, c)
    PROVE  /\ resp' \in Responses
           /\ resp'.code = Code(e) /\ resp'.cause = c /\ resp'.op = op
           /\ nreq' = nreq + 1
<1>1. Code(e) \in Nat
  BY DEF Code, StatusOf, APICode, APIKinds
<1>2. resp' \in Responses
  BY <1>1 DEF Answer, Responses
<1>3. QED
  BY <1>2 DEF Answer, Responses

\* A committed write is answered 200, or 500 when Publish or FromStorage failed.
LEMMA CommittedAnswer ==
    ASSUME NEW op, NEW k, NEW f, AnswerCommitted(op, k, f)
    PROVE  \/ Answer(op, k, "raw", "publish")
           \/ Answer(op, k, "raw", "convert")
           \/ Answer(op, k, "nil", "none")
BY DEF AnswerCommitted

\* The page FindByPage returns is a natural number of rows.
LEMMA PageSizeType ==
    ASSUME NEW n \in Nat, NEW off \in Nat, NEW lim \in Nat
    PROVE  PageSize(n, off, lim) \in Nat
BY DEF PageSize

\* The shape every request step has: it writes a response, counts itself,
\* and writes at most the row of key k.
Step(k) ==
    /\ resp' \in Responses /\ nreq' = nreq + 1 /\ denied' \in BOOLEAN
    /\ rows' \in [Keys -> 0..MaxRev]
    /\ {j \in Keys : rows'[j] # 0} \subseteq Stored \cup {k}

LEMMA GetStep ==
    ASSUME TypeOK, NEW k \in Keys, NEW f, Get(k, f) PROVE Step(k)
<1>1. resp' \in Responses /\ nreq' = nreq + 1
  <2>1. CASE rows[k] = 0
    BY <2>1, ConvertType, AnswerFacts DEF Get, Ops, Errors, StorageKinds, Causes
  <2>2. CASE rows[k] # 0
    BY <2>2, AnswerFacts DEF Get, Ops, Errors, Causes
  <2>3. QED BY <2>1, <2>2
<1>2. QED
  BY <1>1 DEF Get, Step, Stored, TypeOK

LEMMA ListStep ==
    ASSUME TypeOK, FiniteTable, NEW op \in OffsetParams, NEW lp \in LimitParams,
           NEW sel \in Selectors, NEW f, List(op, lp, sel, f)
    PROVE  Step(EmptyKey)
<1> DEFINE offv  == ParamValue(op, 0)
           limv  == ParamValue(lp, 10)
           match == {k \in sel.match : rows[k] # 0}
           n     == Cardinality(match)
           size  == PageSize(n, NonNeg(offv), NonNeg(limv))
<1>1. CASE op = BadNum \/ lp = BadNum
  BY <1>1, AnswerFacts DEF List, Ops, Errors, Causes, Step, TypeOK, Stored
<1>2. CASE op # BadNum /\ lp # BadNum /\ sel.kind # "valid"
  BY <1>2, ConvertType, AnswerFacts DEF List, Ops, Errors, Causes, Step, TypeOK, Stored
<1>3. CASE op # BadNum /\ lp # BadNum /\ sel.kind = "valid"
  <2>0. sel.match \subseteq Keys
    <3>1. \/ sel = [kind |-> "unparsable", match |-> {}]
          \/ sel = [kind |-> "uncompilable", match |-> {}]
          \/ \E m \in SUBSET Keys : sel = [kind |-> "valid", match |-> m]
      BY DEF Selectors
    <3>2. CASE \E m \in SUBSET Keys : sel = [kind |-> "valid", match |-> m]
      <4>1. PICK m \in SUBSET Keys : sel = [kind |-> "valid", match |-> m]
        BY <3>2
      <4>2. QED BY <4>1
    <3>3. QED BY <3>1, <3>2
  <2>1. match \subseteq Stored
    BY <2>0 DEF Stored
  <2>2. n \in Nat
    BY <2>1, FS_Subset, FS_CardinalityType DEF FiniteTable
  <2>3. offv \in Int /\ limv \in Nat
    BY <1>3 DEF ParamValue
  <2>4. size \in Nat
    <3>1. NonNeg(offv) \in Nat /\ NonNeg(limv) \in Nat
      BY <2>3 DEF NonNeg
    <3>2. QED BY <2>2, <3>1, PageSizeType
  <2>5. CASE f = "fromstorage" /\ size > 0
    <3>1. Answer("list", EmptyKey, "raw", "convert") /\ UNCHANGED rows
          /\ denied' = FALSE
      BY <1>3, <2>5 DEF List
    <3>2. QED
      BY <3>1, AnswerFacts DEF Ops, Errors, Causes, Step, TypeOK, Stored
  <2>6. CASE ~(f = "fromstorage" /\ size > 0)
    <3>1. /\ resp' = [op |-> "list", key |-> EmptyKey, code |-> 200, err |-> "nil",
                      cause |-> "none", count |-> n, items |-> size,
                      cont |-> offv + limv < n, offset |-> op, limit |-> lp]
          /\ nreq' = nreq + 1 /\ UNCHANGED rows /\ denied' = FALSE
      BY <1>3, <2>6 DEF List
    <3>2. resp' \in Responses
      BY <3>1, <2>2, <2>3, <2>4 DEF Responses, Errors, Causes, Ops
    <3>3. QED
      BY <3>1, <3>2 DEF Step, TypeOK, Stored
  <2>7. QED BY <2>5, <2>6
<1>4. QED BY <1>1, <1>2, <1>3

\* A committed write's answer is a response counted once.
LEMMA CommittedStep ==
    ASSUME NEW op \in Ops, NEW k \in Keys, NEW f, AnswerCommitted(op, k, f)
    PROVE  resp' \in Responses /\ nreq' = nreq + 1
BY CommittedAnswer, AnswerFacts DEF Errors, Causes

LEMMA CreateStep ==
    ASSUME TypeOK, NEW k \in Keys \cup {EmptyKey}, NEW dv, NEW dm, NEW f,
           Create(k, dv, dm, f)
    PROVE  Step(k)
<1> DEFINE a == DoAdmit("CREATE", dv, dm)
<1>1. denied' \in BOOLEAN
  BY DEF Create, Denied
<1>2. resp' \in Responses /\ nreq' = nreq + 1
  <2>1. CASE k = EmptyKey
    <3>1. Answer("create", k, "BadRequest", "emptykey")
      BY <2>1 DEF Create
    <3>2. QED BY <3>1, AnswerFacts DEF Ops, Errors, APIKinds, Causes
  <2>2. CASE k # EmptyKey /\ a # "allow"
    <3>1. Answer("create", k, ErrOfVerdict(a), "admit")
      BY <2>2 DEF Create
    <3>2. QED BY <3>1, AnswerFacts, ErrOfVerdictType DEF Ops, Causes
  <2>3. CASE k # EmptyKey /\ a = "allow"
    <3>1. \/ Answer("create", k, "raw", "convert")
          \/ Answer("create", k, ConvertStorageError("sAlreadyExist"), "exists")
          \/ AnswerCommitted("create", k, f)
      BY <2>3 DEF Create
    <3>2. k \in Keys
      BY <2>3
    <3>3. QED
      BY <3>1, <3>2, AnswerFacts, ConvertType, CommittedStep
      DEF Ops, Errors, StorageKinds, Causes
  <2>4. QED BY <2>1, <2>2, <2>3
<1>3. /\ rows' \in [Keys -> 0..MaxRev]
      /\ \A j \in Keys \ {k} : rows'[j] = rows[j]
  <2>1. rows' = rows \/ (k \in Keys /\ rows' = [rows EXCEPT ![k] = 1])
    BY DEF Create
  <2>2. QED BY <2>1 DEF TypeOK
<1>4. QED BY <1>1, <1>2, <1>3 DEF Step, Stored

\* store.Update leaves a row of revision at most MaxRev, and only the row k.
LEMMA StoreUpdateType ==
    ASSUME TypeOK, NEW k \in Keys, NEW rv \in {NoRev} \cup 1..MaxRev,
           rv # NoRev => rv < MaxRev
    PROVE  /\ StoreUpdate(k, rv) \in [Keys -> 0..MaxRev]
           /\ \A j \in Keys \ {k} : StoreUpdate(k, rv)[j] = rows[j]
BY DEF StoreUpdate, TypeOK

LEMMA UpdateStep ==
    ASSUME TypeOK, NEW k \in Keys, NEW rv \in {NoRev} \cup 1..MaxRev,
           NEW dv, NEW dm, NEW f, Update(k, rv, dv, dm, f)
    PROVE  Step(k)
<1>1. denied' \in BOOLEAN /\ (rv # NoRev => rv < MaxRev)
  BY DEF Update, Denied
<1>2. /\ rows' \in [Keys -> 0..MaxRev]
      /\ \A j \in Keys \ {k} : rows'[j] = rows[j]
  <2>1. rows' = rows \/ rows' = StoreUpdate(k, rv)
    BY DEF Update
  <2>2. QED BY <1>1, <2>1, StoreUpdateType DEF TypeOK
<1>3. resp' \in Responses /\ nreq' = nreq + 1
  BY AnswerFacts, ConvertType, ErrOfVerdictType, CommittedStep
  DEF Update, Ops, Errors, StorageKinds, Causes
<1>4. QED BY <1>1, <1>2, <1>3 DEF Step, Stored

LEMMA DeleteStep ==
    ASSUME TypeOK, NEW k \in Keys, NEW dv, NEW dm, NEW f, Delete(k, dv, dm, f)
    PROVE  Step(k)
<1>1. denied' \in BOOLEAN
  BY DEF Delete, Denied
<1>2. /\ rows' \in [Keys -> 0..MaxRev]
      /\ \A j \in Keys \ {k} : rows'[j] = rows[j]
  BY DEF Delete, TypeOK
<1>3. resp' \in Responses /\ nreq' = nreq + 1
  BY AnswerFacts, ConvertType, ErrOfVerdictType, CommittedStep
  DEF Delete, Ops, Errors, StorageKinds, Causes
<1>4. QED BY <1>1, <1>2, <1>3 DEF Step, Stored

\* A request step within the bound keeps the invariant.
LEMMA StepIInv ==
    ASSUME TypeOK, FiniteTable, nreq < MaxReqs, NEW k, Step(k)
    PROVE  IInv'
<1>1. TypeOK'
  BY DEF Step, TypeOK
<1>2. FiniteTable'
  <2>1. IsFiniteSet(Stored \cup {k})
    BY FS_AddElement DEF FiniteTable
  <2>2. QED BY <2>1, FS_Subset DEF Step, Stored, FiniteTable
<1>3. QED BY <1>1, <1>2 DEF IInv

LEMMA InitIInv == Init => IInv
<1> SUFFICES ASSUME Init PROVE IInv
  OBVIOUS
<1>1. TypeOK
  <2>1. rows \in [Keys -> 0..MaxRev]
    BY DEF Init
  <2>2. resp \in Responses \cup {NoParam}
    BY DEF Init
  <2>3. nreq \in 0..MaxReqs
    BY DEF Init
  <2>5. denied \in BOOLEAN
    BY DEF Init
  <2>4. QED BY <2>1, <2>2, <2>3, <2>5 DEF TypeOK
<1>2. Stored = {}
  BY DEF Init, Stored
<1>3. QED BY <1>1, <1>2, FS_EmptySet DEF IInv, FiniteTable

LEMMA NextIInv == IInv /\ [Next]_vars => IInv'
<1> SUFFICES ASSUME TypeOK, FiniteTable, [Next]_vars PROVE IInv'
  BY DEF IInv
<1>1. CASE Next
  <2>1. nreq < MaxReqs
    BY <1>1 DEF Next
  <2>2. PICK f \in FaultsOf :
          \/ \E k \in Keys : Get(k, f)
          \/ \E op \in OffsetParams, lp \in LimitParams, sel \in Selectors :
                 List(op, lp, sel, f)
          \/ \E dv, dm \in [Plugins -> Verdicts] :
                 \/ \E k \in Keys \cup {EmptyKey} : Create(k, dv, dm, f)
                 \/ \E k \in Keys, rv \in {NoRev} \cup 1..MaxRev :
                        Update(k, rv, dv, dm, f)
                 \/ \E k \in Keys : Delete(k, dv, dm, f)
    BY <1>1 DEF Next
  <2>3. \E k : Step(k)
    <3>1. CASE \E k \in Keys : Get(k, f)
      BY <3>1, GetStep
    <3>2. CASE \E op \in OffsetParams, lp \in LimitParams, sel \in Selectors :
                   List(op, lp, sel, f)
      BY <3>2, ListStep
    <3>3. CASE \E dv, dm \in [Plugins -> Verdicts] :
                   \/ \E k \in Keys \cup {EmptyKey} : Create(k, dv, dm, f)
                   \/ \E k \in Keys, rv \in {NoRev} \cup 1..MaxRev :
                          Update(k, rv, dv, dm, f)
                   \/ \E k \in Keys : Delete(k, dv, dm, f)
      BY <3>3, CreateStep, UpdateStep, DeleteStep
    <3>4. QED BY <2>2, <3>1, <3>2, <3>3
  <2>4. QED BY <2>1, <2>3, StepIInv
<1>2. CASE UNCHANGED vars
  BY <1>2 DEF vars, IInv, TypeOK, FiniteTable, Stored
<1>3. QED BY <1>1, <1>2

-----------------------------------------------------------------------------
(* Lemmas for the status of each answer and the writes of each request.    *)

\* An answer whose error has the status its cause calls for.
LEMMA AnswerStatus ==
    ASSUME NEW op, NEW k, NEW e, NEW c, Answer(op, k, e, c),
           c \in DOMAIN SpecStatus => Code(e) = SpecStatus[c]
    PROVE  StatusFollowsCause'
BY DEF Answer, StatusFollowsCause

LEMMA CommittedStatus ==
    ASSUME NEW op, NEW k, NEW f, AnswerCommitted(op, k, f)
    PROVE  StatusFollowsCause' /\ resp'.code \in {200, 500}
<1>1. Code("raw") = 500 /\ Code("nil") = 200
  BY DEF Code, StatusOf, APIKinds
<1>2. QED
  BY <1>1, CommittedAnswer, AnswerStatus DEF Answer, SpecStatus

\* The status Code gives the errors convertStorageError returns.
LEMMA ConvertedCodes ==
    /\ Code(ConvertStorageError("sNotFound")) = 404
    /\ Code(ConvertStorageError("sAlreadyExist")) = 409
    /\ Code(ConvertStorageError("sConflict")) = 409
    /\ Code(ConvertStorageError("raw")) = 500
    /\ Code("raw") = 500 /\ Code("nil") = 200 /\ Code("BadRequest") = 400
BY DEF Code, StatusOf, APICode, APIKinds, ConvertStorageError

LEMMA GetStatus ==
    ASSUME NEW k, NEW f, Get(k, f) PROVE StatusFollowsCause'
BY ConvertedCodes, AnswerStatus DEF Get, SpecStatus

LEMMA ListStatus ==
    ASSUME NEW op, NEW lp, NEW sel, NEW f, List(op, lp, sel, f)
    PROVE  StatusFollowsCause'
<1>1. CASE resp'.code = 200 /\ resp'.cause = "none"
  BY <1>1 DEF StatusFollowsCause, SpecStatus
<1>2. CASE ~(resp'.code = 200 /\ resp'.cause = "none")
  <2>1. \/ Answer("list", EmptyKey, "raw", "param")
        \/ Answer("list", EmptyKey, ConvertStorageError("raw"), "selector")
        \/ Answer("list", EmptyKey, "raw", "convert")
    BY <1>2 DEF List
  <2>2. QED BY <2>1, ConvertedCodes, AnswerStatus DEF SpecStatus
<1>3. QED BY <1>1, <1>2

\* A request that writes was admitted and is answered 200 or 500.
WriteRule(op, dv, dm) ==
    rows' # rows => ~denied' /\ resp'.code \in {200, 500}

LEMMA CreateRules ==
    ASSUME NEW k, NEW dv \in [Plugins -> Verdicts], NEW dm \in [Plugins -> Verdicts],
           NEW f, Create(k, dv, dm, f)
    PROVE  StatusFollowsCause' /\ WriteRule("CREATE", dv, dm)
<1> DEFINE a == DoAdmit("CREATE", dv, dm)
<1>1. CASE k # EmptyKey /\ a = "allow" /\ f # "tostorage" /\ rows[k] = 0
  <2>1. AnswerCommitted("create", k, f) /\ denied' = Denied("CREATE", dv, dm)
    BY <1>1 DEF Create
  <2>2. ~Denied("CREATE", dv, dm)
    BY <1>1, AdmitMeansNotDenied
  <2>3. StatusFollowsCause' /\ resp'.code \in {200, 500}
    BY <2>1, CommittedStatus
  <2>4. QED BY <2>1, <2>2, <2>3 DEF WriteRule
<1>2. CASE ~(k # EmptyKey /\ a = "allow" /\ f # "tostorage" /\ rows[k] = 0)
  <2>1. /\ UNCHANGED rows
        /\ \/ Answer("create", k, "BadRequest", "emptykey")
           \/ Answer("create", k, ErrOfVerdict(a), "admit")
           \/ Answer("create", k, "raw", "convert")
           \/ Answer("create", k, ConvertStorageError("sAlreadyExist"), "exists")
    BY <1>2 DEF Create
  <2>2. QED BY <2>1, ConvertedCodes, AnswerStatus DEF SpecStatus, WriteRule
<1>3. QED BY <1>1, <1>2

LEMMA UpdateRules ==
    ASSUME NEW k, NEW rv, NEW dv \in [Plugins -> Verdicts],
           NEW dm \in [Plugins -> Verdicts], NEW f, Update(k, rv, dv, dm, f)
    PROVE  StatusFollowsCause' /\ WriteRule("UPDATE", dv, dm)
<1> DEFINE a == DoAdmit("UPDATE", dv, dm)
<1>1. denied' = Denied("UPDATE", dv, dm)
  BY DEF Update
<1>2. CASE a = "allow" /\ f # "tostorage" /\ rows[k] # 0
           /\ (rv = NoRev \/ rv = rows[k])
  <2>1. AnswerCommitted("update", k, f)
    BY <1>2 DEF Update
  <2>2. ~Denied("UPDATE", dv, dm)
    BY <1>2, AdmitMeansNotDenied
  <2>3. StatusFollowsCause' /\ resp'.code \in {200, 500}
    BY <2>1, CommittedStatus
  <2>4. QED BY <1>1, <2>2, <2>3 DEF WriteRule
<1>3. CASE a = "allow" /\ f # "tostorage" /\ rows[k] # 0
           /\ rv # NoRev /\ rv # rows[k]
  <2>1. rows' = rows
    BY <1>3 DEF Update, StoreUpdate
  <2>2. Answer("update", k, ConvertStorageError("sConflict"), "conflict")
    BY <1>3 DEF Update
  <2>3. QED BY <2>1, <2>2, ConvertedCodes, AnswerStatus DEF SpecStatus, WriteRule
<1>4. CASE ~(a = "allow" /\ f # "tostorage" /\ rows[k] # 0)
  <2>1. /\ UNCHANGED rows
        /\ \/ Answer("update", k, ErrOfVerdict(a), "admit")
           \/ Answer("update", k, "raw", "convert")
           \/ Answer("update", k, ConvertStorageError("raw"), "storeraw")
    BY <1>4 DEF Update
  <2>2. QED BY <2>1, ConvertedCodes, AnswerStatus DEF SpecStatus, WriteRule
<1>5. QED BY <1>2, <1>3, <1>4

LEMMA DeleteRules ==
    ASSUME NEW k, NEW dv \in [Plugins -> Verdicts], NEW dm \in [Plugins -> Verdicts],
           NEW f, Delete(k, dv, dm, f)
    PROVE  StatusFollowsCause' /\ WriteRule("DELETE", dv, dm)
<1> DEFINE a == DoAdmit("DELETE", dv, dm)
<1>1. CASE a = "allow" /\ rows[k] # 0
  <2>1. AnswerCommitted("delete", k, f) /\ denied' = Denied("DELETE", dv, dm)
    BY <1>1 DEF Delete
  <2>2. ~Denied("DELETE", dv, dm)
    BY <1>1, AdmitMeansNotDenied
  <2>3. StatusFollowsCause' /\ resp'.code \in {200, 500}
    BY <2>1, CommittedStatus
  <2>4. QED BY <2>1, <2>2, <2>3 DEF WriteRule
<1>2. CASE ~(a = "allow" /\ rows[k] # 0)
  <2>1. /\ UNCHANGED rows
        /\ \/ Answer("delete", k, ErrOfVerdict(a), "admit")
           \/ Answer("delete", k, ConvertStorageError("sNotFound"), "notfound")
    BY <1>2 DEF Delete
  <2>2. QED BY <2>1, ConvertedCodes, AnswerStatus DEF SpecStatus, WriteRule
<1>3. QED BY <1>1, <1>2

\* Every request step writes an answer with the right status, and writes
\* the table only when admitted and answered 200 or 500.
LEMMA NextRules ==
    ASSUME Next
    PROVE  StatusFollowsCause' /\ (rows' # rows => ~denied' /\ resp'.code \in {200, 500})
<1>1. PICK f \in FaultsOf :
        \/ \E k \in Keys : Get(k, f)
        \/ \E op \in OffsetParams, lp \in LimitParams, sel \in Selectors :
               List(op, lp, sel, f)
        \/ \E dv, dm \in [Plugins -> Verdicts] :
               \/ \E k \in Keys \cup {EmptyKey} : Create(k, dv, dm, f)
               \/ \E k \in Keys, rv \in {NoRev} \cup 1..MaxRev :
                      Update(k, rv, dv, dm, f)
               \/ \E k \in Keys : Delete(k, dv, dm, f)
  BY DEF Next
<1>2. CASE \E k \in Keys : Get(k, f)
  BY <1>2, GetStatus DEF Get
<1>3. CASE \E op \in OffsetParams, lp \in LimitParams, sel \in Selectors :
               List(op, lp, sel, f)
  <2>1. PICK op \in OffsetParams, lp \in LimitParams, sel \in Selectors :
               List(op, lp, sel, f)
    BY <1>3
  <2>2. UNCHANGED rows
    BY <2>1 DEF List
  <2>3. QED BY <2>1, <2>2, ListStatus
<1>4. CASE \E dv, dm \in [Plugins -> Verdicts] :
               \/ \E k \in Keys \cup {EmptyKey} : Create(k, dv, dm, f)
               \/ \E k \in Keys, rv \in {NoRev} \cup 1..MaxRev :
                      Update(k, rv, dv, dm, f)
               \/ \E k \in Keys : Delete(k, dv, dm, f)
  <2>1. PICK dv, dm \in [Plugins -> Verdicts] :
               \/ \E k \in Keys \cup {EmptyKey} : Create(k, dv, dm, f)
               \/ \E k \in Keys, rv \in {NoRev} \cup 1..MaxRev :
                      Update(k, rv, dv, dm, f)
               \/ \E k \in Keys : Delete(k, dv, dm, f)
    BY <1>4
  <2>2. CASE \E k \in Keys \cup {EmptyKey} : Create(k, dv, dm, f)
    <3>1. PICK k \in Keys \cup {EmptyKey} : Create(k, dv, dm, f)
      BY <2>2
    <3>2. StatusFollowsCause' /\ WriteRule("CREATE", dv, dm)
      BY <2>1, <3>1, CreateRules
    <3>3. QED BY <3>2 DEF WriteRule
  <2>3. CASE \E k \in Keys, rv \in {NoRev} \cup 1..MaxRev : Update(k, rv, dv, dm, f)
    <3>1. PICK k \in Keys, rv \in {NoRev} \cup 1..MaxRev : Update(k, rv, dv, dm, f)
      BY <2>3
    <3>2. StatusFollowsCause' /\ WriteRule("UPDATE", dv, dm)
      BY <2>1, <3>1, UpdateRules
    <3>3. QED BY <3>2 DEF WriteRule
  <2>4. CASE \E k \in Keys : Delete(k, dv, dm, f)
    <3>1. PICK k \in Keys : Delete(k, dv, dm, f)
      BY <2>4
    <3>2. StatusFollowsCause' /\ WriteRule("DELETE", dv, dm)
      BY <2>1, <3>1, DeleteRules
    <3>3. QED BY <3>2 DEF WriteRule
  <2>5. QED BY <2>1, <2>2, <2>3, <2>4
<1>5. QED BY <1>1, <1>2, <1>3, <1>4

-----------------------------------------------------------------------------
(* Theorems.                                                               *)

(* Type correctness of the REST layer: the table keeps revisions in        *)
(* 0..MaxRev and every answer written is a Status or an ObjectList whose   *)
(* count and page size are natural numbers, for any chain of plug-ins and *)
(* any sets of query parameters.                                           *)
THEOREM RestCoreTypeCorrect == Spec => []TypeOK
<1>1. Spec => []IInv
  BY InitIInv, NextIInv, PTL DEF Spec
<1>2. QED BY <1>1, PTL DEF IInv

(* Every response carries the status spec section 7 gives its cause,      *)
(* through convertStorageError (rest.go:56-70) and Handler.Error           *)
(* (handler.go:32-47), for any admission chain and any failure injected.   *)
THEOREM StatusFollowsCauseHolds == Spec => []StatusFollowsCause
<1>1. Init => StatusFollowsCause
  BY DEF Init, StatusFollowsCause
<1>2. StatusFollowsCause /\ [Next]_vars => StatusFollowsCause'
  BY NextRules DEF vars, StatusFollowsCause
<1>3. QED BY <1>1, <1>2, PTL DEF Spec

(* A request changes the table only when every plug-in of the chain that   *)
(* handles its operation allowed it (doAdmit, rest.go:72-95, over          *)
(* chain.go's Validate and Admit), whatever the chain.                     *)
THEOREM WriteOnlyIfAdmittedHolds == Spec => WriteOnlyIfAdmitted
<1>1. [Next]_vars => [rows' # rows => ~denied']_vars
  BY NextRules DEF vars
<1>2. QED BY <1>1, PTL DEF Spec, WriteOnlyIfAdmitted

(* A request answered 4xx left the table unchanged: the only writes are    *)
(* answered 200, or 500 when Publish or FromStorage failed after the       *)
(* autocommitted write, and a stale revisioned Update writes nothing.      *)
THEOREM ClientErrorHasNoEffectHolds == Spec => ClientErrorHasNoEffect
<1>1. [Next]_vars => [resp'.code \in 400..499 => rows' = rows]_vars
  <2>1. ASSUME Next PROVE resp'.code \in 400..499 => rows' = rows
    <3>1. rows' # rows => resp'.code \in {200, 500}
      BY <2>1, NextRules
    <3>2. SUFFICES ASSUME resp'.code \in 400..499, rows' # rows PROVE FALSE
      OBVIOUS
    <3>3. resp'.code \in {200, 500}
      BY <3>1, <3>2
    <3>4. QED BY <3>2, <3>3
  <2>2. QED BY <2>1 DEF vars
<1>2. QED BY <1>1, PTL DEF Spec, ClientErrorHasNoEffect

=============================================================================
