------------------------- MODULE ClientStoresProofs -------------------------
(***************************************************************************)
(* Proofs about ClientStores, for every set of namespaces and objects,     *)
(* every profile of a store and any number of requests in flight.          *)
(***************************************************************************)
EXTENDS ClientStores, TLAPS

\* The steps of Next by name.
LEMMA Steps ==
    ASSUME Next
    PROVE  \/ \E k \in Keys : Visit(k) \/ Refresh(k)
           \/ \E i \in Items, op \in {"create", "update", "delete"} : Submit(op, i) \/ Locally(op, i)
           \/ \E c \in calls : Serve(c)
           \/ \E c \in calls : Listed(c)
           \/ \E c \in calls : ListFails(c)
           \/ \E c \in calls : Answered(c)
           \/ \E c \in calls : Fails(c)
           \/ \E c \in calls : StatusAnswered(c)
PROOF BY DEF Next, Answer

\* The records of the model have their types.
LEMMA WorldType ==
    ASSUME TypeOK
    PROVE  store \in Profile /\ Home \in Keys /\ KeyOf \in [Items -> Keys]
PROOF BY StoresAssumption DEF TypeOK, store

LEMMA VersZero == 0 \in Vers /\ 1 \in Vers
PROOF BY StoresAssumption DEF Vers

LEMMA ResultType ==
    ASSUME TypeOK, NEW i \in Items, NEW op \in {"create", "update", "delete"}
    PROVE  Result(op, i) \in Vers
<1>1. server[i] \in 0..MaxVersion /\ MaxVersion \in Nat \ {0}
  BY StoresAssumption DEF TypeOK, Vers
<1>2. CASE op = "create"
  BY <1>2, VersZero DEF Result
<1>3. CASE op = "delete"
  BY <1>3, VersZero DEF Result
<1>4. CASE op = "update"
  <2>1. Result(op, i) = IF server[i] < MaxVersion THEN server[i] + 1 ELSE server[i]
    BY <1>4 DEF Result
  <2> QED BY <2>1, <1>1 DEF Vers
<1> QED BY <1>2, <1>3, <1>4

LEMMA RequestType ==
    ASSUME TypeOK, NEW op \in {"list", "status", "create", "update", "delete"},
           NEW k \in Keys, NEW i \in Items
    PROVE  Request(op, k, i) \in Call
<1>1. sent + 1 \in Nat
  BY DEF TypeOK
<1>2. [j \in Items |-> 0] \in [Items -> Vers]
  BY VersZero
<1> QED BY <1>1, <1>2 DEF Request, Call

LEMMA ClaimedType ==
    ASSUME NEW k \in Keys, NEW before \in SUBSET Keys
    PROVE  Claimed(k, before) \in SUBSET Keys
PROOF BY DEF Claimed

LEMMA SettledType ==
    ASSUME TypeOK, NEW k \in Keys
    PROVE  Settled(k) \in SUBSET Keys
PROOF BY DEF Settled, TypeOK

LEMMA SendListType ==
    ASSUME TypeOK, NEW k \in Keys, NEW before \in SUBSET Keys, NEW others \in SUBSET Call,
           SendList(k, before, others)
    PROVE  calls' \subseteq Call /\ sent' \in Nat /\ loaded' \subseteq Keys
<1>1. AnyItem \in Items
  BY StoresAssumption DEF AnyItem
<1>2. Request("list", k, AnyItem) \in Call
  BY <1>1, RequestType
<1>3. sent' \in Nat
  BY DEF SendList, TypeOK
<1> QED BY <1>2, <1>3, ClaimedType DEF SendList

LEMMA ReloadType ==
    ASSUME TypeOK, NEW k \in Keys, NEW others \in SUBSET Call, Reload(k, others)
    PROVE  calls' \subseteq Call /\ sent' \in Nat /\ loaded' \subseteq Keys
<1>1. CASE store.flag = "promise" /\ ListInFlight(k)
  BY <1>1 DEF Reload, TypeOK
<1>2. CASE ~(store.flag = "promise" /\ ListInFlight(k))
  <2> DEFINE before == IF store.flag = "after" THEN loaded ELSE loaded \ {k}
  <2>1. before \in SUBSET Keys
    BY DEF TypeOK
  <2>2. SendList(k, before, others)
    BY <1>2 DEF Reload
  <2> HIDE DEF before
  <2> QED BY <2>1, <2>2, SendListType
<1> QED BY <1>1, <1>2

LEMMA SetRowsType ==
    ASSUME TypeOK, NEW k \in Keys, NEW saw \in [Items -> Vers], SetRows(k, saw)
    PROVE  rows' \in [Items -> Nat] /\ shown' \in [Items -> Vers] /\ marked' \subseteq Items
<1>1. rows' \in [Items -> Nat]
  BY DEF SetRows, TypeOK
<1>2. shown' \in [Items -> Vers]
  BY VersZero DEF SetRows, TypeOK
<1>3. marked' \subseteq Items
  BY DEF SetRows, TypeOK
<1> QED BY <1>1, <1>2, <1>3

LEMMA RowSetType ==
    ASSUME TypeOK, NEW i \in Items, NEW n \in Nat, NEW v \in Vers, RowSet(i, n, v)
    PROVE  rows' \in [Items -> Nat] /\ shown' \in [Items -> Vers] /\ marked' \subseteq Items
PROOF BY VersZero DEF RowSet, TypeOK

LEMMA OverType ==
    ASSUME TypeOK, NEW c \in calls, Over(c)
    PROVE  calls' \subseteq Call /\ sent' \in Nat
PROOF BY DEF Over, TypeOK

\* What the rows become when a mutator without reload is answered.
LEMMA AnsweredRowSets ==
    ASSUME TypeOK, NEW op \in {"create", "update", "delete"}, NEW i \in Items, NEW v \in Vers,
           AnsweredRow(op, i, v)
    PROVE  \E n \in Nat, w \in Vers :
               /\ RowSet(i, n, w)
               /\ n \in {0, 1, rows[i]} \/ (store[op] = "add" /\ n = rows[i] + 1)
<1>1. rows[i] \in Nat /\ rows[i] + 1 \in Nat
  BY DEF TypeOK
<1>2. CASE store[op] = "add"
  BY <1>1, <1>2 DEF AnsweredRow
<1>3. CASE store[op] = "upsert"
  BY <1>1, <1>3 DEF AnsweredRow
<1>4. CASE store[op] = "filter"
  BY <1>1, <1>4, VersZero DEF AnsweredRow
<1>5. CASE store[op] \notin {"add", "upsert", "filter"}
  BY <1>1, <1>5 DEF AnsweredRow
<1> QED BY <1>2, <1>3, <1>4, <1>5

-----------------------------------------------------------------------------
(* Types *)

LEMMA ActsType == ASSUME TypeOK, Acts PROVE acts' \in 0..MaxActs
<1>1. acts \in 0..MaxActs /\ MaxActs \in Nat /\ MaxOverlap \in 0..MaxActs
  BY StoresAssumption DEF TypeOK
<1>2. acts' = acts + 1 /\ (acts < MaxActs \/ acts < MaxOverlap)
  BY DEF Acts
<1> QED BY <1>1, <1>2

LEMMA VisitType == ASSUME TypeOK, NEW k \in Keys, Visit(k) \/ Refresh(k) PROVE TypeOK'
<1>1. acts' \in 0..MaxActs
  BY ActsType DEF Visit, Refresh
<1>2. calls' \subseteq Call /\ sent' \in Nat /\ loaded' \subseteq Keys
  <2>1. CASE Visit(k)
    <3>1. CASE Asks(k)
      <4>1. loaded \in SUBSET Keys /\ calls \in SUBSET Call
        BY DEF TypeOK
      <4>2. SendList(k, loaded, calls)
        BY <2>1, <3>1 DEF Visit, Ensure
      <4> QED BY <4>1, <4>2, SendListType
    <3>2. CASE ~Asks(k)
      BY <2>1, <3>2 DEF Visit, Ensure, TypeOK
    <3> QED BY <3>1, <3>2
  <2>2. CASE Refresh(k)
    <3>1. calls \in SUBSET Call
      BY DEF TypeOK
    <3> QED BY <2>2, <3>1, ReloadType DEF Refresh
  <2> QED BY <2>1, <2>2
<1> QED BY <1>1, <1>2 DEF Visit, Refresh, TypeOK

LEMMA SubmitType ==
    ASSUME TypeOK, NEW i \in Items, NEW op \in {"create", "update", "delete"}, Submit(op, i)
    PROVE  TypeOK'
<1>1. acts' \in 0..MaxActs
  BY ActsType DEF Submit
<1>2. ListOf(i) \in Keys
  <2>1. KeyOf[i] \in Keys /\ Home \in Keys
    BY StoresAssumption
  <2> QED BY <2>1 DEF ListOf
<1>3. Request(op, ListOf(i), i) \in Call
  BY <1>2, RequestType
<1>4. calls' \subseteq Call /\ sent' \in Nat
  <2>1. calls' = calls \cup {Request(op, ListOf(i), i)} /\ sent' = sent + 1
    BY DEF Submit
  <2>2. calls \subseteq Call /\ sent \in Nat
    BY DEF TypeOK
  <2>3. sent' \in Nat
    BY <2>1, <2>2
  <2> QED BY <2>1, <2>2, <2>3, <1>3
<1>5. shown' \in [Items -> Vers]
  <2>1. shown[i] \in 0..MaxVersion /\ MaxVersion \in Nat \ {0}
    BY StoresAssumption DEF TypeOK, Vers
  <2>2. shown[i] < MaxVersion => shown[i] + 1 \in Vers
    BY <2>1 DEF Vers
  <2> QED BY <2>2 DEF Submit, TypeOK
<1> QED BY <1>1, <1>4, <1>5 DEF Submit, TypeOK

LEMMA LocallyType ==
    ASSUME TypeOK, NEW i \in Items, NEW op \in {"create", "update", "delete"}, Locally(op, i)
    PROVE  TypeOK'
<1>1. acts' \in 0..MaxActs
  BY ActsType DEF Locally
<1>2. server' \in [Items -> Vers] /\ shown' \in [Items -> Vers]
  BY ResultType DEF Locally, TypeOK
<1>3. rows' \in [Items -> Nat]
  BY DEF Locally, TypeOK
<1> QED BY <1>1, <1>2, <1>3 DEF Locally, TypeOK

LEMMA ServeType == ASSUME TypeOK, NEW c \in calls, Serve(c) PROVE TypeOK'
<1>1. c \in Call
  BY DEF TypeOK
<1> DEFINE after == IF c.for \in {"list", "status"} THEN server
                    ELSE [server EXCEPT ![c.item] = Result(c.for, c.item)]
<1>2. after \in [Items -> Vers]
  <2>1. CASE c.for \in {"list", "status"}
    BY <2>1 DEF TypeOK
  <2>2. CASE c.for \notin {"list", "status"}
    <3>1. c.for \in {"create", "update", "delete"} /\ c.item \in Items
      BY <1>1, <2>2 DEF Call
    <3>2. Result(c.for, c.item) \in Vers
      BY <3>1, ResultType
    <3> QED BY <2>2, <3>2 DEF TypeOK
  <2> QED BY <2>1, <2>2
<1>3. server' = after /\ calls' = (calls \ {c}) \cup {[c EXCEPT !.at = "served", !.saw = after]}
  BY DEF Serve
<1> HIDE DEF after
<1>4. [c EXCEPT !.at = "served", !.saw = after] \in Call
  BY <1>1, <1>2 DEF Call
<1> QED BY <1>2, <1>3, <1>4 DEF Serve, TypeOK

LEMMA ListedType == ASSUME TypeOK, NEW c \in calls, Listed(c) PROVE TypeOK'
<1>1. c.key \in Keys /\ c.saw \in [Items -> Vers]
  BY DEF TypeOK, Call
<1>2. rows' \in [Items -> Nat] /\ shown' \in [Items -> Vers] /\ marked' \subseteq Items
  BY <1>1, SetRowsType DEF Listed
<1>3. loaded' \subseteq Keys /\ filled' \subseteq Keys
  BY <1>1, SettledType DEF Listed, TypeOK
<1>4. StatusCalls(c.saw) \subseteq Call
  BY RequestType, WorldType DEF StatusCalls
<1>5. calls' \subseteq Call /\ sent' \in Nat
  <2>1. CASE StatusCalls(c.saw) = {}
    BY <2>1, OverType DEF Listed
  <2>2. CASE StatusCalls(c.saw) # {}
    <3>1. calls' = (calls \ {c}) \cup StatusCalls(c.saw) /\ sent' = sent + 1
      BY <2>2 DEF Listed
    <3>2. calls \subseteq Call /\ sent \in Nat
      BY DEF TypeOK
    <3>3. sent' \in Nat
      BY <3>1, <3>2
    <3> QED BY <3>1, <3>2, <3>3, <1>4
  <2> QED BY <2>1, <2>2
<1> QED BY <1>2, <1>3, <1>5 DEF Listed, TypeOK

LEMMA ListFailsType == ASSUME TypeOK, NEW c \in calls, ListFails(c) PROVE TypeOK'
<1>1. c.key \in Keys /\ c.saw \in [Items -> Vers]
  BY DEF TypeOK, Call
<1>2. [i \in Items |-> 0] \in [Items -> Vers]
  BY VersZero
<1>3. rows' \in [Items -> Nat] /\ shown' \in [Items -> Vers] /\ marked' \subseteq Items
  <2>1. CASE SetRows(c.key, c.saw)
    BY <2>1, <1>1, SetRowsType
  <2>2. CASE SetRows(c.key, [i \in Items |-> 0])
    BY <2>2, <1>1, <1>2, SetRowsType
  <2>3. CASE UNCHANGED <<rows, shown, marked>>
    BY <2>3 DEF TypeOK
  <2> QED BY <2>1, <2>2, <2>3 DEF ListFails
<1>4. loaded' \subseteq Keys /\ filled' \subseteq Keys
  BY <1>1, SettledType DEF ListFails, TypeOK
<1>5. calls' \subseteq Call /\ sent' \in Nat
  BY OverType DEF ListFails
<1> QED BY <1>3, <1>4, <1>5 DEF ListFails, TypeOK

LEMMA AnsweredType == ASSUME TypeOK, NEW c \in calls, Answered(c) PROVE TypeOK'
<1>1. /\ c.key \in Keys /\ c.item \in Items /\ c.saw[c.item] \in Vers
      /\ c.for \in {"create", "update", "delete"}
  BY DEF TypeOK, Call, Answered
<1>2. CASE store[c.for] = "reload"
  <2>1. calls \ {c} \in SUBSET Call
    BY DEF TypeOK
  <2>2. calls' \subseteq Call /\ sent' \in Nat /\ loaded' \subseteq Keys
    BY <1>1, <1>2, <2>1, ReloadType DEF Answered
  <2> QED BY <1>2, <2>2 DEF Answered, TypeOK
<1>3. CASE store[c.for] # "reload"
  <2>1. PICK n \in Nat, w \in Vers : RowSet(c.item, n, w)
    BY <1>1, <1>3, AnsweredRowSets DEF Answered
  <2>2. rows' \in [Items -> Nat] /\ shown' \in [Items -> Vers] /\ marked' \subseteq Items
    BY <1>1, <2>1, RowSetType
  <2>3. calls' \subseteq Call /\ sent' \in Nat
    BY <1>3, OverType DEF Answered
  <2> QED BY <1>3, <2>2, <2>3 DEF Answered, TypeOK
<1> QED BY <1>2, <1>3

LEMMA FailsType == ASSUME TypeOK, NEW c \in calls, Fails(c) PROVE TypeOK'
<1>1. calls' \subseteq Call /\ sent' \in Nat
  BY OverType DEF Fails
<1> QED BY <1>1 DEF Fails, TypeOK

LEMMA StatusType == ASSUME TypeOK, NEW c \in calls, StatusAnswered(c) PROVE TypeOK'
<1>1. calls' \subseteq Call /\ sent' \in Nat
  BY OverType DEF StatusAnswered
<1>2. rows' \in [Items -> Nat] /\ shown' \in [Items -> Vers] /\ marked' \subseteq Items
  <2>1. c.item \in Items /\ c.saw[c.item] \in Vers /\ rows[c.item] \in Nat
    BY DEF TypeOK, Call
  <2>2. CASE RowSet(c.item, rows[c.item], c.saw[c.item])
    BY <2>1, <2>2, RowSetType
  <2>3. CASE UNCHANGED <<rows, shown, marked>>
    BY <2>3 DEF TypeOK
  <2> QED BY <2>2, <2>3 DEF StatusAnswered
<1> QED BY <1>1, <1>2 DEF StatusAnswered, TypeOK

LEMMA InitType == ASSUME Init PROVE TypeOK
<1>1. server \in [Items -> Vers] /\ shown \in [Items -> Vers]
  BY VersZero DEF Init
<1>2. rows \in [Items -> Nat]
  <2>1. \A i \in Items : server[i] \in Nat
    BY DEF Init
  <2> QED BY <2>1 DEF Init
<1>3. acts \in 0..MaxActs
  BY StoresAssumption DEF Init
<1> QED BY <1>1, <1>2, <1>3 DEF Init, TypeOK

LEMMA NextType == ASSUME TypeOK, [Next]_vars PROVE TypeOK'
<1>1. CASE Next
  BY <1>1, Steps, VisitType, SubmitType, LocallyType, ServeType, ListedType, ListFailsType,
     AnsweredType, FailsType, StatusType
<1>2. CASE UNCHANGED vars
  BY <1>2 DEF vars, TypeOK
<1> QED BY <1>1, <1>2

\* Rows, keys and requests keep their types whatever the stores' profiles are.
THEOREM TypeCorrect == Spec => []TypeOK
<1>1. Init => TypeOK
  BY InitType
<1>2. TypeOK /\ [Next]_vars => TypeOK'
  BY NextType
<1> QED BY <1>1, <1>2, PTL DEF Spec

-----------------------------------------------------------------------------
(* One row for each object *)

\* A user who waits has one request in flight, or the catalog's status calls.
Alone == InTurn => \A c, d \in calls : c.for # "status" => d = c

LEMMA AloneInit == ASSUME Init PROVE Alone
PROOF BY DEF Init, Alone

LEMMA AloneNext == ASSUME TypeOK, Alone, [Next]_vars PROVE Alone'
<1> SUFFICES ASSUME InTurn PROVE \A c, d \in calls' : c.for # "status" => d = c
  <2>1. InTurn' = InTurn
    BY Steps DEF InTurn, Visit, Refresh, Submit, Locally, Serve, Listed, ListFails, Answered, Fails,
       StatusAnswered, vars
  <2> QED BY <2>1 DEF Alone
<1>1. ASSUME NEW k \in Keys, Visit(k) \/ Refresh(k) PROVE \A c, d \in calls' : c.for # "status" => d = c
  <2>1. calls = {}
    BY <1>1 DEF Visit, Refresh, Acts, Quiet
  <2>2. calls' \subseteq {Request("list", k, AnyItem)}
    BY <1>1, <2>1 DEF Visit, Refresh, Ensure, Reload, SendList
  <2> QED BY <2>2
<1>2. ASSUME NEW i \in Items, NEW op \in {"create", "update", "delete"}, Submit(op, i) \/ Locally(op, i)
      PROVE  \A c, d \in calls' : c.for # "status" => d = c
  <2>1. calls = {}
    BY <1>2 DEF Submit, Locally, Acts, Quiet
  <2>2. calls' \subseteq {Request(op, ListOf(i), i)}
    BY <1>2, <2>1 DEF Submit, Locally
  <2> QED BY <2>2
<1>3. ASSUME NEW c \in calls, Serve(c) PROVE \A d, e \in calls' : d.for # "status" => e = d
  <2>1. PICK after : calls' = (calls \ {c}) \cup {[c EXCEPT !.at = "served", !.saw = after]}
    BY <1>3 DEF Serve
  <2>2. c \in Call
    BY DEF TypeOK
  <2>3. [c EXCEPT !.at = "served", !.saw = after].for = c.for
    BY <2>2 DEF Call
  <2> HIDE DEF Call
  <2> QED BY <2>1, <2>3 DEF Alone
<1>4. ASSUME NEW c \in calls, Listed(c) PROVE \A d, e \in calls' : d.for # "status" => e = d
  <2>1. calls \ {c} = {}
    BY <1>4 DEF Alone, Listed
  <2>2. \A d \in StatusCalls(c.saw) : d.for = "status"
    BY DEF StatusCalls, Request
  <2>3. calls' \subseteq StatusCalls(c.saw)
    BY <1>4, <2>1 DEF Listed, Over
  <2> QED BY <2>2, <2>3
<1>5. ASSUME NEW c \in calls, Answered(c) PROVE \A d, e \in calls' : d.for # "status" => e = d
  <2>1. calls \ {c} = {}
    BY <1>5 DEF Alone, Answered
  <2>2. calls' \subseteq {Request("list", c.key, AnyItem)}
    BY <1>5, <2>1 DEF Answered, Reload, SendList, Over
  <2> QED BY <2>2
<1>6. ASSUME NEW c \in calls, ListFails(c) \/ Fails(c) \/ StatusAnswered(c)
      PROVE  \A d, e \in calls' : d.for # "status" => e = d
  <2>1. calls' \subseteq calls
    BY <1>6 DEF ListFails, Fails, StatusAnswered, Over
  <2> QED BY <2>1 DEF Alone
<1>7. CASE UNCHANGED vars
  BY <1>7 DEF vars, Alone
<1> QED BY <1>1, <1>2, <1>3, <1>4, <1>5, <1>6, <1>7, Steps

\* A user who waits creates what the list does not show.
CreatesAnew == InTurn => \A c \in calls : c.for = "create" => rows[c.item] = 0

RowInv == TypeOK /\ Alone /\ CreatesAnew /\ OneRowEach

LEMMA RowInit == ASSUME Init PROVE RowInv
<1>1. OneRowEach
  <2>1. \A i \in Items : server[i] <= 1
    BY DEF Init
  <2> QED BY <2>1 DEF Init, OneRowEach
<1> QED BY <1>1, InitType, AloneInit DEF Init, CreatesAnew, RowInv

\* Rows and requests after a step that answers nothing.
LEMMA RowAsk ==
    ASSUME RowInv, NEW k \in Keys, Visit(k) \/ Refresh(k)
    PROVE  CreatesAnew' /\ OneRowEach'
<1>1. OneRowEach'
  BY DEF RowInv, OneRowEach, Visit, Refresh, store, InTurn
<1>2. CreatesAnew'
  <2> SUFFICES ASSUME InTurn, NEW c \in calls', c.for = "create" PROVE FALSE
    BY DEF CreatesAnew, Visit, Refresh, InTurn
  <2>1. calls = {}
    BY DEF Visit, Refresh, Acts, Quiet
  <2>2. calls' \subseteq {Request("list", k, AnyItem)}
    BY <2>1 DEF Visit, Refresh, Ensure, Reload, SendList
  <2> QED BY <2>2 DEF Request
<1> QED BY <1>1, <1>2

LEMMA RowSubmit ==
    ASSUME RowInv, NEW i \in Items, NEW op \in {"create", "update", "delete"}, Submit(op, i)
    PROVE  CreatesAnew' /\ OneRowEach'
<1>1. OneRowEach'
  BY DEF RowInv, OneRowEach, Submit, store, InTurn
<1>2. CreatesAnew'
  <2> SUFFICES ASSUME InTurn, NEW c \in calls', c.for = "create" PROVE rows[c.item] = 0
    BY DEF CreatesAnew, Submit, InTurn
  <2>1. calls = {}
    BY DEF Submit, Acts, Quiet
  <2>2. c = Request(op, ListOf(i), i)
    BY <2>1 DEF Submit
  <2>3. op = "create" /\ c.item = i
    BY <2>2 DEF Request
  <2> QED BY <2>3 DEF Submit, Offered
<1> QED BY <1>1, <1>2

LEMMA RowLocally ==
    ASSUME RowInv, NEW i \in Items, NEW op \in {"create", "update", "delete"}, Locally(op, i)
    PROVE  CreatesAnew' /\ OneRowEach'
<1>1. OneRowEach'
  <2>1. \A j \in Items : rows'[j] \in {0, 1, rows[j]}
    <3>1. rows' = [rows EXCEPT ![i] = IF op = "delete" THEN 0 ELSE 1]
      BY DEF Locally
    <3>2. rows \in [Items -> Nat]
      BY DEF RowInv, TypeOK
    <3>3. CASE op = "delete"
      BY <3>1, <3>2, <3>3
    <3>4. CASE op # "delete"
      BY <3>1, <3>2, <3>4
    <3> QED BY <3>3, <3>4
  <2>2. store' = store /\ InTurn' = InTurn
    BY DEF Locally, store, InTurn
  <2> QED BY <2>1, <2>2 DEF RowInv, OneRowEach
<1>2. CreatesAnew'
  BY DEF CreatesAnew, Locally, Acts, Quiet, InTurn
<1> QED BY <1>1, <1>2

LEMMA RowServe ==
    ASSUME RowInv, NEW c \in calls, Serve(c)
    PROVE  CreatesAnew' /\ OneRowEach'
<1>1. OneRowEach'
  BY DEF RowInv, OneRowEach, Serve, store, InTurn
<1>2. PICK after : calls' = (calls \ {c}) \cup {[c EXCEPT !.at = "served", !.saw = after]}
  BY DEF Serve
<1>3. c \in Call
  BY DEF RowInv, TypeOK
<1>4. /\ [c EXCEPT !.at = "served", !.saw = after].for = c.for
      /\ [c EXCEPT !.at = "served", !.saw = after].item = c.item
  BY <1>3 DEF Call
<1>5. rows' = rows /\ InTurn' = InTurn
  BY DEF Serve, InTurn
<1>6. CreatesAnew'
  BY <1>2, <1>4, <1>5 DEF RowInv, CreatesAnew
<1> QED BY <1>1, <1>6

\* Steps after which a user who waits has at most a list or status calls in
\* flight.
LEMMA RowList ==
    ASSUME RowInv, NEW c \in calls, Listed(c) \/ ListFails(c)
    PROVE  CreatesAnew' /\ OneRowEach'
<1>1. InTurn' = InTurn /\ store' = store
  BY DEF Listed, ListFails, InTurn, store
<1>2. \A i \in Items : rows'[i] \in {0, 1, rows[i]}
  BY DEF Listed, ListFails, SetRows
<1>3. OneRowEach'
  BY <1>1, <1>2 DEF RowInv, OneRowEach
<1>4. CreatesAnew'
  <2> SUFFICES ASSUME InTurn, NEW d \in calls', d.for = "create" PROVE FALSE
    BY <1>1 DEF CreatesAnew
  <2>1. calls \ {c} = {}
    BY DEF RowInv, Alone, Listed, ListFails
  <2>2. calls' \subseteq StatusCalls(c.saw)
    BY <2>1 DEF Listed, ListFails, Over
  <2>3. \A e \in StatusCalls(c.saw) : e.for = "status"
    BY DEF StatusCalls, Request
  <2> QED BY <2>2, <2>3
<1> QED BY <1>3, <1>4

LEMMA RowAnswered ==
    ASSUME RowInv, NEW c \in calls, Answered(c)
    PROVE  CreatesAnew' /\ OneRowEach'
<1>1. InTurn' = InTurn /\ store' = store
  BY DEF Answered, InTurn, store
<1>2. CreatesAnew'
  <2> SUFFICES ASSUME InTurn, NEW d \in calls', d.for = "create" PROVE FALSE
    BY <1>1 DEF CreatesAnew
  <2>1. calls \ {c} = {}
    BY DEF RowInv, Alone, Answered
  <2>2. calls' \subseteq {Request("list", c.key, AnyItem)}
    BY <2>1 DEF Answered, Reload, SendList, Over
  <2> QED BY <2>2 DEF Request
<1>3. OneRowEach'
  <2>1. CASE store[c.for] = "reload"
    BY <1>1, <2>1 DEF RowInv, OneRowEach, Answered
  <2>2. CASE store[c.for] # "reload"
    <3>1. /\ c.item \in Items /\ c.saw[c.item] \in Vers
          /\ c.for \in {"create", "update", "delete"}
      BY DEF RowInv, TypeOK, Call, Answered
    <3>2. PICK n \in Nat, w \in Vers :
              /\ RowSet(c.item, n, w)
              /\ n \in {0, 1, rows[c.item]} \/ (store[c.for] = "add" /\ n = rows[c.item] + 1)
      BY <2>2, <3>1, AnsweredRowSets DEF RowInv, Answered
    <3>3. rows' = [rows EXCEPT ![c.item] = n]
      BY <3>2 DEF RowSet
    <3>4. CASE n \in {0, 1, rows[c.item]}
      BY <1>1, <3>3, <3>4 DEF RowInv, TypeOK, OneRowEach
    <3>5. CASE store[c.for] = "add" /\ n = rows[c.item] + 1
      <4>1. c.for = "create" /\ store.create = "add"
        <5>1. store \in Profile
          BY WorldType DEF RowInv
        <5> QED BY <3>1, <3>5, <5>1 DEF Profile
      <4>2. InTurn => n = 1
        BY <3>5, <4>1 DEF RowInv, CreatesAnew
      <4> QED BY <1>1, <3>3, <4>1, <4>2 DEF RowInv, TypeOK, OneRowEach
    <3> QED BY <3>2, <3>4, <3>5
  <2> QED BY <2>1, <2>2
<1> QED BY <1>2, <1>3

LEMMA RowOther ==
    ASSUME RowInv, NEW c \in calls, Fails(c) \/ StatusAnswered(c)
    PROVE  CreatesAnew' /\ OneRowEach'
<1>1. InTurn' = InTurn /\ store' = store /\ calls' \subseteq calls
  BY DEF Fails, StatusAnswered, Over, InTurn, store
<1>2. rows' = rows
  <2>1. CASE Fails(c)
    BY <2>1 DEF Fails
  <2>2. CASE StatusAnswered(c)
    <3>1. [rows EXCEPT ![c.item] = rows[c.item]] = rows
      BY DEF RowInv, TypeOK
    <3> QED BY <2>2, <3>1 DEF StatusAnswered, RowSet
  <2> QED BY <2>1, <2>2
<1> QED BY <1>1, <1>2 DEF RowInv, OneRowEach, CreatesAnew

LEMMA RowNext == ASSUME RowInv, [Next]_vars PROVE RowInv'
<1>1. TypeOK' /\ Alone'
  BY NextType, AloneNext DEF RowInv
<1>2. CreatesAnew' /\ OneRowEach'
  <2>1. CASE Next
    BY <2>1, Steps, RowAsk, RowSubmit, RowLocally, RowServe, RowList, RowAnswered, RowOther
  <2>2. CASE UNCHANGED vars
    BY <2>2 DEF vars, RowInv, CreatesAnew, OneRowEach, store, InTurn
  <2> QED BY <2>1, <2>2
<1> QED BY <1>1, <1>2 DEF RowInv

\* Whatever the store, an object never has two rows, unless answers are added
\* without looking and the user does not wait.
THEOREM OneRowAlways == Spec => []OneRowEach
<1>1. Init => RowInv
  BY RowInit
<1>2. RowInv /\ [Next]_vars => RowInv'
  BY RowNext
<1>3. RowInv => OneRowEach
  BY DEF RowInv
<1> QED BY <1>1, <1>2, <1>3, PTL DEF Spec

-----------------------------------------------------------------------------
(* Marks *)

Marks == {"mark-undo", "mark"}

NoMark == store.update \notin Marks => marked = {}

MarkInv == TypeOK /\ NoMark /\ MarkIsBacked

\* Requests that carry on: an update in flight is in flight after a step that
\* only adds requests.
LEMMA MarkAsk ==
    ASSUME MarkInv, store' = store, marked' = marked, calls \subseteq calls'
    PROVE  NoMark' /\ MarkIsBacked'
PROOF BY DEF MarkInv, NoMark, MarkIsBacked

LEMMA MarkVisit ==
    ASSUME MarkInv, NEW k \in Keys, Visit(k) \/ Refresh(k)
    PROVE  NoMark' /\ MarkIsBacked'
<1>1. store' = store /\ marked' = marked
  BY DEF Visit, Refresh, store
<1>2. calls \subseteq calls'
  BY DEF Visit, Refresh, Ensure, Reload, SendList
<1> QED BY <1>1, <1>2, MarkAsk

LEMMA MarkSubmit ==
    ASSUME MarkInv, NEW i \in Items, NEW op \in {"create", "update", "delete"}, Submit(op, i)
    PROVE  NoMark' /\ MarkIsBacked'
<1>1. store' = store /\ calls' = calls \cup {Request(op, ListOf(i), i)}
  BY DEF Submit, store
<1>2. Request(op, ListOf(i), i).for = op /\ Request(op, ListOf(i), i).item = i
  BY DEF Request
<1>3. \/ marked' = marked
      \/ op = "update" /\ store.update \in Marks /\ marked' = marked \cup {i}
  BY DEF Submit, Marks
<1> HIDE DEF Marks
<1>4. NoMark'
  BY <1>1, <1>3 DEF MarkInv, NoMark
<1>5. MarkIsBacked'
  BY <1>1, <1>2, <1>3 DEF MarkInv, MarkIsBacked
<1> QED BY <1>4, <1>5

LEMMA MarkServe ==
    ASSUME MarkInv, NEW c \in calls, Serve(c)
    PROVE  NoMark' /\ MarkIsBacked'
<1>1. PICK after : calls' = (calls \ {c}) \cup {[c EXCEPT !.at = "served", !.saw = after]}
  BY DEF Serve
<1>2. c \in Call
  BY DEF MarkInv, TypeOK
<1>3. /\ [c EXCEPT !.at = "served", !.saw = after].for = c.for
      /\ [c EXCEPT !.at = "served", !.saw = after].item = c.item
  BY <1>2 DEF Call
<1>4. store' = store /\ marked' = marked
  BY DEF Serve, store
<1>5. NoMark'
  BY <1>4 DEF MarkInv, NoMark
<1>6. ASSUME NEW d \in calls, d.for = "update"
      PROVE  \E e \in calls' : e.for = "update" /\ e.item = d.item
  BY <1>1, <1>3, <1>6
<1> QED BY <1>4, <1>5, <1>6 DEF MarkInv, MarkIsBacked

\* A list or a status that ends takes no update away, and only removes marks.
LEMMA MarkRead ==
    ASSUME MarkInv, NEW c \in calls, Listed(c) \/ ListFails(c) \/ StatusAnswered(c)
    PROVE  NoMark' /\ MarkIsBacked'
<1>1. store' = store /\ marked' \subseteq marked
  BY DEF Listed, ListFails, StatusAnswered, SetRows, RowSet, store
<1>2. c.for # "update" /\ calls \ {c} \subseteq calls'
  BY DEF Listed, ListFails, StatusAnswered, Over
<1> QED BY <1>1, <1>2 DEF MarkInv, NoMark, MarkIsBacked

LEMMA MarkAnswered ==
    ASSUME MarkInv, NEW c \in calls, Answered(c)
    PROVE  NoMark' /\ MarkIsBacked'
<1>1. store' = store /\ calls \ {c} \subseteq calls'
  BY DEF Answered, Reload, SendList, Over, store
<1>2. c.item \in Items /\ c.saw[c.item] \in Vers /\ c.for \in {"create", "update", "delete"}
  BY DEF MarkInv, TypeOK, Call, Answered
<1>3. CASE store[c.for] = "reload"
  <2>1. marked' = marked
    BY <1>3 DEF Answered
  <2>2. c.for = "update" => marked = {}
    BY <1>3 DEF MarkInv, NoMark, Marks
  <2> QED BY <1>1, <2>1, <2>2 DEF MarkInv, NoMark, MarkIsBacked
<1>4. CASE store[c.for] # "reload"
  <2>1. marked' = marked \ {c.item}
    <3>1. PICK n \in Nat, w \in Vers : RowSet(c.item, n, w)
      BY <1>2, <1>4, AnsweredRowSets DEF MarkInv, Answered
    <3> QED BY <3>1 DEF RowSet
  <2> QED BY <1>1, <2>1 DEF MarkInv, NoMark, MarkIsBacked
<1> QED BY <1>3, <1>4

LEMMA MarkFails ==
    ASSUME MarkInv, NEW c \in calls, Fails(c)
    PROVE  NoMark' /\ MarkIsBacked'
<1>1. store' = store /\ calls' = calls \ {c} /\ marked' \subseteq marked
  BY DEF Fails, Over, store
<1>2. CASE c.for = "update" /\ store.update = "mark-undo"
  <2>1. marked' = marked \ {c.item}
    BY <1>2 DEF Fails
  <2> QED BY <1>1, <2>1 DEF MarkInv, NoMark, MarkIsBacked
<1>3. CASE c.for # "update"
  BY <1>1, <1>3 DEF MarkInv, NoMark, MarkIsBacked
<1>4. CASE store.update # "mark-undo"
  BY <1>1, <1>4 DEF MarkInv, NoMark, MarkIsBacked, Marks
<1> QED BY <1>2, <1>3, <1>4

LEMMA MarkNext == ASSUME MarkInv, [Next]_vars PROVE MarkInv'
<1>1. TypeOK'
  BY NextType DEF MarkInv
<1>2. NoMark' /\ MarkIsBacked'
  <2>1. ASSUME NEW i \in Items, NEW op \in {"create", "update", "delete"}, Locally(op, i)
        PROVE  NoMark' /\ MarkIsBacked'
    <3>1. store' = store /\ marked' = marked /\ calls \subseteq calls'
      BY <2>1 DEF Locally, store
    <3> QED BY <3>1, MarkAsk
  <2>2. CASE Next
    BY <2>1, <2>2, Steps, MarkVisit, MarkSubmit, MarkServe, MarkRead, MarkAnswered, MarkFails
  <2>3. CASE UNCHANGED vars
    BY <2>3 DEF vars, MarkInv, NoMark, MarkIsBacked, store
  <2> QED BY <2>2, <2>3
<1> QED BY <1>1, <1>2 DEF MarkInv

\* A component's row shows Installing only while its operation is in flight,
\* whatever fails and however lists and statuses are mixed with it; reconcile
\* excepted.
THEOREM MarkAlwaysBacked == Spec => []MarkIsBacked
<1>1. Init => MarkInv
  BY InitType DEF Init, MarkInv, NoMark, MarkIsBacked
<1>2. MarkInv /\ [Next]_vars => MarkInv'
  BY MarkNext
<1>3. MarkInv => MarkIsBacked
  BY DEF MarkInv
<1> QED BY <1>1, <1>2, <1>3, PTL DEF Spec

-----------------------------------------------------------------------------
(* What counts as loaded *)

\* The stores LoadedIsServed is about.
Asking == store.failed # "is-empty" /\ (TakesOver => InTurn /\ store.flag = "before")

\* A flag that is set with the rows is right without a look at the requests.
FlagAfter == Asking /\ store.flag \in {"after", "promise"} => loaded \subseteq filled

\* The list in flight is the one the single key stands for.
OneKey == Asking /\ TakesOver => \A c \in calls : c.for = "list" => loaded \subseteq {c.key}

ServedInv == TypeOK /\ Alone /\ FlagAfter /\ OneKey /\ LoadedIsServed

Served3 == FlagAfter /\ OneKey /\ LoadedIsServed

\* The profile and the circumstances do not change.
SameWorld == world' = world

LEMMA SameAsking ==
    ASSUME SameWorld
    PROVE  /\ store' = store /\ TakesOver' = TakesOver /\ InTurn' = InTurn
           /\ Asking' = Asking
PROOF BY DEF SameWorld, store, TakesOver, InTurn, Asking

\* A list that is sent, next to the lists that stay in flight.
LEMMA ServedSend ==
    ASSUME ServedInv, SameWorld, filled' = filled,
           NEW k \in Keys, NEW before \in SUBSET loaded, NEW others \in SUBSET calls,
           SendList(k, before, others),
           \A c \in calls : c.for = "list" => c \in others,
           InTurn => others = {}
    PROVE  Served3'
<1> DEFINE new == Request("list", k, AnyItem)
<1>1. calls' = others \cup {new} /\ loaded' = Claimed(k, before)
  BY DEF SendList
<1>2. new.for = "list" /\ new.key = k
  BY DEF Request
<1> HIDE DEF new
<1>3. loaded' \subseteq before \cup {k}
  BY <1>1 DEF Claimed
<1>4. FlagAfter'
  <2> SUFFICES ASSUME Asking, store.flag \in {"after", "promise"} PROVE loaded' \subseteq filled
    BY SameAsking DEF FlagAfter
  <2>1. loaded' = before
    BY <1>1 DEF Claimed
  <2> QED BY <2>1 DEF ServedInv, FlagAfter
<1>5. OneKey'
  <2> SUFFICES ASSUME Asking, TakesOver, NEW c \in calls', c.for = "list" PROVE loaded' \subseteq {c.key}
    BY SameAsking DEF OneKey
  <2>1. others = {} /\ store.flag = "before"
    BY DEF Asking
  <2>2. c = new
    BY <1>1, <2>1
  <2>3. loaded' = {k}
    BY <1>1, <2>1 DEF Claimed, TakesOver
  <2> QED BY <1>2, <2>2, <2>3
<1>6. LoadedIsServed'
  <2> SUFFICES ASSUME Asking, NEW j \in loaded' PROVE j \in filled \/ \E c \in calls' : c.for = "list" /\ c.key = j
    BY SameAsking DEF LoadedIsServed, ListInFlight, Asking
  <2>1. CASE j = k
    BY <1>1, <1>2, <2>1
  <2>2. CASE j \in loaded
    <3>1. j \in filled \/ ListInFlight(j)
      BY <2>2 DEF ServedInv, LoadedIsServed, Asking
    <3> QED BY <1>1, <3>1 DEF ListInFlight
  <2> QED BY <1>3, <2>1, <2>2
<1> QED BY <1>4, <1>5, <1>6 DEF Served3

\* A request that ends, is served or is taken for a reload: every list that was
\* in flight still is.
LEMMA ServedKept ==
    ASSUME ServedInv, SameWorld, filled' = filled, loaded' \subseteq loaded,
           \A c \in calls : c.for = "list" => \E d \in calls' : d.for = "list" /\ d.key = c.key,
           \A d \in calls' : d.for = "list" => \E c \in calls : c.for = "list" /\ c.key = d.key
    PROVE  Served3'
<1>1. FlagAfter'
  BY SameAsking DEF ServedInv, FlagAfter
<1>2. OneKey'
  BY SameAsking DEF ServedInv, OneKey
<1>3. LoadedIsServed'
  <2> SUFFICES ASSUME Asking, NEW j \in loaded' PROVE j \in filled \/ \E c \in calls' : c.for = "list" /\ c.key = j
    BY SameAsking DEF LoadedIsServed, ListInFlight, Asking
  <2>1. j \in filled \/ ListInFlight(j)
    BY DEF ServedInv, LoadedIsServed, Asking
  <2> QED BY <2>1 DEF ListInFlight
<1> QED BY <1>1, <1>2, <1>3 DEF Served3

LEMMA ServedReload ==
    ASSUME ServedInv, SameWorld, filled' = filled,
           NEW k \in Keys, NEW others \in SUBSET calls, Reload(k, others),
           \A c \in calls : c.for = "list" => c \in others,
           InTurn => others = {}
    PROVE  Served3'
<1>1. CASE store.flag = "promise" /\ ListInFlight(k)
  <2>1. loaded' \subseteq loaded /\ calls' = others
    BY <1>1 DEF Reload
  <2> QED BY <2>1, ServedKept
<1>2. CASE ~(store.flag = "promise" /\ ListInFlight(k))
  <2> DEFINE before == IF store.flag = "after" THEN loaded ELSE loaded \ {k}
  <2>1. SendList(k, before, others) /\ before \in SUBSET loaded
    BY <1>2 DEF Reload
  <2> HIDE DEF before
  <2> QED BY <2>1, ServedSend
<1> QED BY <1>1, <1>2

LEMMA ServedAsk ==
    ASSUME ServedInv, NEW k \in Keys, Visit(k) \/ Refresh(k)
    PROVE  Served3'
<1>1. SameWorld /\ filled' = filled /\ (InTurn => calls = {})
  BY DEF Visit, Refresh, Acts, Quiet, SameWorld
<1>2. CASE Visit(k)
  <2>1. CASE Asks(k)
    <3>1. SendList(k, loaded, calls)
      BY <1>2, <2>1 DEF Visit, Ensure
    <3> QED BY <1>1, <3>1, ServedSend
  <2>2. CASE ~Asks(k)
    <3>1. calls' = calls /\ loaded' = loaded
      BY <1>2, <2>2 DEF Visit, Ensure
    <3> QED BY <1>1, <3>1, ServedKept
  <2> QED BY <2>1, <2>2
<1>3. CASE Refresh(k)
  <2>1. Reload(k, calls)
    BY <1>3 DEF Refresh
  <2> QED BY <1>1, <2>1, ServedReload
<1> QED BY <1>2, <1>3

LEMMA ServedSubmit ==
    ASSUME ServedInv, NEW i \in Items, NEW op \in {"create", "update", "delete"},
           Submit(op, i) \/ Locally(op, i)
    PROVE  Served3'
<1>1. SameWorld /\ filled' = filled /\ loaded' = loaded /\ calls \subseteq calls'
  BY DEF Submit, Locally, SameWorld
<1>2. calls' \subseteq calls \cup {Request(op, ListOf(i), i)}
  BY DEF Submit, Locally
<1>3. Request(op, ListOf(i), i).for # "list"
  BY DEF Request
<1> QED BY <1>1, <1>2, <1>3, ServedKept

LEMMA ServedServe ==
    ASSUME ServedInv, NEW c \in calls, Serve(c)
    PROVE  Served3'
<1>1. PICK after : calls' = (calls \ {c}) \cup {[c EXCEPT !.at = "served", !.saw = after]}
  BY DEF Serve
<1>2. c \in Call
  BY DEF ServedInv, TypeOK
<1>3. /\ [c EXCEPT !.at = "served", !.saw = after].for = c.for
      /\ [c EXCEPT !.at = "served", !.saw = after].key = c.key
  BY <1>2 DEF Call
<1>4. SameWorld /\ filled' = filled /\ loaded' = loaded
  BY DEF Serve, SameWorld
<1>5. \A d \in calls : d.for = "list" => \E e \in calls' : e.for = "list" /\ e.key = d.key
  BY <1>1, <1>3
<1>6. \A e \in calls' : e.for = "list" => \E d \in calls : d.for = "list" /\ d.key = e.key
  BY <1>1, <1>3
<1> QED BY <1>4, <1>5, <1>6, ServedKept

LEMMA ServedListed ==
    ASSUME ServedInv, NEW c \in calls, Listed(c)
    PROVE  Served3'
<1>1. SameWorld /\ c.for = "list" /\ loaded' = Settled(c.key)
  BY DEF Listed, SameWorld
<1>2. loaded' \subseteq loaded \cup {c.key}
  BY <1>1 DEF Settled
<1>3. calls \ {c} \subseteq calls'
  BY DEF Listed, Over
<1>4. CASE TakesOver
  <2>1. filled' = {c.key}
    BY <1>4 DEF Listed, TakesOver
  <2>2. Asking => loaded' \subseteq {c.key}
    BY <1>1, <1>2, <1>4 DEF ServedInv, OneKey
  <2>3. InTurn => calls' \subseteq StatusCalls(c.saw)
    <3>1. InTurn => calls \ {c} = {}
      BY <1>1 DEF ServedInv, Alone
    <3> QED BY <3>1 DEF Listed, Over
  <2>4. \A d \in StatusCalls(c.saw) : d.for # "list"
    BY DEF StatusCalls, Request
  <2>5. OneKey'
    BY <1>1, <1>4, <2>3, <2>4, SameAsking DEF OneKey, Asking
  <2>6. FlagAfter' /\ LoadedIsServed'
    BY <1>1, <2>1, <2>2, SameAsking DEF FlagAfter, LoadedIsServed, Asking
  <2> QED BY <2>5, <2>6 DEF Served3
<1>5. CASE ~TakesOver
  <2>1. filled' = filled \cup {c.key}
    BY <1>5 DEF Listed, TakesOver
  <2>2. FlagAfter' /\ OneKey'
    BY <1>1, <1>2, <1>5, <2>1, SameAsking DEF ServedInv, FlagAfter, OneKey
  <2>3. LoadedIsServed'
    <3> SUFFICES ASSUME Asking, NEW j \in loaded'
                 PROVE  j \in filled' \/ \E d \in calls' : d.for = "list" /\ d.key = j
      BY <1>1, SameAsking DEF LoadedIsServed, ListInFlight, Asking
    <3>1. CASE j = c.key
      BY <2>1, <3>1
    <3>2. CASE j # c.key
      <4>1. j \in filled \/ ListInFlight(j)
        BY <1>2, <3>2 DEF ServedInv, LoadedIsServed, Asking
      <4> QED BY <1>3, <2>1, <3>2, <4>1 DEF ListInFlight
    <3> QED BY <3>1, <3>2
  <2> QED BY <2>2, <2>3 DEF Served3
<1> QED BY <1>4, <1>5

LEMMA ServedListFails ==
    ASSUME ServedInv, NEW c \in calls, ListFails(c)
    PROVE  Served3'
<1>1. SameWorld /\ calls' = calls \ {c}
  BY DEF ListFails, Over, SameWorld
<1>2. CASE Asking
  <2>1. /\ filled' = filled
        /\ loaded' = IF store.flag = "after" THEN loaded ELSE loaded \ {c.key}
    BY <1>2 DEF ListFails, Asking
  <2>2. FlagAfter' /\ OneKey'
    BY <1>1, <2>1, SameAsking DEF ServedInv, FlagAfter, OneKey
  <2>3. LoadedIsServed'
    <3> SUFFICES ASSUME NEW j \in loaded'
                 PROVE  j \in filled \/ \E d \in calls' : d.for = "list" /\ d.key = j
      BY <2>1 DEF LoadedIsServed, ListInFlight
    <3>1. j \in filled \/ ListInFlight(j)
      BY <1>2, <2>1 DEF ServedInv, LoadedIsServed, Asking
    <3>2. CASE store.flag = "after"
      BY <1>2, <2>1, <3>2 DEF ServedInv, FlagAfter
    <3>3. CASE store.flag # "after"
      BY <1>1, <2>1, <3>1, <3>3 DEF ListInFlight
    <3> QED BY <3>2, <3>3
  <2> QED BY <2>2, <2>3 DEF Served3
<1>3. CASE ~Asking
  BY <1>1, <1>3, SameAsking DEF Served3, FlagAfter, OneKey, LoadedIsServed, Asking
<1> QED BY <1>2, <1>3

LEMMA ServedAnswered ==
    ASSUME ServedInv, NEW c \in calls, Answered(c) \/ Fails(c) \/ StatusAnswered(c)
    PROVE  Served3'
<1>1. SameWorld /\ filled' = filled /\ c.for # "list"
  BY DEF Answered, Fails, StatusAnswered, SameWorld
<1>2. CASE Answered(c) /\ store[c.for] = "reload"
  <2>1. Reload(c.key, calls \ {c}) /\ c.key \in Keys
    BY <1>2 DEF Answered, ServedInv, TypeOK, Call
  <2>2. InTurn => calls \ {c} = {}
    BY <1>2 DEF Answered, ServedInv, Alone
  <2>3. \A d \in calls : d.for = "list" => d \in calls \ {c}
    BY <1>1
  <2> QED BY <1>1, <2>1, <2>2, <2>3, ServedReload
<1>3. CASE ~(Answered(c) /\ store[c.for] = "reload")
  <2>1. calls' = calls \ {c} /\ loaded' = loaded
    BY <1>3 DEF Answered, Fails, StatusAnswered, Over
  <2> QED BY <1>1, <2>1, ServedKept
<1> QED BY <1>2, <1>3

LEMMA ServedNext == ASSUME ServedInv, [Next]_vars PROVE ServedInv'
<1>1. TypeOK' /\ Alone'
  BY NextType, AloneNext DEF ServedInv
<1>2. Served3'
  <2>1. CASE Next
    BY <2>1, Steps, ServedAsk, ServedSubmit, ServedServe, ServedListed, ServedListFails, ServedAnswered
  <2>2. CASE UNCHANGED vars
    <3>1. SameWorld /\ filled' = filled /\ loaded' = loaded /\ calls' = calls
      BY <2>2 DEF vars, SameWorld
    <3> QED BY <3>1, ServedKept
  <2> QED BY <2>1, <2>2
<1> QED BY <1>1, <1>2 DEF ServedInv, Served3

\* A key that counts as loaded has its rows or has its list in flight, however
\* visits, reloads, mutators and failures are mixed.
THEOREM LoadedAlwaysServed == Spec => []LoadedIsServed
<1>1. Init => ServedInv
  BY InitType, AloneInit DEF Init, ServedInv, FlagAfter, OneKey, LoadedIsServed
<1>2. ServedInv /\ [Next]_vars => ServedInv'
  BY ServedNext
<1>3. ServedInv => LoadedIsServed
  BY DEF ServedInv
<1> QED BY <1>1, <1>2, <1>3, PTL DEF Spec

\* No flag of a store, neither that a key is loaded nor that a row is at work,
\* is left behind by whatever set it.
THEOREM FlagsAlwaysBacked == Spec => []FlagsAreBacked
<1>1. LoadedIsServed /\ MarkIsBacked => FlagsAreBacked
  BY DEF FlagsAreBacked
<1> QED BY <1>1, LoadedAlwaysServed, MarkAlwaysBacked, PTL


-----------------------------------------------------------------------------
(* Rows and server agree, when the user waits *)

Mutators == {"create", "update", "delete"}

\* What a mutator asks is something the store does, for the namespace of its
\* object.
Asked == \A c \in calls : c.for \in Mutators => c.key = ListOf(c.item) /\ store[c.for] # "none"

\* A user who waits, of a console that reaches its server.
Turn == InTurn /\ ~Lossy /\ ~Offline

\* What was read, or left, at the server is what the server has.
SawAll == \A c \in calls : c.at = "served" => c.saw = server

\* The row is as it was when the form was submitted.
RowOf(c) == IF c.for = "create" THEN rows[c.item] = 0 ELSE rows[c.item] > 0
Stays == \A c \in calls : c.for \in Mutators /\ c.at = "sent" => RowOf(c)

\* What a served mutator finds when its answer comes.
Left(c) ==
    /\ c.for = "create" => rows[c.item] = 0 /\ server[c.item] = 1
    /\ c.for = "update" => rows[c.item] = 1 /\ server[c.item] > 0
    /\ c.for = "delete" => server[c.item] = 0
LeftAll == \A c \in calls, k \in filled :
    c.for \in Mutators /\ c.at = "served" /\ c.item \in Slot(k) => Left(c)

\* The call whose answer puts the row of i right.  A version that is shown
\* before it is chosen is right when the choice is answered.
Mends(c, i) ==
    \/ c.for = "list" /\ i \in Slot(c.key)
    \/ /\ c.for \in Mutators /\ c.item = i
       /\ \/ c.at = "served"
          \/ c.for = "update" /\ rows[i] = 1 /\ server[i] > 0
Mended == \A k \in filled : \A i \in Slot(k) : Fresh(i) \/ \E c \in calls : Mends(c, i)

Turns == SawAll /\ Stays /\ LeftAll /\ Mended

\* Without a backend there is nothing the rows could disagree with.
Seeds == Offline => calls = {} /\ \A i \in Items : Fresh(i)

TurnInv == TypeOK /\ Alone /\ Asked /\ Seeds /\ (Turn => Turns)

LEMMA SlotOfList ==
    ASSUME NEW i \in Items
    PROVE  i \in Slot(ListOf(i))
PROOF BY DEF Slot, ListOf

LEMMA SlotItems ==
    ASSUME NEW k \in Keys
    PROVE  Slot(k) \subseteq Items
PROOF BY DEF Slot

LEMMA SameSlots ==
    ASSUME SameWorld
    PROVE  /\ store' = store /\ InTurn' = InTurn /\ InOrder' = InOrder /\ Lossy' = Lossy
           /\ Offline' = Offline /\ Turn' = Turn
           /\ \A k : Slot(k)' = Slot(k)
           /\ \A i : ListOf(i)' = ListOf(i)
PROOF BY DEF SameWorld, store, InTurn, InOrder, Lossy, Offline, Turn, Slot, ListOf

LEMMA NextSameWorld == ASSUME [Next]_vars PROVE SameWorld
PROOF BY Steps DEF SameWorld, Visit, Refresh, Submit, Locally, Serve, Listed, ListFails, Answered,
         Fails, StatusAnswered, vars

\* A request as it is when it is served.
LEMMA ServedCall ==
    ASSUME TypeOK, NEW c \in calls, Serve(c)
    PROVE  \E d :
             /\ calls' = (calls \ {c}) \cup {d}
             /\ d.for = c.for /\ d.key = c.key /\ d.item = c.item /\ d.n = c.n
             /\ d.at = "served" /\ d.saw = server'
             /\ c.for \in {"list", "status"} => server' = server
             /\ c.for \notin {"list", "status"} =>
                    server' = [server EXCEPT ![c.item] = Result(c.for, c.item)]
             /\ c.for \in Mutators => Possible(c.for, c.item)
             /\ c.at = "sent"
             /\ SameWorld
             /\ UNCHANGED <<rows, shown, marked, loaded, filled, visited, sent, acts>>
<1> DEFINE d == [c EXCEPT !.at = "served", !.saw = server']
<1>1. c \in Call
  BY DEF TypeOK
<1>2. /\ d.for = c.for /\ d.key = c.key /\ d.item = c.item /\ d.n = c.n
      /\ d.at = "served" /\ d.saw = server'
  BY <1>1 DEF Call
<1>3. calls' = (calls \ {c}) \cup {d}
  BY DEF Serve
<1> HIDE DEF d
<1> QED BY <1>2, <1>3 DEF Serve, SameWorld, Mutators

LEMMA RequestIs ==
    ASSUME NEW op, NEW k, NEW i
    PROVE  /\ Request(op, k, i).for = op /\ Request(op, k, i).key = k /\ Request(op, k, i).item = i
           /\ Request(op, k, i).at = "sent" /\ Request(op, k, i).n = sent + 1
PROOF BY DEF Request

LEMMA AskedNext == ASSUME TypeOK, Asked, [Next]_vars PROVE Asked'
<1> USE DEF Mutators
<1>0. SameWorld /\ store' = store /\ \A i : ListOf(i)' = ListOf(i)
  BY NextSameWorld, SameSlots
<1>1. ASSUME NEW k \in Keys, Visit(k) \/ Refresh(k) PROVE Asked'
  <2>1. calls' \subseteq calls \cup {Request("list", k, AnyItem)}
    BY <1>1 DEF Visit, Refresh, Ensure, Reload, SendList
  <2> QED BY <1>0, <2>1, RequestIs DEF Asked
<1>2. ASSUME NEW i \in Items, NEW op \in {"create", "update", "delete"}, Submit(op, i) \/ Locally(op, i)
      PROVE  Asked'
  <2>1. calls' \subseteq calls \cup {Request(op, ListOf(i), i)} /\ store[op] # "none"
    BY <1>2 DEF Submit, Locally, Offered
  <2> QED BY <1>0, <2>1, RequestIs DEF Asked
<1>3. ASSUME NEW c \in calls, Serve(c) PROVE Asked'
  <2>1. PICK d : calls' = (calls \ {c}) \cup {d} /\ d.for = c.for /\ d.key = c.key /\ d.item = c.item
    BY <1>3, ServedCall
  <2> QED BY <1>0, <2>1 DEF Asked
<1>4. ASSUME NEW c \in calls, Listed(c) PROVE Asked'
  <2>1. calls' \subseteq calls \cup StatusCalls(c.saw)
    BY <1>4 DEF Listed, Over
  <2>2. \A d \in StatusCalls(c.saw) : d.for = "status"
    BY RequestIs DEF StatusCalls
  <2> QED BY <1>0, <2>1, <2>2 DEF Asked
<1>5. ASSUME NEW c \in calls, Answered(c) PROVE Asked'
  <2>1. calls' \subseteq calls \cup {Request("list", c.key, AnyItem)}
    BY <1>5 DEF Answered, Reload, SendList, Over
  <2> QED BY <1>0, <2>1, RequestIs DEF Asked
<1>6. ASSUME NEW c \in calls, ListFails(c) \/ Fails(c) \/ StatusAnswered(c) PROVE Asked'
  <2>1. calls' \subseteq calls
    BY <1>6 DEF ListFails, Fails, StatusAnswered, Over
  <2> QED BY <1>0, <2>1 DEF Asked
<1>7. CASE UNCHANGED vars
  BY <1>0, <1>7 DEF vars, Asked
<1> QED BY <1>1, <1>2, <1>3, <1>4, <1>5, <1>6, <1>7, Steps


LEMMA SeedsNext == ASSUME TypeOK, Seeds, [Next]_vars PROVE Seeds'
<1>0. SameWorld /\ Offline' = Offline
  BY NextSameWorld, SameSlots
<1> SUFFICES ASSUME Offline PROVE calls' = {} /\ \A i \in Items : Fresh(i)'
  BY <1>0 DEF Seeds
<1>1. calls = {} /\ \A i \in Items : Fresh(i)
  BY DEF Seeds
<1>2. ASSUME NEW i \in Items, NEW op \in {"create", "update", "delete"}, Locally(op, i)
      PROVE  calls' = {} /\ \A j \in Items : Fresh(j)'
  <2>1. /\ server' = [server EXCEPT ![i] = Result(op, i)]
        /\ rows' = [rows EXCEPT ![i] = IF op = "delete" THEN 0 ELSE 1]
        /\ shown' = [shown EXCEPT ![i] = Result(op, i)]
        /\ calls' = {}
        /\ server \in [Items -> Vers] /\ rows \in [Items -> Nat] /\ shown \in [Items -> Vers]
    BY <1>1, <1>2 DEF Locally, TypeOK
  <2>2. IF op = "delete" THEN Result(op, i) = 0 ELSE Result(op, i) > 0
    <3>1. op = "update" => rows[i] > 0
      BY <1>2 DEF Locally, Offered
    <3>2. server[i] \in Nat /\ (op = "update" => server[i] > 0)
      BY <1>1, <2>1, <3>1 DEF Fresh, Vers
    <3> QED BY <3>2 DEF Result
  <2> QED BY <1>1, <2>1, <2>2 DEF Fresh
<1>3. CASE ~\E i \in Items, op \in {"create", "update", "delete"} : Locally(op, i)
  <2>1. ~Next
    BY <1>1, <1>3, Steps DEF Visit, Refresh, Submit
  <2> QED BY <1>1, <2>1 DEF vars, Fresh
<1> QED BY <1>2, <1>3

\* A user who waits asks when every row shows what the server has.
LEMMA TurnQuiet ==
    ASSUME TurnInv, Turn, Acts
    PROVE  calls = {} /\ \A k \in filled : \A i \in Slot(k) : Fresh(i)
<1>1. calls = {}
  BY DEF Turn, Acts, Quiet
<1> QED BY <1>1 DEF TurnInv, Turns, Mended

LEMMA TurnAsk ==
    ASSUME TurnInv, Turn, SameWorld, NEW k \in Keys, Visit(k) \/ Refresh(k)
    PROVE  Turns'
<1> USE DEF Mutators
<1>1. calls = {} /\ \A j \in filled : \A i \in Slot(j) : Fresh(i)
  BY TurnQuiet DEF Visit, Refresh
<1>2. calls' \subseteq {Request("list", k, AnyItem)} /\ UNCHANGED <<server, rows, shown, filled>>
  BY <1>1 DEF Visit, Refresh, Ensure, Reload, SendList
<1>3. SawAll' /\ Stays' /\ LeftAll'
  BY <1>2, RequestIs DEF SawAll, Stays, LeftAll
<1>4. Mended'
  BY <1>1, <1>2, SameSlots DEF Mended, Fresh
<1> QED BY <1>3, <1>4 DEF Turns

LEMMA TurnSubmit ==
    ASSUME TurnInv, Turn, SameWorld,
           NEW i \in Items, NEW op \in {"create", "update", "delete"}, Submit(op, i)
    PROVE  Turns'
<1>9. PICK new : new = Request(op, ListOf(i), i)
  OBVIOUS
<1>0. /\ new.for = op /\ new.item = i /\ new.at = "sent"
  BY <1>9, RequestIs
<1>1. calls = {} /\ \A j \in filled : \A h \in Slot(j) : Fresh(h)
  BY TurnQuiet DEF Submit
<1>2. /\ calls' = {new} /\ UNCHANGED <<server, rows, filled>>
      /\ IF op = "create" THEN rows[i] = 0 ELSE rows[i] > 0
      /\ \A h \in Items : shown'[h] # shown[h] => h = i /\ op = "update"
      /\ rows \in [Items -> Nat] /\ server \in [Items -> Vers]
      /\ filled \subseteq Keys
  BY <1>1, <1>9 DEF Submit, Offered, TurnInv, TypeOK
<1>3. SawAll' /\ LeftAll'
  BY <1>0, <1>2 DEF SawAll, LeftAll
<1>4. Stays'
  BY <1>0, <1>2 DEF Stays, RowOf
<1>5. Mended'
  <2> SUFFICES ASSUME NEW k \in filled, NEW h \in Slot(k)
               PROVE  Fresh(h)' \/ Mends(new, h)'
    BY <1>2, SameSlots DEF Mended
  <2>1. Fresh(h) /\ h \in Items
    BY <1>1, <1>2 DEF Slot
  <2>2. CASE shown'[h] = shown[h]
    BY <1>2, <2>1, <2>2 DEF Fresh
  <2>3. CASE h = i /\ op = "update"
    <3>1. rows[h] > 0 /\ server[h] \in Nat
      BY <1>2, <2>1, <2>3 DEF Vers
    <3>2. rows[h] = 1 /\ server[h] > 0
      BY <2>1, <3>1 DEF Fresh
    <3>3. rows'[h] = 1 /\ server'[h] > 0
      BY <1>2, <3>2
    <3> QED BY <1>0, <2>3, <3>3 DEF Mends, Mutators
  <2> QED BY <1>2, <2>1, <2>2, <2>3
<1> QED BY <1>3, <1>4, <1>5 DEF Turns

LEMMA TurnServe ==
    ASSUME TurnInv, Turn, SameWorld, NEW c \in calls, Serve(c)
    PROVE  Turns'
<1> USE DEF Mutators
<1>1. PICK d :
             /\ calls' = (calls \ {c}) \cup {d}
             /\ d.for = c.for /\ d.key = c.key /\ d.item = c.item /\ d.n = c.n
             /\ d.at = "served" /\ d.saw = server'
             /\ c.for \in {"list", "status"} => server' = server
             /\ c.for \notin {"list", "status"} =>
                    server' = [server EXCEPT ![c.item] = Result(c.for, c.item)]
             /\ c.for \in Mutators => Possible(c.for, c.item)
             /\ c.at = "sent"
             /\ UNCHANGED <<rows, shown, marked, loaded, filled, visited, sent, acts>>
  BY ServedCall DEF TurnInv
<1>2. /\ c.for \in {"list", "status", "create", "update", "delete"} /\ c.item \in Items
      /\ server \in [Items -> Vers] /\ rows \in [Items -> Nat] /\ filled \subseteq Keys
  BY DEF TurnInv, TypeOK, Call
<1>3. \A e, f \in calls : e.for # "status" => f = e
  BY DEF TurnInv, Alone, Turn
<1>4. SawAll /\ Stays /\ LeftAll /\ Mended
  BY DEF TurnInv, Turns
<1>5. CASE c.for = "status"
  <2>1. server' = server /\ \A e \in calls : e.for = "status"
    BY <1>1, <1>3, <1>5
  <2>2. SawAll' /\ Stays' /\ LeftAll'
    BY <1>1, <1>4, <1>5, <2>1 DEF SawAll, Stays, LeftAll
  <2>3. \A k \in filled : \A i \in Slot(k) : Fresh(i)
    BY <1>4, <2>1 DEF Mended, Mends
  <2>4. Mended'
    BY <1>1, <2>1, <2>3, SameSlots DEF Mended, Fresh
  <2> QED BY <2>2, <2>4 DEF Turns
<1>6. CASE c.for = "list"
  <2>1. server' = server /\ calls = {c} /\ calls' = {d}
    BY <1>1, <1>3, <1>6
  <2>2. SawAll' /\ Stays' /\ LeftAll'
    BY <1>1, <1>6, <2>1 DEF SawAll, Stays, LeftAll
  <2>3. Mended'
    <3> SUFFICES ASSUME NEW k \in filled, NEW i \in Slot(k) PROVE Fresh(i)' \/ Mends(d, i)'
      BY <1>1, <2>1, SameSlots DEF Mended
    <3>1. Fresh(i) \/ Mends(c, i)
      BY <1>4, <2>1 DEF Mended
    <3>2. Fresh(i) => Fresh(i)'
      BY <1>1, <2>1 DEF Fresh
    <3>3. Mends(c, i) => Mends(d, i)'
      BY <1>1, <1>6, SameSlots DEF Mends
    <3> QED BY <3>1, <3>2, <3>3
  <2> QED BY <2>2, <2>3 DEF Turns
<1>7. CASE c.for \in Mutators
  <2>1. calls = {c} /\ calls' = {d}
    BY <1>1, <1>3, <1>7
  <2>2. server' = [server EXCEPT ![c.item] = Result(c.for, c.item)]
    BY <1>1, <1>7
  <2>3. SawAll' /\ Stays'
    BY <1>1, <2>1 DEF SawAll, Stays
  <2>4. LeftAll'
    <3> SUFFICES ASSUME NEW k \in filled, c.item \in Slot(k) PROVE Left(d)'
      BY <1>1, <2>1, SameSlots DEF LeftAll
    <3>1. RowOf(c) /\ Possible(c.for, c.item)
      BY <1>1, <1>4, <1>7 DEF Stays
    <3>2. Fresh(c.item) \/ Mends(c, c.item)
      BY <1>4, <2>1 DEF Mended
    <3>3. server[c.item] \in Nat /\ rows[c.item] \in Nat
      BY <1>2 DEF Vers
    <3>4. server'[c.item] = Result(c.for, c.item) /\ rows'[c.item] = rows[c.item]
      BY <1>1, <1>2, <2>2
    <3>5. CASE c.for = "create"
      BY <1>1, <3>1, <3>4, <3>5 DEF Left, RowOf, Result
    <3>6. CASE c.for = "delete"
      BY <1>1, <3>1, <3>4, <3>6 DEF Left, RowOf, Result
    <3>7. CASE c.for = "update"
      <4>1. rows[c.item] = 1 /\ server[c.item] > 0
        <5>1. CASE Fresh(c.item)
          BY <3>1, <3>3, <3>7, <5>1 DEF RowOf, Fresh, Possible
        <5>2. CASE Mends(c, c.item)
          BY <1>1, <3>7, <5>2 DEF Mends
        <5> QED BY <3>2, <5>1, <5>2
      <4>2. Result(c.for, c.item) > 0
        BY <3>3, <3>7, <4>1 DEF Result
      <4> QED BY <1>1, <3>4, <3>7, <4>1, <4>2 DEF Left
    <3> QED BY <1>7, <3>5, <3>6, <3>7
  <2>5. Mended'
    <3> SUFFICES ASSUME NEW k \in filled, NEW i \in Slot(k) PROVE Fresh(i)' \/ Mends(d, i)'
      BY <1>1, <2>1, SameSlots DEF Mended
    <3>1. CASE i = c.item
      BY <1>1, <1>7, <3>1 DEF Mends
    <3>2. CASE i # c.item
      <4>1. Fresh(i)
        BY <1>4, <1>7, <2>1, <3>2 DEF Mended, Mends
      <4>2. i \in Items
        BY <1>2 DEF Slot
      <4> QED BY <1>1, <1>2, <2>2, <3>2, <4>1, <4>2 DEF Fresh
    <3> QED BY <3>1, <3>2
  <2> QED BY <2>3, <2>4, <2>5 DEF Turns
<1> QED BY <1>2, <1>5, <1>6, <1>7


\* The rows that a list brings.
LEMMA RowsOfList ==
    ASSUME TypeOK, NEW k \in Keys, NEW saw \in [Items -> Vers], SetRows(k, saw)
    PROVE  /\ \A i \in Slot(k) : rows'[i] = (IF saw[i] > 0 THEN 1 ELSE 0) /\ shown'[i] = saw[i]
           /\ store.list # "takes-over" =>
                  \A i \in Items \ Slot(k) : rows'[i] = rows[i] /\ shown'[i] = shown[i]
<1>1. \A i \in Slot(k) : i \in Items /\ i \in Replaced(k)
  BY DEF Slot, Replaced
<1>2. store.list # "takes-over" => \A i \in Items \ Slot(k) : i \notin Replaced(k)
  BY WorldType DEF Profile, Slot, Replaced
<1> QED BY <1>1, <1>2 DEF SetRows

\* What the answer of a mutator does to the rows, by its profile.
LEMMA RowAfter ==
    ASSUME TypeOK, NEW op \in {"create", "update", "delete"}, store[op] \notin {"none", "reload"},
           NEW i \in Items, NEW v \in Vers, AnsweredRow(op, i, v)
    PROVE  /\ \A j \in Items \ {i} : rows'[j] = rows[j] /\ shown'[j] = shown[j]
           /\ op = "create" => rows'[i] \in {1, rows[i] + 1}
           /\ op = "update" => rows'[i] \in {1, rows[i]}
           /\ op = "delete" => rows'[i] = 0
           /\ shown'[i] = IF rows'[i] > 0 THEN v ELSE 0
<1>1. PICK st \in Profile : st = store
  BY WorldType
<1>2. rows \in [Items -> Nat] /\ shown \in [Items -> Vers]
  BY DEF TypeOK
<1>3. ASSUME NEW n, NEW w, RowSet(i, n, w)
      PROVE  /\ \A j \in Items \ {i} : rows'[j] = rows[j] /\ shown'[j] = shown[j]
             /\ rows'[i] = n /\ shown'[i] = IF n > 0 THEN w ELSE 0
  BY <1>2, <1>3 DEF RowSet
<1>4. CASE op = "create"
  <2>1. store[op] \in {"add", "upsert"}
    BY <1>1, <1>4 DEF Profile
  <2>2. CASE store[op] = "add"
    BY <1>3, <1>4, <2>2 DEF AnsweredRow
  <2>3. CASE store[op] = "upsert"
    BY <1>3, <1>4, <2>3 DEF AnsweredRow
  <2> QED BY <2>1, <2>2, <2>3
<1>5. CASE op = "update"
  <2>1. store[op] \in {"replace", "upsert", "local-first", "mark-undo", "mark"}
    BY <1>1, <1>5 DEF Profile
  <2>2. CASE store[op] = "upsert"
    BY <1>3, <1>5, <2>2 DEF AnsweredRow
  <2>3. CASE store[op] # "upsert"
    <3>1. RowSet(i, rows[i], v)
      BY <2>1, <2>3 DEF AnsweredRow
    <3> QED BY <1>3, <1>5, <3>1
  <2> QED BY <2>2, <2>3
<1>6. CASE op = "delete"
  <2>1. store[op] = "filter"
    BY <1>1, <1>6 DEF Profile
  <2>2. RowSet(i, 0, 0)
    BY <2>1 DEF AnsweredRow
  <2> QED BY <1>3, <1>6, <2>2
<1> QED BY <1>4, <1>5, <1>6 DEF Mutators

LEMMA TurnListed ==
    ASSUME TurnInv, Turn, SameWorld, NEW c \in calls, Listed(c)
    PROVE  Turns'
<1>1. /\ TypeOK /\ c.key \in Keys /\ c.saw \in [Items -> Vers] /\ c.for = "list" /\ c.at = "served"
      /\ server \in [Items -> Vers] /\ filled \subseteq Keys
  BY DEF TurnInv, TypeOK, Call, Listed
<1>2. calls = {c}
  BY <1>1 DEF TurnInv, Alone, Turn
<1>3. calls' \subseteq StatusCalls(c.saw)
  BY <1>2 DEF Listed, Over
<1>4. \A d \in StatusCalls(c.saw) : d.for = "status" /\ d.at = "sent"
  BY RequestIs DEF StatusCalls
<1>5. SawAll' /\ Stays' /\ LeftAll'
  BY <1>3, <1>4 DEF SawAll, Stays, LeftAll, Mutators
<1>6. c.saw = server /\ server' = server
  BY <1>1 DEF TurnInv, Turns, SawAll, Listed
<1>7. Mended'
  <2> SUFFICES ASSUME NEW k \in filled', NEW i \in Slot(k) PROVE Fresh(i)'
    BY SameSlots DEF Mended
  <2>1. SetRows(c.key, c.saw)
    BY DEF Listed
  <2>2. CASE i \in Slot(c.key)
    <3>1. rows'[i] = (IF server[i] > 0 THEN 1 ELSE 0) /\ shown'[i] = server[i]
      BY <1>1, <1>6, <2>1, <2>2, RowsOfList
    <3> QED BY <1>6, <3>1 DEF Fresh
  <2>3. CASE i \notin Slot(c.key)
    <3>1. store.list # "takes-over" /\ k \in filled
      BY <2>3 DEF Listed
    <3>2. i \in Items
      BY <1>1, <3>1 DEF Slot
    <3>3. rows'[i] = rows[i] /\ shown'[i] = shown[i]
      BY <1>1, <2>1, <2>3, <3>1, <3>2, RowsOfList
    <3>4. Fresh(i)
      BY <1>1, <1>2, <2>3, <3>1 DEF TurnInv, Turns, Mended, Mends, Mutators
    <3> QED BY <1>6, <3>3, <3>4 DEF Fresh
  <2> QED BY <2>2, <2>3
<1> QED BY <1>5, <1>7 DEF Turns

LEMMA TurnAnswered ==
    ASSUME TurnInv, Turn, SameWorld, NEW c \in calls, Answered(c)
    PROVE  Turns'
<1> USE DEF Mutators
<1>1. /\ TypeOK /\ c.for \in Mutators /\ c.at = "served" /\ c.item \in Items
      /\ c.key = ListOf(c.item) /\ store[c.for] # "none"
      /\ server \in [Items -> Vers] /\ filled \subseteq Keys
      /\ UNCHANGED <<server, filled>>
  BY DEF TurnInv, TypeOK, Call, Answered, Asked
<1>2. calls = {c}
  BY <1>1 DEF TurnInv, Alone, Turn
<1>3. SawAll /\ LeftAll /\ Mended
  BY DEF TurnInv, Turns
<1>4. CASE store[c.for] = "reload"
  <2>1. PICK new : new = Request("list", c.key, AnyItem)
    OBVIOUS
  <2>2. calls' = {new} /\ UNCHANGED <<rows, shown>>
    BY <1>1, <1>2, <1>4, <2>1 DEF Answered, Reload, SendList, ListInFlight
  <2>3. new.for = "list" /\ new.at = "sent" /\ new.key = c.key
    BY <2>1, RequestIs
  <2>4. SawAll' /\ Stays' /\ LeftAll'
    BY <2>2, <2>3 DEF SawAll, Stays, LeftAll
  <2>5. Mended'
    <3> SUFFICES ASSUME NEW k \in filled, NEW i \in Slot(k) PROVE Fresh(i)' \/ Mends(new, i)'
      BY <1>1, <2>2, SameSlots DEF Mended
    <3>1. CASE i = c.item
      BY <1>1, <2>3, <3>1, SlotOfList, SameSlots DEF Mends
    <3>2. CASE i # c.item
      BY <1>1, <1>2, <1>3, <2>2, <3>2 DEF Mended, Mends, Fresh
    <3> QED BY <3>1, <3>2
  <2> QED BY <2>4, <2>5 DEF Turns
<1>5. CASE store[c.for] # "reload"
  <2>1. calls' = {} /\ AnsweredRow(c.for, c.item, c.saw[c.item])
    BY <1>2, <1>5 DEF Answered, Over
  <2>2. SawAll' /\ Stays' /\ LeftAll'
    BY <2>1 DEF SawAll, Stays, LeftAll
  <2>3. c.saw[c.item] = server[c.item] /\ server[c.item] \in Vers /\ server[c.item] \in Nat
    BY <1>1, <1>3 DEF SawAll, Vers
  <2>4. /\ \A j \in Items \ {c.item} : rows'[j] = rows[j] /\ shown'[j] = shown[j]
        /\ c.for = "create" => rows'[c.item] \in {1, rows[c.item] + 1}
        /\ c.for = "update" => rows'[c.item] \in {1, rows[c.item]}
        /\ c.for = "delete" => rows'[c.item] = 0
        /\ shown'[c.item] = IF rows'[c.item] > 0 THEN server[c.item] ELSE 0
    <3>1. PICK op \in {"create", "update", "delete"} : op = c.for
      BY <1>1
    <3>2. PICK i \in Items : i = c.item
      BY <1>1
    <3>3. PICK v \in Vers : v = server[c.item]
      BY <2>3
    <3>4. AnsweredRow(op, i, v) /\ store[op] \notin {"none", "reload"}
      BY <1>1, <1>5, <2>1, <2>3, <3>1, <3>2, <3>3
    <3>5. /\ \A j \in Items \ {i} : rows'[j] = rows[j] /\ shown'[j] = shown[j]
          /\ op = "create" => rows'[i] \in {1, rows[i] + 1}
          /\ op = "update" => rows'[i] \in {1, rows[i]}
          /\ op = "delete" => rows'[i] = 0
          /\ shown'[i] = IF rows'[i] > 0 THEN v ELSE 0
      BY <1>1, <3>4, RowAfter
    <3> QED BY <3>1, <3>2, <3>3, <3>5
  <2>5. Mended'
    <3> SUFFICES ASSUME NEW k \in filled, NEW i \in Slot(k) PROVE Fresh(i)'
      BY <1>1, SameSlots DEF Mended
    <3>1. CASE i = c.item
      <4>1. Left(c)
        BY <1>1, <1>3, <3>1 DEF LeftAll
      <4> QED BY <1>1, <2>3, <2>4, <3>1, <4>1 DEF Left, Fresh
    <3>2. CASE i # c.item
      <4>1. Fresh(i) /\ i \in Items
        BY <1>1, <1>2, <1>3, <3>2 DEF Mended, Mends, Slot
      <4> QED BY <1>1, <2>4, <3>2, <4>1 DEF Fresh
    <3> QED BY <3>1, <3>2
  <2> QED BY <2>2, <2>5 DEF Turns
<1> QED BY <1>4, <1>5

LEMMA TurnFails ==
    ASSUME TurnInv, Turn, SameWorld, NEW c \in calls, Fails(c)
    PROVE  Turns'
<1> USE DEF Mutators
<1>1. /\ c.for \in Mutators /\ c.at = "sent" /\ ~Possible(c.for, c.item) /\ c.item \in Items
      /\ server \in [Items -> Vers] /\ filled \subseteq Keys
      /\ UNCHANGED <<server, filled, rows, shown>>
  BY DEF TurnInv, TypeOK, Call, Fails, Turn
<1>2. calls = {c} /\ calls' = {}
  BY <1>1 DEF TurnInv, Alone, Turn, Fails, Over
<1>3. SawAll' /\ Stays' /\ LeftAll'
  BY <1>2 DEF SawAll, Stays, LeftAll
<1>4. Mended'
  <2> SUFFICES ASSUME NEW k \in filled, NEW i \in Slot(k) PROVE Fresh(i)
    BY <1>1, SameSlots DEF Mended, Fresh
  <2>1. Fresh(i) \/ Mends(c, i)
    BY <1>2 DEF TurnInv, Turns, Mended
  <2>2. ~Mends(c, i)
    BY <1>1 DEF Mends, Possible
  <2> QED BY <2>1, <2>2
<1> QED BY <1>3, <1>4 DEF Turns

LEMMA TurnStatus ==
    ASSUME TurnInv, Turn, SameWorld, NEW c \in calls, StatusAnswered(c)
    PROVE  Turns'
<1> USE DEF Mutators
<1>1. /\ c.for = "status" /\ c.at = "served" /\ RowSet(c.item, rows[c.item], c.saw[c.item])
      /\ c.item \in Items /\ calls' \subseteq calls
      /\ rows \in [Items -> Nat] /\ shown \in [Items -> Vers] /\ filled \subseteq Keys
      /\ UNCHANGED <<server, filled>>
  BY DEF TurnInv, TypeOK, Call, StatusAnswered, Turn, Over
<1>2. \A d \in calls : d.for = "status"
  BY <1>1 DEF TurnInv, Alone, Turn
<1>3. SawAll /\ Mended
  BY DEF TurnInv, Turns
<1>4. SawAll' /\ Stays' /\ LeftAll'
  BY <1>1, <1>2, <1>3 DEF SawAll, Stays, LeftAll
<1>5. Mended'
  <2> SUFFICES ASSUME NEW k \in filled, NEW i \in Slot(k) PROVE Fresh(i)'
    BY <1>1, SameSlots DEF Mended
  <2>1. Fresh(i) /\ i \in Items
    BY <1>1, <1>2, <1>3 DEF Mended, Mends, Slot
  <2>2. c.saw = server
    BY <1>1, <1>3 DEF SawAll
  <2>3. rows'[i] = rows[i] /\ (i # c.item => shown'[i] = shown[i])
    BY <1>1, <2>1 DEF RowSet
  <2>4. i = c.item => shown'[i] = IF rows[i] > 0 THEN server[i] ELSE 0
    BY <1>1, <2>2 DEF RowSet
  <2>5. server[i] \in Nat
    BY <2>1 DEF TurnInv, TypeOK, Vers
  <2> QED BY <1>1, <2>1, <2>3, <2>4, <2>5 DEF Fresh
<1> QED BY <1>4, <1>5 DEF Turns

LEMMA TurnNext == ASSUME TurnInv, [Next]_vars PROVE TurnInv'
<1>0. SameWorld /\ Turn' = Turn
  BY NextSameWorld, SameSlots
<1>1. TypeOK' /\ Alone' /\ Asked' /\ Seeds'
  BY NextType, AloneNext, AskedNext, SeedsNext DEF TurnInv
<1>2. ASSUME Turn PROVE Turns'
  <2>1. ASSUME NEW c \in calls, ListFails(c) PROVE FALSE
    BY <1>2, <2>1 DEF ListFails, Turn
  <2>2. ASSUME NEW i \in Items, NEW op \in {"create", "update", "delete"}, Locally(op, i) PROVE FALSE
    BY <1>2, <2>2 DEF Locally, Turn
  <2>3. CASE Next
    BY <1>0, <1>2, <2>1, <2>2, <2>3, Steps, TurnAsk, TurnSubmit, TurnServe, TurnListed, TurnAnswered,
       TurnFails, TurnStatus
  <2>4. CASE UNCHANGED vars
    <3>1. Turns
      BY <1>2 DEF TurnInv
    <3>2. SawAll' /\ Stays' /\ LeftAll'
      BY <2>4, <3>1, SameSlots, <1>0 DEF vars, Turns, SawAll, Stays, RowOf, LeftAll, Left
    <3>3. Mended'
      BY <2>4, <3>1, SameSlots, <1>0 DEF vars, Turns, Mended, Mends, Fresh
    <3> QED BY <3>2, <3>3 DEF Turns
  <2> QED BY <2>3, <2>4
<1> QED BY <1>0, <1>1, <1>2 DEF TurnInv

LEMMA TurnInit == ASSUME Init PROVE TurnInv
<1>1. TypeOK /\ Alone
  BY InitType, AloneInit
<1>2. Asked /\ SawAll /\ Stays /\ LeftAll
  BY DEF Init, Asked, SawAll, Stays, LeftAll
<1>3. Seeds
  <2>1. ASSUME Offline, NEW i \in Items PROVE Fresh(i)
    <3>1. server[i] \in {0, 1} /\ rows[i] = server[i] /\ shown[i] = server[i]
      BY <2>1 DEF Init
    <3> QED BY <3>1 DEF Fresh
  <2> QED BY <2>1 DEF Init, Seeds
<1>4. Turn => Mended
  BY DEF Init, Turn, Mended
<1> QED BY <1>1, <1>2, <1>3, <1>4 DEF TurnInv, Turns

LEMMA TurnCoherent == ASSUME TurnInv PROVE CoherentInTurn
<1> SUFFICES ASSUME InTurn, ~Lossy, Quiet, NEW k \in filled, NEW i \in Items, i \in Slot(k)
             PROVE  Fresh(i)
  BY DEF CoherentInTurn
<1>1. CASE Offline
  BY <1>1 DEF TurnInv, Seeds
<1>2. CASE ~Offline
  BY <1>2 DEF TurnInv, Turn, Turns, Mended, Quiet
<1> QED BY <1>1, <1>2

\* A user who waits for each answer sees every object once and in the server's
\* version, in every store that can be put together from these loaders and
\* mutators, not only in the console's.
THEOREM RowsCohereInTurn == Spec => []CoherentInTurn
<1>1. Init => TurnInv
  BY TurnInit
<1>2. TurnInv /\ [Next]_vars => TurnInv'
  BY TurnNext
<1>3. TurnInv => CoherentInTurn
  BY TurnCoherent
<1> QED BY <1>1, <1>2, <1>3, PTL DEF Spec


-----------------------------------------------------------------------------
(* Rows and server agree, when every mutator lists again *)

\* The stores the property is about, and lists that keep their order.
Reloading ==
    /\ InOrder /\ ~Lossy /\ ~Offline
    /\ Reloads("create") /\ Reloads("update") /\ Reloads("delete") /\ store.flag # "promise"

\* The numbers of the requests in flight.
Numbered == \A c \in calls : c.n <= sent

\* After list m something comes that puts i right: a list that the server has
\* yet to read, or read as it is, or the answer of a mutator, which will ask.
Later(m, i) == \E d \in calls :
    \/ d.for \in Mutators /\ d.at = "served" /\ d.item = i
    \/ d.for = "list" /\ d.n > m /\ i \in Slot(d.key) /\ (d.at = "sent" \/ d.saw[i] = server[i])

\* A list that arrives is right about each object, or is not the last word.
ListsCatchUp == \A c \in calls : c.for = "list" /\ c.at = "served" =>
    \A i \in Slot(c.key) : c.saw[i] = server[i] \/ Later(c.n, i)

RowsCatchUp == \A k \in filled : \A i \in Slot(k) : Fresh(i) \/ Later(0, i)

CatchUp == ListsCatchUp /\ RowsCatchUp

\* No store that lists again asks for a status of each row, which may come late.
NoStatus == Reloading => ~store.status /\ \A c \in calls : c.for # "status"

ReloadInv == TypeOK /\ Asked /\ NoStatus /\ (Reloading => Numbered /\ CatchUp)

\* The stores of the console, and no other mix of loaders and mutators.
ConsoleStores == \A w \in Worlds : w.store \in Stores

LEMMA StatusIsAdded == \A s \in Stores : s.status => s.create = "add"
<1> USE DEF Models, Collections, InferenceServices, ServingRuntimes, LLMConfigs, DeploymentModes,
        TrainingRuntimes, TrainJobs, Notebooks, Workloads, Deployments, ClusterResources, Gateways,
        Users, Roles, RoleBindings, Nodes, GPUProfiles, StorageTargets, Providers, AIStorage,
        LocalModelCaches, Installs, Versions, Reconciles, ImageRegistry
<1>1. /\ ~Models.status /\ ~Collections.status /\ ~InferenceServices.status /\ ~ServingRuntimes.status
      /\ ~LLMConfigs.status /\ ~DeploymentModes.status
  OBVIOUS
<1>2. /\ ~TrainingRuntimes.status /\ ~TrainJobs.status /\ ~Notebooks.status /\ ~Workloads.status
      /\ ~Deployments.status /\ ~ClusterResources.status /\ ~Gateways.status
  OBVIOUS
<1>3. /\ ~Users.status /\ ~Roles.status /\ ~RoleBindings.status /\ ~Nodes.status
      /\ ~GPUProfiles.status /\ ~StorageTargets.status /\ ~Providers.status /\ ~AIStorage.status
      /\ ~LocalModelCaches.status /\ ~ImageRegistry.status
  OBVIOUS
<1>4. Installs.create = "add" /\ Versions.create = "add" /\ Reconciles.create = "add"
  OBVIOUS
<1> QED BY <1>1, <1>2, <1>3, <1>4 DEF Stores

LEMMA ReloadsHaveNoStatus ==
    ASSUME ConsoleStores, TypeOK
    PROVE  Reloading => ~store.status
<1>1. store \in Stores
  BY DEF ConsoleStores, TypeOK, store
<1>2. store.status => store.create = "add"
  BY <1>1, StatusIsAdded
<1> QED BY <1>2 DEF Reloading, Reloads

LEMMA SameReloading ==
    ASSUME SameWorld
    PROVE  Reloading' = Reloading
PROOF BY DEF SameWorld, Reloading, Reloads, InOrder, Lossy, Offline, store

\* A request more.
LEMMA NumberedSend ==
    ASSUME TypeOK, Numbered, NEW new, new.n = sent + 1, calls' \subseteq calls \cup {new},
           sent' = sent + 1
    PROVE  Numbered'
<1>1. sent \in Nat /\ \A c \in calls : c.n \in Nat /\ c.n <= sent
  BY DEF TypeOK, Call, Numbered
<1> QED BY <1>1 DEF Numbered

LEMMA NumberedOver ==
    ASSUME TypeOK, Numbered, NEW c \in calls, Over(c)
    PROVE  Numbered'
PROOF BY DEF Over, Numbered

\* Requests are sent and nothing else: whoever was to put a row right still is.
LEMMA CatchUpSend ==
    ASSUME CatchUp, SameWorld, UNCHANGED <<server, rows, shown, filled>>,
           calls \subseteq calls', \A d \in calls' \ calls : d.at = "sent"
    PROVE  CatchUp'
<1>1. ASSUME NEW m, NEW i, Later(m, i) PROVE Later(m, i)'
  BY <1>1, SameSlots DEF Later
<1>2. ListsCatchUp'
  <2> SUFFICES ASSUME NEW c \in calls', c.for = "list", c.at = "served", NEW i \in Slot(c.key)
               PROVE  c.saw[i] = server[i] \/ Later(c.n, i)'
    BY SameSlots DEF ListsCatchUp
  <2>1. c \in calls
    OBVIOUS
  <2> QED BY <1>1, <2>1 DEF CatchUp, ListsCatchUp
<1>3. RowsCatchUp'
  <2> SUFFICES ASSUME NEW k \in filled, NEW i \in Slot(k) PROVE Fresh(i)' \/ Later(0, i)'
    BY SameSlots DEF RowsCatchUp
  <2>1. Fresh(i) \/ Later(0, i)
    BY DEF CatchUp, RowsCatchUp
  <2> QED BY <1>1, <2>1 DEF Fresh
<1> QED BY <1>2, <1>3 DEF CatchUp

\* A request ends that nobody waited for.
LEMMA CatchUpEnd ==
    ASSUME CatchUp, SameWorld, UNCHANGED <<server, rows, shown, filled>>,
           NEW c \in calls, calls' = calls \ {c}, c.for # "list", c.for \in Mutators => c.at = "sent"
    PROVE  CatchUp'
<1>1. ASSUME NEW m, NEW i, Later(m, i) PROVE Later(m, i)'
  BY <1>1, SameSlots DEF Later
<1>2. ListsCatchUp'
  BY <1>1, SameSlots DEF CatchUp, ListsCatchUp
<1>3. RowsCatchUp'
  BY <1>1, SameSlots DEF CatchUp, RowsCatchUp, Fresh
<1> QED BY <1>2, <1>3 DEF CatchUp


LEMMA CatchUpServe ==
    ASSUME ReloadInv, Reloading, SameWorld, NEW c \in calls, Serve(c)
    PROVE  CatchUp' /\ Numbered'
<1> USE DEF Mutators
<1>1. PICK d :
             /\ calls' = (calls \ {c}) \cup {d}
             /\ d.for = c.for /\ d.key = c.key /\ d.item = c.item /\ d.n = c.n
             /\ d.at = "served" /\ d.saw = server'
             /\ c.for \in {"list", "status"} => server' = server
             /\ c.for \notin {"list", "status"} =>
                    server' = [server EXCEPT ![c.item] = Result(c.for, c.item)]
             /\ c.at = "sent"
             /\ UNCHANGED <<rows, shown, marked, loaded, filled, visited, sent, acts>>
  BY ServedCall DEF ReloadInv
<1>2. /\ c.for \in {"list", "status", "create", "update", "delete"} /\ c.item \in Items
      /\ server \in [Items -> Vers] /\ filled \subseteq Keys
      /\ \A e \in calls : e.key \in Keys
  BY DEF ReloadInv, TypeOK, Call
<1>3. ListsCatchUp /\ RowsCatchUp
  BY DEF ReloadInv, CatchUp
<1>4. ASSUME NEW i \in Items, server'[i] # server[i] PROVE d.for \in Mutators /\ d.item = i
  <2>1. c.for \notin {"list", "status"}
    BY <1>1, <1>4
  <2>2. i = c.item
    BY <1>1, <1>2, <1>4, <2>1
  <2> QED BY <1>1, <1>2, <2>1, <2>2
<1>5. ASSUME NEW m, NEW i \in Items, Later(m, i) \/ server'[i] # server[i] PROVE Later(m, i)'
  <2>1. CASE server'[i] # server[i]
    BY <1>1, <1>4, <2>1 DEF Later
  <2>2. CASE server'[i] = server[i]
    <3>1. PICK e \in calls :
              \/ e.for \in Mutators /\ e.at = "served" /\ e.item = i
              \/ e.for = "list" /\ e.n > m /\ i \in Slot(e.key) /\ (e.at = "sent" \/ e.saw[i] = server[i])
      BY <1>5, <2>2 DEF Later
    <3>2. CASE e # c
      BY <1>1, <2>2, <3>1, <3>2, SameSlots DEF Later
    <3>3. CASE e = c
      BY <1>1, <2>2, <3>1, <3>3, SameSlots DEF Later
    <3> QED BY <3>2, <3>3
  <2> QED BY <2>1, <2>2
<1>6. ListsCatchUp'
  <2> SUFFICES ASSUME NEW e \in calls', e.for = "list", e.at = "served", NEW i \in Slot(e.key)
               PROVE  e.saw[i] = server'[i] \/ Later(e.n, i)'
    BY SameSlots DEF ListsCatchUp
  <2>1. CASE e = d
    BY <1>1, <2>1
  <2>2. CASE e \in calls
    <3>1. i \in Items
      BY <1>2, <2>2, SlotItems
    <3>2. e.saw[i] = server[i] \/ Later(e.n, i)
      BY <1>3, <2>2 DEF ListsCatchUp
    <3> QED BY <1>5, <3>1, <3>2
  <2> QED BY <1>1, <2>1, <2>2
<1>7. RowsCatchUp'
  <2> SUFFICES ASSUME NEW k \in filled, NEW i \in Slot(k) PROVE Fresh(i)' \/ Later(0, i)'
    BY <1>1, SameSlots DEF RowsCatchUp
  <2>1. i \in Items
    BY <1>2, SlotItems
  <2>2. Fresh(i) \/ Later(0, i)
    BY <1>3 DEF RowsCatchUp
  <2> QED BY <1>1, <1>5, <2>1, <2>2 DEF Fresh
<1>8. Numbered'
  BY <1>1 DEF ReloadInv, Numbered
<1> QED BY <1>6, <1>7, <1>8 DEF CatchUp

LEMMA CatchUpListed ==
    ASSUME ReloadInv, Reloading, SameWorld, NEW c \in calls, Listed(c)
    PROVE  CatchUp' /\ Numbered'
<1> USE DEF Mutators
<1>1. /\ TypeOK /\ c.key \in Keys /\ c.saw \in [Items -> Vers] /\ c.for = "list" /\ c.at = "served"
      /\ c.n \in Nat /\ filled \subseteq Keys
      /\ \A d \in calls : d.n \in Nat /\ d.key \in Keys
      /\ server' = server
  BY DEF ReloadInv, TypeOK, Call, Listed
<1>2. StatusCalls(c.saw) = {}
  BY DEF ReloadInv, NoStatus, StatusCalls
<1>3. Over(c) /\ calls' = calls \ {c}
  BY <1>2 DEF Listed, Over
<1>4. \A d \in calls : d.for = "list" => d.n >= c.n
  BY DEF Reloading, Listed, InItsOrder
<1>5. ASSUME NEW m, NEW i, Later(m, i),
             m \in Nat /\ (m >= c.n \/ i \notin Slot(c.key))
      PROVE  Later(m, i)'
  <2>1. PICK d \in calls :
              \/ d.for \in Mutators /\ d.at = "served" /\ d.item = i
              \/ d.for = "list" /\ d.n > m /\ i \in Slot(d.key) /\ (d.at = "sent" \/ d.saw[i] = server[i])
    BY <1>5 DEF Later
  <2>2. d # c
    BY <1>1, <1>5, <2>1
  <2> QED BY <1>1, <1>3, <2>1, <2>2, SameSlots DEF Later
<1>6. ListsCatchUp'
  <2> SUFFICES ASSUME NEW e \in calls, e # c, e.for = "list", e.at = "served", NEW i \in Slot(e.key)
               PROVE  e.saw[i] = server[i] \/ Later(e.n, i)'
    BY <1>1, <1>3, SameSlots DEF ListsCatchUp
  <2>1. e.saw[i] = server[i] \/ Later(e.n, i)
    BY DEF ReloadInv, CatchUp, ListsCatchUp
  <2> QED BY <1>1, <1>4, <1>5, <2>1
<1>7. RowsCatchUp'
  <2> SUFFICES ASSUME NEW k \in filled', NEW i \in Slot(k) PROVE Fresh(i)' \/ Later(0, i)'
    BY SameSlots DEF RowsCatchUp
  <2>1. SetRows(c.key, c.saw)
    BY DEF Listed
  <2>2. CASE i \in Slot(c.key)
    <3>1. rows'[i] = (IF c.saw[i] > 0 THEN 1 ELSE 0) /\ shown'[i] = c.saw[i]
      BY <1>1, <2>1, <2>2, RowsOfList
    <3>2. CASE c.saw[i] = server[i]
      BY <1>1, <3>1, <3>2 DEF Fresh
    <3>3. CASE c.saw[i] # server[i]
      <4>1. Later(c.n, i)
        BY <1>1, <2>2, <3>3 DEF ReloadInv, CatchUp, ListsCatchUp
      <4>2. Later(c.n, i)'
        BY <1>1, <1>5, <4>1
      <4>3. calls' \subseteq calls
        BY <1>3
      <4>4. PICK d \in calls' :
              \/ d.for \in Mutators /\ d.at = "served" /\ d.item = i
              \/ d.for = "list" /\ d.n > c.n /\ i \in Slot(d.key)' /\ (d.at = "sent" \/ d.saw[i] = server'[i])
        BY <1>1, <4>2, SameSlots DEF Later
      <4>5. d.for = "list" /\ d.n > c.n => d.n > 0
        BY <1>1, <4>3
      <4> QED BY <4>4, <4>5 DEF Later
    <3> QED BY <3>2, <3>3
  <2>3. CASE i \notin Slot(c.key)
    <3>1. store.list # "takes-over" /\ k \in filled
      BY <2>3 DEF Listed
    <3>2. i \in Items
      BY <1>1, <3>1, SlotItems
    <3>3. rows'[i] = rows[i] /\ shown'[i] = shown[i]
      BY <1>1, <2>1, <2>3, <3>1, <3>2, RowsOfList
    <3>4. Fresh(i) \/ Later(0, i)
      BY <3>1 DEF ReloadInv, CatchUp, RowsCatchUp
    <3> QED BY <1>1, <1>5, <2>3, <3>3, <3>4 DEF Fresh
  <2> QED BY <2>2, <2>3
<1>8. Numbered'
  BY <1>3, NumberedOver DEF ReloadInv
<1> QED BY <1>6, <1>7, <1>8 DEF CatchUp

LEMMA CatchUpAnswered ==
    ASSUME ReloadInv, Reloading, SameWorld, NEW c \in calls, Answered(c)
    PROVE  CatchUp' /\ Numbered'
<1> USE DEF Mutators
<1>1. /\ c.for \in Mutators /\ c.item \in Items /\ c.key = ListOf(c.item)
      /\ store[c.for] = "reload" /\ store.flag # "promise" /\ sent \in Nat
      /\ \A d \in calls : d.n \in Nat /\ d.n <= sent
  BY DEF ReloadInv, TypeOK, Call, Answered, Asked, Reloading, Reloads, Numbered
<1>2. PICK new : new = Request("list", c.key, AnyItem)
  OBVIOUS
<1>3. new.for = "list" /\ new.at = "sent" /\ new.key = c.key /\ new.n = sent + 1
  BY <1>2, RequestIs
<1>4. /\ calls' = (calls \ {c}) \cup {new} /\ sent' = sent + 1
      /\ UNCHANGED <<server, rows, shown, filled>>
  BY <1>1, <1>2 DEF Answered, Reload, SendList
<1>5. ASSUME NEW m \in Nat, m <= sent, NEW i, Later(m, i) PROVE Later(m, i)'
  <2>1. PICK d \in calls :
              \/ d.for \in Mutators /\ d.at = "served" /\ d.item = i
              \/ d.for = "list" /\ d.n > m /\ i \in Slot(d.key) /\ (d.at = "sent" \/ d.saw[i] = server[i])
    BY <1>5 DEF Later
  <2>2. CASE d = c
    <3>1. i \in Slot(new.key)
      BY <1>1, <1>3, <2>1, <2>2, SlotOfList
    <3>2. new.n > m
      BY <1>1, <1>3, <1>5
    <3> QED BY <1>3, <1>4, <3>1, <3>2, SameSlots DEF Later
  <2>3. CASE d # c
    BY <1>4, <2>1, <2>3, SameSlots DEF Later
  <2> QED BY <2>2, <2>3
<1>6. ListsCatchUp'
  <2> SUFFICES ASSUME NEW e \in calls, e.for = "list", e.at = "served", NEW i \in Slot(e.key)
               PROVE  e.saw[i] = server[i] \/ Later(e.n, i)'
    BY <1>3, <1>4, SameSlots DEF ListsCatchUp
  <2> QED BY <1>1, <1>5 DEF ReloadInv, CatchUp, ListsCatchUp
<1>7. RowsCatchUp'
  <2> SUFFICES ASSUME NEW k \in filled, NEW i \in Slot(k) PROVE Fresh(i)' \/ Later(0, i)'
    BY <1>4, SameSlots DEF RowsCatchUp
  <2>1. Fresh(i) \/ Later(0, i)
    BY DEF ReloadInv, CatchUp, RowsCatchUp
  <2>2. 0 \in Nat /\ 0 <= sent
    BY <1>1
  <2> QED BY <1>4, <1>5, <2>1, <2>2 DEF Fresh
<1>8. Numbered'
  <2>1. TypeOK /\ Numbered /\ calls' \subseteq calls \cup {new}
    BY <1>4 DEF ReloadInv
  <2> QED BY <1>3, <1>4, <2>1, NumberedSend
<1> QED BY <1>6, <1>7, <1>8 DEF CatchUp

LEMMA CatchUpAsk ==
    ASSUME ReloadInv, Reloading, SameWorld, NEW k \in Keys, Visit(k) \/ Refresh(k)
    PROVE  CatchUp' /\ Numbered'
<1>1. PICK new : new = Request("list", k, AnyItem)
  OBVIOUS
<1>2. new.at = "sent" /\ new.n = sent + 1
  BY <1>1, RequestIs
<1>3. /\ UNCHANGED <<server, rows, shown, filled>>
      /\ \/ calls' = calls /\ sent' = sent
         \/ calls' = calls \cup {new} /\ sent' = sent + 1
  BY <1>1 DEF Visit, Refresh, Ensure, Reload, SendList, Reloading
<1>4. CatchUp'
  BY <1>2, <1>3, CatchUpSend DEF ReloadInv
<1>5. Numbered'
  <2>1. TypeOK /\ Numbered
    BY DEF ReloadInv
  <2>2. CASE calls' = calls /\ sent' = sent
    BY <2>1, <2>2 DEF Numbered
  <2>3. CASE calls' = calls \cup {new} /\ sent' = sent + 1
    BY <1>2, <2>1, <2>3, NumberedSend
  <2> QED BY <1>3, <2>2, <2>3
<1> QED BY <1>4, <1>5

LEMMA CatchUpSubmit ==
    ASSUME ReloadInv, Reloading, SameWorld,
           NEW i \in Items, NEW op \in {"create", "update", "delete"}, Submit(op, i)
    PROVE  CatchUp' /\ Numbered'
<1>1. PICK new : new = Request(op, ListOf(i), i)
  OBVIOUS
<1>2. new.at = "sent" /\ new.n = sent + 1
  BY <1>1, RequestIs
<1>3. store.update \in {"reload", "none"}
  BY DEF Reloading, Reloads
<1>4. /\ UNCHANGED <<server, rows, shown, filled>>
      /\ calls' = calls \cup {new} /\ sent' = sent + 1
  BY <1>1, <1>3 DEF Submit
<1>5. TypeOK /\ Numbered /\ CatchUp
  BY DEF ReloadInv
<1>6. CatchUp'
  BY <1>2, <1>4, <1>5, CatchUpSend
<1>7. Numbered'
  BY <1>2, <1>4, <1>5, NumberedSend
<1> QED BY <1>6, <1>7

LEMMA CatchUpFails ==
    ASSUME ReloadInv, Reloading, SameWorld, NEW c \in calls, Fails(c)
    PROVE  CatchUp' /\ Numbered'
<1>1. /\ TypeOK /\ Numbered /\ CatchUp /\ Over(c) /\ calls' = calls \ {c}
      /\ UNCHANGED <<server, rows, shown, filled>>
      /\ c.for # "list" /\ c.at = "sent"
  BY DEF ReloadInv, Fails, Over, Reloading
<1> QED BY <1>1, CatchUpEnd, NumberedOver

LEMMA NoStatusNext == ASSUME ConsoleStores, ReloadInv, [Next]_vars PROVE NoStatus'
<1>0. SameWorld /\ store' = store /\ Reloading' = Reloading
  BY NextSameWorld, SameSlots, SameReloading
<1> SUFFICES ASSUME Reloading, NEW d \in calls', d.for = "status" PROVE FALSE
  BY <1>0, ReloadsHaveNoStatus DEF NoStatus, ReloadInv
<1>1. ~store.status /\ \A c \in calls : c.for # "status"
  BY DEF ReloadInv, NoStatus
<1>2. ASSUME NEW k \in Keys, Visit(k) \/ Refresh(k) PROVE FALSE
  <2>1. calls' \subseteq calls \cup {Request("list", k, AnyItem)}
    BY <1>2 DEF Visit, Refresh, Ensure, Reload, SendList
  <2> QED BY <1>1, <2>1, RequestIs
<1>3. ASSUME NEW i \in Items, NEW op \in {"create", "update", "delete"}, Submit(op, i) \/ Locally(op, i)
      PROVE  FALSE
  <2>1. calls' \subseteq calls \cup {Request(op, ListOf(i), i)}
    BY <1>3 DEF Submit, Locally
  <2> QED BY <1>1, <2>1, RequestIs
<1>4. ASSUME NEW c \in calls, Serve(c) PROVE FALSE
  <2>1. PICK e : calls' = (calls \ {c}) \cup {e} /\ e.for = c.for
    BY <1>4, ServedCall DEF ReloadInv
  <2> QED BY <1>1, <2>1
<1>5. ASSUME NEW c \in calls, Listed(c) PROVE FALSE
  <2>1. calls' \subseteq calls
    BY <1>1, <1>5 DEF Listed, Over, StatusCalls
  <2> QED BY <1>1, <2>1
<1>6. ASSUME NEW c \in calls, Answered(c) PROVE FALSE
  <2>1. calls' \subseteq calls \cup {Request("list", c.key, AnyItem)}
    BY <1>6 DEF Answered, Reload, SendList, Over
  <2> QED BY <1>1, <2>1, RequestIs
<1>7. ASSUME NEW c \in calls, ListFails(c) \/ Fails(c) \/ StatusAnswered(c) PROVE FALSE
  <2>1. calls' \subseteq calls
    BY <1>7 DEF ListFails, Fails, StatusAnswered, Over
  <2> QED BY <1>1, <2>1
<1>8. CASE UNCHANGED vars
  BY <1>1, <1>8 DEF vars
<1> QED BY <1>2, <1>3, <1>4, <1>5, <1>6, <1>7, <1>8, Steps


LEMMA ReloadNext == ASSUME ConsoleStores, ReloadInv, [Next]_vars PROVE ReloadInv'
<1>0. SameWorld /\ Reloading' = Reloading
  BY NextSameWorld, SameReloading
<1>1. TypeOK' /\ Asked' /\ NoStatus'
  BY NextType, AskedNext, NoStatusNext DEF ReloadInv
<1>2. ASSUME Reloading PROVE Numbered' /\ CatchUp'
  <2>1. ASSUME NEW c \in calls, ListFails(c) PROVE FALSE
    BY <1>2, <2>1 DEF ListFails, Reloading
  <2>2. ASSUME NEW c \in calls, StatusAnswered(c) PROVE FALSE
    BY <1>2, <2>2 DEF StatusAnswered, ReloadInv, NoStatus
  <2>3. ASSUME NEW i \in Items, NEW op \in {"create", "update", "delete"}, Locally(op, i) PROVE FALSE
    BY <1>2, <2>3 DEF Locally, Reloading
  <2>4. CASE Next
    BY <1>0, <1>2, <2>1, <2>2, <2>3, <2>4, Steps, CatchUpAsk, CatchUpSubmit, CatchUpServe,
       CatchUpListed, CatchUpAnswered, CatchUpFails
  <2>5. CASE UNCHANGED vars
    <3>1. Numbered /\ CatchUp
      BY <1>2 DEF ReloadInv
    <3>2. Numbered'
      BY <2>5, <3>1 DEF vars, Numbered
    <3>3. calls \subseteq calls' /\ calls' \ calls = {} /\ UNCHANGED <<server, rows, shown, filled>>
      BY <2>5 DEF vars
    <3>4. CatchUp'
      BY <1>0, <3>1, <3>3, CatchUpSend
    <3> QED BY <3>2, <3>4
  <2> QED BY <2>4, <2>5
<1> QED BY <1>0, <1>1, <1>2 DEF ReloadInv

LEMMA ReloadInit == ASSUME ConsoleStores, Init PROVE ReloadInv
<1>1. TypeOK /\ calls = {}
  BY InitType DEF Init
<1>2. Asked /\ Numbered /\ ListsCatchUp
  BY <1>1 DEF Asked, Numbered, ListsCatchUp
<1>3. Reloading => RowsCatchUp
  BY DEF Init, Reloading, RowsCatchUp
<1>4. NoStatus
  BY <1>1, ReloadsHaveNoStatus DEF NoStatus
<1> QED BY <1>1, <1>2, <1>3, <1>4 DEF ReloadInv, CatchUp

LEMMA ReloadsDoConverge == ASSUME ReloadInv, Seeds PROVE ReloadsConverge
<1> SUFFICES ASSUME InOrder, ~Lossy, Quiet, store.flag # "promise",
                    Reloads("create"), Reloads("update"), Reloads("delete"),
                    NEW k \in filled, NEW i \in Items, i \in Slot(k)
             PROVE  Fresh(i)
  BY DEF ReloadsConverge
<1>1. CASE Offline
  BY <1>1 DEF Seeds
<1>2. CASE ~Offline
  BY <1>2 DEF ReloadInv, Reloading, CatchUp, RowsCatchUp, Later, Quiet
<1> QED BY <1>1, <1>2

\* Once all is answered rows and server agree, in every store of the console:
\* when the user waits, and, where every mutator lists again, also when he does
\* not and lists keep their order.
THEOREM RowsAlwaysConverge == ASSUME ConsoleStores PROVE Spec => []RowsConverge
<1>1. Init => TurnInv /\ ReloadInv
  BY TurnInit, ReloadInit
<1>2. TurnInv /\ ReloadInv /\ [Next]_vars => TurnInv' /\ ReloadInv'
  BY TurnNext, ReloadNext
<1>3. TurnInv /\ ReloadInv => RowsConverge
  <2>1. TurnInv => Seeds
    BY DEF TurnInv
  <2> QED BY <2>1, TurnCoherent, ReloadsDoConverge DEF RowsConverge
<1> QED BY <1>1, <1>2, <1>3, PTL DEF Spec

=============================================================================
