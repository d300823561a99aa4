----------------------- MODULE SubmissionQuotaProofs -----------------------
(***************************************************************************)
(* Theorems about SubmissionQuota, for every set of requests, every number *)
(* of workers and every limit.                                             *)
(***************************************************************************)
EXTENDS SubmissionQuota, FiniteSetTheorems, TLAPS

(***************************************************************************)
(* Sums over the tracker table.                                            *)
(***************************************************************************)

(* A unit of a column is a row and a number up to the cell's value.        *)
LEMMA UnitsMember ==
  ASSUME NEW T \in Seq(Counters), NEW f \in Fields, NEW u
  PROVE  u \in Units(T, f) <=>
           \E id \in 1..Len(T), k \in Nat \ {0} : k <= T[id][f] /\ u = <<id, k>>
<1>1. \A id \in 1..Len(T) : T[id][f] \in Nat
  BY DEF Counters
<1>. QED
  BY <1>1 DEF Units

(* The numbers up to n are finitely many.                                  *)
LEMMA FiniteUpTo ==
  ASSUME NEW n \in Nat
  PROVE  IsFiniteSet(1..n)
BY FS_Interval

(* Sum over a column is a natural number: a table holds finitely many      *)
(* units.                                                                  *)
LEMMA UnitsFinite ==
  ASSUME NEW T \in Seq(Counters), NEW f \in Fields
  PROVE  IsFiniteSet(Units(T, f)) /\ Total(T, f) \in Nat
<1> DEFINE Cell == [id \in 1..Len(T) |-> {id} \X (1..T[id][f])]
           Cells == {{id} \X (1..T[id][f]) : id \in DOMAIN T}
<1>1. Len(T) \in Nat /\ DOMAIN T = 1..Len(T)
  OBVIOUS
<1>2. Cell \in Surjection(1..Len(T), Cells)
  BY <1>1 DEF Surjection
<1>3. IsFiniteSet(Cells)
  <2>1. IsFiniteSet(1..Len(T))
    BY <1>1, FS_Interval
  <2>. QED
    BY <1>2, <2>1, FS_Surjection
<1>4. ASSUME NEW C \in Cells
      PROVE  IsFiniteSet(C)
  <2>1. PICK id \in 1..Len(T) : C = {id} \X (1..T[id][f])
    BY <1>1
  <2>2. T[id][f] \in Nat
    BY DEF Counters
  <2>3. IsFiniteSet(1..T[id][f])
    BY <2>2, FiniteUpTo
  <2>4. IsFiniteSet({id})
    BY FS_Singleton
  <2>. QED
    BY <2>1, <2>3, <2>4, FS_Product
<1>5. IsFiniteSet(UNION Cells)
  BY <1>3, <1>4, FS_UNION
<1>. QED
  BY <1>5, FS_CardinalityType DEF Units, Total

(* A table that is higher in every cell has at least the total.            *)
LEMMA TotalMonotone ==
  ASSUME NEW T \in Seq(Counters), NEW U \in Seq(Counters), NEW f \in Fields,
         Len(T) <= Len(U), \A id \in 1..Len(T) : T[id][f] <= U[id][f]
  PROVE  Total(T, f) <= Total(U, f)
<1>1. ASSUME NEW u \in Units(T, f)
      PROVE  u \in Units(U, f)
  <2>1. PICK id \in 1..Len(T), k \in Nat \ {0} : k <= T[id][f] /\ u = <<id, k>>
    BY UnitsMember
  <2>2. T[id][f] \in Nat /\ U[id][f] \in Nat /\ id \in 1..Len(U)
    BY DEF Counters
  <2>3. k <= U[id][f]
    BY <2>1, <2>2
  <2>. QED
    BY <2>1, <2>2, <2>3, UnitsMember
<1>. QED
  BY <1>1, UnitsFinite, FS_Subset DEF Total

(* One more in one cell is one more in the total of its column only.       *)
LEMMA TotalRaised ==
  ASSUME NEW T \in Seq(Counters), NEW id \in 1..Len(T), NEW f \in Fields, NEW g \in Fields
  PROVE  Total([T EXCEPT ![id][f] = @ + 1], g) = Total(T, g) + (IF g = f THEN 1 ELSE 0)
<1> DEFINE R == [T EXCEPT ![id][f] = @ + 1]
           u == <<id, T[id][f] + 1>>
<1>1. /\ R \in Seq(Counters) /\ Len(R) = Len(T)
      /\ \A i \in 1..Len(T) : \A h \in Fields :
           R[i][h] = T[i][h] + (IF i = id /\ h = f THEN 1 ELSE 0)
  BY DEF Counters
<1>2. \A i \in 1..Len(T) : T[i][g] \in Nat
  BY DEF Counters
<1> HIDE DEF R
<1>3. CASE g = f
  <2>1. u \notin Units(T, g)
    BY <1>2, <1>3, UnitsMember
  <2>2. ASSUME NEW x
        PROVE  x \in Units(R, g) <=> x \in Units(T, g) \cup {u}
    <3>1. x \in Units(R, g) => x \in Units(T, g) \cup {u}
      <4>. SUFFICES ASSUME x \in Units(R, g), x # u
                    PROVE  x \in Units(T, g)
        OBVIOUS
      <4>1. PICK i \in 1..Len(T), k \in Nat \ {0} : k <= R[i][g] /\ x = <<i, k>>
        BY <1>1, UnitsMember
      <4>2. k <= T[i][g]
        BY <1>1, <1>2, <1>3, <4>1
      <4>. QED
        BY <4>1, <4>2, UnitsMember
    <3>2. u \in Units(R, g)
      <4>1. R[id][g] = T[id][f] + 1 /\ T[id][f] \in Nat
        BY <1>1, <1>2, <1>3
      <4>2. T[id][f] + 1 \in Nat \ {0} /\ T[id][f] + 1 <= R[id][g]
        BY <4>1
      <4>. QED
        BY <1>1, <4>2, UnitsMember
    <3>3. x \in Units(T, g) => x \in Units(R, g)
      <4>. SUFFICES ASSUME x \in Units(T, g)
                    PROVE  x \in Units(R, g)
        OBVIOUS
      <4>1. PICK i \in 1..Len(T), k \in Nat \ {0} : k <= T[i][g] /\ x = <<i, k>>
        BY UnitsMember
      <4>2. k <= R[i][g]
        BY <1>1, <1>2, <4>1
      <4>. QED
        BY <1>1, <4>1, <4>2, UnitsMember
    <3>. QED
      BY <3>1, <3>2, <3>3
  <2>3. Units(R, g) = Units(T, g) \cup {u}
    BY <2>2
  <2>. QED
    BY <1>3, <2>1, <2>3, UnitsFinite, FS_AddElement DEF Total, R
<1>4. CASE g # f
  <2>1. ASSUME NEW x
        PROVE  x \in Units(R, g) <=> x \in Units(T, g)
    <3>1. \A i \in 1..Len(T) : R[i][g] = T[i][g]
      BY <1>1, <1>2, <1>4
    <3>. QED
      BY <1>1, <3>1, UnitsMember
  <2>2. Units(R, g) = Units(T, g)
    BY <2>1
  <2>. QED
    BY <1>4, <2>2, UnitsFinite DEF Total, R
<1>. QED
  BY <1>3, <1>4

(* A new row changes no total.                                             *)
LEMMA TotalAppend ==
  ASSUME NEW T \in Seq(Counters), NEW f \in Fields
  PROVE  Total(Append(T, NoCounts), f) = Total(T, f)
<1> DEFINE R == Append(T, NoCounts)
<1>1. /\ R \in Seq(Counters) /\ Len(R) = Len(T) + 1 /\ Len(T) \in Nat
      /\ \A i \in 1..Len(T) : R[i] = T[i]
      /\ R[Len(T) + 1] = NoCounts
  BY DEF Counters, NoCounts
<1> HIDE DEF R
<1>2. R[Len(T) + 1][f] = 0
  BY <1>1 DEF NoCounts
<1>3. ASSUME NEW x
      PROVE  x \in Units(R, f) <=> x \in Units(T, f)
  <2>1. ASSUME NEW i \in 1..Len(R), NEW k \in Nat \ {0}, k <= R[i][f]
        PROVE  i \in 1..Len(T) /\ R[i] = T[i]
    <3>1. i # Len(T) + 1
      BY <1>1, <1>2, <2>1
    <3>2. i \in 1..Len(T)
      BY <1>1, <3>1
    <3>. QED
      BY <1>1, <3>2
  <2>2. \A i \in 1..Len(T) : i \in 1..Len(R) /\ R[i] = T[i]
    BY <1>1
  <2>. QED
    BY <1>1, <2>1, <2>2, UnitsMember
<1>4. Units(R, f) = Units(T, f)
  BY <1>3
<1>. QED
  BY <1>4 DEF Total, R
-----------------------------------------------------------------------------
(***************************************************************************)
(* Type correctness.                                                       *)
(***************************************************************************)

(* Nothing removes a tracker row.                                          *)
Grows == Len(stamp) <= Len(stamp')

(* Going on at a known label with a well-formed memory keeps the requests  *)
(* well-formed, provided a request about to save holds an existing row.    *)
LEMMA ContinueOK ==
  ASSUME RequestOK, TableOK, TableOK', Grows,
         NEW r \in Requests, NEW label \in Labels, NEW m \in Memory,
         label \in {"save", "saveOut"} => m.id \in 1..Len(stamp'),
         Continue(r, label, m)
  PROVE  RequestOK'
<1>1. /\ pc' \in [Requests -> Labels]
      /\ mem' \in [Requests -> Memory]
      /\ result' \in [Requests -> Results]
  BY DEF Continue, RequestOK
<1>2. ASSUME NEW q \in Requests, pc'[q] \in {"save", "saveOut"}
      PROVE  mem'[q].id \in 1..Len(stamp')
  <2>1. CASE q = r
    <3>1. pc'[q] = label /\ mem'[q] = m
      BY <2>1 DEF Continue, RequestOK
    <3>. QED
      BY <1>2, <3>1
  <2>2. CASE q # r
    <3>1. pc'[q] = pc[q] /\ mem'[q] = mem[q]
      BY <2>2 DEF Continue, RequestOK
    <3>2. mem[q].id \in 1..Len(stamp)
      BY <1>2, <3>1 DEF RequestOK
    <3>3. Len(stamp) \in Nat /\ Len(stamp') \in Nat
      BY DEF TableOK
    <3>. QED
      BY <3>1, <3>2, <3>3 DEF Grows
  <2>. QED
    BY <2>1, <2>2
<1>. QED
  BY <1>1, <1>2 DEF RequestOK

(* The memory of a request that has not started is well-formed.            *)
LEMMA FreshOK ==
  ASSUME NEW r \in Requests
  PROVE  Fresh(r) \in Memory
BY QuotaAssumption DEF Fresh, Memory, Counters, NoCounts, Fields

(* Ending with a known result keeps the requests well-formed.              *)
LEMMA FinishOK ==
  ASSUME RequestOK, TableOK, TableOK', Grows,
         NEW r \in Requests, NEW how \in Results,
         Finish(r, how)
  PROVE  RequestOK'
<1>1. /\ pc' \in [Requests -> Labels]
      /\ mem' \in [Requests -> Memory]
      /\ result' \in [Requests -> Results]
  BY FreshOK DEF Finish, RequestOK, Labels
<1>2. ASSUME NEW q \in Requests, pc'[q] \in {"save", "saveOut"}
      PROVE  mem'[q].id \in 1..Len(stamp')
  <2>1. q # r /\ pc'[q] = pc[q] /\ mem'[q] = mem[q]
    BY <1>2 DEF Finish, RequestOK
  <2>2. mem[q].id \in 1..Len(stamp)
    BY <1>2, <2>1 DEF RequestOK
  <2>3. Len(stamp) \in Nat /\ Len(stamp') \in Nat
    BY DEF TableOK
  <2>. QED
    BY <2>1, <2>2, <2>3 DEF Grows
<1>. QED
  BY <1>1, <1>2 DEF RequestOK

(* An untouched tracker table stays well-formed.                           *)
LEMMA SameTableOK ==
  ASSUME TableOK, UNCHANGED tableVars
  PROVE  TableOK' /\ Grows
BY DEF TableOK, tableVars, Grows

(* Inserting a row keeps the table well-formed and makes it one row        *)
(* longer.                                                                 *)
LEMMA InsertOK ==
  ASSUME TableOK, NEW row \in [month : Nat, day : {1, 2}], Insert(row)
  PROVE  TableOK' /\ Grows /\ Len(stamp') = Len(stamp) + 1
<1>1. NoCounts \in Counters
  BY DEF NoCounts, Counters
<1>. QED
  BY <1>1 DEF TableOK, Insert, Grows

(* An object with one column raised is still a set of counters.            *)
LEMMA RaisedOK ==
  ASSUME NEW r \in Requests, mem[r] \in Memory, NEW f \in Fields
  PROVE  /\ Raised(r, f) \in Counters
         /\ \A g \in Fields : Raised(r, f)[g] = mem[r].count[g] + (IF g = f THEN 1 ELSE 0)
         /\ \A g \in Fields : mem[r].count[g] \in Nat
BY DEF Raised, Memory, Counters

(* Saving an object that came from a row keeps the table well-formed.      *)
LEMMA WriteOK ==
  ASSUME TableOK, RequestOK, NEW r \in Requests, NEW f \in Fields,
         pc[r] \in {"save", "saveOut"}, Write(r, f)
  PROVE  TableOK' /\ Grows
<1>1. mem[r].id \in 1..Len(stamp) /\ mem[r] \in Memory
  BY DEF RequestOK
<1>2. count' \in Seq(Counters) /\ Len(count') = Len(count)
  BY <1>1, RaisedOK DEF TableOK, Write
<1>3. applied' \in Seq(Counters) /\ Len(applied') = Len(applied)
  <2>1. applied[mem[r].id] \in Counters
    BY <1>1 DEF TableOK
  <2>2. [applied[mem[r].id] EXCEPT ![f] = @ + 1] \in Counters
    BY <2>1 DEF Counters
  <2>. QED
    BY <1>1, <2>2 DEF TableOK, Write
<1>. QED
  BY <1>2, <1>3 DEF TableOK, Write, Grows

(* Every step keeps the shape of the state.                                *)
LEMMA TypeInductive == TypeOK /\ [Next]_vars => TypeOK'
<1>. SUFFICES ASSUME TypeOK, [Next]_vars
              PROVE  TypeOK'
  OBVIOUS
<1>. USE DEF TypeOK
<1>0. ASSUME NEW r \in Requests
      PROVE  mem[r] \in Memory /\ pc[r] \in Labels
  BY DEF RequestOK
<1>1. ASSUME NEW r \in Requests, Arrive(r)
      PROVE  TypeOK'
  <2>1. TableOK' /\ Grows /\ EnvOK' /\ OutOK'
    BY <1>1, SameTableOK DEF Arrive, EnvOK, envVars, OutOK, outVars
  <2>2. Loaded(r) \in Memory
    BY FreshOK DEF Loaded, Memory, InTrial
  <2>3. CASE ArriveSms(r)
    BY <2>1, <2>2, <2>3, ContinueOK, FinishOK DEF ArriveSms, Labels, Results
  <2>4. CASE ArriveOnline(r)
    BY <2>1, <2>2, <2>4, ContinueOK, FinishOK DEF ArriveOnline, Labels, Results
  <2>5. CASE ArriveReceipt(r)
    <3>1. [Loaded(r) EXCEPT !.field = "outgoing_sms_charged_count"] \in Memory
      BY <2>2 DEF Memory, Fields
    <3>. QED
      BY <2>1, <2>5, <3>1, ContinueOK, FinishOK DEF ArriveReceipt, Labels, Results
  <2>. QED
    BY <1>1, <2>1, <2>3, <2>4, <2>5 DEF Arrive
<1>2. ASSUME NEW r \in Requests, MsgLimitCheck(r)
      PROVE  TypeOK'
  <2>1. TableOK' /\ Grows /\ EnvOK' /\ OutOK'
    BY <1>2, SameTableOK DEF MsgLimitCheck, EnvOK, envVars, OutOK, outVars
  <2>. QED
    BY <1>0, <1>2, <2>1, ContinueOK, FinishOK DEF MsgLimitCheck, Refuse, Labels, Results
<1>3. ASSUME NEW r \in Requests, SumIncoming(r)
      PROVE  TypeOK'
  <2>1. TableOK' /\ Grows /\ EnvOK' /\ OutOK'
    BY <1>3, SameTableOK DEF SumIncoming, EnvOK, envVars, OutOK, outVars
  <2>2. Incoming(count) \in Int
    BY UnitsFinite DEF Incoming, TableOK, Fields
  <2>3. [mem[r] EXCEPT !.acc = Incoming(count)] \in Memory
    BY <1>0, <2>2 DEF Memory
  <2>4. \E label \in {"subReg", "noteReg", "nearReg", "fullReg"} :
           Continue(r, label, [mem[r] EXCEPT !.acc = Incoming(count)])
    BY <1>3 DEF SumIncoming
  <2>. QED
    BY <2>1, <2>3, <2>4, ContinueOK DEF Labels
<1>4. ASSUME NEW r \in Requests, SubLimitCheck(r)
      PROVE  TypeOK'
  <2>1. TableOK' /\ Grows /\ EnvOK' /\ OutOK'
    BY <1>4, SameTableOK DEF SubLimitCheck, EnvOK, envVars, OutOK, outVars
  <2>2. Summed(r) \in Memory
    BY <1>0 DEF Summed, Memory
  <2>. QED
    BY <1>4, <2>1, <2>2, ContinueOK, FinishOK DEF SubLimitCheck, Refuse, Labels, Results
<1>5. ASSUME NEW types
      PROVE  Mailed(types) \in [MailTypes -> Nat]
  BY DEF Mailed, OutOK
<1>6. ASSUME NEW r \in Requests, NotifyOnImport(r)
      PROVE  TypeOK'
  <2>1. TableOK' /\ Grows /\ EnvOK' /\ OutOK'
    BY <1>5, <1>6, SameTableOK DEF NotifyOnImport, EnvOK, envVars, OutOK
  <2>2. Summed(r) \in Memory
    BY <1>0 DEF Summed, Memory
  <2>. QED
    BY <1>6, <2>1, <2>2, ContinueOK DEF NotifyOnImport, Labels
<1>7. ASSUME NEW r \in Requests, Load(r)
      PROVE  TypeOK'
  <2>1. TableOK' /\ Grows /\ EnvOK' /\ OutOK'
    BY <1>7, SameTableOK DEF Load, EnvOK, envVars, OutOK, outVars
  <2> DEFINE now == [mem[r] EXCEPT
              !.basic = IF Channel[r] \in {"web", "phone"} THEN InTrial(org) ELSE @]
  <2>2. now \in Memory
    BY <1>0 DEF Memory, InTrial
  <2>3. CASE Continue(r, "create", [now EXCEPT !.month = month])
    <3>1. month \in Nat
      BY QuotaAssumption DEF EnvOK
    <3>2. [now EXCEPT !.month = month] \in Memory
      BY <2>2, <3>1 DEF Memory
    <3>. QED
      BY <2>1, <2>3, <3>2, ContinueOK DEF Labels
  <2>4. ASSUME NEW id \in DOMAIN stamp,
               Continue(r, "save", [now EXCEPT !.id = id, !.count = count[id]])
        PROVE  TypeOK'
    <3>1. id \in 1..Len(stamp) /\ id \in Nat /\ count[id] \in Counters
      BY DEF TableOK
    <3> DEFINE m == [now EXCEPT !.id = id, !.count = count[id]]
    <3>2. m \in Memory /\ m.id = id
      BY <2>2, <3>1 DEF Memory
    <3>3. m.id \in 1..Len(stamp')
      BY <1>7, <3>1, <3>2 DEF Load, tableVars
    <3> HIDE DEF m, now
    <3>4. Continue(r, "save", m)
      BY <2>4 DEF m
    <3>. QED
      BY <2>1, <3>2, <3>3, <3>4, ContinueOK DEF Labels
  <2>. QED
    BY <1>7, <2>3, <2>4 DEF Load
<1>8. ASSUME NEW r \in Requests, Create(r)
      PROVE  TypeOK'
  <2>1. [month |-> mem[r].month, day |-> 1] \in [month : Nat, day : {1, 2}]
    BY <1>0 DEF Memory
  <2>2. TableOK' /\ Grows /\ Len(stamp') = Len(stamp) + 1 /\ EnvOK' /\ OutOK'
    BY <1>8, <2>1, InsertOK DEF Create, EnvOK, envVars, OutOK, outVars
  <2> DEFINE m == [mem[r] EXCEPT !.id = Len(stamp) + 1, !.month = 0, !.count = NoCounts]
  <2>3. Len(stamp) \in Nat
    BY DEF TableOK
  <2>4. m \in Memory /\ m.id = Len(stamp) + 1
    <3>1. Len(stamp) + 1 \in Nat /\ 0 \in Nat /\ NoCounts \in Counters
      BY <2>3 DEF NoCounts, Counters
    <3> HIDE DEF TypeOK
    <3>. QED
      BY <1>0, <3>1 DEF Memory
  <2>5. m.id \in 1..Len(stamp')
    BY <2>2, <2>3, <2>4
  <2>6. Continue(r, "save", m)
    BY <1>8 DEF Create
  <2> HIDE DEF m
  <2>. QED
    BY <2>2, <2>4, <2>5, <2>6, ContinueOK DEF Labels
<1>9. ASSUME NEW r \in Requests
      PROVE  Dropped(r) \in Memory
  BY <1>0 DEF Dropped, Memory, Fields, Counters, NoCounts
<1>10. ASSUME NEW r \in Requests, Save(r)
       PROVE  TypeOK'
  <2>1. mem[r].field \in Fields
    BY <1>0 DEF Memory
  <2>2. TableOK' /\ Grows /\ EnvOK' /\ OutOK'
    BY <1>10, <2>1, WriteOK DEF Save, EnvOK, envVars, OutOK, outVars
  <2>3. CASE Continue(r, "saveOut", [mem[r] EXCEPT !.count = Raised(r, mem[r].field)])
    <3> DEFINE m == [mem[r] EXCEPT !.count = Raised(r, mem[r].field)]
    <3>1. m \in Memory /\ m.id = mem[r].id
      BY <1>0, <2>1, RaisedOK DEF Memory
    <3>2. m.id \in 1..Len(stamp')
      <4>1. mem[r].id \in 1..Len(stamp)
        BY <1>10 DEF Save, RequestOK
      <4>. QED
        BY <1>10, <3>1, <4>1 DEF Save, Write
    <3> HIDE DEF m
    <3>3. Continue(r, "saveOut", m)
      BY <2>3 DEF m
    <3>. QED
      BY <2>2, <3>1, <3>2, <3>3, ContinueOK DEF Labels
  <2>4. CASE Finish(r, "ok")
    BY <2>2, <2>4, FinishOK DEF Results
  <2>5. CASE /\ AfterSave(r) # "done"
             /\ Continue(r, AfterSave(r), [Dropped(r) EXCEPT !.left = mem[r].left - 1])
    <3>1. mem[r].left - 1 \in Int
      BY <1>0 DEF Memory
    <3>2. [Dropped(r) EXCEPT !.left = mem[r].left - 1] \in Memory
      BY <1>9, <3>1 DEF Memory
    <3>3. AfterSave(r) \in {"reply", "noteIn", "nearIn"}
      BY <2>5 DEF AfterSave
    <3>. QED
      BY <2>2, <2>5, <3>2, <3>3, ContinueOK DEF Labels
  <2>. QED
    BY <1>10, <2>3, <2>4, <2>5 DEF Save
<1>11. ASSUME NEW r \in Requests, SaveOutgoing(r)
       PROVE  TypeOK'
  <2>1. TableOK' /\ Grows /\ EnvOK' /\ OutOK'
    BY <1>11, WriteOK DEF SaveOutgoing, EnvOK, envVars, OutOK, outVars, Fields
  <2>. QED
    BY <1>9, <1>11, <2>1, ContinueOK DEF SaveOutgoing, Labels
<1>12. ASSUME NEW r \in Requests, NearSubmissionLimit(r)
       PROVE  TypeOK'
  <2>1. TableOK' /\ Grows /\ EnvOK' /\ OutOK'
    BY <1>5, <1>12, SameTableOK DEF NearSubmissionLimit, EnvOK, envVars, OutOK
  <2>2. Summed(r) \in Memory
    BY <1>0 DEF Summed, Memory
  <2>. QED
    BY <1>12, <2>1, <2>2, ContinueOK DEF NearSubmissionLimit, Labels
<1>13. ASSUME NEW r \in Requests, NearSmsLimit(r)
       PROVE  TypeOK'
  <2>1. TableOK' /\ Grows /\ EnvOK' /\ OutOK'
    BY <1>5, <1>13, SameTableOK DEF NearSmsLimit, EnvOK, envVars, OutOK
  <2>. QED
    BY <1>0, <1>13, <2>1, ContinueOK DEF NearSmsLimit, Labels
<1>14. ASSUME NEW r \in Requests, ReachedSubmissionLimit(r)
       PROVE  TypeOK'
  <2>1. TableOK' /\ Grows /\ EnvOK' /\ OutOK'
    BY <1>5, <1>14, SameTableOK DEF ReachedSubmissionLimit, EnvOK, envVars, OutOK
  <2>2. Summed(r) \in Memory
    BY <1>0 DEF Summed, Memory
  <2>. QED
    BY <1>14, <2>1, <2>2, ContinueOK, FinishOK DEF ReachedSubmissionLimit, Labels, Results
<1>15. ASSUME NEW r \in Requests, Accept(r)
       PROVE  TypeOK'
  <2>1. TableOK' /\ Grows /\ EnvOK'
    BY <1>15, SameTableOK DEF Accept, EnvOK, envVars
  <2>2. PICK o \in Outcomes(Channel[r]) :
           LET f == CountedAs(Channel[r], o) IN
           /\ stored' = [stored EXCEPT ![r] = IF o = "stored" THEN @ + 1 ELSE @]
           /\ \/ f # "none" /\ Continue(r, "load", [mem[r] EXCEPT !.field = f])
              \/ f = "none" /\ Channel[r] = "sms" /\ Continue(r, "reply", mem[r])
              \/ f = "none" /\ Channel[r] # "sms" /\ Finish(r, "ok")
    BY <1>15 DEF Accept
  <2>3. OutOK'
    BY <1>15, <2>2 DEF Accept, OutOK
  <2> DEFINE f == CountedAs(Channel[r], o)
  <2>4. f # "none" => [mem[r] EXCEPT !.field = f] \in Memory
    BY <1>0 DEF CountedAs, Memory, Fields
  <2>. QED
    BY <1>0, <2>1, <2>2, <2>3, <2>4, ContinueOK, FinishOK DEF Labels, Results
<1>16. ASSUME NEW r \in Requests, Reply(r)
       PROVE  TypeOK'
  <2>1. TableOK' /\ Grows /\ EnvOK' /\ OutOK'
    BY <1>16, SameTableOK DEF Reply, EnvOK, envVars, OutOK
  <2>. QED
    BY <1>16, <2>1, FinishOK DEF Reply, Results
<1>17. ASSUME NEW r \in Requests, Abort(r)
       PROVE  TypeOK'
  <2>1. TableOK' /\ Grows /\ EnvOK' /\ OutOK'
    BY <1>17, SameTableOK DEF Abort, EnvOK, envVars, OutOK, outVars
  <2>2. CASE Finish(r, "failed")
    BY <2>1, <2>2, FinishOK DEF Results
  <2>3. CASE Continue(r, "reply", Dropped(r))
    BY <1>9, <2>1, <2>3, ContinueOK DEF Labels
  <2>. QED
    BY <1>17, <2>2, <2>3 DEF Abort
<1>18. CASE Upgrade \/ Deactivate \/ TrialPeriodEnds \/ NextMonth
  <2>1. TableOK' /\ OutOK' /\ RequestOK'
    BY <1>18 DEF Upgrade, Deactivate, TrialPeriodEnds, NextMonth, tableVars, outVars,
       TableOK, OutOK, RequestOK
  <2>2. CASE NextMonth
    <3>1. MaxMonth \in Nat
      BY QuotaAssumption
    <3>. QED
      BY <2>1, <2>2, <3>1 DEF NextMonth, EnvOK
  <2>3. CASE Upgrade \/ Deactivate \/ TrialPeriodEnds
    BY <2>1, <2>3 DEF Upgrade, Deactivate, TrialPeriodEnds, EnvOK
  <2>. QED
    BY <1>18, <2>2, <2>3
<1>19. CASE UpgradeTracker
  <2>1. month \in Nat
    BY QuotaAssumption DEF EnvOK
  <2>2. TableOK' /\ Grows /\ EnvOK' /\ OutOK'
    BY <1>19, <2>1, InsertOK DEF UpgradeTracker, EnvOK, OutOK, outVars
  <2>3. Len(stamp) \in Nat /\ Len(stamp') \in Nat
    BY <2>2 DEF TableOK
  <2>4. RequestOK'
    BY <1>19, <2>2, <2>3 DEF UpgradeTracker, RequestOK, Grows
  <2>. QED
    BY <2>2, <2>4
<1>20. CASE UNCHANGED vars
  BY <1>20 DEF vars, envVars, tableVars, outVars, EnvOK, TableOK, OutOK, RequestOK
<1>. QED
  BY <1>1, <1>2, <1>3, <1>4, <1>6, <1>7, <1>8, <1>10, <1>11, <1>12, <1>13, <1>14, <1>15,
     <1>16, <1>17, <1>18, <1>19, <1>20 DEF Next, Step, Finished

(* The state keeps its shape.                                              *)
THEOREM TypeInvariant == Spec => []TypeOK
<1>1. Init => TypeOK
  BY QuotaAssumption, FreshOK DEF Init, TypeOK, EnvOK, TableOK, OutOK, RequestOK, Labels,
     Results, MailTypes, Counters
<1>. QED
  BY <1>1, TypeInductive, PTL DEF Spec
-----------------------------------------------------------------------------
(***************************************************************************)
(* What a step does to the tracker table and to the copies of its rows     *)
(* that requests hold.                                                     *)
(***************************************************************************)

HoldsCopy(r) == pc[r] \in {"save", "saveOut"}

(* Only r's own program counter and memory move.                           *)
Frame(r) == \A q \in Requests \ {r} : pc'[q] = pc[q] /\ mem'[q] = mem[q]

Inserts == \E row \in [month : Nat, day : {1, 2}] : Insert(row)

Quiet(r)   == UNCHANGED tableVars /\ ~HoldsCopy(r)'
Fetches(r) == /\ UNCHANGED tableVars
              /\ mem'[r].id \in 1..Len(stamp)
              /\ mem'[r].count = count[mem'[r].id]
Creates(r) == /\ Inserts
              /\ mem'[r].id = Len(stamp) + 1
              /\ mem'[r].count = NoCounts
Saves(r)   == /\ HoldsCopy(r)
              /\ \E f \in Fields :
                   /\ Write(r, f)
                   /\ HoldsCopy(r)' => mem'[r].id = mem[r].id /\ mem'[r].count = Raised(r, f)

(* A request that goes on leaves the others alone.                         *)
LEMMA ContinueFrame ==
  ASSUME RequestOK, NEW r \in Requests, NEW label, NEW m, Continue(r, label, m)
  PROVE  Frame(r) /\ pc'[r] = label /\ mem'[r] = m
BY DEF RequestOK, Continue, Frame

(* A request that ends leaves the others alone and holds no copy.          *)
LEMMA FinishFrame ==
  ASSUME RequestOK, NEW r \in Requests, NEW how, Finish(r, how)
  PROVE  Frame(r) /\ pc'[r] = "done" /\ ~HoldsCopy(r)'
BY DEF RequestOK, Finish, Frame, HoldsCopy

(* Each step of a request leaves the others alone, and is one of: a quiet  *)
(* step, a fetch of a row, an insertion, a save of the fetched copy.       *)
LEMMA StepShape ==
  ASSUME TypeOK, NEW r \in Requests, Step(r) \/ Abort(r)
  PROVE  Frame(r) /\ (Quiet(r) \/ Fetches(r) \/ Creates(r) \/ Saves(r))
<1> USE DEF TypeOK
<1>1. CASE Arrive(r)
  <2>. USE <1>1, ContinueFrame, FinishFrame DEF Arrive, Quiet, HoldsCopy
  <2>1. CASE ArriveSms(r)
    BY <2>1 DEF ArriveSms
  <2>2. CASE ArriveOnline(r)
    BY <2>2 DEF ArriveOnline
  <2>3. CASE ArriveReceipt(r)
    BY <2>3 DEF ArriveReceipt
  <2>. QED
    BY <2>1, <2>2, <2>3
<1>2. CASE MsgLimitCheck(r)
  BY <1>2, ContinueFrame, FinishFrame DEF MsgLimitCheck, Refuse, Quiet, HoldsCopy
<1>3. CASE SumIncoming(r)
  <2>1. \E label \in {"subReg", "noteReg", "nearReg", "fullReg"} :
             Continue(r, label, [mem[r] EXCEPT !.acc = Incoming(count)])
    BY <1>3 DEF SumIncoming
  <2>. QED
    BY <1>3, <2>1, ContinueFrame DEF SumIncoming, Quiet, HoldsCopy
<1>4. CASE SubLimitCheck(r)
  BY <1>4, ContinueFrame, FinishFrame DEF SubLimitCheck, Refuse, Quiet, HoldsCopy
<1>5. CASE NotifyOnImport(r)
  BY <1>5, ContinueFrame DEF NotifyOnImport, Quiet, HoldsCopy
<1>6. CASE Load(r)
  <2> DEFINE now == [mem[r] EXCEPT
                !.basic = IF Channel[r] \in {"web", "phone"} THEN InTrial(org) ELSE @]
  <2>1. CASE Continue(r, "create", [now EXCEPT !.month = month])
    <3> DEFINE m == [now EXCEPT !.month = month]
    <3>1. Continue(r, "create", m)
      BY <2>1
    <3> HIDE DEF m
    <3>2. Frame(r) /\ pc'[r] = "create"
      BY <3>1, ContinueFrame
    <3>. QED
      BY <1>6, <3>2 DEF Load, Quiet, HoldsCopy
  <2>2. ASSUME NEW id \in DOMAIN stamp,
               Continue(r, "save", [now EXCEPT !.id = id, !.count = count[id]])
        PROVE  Frame(r) /\ Fetches(r)
    <3> DEFINE m == [now EXCEPT !.id = id, !.count = count[id]]
    <3>1. m.id = id /\ m.count = count[id] /\ id \in 1..Len(stamp)
      BY DEF RequestOK, Memory, TableOK
    <3>2. Continue(r, "save", m)
      BY <2>2
    <3> HIDE DEF m
    <3>3. Frame(r) /\ mem'[r] = m
      BY <3>2, ContinueFrame
    <3>. QED
      BY <1>6, <3>1, <3>3 DEF Load, Fetches
  <2>. QED
    BY <1>6, <2>1, <2>2 DEF Load
<1>7. CASE Create(r)
  <2> DEFINE m == [mem[r] EXCEPT !.id = Len(stamp) + 1, !.month = 0, !.count = NoCounts]
  <2>1. m.id = Len(stamp) + 1 /\ m.count = NoCounts
    BY DEF RequestOK, Memory
  <2>2. Continue(r, "save", m)
    BY <1>7 DEF Create
  <2>3. Inserts
    <3>1. [month |-> mem[r].month, day |-> 1] \in [month : Nat, day : {1, 2}]
      BY DEF RequestOK, Memory
    <3>. QED
      BY <1>7, <3>1 DEF Create, Inserts
  <2> HIDE DEF m
  <2>. QED
    BY <2>1, <2>2, <2>3, ContinueFrame DEF Creates
<1>8. CASE Save(r)
  <2> DEFINE f == mem[r].field
  <2>1. f \in Fields /\ HoldsCopy(r) /\ Write(r, f)
    BY <1>8 DEF Save, HoldsCopy, RequestOK, Memory
  <2>2. CASE Continue(r, "saveOut", [mem[r] EXCEPT !.count = Raised(r, f)])
    <3> DEFINE m == [mem[r] EXCEPT !.count = Raised(r, f)]
    <3>1. m.id = mem[r].id /\ m.count = Raised(r, f)
      BY DEF RequestOK, Memory
    <3>2. Continue(r, "saveOut", m)
      BY <2>2
    <3> HIDE DEF m, f
    <3>3. Frame(r) /\ mem'[r] = m
      BY <3>2, ContinueFrame
    <3>. QED
      BY <2>1, <3>1, <3>3 DEF Saves
  <2>3. CASE Finish(r, "ok")
    BY <2>1, <2>3, FinishFrame DEF Saves
  <2>4. CASE Continue(r, AfterSave(r), [Dropped(r) EXCEPT !.left = mem[r].left - 1])
    <3>1. ~HoldsCopy(r)'
      BY <2>4, ContinueFrame DEF AfterSave, HoldsCopy
    <3>. QED
      BY <2>1, <2>4, <3>1, ContinueFrame DEF Saves
  <2>. QED
    BY <1>8, <2>2, <2>3, <2>4 DEF Save
<1>9. CASE SaveOutgoing(r)
  <2>1. "outgoing_sms_count" \in Fields /\ HoldsCopy(r) /\ Write(r, "outgoing_sms_count")
    BY <1>9 DEF SaveOutgoing, HoldsCopy, Fields
  <2>2. Frame(r) /\ ~HoldsCopy(r)'
    BY <1>9, ContinueFrame DEF SaveOutgoing, HoldsCopy
  <2>. QED
    BY <2>1, <2>2 DEF Saves
<1>10. CASE NearSubmissionLimit(r)
  BY <1>10, ContinueFrame DEF NearSubmissionLimit, Quiet, HoldsCopy
<1>11. CASE NearSmsLimit(r)
  BY <1>11, ContinueFrame DEF NearSmsLimit, Quiet, HoldsCopy
<1>12. CASE ReachedSubmissionLimit(r)
  BY <1>12, ContinueFrame, FinishFrame DEF ReachedSubmissionLimit, Quiet, HoldsCopy
<1>13. CASE Accept(r)
  <2>1. UNCHANGED tableVars
    BY <1>13 DEF Accept
  <2>2. PICK o \in Outcomes(Channel[r]) :
           LET f == CountedAs(Channel[r], o) IN
           \/ Continue(r, "load", [mem[r] EXCEPT !.field = f])
           \/ Continue(r, "reply", mem[r])
           \/ Finish(r, "ok")
    BY <1>13 DEF Accept
  <2>. QED
    BY <2>1, <2>2, ContinueFrame, FinishFrame DEF Quiet, HoldsCopy
<1>14. CASE Reply(r)
  BY <1>14, FinishFrame DEF Reply, Quiet
<1>15. CASE Abort(r)
  BY <1>15, ContinueFrame, FinishFrame DEF Abort, Quiet, HoldsCopy
<1>. QED
  BY <1>1, <1>2, <1>3, <1>4, <1>5, <1>6, <1>7, <1>8, <1>9, <1>10, <1>11, <1>12, <1>13,
     <1>14, <1>15 DEF Step

(* The steps that belong to no request touch no copy.                      *)
LEMMA OtherShape ==
  ASSUME TypeOK, \/ Upgrade \/ UpgradeTracker \/ Deactivate \/ TrialPeriodEnds
                 \/ NextMonth \/ UNCHANGED vars
  PROVE  UNCHANGED <<pc, mem>> /\ (UNCHANGED tableVars \/ Inserts)
<1>1. CASE UpgradeTracker
  <2>1. month \in Nat
    BY QuotaAssumption DEF TypeOK, EnvOK
  <2>. QED
    BY <1>1, <2>1 DEF UpgradeTracker, Inserts
<1>2. CASE Upgrade \/ Deactivate \/ TrialPeriodEnds \/ NextMonth \/ UNCHANGED vars
  BY <1>2 DEF Upgrade, Deactivate, TrialPeriodEnds, NextMonth, vars, tableVars
<1>. QED
  BY <1>1, <1>2

(* An insertion keeps the existing rows and adds a row of zeros.           *)
LEMMA InsertedTable ==
  ASSUME TypeOK, Inserts
  PROVE  /\ Len(stamp') = Len(stamp) + 1
         /\ \A id \in 1..Len(stamp) : count'[id] = count[id] /\ applied'[id] = applied[id]
         /\ count'[Len(stamp) + 1] = NoCounts /\ applied'[Len(stamp) + 1] = NoCounts
BY DEF TypeOK, TableOK, Inserts, Insert

(* A save writes the copy, one higher in one column, over its own row and  *)
(* counts one more increment performed there.                              *)
LEMMA WrittenTable ==
  ASSUME TypeOK, NEW r \in Requests, HoldsCopy(r), NEW f \in Fields, Write(r, f)
  PROVE  /\ stamp' = stamp
         /\ mem[r].id \in 1..Len(stamp)
         /\ \A id \in 1..Len(stamp) : id # mem[r].id => count'[id] = count[id]
                                                     /\ applied'[id] = applied[id]
         /\ count'[mem[r].id] = Raised(r, f)
         /\ \A g \in Fields : applied'[mem[r].id][g]
                              = applied[mem[r].id][g] + (IF g = f THEN 1 ELSE 0)
<1>1. mem[r].id \in 1..Len(stamp)
  BY DEF TypeOK, RequestOK, HoldsCopy
<1>2. applied[mem[r].id] \in [Fields -> Nat]
  <2> DEFINE i == mem[r].id
  <2>1. applied \in Seq(Counters) /\ Len(applied) = Len(stamp) /\ i \in 1..Len(stamp)
    BY <1>1 DEF TypeOK, TableOK
  <2> HIDE DEF i
  <2>2. applied[i] \in Counters
    BY <2>1
  <2>. QED
    BY <2>2 DEF i, Counters
<1>3. /\ \A id \in 1..Len(stamp) : id # mem[r].id => count'[id] = count[id]
                                                 /\ applied'[id] = applied[id]
      /\ count'[mem[r].id] = Raised(r, f)
      /\ applied'[mem[r].id] = [applied[mem[r].id] EXCEPT ![f] = @ + 1]
  <2> DEFINE i == mem[r].id
             new == Raised(r, f)
             row == [applied[i] EXCEPT ![f] = @ + 1]
  <2>1. count' = [count EXCEPT ![i] = new] /\ applied' = [applied EXCEPT ![i] = row]
    BY DEF Write
  <2>2. /\ count \in Seq(Counters) /\ applied \in Seq(Counters) /\ i \in 1..Len(stamp)
        /\ Len(count) = Len(stamp) /\ Len(applied) = Len(stamp)
    BY <1>1 DEF TypeOK, TableOK
  <2> HIDE DEF i, new, row
  <2>3. /\ \A id \in 1..Len(stamp) : id # i => count'[id] = count[id] /\ applied'[id] = applied[id]
        /\ count'[i] = new /\ applied'[i] = row
    BY <2>1, <2>2
  <2>. QED
    BY <2>3 DEF i, new, row
<1>4. \A g \in Fields : applied'[mem[r].id][g]
                        = applied[mem[r].id][g] + (IF g = f THEN 1 ELSE 0)
  BY <1>2, <1>3
<1>. QED
  BY <1>1, <1>3, <1>4 DEF Write

(* The cells of the table are numbers.                                     *)
LEMMA CellsAreNumbers ==
  ASSUME TypeOK
  PROVE  /\ \A id \in 1..Len(stamp), f \in Fields :
              count[id][f] \in Nat /\ applied[id][f] \in Nat
         /\ Len(stamp) \in Nat
         /\ DOMAIN stamp = 1..Len(stamp)
<1>1. \A id \in 1..Len(stamp) : count[id] \in Counters /\ applied[id] \in Counters
  BY DEF TypeOK, TableOK
<1>. QED
  BY <1>1 DEF TypeOK, TableOK, Counters

-----------------------------------------------------------------------------
(***************************************************************************)
(* Lost updates only lose.  The invariant is inductive once it is stated   *)
(* of the copies too: a stale copy was true of its row when it was read,   *)
(* and the number of increments performed on a row never falls.            *)
(***************************************************************************)

CopiesBounded ==
  \A q \in Requests : HoldsCopy(q) =>
    \A f \in Fields : mem[q].count[f] <= applied[mem[q].id][f]

(* An insertion keeps NoPhantomCount and the bound on the copies.          *)
LEMMA PhantomInsert ==
  ASSUME TypeOK, NoPhantomCount, CopiesBounded, Inserts
  PROVE  /\ NoPhantomCount'
         /\ \A q \in Requests : HoldsCopy(q) =>
              \A f \in Fields : mem[q].count[f] <= applied'[mem[q].id][f]
<1>1. TypeOK /\ Len(stamp) \in Nat /\ DOMAIN stamp' = 1..Len(stamp')
  BY CellsAreNumbers DEF Inserts, Insert, TypeOK, TableOK
<1>2. NoPhantomCount'
  <2>1. ASSUME NEW id \in 1..Len(stamp'), NEW f \in Fields
        PROVE  count'[id][f] <= applied'[id][f]
    <3>1. CASE id = Len(stamp) + 1
      BY <3>1, InsertedTable DEF NoCounts
    <3>2. CASE id \in 1..Len(stamp)
      BY <3>2, InsertedTable, CellsAreNumbers DEF NoPhantomCount
    <3>. QED
      BY <1>1, <3>1, <3>2, InsertedTable
  <2>. QED
    BY <1>1, <2>1 DEF NoPhantomCount
<1>3. ASSUME NEW q \in Requests, HoldsCopy(q)
      PROVE  \A f \in Fields : mem[q].count[f] <= applied'[mem[q].id][f]
  <2>1. mem[q].id \in 1..Len(stamp)
    BY <1>3 DEF TypeOK, RequestOK, HoldsCopy
  <2>. QED
    BY <1>3, <2>1, InsertedTable DEF CopiesBounded
<1>. QED
  BY <1>2, <1>3

(* Every step of a request keeps NoPhantomCount and the bound on the       *)
(* copies.                                                                 *)
LEMMA PhantomStep ==
  ASSUME TypeOK, TypeOK', NoPhantomCount, CopiesBounded,
         NEW r \in Requests, Step(r) \/ Abort(r)
  PROVE  NoPhantomCount' /\ CopiesBounded'
<1>1. Frame(r) /\ (Quiet(r) \/ Fetches(r) \/ Creates(r) \/ Saves(r))
  BY StepShape
<1>2. CASE Quiet(r)
  BY <1>1, <1>2 DEF Quiet, Frame, tableVars, NoPhantomCount, CopiesBounded, HoldsCopy
<1>3. CASE Fetches(r)
  <2>1. NoPhantomCount'
    BY <1>3 DEF Fetches, tableVars, NoPhantomCount
  <2>2. \A f \in Fields : mem'[r].count[f] <= applied'[mem'[r].id][f]
    BY <1>3, CellsAreNumbers DEF Fetches, tableVars, NoPhantomCount
  <2>3. ASSUME NEW q \in Requests, q # r, HoldsCopy(q)'
        PROVE  \A f \in Fields : mem'[q].count[f] <= applied'[mem'[q].id][f]
    BY <1>1, <1>3, <2>3 DEF Fetches, Frame, tableVars, CopiesBounded, HoldsCopy
  <2>. QED
    BY <2>1, <2>2, <2>3 DEF CopiesBounded
<1>4. CASE Creates(r)
  <2>1. NoPhantomCount' /\ \A q \in Requests : HoldsCopy(q) =>
              \A f \in Fields : mem[q].count[f] <= applied'[mem[q].id][f]
    BY <1>4, PhantomInsert DEF Creates
  <2>2. \A f \in Fields : mem'[r].count[f] <= applied'[mem'[r].id][f]
    BY <1>4, InsertedTable DEF Creates, NoCounts
  <2>3. ASSUME NEW q \in Requests, q # r, HoldsCopy(q)'
        PROVE  \A f \in Fields : mem'[q].count[f] <= applied'[mem'[q].id][f]
    BY <1>1, <2>1, <2>3 DEF Frame, HoldsCopy
  <2>. QED
    BY <2>1, <2>2, <2>3 DEF CopiesBounded
<1>5. CASE Saves(r)
  <2>1. PICK f \in Fields :
           /\ Write(r, f)
           /\ HoldsCopy(r)' => mem'[r].id = mem[r].id /\ mem'[r].count = Raised(r, f)
    BY <1>5 DEF Saves
  <2>2. HoldsCopy(r)
    BY <1>5 DEF Saves
  <2> DEFINE i == mem[r].id
  <2>3. /\ stamp' = stamp /\ i \in 1..Len(stamp)
        /\ \A id \in 1..Len(stamp) : id # i => count'[id] = count[id] /\ applied'[id] = applied[id]
        /\ count'[i] = Raised(r, f)
        /\ \A g \in Fields : applied'[i][g] = applied[i][g] + (IF g = f THEN 1 ELSE 0)
    BY <2>1, <2>2, WrittenTable
  <2>4. \A g \in Fields : Raised(r, f)[g] <= applied'[i][g]
    <3>1. \A g \in Fields : mem[r].count[g] <= applied[i][g]
      BY <2>2 DEF CopiesBounded
    <3>2. \A g \in Fields : /\ Raised(r, f)[g] = mem[r].count[g] + (IF g = f THEN 1 ELSE 0)
                            /\ mem[r].count[g] \in Nat
      BY RaisedOK DEF TypeOK, RequestOK
    <3>3. \A g \in Fields : applied[i][g] \in Nat
      BY <2>3, CellsAreNumbers
    <3> HIDE DEF i
    <3>. QED
      BY <2>3, <3>1, <3>2, <3>3
  <2>5. NoPhantomCount'
    <3>1. ASSUME NEW id \in 1..Len(stamp), NEW g \in Fields
          PROVE  count'[id][g] <= applied'[id][g]
      <4>1. CASE id = i
        BY <2>3, <2>4, <4>1
      <4>2. CASE id # i
        BY <2>3, <4>2, CellsAreNumbers DEF NoPhantomCount
      <4>. QED
        BY <4>1, <4>2
    <3>. QED
      BY <2>3, <3>1, CellsAreNumbers DEF NoPhantomCount
  <2>6. ASSUME NEW q \in Requests, q # r, HoldsCopy(q)'
        PROVE  \A g \in Fields : mem'[q].count[g] <= applied'[mem'[q].id][g]
    <3>1. HoldsCopy(q) /\ mem'[q] = mem[q]
      BY <1>1, <2>6 DEF Frame, HoldsCopy
    <3>2. mem[q].id \in 1..Len(stamp) /\ mem[q] \in Memory
      BY <3>1 DEF TypeOK, RequestOK, HoldsCopy
    <3>3. \A g \in Fields : /\ mem[q].count[g] <= applied[mem[q].id][g]
                            /\ mem[q].count[g] \in Nat /\ applied[mem[q].id][g] \in Nat
      BY <3>1, <3>2, CellsAreNumbers DEF CopiesBounded, Memory, Counters
    <3>4. CASE mem[q].id = i
      BY <2>3, <3>1, <3>3, <3>4
    <3>5. CASE mem[q].id # i
      BY <2>3, <3>1, <3>2, <3>3, <3>5
    <3>. QED
      BY <3>4, <3>5
  <2>7. HoldsCopy(r)' => \A g \in Fields : mem'[r].count[g] <= applied'[mem'[r].id][g]
    BY <2>1, <2>4
  <2>. QED
    BY <2>5, <2>6, <2>7 DEF CopiesBounded
<1>. QED
  BY <1>1, <1>2, <1>3, <1>4, <1>5

(* No cell of the tracker table is ever above the increments performed on  *)
(* it, for any number of workers saving stale rows over each other.        *)
THEOREM LostUpdatesOnlyLose == Spec => []NoPhantomCount
<1>1. Init => NoPhantomCount /\ CopiesBounded
  BY DEF Init, NoPhantomCount, CopiesBounded, HoldsCopy
<1>2. TypeOK /\ TypeOK' /\ NoPhantomCount /\ CopiesBounded /\ [Next]_vars
      => NoPhantomCount' /\ CopiesBounded'
  <2>. SUFFICES ASSUME TypeOK, TypeOK', NoPhantomCount, CopiesBounded, [Next]_vars
                PROVE  NoPhantomCount' /\ CopiesBounded'
    OBVIOUS
  <2>1. ASSUME NEW r \in Requests, Step(r) \/ Abort(r)
        PROVE  NoPhantomCount' /\ CopiesBounded'
    BY <2>1, PhantomStep
  <2>2. CASE \/ Upgrade \/ UpgradeTracker \/ Deactivate \/ TrialPeriodEnds
             \/ NextMonth \/ UNCHANGED vars
    <3>1. UNCHANGED <<pc, mem>> /\ (UNCHANGED tableVars \/ Inserts)
      BY <2>2, OtherShape
    <3>2. CASE UNCHANGED tableVars
      BY <3>1, <3>2 DEF tableVars, NoPhantomCount, CopiesBounded, HoldsCopy
    <3>3. CASE Inserts
      BY <3>1, <3>3, PhantomInsert DEF CopiesBounded, HoldsCopy
    <3>. QED
      BY <3>1, <3>2, <3>3
  <2>. QED
    BY <2>1, <2>2 DEF Next, Finished
<1>. QED
  BY <1>1, <1>2, TypeInvariant, PTL DEF Spec

-----------------------------------------------------------------------------
(***************************************************************************)
(* A refusal at the SMS limit follows as many performed SMS increments:    *)
(* the sum the check read is below the performed one, which never falls.   *)
(***************************************************************************)

LEMMA AppliedNeverFalls ==
  ASSUME TypeOK, [Next]_vars, NEW f \in Fields
  PROVE  Total(applied, f) <= Total(applied', f)
<1>1. applied \in Seq(Counters) /\ Total(applied, f) \in Nat
  BY UnitsFinite DEF TypeOK, TableOK
<1>2. CASE UNCHANGED tableVars
  BY <1>1, <1>2 DEF tableVars
<1>3. CASE Inserts
  <2>1. applied' = Append(applied, NoCounts)
    BY <1>3 DEF Inserts, Insert
  <2>. QED
    BY <1>1, <2>1, TotalAppend
<1>4. ASSUME NEW r \in Requests, Saves(r)
      PROVE  Total(applied, f) <= Total(applied', f)
  <2>1. PICK g \in Fields : Write(r, g)
    BY <1>4 DEF Saves
  <2>2. mem[r].id \in 1..Len(applied)
    BY <1>4 DEF Saves, HoldsCopy, TypeOK, RequestOK, TableOK
  <2>3. Total(applied', f) = Total(applied, f) + (IF f = g THEN 1 ELSE 0)
    BY <1>1, <2>1, <2>2, TotalRaised DEF Write
  <2>. QED
    BY <1>1, <2>3
<1>5. ASSUME NEW r \in Requests, Step(r) \/ Abort(r)
      PROVE  Total(applied, f) <= Total(applied', f)
  BY <1>2, <1>3, <1>4, <1>5, StepShape DEF Quiet, Fetches, Creates
<1>6. CASE \/ Upgrade \/ UpgradeTracker \/ Deactivate \/ TrialPeriodEnds
           \/ NextMonth \/ UNCHANGED vars
  BY <1>2, <1>3, <1>6, OtherShape
<1>. QED
  BY <1>5, <1>6 DEF Next, Finished

(* Only MsgLimitCheck refuses at the SMS limit.                            *)
LEMMA SmsRefusals ==
  ASSUME TypeOK, [Next]_vars, NEW q \in Requests, result'[q] = "msgLimit"
  PROVE  result[q] = "msgLimit" \/ Total(count, "incoming_sms_count") >= MsgLimit
<1>1. ASSUME NEW r \in Requests, NEW label, NEW m, Continue(r, label, m)
      PROVE  result[q] = "msgLimit"
  BY <1>1 DEF Continue
<1>2. ASSUME NEW r \in Requests, NEW how, how # "msgLimit", Finish(r, how)
      PROVE  result[q] = "msgLimit"
  BY <1>2 DEF Finish, TypeOK, RequestOK
<1>3. ASSUME NEW r \in Requests, Step(r) \/ Abort(r)
      PROVE  result[q] = "msgLimit" \/ Total(count, "incoming_sms_count") >= MsgLimit
  <2>. USE <1>1, <1>2
  <2>1. CASE Arrive(r)
    BY <2>1 DEF Arrive, ArriveSms, ArriveOnline, ArriveReceipt
  <2>2. CASE MsgLimitCheck(r)
    BY <2>2 DEF MsgLimitCheck
  <2>3. CASE SumIncoming(r) \/ NotifyOnImport(r) \/ Load(r) \/ Create(r)
    BY <2>3 DEF SumIncoming, NotifyOnImport, Load, Create, Continue
  <2>4. CASE SubLimitCheck(r)
    BY <2>4 DEF SubLimitCheck, Refuse
  <2>5. CASE Save(r) \/ SaveOutgoing(r)
    BY <2>5 DEF Save, SaveOutgoing
  <2>6. CASE NearSubmissionLimit(r) \/ NearSmsLimit(r) \/ ReachedSubmissionLimit(r)
    BY <2>6 DEF NearSubmissionLimit, NearSmsLimit, ReachedSubmissionLimit
  <2>7. CASE Accept(r)
    <3>1. \/ Continue(r, "reply", mem[r]) \/ Finish(r, "ok")
          \/ \E m : Continue(r, "load", m)
      BY <2>7 DEF Accept
    <3>. QED
      BY <3>1
  <2>8. CASE Reply(r) \/ Abort(r)
    BY <2>8 DEF Reply, Abort
  <2>. QED
    BY <1>3, <2>1, <2>2, <2>3, <2>4, <2>5, <2>6, <2>7, <2>8 DEF Step
<1>4. CASE \/ Upgrade \/ UpgradeTracker \/ Deactivate \/ TrialPeriodEnds
           \/ NextMonth \/ UNCHANGED vars
  BY <1>4 DEF Upgrade, UpgradeTracker, Deactivate, TrialPeriodEnds, NextMonth, vars
<1>. QED
  BY <1>3, <1>4 DEF Next, Finished

(* No organization is refused its SMS before it has sent MsgLimit of them, *)
(* however the workers' checks and saves interleave.                       *)
THEOREM SmsRefusalsAreJustified == Spec => []SmsRefusalJustified
<1>1. Init => SmsRefusalJustified
  BY DEF Init, SmsRefusalJustified
<1>2. TypeOK /\ NoPhantomCount /\ SmsRefusalJustified /\ [Next]_vars => SmsRefusalJustified'
  <2>. SUFFICES ASSUME TypeOK, NoPhantomCount, SmsRefusalJustified, [Next]_vars,
                       NEW q \in Requests, result'[q] = "msgLimit"
                PROVE  Total(applied', "incoming_sms_count") >= MsgLimit
    BY DEF SmsRefusalJustified
  <2> DEFINE f == "incoming_sms_count"
  <2>1. f \in Fields
    BY DEF Fields
  <2>2. count \in Seq(Counters) /\ applied \in Seq(Counters) /\ Len(count) = Len(applied)
    BY DEF TypeOK, TableOK
  <2>3. Total(count, f) <= Total(applied, f)
    <3>1. \A id \in 1..Len(count) : count[id][f] <= applied[id][f]
      BY <2>1 DEF NoPhantomCount, TypeOK, TableOK
    <3> HIDE DEF f
    <3>. QED
      BY <2>1, <2>2, <3>1, TotalMonotone DEF TypeOK, TableOK
  <2>4. Total(applied, f) <= Total(applied', f)
    BY <2>1, AppliedNeverFalls
  <2>5. applied' \in Seq(Counters)
    BY TypeInductive DEF TypeOK, TableOK
  <2>6. Total(count, f) \in Nat /\ Total(applied, f) \in Nat /\ Total(applied', f) \in Nat
    BY <2>1, <2>2, <2>5, UnitsFinite
  <2>7. MsgLimit \in Nat
    BY QuotaAssumption
  <2>8. result[q] = "msgLimit" \/ Total(count, f) >= MsgLimit
    BY SmsRefusals
  <2>9. result[q] = "msgLimit" => Total(applied, f) >= MsgLimit
    BY DEF SmsRefusalJustified
  <2> HIDE DEF f
  <2>. QED
    BY <2>3, <2>4, <2>6, <2>7, <2>8, <2>9 DEF f
<1>. QED
  BY <1>1, <1>2, TypeInvariant, LostUpdatesOnlyLose, PTL DEF Spec

-----------------------------------------------------------------------------
(***************************************************************************)
(* One worker loses no increment: at most one request is being handled, so *)
(* a copy held at a save still equals its row.                             *)
(***************************************************************************)

Alone == \A p, q \in Busy : p = q

CopiesCurrent == \A q \in Requests : HoldsCopy(q) => mem[q].count = count[mem[q].id]

(* A request moves only while it is busy, or when a worker takes it.       *)
LEMMA MovesWhenBusy ==
  ASSUME NEW r \in Requests, Step(r) \/ Abort(r)
  PROVE  r \in Busy \/ Arrive(r)
BY DEF Step, Busy, MsgLimitCheck, SumIncoming, SubLimitCheck, NotifyOnImport, Load, Create,
   Save, SaveOutgoing, NearSubmissionLimit, NearSmsLimit, ReachedSubmissionLimit, Accept,
   Reply, Abort

(* With one worker only the running request can be busy, before and after. *)
LEMMA AloneStep ==
  ASSUME Workers = 1, TypeOK, Alone, NEW r \in Requests, Step(r) \/ Abort(r)
  PROVE  Alone' /\ Busy \subseteq {r} /\ Busy' \subseteq {r}
<1>1. Frame(r)
  BY StepShape
<1>2. Busy \subseteq {r}
  <2>1. CASE r \in Busy
    BY <2>1 DEF Alone
  <2>2. CASE Arrive(r)
    <3>1. IsFiniteSet(Busy)
      BY QuotaAssumption, FS_Subset DEF Busy
    <3>2. Cardinality(Busy) \in Nat /\ Cardinality(Busy) < 1
      BY <2>2, <3>1, FS_CardinalityType DEF Arrive
    <3>3. Cardinality(Busy) = 0
      BY <3>2
    <3>. QED
      BY <3>1, <3>3, FS_EmptySet
  <2>. QED
    BY <2>1, <2>2, MovesWhenBusy
<1>3. Busy' \subseteq {r}
  BY <1>1, <1>2 DEF Busy, Frame
<1>. QED
  BY <1>2, <1>3 DEF Alone

(* With one worker a step of a request keeps the copies current and the    *)
(* counters exact.                                                         *)
LEMMA ExactStep ==
  ASSUME Workers = 1, TypeOK, TypeOK', Alone, count = applied, CopiesCurrent,
         NEW r \in Requests, Step(r) \/ Abort(r)
  PROVE  count' = applied' /\ CopiesCurrent'
<1>1. Frame(r) /\ (Quiet(r) \/ Fetches(r) \/ Creates(r) \/ Saves(r))
  BY StepShape
<1>2. \A q \in Requests : HoldsCopy(q)' => q = r
  BY AloneStep DEF Busy, HoldsCopy
<1>3. CASE Quiet(r)
  BY <1>2, <1>3 DEF Quiet, tableVars, CopiesCurrent
<1>4. CASE Fetches(r)
  BY <1>2, <1>4 DEF Fetches, tableVars, CopiesCurrent
<1>5. CASE Creates(r)
  <2>1. count' = applied'
    BY <1>5 DEF Creates, Inserts, Insert
  <2>2. mem'[r].count = count'[mem'[r].id]
    BY <1>5, InsertedTable DEF Creates
  <2>. QED
    BY <1>2, <2>1, <2>2 DEF CopiesCurrent
<1>6. CASE Saves(r)
  <2>1. PICK f \in Fields :
           /\ Write(r, f)
           /\ HoldsCopy(r)' => mem'[r].id = mem[r].id /\ mem'[r].count = Raised(r, f)
    BY <1>6 DEF Saves
  <2>2. HoldsCopy(r)
    BY <1>6 DEF Saves
  <2> DEFINE i == mem[r].id
  <2>3. count[i] = mem[r].count /\ i \in 1..Len(stamp)
    BY <2>2 DEF CopiesCurrent, TypeOK, RequestOK, HoldsCopy
  <2>4. Raised(r, f) = [applied[i] EXCEPT ![f] = @ + 1]
    BY <2>3 DEF Raised
  <2>5. count' = applied'
    BY <2>1, <2>4 DEF Write
  <2>6. HoldsCopy(r)' => mem'[r].count = count'[mem'[r].id]
    BY <2>1, <2>2, WrittenTable
  <2>. QED
    BY <1>2, <2>5, <2>6 DEF CopiesCurrent
<1>. QED
  BY <1>1, <1>3, <1>4, <1>5, <1>6

(* With one worker at most one request is busy, its copy is what the row   *)
(* holds, and the counters are the performed increments.                   *)
LEMMA ExactInvariant ==
  ASSUME Workers = 1
  PROVE  Spec => [](Alone /\ count = applied /\ CopiesCurrent)
<1> DEFINE Inv == Alone /\ count = applied /\ CopiesCurrent
<1>1. Init => Inv
  BY DEF Init, Alone, Busy, CopiesCurrent, HoldsCopy
<1>2. TypeOK /\ TypeOK' /\ Inv /\ [Next]_vars => Inv'
  <2>. SUFFICES ASSUME TypeOK, TypeOK', Inv, [Next]_vars
                PROVE  Inv'
    OBVIOUS
  <2>1. ASSUME NEW r \in Requests, Step(r) \/ Abort(r)
        PROVE  Inv'
    BY <2>1, AloneStep, ExactStep
  <2>2. CASE \/ Upgrade \/ UpgradeTracker \/ Deactivate \/ TrialPeriodEnds
             \/ NextMonth \/ UNCHANGED vars
    <3>1. UNCHANGED <<pc, mem>> /\ (UNCHANGED tableVars \/ Inserts)
      BY <2>2, OtherShape
    <3>2. Alone'
      BY <3>1 DEF Alone, Busy
    <3>3. CASE UNCHANGED tableVars
      BY <3>1, <3>2, <3>3 DEF tableVars, CopiesCurrent, HoldsCopy
    <3>4. CASE Inserts
      <4>1. count' = applied'
        BY <3>4 DEF Inserts, Insert
      <4>2. ASSUME NEW q \in Requests, HoldsCopy(q)'
            PROVE  mem'[q].count = count'[mem'[q].id]
        <5>1. HoldsCopy(q) /\ mem'[q] = mem[q] /\ mem[q].id \in 1..Len(stamp)
          BY <3>1, <4>2 DEF HoldsCopy, TypeOK, RequestOK
        <5>. QED
          BY <3>4, <5>1, InsertedTable DEF CopiesCurrent
      <4>. QED
        BY <3>2, <4>1, <4>2 DEF CopiesCurrent
    <3>. QED
      BY <3>1, <3>3, <3>4
  <2>. QED
    BY <2>1, <2>2 DEF Next, Finished
<1>. QED
  BY <1>1, <1>2, TypeInvariant, PTL DEF Spec

(* With one worker, every increment performed is in the tracker table.     *)
THEOREM OneWorkerCountsExactly == Spec => []CountersExact
<1>1. CASE Workers = 1
  <2>1. count = applied => CountersExact
    BY DEF CountersExact
  <2>. QED
    BY <1>1, <2>1, ExactInvariant, PTL
<1>2. CASE Workers # 1
  <2>1. CountersExact
    BY <1>2 DEF CountersExact
  <2>. QED
    BY <2>1, PTL
<1>. QED
  BY <1>1, <1>2

-----------------------------------------------------------------------------
(***************************************************************************)
(* The performed increments against the stored responses.  An SMS request  *)
(* is ahead from the increment of its SMS until the player has stored the  *)
(* response or the registration is given back; a smartphone request is due *)
(* from storing the form until it is counted.                              *)
(***************************************************************************)

(* Where a request is raising a column, and where an SMS request is        *)
(* between counting its SMS and giving it back.                            *)
Counting == {"load", "create", "save"}
Counted == {"saveOut", "nearIn", "nearReg", "nearSms", "fullIn", "fullReg", "accept"}

(* SMS requests that have counted their SMS and may still give it back or  *)
(* have it stored; smartphone requests that have stored a form and not     *)
(* counted it.                                                             *)
Ahead == {r \in Requests :
            /\ Channel[r] = "sms"
            /\ \/ pc[r] \in Counted
               \/ pc[r] \in Counting /\ mem[r].field = "sms_registration_count"}

Due == {r \in Requests : /\ Channel[r] = "phone"
                         /\ pc[r] \in Counting /\ mem[r].field = "incoming_sp_count"}

(* Which column a request is to increment, by channel.                     *)
ColumnAt(r) ==
  /\ Channel[r] = "sms" /\ pc[r] \in {"msgLimit", "subIn", "subReg"}
       => mem[r].field = "incoming_sms_count"
  /\ pc[r] \in {"noteIn", "noteReg"} => Channel[r] = "import"
  /\ pc[r] = "saveOut" => Channel[r] = "sms"
  /\ pc[r] \in Counting =>
       /\ mem[r].field \in {"incoming_sms_count", "sms_registration_count"} => Channel[r] = "sms"
       /\ mem[r].field = "incoming_sp_count" => Channel[r] = "phone"

Columns == \A r \in Requests : ColumnAt(r)

AppliedSms  == Total(applied, "incoming_sms_count")
AppliedBack == Total(applied, "sms_registration_count")
AppliedSp   == Total(applied, "incoming_sp_count")

(* A set of requests in which only one request's membership changes.       *)
LEMMA OneMoves ==
  ASSUME NEW S \in SUBSET Requests, NEW T \in SUBSET Requests, NEW r \in Requests,
         S \ {r} = T \ {r}
  PROVE  /\ Cardinality(S) \in Nat /\ Cardinality(T) \in Nat
         /\ Cardinality(T) = Cardinality(S) + (IF r \in T THEN 1 ELSE 0)
                                            - (IF r \in S THEN 1 ELSE 0)
<1>1. IsFiniteSet(S) /\ IsFiniteSet(T) /\ IsFiniteSet(S \ {r})
  BY QuotaAssumption, FS_Subset
<1>2. /\ Cardinality(S) \in Nat /\ Cardinality(T) \in Nat /\ Cardinality(S \ {r}) \in Nat
  BY <1>1, FS_CardinalityType
<1>3. ASSUME NEW U \in {S, T}
      PROVE  Cardinality(U) = Cardinality(U \ {r}) + (IF r \in U THEN 1 ELSE 0)
  <2>1. CASE r \in U
    <3>1. Cardinality(U \ {r}) = Cardinality(U) - 1
      BY <1>1, <2>1, FS_RemoveElement
    <3>. QED
      BY <1>2, <2>1, <3>1
  <2>2. CASE r \notin U
    <3>1. U \ {r} = U
      BY <2>2
    <3>. QED
      BY <1>2, <2>2, <3>1
  <2>. QED
    BY <2>1, <2>2
<1>4. Cardinality(S) = Cardinality(S \ {r}) + (IF r \in S THEN 1 ELSE 0)
  BY <1>3
<1>5. Cardinality(T) = Cardinality(S \ {r}) + (IF r \in T THEN 1 ELSE 0)
  BY <1>3
<1>. QED
  BY <1>2, <1>4, <1>5

(* The responses of some channels, and one more of a request.              *)
Responses(s, channels) ==
  UNION {{r} \X (1..s[r]) : r \in {q \in Requests : Channel[q] \in channels}}

LEMMA ResponsesMember ==
  ASSUME NEW s \in [Requests -> Nat], NEW channels, NEW u
  PROVE  u \in Responses(s, channels) <=>
           \E q \in Requests, k \in Nat \ {0} :
              Channel[q] \in channels /\ k <= s[q] /\ u = <<q, k>>
<1>1. \A q \in Requests : s[q] \in Nat
  OBVIOUS
<1>. QED
  BY <1>1 DEF Responses

LEMMA ResponsesFinite ==
  ASSUME NEW s \in [Requests -> Nat], NEW channels
  PROVE  IsFiniteSet(Responses(s, channels)) /\ Cardinality(Responses(s, channels)) \in Nat
<1> DEFINE From == {q \in Requests : Channel[q] \in channels}
           Part == [q \in From |-> {q} \X (1..s[q])]
           Parts == {{q} \X (1..s[q]) : q \in From}
<1>1. IsFiniteSet(From)
  BY QuotaAssumption, FS_Subset
<1>2. Part \in Surjection(From, Parts)
  BY DEF Surjection
<1>3. IsFiniteSet(Parts)
  <2> HIDE DEF From, Part, Parts
  <2>. QED
    BY <1>1, <1>2, FS_Surjection
<1>4. ASSUME NEW P \in Parts
      PROVE  IsFiniteSet(P)
  <2>1. PICK q \in Requests : P = {q} \X (1..s[q])
    OBVIOUS
  <2>2. IsFiniteSet({q}) /\ IsFiniteSet(1..s[q])
    BY FS_Singleton, FiniteUpTo
  <2>. QED
    BY <2>1, <2>2, FS_Product
<1>5. IsFiniteSet(UNION Parts)
  BY <1>3, <1>4, FS_UNION
<1>. QED
  BY <1>5, FS_CardinalityType DEF Responses

LEMMA ResponsesRaised ==
  ASSUME NEW s \in [Requests -> Nat], NEW r \in Requests, NEW channels
  PROVE  Cardinality(Responses([s EXCEPT ![r] = @ + 1], channels))
           = Cardinality(Responses(s, channels)) + (IF Channel[r] \in channels THEN 1 ELSE 0)
<1> DEFINE t == [s EXCEPT ![r] = @ + 1]
           u == <<r, s[r] + 1>>
<1>1. /\ t \in [Requests -> Nat] /\ s[r] \in Nat /\ t[r] = s[r] + 1
      /\ \A q \in Requests : s[q] \in Nat /\ (q # r => t[q] = s[q])
  OBVIOUS
<1> HIDE DEF t
<1>2. ASSUME NEW x
      PROVE  x \in Responses(t, channels) <=>
               x \in Responses(s, channels) \/ (Channel[r] \in channels /\ x = u)
  <2>1. ASSUME x \in Responses(t, channels)
        PROVE  x \in Responses(s, channels) \/ (Channel[r] \in channels /\ x = u)
    <3>1. PICK q \in Requests, k \in Nat \ {0} :
             Channel[q] \in channels /\ k <= t[q] /\ x = <<q, k>>
      BY <1>1, <2>1, ResponsesMember
    <3>2. k <= s[q] \/ (q = r /\ k = s[r] + 1)
      BY <1>1, <3>1
    <3>. QED
      BY <3>1, <3>2, ResponsesMember
  <2>2. ASSUME x \in Responses(s, channels)
        PROVE  x \in Responses(t, channels)
    <3>1. PICK q \in Requests, k \in Nat \ {0} :
             Channel[q] \in channels /\ k <= s[q] /\ x = <<q, k>>
      BY <2>2, ResponsesMember
    <3>2. k <= t[q]
      BY <1>1, <3>1
    <3>. QED
      BY <1>1, <3>1, <3>2, ResponsesMember
  <2>3. ASSUME Channel[r] \in channels, x = u
        PROVE  x \in Responses(t, channels)
    <3>1. s[r] + 1 \in Nat \ {0} /\ s[r] + 1 <= t[r]
      BY <1>1
    <3>. QED
      BY <1>1, <2>3, <3>1, ResponsesMember
  <2>. QED
    BY <2>1, <2>2, <2>3
<1>3. u \notin Responses(s, channels)
  BY <1>1, ResponsesMember
<1>4. CASE Channel[r] \in channels
  <2>1. Responses(t, channels) = Responses(s, channels) \cup {u}
    BY <1>2, <1>4
  <2>. QED
    BY <1>3, <1>4, <2>1, ResponsesFinite, FS_AddElement DEF t
<1>5. CASE Channel[r] \notin channels
  <2>1. Responses(t, channels) = Responses(s, channels)
    BY <1>2, <1>5
  <2>. QED
    BY <1>5, <2>1, ResponsesFinite DEF t
<1>. QED
  BY <1>4, <1>5

-----------------------------------------------------------------------------
(* What a step of a request does to the columns compared with the stored   *)
(* responses: nothing they depend on (it may end or leave the request), a  *)
(* save of the request's column, or the player's storing.                  *)
Passes(r) ==
  /\ stored' = stored
  /\ UNCHANGED tableVars \/ Inserts \/ (HoldsCopy(r) /\ Write(r, "outgoing_sms_count"))
  /\ (r \in Ahead' => r \in Ahead) /\ (r \in Due' => r \in Due)

Counts(r) ==
  /\ stored' = stored
  /\ HoldsCopy(r) /\ Write(r, mem[r].field)
  /\ r \notin Due'
  /\ r \in Ahead' => mem[r].field = "incoming_sms_count"
  /\ mem[r].field = "sms_registration_count" => r \in Ahead
  /\ mem[r].field = "incoming_sp_count" => r \in Due

Stores(r) ==
  /\ UNCHANGED tableVars
  /\ \/ /\ stored' = [stored EXCEPT ![r] = @ + 1]
        /\ Channel[r] = "sms" => r \in Ahead /\ r \notin Ahead'
        /\ r \in Due' => Channel[r] = "phone"
     \/ stored' = stored /\ r \notin Due'
  /\ r \in Ahead' => r \in Ahead

(* A request that ends is neither ahead nor due, and has no column to raise.*)
LEMMA FinishColumns ==
  ASSUME TypeOK, NEW r \in Requests, NEW how, Finish(r, how)
  PROVE  ColumnAt(r)' /\ r \notin Ahead' /\ r \notin Due'
<1>1. pc'[r] = "done"
  BY DEF Finish, TypeOK, RequestOK
<1>. QED
  BY <1>1 DEF ColumnAt, Ahead, Due, Counting, Counted

LEMMA ColumnStep ==
  ASSUME TypeOK, Columns, NEW r \in Requests, Step(r) \/ Abort(r)
  PROVE  ColumnAt(r)' /\ (Passes(r) \/ Counts(r) \/ Stores(r))
<1>1. ColumnAt(r) /\ mem[r] \in Memory /\ pc[r] \in Labels
  BY DEF Columns, TypeOK, RequestOK
<1>2. ASSUME NEW label, NEW m, Continue(r, label, m)
      PROVE  /\ pc'[r] = label /\ mem'[r] = m
             /\ r \in Ahead' <=> Channel[r] = "sms" /\ (label \in Counted
                   \/ (label \in Counting /\ m.field = "sms_registration_count"))
             /\ r \in Due' <=> /\ Channel[r] = "phone"
                               /\ label \in Counting /\ m.field = "incoming_sp_count"
  <2>1. pc'[r] = label /\ mem'[r] = m
    BY <1>2 DEF Continue, TypeOK, RequestOK
  <2>. QED
    BY <2>1 DEF Ahead, Due
<1>3. /\ r \in Ahead <=> Channel[r] = "sms" /\ (pc[r] \in Counted
                   \/ (pc[r] \in Counting /\ mem[r].field = "sms_registration_count"))
      /\ r \in Due <=> /\ Channel[r] = "phone"
                       /\ pc[r] \in Counting /\ mem[r].field = "incoming_sp_count"
  BY DEF Ahead, Due
<1>4. /\ Loaded(r).field = "incoming_sms_count"
      /\ Summed(r).field = mem[r].field
      /\ Dropped(r).field = "incoming_sms_count"
      /\ [Loaded(r) EXCEPT !.field = "outgoing_sms_charged_count"].field
                      = "outgoing_sms_charged_count"
      /\ \A a \in Int : [mem[r] EXCEPT !.acc = a].field = mem[r].field
      /\ \A a \in Int : [Dropped(r) EXCEPT !.left = a].field = "incoming_sms_count"
      /\ \A c : [mem[r] EXCEPT !.count = c].field = mem[r].field
  BY <1>1 DEF Loaded, Fresh, Summed, Dropped, Memory
<1>5. CASE Arrive(r)
  <2>1. stored' = stored /\ UNCHANGED tableVars
    BY <1>5 DEF Arrive, outVars
  <2>2. r \notin Ahead'
    BY <1>2, <1>4, <1>5, FinishColumns
       DEF Arrive, ArriveSms, ArriveOnline, ArriveReceipt, Counted, Counting
  <2>3. r \notin Due' /\ ColumnAt(r)'
    <3>. USE <1>2, <1>4, FinishColumns DEF Counting, ColumnAt
    <3>1. CASE ArriveSms(r)
      BY <3>1 DEF ArriveSms
    <3>2. CASE ArriveOnline(r)
      BY <3>2 DEF ArriveOnline
    <3>3. CASE ArriveReceipt(r)
      <4> DEFINE m == [Loaded(r) EXCEPT !.field = "outgoing_sms_charged_count"]
      <4>1. m.field = "outgoing_sms_charged_count"
        BY <1>4
      <4>2. Channel[r] = "receipt" /\ (Continue(r, "load", m) \/ Finish(r, "ok"))
        BY <3>3 DEF ArriveReceipt
      <4> HIDE DEF m
      <4>. QED
        BY <4>1, <4>2
    <3>. QED
      BY <1>5, <3>1, <3>2, <3>3 DEF Arrive
  <2>. QED
    BY <2>1, <2>2, <2>3 DEF Passes
<1>6. CASE MsgLimitCheck(r)
  BY <1>1, <1>2, <1>3, <1>6, FinishColumns
     DEF MsgLimitCheck, Refuse, Passes, outVars, ColumnAt, Counted, Counting
<1>7. CASE SumIncoming(r)
  <2>1. Incoming(count) \in Int
    BY UnitsFinite DEF Incoming, TypeOK, TableOK, Fields
  <2> DEFINE m == [mem[r] EXCEPT !.acc = Incoming(count)]
  <2>2. m.field = mem[r].field
    BY <1>4, <2>1
  <2>3. \/ pc[r] = "subIn" /\ Continue(r, "subReg", m)
        \/ pc[r] = "noteIn" /\ Continue(r, "noteReg", m)
        \/ pc[r] = "nearIn" /\ Continue(r, "nearReg", m)
        \/ pc[r] = "fullIn" /\ Continue(r, "fullReg", m)
    BY <1>7 DEF SumIncoming
  <2> HIDE DEF m
  <2>. QED
    BY <1>1, <1>2, <1>3, <1>7, <2>2, <2>3
       DEF SumIncoming, Passes, outVars, ColumnAt, Counted, Counting
<1>8. CASE SubLimitCheck(r)
  BY <1>1, <1>2, <1>3, <1>4, <1>8, FinishColumns
     DEF SubLimitCheck, Refuse, Passes, outVars, ColumnAt, Counted, Counting
<1>9. CASE NotifyOnImport(r)
  BY <1>1, <1>2, <1>3, <1>4, <1>9
     DEF NotifyOnImport, Passes, ColumnAt, Counted, Counting
<1>10. CASE Load(r)
  <2> DEFINE now == [mem[r] EXCEPT
               !.basic = IF Channel[r] \in {"web", "phone"} THEN InTrial(org) ELSE @]
  <2>1. \E label \in {"create", "save"} : \E m : m.field = mem[r].field /\ Continue(r, label, m)
    <3>1. CASE Continue(r, "create", [now EXCEPT !.month = month])
      <4>1. [now EXCEPT !.month = month].field = mem[r].field
        BY <1>1 DEF Memory
      <4>. QED
        BY <3>1, <4>1
    <3>2. ASSUME NEW id, Continue(r, "save", [now EXCEPT !.id = id, !.count = count[id]])
          PROVE  \E m : m.field = mem[r].field /\ Continue(r, "save", m)
      <4>1. [now EXCEPT !.id = id, !.count = count[id]].field = mem[r].field
        BY <1>1 DEF Memory
      <4>. QED
        BY <3>2, <4>1
    <3>. QED
      BY <1>10, <3>1, <3>2 DEF Load
  <2>2. PICK label \in {"create", "save"} : \E m : m.field = mem[r].field /\ Continue(r, label, m)
    BY <2>1
  <2>3. PICK m : m.field = mem[r].field /\ Continue(r, label, m)
    BY <2>2
  <2>. QED
    BY <1>1, <1>2, <1>3, <1>10, <2>3 DEF Load, Passes, outVars, ColumnAt, Counted, Counting
<1>11. CASE Create(r)
  <2> DEFINE m == [mem[r] EXCEPT !.id = Len(stamp) + 1, !.month = 0, !.count = NoCounts]
  <2>1. m.field = mem[r].field
    BY <1>1 DEF Memory
  <2>2. Continue(r, "save", m) /\ stored' = stored /\ pc[r] = "create"
    BY <1>11 DEF Create, outVars
  <2> HIDE DEF m
  <2>3. Inserts
    <3>1. [month |-> mem[r].month, day |-> 1] \in [month : Nat, day : {1, 2}]
      BY <1>1 DEF Memory
    <3>. QED
      BY <1>11, <3>1 DEF Create, Inserts
  <2>. QED
    BY <1>1, <1>2, <1>3, <2>1, <2>2, <2>3 DEF Passes, ColumnAt, Counted, Counting
<1>12. CASE Save(r)
  <2>1. stored' = stored /\ HoldsCopy(r) /\ Write(r, mem[r].field) /\ pc[r] = "save"
    BY <1>12 DEF Save, outVars, HoldsCopy
  <2>2. /\ mem[r].field = "sms_registration_count" => r \in Ahead
        /\ mem[r].field = "incoming_sp_count" => r \in Due
    BY <1>1, <1>3, <2>1 DEF ColumnAt, Counting
  <2>3. CASE mem[r].field = "incoming_sms_count"
              /\ Continue(r, "saveOut", [mem[r] EXCEPT !.count = Raised(r, mem[r].field)])
    <3>1. Channel[r] = "sms"
      BY <1>1, <2>1, <2>3 DEF ColumnAt, Counting
    <3>. QED
      BY <1>2, <2>1, <2>2, <2>3, <3>1 DEF Counts, ColumnAt, Counted, Counting
  <2>4. CASE Finish(r, "ok")
    BY <2>1, <2>2, <2>4, FinishColumns DEF Counts
  <2>5. CASE /\ mem[r].field # "incoming_sms_count" /\ AfterSave(r) # "done"
             /\ Continue(r, AfterSave(r), [Dropped(r) EXCEPT !.left = mem[r].left - 1])
    <3>1. \/ AfterSave(r) = "reply"
          \/ AfterSave(r) = "noteIn" /\ Channel[r] = "import"
          \/ AfterSave(r) = "nearIn" /\ Channel[r] # "sms"
      BY <2>5 DEF AfterSave
    <3>2. r \notin Ahead' /\ r \notin Due' /\ ColumnAt(r)'
      BY <1>2, <2>5, <3>1 DEF ColumnAt, Counted, Counting
    <3>. QED
      BY <2>1, <2>2, <3>2 DEF Counts
  <2>. QED
    BY <1>12, <2>3, <2>4, <2>5 DEF Save
<1>13. CASE SaveOutgoing(r)
  BY <1>1, <1>2, <1>3, <1>13
     DEF SaveOutgoing, HoldsCopy, Passes, outVars, ColumnAt, Counted, Counting
<1>14. CASE NearSubmissionLimit(r)
  BY <1>1, <1>2, <1>3, <1>14 DEF NearSubmissionLimit, Passes, ColumnAt, Counted, Counting
<1>15. CASE NearSmsLimit(r)
  BY <1>1, <1>2, <1>3, <1>15 DEF NearSmsLimit, Passes, ColumnAt, Counted, Counting
<1>16. CASE ReachedSubmissionLimit(r)
  BY <1>1, <1>2, <1>3, <1>16, FinishColumns
     DEF ReachedSubmissionLimit, Passes, ColumnAt, Counted, Counting
<1>17. CASE Accept(r)
  <2>1. PICK o \in Outcomes(Channel[r]) :
          LET f == CountedAs(Channel[r], o) IN
          /\ stored' = [stored EXCEPT ![r] = IF o = "stored" THEN @ + 1 ELSE @]
          /\ \/ f # "none" /\ Continue(r, "load", [mem[r] EXCEPT !.field = f])
             \/ f = "none" /\ Channel[r] = "sms" /\ Continue(r, "reply", mem[r])
             \/ f = "none" /\ Channel[r] # "sms" /\ Finish(r, "ok")
    BY <1>17 DEF Accept
  <2> DEFINE f == CountedAs(Channel[r], o)
             m == [mem[r] EXCEPT !.field = f]
  <2>2. UNCHANGED tableVars /\ pc[r] = "accept" /\ (Channel[r] = "sms" => r \in Ahead)
    BY <1>3, <1>17 DEF Accept, Counted
  <2>3. /\ m.field = f
        /\ f = "sms_registration_count" => Channel[r] = "sms" /\ o # "stored"
        /\ f = "incoming_sp_count" => Channel[r] = "phone" /\ o = "stored"
        /\ f # "incoming_sms_count"
        /\ Channel[r] = "sms" /\ f # "none" => f = "sms_registration_count"
    BY <1>1 DEF Memory, CountedAs
  <2>4. /\ o = "stored" => stored' = [stored EXCEPT ![r] = @ + 1]
        /\ o # "stored" => stored' = stored
    BY <2>1 DEF TypeOK, OutOK
  <2>5. \/ f # "none" /\ Continue(r, "load", m)
        \/ f = "none" /\ Channel[r] = "sms" /\ Continue(r, "reply", mem[r])
        \/ f = "none" /\ Finish(r, "ok")
    BY <2>1
  <2> HIDE DEF m, f
  <2>6. ColumnAt(r)' /\ (r \in Ahead' => Channel[r] = "sms" /\ o # "stored")
         /\ (r \in Due' => Channel[r] = "phone" /\ o = "stored")
    BY <1>2, <2>3, <2>5, FinishColumns DEF ColumnAt, Counted, Counting
  <2>. QED
    BY <2>2, <2>4, <2>6 DEF Stores
<1>18. CASE Reply(r)
  BY <1>18, FinishColumns DEF Reply, Passes
<1>19. CASE Abort(r)
  <2>1. stored' = stored /\ UNCHANGED tableVars
    BY <1>19 DEF Abort, outVars
  <2>2. CASE Finish(r, "failed")
    BY <2>1, <2>2, FinishColumns DEF Passes
  <2>3. CASE Continue(r, "reply", Dropped(r))
    BY <1>2, <2>1, <2>3 DEF Passes, ColumnAt, Counted, Counting
  <2>. QED
    BY <1>19, <2>2, <2>3 DEF Abort
<1>. QED
  BY <1>5, <1>6, <1>7, <1>8, <1>9, <1>10, <1>11, <1>12, <1>13, <1>14, <1>15, <1>16, <1>17,
     <1>18, <1>19 DEF Step
(* What a step adds to the performed increments, to the responses stored   *)
(* and to the requests that are ahead or due.                              *)
LEMMA LedgerOfStep ==
  ASSUME TypeOK, TypeOK', Columns, NEW r \in Requests, Step(r) \/ Abort(r)
  PROVE  /\ {AppliedSms, AppliedBack, AppliedSp, StoredBy({"sms"}), StoredBy({"phone"}),
             Cardinality(Ahead), Cardinality(Due)} \subseteq Nat
         /\ {AppliedSms, AppliedBack, AppliedSp, StoredBy({"sms"}), StoredBy({"phone"}),
             Cardinality(Ahead), Cardinality(Due)}' \subseteq Nat
         /\ StoredBy({"sms"}) <= StoredBy({"sms"})'
         /\ StoredBy({"sms"})' - StoredBy({"sms"}) + Cardinality(Ahead)' - Cardinality(Ahead)
              <= (AppliedSms' - AppliedSms) - (AppliedBack' - AppliedBack)
         /\ AppliedSp' - AppliedSp + Cardinality(Due)' - Cardinality(Due)
              <= StoredBy({"phone"})' - StoredBy({"phone"})
<1>1. Frame(r) /\ ColumnAt(r)' /\ (Passes(r) \/ Counts(r) \/ Stores(r))
  BY StepShape, ColumnStep
<1>2. /\ Cardinality(Ahead) \in Nat /\ Cardinality(Ahead') \in Nat
      /\ Cardinality(Ahead') = Cardinality(Ahead) + (IF r \in Ahead' THEN 1 ELSE 0)
                                                  - (IF r \in Ahead THEN 1 ELSE 0)
  <2>1. Ahead \ {r} = Ahead' \ {r}
    BY <1>1 DEF Ahead, Frame
  <2>2. Ahead \in SUBSET Requests /\ Ahead' \in SUBSET Requests
    BY DEF Ahead
  <2>. QED
    BY <2>1, <2>2, OneMoves
<1>3. /\ Cardinality(Due) \in Nat /\ Cardinality(Due') \in Nat
      /\ Cardinality(Due') = Cardinality(Due) + (IF r \in Due' THEN 1 ELSE 0)
                                              - (IF r \in Due THEN 1 ELSE 0)
  <2>1. Due \ {r} = Due' \ {r}
    BY <1>1 DEF Due, Frame
  <2>2. Due \in SUBSET Requests /\ Due' \in SUBSET Requests
    BY DEF Due
  <2>. QED
    BY <2>1, <2>2, OneMoves
<1>4. /\ {AppliedSms, AppliedBack, AppliedSp} \subseteq Nat
      /\ {AppliedSms', AppliedBack', AppliedSp'} \subseteq Nat
  BY UnitsFinite DEF TypeOK, TableOK, Fields, AppliedSms, AppliedBack, AppliedSp
<1>5. /\ \A channels : StoredBy(channels) = Cardinality(Responses(stored, channels))
      /\ \A channels : StoredBy(channels)' = Cardinality(Responses(stored', channels))
      /\ stored \in [Requests -> Nat] /\ stored' \in [Requests -> Nat]
  BY DEF StoredBy, Responses, TypeOK, OutOK
<1>6. /\ StoredBy({"sms"}) \in Nat /\ StoredBy({"phone"}) \in Nat
      /\ StoredBy({"sms"})' \in Nat /\ StoredBy({"phone"})' \in Nat
  BY <1>5, ResponsesFinite
<1>7. ASSUME stored' = stored
      PROVE  StoredBy({"sms"})' = StoredBy({"sms"}) /\ StoredBy({"phone"})' = StoredBy({"phone"})
  BY <1>5, <1>7
<1>8. ASSUME UNCHANGED tableVars \/ Inserts
      PROVE  AppliedSms' = AppliedSms /\ AppliedBack' = AppliedBack /\ AppliedSp' = AppliedSp
  <2>1. CASE UNCHANGED tableVars
    BY <2>1 DEF tableVars, AppliedSms, AppliedBack, AppliedSp
  <2>2. CASE Inserts
    BY <2>2, TotalAppend
       DEF Inserts, Insert, TypeOK, TableOK, Fields, AppliedSms, AppliedBack, AppliedSp
  <2>. QED
    BY <1>8, <2>1, <2>2
<1>9. ASSUME NEW f \in Fields, HoldsCopy(r), Write(r, f)
      PROVE  /\ AppliedSms' = AppliedSms + (IF f = "incoming_sms_count" THEN 1 ELSE 0)
             /\ AppliedBack' = AppliedBack + (IF f = "sms_registration_count" THEN 1 ELSE 0)
             /\ AppliedSp' = AppliedSp + (IF f = "incoming_sp_count" THEN 1 ELSE 0)
  <2>1. mem[r].id \in 1..Len(applied) /\ applied \in Seq(Counters)
    BY <1>9 DEF HoldsCopy, TypeOK, TableOK, RequestOK
  <2>2. \A g \in Fields : Total(applied', g) = Total(applied, g) + (IF g = f THEN 1 ELSE 0)
    BY <1>9, <2>1, TotalRaised DEF Write
  <2>. QED
    BY <2>2 DEF AppliedSms, AppliedBack, AppliedSp, Fields
<1>10. mem[r].field \in Fields
  BY DEF TypeOK, RequestOK, Memory
<1>. HIDE DEF AppliedSms, AppliedBack, AppliedSp, StoredBy, Ahead, Due
<1>11. CASE Passes(r)
  <2>1. AppliedSms' = AppliedSms /\ AppliedBack' = AppliedBack /\ AppliedSp' = AppliedSp
    BY <1>4, <1>8, <1>9, <1>11 DEF Passes, Fields
  <2>2. /\ Cardinality(Ahead') <= Cardinality(Ahead)
        /\ Cardinality(Due') <= Cardinality(Due)
    BY <1>2, <1>3, <1>11 DEF Passes
  <2>. QED
    BY <1>2, <1>3, <1>4, <1>6, <1>7, <1>11, <2>1, <2>2 DEF Passes
<1>12. CASE Counts(r)
  <2> DEFINE f == mem[r].field
  <2>1. /\ AppliedSms' = AppliedSms + (IF f = "incoming_sms_count" THEN 1 ELSE 0)
        /\ AppliedBack' = AppliedBack + (IF f = "sms_registration_count" THEN 1 ELSE 0)
        /\ AppliedSp' = AppliedSp + (IF f = "incoming_sp_count" THEN 1 ELSE 0)
    BY <1>9, <1>10, <1>12 DEF Counts
  <2>2. /\ Cardinality(Due') = Cardinality(Due) - (IF r \in Due THEN 1 ELSE 0)
        /\ f = "incoming_sp_count" => r \in Due
        /\ f = "incoming_sms_count" => Cardinality(Ahead') <= Cardinality(Ahead) + 1
        /\ f = "sms_registration_count" => Cardinality(Ahead') = Cardinality(Ahead) - 1
        /\ f # "incoming_sms_count" => Cardinality(Ahead') <= Cardinality(Ahead)
    BY <1>2, <1>3, <1>12 DEF Counts
  <2>3. StoredBy({"sms"})' = StoredBy({"sms"}) /\ StoredBy({"phone"})' = StoredBy({"phone"})
    BY <1>7, <1>12 DEF Counts
  <2> HIDE DEF f
  <2>. USE <1>2, <1>3, <1>4, <1>6, <2>1, <2>2, <2>3
  <2>4. CASE f = "incoming_sms_count"
    BY <2>4
  <2>5. CASE f = "sms_registration_count"
    BY <2>5
  <2>6. CASE f \notin {"incoming_sms_count", "sms_registration_count"}
    <3>1. AppliedSms' = AppliedSms /\ AppliedBack' = AppliedBack
      BY <2>6
    <3>2. AppliedSp' + Cardinality(Due') <= AppliedSp + Cardinality(Due)
      BY <2>6
    <3>3. Cardinality(Ahead') <= Cardinality(Ahead)
      BY <2>6
    <3>. QED
      BY <3>1, <3>2, <3>3
  <2>. QED
    BY <2>4, <2>5, <2>6
<1>13. CASE Stores(r)
  <2>1. AppliedSms' = AppliedSms /\ AppliedBack' = AppliedBack /\ AppliedSp' = AppliedSp
    BY <1>8, <1>13 DEF Stores
  <2>2. CASE stored' = [stored EXCEPT ![r] = @ + 1]
             /\ (Channel[r] = "sms" => r \in Ahead /\ r \notin Ahead')
             /\ (r \in Due' => Channel[r] = "phone")
    <3>1. /\ StoredBy({"sms"})' = StoredBy({"sms"}) + (IF Channel[r] = "sms" THEN 1 ELSE 0)
          /\ StoredBy({"phone"})' = StoredBy({"phone"}) + (IF Channel[r] = "phone" THEN 1 ELSE 0)
      <4>1. \A channels : StoredBy(channels)' = StoredBy(channels)
                             + (IF Channel[r] \in channels THEN 1 ELSE 0)
        BY <1>5, <2>2, ResponsesRaised
      <4>. QED
        BY <4>1
    <3>. QED
      BY <1>2, <1>3, <1>4, <1>6, <1>13, <2>1, <2>2, <3>1 DEF Stores
  <2>3. CASE stored' = stored /\ r \notin Due'
    BY <1>2, <1>3, <1>4, <1>6, <1>7, <1>13, <2>1, <2>3 DEF Stores
  <2>. QED
    BY <1>13, <2>2, <2>3 DEF Stores
<1>. QED
  BY <1>1, <1>11, <1>12, <1>13

(* The steps that belong to no request change none of it.                  *)
LEMMA LedgerOfOthers ==
  ASSUME TypeOK, Columns, \/ Upgrade \/ UpgradeTracker \/ Deactivate \/ TrialPeriodEnds
                          \/ NextMonth \/ UNCHANGED vars
  PROVE  /\ Columns' /\ Ahead' = Ahead /\ Due' = Due /\ stored' = stored /\ result' = result
         /\ \A f \in Fields : Total(applied', f) = Total(applied, f)
<1>1. UNCHANGED <<pc, mem>> /\ (UNCHANGED tableVars \/ Inserts)
  BY OtherShape
<1>2. stored' = stored /\ result' = result
  BY DEF Upgrade, UpgradeTracker, Deactivate, TrialPeriodEnds, NextMonth, vars, outVars
<1>3. ASSUME NEW f \in Fields
      PROVE  Total(applied', f) = Total(applied, f)
  BY <1>1, TotalAppend DEF tableVars, Inserts, Insert, TypeOK, TableOK
<1>. QED
  BY <1>1, <1>2, <1>3 DEF Columns, ColumnAt, Ahead, Due

(* A step keeps what is said of every request's column.                    *)
LEMMA ColumnsStep ==
  ASSUME TypeOK, Columns, [Next]_vars
  PROVE  Columns'
<1>1. ASSUME NEW r \in Requests, Step(r) \/ Abort(r)
      PROVE  Columns'
  <2>1. Frame(r) /\ ColumnAt(r)'
    BY <1>1, StepShape, ColumnStep
  <2>. QED
    BY <2>1 DEF Columns, ColumnAt, Frame
<1>. QED
  BY <1>1, LedgerOfOthers DEF Next, Finished

(* Counting ahead of storing, and storing ahead of counting.               *)
CountedAhead ==
  /\ StoredBy({"sms"}) + Cardinality(Ahead) <= AppliedSms - AppliedBack
  /\ AppliedSp + Cardinality(Due) <= StoredBy({"phone"})

(* No stored response of an SMS is missing from the performed increments,  *)
(* and no smartphone form is counted unless it was stored, whatever the    *)
(* workers interleave and wherever one dies.                               *)
THEOREM CountsMatchResponses == Spec => []CountedAgainstStored
<1>1. Init => Columns /\ CountedAhead
  <2>. SUFFICES ASSUME Init PROVE Columns /\ CountedAhead
    OBVIOUS
  <2>1. Columns /\ Ahead = {} /\ Due = {}
    BY DEF Init, Columns, ColumnAt, Ahead, Due, Counted, Counting
  <2>2. Units(applied, "incoming_sms_count") = {} /\ Units(applied, "sms_registration_count") = {}
        /\ Units(applied, "incoming_sp_count") = {}
    BY DEF Init, Units
  <2>3. \A channels : Responses(stored, channels) = {}
    <3>1. \A r \in Requests : 1..stored[r] = {}
      BY DEF Init
    <3>. QED
      BY <3>1 DEF Responses
  <2>4. StoredBy({"sms"}) = 0 /\ StoredBy({"phone"}) = 0
    BY <2>3, FS_EmptySet DEF StoredBy, Responses
  <2>. QED
    BY <2>1, <2>2, <2>4, FS_EmptySet DEF CountedAhead, AppliedSms, AppliedBack, AppliedSp, Total
<1>2. TypeOK /\ TypeOK' /\ Columns /\ CountedAhead /\ [Next]_vars => Columns' /\ CountedAhead'
  <2>. SUFFICES ASSUME TypeOK, TypeOK', Columns, CountedAhead, [Next]_vars
                PROVE  CountedAhead'
    BY ColumnsStep
  <2>1. ASSUME NEW r \in Requests, Step(r) \/ Abort(r)
        PROVE  CountedAhead'
    BY <2>1, LedgerOfStep DEF CountedAhead
  <2>2. CASE \/ Upgrade \/ UpgradeTracker \/ Deactivate \/ TrialPeriodEnds
             \/ NextMonth \/ UNCHANGED vars
    BY <2>2, LedgerOfOthers DEF CountedAhead, StoredBy, AppliedSms, AppliedBack, AppliedSp, Fields
  <2>. QED
    BY <2>1, <2>2 DEF Next, Finished
<1>3. TypeOK /\ CountedAhead => CountedAgainstStored
  <2>. SUFFICES ASSUME TypeOK, CountedAhead PROVE CountedAgainstStored
    OBVIOUS
  <2>1. Cardinality(Ahead) \in Nat /\ Cardinality(Due) \in Nat
    BY QuotaAssumption, FS_Subset, FS_CardinalityType DEF Ahead, Due
  <2>2. {AppliedSms, AppliedBack, AppliedSp} \subseteq Nat
    BY UnitsFinite DEF TypeOK, TableOK, Fields, AppliedSms, AppliedBack, AppliedSp
  <2>3. StoredBy({"sms"}) \in Nat /\ StoredBy({"phone"}) \in Nat
    BY ResponsesFinite DEF StoredBy, Responses, TypeOK, OutOK
  <2>. QED
    BY <2>1, <2>2, <2>3 DEF CountedAhead, CountedAgainstStored, AppliedSms, AppliedBack, AppliedSp
<1>. QED
  BY <1>1, <1>2, <1>3, TypeInvariant, PTL DEF Spec
=============================================================================
