--------------------- MODULE SubmissionQuotaRefinement ---------------------
(***************************************************************************)
(* With one worker the request handling implements QuotaLedger, and so a   *)
(* Basic account never exceeds its allowance.  Both fail with two workers. *)
(*                                                                         *)
(* A request admits a submission when it saves the counter, many steps     *)
(* after it checked the limits.  The invariant Serial says what an earlier *)
(* check is still worth at each later label: nobody else ran in between.   *)
(***************************************************************************)
EXTENDS SubmissionQuotaProofs

Sms  == Total(count, "incoming_sms_count")
Back == Total(count, "sms_registration_count")

SmsRoom == InTrial(org) => Sms < MsgLimit
Room    == InTrial(org) => Net(count) < SubLimit

SerialAt(r) ==
  /\ pc[r] # "done" => result[r] = "none"
  /\ InTrial(org) /\ r \in Busy => mem[r].basic
  /\ pc[r] = "subReg" => mem[r].acc = Incoming(count)
  /\ Channel[r] = "sms" /\ pc[r] \in {"msgLimit", "subIn", "subReg"}
       => mem[r].field = "incoming_sms_count"
  /\ Channel[r] = "sms" /\ pc[r] \in {"subIn", "subReg"} => SmsRoom
  /\ Channel[r] = "sms" /\ pc[r] \in Counted => Back < Sms
  /\ Channel[r] # "sms" /\ pc[r] = "accept" => Room
  /\ pc[r] \in Counting =>
       /\ mem[r].field = "incoming_sms_count" => Channel[r] = "sms" /\ SmsRoom /\ Room
       /\ mem[r].field \in {"incoming_web_count", "incoming_sp_count"} => Room
       /\ mem[r].field = "sms_registration_count" => Back < Sms
  /\ pc[r] = "saveOut" => Channel[r] = "sms"
  /\ pc[r] \in {"noteIn", "noteReg"} => Channel[r] = "import"

Serial == Back <= Sms /\ \A r \in Requests : SerialAt(r)

(* The totals are numbers, and Net is what the ledger calls Net.           *)
LEMMA TotalsAreNumbers ==
  ASSUME TypeOK
  PROVE  /\ \A f \in Fields : Total(count, f) \in Nat
         /\ Sms \in Nat /\ Back \in Nat /\ Incoming(count) \in Nat /\ Net(count) \in Int
         /\ Net(count) = Sms + (Total(count, "incoming_sp_count")
                                + Total(count, "incoming_web_count")) - Back
<1>1. \A f \in Fields : Total(count, f) \in Nat
  BY UnitsFinite DEF TypeOK, TableOK
<1>. QED
  BY <1>1 DEF Sms, Back, Net, Incoming, Fields

(* Inserting a row changes no total.                                       *)
LEMMA InsertedTotals ==
  ASSUME TypeOK, Inserts
  PROVE  \A f \in Fields : Total(count', f) = Total(count, f)
<1>1. count \in Seq(Counters) /\ count' = Append(count, NoCounts)
  BY DEF TypeOK, TableOK, Inserts, Insert
<1>. QED
  BY <1>1, TotalAppend

(* A save of a current copy adds one to the total of its column.           *)
LEMMA SavedTotals ==
  ASSUME TypeOK, CopiesCurrent, NEW r \in Requests, HoldsCopy(r), NEW f \in Fields, Write(r, f)
  PROVE  \A g \in Fields : Total(count', g) = Total(count, g) + (IF g = f THEN 1 ELSE 0)
<1> DEFINE i == mem[r].id
<1>1. count[i] = mem[r].count /\ i \in 1..Len(count) /\ count \in Seq(Counters)
  BY DEF CopiesCurrent, TypeOK, RequestOK, TableOK, HoldsCopy
<1>2. count' = [count EXCEPT ![i] = [count[i] EXCEPT ![f] = @ + 1]]
  BY <1>1 DEF Write, Raised
<1>3. count' = [count EXCEPT ![i][f] = @ + 1]
  BY <1>2
<1>. QED
  BY <1>1, <1>3, TotalRaised

(* What SerialAt compares depends on the totals and on the account type.   *)
LEMMA SameTotals ==
  ASSUME \A f \in Fields : Total(count', f) = Total(count, f)
  PROVE  /\ Sms' = Sms /\ Back' = Back /\ Incoming(count') = Incoming(count)
         /\ Net(count') = Net(count)
         /\ org' = org => (SmsRoom' <=> SmsRoom) /\ (Room' <=> Room)
BY DEF Sms, Back, Net, Incoming, SmsRoom, Room, InTrial, Fields

-----------------------------------------------------------------------------
(* Every step of a request keeps Serial.  The others are idle or done, so  *)
(* only r's own conditions are at stake.                                   *)

LEMMA OnlyOwnConditions ==
  ASSUME TypeOK, Serial, NEW r \in Requests, Frame(r), Busy \subseteq {r},
         \A q \in Requests \ {r} : result'[q] = result[q],
         Back' <= Sms', SerialAt(r)'
  PROVE  Serial'
<1>1. ASSUME NEW q \in Requests, q # r
      PROVE  SerialAt(q)'
  <2>1. pc[q] \in {"idle", "done"} /\ pc'[q] = pc[q]
    BY <1>1 DEF Busy, Frame
  <2>2. pc'[q] # "done" => result'[q] = "none"
    BY <1>1, <2>1 DEF Serial, SerialAt
  <2>3. q \notin Busy'
    BY <2>1 DEF Busy
  <2>. QED
    BY <2>1, <2>2, <2>3 DEF SerialAt, Counted, Counting
<1>. QED
  BY <1>1 DEF Serial

(* What a request that goes on finds next.                                 *)
LEMMA ContinueOthers ==
  ASSUME TypeOK, NEW r \in Requests, NEW label, NEW m, Continue(r, label, m)
  PROVE  /\ pc'[r] = label /\ mem'[r] = m /\ result' = result
BY DEF Continue, TypeOK, RequestOK

(* A request that ended has no conditions left.                            *)
LEMMA FinishSerial ==
  ASSUME TypeOK, NEW r \in Requests, NEW how, Finish(r, how)
  PROVE  SerialAt(r)' /\ \A q \in Requests \ {r} : result'[q] = result[q]
<1>1. pc'[r] = "done" /\ \A q \in Requests \ {r} : result'[q] = result[q]
  BY DEF Finish, TypeOK, RequestOK
<1>2. r \notin Busy'
  BY <1>1 DEF Busy
<1>. QED
  BY <1>1, <1>2 DEF SerialAt, Counted, Counting

(* The steps that change neither the table nor the account.                *)
LEMMA SteadyStep ==
  ASSUME Workers = 1, TypeOK, Alone, Serial, NEW r \in Requests, Step(r) \/ Abort(r),
         UNCHANGED tableVars, org' = org, SerialAt(r)',
         \A q \in Requests \ {r} : result'[q] = result[q]
  PROVE  Serial'
<1>1. Frame(r) /\ Busy \subseteq {r}
  BY StepShape, AloneStep
<1>2. Back' <= Sms'
  BY DEF tableVars, Serial, Sms, Back
<1>. QED
  BY <1>1, <1>2, OnlyOwnConditions

(* What is compared with the limits stays when the tables and the account  *)
(* stay.                                                                   *)
LEMMA SteadyConditions ==
  ASSUME UNCHANGED tableVars, org' = org
  PROVE  /\ Sms' = Sms /\ Back' = Back /\ Incoming(count') = Incoming(count)
         /\ Net(count') = Net(count)
         /\ (SmsRoom' <=> SmsRoom) /\ (Room' <=> Room) /\ (InTrial(org') <=> InTrial(org))
BY DEF tableVars, Sms, Back, SmsRoom, Room

(* A new request starts with the account type that the table's owner has.  *)
LEMMA ArriveSerial ==
  ASSUME Workers = 1, TypeOK, Alone, Serial, NEW r \in Requests, Arrive(r)
  PROVE  Serial'
<1>1. UNCHANGED tableVars /\ org' = org /\ result[r] = "none" /\ Step(r)
  BY DEF Arrive, envVars, Serial, SerialAt, Step
<1>2. /\ Loaded(r).basic = InTrial(org)
      /\ Loaded(r).field = "incoming_sms_count"
  BY DEF Loaded, Fresh
<1>3. ASSUME NEW how, Finish(r, how)
      PROVE  Serial'
  BY <1>1, <1>3, FinishSerial, SteadyStep
<1>4. ASSUME NEW label, NEW m, Continue(r, label, m), m.basic = InTrial(org),
             \/ /\ Channel[r] = "sms" /\ m.field = "incoming_sms_count"
                /\ label = "msgLimit" \/ (label = "load" /\ ~InTrial(org))
             \/ Channel[r] = "import" /\ label = "noteIn"
             \/ Channel[r] # "sms" /\ label = "subIn"
             \/ Channel[r] # "sms" /\ label = "accept" /\ ~InTrial(org)
             \/ /\ Channel[r] = "receipt" /\ label = "load"
                /\ m.field = "outgoing_sms_charged_count"
      PROVE  Serial'
  <2>1. pc'[r] = label /\ mem'[r] = m /\ result' = result
    BY <1>4, ContinueOthers
  <2>2. SerialAt(r)'
    BY <1>1, <1>4, <2>1, SteadyConditions DEF SerialAt, SmsRoom, Room, Counted, Counting
  <2>. QED
    BY <1>1, <2>1, <2>2, SteadyStep
<1>5. CASE ArriveSms(r)
  <2>1. \/ Finish(r, "closed")
        \/ InTrial(org) /\ Continue(r, "msgLimit", Loaded(r))
        \/ ~InTrial(org) /\ Continue(r, "load", Loaded(r))
    BY <1>5 DEF ArriveSms
  <2>2. Channel[r] = "sms"
    BY <1>5 DEF ArriveSms
  <2>3. CASE Finish(r, "closed")
    BY <1>3, <2>3
  <2>4. CASE InTrial(org) /\ Continue(r, "msgLimit", Loaded(r))
    BY <1>2, <1>4, <2>2, <2>4
  <2>5. CASE ~InTrial(org) /\ Continue(r, "load", Loaded(r))
    BY <1>2, <1>4, <2>2, <2>5
  <2>. QED
    BY <2>1, <2>3, <2>4, <2>5
<1>6. CASE ArriveOnline(r)
  BY <1>2, <1>3, <1>4, <1>6 DEF ArriveOnline
<1>7. CASE ArriveReceipt(r)
  <2> DEFINE m == [Loaded(r) EXCEPT !.field = "outgoing_sms_charged_count"]
  <2>1. m.basic = InTrial(org) /\ m.field = "outgoing_sms_charged_count"
    BY <1>2 DEF Loaded, Fresh
  <2>2. Finish(r, "ok") \/ Continue(r, "load", m)
    BY <1>7 DEF ArriveReceipt
  <2> HIDE DEF m
  <2>. QED
    BY <1>3, <1>4, <1>7, <2>1, <2>2 DEF ArriveReceipt
<1>. QED
  BY <1>5, <1>6, <1>7 DEF Arrive

(* A check that passes leaves room, and nobody else can use it up.         *)
LEMMA CheckSerial ==
  ASSUME Workers = 1, TypeOK, Alone, Serial, NEW r \in Requests,
         \/ MsgLimitCheck(r) \/ SumIncoming(r) \/ SubLimitCheck(r) \/ NotifyOnImport(r)
         \/ NearSubmissionLimit(r) \/ NearSmsLimit(r) \/ ReachedSubmissionLimit(r)
  PROVE  Serial'
<1>1. UNCHANGED tableVars /\ org' = org /\ r \in Busy /\ Step(r) /\ mem[r] \in Memory
  BY DEF MsgLimitCheck, SumIncoming, SubLimitCheck, NotifyOnImport, NearSubmissionLimit,
     NearSmsLimit, ReachedSubmissionLimit, envVars, Busy, Step, TypeOK, RequestOK
<1>2. SerialAt(r) /\ result[r] = "none"
  BY <1>1 DEF Serial, SerialAt, Busy
<1>3. ASSUME NEW how, Finish(r, how)
      PROVE  Serial'
  BY <1>1, <1>3, FinishSerial, SteadyStep
<1>4. ASSUME NEW label, NEW m, Continue(r, label, m), SerialAt(r)'
      PROVE  Serial'
  <2>1. result' = result
    BY <1>4, ContinueOthers
  <2>. QED
    BY <1>1, <1>4, <2>1, SteadyStep
<1>5. CASE MsgLimitCheck(r)
  <2>1. CASE Continue(r, "subIn", mem[r]) /\ ~(Sms >= MsgLimit)
    <3>1. pc'[r] = "subIn" /\ mem'[r] = mem[r] /\ result' = result
      BY <2>1, ContinueOthers
    <3>2. SmsRoom
      BY <2>1, QuotaAssumption, TotalsAreNumbers DEF SmsRoom
    <3>3. SerialAt(r)'
      BY <1>1, <1>2, <1>5, <3>1, <3>2, SteadyConditions DEF SerialAt, Counted, Counting, MsgLimitCheck
    <3>. QED
      BY <1>4, <2>1, <3>3
  <2>. QED
    BY <1>3, <1>5, <2>1 DEF MsgLimitCheck, Refuse, Sms
<1>6. CASE SumIncoming(r)
  <2> DEFINE m == [mem[r] EXCEPT !.acc = Incoming(count)]
  <2>1. m.basic = mem[r].basic /\ m.field = mem[r].field /\ m.acc = Incoming(count)
    BY <1>1 DEF Memory
  <2>2. \/ pc[r] = "subIn" /\ Continue(r, "subReg", m)
        \/ pc[r] = "noteIn" /\ Continue(r, "noteReg", m)
        \/ pc[r] = "nearIn" /\ Continue(r, "nearReg", m)
        \/ pc[r] = "fullIn" /\ Continue(r, "fullReg", m)
    BY <1>6 DEF SumIncoming
  <2> HIDE DEF m
  <2>3. SerialAt(r)'
    BY <1>1, <1>2, <2>1, <2>2, ContinueOthers, SteadyConditions DEF SerialAt, Counted, Counting, Busy
  <2>. QED
    BY <1>4, <2>2, <2>3
<1>7. Summed(r).basic = mem[r].basic /\ Summed(r).field = mem[r].field
  BY <1>1 DEF Summed, Memory
<1>8. CASE SubLimitCheck(r)
  <2>1. CASE /\ Continue(r, IF Channel[r] = "sms" THEN "load" ELSE "accept", Summed(r))
             /\ ~(SeenNet(r) >= SubLimit)
    <3>1. pc'[r] = (IF Channel[r] = "sms" THEN "load" ELSE "accept") /\ mem'[r] = Summed(r)
          /\ result' = result
      BY <2>1, ContinueOthers
    <3>2. Room
      <4>1. SeenNet(r) = Net(count)
        BY <1>2, <1>8 DEF SerialAt, SubLimitCheck, SeenNet, Net
      <4>. QED
        BY <2>1, <4>1, QuotaAssumption, TotalsAreNumbers DEF Room
    <3>3. SerialAt(r)'
      BY <1>1, <1>2, <1>7, <1>8, <3>1, <3>2, SteadyConditions
         DEF SerialAt, Counted, Counting, SubLimitCheck, Busy
    <3>. QED
      BY <1>4, <2>1, <3>3
  <2>. QED
    BY <1>3, <1>8, <2>1 DEF SubLimitCheck, Refuse
<1>9. CASE NotifyOnImport(r)
  <2>1. Continue(r, IF mem[r].basic THEN "subIn" ELSE "accept", Summed(r))
    BY <1>9 DEF NotifyOnImport
  <2>2. pc'[r] = (IF mem[r].basic THEN "subIn" ELSE "accept") /\ mem'[r] = Summed(r)
        /\ result' = result
    BY <2>1, ContinueOthers
  <2>3. ~mem[r].basic => Room
    BY <1>1, <1>2 DEF SerialAt, Room
  <2>4. Channel[r] = "import"
    BY <1>2, <1>9 DEF SerialAt, NotifyOnImport
  <2>5. SerialAt(r)'
    BY <1>1, <1>2, <1>7, <2>2, <2>3, <2>4, SteadyConditions DEF SerialAt, Counted, Counting, Busy
  <2>. QED
    BY <1>4, <2>1, <2>5
<1>10. CASE NearSubmissionLimit(r)
  <2>1. Continue(r, IF Channel[r] = "sms" THEN "nearSms" ELSE "fullIn", Summed(r))
    BY <1>10 DEF NearSubmissionLimit
  <2>2. SerialAt(r)'
    BY <1>1, <1>2, <1>7, <1>10, <2>1, ContinueOthers, SteadyConditions
       DEF SerialAt, Counted, Counting, Busy, NearSubmissionLimit
  <2>. QED
    BY <1>4, <2>1, <2>2
<1>11. CASE NearSmsLimit(r)
  <2>1. Continue(r, "fullIn", mem[r])
    BY <1>11 DEF NearSmsLimit
  <2>2. SerialAt(r)'
    BY <1>1, <1>2, <1>11, <2>1, ContinueOthers, SteadyConditions
       DEF SerialAt, Counted, Counting, Busy, NearSmsLimit
  <2>. QED
    BY <1>4, <2>1, <2>2
<1>12. CASE ReachedSubmissionLimit(r)
  <2>1. CASE Channel[r] = "sms" /\ Continue(r, "accept", Summed(r))
    <3>1. SerialAt(r)'
      BY <1>1, <1>2, <1>7, <1>12, <2>1, ContinueOthers, SteadyConditions
         DEF SerialAt, Counted, Counting, Busy, ReachedSubmissionLimit
    <3>. QED
      BY <1>4, <2>1, <3>1
  <2>. QED
    BY <1>3, <1>12, <2>1 DEF ReachedSubmissionLimit
<1>. QED
  BY <1>5, <1>6, <1>8, <1>9, <1>10, <1>11, <1>12

(* Fetching a row changes nothing that was checked.                        *)
LEMMA LoadSerial ==
  ASSUME Workers = 1, TypeOK, Alone, Serial, NEW r \in Requests, Load(r)
  PROVE  Serial'
<1>1. UNCHANGED tableVars /\ org' = org /\ Step(r) /\ mem[r] \in Memory /\ pc[r] = "load"
  BY DEF Load, envVars, Step, TypeOK, RequestOK
<1>2. SerialAt(r)
  BY DEF Serial
<1> DEFINE now == [mem[r] EXCEPT
             !.basic = IF Channel[r] \in {"web", "phone"} THEN InTrial(org) ELSE @]
<1>3. now.field = mem[r].field /\ (InTrial(org) => now.basic) /\ now \in Memory
  <2>1. InTrial(org) => mem[r].basic
    BY <1>1, <1>2 DEF SerialAt, Busy
  <2>. QED
    BY <1>1, <2>1 DEF Memory, InTrial
<1>4. \E m, label : /\ label \in {"create", "save"}
                    /\ m.field = mem[r].field /\ (InTrial(org) => m.basic)
                    /\ Continue(r, label, m)
  <2>1. CASE Continue(r, "create", [now EXCEPT !.month = month])
    <3> DEFINE m == [now EXCEPT !.month = month]
    <3>1. m.field = mem[r].field /\ (InTrial(org) => m.basic)
      BY <1>3 DEF Memory
    <3>2. Continue(r, "create", m)
      BY <2>1
    <3> HIDE DEF m
    <3>. QED
      BY <3>1, <3>2
  <2>2. ASSUME NEW id, Continue(r, "save", [now EXCEPT !.id = id, !.count = count[id]])
        PROVE  \E m, label : /\ label \in {"create", "save"}
                             /\ m.field = mem[r].field /\ (InTrial(org) => m.basic)
                             /\ Continue(r, label, m)
    <3> DEFINE m == [now EXCEPT !.id = id, !.count = count[id]]
    <3>1. m.field = mem[r].field /\ (InTrial(org) => m.basic)
      BY <1>3 DEF Memory
    <3>2. Continue(r, "save", m)
      BY <2>2
    <3> HIDE DEF m
    <3>. QED
      BY <3>1, <3>2
  <2> HIDE DEF now
  <2>. QED
    BY <2>1, <2>2 DEF Load, now
<1> HIDE DEF now
<1>5. PICK m, label : /\ label \in {"create", "save"}
                      /\ m.field = mem[r].field /\ (InTrial(org) => m.basic)
                      /\ Continue(r, label, m)
  BY <1>4
<1>6. pc'[r] = label /\ mem'[r] = m /\ result' = result
  BY <1>5, ContinueOthers
<1>7. SerialAt(r)'
  BY <1>1, <1>2, <1>5, <1>6, SteadyConditions DEF SerialAt, Counted, Counting, Busy
<1>. QED
  BY <1>1, <1>6, <1>7, SteadyStep

(* Nor does inserting the month's row.                                     *)
LEMMA CreateSerial ==
  ASSUME Workers = 1, TypeOK, Alone, Serial, NEW r \in Requests, Create(r)
  PROVE  Serial'
<1>1. org' = org /\ Step(r) /\ mem[r] \in Memory /\ pc[r] = "create" /\ SerialAt(r)
  BY DEF Create, envVars, Step, TypeOK, RequestOK, Serial
<1> DEFINE m == [mem[r] EXCEPT !.id = Len(stamp) + 1, !.month = 0, !.count = NoCounts]
<1>2. m.field = mem[r].field /\ m.basic = mem[r].basic
  BY <1>1 DEF Memory
<1>3. Continue(r, "save", m) /\ pc'[r] = "save" /\ mem'[r] = m /\ result' = result
  BY ContinueOthers DEF Create
<1> HIDE DEF m
<1>4. Inserts
  <2>1. [month |-> mem[r].month, day |-> 1] \in [month : Nat, day : {1, 2}]
    BY <1>1 DEF Memory
  <2>. QED
    BY <2>1 DEF Create, Inserts
<1>5. /\ Sms' = Sms /\ Back' = Back /\ (SmsRoom' <=> SmsRoom) /\ (Room' <=> Room)
      /\ (InTrial(org') <=> InTrial(org))
  BY <1>1, <1>4, InsertedTotals, SameTotals
<1>6. SerialAt(r)'
  BY <1>1, <1>2, <1>3, <1>5 DEF SerialAt, Counted, Counting, Busy
<1>7. Frame(r) /\ Busy \subseteq {r} /\ Back' <= Sms'
  BY <1>1, <1>5, StepShape, AloneStep DEF Serial
<1>. QED
  BY <1>3, <1>6, <1>7, OnlyOwnConditions

(* Saving the counter uses the room the check found, and a registration    *)
(* gives back what this request counted.                                   *)
LEMMA SaveSerial ==
  ASSUME Workers = 1, TypeOK, Alone, CopiesCurrent, Serial, NEW r \in Requests, Save(r)
  PROVE  Serial'
<1> DEFINE f == mem[r].field
<1>1. /\ org' = org /\ Step(r) /\ mem[r] \in Memory /\ pc[r] = "save" /\ SerialAt(r)
      /\ f \in Fields /\ HoldsCopy(r) /\ Write(r, f)
  BY DEF Save, envVars, Step, TypeOK, RequestOK, Serial, HoldsCopy, Memory
<1>2. \A g \in Fields : Total(count', g) = Total(count, g) + (IF g = f THEN 1 ELSE 0)
  BY <1>1, SavedTotals
<1>3. /\ Sms' = Sms + (IF f = "incoming_sms_count" THEN 1 ELSE 0)
      /\ Back' = Back + (IF f = "sms_registration_count" THEN 1 ELSE 0)
      /\ Sms \in Nat /\ Back \in Nat
  BY <1>2, TotalsAreNumbers DEF Sms, Back, Fields
<1>4. Back' <= Sms'
  <2>1. Back <= Sms /\ (f = "sms_registration_count" => Back < Sms)
    BY <1>1 DEF Serial, SerialAt, Counting
  <2>. QED
    BY <1>3, <2>1
<1>5. Frame(r) /\ Busy \subseteq {r}
  BY <1>1, StepShape, AloneStep
<1>6. CASE f = "incoming_sms_count" /\ Continue(r, "saveOut", [mem[r] EXCEPT !.count = Raised(r, f)])
  <2> DEFINE m == [mem[r] EXCEPT !.count = Raised(r, f)]
  <2>1. m.basic = mem[r].basic
    BY <1>1 DEF Memory
  <2>2. pc'[r] = "saveOut" /\ mem'[r] = m /\ result' = result
    BY <1>6, ContinueOthers
  <2> HIDE DEF m
  <2>3. Back' < Sms'
    BY <1>3, <1>6 DEF Serial
  <2>4. Channel[r] = "sms" /\ (InTrial(org) => mem[r].basic) /\ result[r] = "none"
    BY <1>1, <1>6 DEF SerialAt, Counting, Busy
  <2>5. SerialAt(r)'
    BY <1>1, <2>1, <2>2, <2>3, <2>4 DEF SerialAt, Counted, Counting, InTrial
  <2>. QED
    BY <1>4, <1>5, <2>2, <2>5, OnlyOwnConditions
<1>7. CASE Finish(r, "ok")
  BY <1>4, <1>5, <1>7, FinishSerial, OnlyOwnConditions
<1>8. CASE /\ AfterSave(r) # "done"
           /\ Continue(r, AfterSave(r), [Dropped(r) EXCEPT !.left = mem[r].left - 1])
  <2> DEFINE m == [Dropped(r) EXCEPT !.left = mem[r].left - 1]
  <2>1. m.basic = mem[r].basic
    BY <1>1 DEF Memory, Dropped
  <2>2. pc'[r] = AfterSave(r) /\ mem'[r] = m /\ result' = result
    BY <1>8, ContinueOthers
  <2> HIDE DEF m
  <2>3. \/ AfterSave(r) = "reply"
        \/ AfterSave(r) = "noteIn" /\ Channel[r] = "import"
        \/ AfterSave(r) = "nearIn" /\ Channel[r] # "sms"
    BY <1>8 DEF AfterSave
  <2>4. (InTrial(org) => mem[r].basic) /\ result[r] = "none"
    BY <1>1 DEF SerialAt, Busy
  <2>5. SerialAt(r)'
    BY <1>1, <2>1, <2>2, <2>3, <2>4 DEF SerialAt, Counted, Counting, InTrial
  <2>. QED
    BY <1>4, <1>5, <2>2, <2>5, OnlyOwnConditions
<1>. QED
  BY <1>6, <1>7, <1>8 DEF Save

(* The reply's column is not limited.                                      *)
LEMMA SaveOutgoingSerial ==
  ASSUME Workers = 1, TypeOK, Alone, CopiesCurrent, Serial, NEW r \in Requests, SaveOutgoing(r)
  PROVE  Serial'
<1>1. /\ org' = org /\ Step(r) /\ mem[r] \in Memory /\ pc[r] = "saveOut" /\ SerialAt(r)
      /\ "outgoing_sms_count" \in Fields /\ HoldsCopy(r) /\ Write(r, "outgoing_sms_count")
  BY DEF SaveOutgoing, envVars, Step, TypeOK, RequestOK, Serial, HoldsCopy, Fields
<1>2. Sms' = Sms /\ Back' = Back
  <2>1. \A g \in Fields : Total(count', g)
                  = Total(count, g) + (IF g = "outgoing_sms_count" THEN 1 ELSE 0)
    BY <1>1, SavedTotals
  <2>. QED
    BY <2>1, TotalsAreNumbers DEF Sms, Back, Fields
<1>3. Continue(r, IF mem[r].basic THEN "nearIn" ELSE "accept", Dropped(r))
  BY DEF SaveOutgoing
<1>4. /\ pc'[r] = (IF mem[r].basic THEN "nearIn" ELSE "accept")
      /\ mem'[r] = Dropped(r) /\ result' = result
  BY <1>3, ContinueOthers
<1>5. Dropped(r).basic = mem[r].basic
  BY <1>1 DEF Dropped, Memory
<1>6. SerialAt(r)'
  BY <1>1, <1>2, <1>4, <1>5 DEF SerialAt, Counted, Counting, Busy, InTrial
<1>7. Frame(r) /\ Busy \subseteq {r} /\ Back' <= Sms'
  BY <1>1, <1>2, StepShape, AloneStep DEF Serial
<1>. QED
  BY <1>4, <1>6, <1>7, OnlyOwnConditions

(* What the player makes of a message decides the column to raise.         *)
LEMMA AcceptSerial ==
  ASSUME Workers = 1, TypeOK, Alone, Serial, NEW r \in Requests, Accept(r)
  PROVE  Serial'
<1>1. UNCHANGED tableVars /\ org' = org /\ Step(r) /\ pc[r] = "accept" /\ mem[r] \in Memory
  BY DEF Accept, envVars, Step, TypeOK, RequestOK
<1>2. SerialAt(r)
  BY DEF Serial
<1>3. PICK o \in Outcomes(Channel[r]) :
         LET f == CountedAs(Channel[r], o) IN
         \/ f # "none" /\ Continue(r, "load", [mem[r] EXCEPT !.field = f])
         \/ Channel[r] = "sms" /\ Continue(r, "reply", mem[r])
         \/ Finish(r, "ok")
  BY DEF Accept
<1> DEFINE f == CountedAs(Channel[r], o)
           m == [mem[r] EXCEPT !.field = f]
<1>4. CASE Finish(r, "ok")
  BY <1>1, <1>4, FinishSerial, SteadyStep
<1>5. CASE Continue(r, "reply", mem[r])
  <2>1. pc'[r] = "reply" /\ mem'[r] = mem[r] /\ result' = result
    BY <1>5, ContinueOthers
  <2>2. SerialAt(r)'
    BY <1>1, <1>2, <2>1, SteadyConditions DEF SerialAt, Counted, Counting, Busy
  <2>. QED
    BY <1>1, <2>1, <2>2, SteadyStep
<1>6. CASE f # "none" /\ Continue(r, "load", m)
  <2>1. m.field = f /\ m.basic = mem[r].basic
    BY <1>1 DEF Memory
  <2>2. \/ f = "sms_registration_count" /\ Channel[r] = "sms"
        \/ f \in {"incoming_web_count", "incoming_sp_count"} /\ Channel[r] # "sms"
    BY <1>6 DEF CountedAs
  <2> HIDE DEF m, f
  <2>3. pc'[r] = "load" /\ mem'[r] = m /\ result' = result
    BY <1>6, ContinueOthers
  <2>4. SerialAt(r)'
    BY <1>1, <1>2, <2>1, <2>2, <2>3, SteadyConditions DEF SerialAt, Counted, Counting, Busy
  <2>. QED
    BY <1>1, <2>3, <2>4, SteadyStep
<1>. QED
  BY <1>3, <1>4, <1>5, <1>6

(* The reply and an exception end the request.                             *)
LEMMA EndSerial ==
  ASSUME Workers = 1, TypeOK, Alone, Serial, NEW r \in Requests, Reply(r) \/ Abort(r)
  PROVE  Serial'
<1>1. UNCHANGED tableVars /\ org' = org /\ (Step(r) \/ Abort(r))
  BY DEF Reply, Abort, envVars, Step
<1>2. ASSUME NEW how, Finish(r, how)
      PROVE  Serial'
  BY <1>1, <1>2, FinishSerial, SteadyStep
<1>3. CASE r \in Busy /\ Continue(r, "reply", Dropped(r))
  <2>1. pc'[r] = "reply" /\ mem'[r] = Dropped(r) /\ result' = result
    BY <1>3, ContinueOthers
  <2>2. Dropped(r).basic = mem[r].basic /\ SerialAt(r)
    BY DEF Dropped, Memory, TypeOK, RequestOK, Serial
  <2>3. SerialAt(r)'
    BY <1>1, <1>3, <2>1, <2>2 DEF SerialAt, Counted, Counting, Busy, InTrial
  <2>. QED
    BY <1>1, <2>1, <2>3, SteadyStep
<1>. QED
  BY <1>2, <1>3 DEF Reply, Abort

(* What happens around the requests keeps Serial: an upgrade only lifts    *)
(* the limits.                                                             *)
LEMMA OtherSerial ==
  ASSUME TypeOK, Serial, \/ Upgrade \/ UpgradeTracker \/ Deactivate \/ TrialPeriodEnds
                         \/ NextMonth \/ UNCHANGED vars
  PROVE  Serial'
<1>1. UNCHANGED <<pc, mem>> /\ (UNCHANGED tableVars \/ Inserts)
  BY OtherShape
<1>2. result' = result /\ (InTrial(org') => InTrial(org))
  BY DEF Upgrade, UpgradeTracker, Deactivate, TrialPeriodEnds, NextMonth, vars, envVars,
     InTrial, TypeOK, EnvOK
<1>3. \A f \in Fields : Total(count', f) = Total(count, f)
  BY <1>1, InsertedTotals DEF tableVars
<1>4. /\ Sms' = Sms /\ Back' = Back /\ Incoming(count') = Incoming(count)
      /\ Net(count') = Net(count)
  BY <1>3, SameTotals
<1>5. (SmsRoom => SmsRoom') /\ (Room => Room')
  BY <1>2, <1>4 DEF SmsRoom, Room
<1>6. ASSUME NEW r \in Requests
      PROVE  SerialAt(r)'
  <2>1. SerialAt(r)
    BY DEF Serial
  <2>. QED
    BY <1>1, <1>2, <1>4, <1>5, <2>1 DEF SerialAt, Busy
<1>. QED
  BY <1>4, <1>6 DEF Serial

(* Every step keeps Serial.                                                *)
LEMMA SerialStep ==
  ASSUME Workers = 1, TypeOK, Alone, CopiesCurrent, Serial, [Next]_vars
  PROVE  Serial'
<1>1. ASSUME NEW r \in Requests, Step(r) \/ Abort(r)
      PROVE  Serial'
  BY <1>1, ArriveSerial, CheckSerial, LoadSerial, CreateSerial, SaveSerial,
     SaveOutgoingSerial, AcceptSerial, EndSerial DEF Step
<1>2. CASE \/ Upgrade \/ UpgradeTracker \/ Deactivate \/ TrialPeriodEnds
           \/ NextMonth \/ UNCHANGED vars
  BY <1>2, OtherSerial
<1>. QED
  BY <1>1, <1>2 DEF Next, Finished

(* Nothing is counted at first.                                            *)
LEMMA InitialTotals ==
  ASSUME Init, NEW f \in Fields
  PROVE  Total(count, f) = 0
<1>1. Units(count, f) = {}
  BY DEF Init, Units
<1>. QED
  BY <1>1, FS_EmptySet DEF Total

(* With one worker Serial holds throughout.                                *)
LEMMA SerialInvariant ==
  ASSUME Workers = 1
  PROVE  Spec => [](Alone /\ CopiesCurrent /\ Serial)
<1>1. Init => Serial
  <2>. SUFFICES ASSUME Init
                PROVE  Serial
    OBVIOUS
  <2>1. Sms = 0 /\ Back = 0
    BY InitialTotals DEF Sms, Back, Fields
  <2>. QED
    BY <2>1 DEF Init, Serial, SerialAt, Counted, Counting, Busy
<1>2. TypeOK /\ Alone /\ CopiesCurrent /\ Serial /\ [Next]_vars => Serial'
  BY SerialStep
<1>. QED
  BY <1>1, <1>2, TypeInvariant, ExactInvariant, PTL DEF Spec

-----------------------------------------------------------------------------
(***************************************************************************)
(* The refinement.  Saving incoming_sms_count admits an SMS, saving a web  *)
(* or smartphone count admits another submission, saving a registration    *)
(* gives back, a limit reply refuses, an upgrade goes Pro; every other     *)
(* step is a stutter of the ledger.                                        *)
(***************************************************************************)

LedgerOther == Total(count, "incoming_sp_count") + Total(count, "incoming_web_count")
LedgerPlan  == IF InTrial(org) THEN "Basic" ELSE "Pro"

(* Refused requests are finitely many.                                     *)
LEMMA RefusedFinite == IsFiniteSet(Refused) /\ Cardinality(Refused) \in Nat
BY QuotaAssumption, FS_Subset, FS_CardinalityType DEF Refused

(* The ledger stutters when the account type, the limited totals and the   *)
(* refusals stay.                                                          *)
LEMMA LedgerStutter ==
  ASSUME LedgerPlan' = LedgerPlan, \A f \in Fields \ {"outgoing_sms_count",
         "outgoing_sms_charged_count"} : Total(count', f) = Total(count, f),
         Refused' = Refused
  PROVE  UNCHANGED Ledger!vars
BY DEF Ledger!vars, LedgerPlan, Fields

(* A save moves the ledger by the entry of its column.                     *)
LEMMA SaveIsEntry ==
  ASSUME Workers = 1, TypeOK, CopiesCurrent, Serial, NEW r \in Requests, Save(r)
  PROVE  [Ledger!Next]_Ledger!vars
<1> DEFINE f == mem[r].field
<1>1. /\ org' = org /\ pc[r] = "save" /\ SerialAt(r)
      /\ f \in Fields /\ HoldsCopy(r) /\ Write(r, f)
  BY DEF Save, envVars, TypeOK, RequestOK, Serial, HoldsCopy, Memory
<1>2. \A g \in Fields : Total(count', g) = Total(count, g) + (IF g = f THEN 1 ELSE 0)
  BY <1>1, SavedTotals
<1>3. Refused' = Refused
  BY DEF Save, Continue, Finish, Refused, TypeOK, RequestOK, Serial, SerialAt
<1>4. LedgerPlan' = LedgerPlan /\ (LedgerPlan = "Basic" <=> InTrial(org))
  BY <1>1 DEF LedgerPlan
<1>5. /\ \A g \in Fields : Total(count, g) \in Nat
      /\ Net(count) = Sms + LedgerOther - Back
  BY TotalsAreNumbers DEF LedgerOther
<1>6. CASE f = "incoming_sms_count"
  <2>1. SmsRoom /\ Room
    BY <1>1, <1>6 DEF SerialAt, Counting
  <2>2. /\ Sms' = Sms + 1 /\ LedgerOther' = LedgerOther /\ Back' = Back
    BY <1>2, <1>5, <1>6 DEF Sms, LedgerOther, Back, Fields
  <2>3. Ledger!AdmitSms
    BY <1>3, <1>4, <1>5, <2>1, <2>2 DEF Ledger!AdmitSms, Ledger!Net, Sms, LedgerOther,
       Back, LedgerPlan, SmsRoom, Room
  <2>. QED
    BY <2>3 DEF Ledger!Next
<1>7. CASE f \in {"incoming_web_count", "incoming_sp_count"}
  <2>1. Room
    BY <1>1, <1>7 DEF SerialAt, Counting
  <2>2. /\ Sms' = Sms /\ LedgerOther' = LedgerOther + 1 /\ Back' = Back
    BY <1>2, <1>5, <1>7 DEF Sms, LedgerOther, Back, Fields
  <2>3. Ledger!AdmitOther
    BY <1>3, <1>4, <1>5, <2>1, <2>2 DEF Ledger!AdmitOther, Ledger!Net, Sms, LedgerOther,
       Back, LedgerPlan, Room
  <2>. QED
    BY <2>3 DEF Ledger!Next
<1>8. CASE f = "sms_registration_count"
  <2>1. Back < Sms
    BY <1>1, <1>8 DEF SerialAt, Counting
  <2>2. /\ Sms' = Sms /\ LedgerOther' = LedgerOther /\ Back' = Back + 1
    BY <1>2, <1>5, <1>8 DEF Sms, LedgerOther, Back, Fields
  <2>3. Ledger!GiveBack
    BY <1>3, <1>4, <2>1, <2>2 DEF Ledger!GiveBack, Sms, LedgerOther, Back, LedgerPlan
  <2>. QED
    BY <2>3 DEF Ledger!Next
<1>9. CASE f \in {"outgoing_sms_count", "outgoing_sms_charged_count"}
  <2>1. \A g \in Fields \ {"outgoing_sms_count", "outgoing_sms_charged_count"} :
          Total(count', g) = Total(count, g)
    BY <1>2, <1>5, <1>9
  <2>. QED
    BY <1>3, <1>4, <2>1, LedgerStutter
<1>. QED
  BY <1>1, <1>6, <1>7, <1>8, <1>9 DEF Fields

(* A request that ends with a reply other than a limit's, or goes on,      *)
(* leaves the refusals as they are; a limit reply adds one.                *)
LEMMA RefusalsGrow ==
  ASSUME TypeOK, NEW r \in Requests, result[r] = "none", NEW how, Finish(r, how)
  PROVE  /\ how \notin {"msgLimit", "subLimit"} => Refused' = Refused
         /\ how \in {"msgLimit", "subLimit"} =>
              Cardinality(Refused') = Cardinality(Refused) + 1
<1>1. result \in [Requests -> Results] /\ result' = [result EXCEPT ![r] = how]
  BY DEF TypeOK, RequestOK, Finish
<1>2. r \notin Refused
  BY DEF Refused
<1>3. how \notin {"msgLimit", "subLimit"} => Refused' = Refused
  BY <1>1, <1>2 DEF Refused
<1>4. how \in {"msgLimit", "subLimit"} => Refused' = Refused \cup {r}
  BY <1>1 DEF Refused
<1>. QED
  BY <1>2, <1>3, <1>4, RefusedFinite, FS_AddElement

(* Steps that leave the account type and the tables alone: refusals apart, *)
(* the ledger sees nothing of them.                                        *)
LEMMA QuietStep ==
  ASSUME TypeOK, Serial, NEW r \in Requests, r \in Busy \/ pc[r] = "idle",
         UNCHANGED tableVars, org' = org,
         \/ \E label, m : Continue(r, label, m)
         \/ \E how : Finish(r, how) /\ how \notin {"msgLimit", "subLimit"}
         \/ UNCHANGED result
  PROVE  UNCHANGED Ledger!vars
<1>1. result[r] = "none"
  BY DEF Serial, SerialAt, Busy
<1>2. Refused' = Refused
  BY <1>1, RefusalsGrow DEF Continue, Refused
<1>. QED
  BY <1>2, LedgerStutter DEF tableVars, LedgerPlan

(* A reply that a limit is reached enters a refusal, and the limit is.     *)
LEMMA RefusalIsEntry ==
  ASSUME TypeOK, Serial, NEW r \in Requests, MsgLimitCheck(r) \/ SubLimitCheck(r)
  PROVE  [Ledger!Next]_Ledger!vars
<1>1. /\ UNCHANGED tableVars /\ org' = org /\ r \in Busy /\ SerialAt(r)
      /\ result[r] = "none"
  BY DEF MsgLimitCheck, SubLimitCheck, envVars, Serial, SerialAt, Busy
<1>2. /\ \A f \in Fields : Total(count, f) \in Nat
      /\ Net(count) = Sms + LedgerOther - Back
  BY TotalsAreNumbers DEF LedgerOther
<1>3. ASSUME NEW how, Finish(r, how), how \in {"msgLimit", "subLimit"},
             Sms >= MsgLimit \/ Net(count) >= SubLimit
      PROVE  Ledger!Refuse
  <2>1. Cardinality(Refused') = Cardinality(Refused) + 1
    BY <1>1, <1>3, RefusalsGrow
  <2>2. LedgerPlan' = LedgerPlan /\ count' = count
    BY <1>1 DEF tableVars, LedgerPlan
  <2>. QED
    BY <1>2, <1>3, <2>1, <2>2 DEF Ledger!Refuse, Ledger!Net, Sms, LedgerOther, Back, LedgerPlan
<1>4. ASSUME NEW how, Refuse(r, how), how \in {"msgLimit", "subLimit"},
             Sms >= MsgLimit \/ Net(count) >= SubLimit
      PROVE  [Ledger!Next]_Ledger!vars
  <2>1. CASE Finish(r, how)
    BY <1>3, <1>4, <2>1 DEF Ledger!Next
  <2>2. CASE Finish(r, "failed")
    BY <1>1, <2>2, QuietStep
  <2>. QED
    BY <1>4, <2>1, <2>2 DEF Refuse
<1>5. CASE \E label, m : Continue(r, label, m)
  BY <1>1, <1>5, QuietStep
<1>6. CASE MsgLimitCheck(r) /\ ~\E label, m : Continue(r, label, m)
  <2>1. Refuse(r, "msgLimit") /\ Sms >= MsgLimit
    BY <1>6 DEF MsgLimitCheck, Sms
  <2>. QED
    BY <1>4, <2>1
<1>7. CASE SubLimitCheck(r) /\ ~\E label, m : Continue(r, label, m)
  <2>1. Refuse(r, "subLimit") /\ SeenNet(r) >= SubLimit
    BY <1>7 DEF SubLimitCheck
  <2>2. SeenNet(r) = Net(count)
    BY <1>1, <1>7 DEF SerialAt, SubLimitCheck, SeenNet, Net
  <2>. QED
    BY <1>4, <2>1, <2>2
<1>. QED
  BY <1>5, <1>6, <1>7

(* Every other step of a request is a stutter of the ledger.               *)
LEMMA OtherStepsStutter ==
  ASSUME TypeOK, CopiesCurrent, Serial, NEW r \in Requests,
         \/ Arrive(r) \/ SumIncoming(r) \/ NotifyOnImport(r) \/ Load(r) \/ Create(r)
         \/ SaveOutgoing(r) \/ NearSubmissionLimit(r) \/ NearSmsLimit(r)
         \/ ReachedSubmissionLimit(r) \/ Accept(r) \/ Reply(r) \/ Abort(r)
  PROVE  UNCHANGED Ledger!vars
<1>1. org' = org /\ (r \in Busy \/ pc[r] = "idle")
  BY DEF Arrive, SumIncoming, NotifyOnImport, Load, Create, SaveOutgoing,
     NearSubmissionLimit, NearSmsLimit, ReachedSubmissionLimit, Accept, Reply, Abort,
     envVars, Busy
<1>2. CASE Arrive(r)
  <2>1. \/ \E label, m : Continue(r, label, m)
        \/ \E how : Finish(r, how) /\ how \notin {"msgLimit", "subLimit"}
    <3>1. CASE ArriveSms(r)
      BY <3>1 DEF ArriveSms
    <3>2. CASE ArriveOnline(r)
      BY <3>2 DEF ArriveOnline
    <3>3. CASE ArriveReceipt(r)
      <4> DEFINE m == [Loaded(r) EXCEPT !.field = "outgoing_sms_charged_count"]
      <4>1. Finish(r, "ok") \/ Continue(r, "load", m)
        BY <3>3 DEF ArriveReceipt
      <4> HIDE DEF m
      <4>. QED
        BY <4>1
    <3>. QED
      BY <1>2, <3>1, <3>2, <3>3 DEF Arrive
  <2>. QED
    BY <1>1, <1>2, <2>1, QuietStep DEF Arrive
<1>3. CASE SumIncoming(r) \/ NotifyOnImport(r) \/ NearSubmissionLimit(r) \/ NearSmsLimit(r)
           \/ ReachedSubmissionLimit(r) \/ Load(r)
  <2>1. \/ UNCHANGED result
        \/ \E how : Finish(r, how) /\ how \notin {"msgLimit", "subLimit"}
    <3>1. CASE ReachedSubmissionLimit(r)
      <4>1. UNCHANGED result \/ Finish(r, "ok")
        BY <3>1 DEF ReachedSubmissionLimit, Continue
      <4>. QED
        BY <4>1
    <3>2. CASE ~ReachedSubmissionLimit(r)
      BY <1>3, <3>2 DEF SumIncoming, NotifyOnImport, NearSubmissionLimit, NearSmsLimit,
         Load, Continue
    <3>. QED
      BY <3>1, <3>2
  <2>2. UNCHANGED tableVars
    BY <1>3 DEF SumIncoming, NotifyOnImport, NearSubmissionLimit, NearSmsLimit,
       ReachedSubmissionLimit, Load
  <2>. QED
    BY <1>1, <2>1, <2>2, QuietStep
<1>4. CASE Accept(r) \/ Reply(r) \/ Abort(r)
  <2>1. \/ UNCHANGED result
        \/ \E how : Finish(r, how) /\ how \notin {"msgLimit", "subLimit"}
    <3>1. CASE Accept(r)
      <4>1. UNCHANGED result \/ Finish(r, "ok")
        BY <3>1 DEF Accept, Continue
      <4>. QED
        BY <4>1
    <3>2. CASE Reply(r)
      <4>1. Finish(r, "failed") \/ Finish(r, "answered")
        BY <3>2 DEF Reply
      <4>. QED
        BY <4>1
    <3>3. CASE Abort(r)
      <4>1. UNCHANGED result \/ Finish(r, "failed")
        BY <3>3 DEF Abort, Continue
      <4>. QED
        BY <4>1
    <3>. QED
      BY <1>4, <3>1, <3>2, <3>3
  <2>2. UNCHANGED tableVars
    BY <1>4 DEF Accept, Reply, Abort
  <2>. QED
    BY <1>1, <2>1, <2>2, QuietStep
<1>5. CASE Create(r)
  <2>1. Inserts
    <3>1. [month |-> mem[r].month, day |-> 1] \in [month : Nat, day : {1, 2}]
      BY DEF TypeOK, RequestOK, Memory
    <3>. QED
      BY <1>5, <3>1 DEF Create, Inserts
  <2>2. Refused' = Refused /\ LedgerPlan' = LedgerPlan
    BY <1>1, <1>5 DEF Create, Continue, Refused, LedgerPlan
  <2>. QED
    BY <2>1, <2>2, InsertedTotals, LedgerStutter
<1>6. CASE SaveOutgoing(r)
  <2>1. /\ HoldsCopy(r) /\ "outgoing_sms_count" \in Fields
        /\ Write(r, "outgoing_sms_count")
    BY <1>6 DEF SaveOutgoing, HoldsCopy, Fields
  <2>2. \A g \in Fields : Total(count', g)
                  = Total(count, g) + (IF g = "outgoing_sms_count" THEN 1 ELSE 0)
    BY <2>1, SavedTotals
  <2>3. \A g \in Fields \ {"outgoing_sms_count", "outgoing_sms_charged_count"} :
          Total(count', g) = Total(count, g)
    BY <2>2, TotalsAreNumbers
  <2>4. Refused' = Refused /\ LedgerPlan' = LedgerPlan
    BY <1>1, <1>6 DEF SaveOutgoing, Continue, Refused, LedgerPlan
  <2>. QED
    BY <2>3, <2>4, LedgerStutter
<1>. QED
  BY <1>2, <1>3, <1>4, <1>5, <1>6

(* What happens around the requests: an upgrade goes Pro, the rest is a    *)
(* stutter.                                                                *)
LEMMA EventsInLedger ==
  ASSUME TypeOK, \/ Upgrade \/ UpgradeTracker \/ Deactivate \/ TrialPeriodEnds
                 \/ NextMonth \/ UNCHANGED vars
  PROVE  [Ledger!Next]_Ledger!vars
<1>1. UNCHANGED tableVars \/ Inserts
  BY OtherShape
<1>2. \A f \in Fields : Total(count', f) = Total(count, f)
  BY <1>1, InsertedTotals DEF tableVars
<1>3. Refused' = Refused
  BY DEF Upgrade, UpgradeTracker, Deactivate, TrialPeriodEnds, NextMonth, vars, Refused
<1>4. CASE Upgrade
  <2>1. LedgerPlan' = "Pro"
    BY <1>4 DEF Upgrade, LedgerPlan, InTrial, TypeOK, EnvOK
  <2>2. Ledger!GoPro
    BY <1>2, <1>3, <2>1 DEF Ledger!GoPro, LedgerPlan, Fields
  <2>. QED
    BY <2>2 DEF Ledger!Next
<1>5. CASE UpgradeTracker \/ Deactivate \/ TrialPeriodEnds \/ NextMonth \/ UNCHANGED vars
  <2>1. LedgerPlan' = LedgerPlan
    BY <1>5 DEF UpgradeTracker, Deactivate, TrialPeriodEnds, NextMonth, vars, envVars,
       LedgerPlan, InTrial, TypeOK, EnvOK
  <2>. QED
    BY <1>2, <1>3, <2>1, LedgerStutter
<1>. QED
  BY <1>4, <1>5

(* With one worker process, handling requests implements the ledger: each  *)
(* submission is admitted, given back or refused once, against the exact   *)
(* counts (submission/views.py, accountmanagement/models.py), although the *)
(* check and the count are many queries and saves apart.                   *)
THEOREM OneWorkerImplementsLedger ==
  ASSUME Workers = 1
  PROVE  Spec => ImplementsLedger
<1>1. Init => Ledger!Init
  <2>. SUFFICES ASSUME Init
                PROVE  Ledger!Init
    OBVIOUS
  <2>1. \A f \in Fields : Total(count, f) = 0
    BY InitialTotals
  <2>2. Refused = {} /\ InTrial(org)
    BY DEF Init, Refused, InTrial
  <2>. QED
    BY <2>1, <2>2, FS_EmptySet DEF Ledger!Init, Fields
<1>2. ASSUME TypeOK, Alone, CopiesCurrent, Serial, [Next]_vars
      PROVE  [Ledger!Next]_Ledger!vars
  <2>1. ASSUME NEW r \in Requests, Step(r) \/ Abort(r)
        PROVE  [Ledger!Next]_Ledger!vars
    BY <1>2, <2>1, SaveIsEntry, RefusalIsEntry, OtherStepsStutter DEF Step
  <2>2. CASE \/ Upgrade \/ UpgradeTracker \/ Deactivate \/ TrialPeriodEnds
             \/ NextMonth \/ UNCHANGED vars
    BY <1>2, <2>2, EventsInLedger
  <2>. QED
    BY <1>2, <2>1, <2>2 DEF Next, Finished
<1>. QED
  BY <1>1, <1>2, TypeInvariant, SerialInvariant, PTL DEF Spec, ImplementsLedger, Ledger!Spec

(* With one worker process a Basic account never exceeds its allowance:    *)
(* this is the ledger's promise carried over by the refinement, the        *)
(* counters being exact.  (With two, run quota_allowance refutes it.)      *)
THEOREM OneWorkerKeepsAllowance ==
  ASSUME Workers = 1
  PROVE  Spec => []BasicAllowance
<1>1. Spec => []Ledger!WithinAllowance
  <2>1. MsgLimit \in Nat /\ SubLimit \in Nat
    BY QuotaAssumption
  <2>2. Ledger!Spec => []Ledger!WithinAllowance
    BY <2>1, Ledger!LedgerKeepsAllowance
  <2>. QED
    BY <2>2, OneWorkerImplementsLedger DEF ImplementsLedger
<1>2. TypeOK /\ CountersExact /\ Ledger!WithinAllowance => BasicAllowance
  <2>. SUFFICES ASSUME TypeOK, CountersExact, Ledger!WithinAllowance, InTrial(org)
                PROVE  Total(applied, "incoming_sms_count") <= MsgLimit /\ Net(applied) <= SubLimit
    BY DEF BasicAllowance
  <2>1. count = applied
    BY DEF CountersExact
  <2>2. Sms <= MsgLimit /\ Sms + LedgerOther - Back <= SubLimit
    BY DEF Ledger!WithinAllowance, Ledger!Net, Sms, LedgerOther, Back
  <2>3. Net(count) = Sms + LedgerOther - Back
    BY TotalsAreNumbers DEF LedgerOther
  <2>. QED
    BY <2>1, <2>2, <2>3 DEF Sms
<1>. QED
  BY <1>1, <1>2, TypeInvariant, OneWorkerCountsExactly, PTL

-----------------------------------------------------------------------------
(***************************************************************************)
(* Who is refused at the submission limit has made the submissions.  A     *)
(* registration still to be given back lowers the count again, so what     *)
(* stays above the limit is the count without the SMS that are ahead.      *)
(***************************************************************************)

Settled == Net(applied) - Cardinality(Ahead)

RefusedAtSettled == \A r \in Requests : result[r] = "subLimit" => Settled >= SubLimit

(* What is settled never falls.                                            *)
LEMMA SettledNeverFalls ==
  ASSUME TypeOK, TypeOK', Columns, [Next]_vars
  PROVE  Settled \in Int /\ Settled' \in Int /\ Settled <= Settled'
<1>1. \A f \in Fields : /\ Total(applied, f) \in Nat /\ Total(applied', f) \in Nat
                        /\ Total(applied, f) <= Total(applied', f)
  BY UnitsFinite, AppliedNeverFalls DEF TypeOK, TableOK
<1>2. Cardinality(Ahead) \in Nat /\ Cardinality(Ahead') \in Nat
  <2>1. Ahead \in SUBSET Requests /\ Ahead' \in SUBSET Requests
    BY DEF Ahead
  <2>. QED
    BY <2>1, QuotaAssumption, FS_Subset, FS_CardinalityType
<1>3. AppliedSms \in Nat /\ AppliedBack \in Nat /\ AppliedSms' \in Nat /\ AppliedBack' \in Nat
  BY <1>1 DEF AppliedSms, AppliedBack, Fields
<1>4. Cardinality(Ahead') - Cardinality(Ahead)
        <= (AppliedSms' - AppliedSms) - (AppliedBack' - AppliedBack)
  <2>1. ASSUME NEW r \in Requests, Step(r) \/ Abort(r)
        PROVE  Cardinality(Ahead') - Cardinality(Ahead)
                 <= (AppliedSms' - AppliedSms) - (AppliedBack' - AppliedBack)
    <3> DEFINE S == StoredBy({"sms"})
    <3>1. /\ S \in Nat /\ S' \in Nat /\ S <= S'
          /\ S' - S + Cardinality(Ahead') - Cardinality(Ahead)
               <= (AppliedSms' - AppliedSms) - (AppliedBack' - AppliedBack)
      BY <2>1, LedgerOfStep
    <3> HIDE DEF S
    <3>. QED
      BY <1>2, <1>3, <3>1
  <2>2. CASE \/ Upgrade \/ UpgradeTracker \/ Deactivate \/ TrialPeriodEnds
             \/ NextMonth \/ UNCHANGED vars
    <3>1. Ahead' = Ahead /\ AppliedSms' = AppliedSms /\ AppliedBack' = AppliedBack
      BY <2>2, LedgerOfOthers DEF AppliedSms, AppliedBack, Fields
    <3>. QED
      BY <1>2, <1>3, <3>1
  <2>. QED
    BY <2>1, <2>2 DEF Next, Finished
<1> DEFINE Sp  == Total(applied, "incoming_sp_count")
           Web == Total(applied, "incoming_web_count")
<1>5. Sp \in Nat /\ Web \in Nat /\ Sp' \in Nat /\ Web' \in Nat /\ Sp <= Sp' /\ Web <= Web'
  BY <1>1 DEF Fields
<1>6. Settled = AppliedSms + Sp + Web - AppliedBack - Cardinality(Ahead)
  BY <1>2, <1>3, <1>5 DEF Settled, Net, Incoming, AppliedSms, AppliedBack
<1>7. Settled' = AppliedSms' + Sp' + Web' - AppliedBack' - Cardinality(Ahead')
  BY <1>2, <1>3, <1>5 DEF Settled, Net, Incoming, AppliedSms, AppliedBack
<1> HIDE DEF Sp, Web
<1>. QED
  BY <1>2, <1>3, <1>4, <1>5, <1>6, <1>7

(* Only SubLimitCheck refuses at the submission limit.                     *)
LEMMA SubmissionRefusals ==
  ASSUME TypeOK, [Next]_vars, NEW q \in Requests, result'[q] = "subLimit"
  PROVE  result[q] = "subLimit" \/ (SubLimitCheck(q) /\ SeenNet(q) >= SubLimit)
<1>1. ASSUME NEW r \in Requests, NEW label, NEW m, Continue(r, label, m)
      PROVE  result[q] = "subLimit"
  BY <1>1 DEF Continue
<1>2. ASSUME NEW r \in Requests, NEW how, how # "subLimit" \/ q # r, Finish(r, how)
      PROVE  result[q] = "subLimit"
  BY <1>2 DEF Finish, TypeOK, RequestOK
<1>3. ASSUME NEW r \in Requests, Step(r) \/ Abort(r)
      PROVE  result[q] = "subLimit" \/ (SubLimitCheck(q) /\ SeenNet(q) >= SubLimit)
  <2>. USE <1>1, <1>2
  <2>1. CASE Arrive(r)
    BY <2>1 DEF Arrive, ArriveSms, ArriveOnline, ArriveReceipt
  <2>2. CASE MsgLimitCheck(r)
    BY <2>2 DEF MsgLimitCheck, Refuse
  <2>3. CASE SumIncoming(r) \/ NotifyOnImport(r) \/ Load(r) \/ Create(r)
    BY <2>3 DEF SumIncoming, NotifyOnImport, Load, Create, Continue
  <2>4. CASE SubLimitCheck(r)
    <3>1. CASE ~(SeenNet(r) >= SubLimit)
      BY <2>4, <3>1 DEF SubLimitCheck
    <3>2. CASE SeenNet(r) >= SubLimit /\ q # r
      BY <2>4, <3>2 DEF SubLimitCheck, Refuse
    <3>. QED
      BY <2>4, <3>1, <3>2
  <2>5. CASE Save(r) \/ SaveOutgoing(r)
    BY <2>5 DEF Save, SaveOutgoing
  <2>6. CASE NearSubmissionLimit(r) \/ NearSmsLimit(r) \/ ReachedSubmissionLimit(r)
    BY <2>6 DEF NearSubmissionLimit, NearSmsLimit, ReachedSubmissionLimit
  <2>7. CASE Accept(r)
    <3>1. \/ Continue(r, "reply", mem[r]) \/ Finish(r, "ok")
          \/ \E m : Continue(r, "load", m)
      BY <2>7 DEF Accept
    <3>. QED
      BY <3>1
  <2>8. CASE Reply(r) \/ Abort(r)
    BY <2>8 DEF Reply, Abort
  <2>. QED
    BY <1>3, <2>1, <2>2, <2>3, <2>4, <2>5, <2>6, <2>7, <2>8 DEF Step
<1>4. CASE \/ Upgrade \/ UpgradeTracker \/ Deactivate \/ TrialPeriodEnds
           \/ NextMonth \/ UNCHANGED vars
  BY <1>4 DEF Upgrade, UpgradeTracker, Deactivate, TrialPeriodEnds, NextMonth, vars
<1>. QED
  BY <1>3, <1>4 DEF Next, Finished

(* With one worker process, who is told that the free submissions are used *)
(* up has used them up: nothing is counted or given back between the two   *)
(* queries of the check, and no SMS is ahead of it.                        *)
THEOREM OneWorkerRefusesJustly ==
  ASSUME Workers = 1
  PROVE  Spec => []SubmissionRefusalJustified
<1>1. Init => Columns /\ RefusedAtSettled
  BY DEF Init, Columns, ColumnAt, Counting, RefusedAtSettled
<1>2. ASSUME TypeOK, TypeOK', Alone, Serial, count = applied, Columns, RefusedAtSettled,
             [Next]_vars
      PROVE  Columns' /\ RefusedAtSettled'
  <2>1. Columns'
    BY <1>2, ColumnsStep
  <2>2. ASSUME NEW q \in Requests, result'[q] = "subLimit"
        PROVE  Settled' >= SubLimit
    <3>1. SubLimit \in Nat
      BY QuotaAssumption
    <3>2. Settled \in Int /\ Settled' \in Int /\ Settled <= Settled'
      BY <1>2, SettledNeverFalls
    <3>3. ASSUME SubLimitCheck(q), SeenNet(q) >= SubLimit
          PROVE  Settled >= SubLimit
      <4>1. q \in Busy /\ pc[q] = "subReg" /\ SerialAt(q)
        BY <1>2, <3>3 DEF SubLimitCheck, Busy, Serial
      <4>2. SeenNet(q) = Net(applied)
        BY <1>2, <4>1 DEF SerialAt, SeenNet, Net
      <4>3. Ahead = {}
        BY <1>2, <4>1 DEF Alone, Busy, Ahead, Counted, Counting
      <4>4. Settled = Net(applied) - 0
        BY <4>3, FS_EmptySet DEF Settled
      <4>5. Net(applied) \in Int
        BY <1>2, TotalsAreNumbers
      <4>. QED
        BY <3>3, <4>2, <4>4, <4>5
    <3>4. Settled >= SubLimit
      BY <1>2, <2>2, <3>3, SubmissionRefusals DEF RefusedAtSettled
    <3>. QED
      BY <3>1, <3>2, <3>4
  <2>. QED
    BY <2>1, <2>2 DEF RefusedAtSettled
<1>3. TypeOK /\ RefusedAtSettled => SubmissionRefusalJustified
  <2>. SUFFICES ASSUME TypeOK, Settled >= SubLimit
                PROVE  Net(applied) >= SubLimit
    BY DEF RefusedAtSettled, SubmissionRefusalJustified
  <2>1. Cardinality(Ahead) \in Nat
    BY QuotaAssumption, FS_Subset, FS_CardinalityType DEF Ahead
  <2>2. Net(applied) \in Int
    BY UnitsFinite DEF TypeOK, TableOK, Net, Incoming, Fields
  <2>3. SubLimit \in Nat
    BY QuotaAssumption
  <2>. QED
    BY <2>1, <2>2, <2>3 DEF Settled
<1>. QED
  BY <1>1, <1>2, <1>3, TypeInvariant, SerialInvariant, ExactInvariant, PTL DEF Spec
=============================================================================
