-------------------------- MODULE DataSenderProofs --------------------------
(***************************************************************************)
(* Proofs about the stores that repeat what others say: TrialNumbers, for  *)
(* any organizations, numbers and requests, DataSenderIndex, for any       *)
(* workers, projects and data senders, and SearchIndex, for any workers,   *)
(* responses, entities and formats.                                        *)
(***************************************************************************)
EXTENDS TrialNumbers, DataSenderIndex, SearchIndex, TLAPS

Holds(o, s, n)  == s \in DOMAIN data_senders[o] /\ data_senders[o][s] = n
Has(o, n)       == \E s \in DOMAIN data_senders[o] : data_senders[o][s] = n
LedOf(o, n)     == in_trial_mode[o] /\ Has(o, n) => LeadsTo(n, o)
Led(n)          == \A o \in Organizations : LedOf(o, n)
OthersLed(n, o) == \A p \in Organizations \ {o} : LedOf(p, n)
NoOther(n, o)   == n \in DOMAIN trial_rows => trial_rows[n] = o

(* What holds of a number while a request, at each of its steps, is at     *)
(* work on it and no other one is.                                         *)
JobInv(j, n) ==
  /\ j.at \in {"create", "create_sender", "edit", "import", "upgrade", "delete_rows"} => Led(n)
  /\ j.at \in {"create", "create_sender", "edit", "former_row"} /\ j.trial => NoOther(n, j.org)
  /\ j.at = "create_sender" /\ j.trial /\ in_trial_mode[j.org] => LeadsTo(n, j.org)
  /\ j.at = "edit" /\ n \in j.former => \A s : Holds(j.org, s, n) => s \in DOMAIN j.sheet
  /\ j.at \in {"former_row", "rows"} => OthersLed(n, j.org)
  /\ j.at = "former_row" /\ n \notin Range(j.sheet) => ~Has(j.org, n)
  /\ j.at = "rows" /\ n \notin Range(j.sheet) => Led(n)
  /\ j.at = "delete_rows" /\ j.trial
       => \A o \in Organizations : in_trial_mode[o] => ~Has(o, n)

Steps == {"create", "create_sender", "edit", "former_row", "import", "rows", "delete_rows",
          "upgrade"}
IsJob(j) ==
  /\ j = [at |-> j.at, org |-> j.org, trial |-> j.trial, sheet |-> j.sheet, former |-> j.former]
  /\ j.trial \in BOOLEAN
  /\ j = NoWork \/ (j.at \in Steps /\ j.org \in Organizations)
  /\ j.at \in Steps /\ in_trial_mode[j.org] => j.trial
  /\ j.at = "former_row" => j.trial
  /\ j.at = "upgrade" => ~in_trial_mode[j.org]
  /\ j.at \in {"create", "create_sender"} => j.former = {}

Shape ==
  /\ in_trial_mode \in [Organizations -> BOOLEAN]
  /\ data_senders = [o \in Organizations |-> data_senders[o]]
  /\ \A o \in Organizations : IsInjective(data_senders[o])
  /\ request = [r \in Requests |-> request[r]]
  /\ \A r \in Requests : IsJob(request[r])

(* A number that is not contested is handled by one request, or led.       *)
HandledSafely ==
  \A r \in Requests : \A n \in Handled(request[r]) \ contested :
    JobInv(request[r], n) /\ \A q \in Requests \ {r} : n \notin Handled(request[q])
RestLed ==
  \A n : n \notin contested /\ (\A r \in Requests : n \notin Handled(request[r])) => Led(n)
NumbersInv == Shape /\ HandledSafely /\ RestLed

(* A step that leaves the number n alone: it adds no data sender with n,   *)
(* no account to the trial mode and no row of n, and deletes the row of n  *)
(* only for an organization that is not in trial.                          *)
LeavesAlone(n) ==
  /\ \A o \in Organizations : in_trial_mode'[o] => in_trial_mode[o]
  /\ \A o \in Organizations : \A s : Holds(o, s, n)' => Holds(o, s, n)
  /\ \A o \in Organizations : in_trial_mode'[o] /\ LeadsTo(n, o) => LeadsTo(n, o)'
  /\ \A o : NoOther(n, o) => NoOther(n, o)'

LEMMA AloneIsLed ==
  ASSUME NEW n, LeavesAlone(n), NEW o \in Organizations, LedOf(o, n)
  PROVE  LedOf(o, n)'
<1>1. Has(o, n)' => Has(o, n)
  BY DEF LeavesAlone, Holds, Has
<1>2. in_trial_mode'[o] => in_trial_mode[o]
  BY DEF LeavesAlone
<1>3. in_trial_mode'[o] /\ LeadsTo(n, o) => LeadsTo(n, o)'
  BY DEF LeavesAlone
<1>. QED
  BY <1>1, <1>2, <1>3 DEF LedOf

LEMMA AloneKeeps ==
  ASSUME NEW n, LeavesAlone(n), NEW j, IsJob(j), JobInv(j, n), j.at \in Steps
  PROVE  JobInv(j, n)'
<1>1. j.org \in Organizations
  BY DEF IsJob, NoWork, Steps
<1>2. Led(n) => Led(n)'
  BY AloneIsLed DEF Led
<1>3. OthersLed(n, j.org) => OthersLed(n, j.org)'
  BY AloneIsLed DEF OthersLed
<1>4. NoOther(n, j.org) => NoOther(n, j.org)'
  BY DEF LeavesAlone
<1>5. in_trial_mode'[j.org] /\ LeadsTo(n, j.org) => LeadsTo(n, j.org)'
  BY <1>1 DEF LeavesAlone
<1>6. \A o \in Organizations : (in_trial_mode'[o] => in_trial_mode[o]) /\ (Has(o, n)' => Has(o, n))
  BY DEF LeavesAlone, Holds, Has
<1>7. \A s : Holds(j.org, s, n)' => Holds(j.org, s, n)
  BY <1>1 DEF LeavesAlone
<1>. QED
  BY <1>1, <1>2, <1>3, <1>4, <1>5, <1>6, <1>7 DEF JobInv

(* What a step that makes the work j of a request the work k has to see   *)
(* to.                                                                     *)
StepSafe(j, k) ==
  \A n : n \notin contested' =>
    /\ n \notin Handled(j) \cup Handled(k) => LeavesAlone(n)
    /\ n \in Handled(k) =>
         /\ JobInv(k, n)'
         /\ n \in Handled(j) \/ \A q \in Requests : n \notin Handled(request[q])
    /\ n \in Handled(j) \ Handled(k) => Led(n)'

(* What it leaves of the stores.                                           *)
StoresKept ==
  /\ in_trial_mode' \in [Organizations -> BOOLEAN]
  /\ \A o \in Organizations : in_trial_mode'[o] => in_trial_mode[o]
  /\ data_senders' = [o \in Organizations |-> data_senders'[o]]
  /\ \A o \in Organizations : IsInjective(data_senders'[o])
  /\ contested \subseteq contested'

LEMMA NothingHandled == Handled(NoWork) = {}
BY DEF Handled, NoWork, None, Range

LEMMA OneStep ==
  ASSUME NumbersInv, NEW r \in Requests, NEW j, NEW k,
         j = request[r], request' = [request EXCEPT ![r] = k],
         StoresKept, IsJob(k)', StepSafe(j, k)
  PROVE  NumbersInv'
<1>1. request'[r] = k /\ \A q \in Requests \ {r} : request'[q] = request[q]
  BY DEF NumbersInv, Shape
<1>2. Shape'
  <2>1. request' = [q \in Requests |-> request'[q]]
    BY DEF NumbersInv, Shape
  <2>2. ASSUME NEW q \in Requests
        PROVE  IsJob(request[q])'
    <3>1. CASE q = r
      BY <1>1, <3>1
    <3>2. CASE q # r
      <4>1. PICK i : i = request[q] /\ i = request'[q]
        BY <1>1, <3>2
      <4>2. IsJob(i)
        BY <4>1 DEF NumbersInv, Shape
      <4>3. i.at \in Steps => i.org \in Organizations
        BY <4>2 DEF IsJob, NoWork, Steps
      <4>4. i.at = "upgrade" => i.at \in Steps
        BY DEF Steps
      <4>5. IsJob(i)'
        BY <4>2, <4>3, <4>4 DEF IsJob, StoresKept
      <4>. QED
        BY <4>1, <4>5
    <3>. QED
      BY <3>1, <3>2
  <2>. QED
    BY <2>1, <2>2 DEF Shape, StoresKept
<1>3. ASSUME NEW q \in Requests, NEW n \in Handled(request'[q]) \ contested', q # r
      PROVE  /\ JobInv(request[q], n)'
             /\ \A u \in Requests \ {q} : n \notin Handled(request'[u])
  <2>1. PICK i : i = request[q] /\ i = request'[q]
    BY <1>1, <1>3
  <2>2. n \in Handled(i) \ contested
    BY <1>3, <2>1 DEF StoresKept
  <2>3. JobInv(i, n) /\ \A u \in Requests \ {q} : n \notin Handled(request[u])
    BY <2>1, <2>2 DEF NumbersInv, HandledSafely
  <2>4. n \notin Handled(j) \cup Handled(k)
    BY <1>3, <2>1, <2>2, <2>3 DEF StepSafe
  <2>5. LeavesAlone(n)
    BY <2>4 DEF StepSafe
  <2>6. IsJob(i) /\ i.at \in Steps
    <3>1. IsJob(i)
      BY <2>1 DEF NumbersInv, Shape
    <3>. QED
      BY <2>2, <3>1, NothingHandled DEF IsJob
  <2>7. JobInv(i, n)'
    BY <2>3, <2>5, <2>6, AloneKeeps
  <2>8. JobInv(request[q], n)'
    BY <2>1, <2>7
  <2>. QED
    BY <1>1, <2>3, <2>4, <2>8
<1>4. ASSUME NEW n \in Handled(request'[r]) \ contested'
      PROVE  /\ JobInv(request[r], n)'
             /\ \A u \in Requests \ {r} : n \notin Handled(request'[u])
  <2>1. n \in Handled(k) \ contested'
    BY <1>1
  <2>2. /\ JobInv(k, n)'
        /\ n \in Handled(j) \/ \A q \in Requests : n \notin Handled(request[q])
    BY <2>1 DEF StepSafe
  <2>3. n \in Handled(j) => \A u \in Requests \ {r} : n \notin Handled(request[u])
    BY DEF NumbersInv, HandledSafely, StoresKept
  <2>4. JobInv(request[r], n)'
    BY <1>1, <2>2
  <2>. QED
    BY <1>1, <2>2, <2>3, <2>4
<1>5. ASSUME NEW n, n \notin contested', \A q \in Requests : n \notin Handled(request'[q])
      PROVE  Led(n)'
  <2>1. CASE n \in Handled(j)
    BY <1>1, <1>5, <2>1 DEF StepSafe
  <2>2. CASE n \notin Handled(j)
    <3>1. LeavesAlone(n)
      BY <1>1, <1>5, <2>2 DEF StepSafe
    <3>2. Led(n)
      BY <1>1, <1>5, <2>2 DEF NumbersInv, RestLed, StoresKept
    <3>. QED
      BY <3>1, <3>2, AloneIsLed DEF Led
  <2>. QED
    BY <2>1, <2>2
<1>6. HandledSafely'
  BY <1>3, <1>4 DEF HandledSafely
<1>7. RestLed'
  BY <1>5 DEF RestLed
<1>. QED
  BY <1>2, <1>6, <1>7 DEF NumbersInv

LEMMA Work ==
  ASSUME NumbersInv, NEW r \in Requests, NEW j, j = request[r]
  PROVE  /\ IsJob(j)
         /\ j.at \in Steps => j.org \in Organizations
         /\ \A n \in Handled(j) \ contested : JobInv(j, n)
BY DEF NumbersInv, Shape, HandledSafely, IsJob, NoWork, Steps

LEMMA IdleIsJob == IsJob(NoWork)'
BY DEF IsJob, NoWork, Steps, None

LEMMA SameStores ==
  ASSUME NumbersInv, UNCHANGED <<in_trial_mode, data_senders>>, contested \subseteq contested'
  PROVE  StoresKept
BY DEF NumbersInv, Shape, StoresKept

(* A step that writes neither a mode nor a data sender leaves a number     *)
(* alone when it leaves its row.                                           *)
LEMMA SameRow ==
  ASSUME UNCHANGED <<in_trial_mode, data_senders>>, NEW n,
         \A o : LeadsTo(n, o)' <=> LeadsTo(n, o),
         n \in DOMAIN trial_rows <=> n \in DOMAIN trial_rows',
         n \in DOMAIN trial_rows => trial_rows'[n] = trial_rows[n]
  PROVE  LeavesAlone(n)
BY DEF LeavesAlone, Holds, NoOther

LEMMA Unchanged ==
  ASSUME UNCHANGED <<in_trial_mode, data_senders, trial_rows>>, NEW n
  PROVE  LeavesAlone(n) /\ (Led(n)' <=> Led(n))
BY DEF LeavesAlone, Holds, NoOther, LeadsTo, Led, LedOf, Has

(* A request that begins works on numbers that were led to whoever has     *)
(* them, and that no other one is at work on.                              *)
LEMMA Begins ==
  ASSUME NumbersInv, NEW r \in Requests, NEW o \in Organizations, NEW step \in Steps, NEW sheet,
         NEW former, Handle(r, o, step, sheet, former)
  PROVE  \E k :
    /\ k = [at |-> step, org |-> o, trial |-> in_trial_mode[o], sheet |-> sheet, former |-> former]
    /\ request' = [request EXCEPT ![r] = k]
    /\ request[r] = NoWork
    /\ contested \subseteq contested'
    /\ Handled(k) = Range(sheet) \cup former
    /\ \A n \in Handled(k) \ contested' :
         Led(n) /\ \A q \in Requests : n \notin Handled(request[q])
<1>1. PICK k :
        k = [at |-> step, org |-> o, trial |-> in_trial_mode[o], sheet |-> sheet, former |-> former]
  OBVIOUS
<1>2. /\ request' = [request EXCEPT ![r] = k]
      /\ request[r] = NoWork
      /\ contested' = contested \cup (Handled(k) \cap UNION {Handled(request[q]) : q \in Requests})
  BY <1>1 DEF Handle
<1>3. Handled(k) = Range(sheet) \cup former
  BY <1>1 DEF Handled
<1>4. \A n \in Handled(k) \ contested' : \A q \in Requests : n \notin Handled(request[q])
  BY <1>2
<1>5. \A n \in Handled(k) \ contested' : Led(n)
  BY <1>2, <1>4 DEF NumbersInv, RestLed
<1>. QED
  BY <1>1, <1>2, <1>3, <1>4, <1>5

LEMMA BeginningIsJob ==
  ASSUME NumbersInv, NEW o \in Organizations, NEW step \in Steps \ {"former_row"}, NEW sheet,
         NEW former, NEW k,
         k = [at |-> step, org |-> o, trial |-> in_trial_mode[o], sheet |-> sheet, former |-> former],
         in_trial_mode'[o] => in_trial_mode[o],
         step = "upgrade" => ~in_trial_mode'[o],
         step \in {"create", "create_sender"} => former = {}
  PROVE  IsJob(k)'
BY DEF NumbersInv, Shape, IsJob

LEMMA FreeIsOwn ==
  ASSUME NEW o \in Organizations, NEW n, NumberFree(o, n), in_trial_mode[o]
  PROVE  NoOther(n, o)
BY DEF NumberFree, NoOther

LEMMA PostCreateKeeps ==
  ASSUME NumbersInv, NEW r \in Requests, PostCreate(r)
  PROVE  NumbersInv'
<1>1. PICK o, n, s, sheet, former :
        /\ o \in Organizations
        /\ sheet = [x \in {s} |-> n] /\ former = {}
        /\ NumberFree(o, n)
        /\ Handle(r, o, "create", sheet, former)
        /\ UNCHANGED <<in_trial_mode, data_senders, trial_rows>>
  BY DEF PostCreate
<1>2. PICK k :
    /\ k = [at |-> "create", org |-> o, trial |-> in_trial_mode[o], sheet |-> sheet,
            former |-> former]
    /\ request' = [request EXCEPT ![r] = k]
    /\ request[r] = NoWork
    /\ contested \subseteq contested'
    /\ Handled(k) = Range(sheet) \cup former
    /\ \A m \in Handled(k) \ contested' :
         Led(m) /\ \A q \in Requests : m \notin Handled(request[q])
  <2>1. o \in Organizations /\ Handle(r, o, "create", sheet, former)
    BY <1>1
  <2>2. "create" \in Steps
    BY DEF Steps
  <2>. QED
    BY <2>1, <2>2, Begins
<1>3. Handled(k) = {n}
  BY <1>1, <1>2 DEF Range
<1>4. StoresKept
  BY <1>1, <1>2, SameStores
<1>5. IsJob(k)'
  BY <1>1, <1>2, BeginningIsJob DEF Steps
<1>6. \A m \in Handled(k) \ contested' : JobInv(k, m)'
  <2>1. SUFFICES n \notin contested' => JobInv(k, n)'
    BY <1>3
  <2>2. n \notin contested' => Led(n)'
    BY <1>1, <1>2, <1>3, Unchanged
  <2>3. in_trial_mode[o] => NoOther(n, o)'
    BY <1>1, FreeIsOwn DEF NoOther
  <2>. QED
    BY <1>2, <2>2, <2>3 DEF JobInv
<1>7. StepSafe(NoWork, k)
  BY <1>1, <1>2, <1>6, NothingHandled, Unchanged DEF StepSafe
<1>. QED
  BY <1>2, <1>4, <1>5, <1>7, OneStep

LEMMA PostEditKeeps ==
  ASSUME NumbersInv, NEW r \in Requests, PostEdit(r)
  PROVE  NumbersInv'
<1>1. PICK o, n, s, sheet, f :
        /\ o \in Organizations
        /\ s \in DOMAIN data_senders[o]
        /\ sheet = [x \in {s} |-> n]
        /\ f = data_senders[o][s]
        /\ NumberFree(o, n)
        /\ Handle(r, o, "edit", sheet, {f})
        /\ UNCHANGED <<in_trial_mode, data_senders, trial_rows>>
  BY DEF PostEdit
<1>2. IsInjective(data_senders[o])
  BY <1>1 DEF NumbersInv, Shape
<1>3. PICK k :
    /\ k = [at |-> "edit", org |-> o, trial |-> in_trial_mode[o], sheet |-> sheet,
            former |-> {f}]
    /\ request' = [request EXCEPT ![r] = k]
    /\ request[r] = NoWork
    /\ contested \subseteq contested'
    /\ Handled(k) = Range(sheet) \cup {f}
    /\ \A m \in Handled(k) \ contested' :
         Led(m) /\ \A q \in Requests : m \notin Handled(request[q])
  BY <1>1, Begins DEF Steps
<1>4. Handled(k) = {n, f}
  BY <1>1, <1>3 DEF Range
<1>5. StoresKept
  BY <1>1, <1>3, SameStores
<1>6. IsJob(k)'
  BY <1>1, <1>3, BeginningIsJob DEF Steps
<1>7. ASSUME NEW m \in Handled(k) \ contested'
      PROVE  JobInv(k, m)'
  <2>1. Led(m) /\ Led(m)'
    BY <1>1, <1>3, Unchanged
  <2>2. in_trial_mode[o] => NoOther(m, o)
    <3>1. CASE m = n
      BY <1>1, <3>1, FreeIsOwn
    <3>2. CASE m = f
      BY <1>1, <1>2, <2>1, <3>2 DEF Led, LedOf, Has, LeadsTo, NoOther
    <3>. QED
      BY <1>4, <3>1, <3>2
  <2>3. in_trial_mode[o] => NoOther(m, o)'
    BY <1>1, <2>2 DEF NoOther
  <2>4. m = f => \A x : Holds(o, x, m)' => x \in DOMAIN sheet
    BY <1>1, <1>2 DEF IsInjective, Holds
  <2>. QED
    BY <1>3, <2>1, <2>3, <2>4 DEF JobInv
<1>8. StepSafe(NoWork, k)
  BY <1>1, <1>3, <1>7, NothingHandled, Unchanged DEF StepSafe
<1>. QED
  BY <1>3, <1>5, <1>6, <1>8, OneStep

LEMMA PostImportKeeps ==
  ASSUME NumbersInv, NEW r \in Requests, PostImport(r)
  PROVE  NumbersInv'
<1>1. PICK o, sheet :
        /\ o \in Organizations
        /\ Handle(r, o, "import", sheet, {})
        /\ UNCHANGED <<in_trial_mode, data_senders, trial_rows>>
  BY DEF PostImport
<1>2. PICK k :
    /\ k = [at |-> "import", org |-> o, trial |-> in_trial_mode[o], sheet |-> sheet, former |-> {}]
    /\ request' = [request EXCEPT ![r] = k]
    /\ request[r] = NoWork
    /\ contested \subseteq contested'
    /\ \A m \in Handled(k) \ contested' :
         Led(m) /\ \A q \in Requests : m \notin Handled(request[q])
  BY <1>1, Begins DEF Steps
<1>3. StoresKept
  BY <1>1, <1>2, SameStores
<1>4. IsJob(k)'
  BY <1>1, <1>2, BeginningIsJob DEF Steps
<1>5. ASSUME NEW m \in Handled(k) \ contested'
      PROVE  JobInv(k, m)'
  BY <1>1, <1>2, Unchanged DEF JobInv
<1>6. StepSafe(NoWork, k)
  BY <1>1, <1>2, <1>5, NothingHandled, Unchanged DEF StepSafe
<1>. QED
  BY <1>2, <1>3, <1>4, <1>6, OneStep

(* A request goes on with the same work, or ends.                          *)
LEMMA GoesOn ==
  ASSUME NumbersInv, NEW r \in Requests, NEW j, j = request[r], NEW step \in Steps, Goes(r, step),
         j.at \in Steps
  PROVE  \E k :
    /\ k = [at |-> step, org |-> j.org, trial |-> j.trial, sheet |-> j.sheet, former |-> j.former]
    /\ request' = [request EXCEPT ![r] = k]
    /\ Handled(k) = Handled(j)
<1>1. IsJob(j)
  BY Work
<1>2. j = [at |-> j.at, org |-> j.org, trial |-> j.trial, sheet |-> j.sheet, former |-> j.former]
  BY <1>1 DEF IsJob
<1>3. PICK k :
       k = [at |-> step, org |-> j.org, trial |-> j.trial, sheet |-> j.sheet, former |-> j.former]
  OBVIOUS
<1>4. [j EXCEPT !.at = step] = k
  BY <1>2, <1>3
<1>5. request' = [request EXCEPT ![r] = [j EXCEPT !.at = step]]
  BY DEF Goes, Steps
<1>6. Handled(k) = Handled(j)
  BY <1>3 DEF Handled
<1>. QED
  BY <1>3, <1>4, <1>5, <1>6

LEMMA Ends ==
  ASSUME NEW r \in Requests, Goes(r, "end")
  PROVE  request' = [request EXCEPT ![r] = NoWork]
BY DEF Goes

(* A request may end where each of its numbers is led to its organizations,*)
(* and contests the others.                                                *)
LEMMA EndsSafely ==
  ASSUME NumbersInv, NEW r \in Requests, NEW j, j = request[r],
         request' = [request EXCEPT ![r] = NoWork], StoresKept,
         \A n : n \notin Handled(j) => LeavesAlone(n),
         \A n \in Handled(j) \ contested' : Led(n)'
  PROVE  NumbersInv'
<1>1. StepSafe(j, NoWork)
  BY NothingHandled DEF StepSafe
<1>. QED
  BY <1>1, IdleIsJob, OneStep

(* In the trial mode a number with a data sender has the row it needs.     *)
LEMMA NooneElse ==
  ASSUME NEW o, NEW n, Led(n), NoOther(n, o)
  PROVE  \A p \in Organizations \ {o} : in_trial_mode[p] => ~Has(p, n)
BY DEF Led, LedOf, LeadsTo, NoOther

LEMMA CreateRowKeeps ==
  ASSUME NumbersInv, NEW r \in Requests, CreateRow(r)
  PROVE  NumbersInv'
<1>1. PICK j : j = request[r]
  OBVIOUS
<1>2. /\ j.at = "create" /\ j.at \in Steps
      /\ trial_rows' = IF j.trial THEN Over(trial_rows, [n \in Range(j.sheet) |-> j.org])
                       ELSE trial_rows
      /\ Goes(r, "create_sender") /\ "create_sender" \in Steps
      /\ UNCHANGED <<in_trial_mode, data_senders, contested>>
  BY <1>1 DEF CreateRow, Steps
<1>3. PICK k :
    /\ k = [at |-> "create_sender", org |-> j.org, trial |-> j.trial, sheet |-> j.sheet,
            former |-> j.former]
    /\ request' = [request EXCEPT ![r] = k]
    /\ Handled(k) = Handled(j)
  BY <1>1, <1>2, GoesOn
<1>4. IsJob(j) /\ j.org \in Organizations /\ j.former = {}
  BY <1>1, <1>2, Work DEF IsJob
<1>5. Handled(j) = Range(j.sheet)
  BY <1>4 DEF Handled
<1>6. StoresKept
  BY <1>2, SameStores
<1>7. IsJob(k)'
  BY <1>2, <1>3, <1>4 DEF IsJob, Steps, NoWork
<1>8. ASSUME NEW n, n \notin Handled(j)
      PROVE  LeavesAlone(n)
  BY <1>2, <1>5, <1>8, SameRow DEF Over, LeadsTo
<1>9. ASSUME NEW n \in Handled(j) \ contested
      PROVE  JobInv(k, n)'
  <2>1. Led(n) /\ (j.trial => NoOther(n, j.org))
    BY <1>1, <1>2, Work DEF JobInv
  <2>2. j.trial => LeadsTo(n, j.org)' /\ NoOther(n, j.org)'
    BY <1>2, <1>5, <1>9 DEF Over, LeadsTo, NoOther
  <2>3. Led(n)'
    <3>1. CASE j.trial
      BY <1>2, <2>1, <2>2, <3>1, NooneElse DEF Led, LedOf, Has
    <3>2. CASE ~j.trial
      BY <1>2, <2>1, <3>2 DEF Led, LedOf, Has, LeadsTo
    <3>. QED
      BY <3>1, <3>2
  <2>. QED
    BY <1>3, <2>2, <2>3 DEF JobInv
<1>10. StepSafe(j, k)
  BY <1>2, <1>3, <1>8, <1>9 DEF StepSafe
<1>. QED
  BY <1>1, <1>3, <1>6, <1>7, <1>10, OneStep

(* A sheet that is acceptable keeps the numbers of an organization apart.  *)
LEMMA StoreKeeps ==
  ASSUME NumbersInv, NEW o \in Organizations, NEW sheet, Acceptable(o, sheet), Store(o, sheet),
         UNCHANGED in_trial_mode, contested \subseteq contested'
  PROVE  /\ StoresKept
         /\ \A p \in Organizations \ {o} : data_senders'[p] = data_senders[p]
         /\ \A s, n : Holds(o, s, n)' <=>
              IF s \in DOMAIN sheet THEN sheet[s] = n ELSE Holds(o, s, n)
         /\ \A n : n \notin Range(sheet) /\ Has(o, n)' => Has(o, n)
<1>1. data_senders'[o] = Over(data_senders[o], sheet)
  BY DEF Store, NumbersInv, Shape
<1>2. \A p \in Organizations \ {o} : data_senders'[p] = data_senders[p]
  BY DEF Store, NumbersInv, Shape
<1>3. \A s, n : Holds(o, s, n)' <=> IF s \in DOMAIN sheet THEN sheet[s] = n ELSE Holds(o, s, n)
  BY <1>1 DEF Holds, Over
<1>4. \A n : n \notin Range(sheet) /\ Has(o, n)' => Has(o, n)
  BY <1>3 DEF Has, Holds, Range
<1>5. IsInjective(data_senders'[o])
  <2>1. SUFFICES ASSUME NEW a \in DOMAIN data_senders'[o], NEW b \in DOMAIN data_senders'[o],
                        data_senders'[o][a] = data_senders'[o][b]
                 PROVE  a = b
    BY DEF IsInjective
  <2>2. CASE a \in DOMAIN sheet /\ b \in DOMAIN sheet
    BY <1>1, <2>1, <2>2 DEF Over, Acceptable, IsInjective
  <2>3. CASE a \notin DOMAIN sheet /\ b \notin DOMAIN sheet
    BY <1>1, <2>1, <2>3 DEF Over, NumbersInv, Shape, IsInjective
  <2>4. CASE a \in DOMAIN sheet /\ b \notin DOMAIN sheet
    BY <1>1, <2>1, <2>4 DEF Over, Acceptable, Range
  <2>5. CASE a \notin DOMAIN sheet /\ b \in DOMAIN sheet
    BY <1>1, <2>1, <2>5 DEF Over, Acceptable, Range
  <2>. QED
    BY <2>2, <2>3, <2>4, <2>5
<1>6. data_senders' = [p \in Organizations |-> data_senders'[p]]
  BY DEF Store, NumbersInv, Shape
<1>7. \A p \in Organizations : IsInjective(data_senders'[p])
  BY <1>2, <1>5 DEF NumbersInv, Shape
<1>8. StoresKept
  BY <1>6, <1>7 DEF StoresKept, NumbersInv, Shape
<1>. QED
  BY <1>2, <1>3, <1>4, <1>8

LEMMA StoreLeaves ==
  ASSUME NumbersInv, NEW o \in Organizations, NEW sheet, Acceptable(o, sheet), Store(o, sheet),
         UNCHANGED <<in_trial_mode, trial_rows>>, contested \subseteq contested', NEW n
  PROVE  /\ n \notin Range(sheet) => LeavesAlone(n)
         /\ OthersLed(n, o) => OthersLed(n, o)'
<1>1. /\ \A p \in Organizations \ {o} : data_senders'[p] = data_senders[p]
      /\ \A s : Holds(o, s, n)' <=> IF s \in DOMAIN sheet THEN sheet[s] = n ELSE Holds(o, s, n)
  BY StoreKeeps
<1>2. ASSUME n \notin Range(sheet), NEW p \in Organizations, NEW s, Holds(p, s, n)'
      PROVE  Holds(p, s, n)
  BY <1>1, <1>2 DEF Holds, Range
<1>3. n \notin Range(sheet) => LeavesAlone(n)
  BY <1>2 DEF LeavesAlone, LeadsTo, NoOther
<1>4. OthersLed(n, o) => OthersLed(n, o)'
  BY <1>1 DEF OthersLed, LedOf, Has, LeadsTo
<1>. QED
  BY <1>3, <1>4

LEMMA CreateSenderKeeps ==
  ASSUME NumbersInv, NEW r \in Requests, CreateSender(r)
  PROVE  NumbersInv'
<1>1. PICK j : j = request[r]
  OBVIOUS
<1>2. /\ j.at = "create_sender" /\ j.at \in Steps
      /\ \/ UNCHANGED data_senders
         \/ Acceptable(j.org, j.sheet) /\ Store(j.org, j.sheet)
      /\ request' = [request EXCEPT ![r] = NoWork]
      /\ UNCHANGED <<in_trial_mode, trial_rows, contested>>
  BY <1>1, Ends DEF CreateSender, Steps
<1>3. IsJob(j) /\ j.org \in Organizations /\ j.former = {}
  BY <1>1, <1>2, Work DEF IsJob
<1>4. Handled(j) = Range(j.sheet)
  BY <1>3 DEF Handled
<1>5. CASE UNCHANGED data_senders
  <2>1. StoresKept
    BY <1>2, <1>5, SameStores
  <2>2. \A n \in Handled(j) \ contested' : Led(n)'
    BY <1>1, <1>2, <1>5, Work, Unchanged DEF JobInv
  <2>. QED
    BY <1>1, <1>2, <1>5, <2>1, <2>2, Unchanged, EndsSafely
<1>6. CASE Acceptable(j.org, j.sheet) /\ Store(j.org, j.sheet)
  <2>1. StoresKept
    BY <1>2, <1>3, <1>6, StoreKeeps
  <2>2. \A n : n \notin Handled(j) => LeavesAlone(n)
    BY <1>2, <1>3, <1>4, <1>6, StoreLeaves
  <2>3. ASSUME NEW n \in Handled(j) \ contested'
        PROVE  Led(n)'
    <3>1. Led(n) /\ (in_trial_mode[j.org] => LeadsTo(n, j.org))
      BY <1>1, <1>2, <1>3, Work DEF JobInv, IsJob
    <3>2. OthersLed(n, j.org)'
      BY <1>2, <1>3, <1>6, <3>1, StoreLeaves DEF OthersLed, Led
    <3>3. LedOf(j.org, n)'
      BY <1>2, <3>1 DEF LedOf, LeadsTo
    <3>. QED
      BY <3>2, <3>3 DEF Led, OthersLed
  <2>. QED
    BY <1>1, <1>2, <2>1, <2>2, <2>3, EndsSafely
<1>. QED
  BY <1>2, <1>5, <1>6

LEMMA EditSenderKeeps ==
  ASSUME NumbersInv, NEW r \in Requests, EditSender(r)
  PROVE  NumbersInv'
<1>1. PICK j : j = request[r]
  OBVIOUS
<1>2. /\ j.at = "edit" /\ j.at \in Steps
      /\ \/ UNCHANGED data_senders /\ Goes(r, "end")
         \/ /\ Acceptable(j.org, j.sheet) /\ Store(j.org, j.sheet)
            /\ Goes(r, IF j.trial THEN "former_row" ELSE "end")
      /\ UNCHANGED <<in_trial_mode, trial_rows, contested>>
  BY <1>1 DEF EditSender, Steps
<1>3. IsJob(j) /\ j.org \in Organizations
  BY <1>1, <1>2, Work
<1>4. CASE UNCHANGED data_senders /\ Goes(r, "end")
  <2>1. StoresKept
    BY <1>2, <1>4, SameStores
  <2>2. \A n \in Handled(j) \ contested' : Led(n)'
    BY <1>1, <1>2, <1>4, Work, Unchanged DEF JobInv
  <2>. QED
    BY <1>1, <1>2, <1>4, <2>1, <2>2, Unchanged, Ends, EndsSafely
<1>5. CASE Acceptable(j.org, j.sheet) /\ Store(j.org, j.sheet) /\ Goes(r, "end") /\ ~j.trial
  <2>1. StoresKept
    BY <1>2, <1>3, <1>5, StoreKeeps
  <2>2. \A n : n \notin Handled(j) => LeavesAlone(n)
    BY <1>2, <1>3, <1>5, StoreLeaves DEF Handled
  <2>3. ASSUME NEW n \in Handled(j) \ contested'
        PROVE  Led(n)'
    <3>1. Led(n) /\ ~in_trial_mode'[j.org]
      BY <1>1, <1>2, <1>3, <1>5, Work DEF JobInv, IsJob
    <3>2. OthersLed(n, j.org)'
      BY <1>2, <1>3, <1>5, <3>1, StoreLeaves DEF OthersLed, Led
    <3>. QED
      BY <3>1, <3>2 DEF Led, OthersLed, LedOf
  <2>. QED
    BY <1>1, <1>2, <1>5, <2>1, <2>2, <2>3, Ends, EndsSafely
<1>6. CASE Acceptable(j.org, j.sheet) /\ Store(j.org, j.sheet) /\ Goes(r, "former_row") /\ j.trial
  <2>1. PICK k :
      /\ k = [at |-> "former_row", org |-> j.org, trial |-> j.trial, sheet |-> j.sheet,
              former |-> j.former]
      /\ request' = [request EXCEPT ![r] = k]
      /\ Handled(k) = Handled(j)
    <3>1. "former_row" \in Steps
      BY DEF Steps
    <3>. QED
      BY <1>1, <1>2, <1>6, <3>1, GoesOn
  <2>2. StoresKept
    BY <1>2, <1>3, <1>6, StoreKeeps
  <2>3. IsJob(k)'
    BY <1>2, <1>3, <1>6, <2>1 DEF IsJob, Steps, NoWork
  <2>4. \A n : n \notin Handled(j) => LeavesAlone(n)
    BY <1>2, <1>3, <1>6, StoreLeaves DEF Handled
  <2>5. ASSUME NEW n \in Handled(j) \ contested
        PROVE  JobInv(k, n)'
    <3>1. /\ Led(n) /\ NoOther(n, j.org)
          /\ n \in j.former => \A s : Holds(j.org, s, n) => s \in DOMAIN j.sheet
      BY <1>1, <1>2, <1>6, Work DEF JobInv
    <3>2. OthersLed(n, j.org)'
      BY <1>2, <1>3, <1>6, <3>1, StoreLeaves DEF OthersLed, Led
    <3>3. NoOther(n, j.org)'
      BY <1>2, <3>1 DEF NoOther
    <3>4. n \notin Range(j.sheet) => ~Has(j.org, n)'
      <4>1. n \notin Range(j.sheet) => n \in j.former
        BY DEF Handled
      <4>2. \A s : Holds(j.org, s, n)' <=>
              IF s \in DOMAIN j.sheet THEN j.sheet[s] = n ELSE Holds(j.org, s, n)
        BY <1>2, <1>3, <1>6, StoreKeeps
      <4>. QED
        BY <3>1, <4>1, <4>2 DEF Has, Holds, Range
    <3>. QED
      BY <2>1, <3>2, <3>3, <3>4 DEF JobInv
  <2>6. StepSafe(j, k)
    BY <1>2, <2>1, <2>4, <2>5 DEF StepSafe
  <2>. QED
    BY <1>1, <2>1, <2>2, <2>3, <2>6, OneStep
<1>7. j.trial \in BOOLEAN
  BY <1>3 DEF IsJob
<1>. QED
  BY <1>2, <1>4, <1>5, <1>6, <1>7

LEMMA EditRowKeeps ==
  ASSUME NumbersInv, NEW r \in Requests, EditRow(r)
  PROVE  NumbersInv'
<1>1. PICK j : j = request[r]
  OBVIOUS
<1>2. /\ j.at = "former_row" /\ j.at \in Steps
      /\ trial_rows' = Minus(trial_rows, j.former)
      /\ Goes(r, "rows") /\ "rows" \in Steps
      /\ UNCHANGED <<in_trial_mode, data_senders, contested>>
  BY <1>1 DEF EditRow, Steps
<1>3. IsJob(j) /\ j.org \in Organizations /\ j.trial
  BY <1>1, <1>2, Work DEF IsJob
<1>4. PICK k :
    /\ k = [at |-> "rows", org |-> j.org, trial |-> j.trial, sheet |-> j.sheet,
            former |-> j.former]
    /\ request' = [request EXCEPT ![r] = k]
    /\ Handled(k) = Handled(j)
  BY <1>1, <1>2, GoesOn
<1>5. StoresKept
  BY <1>2, SameStores
<1>6. IsJob(k)'
  BY <1>2, <1>3, <1>4 DEF IsJob, Steps, NoWork
<1>7. ASSUME NEW n, n \notin j.former
      PROVE  LeavesAlone(n)
  BY <1>2, <1>7, SameRow DEF Minus, LeadsTo
<1>8. ASSUME NEW n \in Handled(j) \ contested
      PROVE  JobInv(k, n)'
  <2>1. /\ OthersLed(n, j.org) /\ NoOther(n, j.org)
        /\ n \notin Range(j.sheet) => ~Has(j.org, n)
    BY <1>1, <1>2, <1>3, Work DEF JobInv
  <2>2. \A p \in Organizations \ {j.org} : in_trial_mode[p] => ~Has(p, n)
    BY <2>1 DEF OthersLed, LedOf, LeadsTo, NoOther
  <2>3. \A p : Has(p, n)' <=> Has(p, n)
    BY <1>2 DEF Has
  <2>4. OthersLed(n, j.org)'
    BY <1>2, <2>2, <2>3 DEF OthersLed, LedOf
  <2>5. n \notin Range(j.sheet) => Led(n)'
    BY <1>2, <2>1, <2>2, <2>3 DEF Led, LedOf
  <2>. QED
    BY <1>4, <2>4, <2>5 DEF JobInv
<1>9. StepSafe(j, k)
  BY <1>2, <1>4, <1>7, <1>8 DEF StepSafe, Handled
<1>. QED
  BY <1>1, <1>4, <1>5, <1>6, <1>9, OneStep

LEMMA ImportSendersKeeps ==
  ASSUME NumbersInv, NEW r \in Requests, ImportSenders(r)
  PROVE  NumbersInv'
<1>1. PICK j : j = request[r]
  OBVIOUS
<1>2. j.at = "import" /\ j.at \in Steps
  BY <1>1 DEF ImportSenders, Steps
<1>3. PICK S, sheet, k :
    /\ S \subseteq DOMAIN j.sheet
    /\ sheet = [s \in S |-> j.sheet[s]]
    /\ Acceptable(j.org, sheet) /\ Store(j.org, sheet)
    /\ request' = [request EXCEPT ![r] = k]
    /\ k = IF in_trial_mode[j.org] /\ S # {} THEN [j EXCEPT !.at = "rows", !.sheet = sheet]
           ELSE NoWork
    /\ UNCHANGED <<in_trial_mode, trial_rows, contested>>
  BY <1>1 DEF ImportSenders
<1>4. IsJob(j) /\ j.org \in Organizations
  BY <1>1, <1>2, Work
<1>5. Range(sheet) \subseteq Range(j.sheet)
  BY <1>3 DEF Range
<1>6. StoresKept
  BY <1>3, <1>4, StoreKeeps
<1>7. \A n : n \notin Range(sheet) => LeavesAlone(n)
  BY <1>3, <1>4, StoreLeaves
<1>8. \A n \in Handled(j) \ contested' : Led(n)
  BY <1>1, <1>2, <1>3, Work DEF JobInv
<1>9. \A n \in Handled(j) \ contested' : OthersLed(n, j.org)'
  BY <1>3, <1>4, <1>8, StoreLeaves DEF Led, OthersLed
<1>10. \A n \in Handled(j) \ contested' : n \notin Range(sheet) => Led(n)'
  BY <1>7, <1>8, AloneIsLed DEF Led
<1>11. CASE in_trial_mode[j.org] /\ S # {}
  <2>1. k = [at |-> "rows", org |-> j.org, trial |-> j.trial, sheet |-> sheet,
             former |-> j.former]
    BY <1>3, <1>4, <1>11 DEF IsJob
  <2>2. Handled(k) \subseteq Handled(j) /\ Range(sheet) \subseteq Handled(k)
    BY <1>5, <2>1 DEF Handled
  <2>3. IsJob(k)'
    <3>1. j.trial \in BOOLEAN /\ (in_trial_mode'[j.org] => j.trial)
      BY <1>2, <1>3, <1>4 DEF IsJob
    <3>2. k.at = "rows" /\ k.org = j.org /\ k.trial = j.trial /\ k.sheet = sheet
          /\ k.former = j.former
      BY <2>1
    <3>. QED
      BY <1>4, <2>1, <3>1, <3>2 DEF IsJob, Steps
  <2>4. \A n \in Handled(k) \ contested' : JobInv(k, n)'
    BY <1>9, <1>10, <2>1, <2>2 DEF JobInv
  <2>5. StepSafe(j, k)
    BY <1>7, <1>10, <2>2, <2>4 DEF StepSafe
  <2>. QED
    BY <1>1, <1>3, <1>6, <2>3, <2>5, OneStep
<1>12. CASE ~(in_trial_mode[j.org] /\ S # {})
  <2>1. k = NoWork
    BY <1>3, <1>12
  <2>2. \A n : n \notin Handled(j) => LeavesAlone(n)
    BY <1>5, <1>7 DEF Handled
  <2>3. ASSUME NEW n \in Handled(j) \ contested'
        PROVE  Led(n)'
    <3>1. CASE S = {}
      BY <1>3, <1>10, <3>1 DEF Range
    <3>2. CASE ~in_trial_mode[j.org]
      BY <1>3, <1>9, <3>2 DEF Led, OthersLed, LedOf
    <3>. QED
      BY <1>12, <3>1, <3>2
  <2>. QED
    BY <1>1, <1>3, <1>6, <2>1, <2>2, <2>3, EndsSafely
<1>. QED
  BY <1>11, <1>12

LEMMA AddRowKeeps ==
  ASSUME NumbersInv, NEW r \in Requests, AddRow(r)
  PROVE  NumbersInv'
<1>1. PICK j : j = request[r]
  OBVIOUS
<1>2. j.at = "rows" /\ j.at \in Steps
  BY <1>1 DEF AddRow, Steps
<1>3. PICK s, n, left, k :
    /\ s \in DOMAIN j.sheet
    /\ n = j.sheet[s] /\ left = Minus(j.sheet, {s})
    /\ trial_rows' = Over(trial_rows, [x \in {n} |-> j.org])
    /\ request' = [request EXCEPT ![r] = k]
    /\ k = IF left = None THEN NoWork ELSE [j EXCEPT !.sheet = left]
    /\ contested' = IF n \in DOMAIN trial_rows /\ trial_rows[n] # j.org
                    THEN contested \cup {n} ELSE contested
    /\ UNCHANGED <<in_trial_mode, data_senders>>
  <2>1. PICK s \in DOMAIN j.sheet :
          LET n == j.sheet[s]  left == Minus(j.sheet, {s})
          IN /\ trial_rows' = Over(trial_rows, [x \in {n} |-> j.org])
             /\ request' = [request EXCEPT ![r] = IF left = None THEN NoWork
                                                  ELSE [j EXCEPT !.sheet = left]]
             /\ contested' = IF n \in DOMAIN trial_rows /\ trial_rows[n] # j.org
                             THEN contested \cup {n} ELSE contested
             /\ UNCHANGED <<in_trial_mode, data_senders>>
    BY <1>1 DEF AddRow
  <2>. QED
    BY <2>1
<1>4. IsJob(j) /\ j.org \in Organizations
  BY <1>1, <1>2, Work
<1>5. contested \subseteq contested'
  BY <1>3
<1>6. StoresKept
  BY <1>3, <1>5, SameStores
<1>7. n \in Handled(j)
  BY <1>3 DEF Handled, Range
<1>8. \A x : x # n => LeavesAlone(x)
  BY <1>3, SameRow DEF Over, LeadsTo
<1>9. \A x \in Handled(j) \ contested' :
        OthersLed(x, j.org) /\ (x \notin Range(j.sheet) => Led(x))
  BY <1>1, <1>2, <1>5, Work DEF JobInv
<1>10. n \notin contested' => Led(n)'
  <2>1. SUFFICES ASSUME n \notin contested'
                 PROVE  Led(n)'
    OBVIOUS
  <2>2. NoOther(n, j.org)
    BY <1>3, <2>1 DEF NoOther
  <2>3. \A p \in Organizations \ {j.org} : in_trial_mode[p] => ~Has(p, n)
    BY <1>7, <1>9, <2>1, <2>2 DEF OthersLed, LedOf, LeadsTo, NoOther
  <2>4. LeadsTo(n, j.org)'
    BY <1>3 DEF LeadsTo, Over
  <2>5. \A p : Has(p, n)' <=> Has(p, n)
    BY <1>3 DEF Has
  <2>. QED
    BY <1>3, <2>3, <2>4, <2>5 DEF Led, LedOf
<1>11. \A x \in Handled(j) \ contested' : OthersLed(x, j.org)'
  <2>1. ASSUME NEW x \in Handled(j) \ contested', x # n
        PROVE  OthersLed(x, j.org)'
    BY <1>8, <1>9, <2>1, AloneIsLed DEF OthersLed
  <2>. QED
    BY <1>10, <2>1 DEF Led, OthersLed
<1>12. \A x \in Range(j.sheet) : x = n \/ x \in Range(left)
  BY <1>3 DEF Range, Minus
<1>13. \A x \in Handled(j) \ contested' : x \notin Range(left) => Led(x)'
  <2>1. ASSUME NEW x \in Handled(j) \ contested', x \notin Range(left), x # n
        PROVE  Led(x)'
    BY <1>8, <1>9, <1>12, <2>1, AloneIsLed DEF Led
  <2>. QED
    BY <1>10, <2>1
<1>14. CASE left = None
  <2>1. k = NoWork /\ Range(left) = {}
    BY <1>3, <1>14 DEF None, Range
  <2>. QED
    BY <1>1, <1>3, <1>6, <1>7, <1>8, <1>13, <2>1, EndsSafely
<1>15. CASE left # None
  <2>1. k = [at |-> "rows", org |-> j.org, trial |-> j.trial, sheet |-> left,
             former |-> j.former]
    BY <1>2, <1>3, <1>4, <1>15 DEF IsJob
  <2>2. Handled(k) \subseteq Handled(j) /\ Handled(j) \subseteq Handled(k) \cup {n}
    <3>1. Range(left) \subseteq Range(j.sheet)
      BY <1>3 DEF Range, Minus
    <3>2. Handled(k) = Range(left) \cup j.former
      BY <2>1 DEF Handled
    <3>. QED
      BY <1>12, <3>1, <3>2 DEF Handled
  <2>3. IsJob(k)'
    <3>1. j.trial \in BOOLEAN /\ (in_trial_mode'[j.org] => j.trial)
      BY <1>2, <1>3, <1>4 DEF IsJob
    <3>2. k.at = "rows" /\ k.org = j.org /\ k.trial = j.trial /\ k.sheet = left
          /\ k.former = j.former
      BY <2>1
    <3>. QED
      BY <1>4, <2>1, <3>1, <3>2 DEF IsJob, Steps
  <2>4. \A x \in Handled(k) \ contested' : JobInv(k, x)'
    BY <1>11, <1>13, <2>1, <2>2 DEF JobInv
  <2>5. StepSafe(j, k)
    BY <1>7, <1>8, <1>10, <2>2, <2>4 DEF StepSafe
  <2>. QED
    BY <1>1, <1>3, <1>6, <2>3, <2>5, OneStep
<1>. QED
  BY <1>14, <1>15

LEMMA DeleteSendersKeeps ==
  ASSUME NumbersInv, NEW r \in Requests, DeleteSenders(r)
  PROVE  NumbersInv'
<1>1. PICK o, S, former :
        /\ o \in Organizations
        /\ former = {data_senders[o][s] : s \in S}
        /\ S \subseteq DOMAIN data_senders[o]
        /\ Handle(r, o, "delete_rows", None, former)
        /\ data_senders' = [data_senders EXCEPT ![o] = Minus(@, S)]
        /\ UNCHANGED <<in_trial_mode, trial_rows>>
  BY DEF DeleteSenders
<1>2. PICK k :
    /\ k = [at |-> "delete_rows", org |-> o, trial |-> in_trial_mode[o], sheet |-> None,
            former |-> former]
    /\ request' = [request EXCEPT ![r] = k]
    /\ request[r] = NoWork
    /\ contested \subseteq contested'
    /\ Handled(k) = Range(None) \cup former
    /\ \A n \in Handled(k) \ contested' :
         Led(n) /\ \A q \in Requests : n \notin Handled(request[q])
  <2>1. "delete_rows" \in Steps
    BY DEF Steps
  <2>. QED
    BY <1>1, <2>1, Begins
<1>3. Handled(k) = former
  BY <1>2 DEF None, Range
<1>4. /\ data_senders'[o] = Minus(data_senders[o], S)
      /\ \A p \in Organizations \ {o} : data_senders'[p] = data_senders[p]
      /\ data_senders' = [p \in Organizations |-> data_senders'[p]]
  BY <1>1 DEF NumbersInv, Shape
<1>5. IsInjective(data_senders'[o])
  BY <1>1, <1>4 DEF NumbersInv, Shape, Minus, IsInjective
<1>6. StoresKept
  BY <1>1, <1>2, <1>4, <1>5 DEF StoresKept, NumbersInv, Shape
<1>7. IsJob(k)'
  BY <1>1, <1>2, BeginningIsJob DEF Steps
<1>8. \A p \in Organizations : \A s, n : Holds(p, s, n)' => Holds(p, s, n)
  BY <1>4 DEF Holds, Minus
<1>9. \A n : LeavesAlone(n)
  BY <1>1, <1>8 DEF LeavesAlone, LeadsTo, NoOther
<1>10. ASSUME NEW n \in Handled(k) \ contested'
       PROVE  JobInv(k, n)'
  <2>1. Led(n) /\ Led(n)'
    BY <1>2, <1>9, AloneIsLed DEF Led
  <2>2. Has(o, n) /\ ~Has(o, n)'
    BY <1>1, <1>3, <1>4 DEF Has, Minus, NumbersInv, Shape, IsInjective
  <2>3. ASSUME in_trial_mode[o], NEW p \in Organizations, in_trial_mode'[p], Has(p, n)'
        PROVE  FALSE
    <3>1. Has(p, n) /\ in_trial_mode[p]
      BY <1>1, <1>8, <2>3 DEF Has, Holds
    <3>2. LeadsTo(n, o) /\ LeadsTo(n, p)
      BY <1>1, <2>1, <2>2, <2>3, <3>1 DEF Led, LedOf
    <3>. QED
      BY <2>2, <2>3, <3>2 DEF LeadsTo
  <2>. QED
    BY <1>2, <2>1, <2>3 DEF JobInv
<1>11. StepSafe(NoWork, k)
  BY <1>2, <1>9, <1>10, NothingHandled DEF StepSafe
<1>. QED
  BY <1>2, <1>6, <1>7, <1>11, OneStep

LEMMA DeleteRowKeeps ==
  ASSUME NumbersInv, NEW r \in Requests, DeleteRow(r)
  PROVE  NumbersInv'
<1>1. PICK j : j = request[r]
  OBVIOUS
<1>2. /\ j.at = "delete_rows" /\ j.at \in Steps
      /\ UNCHANGED <<in_trial_mode, data_senders, contested>>
  BY <1>1 DEF DeleteRow, Steps
<1>3. IsJob(j) /\ j.org \in Organizations
  BY <1>1, <1>2, Work
<1>4. StoresKept
  BY <1>2, SameStores
<1>5. \A n \in Handled(j) \ contested' :
        /\ Led(n)
        /\ j.trial => \A o \in Organizations : in_trial_mode[o] => ~Has(o, n)
  BY <1>1, <1>2, Work DEF JobInv
<1>6. CASE Goes(r, "end") /\ UNCHANGED trial_rows
  BY <1>1, <1>2, <1>4, <1>5, <1>6, Unchanged, Ends, EndsSafely
<1>7. ASSUME NEW n \in j.former, NEW left, left = j.former \ {n}, j.trial,
             trial_rows' = Minus(trial_rows, {n}),
             request' = [request EXCEPT ![r] = IF left = {} THEN NoWork
                                               ELSE [j EXCEPT !.former = left]]
      PROVE  NumbersInv'
  <2>1. \A x : x # n => LeavesAlone(x)
    BY <1>2, <1>7, SameRow DEF Minus, LeadsTo
  <2>2. \A p, x : Has(p, x)' <=> Has(p, x)
    BY <1>2 DEF Has
  <2>3. \A x \in Handled(j) \ contested' :
          /\ Led(x)'
          /\ \A o \in Organizations : in_trial_mode'[o] => ~Has(o, x)'
    BY <1>2, <1>5, <1>7, <2>2 DEF Led, LedOf
  <2>4. n \in Handled(j)
    BY <1>7 DEF Handled
  <2>5. CASE left = {}
    BY <1>1, <1>4, <1>7, <2>1, <2>3, <2>4, <2>5, EndsSafely
  <2>6. CASE left # {}
    <3>1. PICK k : k = [at |-> "delete_rows", org |-> j.org, trial |-> j.trial,
                        sheet |-> j.sheet, former |-> left]
      OBVIOUS
    <3>2. request' = [request EXCEPT ![r] = k]
      <4>1. j = [at |-> "delete_rows", org |-> j.org, trial |-> j.trial, sheet |-> j.sheet,
                 former |-> j.former]
        BY <1>2, <1>3 DEF IsJob
      <4>2. [j EXCEPT !.former = left] = k
        BY <3>1, <4>1
      <4>. QED
        BY <1>7, <2>6, <4>2
    <3>3. Handled(k) \subseteq Handled(j) /\ Handled(j) \subseteq Handled(k) \cup {n}
      BY <1>7, <3>1 DEF Handled
    <3>4. IsJob(k)'
      BY <1>2, <1>3, <1>7, <3>1 DEF IsJob, Steps
    <3>5. \A x \in Handled(k) \ contested' : JobInv(k, x)'
      BY <2>3, <3>1, <3>3 DEF JobInv
    <3>6. StepSafe(j, k)
      BY <2>1, <2>3, <2>4, <3>3, <3>5 DEF StepSafe
    <3>. QED
      BY <1>1, <1>4, <3>2, <3>4, <3>6, OneStep
  <2>. QED
    BY <2>5, <2>6
<1>8. \/ Goes(r, "end") /\ UNCHANGED trial_rows
      \/ \E n \in j.former :
           /\ j.trial
           /\ trial_rows' = Minus(trial_rows, {n})
           /\ LET left == j.former \ {n}
              IN  request' = [request EXCEPT ![r] = IF left = {} THEN NoWork
                                                    ELSE [j EXCEPT !.former = left]]
  BY <1>1 DEF DeleteRow
<1>. QED
  BY <1>6, <1>7, <1>8

LEMMA UpgradeKeeps ==
  ASSUME NumbersInv, NEW r \in Requests, Upgrade(r)
  PROVE  NumbersInv'
<1>1. PICK o, former :
        /\ o \in Organizations
        /\ former = {} /\ in_trial_mode[o]
        /\ Handle(r, o, "upgrade", None, former)
        /\ in_trial_mode' = [in_trial_mode EXCEPT ![o] = FALSE]
        /\ UNCHANGED <<data_senders, trial_rows>>
  BY DEF Upgrade
<1>2. PICK k :
    /\ k = [at |-> "upgrade", org |-> o, trial |-> in_trial_mode[o], sheet |-> None,
            former |-> former]
    /\ request' = [request EXCEPT ![r] = k]
    /\ request[r] = NoWork
    /\ contested \subseteq contested'
    /\ Handled(k) = Range(None) \cup former
    /\ \A n \in Handled(k) \ contested' :
         Led(n) /\ \A q \in Requests : n \notin Handled(request[q])
  <2>1. "upgrade" \in Steps
    BY DEF Steps
  <2>. QED
    BY <1>1, <2>1, Begins
<1>3. Handled(k) = {}
  BY <1>1, <1>2 DEF None, Range
<1>4. ~in_trial_mode'[o] /\ \A p \in Organizations : in_trial_mode'[p] => in_trial_mode[p]
  BY <1>1 DEF NumbersInv, Shape
<1>5. StoresKept
  BY <1>1, <1>2, <1>4 DEF StoresKept, NumbersInv, Shape
<1>6. IsJob(k)'
  BY <1>1, <1>2, <1>4, BeginningIsJob DEF Steps
<1>7. \A n : LeavesAlone(n)
  BY <1>1, <1>4 DEF LeavesAlone, LeadsTo, NoOther, Holds
<1>8. StepSafe(NoWork, k)
  BY <1>3, <1>7, NothingHandled DEF StepSafe
<1>. QED
  BY <1>2, <1>5, <1>6, <1>8, OneStep

LEMMA UpgradeRowsKeeps ==
  ASSUME NumbersInv, NEW r \in Requests, UpgradeRows(r)
  PROVE  NumbersInv'
<1>1. PICK j : j = request[r]
  OBVIOUS
<1>2. /\ j.at = "upgrade" /\ j.at \in Steps
      /\ trial_rows' = Minus(trial_rows, {n \in DOMAIN trial_rows : trial_rows[n] = j.org})
      /\ UNCHANGED <<in_trial_mode, data_senders, contested>>
  BY <1>1 DEF UpgradeRows, Steps
<1>3. request' = [request EXCEPT ![r] = NoWork]
  BY Ends DEF UpgradeRows
<1>4. ~in_trial_mode[j.org]
  BY <1>1, <1>2, Work DEF IsJob
<1>5. \A n : LeavesAlone(n)
  BY <1>2, <1>4 DEF LeavesAlone, LeadsTo, NoOther, Holds, Minus
<1>6. \A n \in Handled(j) \ contested' : Led(n)'
  BY <1>1, <1>2, <1>5, Work, AloneIsLed DEF JobInv, Led
<1>7. StoresKept
  BY <1>2, SameStores
<1>. QED
  BY <1>1, <1>3, <1>5, <1>6, <1>7, EndsSafely

LEMMA RequestFailsKeeps ==
  ASSUME NumbersInv, NEW r \in Requests, RequestFails(r)
  PROVE  NumbersInv'
<1>1. PICK j : j = request[r]
  OBVIOUS
<1>2. /\ j # NoWork
      /\ contested' = IF j.at \in {"former_row", "rows"} THEN contested \cup Handled(j)
                      ELSE contested
      /\ UNCHANGED <<in_trial_mode, data_senders, trial_rows>>
  BY <1>1 DEF RequestFails
<1>3. request' = [request EXCEPT ![r] = NoWork]
  BY Ends DEF RequestFails
<1>4. j.at \in Steps
  BY <1>1, <1>2, Work DEF IsJob
<1>5. ASSUME NEW n \in Handled(j) \ contested'
      PROVE  Led(n)
  <2>1. n \notin contested /\ j.at \notin {"former_row", "rows"}
    BY <1>2, <1>5
  <2>2. JobInv(j, n)
    BY <1>1, <2>1, Work
  <2>. QED
    BY <1>4, <2>1, <2>2 DEF JobInv, Steps
<1>6. StoresKept
  BY <1>2, SameStores
<1>. QED
  BY <1>1, <1>2, <1>3, <1>5, <1>6, Unchanged, EndsSafely

-----------------------------------------------------------------------------
(* Whatever the requests of all organizations do, and wherever they fail,  *)
(* a number is led to its organization, or a request is at work on it that *)
(* still leads it there, or it was contested.                              *)
THEOREM NumbersInvariant == NumbersSpec => []NumbersInv
<1>1. NumbersInit => NumbersInv
  <2>. SUFFICES ASSUME NumbersInit
                PROVE  NumbersInv
    OBVIOUS
  <2>1. IsJob(NoWork)
    BY DEF IsJob, NoWork, Steps, None
  <2>2. IsInjective(None)
    BY DEF IsInjective, None
  <2>3. Shape
    BY <2>1, <2>2 DEF NumbersInit, Shape
  <2>4. HandledSafely
    BY NothingHandled DEF NumbersInit, HandledSafely
  <2>5. RestLed
    BY DEF NumbersInit, RestLed, Led, LedOf, Has, None
  <2>. QED
    BY <2>3, <2>4, <2>5 DEF NumbersInv
<1>2. NumbersInv /\ [NumbersNext]_numberVars => NumbersInv'
  <2>. SUFFICES ASSUME NumbersInv, [NumbersNext]_numberVars
                PROVE  NumbersInv'
    OBVIOUS
  <2>1. ASSUME NEW r \in Requests,
               \/ PostCreate(r) \/ CreateRow(r) \/ CreateSender(r)
               \/ PostEdit(r) \/ EditSender(r) \/ EditRow(r)
               \/ PostImport(r) \/ ImportSenders(r) \/ AddRow(r)
               \/ DeleteSenders(r) \/ DeleteRow(r)
               \/ Upgrade(r) \/ UpgradeRows(r) \/ RequestFails(r)
        PROVE  NumbersInv'
    BY <2>1, PostCreateKeeps, CreateRowKeeps, CreateSenderKeeps, PostEditKeeps, EditSenderKeeps,
       EditRowKeeps, PostImportKeeps, ImportSendersKeeps, AddRowKeeps, DeleteSendersKeeps,
       DeleteRowKeeps, UpgradeKeeps, UpgradeRowsKeeps, RequestFailsKeeps
  <2>2. CASE UNCHANGED numberVars
    BY <2>2 DEF numberVars, NumbersInv, Shape, HandledSafely, RestLed, JobInv, IsJob, Led, LedOf,
                Has, Holds, LeadsTo, OthersLed, NoOther
  <2>. QED
    BY <2>1, <2>2 DEF NumbersNext
<1>. QED
  BY <1>1, <1>2, PTL DEF NumbersSpec

(* The SMS of a data sender of a trial organization reaches it, when no    *)
(* request is at work on the number and it was never contested: for any    *)
(* number of organizations, numbers and requests at once.                  *)
THEOREM SmsAreDelivered == NumbersSpec => []SmsReachItsOrganization
<1>1. NumbersInv => SmsReachItsOrganization
  <2>. SUFFICES ASSUME NumbersInv, NEW o \in Organizations, in_trial_mode[o],
                       NEW s \in DOMAIN data_senders[o], data_senders[o][s] \notin contested,
                       \A r \in Requests : data_senders[o][s] \notin Handled(request[r])
                PROVE  LeadsTo(data_senders[o][s], o)
    BY DEF SmsReachItsOrganization
  <2>. QED
    BY DEF NumbersInv, RestLed, Led, LedOf, Has
<1>. QED
  BY <1>1, NumbersInvariant, PTL

-----------------------------------------------------------------------------
(* The rows of the data senders.                                           *)

ProjectDocs == [name : ProjectNames, members : SUBSET Reporters, void : BOOLEAN]
FoundNames  == {<<>>} \cup UNION {[{d} -> SUBSET ProjectNames] : d \in Reporters}

RowsTyped ==
  /\ project \in [ProjectIds -> ProjectDocs]
  /\ row \in [Reporters -> SUBSET ProjectNames]
  /\ writing \in [RowWriters -> [todo : SUBSET Reporters, found : FoundNames]]

(* Of the row of one data sender: it has one writer at most, what that one *)
(* found is still true, and without one the row is.                        *)
RowSound(d) ==
  /\ \A v, w \in RowWriters : WritesRow(v, d) /\ WritesRow(w, d) => v = w
  /\ \A w \in RowWriters : d \in DOMAIN writing[w].found => writing[w].found[d] = NamesOf(d)
  /\ (\A w \in RowWriters : ~WritesRow(w, d)) => row[d] = NamesOf(d)

RowsInv == RowsTyped /\ \A d \in Reporters \ doubtful : RowSound(d)

LEMMA NoFoundNames == DOMAIN Resting.found = {} /\ Resting.todo = {}
BY DEF Resting

LEMMA NamesTyped ==
  ASSUME RowsTyped, NEW d \in Reporters
  PROVE  NamesOf(d) \in SUBSET ProjectNames
BY DEF RowsTyped, ProjectDocs, NamesOf

(* A save of project p leaves the names of a data sender as they are, if   *)
(* he is not in it before or after, or in it both times under one name.    *)
LEMMA OthersKeepTheirNames ==
  ASSUME RowsTyped, NEW p \in ProjectIds, NEW d,
         \A q \in ProjectIds \ {p} : project'[q] = project[q],
         \/ d \notin project[p].members /\ d \notin project'[p].members
         \/ /\ (d \in project[p].members) <=> (d \in project'[p].members)
            /\ project'[p].name = project[p].name /\ project'[p].void = project[p].void
  PROVE  NamesOf(d)' = NamesOf(d)
<1>1. \A q \in ProjectIds :
        /\ (~project'[q].void /\ d \in project'[q].members)
             <=> (~project[q].void /\ d \in project[q].members)
        /\ ~project[q].void /\ d \in project[q].members => project'[q].name = project[q].name
  OBVIOUS
<1>. QED
  BY <1>1 DEF NamesOf

(* A step that rewrites rows keeps the invariant, if the names of the data *)
(* senders whose rows it does not write are as before.                     *)
LEMMA RewritesKeep ==
  ASSUME RowsInv, RowsTyped', NEW w \in RowWriters, NEW D \in SUBSET Reporters,
         writing[w] = Resting, Rewrites(w, D), UNCHANGED row,
         \A d \in Reporters \ D : NamesOf(d)' = NamesOf(d)
  PROVE  RowsInv'
<1>. SUFFICES ASSUME NEW d \in Reporters, d \notin doubtful' PROVE RowSound(d)'
  BY DEF RowsInv
<1>1. /\ \A v \in RowWriters \ {w} : writing'[v] = writing[v]
      /\ writing'[w].todo = D /\ writing'[w].found = <<>> /\ DOMAIN writing'[w].found = {}
  BY DEF Rewrites, RowsInv, RowsTyped, Resting
<1>2. /\ \A v \in RowWriters \ {w} : WritesRow(v, d)' <=> WritesRow(v, d)
      /\ WritesRow(w, d)' <=> d \in D
      /\ ~WritesRow(w, d)
  BY <1>1, NoFoundNames DEF WritesRow
<1>3. CASE d \in D
  <2>1. \A v \in RowWriters \ {w} : ~WritesRow(v, d)
    BY <1>3 DEF Rewrites
  <2>2. \A v \in RowWriters : d \notin DOMAIN writing'[v].found
    BY <2>1, <1>1, <1>2 DEF WritesRow
  <2>. QED
    BY <2>1, <2>2, <1>2, <1>3 DEF RowSound
<1>4. CASE d \notin D
  <2>1. d \notin doubtful
    BY <1>4 DEF Rewrites
  <2>2. RowSound(d)
    BY <2>1 DEF RowsInv
  <2>3. NamesOf(d)' = NamesOf(d)
    BY <1>4
  <2>. QED
    BY <2>2, <2>3, <1>1, <1>2, <1>4 DEF RowSound
<1>. QED
  BY <1>3, <1>4

LEMMA RowsInvariant == RowsSpec => []RowsInv
<1>1. RowsInit => RowsInv
  <2>. SUFFICES ASSUME RowsInit PROVE RowsInv
    OBVIOUS
  <2>1. RowsTyped
    BY DEF RowsInit, NewProjects, RowsTyped, ProjectDocs, Resting, FoundNames
  <2>2. ASSUME NEW d \in Reporters PROVE RowSound(d)
    <3>1. \A w \in RowWriters : ~WritesRow(w, d) /\ d \notin DOMAIN writing[w].found
      BY NoFoundNames DEF RowsInit, WritesRow
    <3>2. NamesOf(d) = {}
      BY DEF RowsInit, NewProjects, NamesOf
    <3>. QED
      BY <3>1, <3>2 DEF RowSound, RowsInit
  <2>. QED
    BY <2>1, <2>2 DEF RowsInv
<1>2. RowsInv /\ [RowsNext]_rowVars => RowsInv'
  <2>. SUFFICES ASSUME RowsInv, [RowsNext]_rowVars PROVE RowsInv'
    OBVIOUS
  <2>1. ASSUME NEW w \in RowWriters, Associate(w) PROVE RowsInv'
    <3>1. PICK p \in ProjectIds, d \in Reporters :
            /\ writing[w] = Resting
            /\ project' = [project EXCEPT ![p].members = @ \cup {d}]
            /\ Rewrites(w, {d}) /\ UNCHANGED row
      BY <2>1 DEF Associate
    <3>2. RowsTyped'
      BY <3>1 DEF RowsInv, RowsTyped, ProjectDocs, Rewrites, Resting
    <3>3. ASSUME NEW e \in Reporters \ {d} PROVE NamesOf(e)' = NamesOf(e)
      BY <3>1, <3>3, OthersKeepTheirNames DEF RowsInv, RowsTyped, ProjectDocs
    <3>. QED
      BY <3>1, <3>2, <3>3, RewritesKeep
  <2>2. ASSUME NEW w \in RowWriters, RemoveFromProject(w) PROVE RowsInv'
    <3>1. PICK p \in ProjectIds, d \in Reporters :
            /\ writing[w] = Resting
            /\ project' = [project EXCEPT ![p].members = @ \ {d}]
            /\ Rewrites(w, {d}) /\ UNCHANGED row
      BY <2>2 DEF RemoveFromProject, RowsAfterRemoval, RowsInv, RowsTyped, ProjectDocs
    <3>2. RowsTyped'
      BY <3>1 DEF RowsInv, RowsTyped, ProjectDocs, Rewrites, Resting
    <3>3. ASSUME NEW e \in Reporters \ {d} PROVE NamesOf(e)' = NamesOf(e)
      BY <3>1, <3>3, OthersKeepTheirNames DEF RowsInv, RowsTyped, ProjectDocs
    <3>. QED
      BY <3>1, <3>2, <3>3, RewritesKeep
  <2>3. ASSUME NEW w \in RowWriters, SaveProject(w) PROVE RowsInv'
    <3>1. PICK p \in ProjectIds, n \in ProjectNames, D \in SUBSET Reporters :
            /\ writing[w] = Resting
            /\ project' = [project EXCEPT ![p].name = n, ![p].members = @ \cup D]
            /\ Rewrites(w, project'[p].members) /\ UNCHANGED row
      BY <2>3 DEF SaveProject
    <3>2. /\ project' \in [ProjectIds -> ProjectDocs]
          /\ project'[p].members = project[p].members \cup D
          /\ \A q \in ProjectIds \ {p} : project'[q] = project[q]
      BY <3>1 DEF RowsInv, RowsTyped, ProjectDocs
    <3>3. project'[p].members \in SUBSET Reporters
      BY <3>2 DEF ProjectDocs
    <3>4. RowsTyped'
      BY <3>1, <3>2, <3>3 DEF RowsInv, RowsTyped, Rewrites, Resting
    <3>5. ASSUME NEW e \in Reporters \ project'[p].members PROVE NamesOf(e)' = NamesOf(e)
      BY <3>2, <3>5, OthersKeepTheirNames DEF RowsInv
    <3>. QED
      BY <3>1, <3>3, <3>4, <3>5, RewritesKeep
  <2>4. ASSUME NEW w \in RowWriters, EditDataSender(w) PROVE RowsInv'
    <3>1. PICK d \in Reporters :
            writing[w] = Resting /\ Rewrites(w, {d}) /\ UNCHANGED <<project, row>>
      BY <2>4 DEF EditDataSender
    <3>2. RowsTyped'
      BY <3>1 DEF RowsInv, RowsTyped, Rewrites, Resting
    <3>3. \A e \in Reporters : NamesOf(e)' = NamesOf(e)
      BY <3>1 DEF NamesOf
    <3>. QED
      BY <3>1, <3>2, <3>3, RewritesKeep
  <2>5. ASSUME SetVoid PROVE RowsInv'
    <3>1. PICK p \in ProjectIds :
            /\ project' = [project EXCEPT ![p].void = ~@]
            /\ doubtful' = doubtful \cup project[p].members
            /\ UNCHANGED <<row, writing>>
      BY <2>5 DEF SetVoid
    <3>2. /\ project' \in [ProjectIds -> ProjectDocs]
          /\ project'[p].members = project[p].members
          /\ \A q \in ProjectIds \ {p} : project'[q] = project[q]
      BY <3>1 DEF RowsInv, RowsTyped, ProjectDocs
    <3>3. ASSUME NEW d \in Reporters \ doubtful' PROVE RowSound(d)'
      <4>1. NamesOf(d)' = NamesOf(d)
        BY <3>1, <3>2, OthersKeepTheirNames DEF RowsInv
      <4>2. RowSound(d)
        BY <3>1 DEF RowsInv
      <4>. QED
        BY <3>1, <4>1, <4>2 DEF RowSound, WritesRow
    <3>. QED
      BY <3>1, <3>2, <3>3 DEF RowsInv, RowsTyped
  <2>6. ASSUME NEW w \in RowWriters, ReadNames(w) PROVE RowsInv'
    <3>1. PICK d \in writing[w].todo :
            /\ writing[w].found = <<>>
            /\ writing' = [writing EXCEPT ![w] = [todo |-> @.todo \ {d},
                                                  found |-> [x \in {d} |-> NamesOf(d)]]]
            /\ UNCHANGED <<project, row, doubtful>>
      BY <2>6 DEF ReadNames
    <3>2. d \in Reporters
      BY DEF RowsInv, RowsTyped
    <3>3. /\ writing'[w].todo = writing[w].todo \ {d}
          /\ writing'[w].found = [x \in {d} |-> NamesOf(d)]
          /\ \A v \in RowWriters \ {w} : writing'[v] = writing[v]
      BY <3>1 DEF RowsInv, RowsTyped
    <3>4. RowsTyped'
      <4>1. [x \in {d} |-> NamesOf(d)] \in FoundNames
        BY <3>2, NamesTyped DEF RowsInv, FoundNames
      <4>. QED
        BY <3>1, <4>1 DEF RowsInv, RowsTyped
    <3>5. \A v \in RowWriters, e \in Reporters : WritesRow(v, e)' <=> WritesRow(v, e)
      <4>1. DOMAIN writing[w].found = {}
        BY <3>1
      <4>. QED
        BY <4>1, <3>3, <3>1 DEF WritesRow
    <3>6. \A e \in Reporters : NamesOf(e)' = NamesOf(e)
      BY <3>1 DEF NamesOf
    <3>7. ASSUME NEW e \in Reporters \ doubtful' PROVE RowSound(e)'
      <4>1. RowSound(e)
        BY <3>1 DEF RowsInv
      <4>. QED
        BY <4>1, <3>1, <3>3, <3>5, <3>6 DEF RowSound
    <3>. QED
      BY <3>4, <3>7 DEF RowsInv
  <2>7. ASSUME NEW w \in RowWriters, WriteRow(w) PROVE RowsInv'
    <3>1. PICK d \in DOMAIN writing[w].found :
            /\ row' = [row EXCEPT ![d] = writing[w].found[d]]
            /\ writing' = [writing EXCEPT ![w].found = <<>>]
            /\ UNCHANGED <<project, doubtful>>
      BY <2>7 DEF WriteRow
    <3>2. writing[w].found \in FoundNames
      BY DEF RowsInv, RowsTyped
    <3>3. d \in Reporters /\ DOMAIN writing[w].found = {d} /\ writing[w].found[d] \in SUBSET ProjectNames
      <4>1. writing[w].found # <<>>
        OBVIOUS
      <4>2. PICK r \in Reporters : writing[w].found \in [{r} -> SUBSET ProjectNames]
        BY <3>2, <4>1 DEF FoundNames
      <4>. QED
        BY <4>2
    <3>4. /\ writing'[w].todo = writing[w].todo /\ DOMAIN writing'[w].found = {}
          /\ \A v \in RowWriters \ {w} : writing'[v] = writing[v]
      BY <3>1 DEF RowsInv, RowsTyped
    <3>5. RowsTyped'
      <4>1. row' \in [Reporters -> SUBSET ProjectNames] /\ project' \in [ProjectIds -> ProjectDocs]
        BY <3>1, <3>3 DEF RowsInv, RowsTyped
      <4>2. <<>> \in FoundNames
        BY DEF FoundNames
      <4>. QED
        BY <3>1, <4>1, <4>2 DEF RowsInv, RowsTyped
    <3>6. ASSUME NEW e \in Reporters \ doubtful' PROVE RowSound(e)'
      <4>1. RowSound(e) /\ NamesOf(e)' = NamesOf(e)
        BY <3>1 DEF RowsInv, NamesOf
      <4>2. \A v \in RowWriters : WritesRow(v, e)' => WritesRow(v, e)
        BY <3>4 DEF WritesRow
      <4>3. e # d => \A v \in RowWriters : WritesRow(v, e)' <=> WritesRow(v, e)
        BY <3>3, <3>4 DEF WritesRow
      <4>4. row'[e] = IF e = d THEN NamesOf(e) ELSE row[e]
        BY <3>1, <3>3, <4>1 DEF RowSound, RowsInv, RowsTyped
      <4>5. \A v \in RowWriters : e \in DOMAIN writing'[v].found =>
              e \in DOMAIN writing[v].found /\ writing'[v].found[e] = writing[v].found[e]
        BY <3>4
      <4>. QED
        BY <4>1, <4>2, <4>3, <4>4, <4>5 DEF RowSound
    <3>. QED
      BY <3>5, <3>6 DEF RowsInv
  <2>8. ASSUME NEW w \in RowWriters, RowWriterFails(w) PROVE RowsInv'
    <3>1. RowsTyped'
      BY <2>8 DEF RowWriterFails, RowsInv, RowsTyped, Resting, FoundNames
    <3>2. ASSUME NEW d \in Reporters \ doubtful' PROVE RowSound(d)'
      <4>1. RowSound(d) /\ NamesOf(d)' = NamesOf(d) /\ ~WritesRow(w, d)
        BY <2>8 DEF RowsInv, RowWriterFails, NamesOf
      <4>2. writing'[w] = Resting /\ \A v \in RowWriters \ {w} : writing'[v] = writing[v]
        BY <2>8 DEF RowWriterFails, RowsInv, RowsTyped
      <4>3. \A v \in RowWriters : WritesRow(v, d)' <=> WritesRow(v, d)
        BY <4>1, <4>2, NoFoundNames DEF WritesRow
      <4>. QED
        BY <2>8, <4>1, <4>2, <4>3, NoFoundNames DEF RowSound, RowWriterFails
    <3>. QED
      BY <3>1, <3>2 DEF RowsInv
  <2>9. CASE UNCHANGED rowVars
    BY <2>9 DEF rowVars, RowsInv, RowsTyped, RowSound, WritesRow, NamesOf
  <2>. QED
    BY <2>1, <2>2, <2>3, <2>4, <2>5, <2>6, <2>7, <2>8, <2>9 DEF RowsNext
<1>. QED
  BY <1>1, <1>2, PTL DEF RowsSpec

(* However many workers change and rename projects, a row that nobody is   *)
(* writing and nothing put in doubt names the projects of its data sender. *)
THEOREM RowsAlwaysNameTheProjects == RowsSpec => []RowsNameTheProjects
<1>1. RowsInv => RowsNameTheProjects
  BY DEF RowsInv, RowSound, RowsNameTheProjects
<1>. QED
  BY <1>1, RowsInvariant, PTL

-----------------------------------------------------------------------------
(***************************************************************************)
(* SearchIndex.  Every job has the shape of its op.                        *)
(***************************************************************************)
Texts   == UNION {Contents[r] : r \in Responses}
Copies  == [content : Texts, name : EntityNames, format : DateFormats]
Tables(V) == UNION {[R -> V] : R \in SUBSET Responses}
Tasks ==
  {Unoccupied} \cup [op : {"save"}, response : Responses, content : Texts]
    \cup [op : {"land"}, response : Responses, entry : Copies]
    \cup [op : {"search"}, entity : Entities, name : EntityNames]
    \cup [op : {"update"}, entity : Entities, name : EntityNames, found : SUBSET Responses]
    \cup [op : {"mapping"}, format : DateFormats] \cup [op : {"queue"}]
    \cup [op : {"populate"}, rows : Tables(Texts)]
    \cup [op : {"row"}, rows : Tables(Texts), response : Responses, entry : Copies]

CopiesShape ==
  /\ stored \in Tables(Texts) /\ index \in Tables(Copies)
  /\ entity_name \in [Entities -> EntityNames] /\ date_format \in DateFormats /\ mapped \in DateFormats
  /\ queued \in Nat
  /\ at \in [Workers -> Tasks]
  /\ \A w \in Workers : /\ at[w].op = "update" => \A r \in at[w].found : About[r] = at[w].entity
                        /\ at[w].op = "row" => at[w].response \in DOMAIN at[w].rows

(* All copies are to be written again: a job will throw them away, a task  *)
(* will be queued, or is.                                                  *)
Recreating ==
  \/ queued > 0
  \/ \E w \in Workers : at[w].op = "queue" \/ (at[w].op = "mapping" /\ at[w].format # mapped)

(* What a job knows of a response it writes is what the databases say ...  *)
KnowsOf(job, r) ==
  /\ job.op = "save" => job.content = stored[r]
  /\ job.op \in {"search", "update"} => job.name = entity_name[About[r]]
  /\ job.op \in {"populate", "row"} => job.rows[r] = stored[r]

(* ... and, unless all copies will be written again, so is what it will    *)
(* write: a whole copy, or the name in one that is right but for its name. *)
RightButName(r) ==
  r \in DOMAIN index /\ index[r].content = stored[r] /\ index[r].format = date_format

WillBeRight(job, r) ==
  /\ job.op \in {"land", "row"} /\ job.response = r => job.entry = Entry(r, stored[r])
  /\ job.op \in {"search", "update"} => RightButName(r)
  /\ job.op = "update" => /\ job.found \subseteq DOMAIN index
                          /\ r \in job.found \/ index[r].name = job.name

RightCopy(r) == r \in DOMAIN index /\ index[r] = Entry(r, stored[r])

Sound(r) ==
  /\ \A w \in Workers : Writes(at[w], r) =>
       /\ \A v \in Workers \ {w} : ~Writes(at[v], r)
       /\ KnowsOf(at[w], r)
       /\ ~Recreating => WillBeRight(at[w], r)
  /\ ~Recreating /\ (\A w \in Workers : ~Writes(at[w], r)) => RightCopy(r)

CopiesInv == CopiesShape /\ \A r \in DOMAIN stored \ unsure : Sound(r)

(* What the shape of a job says of its fields.                             *)
LEMMA TaskFields ==
  ASSUME NEW j \in Tasks
  PROVE  /\ j.op \in {"idle", "save", "land", "search", "update", "mapping", "queue", "populate", "row"}
         /\ j.op = "idle" => j = Unoccupied
         /\ j.op = "save" => j.response \in Responses /\ j.content \in Texts
         /\ j.op = "land" => j.response \in Responses /\ j.entry \in Copies
         /\ j.op = "search" => j.entity \in Entities /\ j.name \in EntityNames
         /\ j.op = "update" => /\ j.entity \in Entities /\ j.name \in EntityNames
                               /\ j.found \in SUBSET Responses
                               /\ j \in [op : {"update"}, entity : Entities, name : EntityNames,
                                         found : SUBSET Responses]
         /\ j.op = "mapping" => j.format \in DateFormats
         /\ j.op = "populate" => j.rows \in Tables(Texts)
         /\ j.op = "row" => j.rows \in Tables(Texts) /\ j.response \in Responses /\ j.entry \in Copies
BY DEF Tasks, Unoccupied

LEMMA PutShape ==
  ASSUME NEW V, NEW t \in Tables(V), NEW r \in Responses, NEW v \in V
  PROVE  /\ Put(t, r, v) \in Tables(V)
         /\ DOMAIN Put(t, r, v) = DOMAIN t \cup {r}
         /\ Put(t, r, v)[r] = v
         /\ \A x \in DOMAIN t \ {r} : Put(t, r, v)[x] = t[x]
<1>1. DOMAIN t \subseteq Responses /\ \A x \in DOMAIN t : t[x] \in V
  BY DEF Tables
<1>2. DOMAIN t \cup {r} \in SUBSET Responses
  BY <1>1
<1>3. Put(t, r, v) \in [DOMAIN t \cup {r} -> V]
  BY <1>1 DEF Put
<1>. QED
  BY <1>2, <1>3 DEF Put, Tables

LEMMA PutCopy ==
  ASSUME index \in Tables(Copies), NEW s \in Responses, NEW c \in Copies
  PROVE  /\ DOMAIN Put(index, s, c) = DOMAIN index \cup {s}
         /\ Put(index, s, c)[s] = c
         /\ \A x \in DOMAIN index \ {s} : Put(index, s, c)[x] = index[x]
BY PutShape

LEMMA EntryShape ==
  ASSUME CopiesShape, NEW r \in Responses, NEW c \in Texts
  PROVE  Entry(r, c) \in Copies
BY SearchAssumption DEF CopiesShape, Entry, Copies

LEMMA CopiesInit == SearchInit => CopiesInv
<1>. SUFFICES ASSUME SearchInit PROVE CopiesInv
  OBVIOUS
<1>1. \A V : <<>> \in Tables(V)
  <2>. SUFFICES ASSUME NEW V PROVE <<>> \in Tables(V)
    OBVIOUS
  <2>1. <<>> \in [{} -> V]
    OBVIOUS
  <2>. QED
    BY <2>1 DEF Tables
<1>2. at \in [Workers -> Tasks] /\ \A w \in Workers : at[w].op = "idle"
  BY DEF SearchInit, Tasks, Unoccupied
<1>3. DOMAIN stored = {}
  BY DEF SearchInit
<1>. QED
  BY <1>1, <1>2, <1>3 DEF SearchInit, CopiesInv, CopiesShape

LEMMA TasksOf ==
  /\ Unoccupied \in Tasks /\ [op |-> "queue"] \in Tasks
  /\ \A r \in Responses : \A c \in Texts : [op |-> "save", response |-> r, content |-> c] \in Tasks
  /\ \A r \in Responses : \A e \in Copies : [op |-> "land", response |-> r, entry |-> e] \in Tasks
  /\ \A e \in Entities : \A n \in EntityNames : [op |-> "search", entity |-> e, name |-> n] \in Tasks
  /\ \A e \in Entities : \A n \in EntityNames : \A F \in SUBSET Responses :
       [op |-> "update", entity |-> e, name |-> n, found |-> F] \in Tasks
  /\ \A f \in DateFormats : [op |-> "mapping", format |-> f] \in Tasks
  /\ \A t \in Tables(Texts) : [op |-> "populate", rows |-> t] \in Tasks
  /\ \A t \in Tables(Texts) : \A r \in Responses : \A e \in Copies :
       [op |-> "row", rows |-> t, response |-> r, entry |-> e] \in Tasks
BY DEF Tasks, Unoccupied

(* The shape is kept when a worker turns to another job of a good shape.   *)
LEMMA ShapeTurn ==
  ASSUME CopiesShape, NEW w \in Workers, NEW j \in Tasks, Do(w, j),
         stored' \in Tables(Texts), index' \in Tables(Copies),
         entity_name' \in [Entities -> EntityNames], date_format' \in DateFormats,
         mapped' \in DateFormats, queued' \in Nat,
         j.op = "update" => \A r \in j.found : About[r] = j.entity,
         j.op = "row" => j.response \in DOMAIN j.rows
  PROVE  CopiesShape'
<1>1. at' \in [Workers -> Tasks] /\ \A v \in Workers : at'[v] = IF v = w THEN j ELSE at[v]
  BY DEF CopiesShape, Do
<1>. QED
  BY <1>1 DEF CopiesShape

LEMMA CopiesShapeStep == ASSUME CopiesShape, SearchNext PROVE CopiesShape'
<1>. USE DEF CopiesShape
<1>1. ASSUME NEW w \in Workers PROVE at[w] \in Tasks
  BY <1>1
<1>2. CASE \E w \in Workers : SaveResponse(w)
  <2>1. PICK w \in Workers : SaveResponse(w)
    BY <1>2
  <2>2. PICK r \in Responses : \E c \in Contents[r] :
          /\ stored' = Put(stored, r, c)
          /\ Do(w, [op |-> "save", response |-> r, content |-> c])
          /\ UNCHANGED <<entity_name, date_format, mapped, index, queued>>
    BY <2>1 DEF SaveResponse
  <2>3. PICK c \in Contents[r] :
          /\ stored' = Put(stored, r, c)
          /\ Do(w, [op |-> "save", response |-> r, content |-> c])
          /\ UNCHANGED <<entity_name, date_format, mapped, index, queued>>
    BY <2>2
  <2> DEFINE j == [op |-> "save", response |-> r, content |-> c]
  <2>4. c \in Texts /\ j \in Tasks /\ j.op = "save"
    BY TasksOf DEF Texts
  <2>5. stored' \in Tables(Texts)
    BY <2>3, <2>4, PutShape
  <2>. QED
    BY <2>3, <2>4, <2>5, ShapeTurn
<1>3. CASE \E w \in Workers : LookUp(w)
  <2>1. PICK w \in Workers : LookUp(w)
    BY <1>3
  <2> DEFINE j == [op |-> "land", response |-> at[w].response, entry |-> Entry(at[w].response, at[w].content)]
  <2>2. at[w].op = "save" /\ Do(w, j)
        /\ UNCHANGED <<stored, entity_name, date_format, mapped, index, queued>>
    BY <2>1 DEF LookUp
  <2>3. j \in Tasks /\ j.op = "land"
    BY <1>1, <2>2, TaskFields, EntryShape, TasksOf
  <2>. QED
    BY <2>2, <2>3, ShapeTurn
<1>4. CASE \E w \in Workers : Land(w)
  <2>1. PICK w \in Workers : Land(w)
    BY <1>4
  <2>2. at[w].response \in Responses /\ at[w].entry \in Copies
    BY <1>1, <2>1, TaskFields DEF Land
  <2>3. index' \in Tables(Copies)
    BY <2>1, <2>2, PutShape DEF Land
  <2>4. Unoccupied.op = "idle" /\ Unoccupied \in Tasks
    BY TasksOf DEF Unoccupied
  <2>. QED
    BY <2>1, <2>3, <2>4, ShapeTurn DEF Land
<1>5. CASE \E w \in Workers : SaveEntity(w)
  <2>1. PICK w \in Workers : SaveEntity(w)
    BY <1>5
  <2>2. PICK e \in Entities : \E n \in EntityNames :
          /\ entity_name' = [entity_name EXCEPT ![e] = n]
          /\ Do(w, [op |-> "search", entity |-> e, name |-> n])
          /\ UNCHANGED <<stored, date_format, mapped, index, queued>>
    BY <2>1 DEF SaveEntity
  <2>3. PICK n \in EntityNames :
          /\ entity_name' = [entity_name EXCEPT ![e] = n]
          /\ Do(w, [op |-> "search", entity |-> e, name |-> n])
          /\ UNCHANGED <<stored, date_format, mapped, index, queued>>
    BY <2>2
  <2> DEFINE j == [op |-> "search", entity |-> e, name |-> n]
  <2>4. j \in Tasks /\ j.op = "search"
    BY TasksOf
  <2>. QED
    BY <2>3, <2>4, ShapeTurn
<1>6. CASE \E w \in Workers : SearchCopies(w)
  <2>1. PICK w \in Workers : SearchCopies(w)
    BY <1>6
  <2> DEFINE j == [op |-> "update", entity |-> at[w].entity, name |-> at[w].name,
                   found |-> CopiesOf(at[w].entity)]
  <2>2. at[w].op = "search" /\ Do(w, j)
        /\ UNCHANGED <<stored, entity_name, date_format, mapped, index, queued>>
    BY <2>1 DEF SearchCopies
  <2>3. CopiesOf(at[w].entity) \in SUBSET Responses
        /\ \A r \in CopiesOf(at[w].entity) : About[r] = at[w].entity
    BY DEF CopiesOf, Tables
  <2>4. j \in Tasks /\ j.op = "update" /\ j.found = CopiesOf(at[w].entity) /\ j.entity = at[w].entity
    BY <1>1, <2>2, <2>3, TaskFields, TasksOf
  <2>. QED
    BY <2>2, <2>3, <2>4, ShapeTurn
<1>7. CASE \E w \in Workers : UpdateCopy(w)
  <2>1. PICK w \in Workers : UpdateCopy(w)
    BY <1>7
  <2> DEFINE j(r) == [at[w] EXCEPT !.found = @ \ {r}]
  <2>2. PICK r \in at[w].found :
          /\ IF r \in DOMAIN index
             THEN index' = [index EXCEPT ![r].name = at[w].name] /\ Do(w, j(r))
             ELSE UNCHANGED index /\ Do(w, Unoccupied)
          /\ UNCHANGED <<stored, entity_name, date_format, mapped, queued, unsure>>
    BY <2>1 DEF UpdateCopy
  <2>3. /\ at[w].op = "update" /\ at[w].entity \in Entities /\ at[w].name \in EntityNames
        /\ at[w].found \in SUBSET Responses /\ at[w] \in Tasks
    BY <1>1, <2>1, TaskFields DEF UpdateCopy
  <2>4. at[w] \in [op : {"update"}, entity : Entities, name : EntityNames, found : SUBSET Responses]
    BY <2>3, TaskFields
  <2>5. /\ j(r) \in [op : {"update"}, entity : Entities, name : EntityNames, found : SUBSET Responses]
        /\ j(r).entity = at[w].entity /\ j(r).name = at[w].name /\ j(r).found = at[w].found \ {r}
    BY <2>4
  <2>6. j(r) \in Tasks
    BY <2>5 DEF Tasks
  <2>7. /\ j(r).op = "update" /\ j(r).entity = at[w].entity /\ j(r).found = at[w].found \ {r}
    BY <2>5
  <2>8. \A x \in j(r).found : About[x] = j(r).entity
    BY <2>3, <2>7
  <2>9. [index EXCEPT ![r].name = at[w].name] \in Tables(Copies)
    <3>1. DOMAIN index \in SUBSET Responses /\ index \in [DOMAIN index -> Copies]
      BY DEF Tables
    <3>2. \A x \in DOMAIN index : [index[x] EXCEPT !.name = at[w].name] \in Copies
      BY <2>3, <3>1 DEF Copies
    <3>3. [index EXCEPT ![r].name = at[w].name] \in [DOMAIN index -> Copies]
      BY <3>1, <3>2
    <3>. QED
      BY <3>1, <3>3 DEF Tables
  <2>10. Unoccupied.op = "idle" /\ Unoccupied \in Tasks
    BY TasksOf DEF Unoccupied
  <2>. HIDE DEF j
  <2>11. CASE r \in DOMAIN index
    BY <2>2, <2>6, <2>7, <2>8, <2>9, <2>11, ShapeTurn
  <2>12. CASE r \notin DOMAIN index
    BY <2>2, <2>10, <2>12, ShapeTurn
  <2>. QED
    BY <2>11, <2>12
<1>8. ASSUME NEW w \in Workers, Updated(w) \/ Populated(w) PROVE CopiesShape'
  <2>1. Unoccupied.op = "idle" /\ Unoccupied \in Tasks
    BY TasksOf DEF Unoccupied
  <2>. QED
    BY <1>8, <2>1, ShapeTurn DEF Updated, Populated
<1>9. CASE \E w \in Workers : SaveForm(w)
  <2>1. PICK w \in Workers : SaveForm(w)
    BY <1>9
  <2>2. PICK f \in DateFormats :
          /\ date_format' = f /\ Do(w, [op |-> "mapping", format |-> f])
          /\ UNCHANGED <<stored, entity_name, mapped, index, queued>>
    BY <2>1 DEF SaveForm
  <2> DEFINE j == [op |-> "mapping", format |-> f]
  <2>3. j \in Tasks /\ j.op = "mapping"
    BY TasksOf
  <2>. QED
    BY <2>2, <2>3, ShapeTurn
<1>10. CASE \E w \in Workers : DeleteMapping(w)
  <2>1. PICK w \in Workers : DeleteMapping(w)
    BY <1>10
  <2>2. at[w].format \in DateFormats
    BY <1>1, <2>1, TaskFields DEF DeleteMapping
  <2>3. \A V : <<>> \in Tables(V)
    <3>. SUFFICES ASSUME NEW V PROVE <<>> \in Tables(V)
      OBVIOUS
    <3>1. <<>> \in [{} -> V]
      OBVIOUS
    <3>. QED
      BY <3>1 DEF Tables
  <2> DEFINE j == [op |-> "queue"]
  <2>4. /\ Unoccupied.op = "idle" /\ Unoccupied \in Tasks
        /\ j.op = "queue" /\ j \in Tasks
    BY TasksOf DEF Unoccupied
  <2>5. CASE at[w].format = mapped
    BY <2>1, <2>4, <2>5, ShapeTurn DEF DeleteMapping
  <2>6. CASE at[w].format # mapped
    <3>1. mapped' = at[w].format /\ index' = <<>> /\ Do(w, j)
          /\ UNCHANGED <<stored, entity_name, date_format, queued>>
      BY <2>1, <2>6 DEF DeleteMapping
    <3>. HIDE DEF j
    <3>. QED
      BY <3>1, <2>2, <2>3, <2>4, ShapeTurn
  <2>. QED
    BY <2>5, <2>6
<1>11. ASSUME NEW w \in Workers, QueuePopulate(w) PROVE CopiesShape'
  <2>1. Unoccupied.op = "idle" /\ Unoccupied \in Tasks
    BY TasksOf DEF Unoccupied
  <2>. QED
    BY <1>11, <2>1, ShapeTurn DEF QueuePopulate
<1>12. CASE \E w \in Workers : Populate(w)
  <2>1. PICK w \in Workers : Populate(w)
    BY <1>12
  <2> DEFINE j == [op |-> "populate", rows |-> stored]
  <2>2. j \in Tasks /\ j.op = "populate"
    BY TasksOf
  <2>3. Do(w, j) /\ queued' \in Nat /\ UNCHANGED <<stored, entity_name, date_format, mapped, index>>
    BY <2>1 DEF Populate
  <2>. QED
    BY <2>2, <2>3, ShapeTurn
<1>13. CASE \E w \in Workers : PopulateRow(w)
  <2>1. PICK w \in Workers : PopulateRow(w)
    BY <1>13
  <2> DEFINE j(r) == [op |-> "row", rows |-> at[w].rows, response |-> r, entry |-> Entry(r, at[w].rows[r])]
  <2>2. PICK r \in DOMAIN at[w].rows :
          Do(w, j(r)) /\ UNCHANGED <<stored, entity_name, date_format, mapped, index, queued>>
    BY <2>1 DEF PopulateRow
  <2>3. at[w].rows \in Tables(Texts)
    BY <1>1, <2>1, TaskFields DEF PopulateRow
  <2>4. r \in Responses /\ at[w].rows[r] \in Texts
    BY <2>3 DEF Tables
  <2>5. j(r) \in Tasks /\ j(r).op = "row" /\ j(r).response \in DOMAIN j(r).rows
    BY <2>3, <2>4, EntryShape, TasksOf
  <2>. HIDE DEF j
  <2>. QED
    BY <2>2, <2>5, ShapeTurn
<1>14. CASE \E w \in Workers : LandRow(w)
  <2>1. PICK w \in Workers : LandRow(w)
    BY <1>14
  <2> DEFINE rest == [r \in DOMAIN at[w].rows \ {at[w].response} |-> at[w].rows[r]]
             j == [op |-> "populate", rows |-> rest]
  <2>2. at[w].response \in Responses /\ at[w].entry \in Copies /\ at[w].rows \in Tables(Texts)
    BY <1>1, <2>1, TaskFields DEF LandRow
  <2>3. index' \in Tables(Copies)
    BY <2>1, <2>2, PutShape DEF LandRow
  <2>4. rest \in Tables(Texts)
    <3>1. DOMAIN at[w].rows \in SUBSET Responses /\ \A r \in DOMAIN at[w].rows : at[w].rows[r] \in Texts
      BY <2>2 DEF Tables
    <3>2. rest \in [DOMAIN at[w].rows \ {at[w].response} -> Texts]
      BY <3>1
    <3>. QED
      BY <3>1, <3>2 DEF Tables
  <2>5. j \in Tasks /\ j.op = "populate"
    BY <2>4, TasksOf
  <2>6. Do(w, j) /\ UNCHANGED <<stored, entity_name, date_format, mapped, queued>>
    BY <2>1 DEF LandRow
  <2>. HIDE DEF j
  <2>. QED
    BY <2>3, <2>5, <2>6, ShapeTurn
<1>15. CASE \E w \in Workers : Fail(w)
  <2>1. PICK w \in Workers : Fail(w)
    BY <1>15
  <2>2. Unoccupied.op = "idle" /\ Unoccupied \in Tasks
    BY TasksOf DEF Unoccupied
  <2>3. queued' \in Nat
    BY <2>1 DEF Fail
  <2>. QED
    BY <2>1, <2>2, <2>3, ShapeTurn DEF Fail
<1>. QED
  BY <1>2, <1>3, <1>4, <1>5, <1>6, <1>7, <1>8, <1>9, <1>10, <1>11, <1>12, <1>13, <1>14, <1>15
     DEF SearchNext, Workers

(* A worker turns to another job: what that means to the others ...        *)
LEMMA Turned ==
  ASSUME CopiesShape, NEW w \in Workers, NEW j, Do(w, j)
  PROVE  at'[w] = j /\ \A v \in Workers \ {w} : at'[v] = at[v]
BY DEF CopiesShape, Do

LEMMA StillRecreating ==
  ASSUME CopiesShape, NEW w \in Workers, NEW j, Do(w, j), UNCHANGED <<queued, mapped>>,
         at[w].op \notin {"mapping", "queue"}, j.op \notin {"mapping", "queue"}
  PROVE  Recreating' <=> Recreating
<1>1. at'[w] = j /\ \A v \in Workers \ {w} : at'[v] = at[v]
  BY Turned
<1>. QED
  BY <1>1 DEF Recreating

(* ... a response it does not write stays as sound as it was ...           *)
LEMMA Aside ==
  ASSUME CopiesShape, NEW w \in Workers, NEW j, Do(w, j), NEW r \in Responses, Sound(r),
         ~Writes(at[w], r), ~Writes(j, r),
         stored'[r] = stored[r], entity_name'[About[r]] = entity_name[About[r]],
         ~Recreating' => /\ ~Recreating /\ date_format' = date_format
                         /\ DOMAIN index \subseteq DOMAIN index'
                         /\ r \in DOMAIN index => index'[r] = index[r]
  PROVE  Sound(r)'
<1>1. at'[w] = j /\ \A v \in Workers \ {w} : at'[v] = at[v]
  BY Turned
<1>2. \A v \in Workers : /\ Writes(at'[v], r) <=> Writes(at[v], r)
                         /\ Writes(at[v], r) => v # w /\ at'[v] = at[v]
  BY <1>1
<1>3. ASSUME NEW v \in Workers, Writes(at'[v], r)
      PROVE  /\ \A u \in Workers \ {v} : ~Writes(at'[u], r)
             /\ KnowsOf(at[v], r)' /\ (~Recreating' => WillBeRight(at[v], r)')
  <2>1. /\ v # w /\ at'[v] = at[v] /\ Writes(at[v], r)
        /\ \A u \in Workers \ {v} : ~Writes(at'[u], r)
    BY <1>2, <1>3 DEF Sound
  <2>2. KnowsOf(at[v], r) /\ (~Recreating => WillBeRight(at[v], r))
    BY <2>1 DEF Sound
  <2>3. KnowsOf(at[v], r)'
    BY <2>1, <2>2 DEF KnowsOf
  <2>4. ASSUME ~Recreating' PROVE WillBeRight(at[v], r)'
    <3>1. WillBeRight(at[v], r) /\ date_format' = date_format /\ DOMAIN index \subseteq DOMAIN index'
          /\ (r \in DOMAIN index => index'[r] = index[r])
      BY <2>2, <2>4
    <3>2. RightButName(r) => RightButName(r)' /\ index'[r] = index[r]
      BY <3>1 DEF RightButName
    <3>3. Entry(r, stored[r])' = Entry(r, stored[r])
      BY <3>1 DEF Entry
    <3>. QED
      BY <2>1, <3>1, <3>2, <3>3 DEF WillBeRight
  <2>. QED
    BY <2>1, <2>3, <2>4
<1>4. ASSUME ~Recreating', \A v \in Workers : ~Writes(at'[v], r) PROVE RightCopy(r)'
  BY <1>2, <1>4 DEF Sound, RightCopy, Entry
<1>. QED
  BY <1>3, <1>4 DEF Sound

(* ... and one it alone writes, or begins to write, is sound by what its   *)
(* next job knows.                                                         *)
LEMMA Onward ==
  ASSUME CopiesShape, NEW w \in Workers, NEW j, Do(w, j), NEW r \in Responses,
         \A v \in Workers \ {w} : ~Writes(at[v], r),
         Writes(j, r) => KnowsOf(j, r)' /\ (~Recreating' => WillBeRight(j, r)'),
         ~Writes(j, r) /\ ~Recreating' => RightCopy(r)'
  PROVE  Sound(r)'
<1>1. at'[w] = j /\ \A v \in Workers \ {w} : at'[v] = at[v]
  BY Turned
<1>2. \A v \in Workers : Writes(at'[v], r) => v = w
  BY <1>1
<1>3. KnowsOf(at[w], r)' <=> KnowsOf(j, r)'
  BY <1>1 DEF KnowsOf
<1>4. WillBeRight(at[w], r)' <=> WillBeRight(j, r)'
  BY <1>1 DEF WillBeRight
<1>. QED
  BY <1>1, <1>2, <1>3, <1>4 DEF Sound

LEMMA Alone ==
  ASSUME NEW r, Sound(r), NEW w \in Workers, Writes(at[w], r)
  PROVE  /\ \A v \in Workers \ {w} : ~Writes(at[v], r)
         /\ KnowsOf(at[w], r) /\ (~Recreating => WillBeRight(at[w], r))
BY DEF Sound

LEMMA IdleWritesNothing ==
  ASSUME NEW r PROVE ~Writes(Unoccupied, r)
BY DEF Writes, Unoccupied

(* A response that is saved, and is not being written, is the new job's.   *)
LEMMA SoundSaveResponse ==
  ASSUME CopiesInv, NEW w \in Workers, SaveResponse(w), NEW r \in DOMAIN stored' \ unsure'
  PROVE  Sound(r)'
<1>1. CopiesShape /\ at[w] = Unoccupied
  BY DEF CopiesInv, SaveResponse
<1>2. PICK s \in Responses : \E c \in Contents[s] :
        /\ stored' = Put(stored, s, c)
        /\ Do(w, [op |-> "save", response |-> s, content |-> c])
        /\ unsure' = (unsure \ {s}) \cup Overlapped(w, {s})
        /\ UNCHANGED <<entity_name, date_format, mapped, index, queued>>
  BY DEF SaveResponse
<1>3. PICK c \in Contents[s] :
        /\ stored' = Put(stored, s, c)
        /\ Do(w, [op |-> "save", response |-> s, content |-> c])
        /\ unsure' = (unsure \ {s}) \cup Overlapped(w, {s})
        /\ UNCHANGED <<entity_name, date_format, mapped, index, queued>>
  BY <1>2
<1>4. PICK j : j = [op |-> "save", response |-> s, content |-> c]
  OBVIOUS
<1>5. Do(w, j) /\ j.op = "save" /\ j.response = s /\ j.content = c
  BY <1>3, <1>4
<1>6. /\ c \in Texts /\ stored \in Tables(Texts)
  BY <1>1 DEF Texts, CopiesShape
<1>7. DOMAIN stored' = DOMAIN stored \cup {s} /\ stored'[s] = c
      /\ \A x \in DOMAIN stored \ {s} : stored'[x] = stored[x]
  BY <1>3, <1>6, PutShape
<1>8. r \in Responses
  BY <1>6, <1>7 DEF Tables
<1>9. CASE r = s
  <2>1. \A v \in Workers \ {w} : ~Writes(at[v], r)
    BY <1>3, <1>9 DEF Overlapped
  <2>2. Writes(j, r) /\ KnowsOf(j, r)' /\ WillBeRight(j, r)'
    BY <1>5, <1>7, <1>9 DEF Writes, KnowsOf, WillBeRight
  <2>. QED
    BY <1>1, <1>5, <1>8, <2>1, <2>2, Onward
<1>10. CASE r # s
  <2>1. r \in DOMAIN stored \ unsure /\ stored'[r] = stored[r]
    BY <1>3, <1>7, <1>10
  <2>2. Sound(r) /\ ~Writes(at[w], r) /\ ~Writes(j, r)
    BY <1>1, <1>5, <1>10, <2>1, IdleWritesNothing DEF CopiesInv, Writes
  <2>3. Recreating' <=> Recreating
    BY <1>1, <1>3, <1>5, StillRecreating DEF Unoccupied
  <2>. QED
    BY <1>1, <1>3, <1>5, <1>8, <2>1, <2>2, <2>3, Aside
<1>. QED
  BY <1>9, <1>10

(* The steps of the handler of a response.                                 *)
LEMMA SoundLookUp ==
  ASSUME CopiesInv, NEW w \in Workers, LookUp(w), NEW r \in DOMAIN stored' \ unsure'
  PROVE  Sound(r)'
<1> DEFINE s == at[w].response
<1>1. CopiesShape /\ at[w].op = "save" /\ at[w] \in Tasks
      /\ UNCHANGED <<stored, entity_name, date_format, mapped, index, queued, unsure>>
  BY DEF CopiesInv, CopiesShape, LookUp
<1>2. PICK j : j = [op |-> "land", response |-> s, entry |-> Entry(s, at[w].content)]
  OBVIOUS
<1>3. Do(w, j) /\ j.op = "land" /\ j.response = s /\ j.entry = Entry(s, at[w].content)
  BY <1>2 DEF LookUp
<1>4. r \in DOMAIN stored \ unsure /\ r \in Responses /\ Sound(r)
  BY <1>1 DEF CopiesInv, CopiesShape, Tables
<1>5. Recreating' <=> Recreating
  BY <1>1, <1>3, StillRecreating
<1>6. CASE r = s
  <2>1. Writes(at[w], r)
    BY <1>1, <1>6 DEF Writes
  <2>2. /\ \A v \in Workers \ {w} : ~Writes(at[v], r)
        /\ at[w].content = stored[r]
    BY <1>1, <1>4, <2>1, Alone DEF KnowsOf
  <2>3. Entry(s, at[w].content) = Entry(r, stored[r])'
    BY <1>1, <1>6, <2>2 DEF Entry
  <2>4. Writes(j, r) /\ KnowsOf(j, r)' /\ WillBeRight(j, r)'
    BY <1>3, <1>6, <2>3 DEF Writes, KnowsOf, WillBeRight
  <2>. QED
    BY <1>1, <1>3, <1>4, <2>2, <2>4, Onward
<1>7. CASE r # s
  <2>1. ~Writes(at[w], r) /\ ~Writes(j, r)
    BY <1>1, <1>3, <1>7 DEF Writes
  <2>. QED
    BY <1>1, <1>3, <1>4, <1>5, <2>1, Aside
<1>. QED
  BY <1>6, <1>7

LEMMA SoundLand ==
  ASSUME CopiesInv, NEW w \in Workers, Land(w), NEW r \in DOMAIN stored' \ unsure'
  PROVE  Sound(r)'
<1> DEFINE s == at[w].response
<1>1. CopiesShape /\ at[w].op = "land" /\ at[w] \in Tasks /\ Do(w, Unoccupied)
      /\ index' = Put(index, s, at[w].entry) /\ index \in Tables(Copies)
      /\ UNCHANGED <<stored, entity_name, date_format, mapped, queued, unsure>>
  BY DEF CopiesInv, CopiesShape, Land
<1>2. s \in Responses /\ at[w].entry \in Copies
  BY <1>1, TaskFields
<1>3. DOMAIN index' = DOMAIN index \cup {s} /\ index'[s] = at[w].entry
      /\ \A x \in DOMAIN index \ {s} : index'[x] = index[x]
  <2> DEFINE c == at[w].entry
  <2>. HIDE DEF s, c
  <2>1. index' = Put(index, s, c) /\ s \in Responses /\ c \in Copies /\ index \in Tables(Copies)
    BY <1>1, <1>2 DEF c
  <2>2. DOMAIN index' = DOMAIN index \cup {s} /\ index'[s] = c
        /\ \A x \in DOMAIN index \ {s} : index'[x] = index[x]
    BY <2>1, PutShape
  <2>. QED
    BY <2>2 DEF c
<1>4. r \in DOMAIN stored \ unsure /\ r \in Responses /\ Sound(r)
  BY <1>1 DEF CopiesInv, CopiesShape, Tables
<1>5. Recreating' <=> Recreating
  BY <1>1, StillRecreating DEF Unoccupied
<1>6. CASE r = s
  <2>1. Writes(at[w], r)
    BY <1>1, <1>6 DEF Writes
  <2>2. /\ \A v \in Workers \ {w} : ~Writes(at[v], r)
        /\ ~Recreating => at[w].entry = Entry(r, stored[r])
    BY <1>1, <1>4, <1>6, <2>1, Alone DEF WillBeRight
  <2>3. ~Recreating' => RightCopy(r)'
    BY <1>1, <1>3, <1>5, <1>6, <2>2 DEF RightCopy, Entry
  <2>. QED
    BY <1>1, <1>4, <2>2, <2>3, Onward, IdleWritesNothing
<1>7. CASE r # s
  <2>1. ~Writes(at[w], r) /\ ~Writes(Unoccupied, r)
    BY <1>1, <1>7, IdleWritesNothing DEF Writes
  <2>. QED
    BY <1>1, <1>3, <1>4, <1>5, <1>7, <2>1, Aside
<1>. QED
  BY <1>6, <1>7

(* The steps of the handler of a data sender or a subject.                 *)
LEMMA SoundSaveEntity ==
  ASSUME CopiesInv, NEW w \in Workers, SaveEntity(w), NEW r \in DOMAIN stored' \ unsure'
  PROVE  Sound(r)'
<1>1. CopiesShape /\ at[w] = Unoccupied
  BY DEF CopiesInv, SaveEntity
<1>2. PICK e \in Entities : \E n \in EntityNames :
        /\ entity_name' = [entity_name EXCEPT ![e] = n]
        /\ Do(w, [op |-> "search", entity |-> e, name |-> n])
        /\ unsure' = unsure \cup Overlapped(w, {x \in DOMAIN stored : About[x] = e})
        /\ UNCHANGED <<stored, date_format, mapped, index, queued>>
  BY DEF SaveEntity
<1>3. PICK n \in EntityNames :
        /\ entity_name' = [entity_name EXCEPT ![e] = n]
        /\ Do(w, [op |-> "search", entity |-> e, name |-> n])
        /\ unsure' = unsure \cup Overlapped(w, {x \in DOMAIN stored : About[x] = e})
        /\ UNCHANGED <<stored, date_format, mapped, index, queued>>
  BY <1>2
<1>4. PICK j : j = [op |-> "search", entity |-> e, name |-> n]
  OBVIOUS
<1>5. Do(w, j) /\ j.op = "search" /\ j.entity = e /\ j.name = n
  BY <1>3, <1>4
<1>6. r \in DOMAIN stored \ unsure /\ r \in Responses /\ Sound(r) /\ About[r] \in Entities
  BY <1>1, <1>3, SearchAssumption DEF CopiesInv, CopiesShape, Tables
<1>7. Recreating' <=> Recreating
  BY <1>1, <1>3, <1>5, StillRecreating DEF Unoccupied
<1>8. entity_name' \in [Entities -> EntityNames] /\ entity_name'[e] = n
      /\ \A x \in Entities \ {e} : entity_name'[x] = entity_name[x]
  BY <1>1, <1>3 DEF CopiesShape
<1>9. CASE About[r] = e
  <2>1. \A v \in Workers \ {w} : ~Writes(at[v], r)
    BY <1>3, <1>6, <1>9 DEF Overlapped
  <2>2. \A v \in Workers : ~Writes(at[v], r)
    BY <1>1, <2>1, IdleWritesNothing
  <2>3. ~Recreating => RightButName(r)
    BY <1>6, <2>2 DEF Sound, RightCopy, RightButName, Entry
  <2>4. ~Recreating' => RightButName(r)'
    BY <1>3, <1>7, <2>3 DEF RightButName
  <2>5. Writes(j, r) /\ KnowsOf(j, r)' /\ (~Recreating' => WillBeRight(j, r)')
    BY <1>5, <1>8, <1>9, <2>4 DEF Writes, KnowsOf, WillBeRight
  <2>. QED
    BY <1>1, <1>5, <1>6, <2>1, <2>5, Onward
<1>10. CASE About[r] # e
  <2>1. ~Writes(at[w], r) /\ ~Writes(j, r) /\ entity_name'[About[r]] = entity_name[About[r]]
    BY <1>1, <1>5, <1>6, <1>8, <1>10, IdleWritesNothing DEF Writes
  <2>. QED
    BY <1>1, <1>3, <1>5, <1>6, <1>7, <2>1, Aside
<1>. QED
  BY <1>9, <1>10

LEMMA SoundSearchCopies ==
  ASSUME CopiesInv, NEW w \in Workers, SearchCopies(w), NEW r \in DOMAIN stored' \ unsure'
  PROVE  Sound(r)'
<1> DEFINE e == at[w].entity
<1>1. CopiesShape /\ at[w].op = "search"
      /\ UNCHANGED <<stored, entity_name, date_format, mapped, index, queued, unsure>>
  BY DEF CopiesInv, SearchCopies
<1>2. PICK j : j = [op |-> "update", entity |-> e, name |-> at[w].name, found |-> CopiesOf(e)]
  OBVIOUS
<1>3. Do(w, j) /\ j.op = "update" /\ j.entity = e /\ j.name = at[w].name /\ j.found = CopiesOf(e)
  BY <1>2 DEF SearchCopies
<1>4. r \in DOMAIN stored \ unsure /\ r \in Responses /\ Sound(r)
  BY <1>1 DEF CopiesInv, CopiesShape, Tables
<1>5. Recreating' <=> Recreating
  BY <1>1, <1>3, StillRecreating
<1>6. CASE About[r] = e
  <2>1. Writes(at[w], r)
    BY <1>1, <1>6 DEF Writes
  <2>2. /\ \A v \in Workers \ {w} : ~Writes(at[v], r)
        /\ at[w].name = entity_name[About[r]]
        /\ ~Recreating => RightButName(r)
    BY <1>1, <1>4, <2>1, Alone DEF KnowsOf, WillBeRight
  <2>3. ~Recreating => r \in j.found /\ j.found \subseteq DOMAIN index
    BY <1>3, <1>6, <2>2 DEF RightButName, CopiesOf
  <2>4. Writes(j, r) /\ KnowsOf(j, r)' /\ (~Recreating' => WillBeRight(j, r)')
    BY <1>1, <1>3, <1>5, <1>6, <2>2, <2>3 DEF Writes, KnowsOf, WillBeRight, RightButName
  <2>. QED
    BY <1>1, <1>3, <1>4, <2>2, <2>4, Onward
<1>7. CASE About[r] # e
  <2>1. ~Writes(at[w], r) /\ ~Writes(j, r)
    BY <1>1, <1>3, <1>7 DEF Writes
  <2>. QED
    BY <1>1, <1>3, <1>4, <1>5, <2>1, Aside
<1>. QED
  BY <1>6, <1>7

LEMMA SoundUpdateCopy ==
  ASSUME CopiesInv, NEW w \in Workers, UpdateCopy(w), NEW r \in DOMAIN stored' \ unsure'
  PROVE  Sound(r)'
<1>1. CopiesShape /\ at[w].op = "update" /\ at[w] \in Tasks
      /\ UNCHANGED <<stored, entity_name, date_format, mapped, queued, unsure>>
  BY DEF CopiesInv, CopiesShape, UpdateCopy
<1>2. PICK s \in at[w].found :
        IF s \in DOMAIN index
        THEN index' = [index EXCEPT ![s].name = at[w].name]
             /\ Do(w, [at[w] EXCEPT !.found = @ \ {s}])
        ELSE UNCHANGED index /\ Do(w, Unoccupied)
  BY DEF UpdateCopy
<1>3. r \in DOMAIN stored \ unsure /\ r \in Responses /\ Sound(r)
  BY <1>1 DEF CopiesInv, CopiesShape, Tables
<1>4. /\ at[w] \in [op : {"update"}, entity : Entities, name : EntityNames, found : SUBSET Responses]
      /\ \A x \in at[w].found : About[x] = at[w].entity
  BY <1>1, TaskFields DEF CopiesShape
<1>5. Writes(at[w], r) <=> at[w].entity = About[r]
  BY <1>1 DEF Writes
<1>6. Writes(at[w], r) =>
        /\ \A v \in Workers \ {w} : ~Writes(at[v], r)
        /\ at[w].name = entity_name[About[r]]
        /\ ~Recreating => RightButName(r) /\ at[w].found \subseteq DOMAIN index
                          /\ (r \in at[w].found \/ index[r].name = at[w].name)
  BY <1>1, <1>3, Alone DEF KnowsOf, WillBeRight
<1>7. CASE s \in DOMAIN index
  <2>1. PICK j : j = [at[w] EXCEPT !.found = @ \ {s}]
    OBVIOUS
  <2>2. Do(w, j) /\ j.op = "update" /\ j.entity = at[w].entity /\ j.name = at[w].name
        /\ j.found = at[w].found \ {s}
    BY <1>2, <1>4, <1>7, <2>1
  <2>3. DOMAIN index' = DOMAIN index
        /\ index'[s] = [index[s] EXCEPT !.name = at[w].name]
        /\ \A x \in DOMAIN index \ {s} : index'[x] = index[x]
    BY <1>1, <1>2, <1>7 DEF CopiesShape, Tables
  <2>4. Recreating' <=> Recreating
    BY <1>1, <2>2, StillRecreating
  <2>5. index[s] \in Copies
    BY <1>1, <1>7 DEF CopiesShape, Tables
  <2>6. index'[s].content = index[s].content /\ index'[s].format = index[s].format
        /\ index'[s].name = at[w].name
    BY <2>3, <2>5 DEF Copies
  <2>7. CASE Writes(at[w], r)
    <3>1. ~Recreating' => RightButName(r)'
      BY <1>1, <1>6, <2>3, <2>4, <2>6, <2>7 DEF RightButName
    <3>2. ~Recreating' => j.found \subseteq DOMAIN index' /\ (r \in j.found \/ index'[r].name = j.name)
      BY <1>6, <2>2, <2>3, <2>4, <2>6, <2>7 DEF RightButName
    <3>3. Writes(j, r) /\ KnowsOf(j, r)' /\ (~Recreating' => WillBeRight(j, r)')
      BY <1>1, <1>5, <1>6, <2>2, <2>7, <3>1, <3>2 DEF Writes, KnowsOf, WillBeRight
    <3>. QED
      BY <1>1, <1>3, <1>6, <2>2, <2>7, <3>3, Onward
  <2>8. CASE ~Writes(at[w], r)
    <3>1. ~Writes(j, r) /\ r # s
      BY <1>4, <1>5, <2>2, <2>8 DEF Writes
    <3>. QED
      BY <1>1, <1>3, <2>2, <2>3, <2>4, <2>8, <3>1, Aside
  <2>. QED
    BY <2>7, <2>8
<1>8. CASE s \notin DOMAIN index
  <2>1. UNCHANGED index /\ Do(w, Unoccupied)
    BY <1>2, <1>8
  <2>2. Recreating' <=> Recreating
    BY <1>1, <2>1, StillRecreating DEF Unoccupied
  <2>3. CASE Writes(at[w], r)
    <3>1. Recreating'
      BY <1>6, <1>8, <2>2, <2>3
    <3>. QED
      BY <1>1, <1>3, <1>6, <2>1, <2>3, <3>1, Onward, IdleWritesNothing
  <2>4. CASE ~Writes(at[w], r)
    BY <1>1, <1>3, <2>1, <2>2, <2>4, Aside, IdleWritesNothing
  <2>. QED
    BY <2>3, <2>4
<1>. QED
  BY <1>7, <1>8

LEMMA SoundUpdated ==
  ASSUME CopiesInv, NEW w \in Workers, Updated(w), NEW r \in DOMAIN stored' \ unsure'
  PROVE  Sound(r)'
<1>1. CopiesShape /\ at[w].op = "update" /\ at[w].found = {} /\ Do(w, Unoccupied)
      /\ UNCHANGED <<stored, entity_name, date_format, mapped, index, queued, unsure>>
  BY DEF CopiesInv, Updated
<1>2. r \in DOMAIN stored \ unsure /\ r \in Responses /\ Sound(r)
  BY <1>1 DEF CopiesInv, CopiesShape, Tables
<1>3. Recreating' <=> Recreating
  BY <1>1, StillRecreating DEF Unoccupied
<1>4. CASE Writes(at[w], r)
  <2>1. /\ \A v \in Workers \ {w} : ~Writes(at[v], r)
        /\ at[w].name = entity_name[About[r]]
        /\ ~Recreating => RightButName(r) /\ index[r].name = at[w].name
    BY <1>1, <1>2, <1>4, Alone DEF KnowsOf, WillBeRight
  <2>2. r \in DOMAIN index => index[r] \in Copies
    BY <1>1 DEF CopiesShape, Tables
  <2>3. ~Recreating => RightCopy(r)
    BY <2>1, <2>2 DEF RightCopy, RightButName, Entry, Copies
  <2>4. ~Recreating' => RightCopy(r)'
    BY <1>1, <1>3, <2>3 DEF RightCopy, Entry
  <2>. QED
    BY <1>1, <1>2, <2>1, <2>4, Onward, IdleWritesNothing
<1>5. CASE ~Writes(at[w], r)
  BY <1>1, <1>2, <1>3, <1>5, Aside, IdleWritesNothing
<1>. QED
  BY <1>4, <1>5

(* The steps of the handler of a questionnaire.                            *)
LEMMA SoundSaveForm ==
  ASSUME CopiesInv, NEW w \in Workers, SaveForm(w), NEW r \in DOMAIN stored' \ unsure'
  PROVE  Sound(r)'
<1>1. CopiesShape /\ at[w] = Unoccupied
  BY DEF CopiesInv, SaveForm
<1>2. PICK f \in DateFormats :
        /\ Do(w, [op |-> "mapping", format |-> f])
        /\ unsure' = unsure \cup IF f = mapped THEN DOMAIN stored ELSE {}
        /\ UNCHANGED <<stored, entity_name, mapped, index, queued>>
  BY DEF SaveForm
<1>3. PICK j : j = [op |-> "mapping", format |-> f]
  OBVIOUS
<1>4. Do(w, j) /\ j.op = "mapping" /\ j.format = f
  BY <1>2, <1>3
<1>5. r \in DOMAIN stored \ unsure /\ r \in Responses /\ Sound(r) /\ f # mapped
  BY <1>1, <1>2 DEF CopiesInv, CopiesShape, Tables
<1>6. at'[w] = j
  BY <1>1, <1>4, Turned
<1>7. Recreating'
  BY <1>2, <1>4, <1>5, <1>6 DEF Recreating
<1>8. ~Writes(at[w], r) /\ ~Writes(j, r)
  BY <1>1, <1>4, IdleWritesNothing DEF Writes
<1>. QED
  BY <1>1, <1>2, <1>4, <1>5, <1>7, <1>8, Aside

LEMMA SoundDeleteMapping ==
  ASSUME CopiesInv, NEW w \in Workers, DeleteMapping(w), NEW r \in DOMAIN stored' \ unsure'
  PROVE  Sound(r)'
<1>1. CopiesShape /\ at[w].op = "mapping"
      /\ UNCHANGED <<stored, entity_name, date_format, queued, unsure>>
  BY DEF CopiesInv, DeleteMapping
<1>2. r \in DOMAIN stored \ unsure /\ r \in Responses /\ Sound(r)
  BY <1>1 DEF CopiesInv, CopiesShape, Tables
<1>3. ~Writes(at[w], r)
  BY <1>1 DEF Writes
<1>4. CASE at[w].format = mapped
  <2>1. UNCHANGED <<mapped, index>> /\ Do(w, Unoccupied)
    BY <1>4 DEF DeleteMapping
  <2>2. at'[w] = Unoccupied /\ \A v \in Workers \ {w} : at'[v] = at[v]
    BY <1>1, <2>1, Turned
  <2>3. Recreating => Recreating'
    BY <1>1, <1>4, <2>1, <2>2 DEF Recreating
  <2>. QED
    BY <1>1, <1>2, <1>3, <2>1, <2>3, Aside, IdleWritesNothing
<1>5. CASE at[w].format # mapped
  <2>1. PICK j : j = [op |-> "queue"]
    OBVIOUS
  <2>2. Do(w, j) /\ j.op = "queue"
    BY <1>5, <2>1 DEF DeleteMapping
  <2>3. Recreating' /\ ~Writes(j, r)
    BY <1>1, <2>2, Turned DEF Recreating, Writes
  <2>. QED
    BY <1>1, <1>2, <1>3, <2>2, <2>3, Aside
<1>. QED
  BY <1>4, <1>5

LEMMA SoundQueuePopulate ==
  ASSUME CopiesInv, NEW w \in Workers, QueuePopulate(w), NEW r \in DOMAIN stored' \ unsure'
  PROVE  Sound(r)'
<1>1. CopiesShape /\ at[w].op = "queue" /\ Do(w, Unoccupied) /\ queued' = queued + 1
      /\ UNCHANGED <<stored, entity_name, date_format, mapped, index, unsure>>
  BY DEF CopiesInv, QueuePopulate
<1>2. r \in DOMAIN stored \ unsure /\ r \in Responses /\ Sound(r)
  BY <1>1 DEF CopiesInv, CopiesShape, Tables
<1>3. Recreating' /\ ~Writes(at[w], r)
  BY <1>1 DEF CopiesShape, Recreating, Writes
<1>. QED
  BY <1>1, <1>2, <1>3, Aside, IdleWritesNothing

(* The steps of the task that writes all copies again.                     *)
LEMMA SoundPopulate ==
  ASSUME CopiesInv, NEW w \in Workers, Populate(w), NEW r \in DOMAIN stored' \ unsure'
  PROVE  Sound(r)'
<1>1. CopiesShape /\ unsure' = Overlapped(w, DOMAIN stored)
      /\ UNCHANGED <<stored, entity_name, date_format, mapped, index>>
  BY DEF CopiesInv, Populate
<1>2. PICK j : j = [op |-> "populate", rows |-> stored]
  OBVIOUS
<1>3. Do(w, j) /\ j.op = "populate" /\ j.rows = stored
  BY <1>2 DEF Populate
<1>4. r \in DOMAIN stored /\ r \in Responses /\ \A v \in Workers \ {w} : ~Writes(at[v], r)
  BY <1>1 DEF CopiesShape, Tables, Overlapped
<1>5. Writes(j, r) /\ KnowsOf(j, r)' /\ WillBeRight(j, r)'
  BY <1>1, <1>3, <1>4 DEF Writes, KnowsOf, WillBeRight
<1>. QED
  BY <1>1, <1>3, <1>4, <1>5, Onward

LEMMA SoundPopulateRow ==
  ASSUME CopiesInv, NEW w \in Workers, PopulateRow(w), NEW r \in DOMAIN stored' \ unsure'
  PROVE  Sound(r)'
<1>1. CopiesShape /\ at[w].op = "populate"
      /\ UNCHANGED <<stored, entity_name, date_format, mapped, index, queued, unsure>>
  BY DEF CopiesInv, PopulateRow
<1>2. PICK s \in DOMAIN at[w].rows :
        Do(w, [op |-> "row", rows |-> at[w].rows, response |-> s,
               entry |-> Entry(s, at[w].rows[s])])
  BY DEF PopulateRow
<1>3. PICK j : j = [op |-> "row", rows |-> at[w].rows, response |-> s,
                    entry |-> Entry(s, at[w].rows[s])]
  OBVIOUS
<1>4. Do(w, j) /\ j.op = "row" /\ j.rows = at[w].rows /\ j.response = s
      /\ j.entry = Entry(s, at[w].rows[s])
  BY <1>2, <1>3
<1>5. r \in DOMAIN stored \ unsure /\ r \in Responses /\ Sound(r)
  BY <1>1 DEF CopiesInv, CopiesShape, Tables
<1>6. Recreating' <=> Recreating
  BY <1>1, <1>4, StillRecreating
<1>7. CASE Writes(at[w], r)
  <2>1. /\ \A v \in Workers \ {w} : ~Writes(at[v], r)
        /\ r \in DOMAIN at[w].rows /\ at[w].rows[r] = stored[r]
    BY <1>1, <1>5, <1>7, Alone DEF KnowsOf, Writes
  <2>2. s = r => j.entry = Entry(r, stored[r])'
    BY <1>1, <1>4, <2>1 DEF Entry
  <2>3. Writes(j, r) /\ KnowsOf(j, r)' /\ WillBeRight(j, r)'
    BY <1>1, <1>4, <2>1, <2>2 DEF Writes, KnowsOf, WillBeRight
  <2>. QED
    BY <1>1, <1>4, <1>5, <2>1, <2>3, Onward
<1>8. CASE ~Writes(at[w], r)
  <2>1. ~Writes(j, r)
    BY <1>1, <1>4, <1>8 DEF Writes
  <2>. QED
    BY <1>1, <1>4, <1>5, <1>6, <1>8, <2>1, Aside
<1>. QED
  BY <1>7, <1>8

LEMMA SoundLandRow ==
  ASSUME CopiesInv, NEW w \in Workers, LandRow(w), NEW r \in DOMAIN stored' \ unsure'
  PROVE  Sound(r)'
<1> DEFINE s == at[w].response
           c == at[w].entry
<1>1. CopiesShape /\ at[w].op = "row" /\ at[w] \in Tasks /\ s \in DOMAIN at[w].rows
      /\ index \in Tables(Copies)
      /\ UNCHANGED <<stored, entity_name, date_format, mapped, queued, unsure>>
  BY DEF CopiesInv, CopiesShape, LandRow
<1>2. s \in Responses /\ c \in Copies
  BY <1>1, TaskFields
<1>3. DOMAIN index' = DOMAIN index \cup {s} /\ index'[s] = c
      /\ \A x \in DOMAIN index \ {s} : index'[x] = index[x]
  <2>1. index' = Put(index, s, c)
    BY DEF LandRow
  <2>. HIDE DEF s, c
  <2>2. index' = Put(index, s, c) /\ s \in Responses /\ c \in Copies /\ index \in Tables(Copies)
    BY <1>1, <1>2, <2>1
  <2>. QED
    BY <2>2, PutCopy
<1> DEFINE rest == [x \in DOMAIN at[w].rows \ {s} |-> at[w].rows[x]]
<1>4. PICK j : j = [op |-> "populate", rows |-> rest]
  OBVIOUS
<1>5. Do(w, j) /\ j.op = "populate" /\ j.rows = rest
  BY <1>4 DEF LandRow
<1>6. DOMAIN rest = DOMAIN at[w].rows \ {s} /\ \A x \in DOMAIN rest : rest[x] = at[w].rows[x]
  OBVIOUS
<1>. HIDE DEF rest
<1>7. r \in DOMAIN stored \ unsure /\ r \in Responses /\ Sound(r)
  BY <1>1 DEF CopiesInv, CopiesShape, Tables
<1>8. Recreating' <=> Recreating
  BY <1>1, <1>5, StillRecreating
<1>9. Writes(at[w], r) => /\ \A v \in Workers \ {w} : ~Writes(at[v], r)
                          /\ r \in DOMAIN at[w].rows /\ at[w].rows[r] = stored[r]
                          /\ ~Recreating => (r = s => c = Entry(r, stored[r]))
  BY <1>1, <1>7, Alone DEF KnowsOf, Writes, WillBeRight
<1>10. CASE Writes(at[w], r) /\ r = s
  <2>1. ~Writes(j, r)
    BY <1>5, <1>6, <1>10 DEF Writes
  <2>2. ~Recreating' => RightCopy(r)'
    BY <1>1, <1>3, <1>8, <1>9, <1>10 DEF RightCopy, Entry
  <2>. QED
    BY <1>1, <1>5, <1>7, <1>9, <1>10, <2>1, <2>2, Onward
<1>11. CASE Writes(at[w], r) /\ r # s
  <2>1. Writes(j, r) /\ KnowsOf(j, r)' /\ WillBeRight(j, r)'
    BY <1>1, <1>5, <1>6, <1>9, <1>11 DEF Writes, KnowsOf, WillBeRight
  <2>. QED
    BY <1>1, <1>5, <1>7, <1>9, <1>11, <2>1, Onward
<1>12. CASE ~Writes(at[w], r)
  <2>1. ~Writes(j, r) /\ r # s
    BY <1>1, <1>5, <1>6, <1>12 DEF Writes
  <2>. QED
    BY <1>1, <1>3, <1>5, <1>7, <1>8, <1>12, <2>1, Aside
<1>. QED
  BY <1>10, <1>11, <1>12

LEMMA SoundPopulated ==
  ASSUME CopiesInv, NEW w \in Workers, Populated(w), NEW r \in DOMAIN stored' \ unsure'
  PROVE  Sound(r)'
<1>1. CopiesShape /\ at[w].op = "populate" /\ DOMAIN at[w].rows = {} /\ Do(w, Unoccupied)
      /\ UNCHANGED <<stored, entity_name, date_format, mapped, index, queued, unsure>>
  BY DEF CopiesInv, Populated
<1>2. r \in DOMAIN stored \ unsure /\ r \in Responses /\ Sound(r)
  BY <1>1 DEF CopiesInv, CopiesShape, Tables
<1>3. (Recreating' <=> Recreating) /\ ~Writes(at[w], r)
  BY <1>1, StillRecreating DEF Unoccupied, Writes
<1>. QED
  BY <1>1, <1>2, <1>3, Aside, IdleWritesNothing

(* A failure spoils what the job was writing, or has it written again.     *)
LEMMA SoundFail ==
  ASSUME CopiesInv, NEW w \in Workers, Fail(w), NEW r \in DOMAIN stored' \ unsure'
  PROVE  Sound(r)'
<1>1. CopiesShape /\ Do(w, Unoccupied)
      /\ UNCHANGED <<stored, entity_name, date_format, mapped, index>>
  BY DEF CopiesInv, Fail
<1>2. CASE /\ at[w].op \in {"populate", "row"}
           /\ queued' = queued + 1
           /\ UNCHANGED unsure
  <2>1. r \in DOMAIN stored \ unsure /\ r \in Responses /\ Sound(r)
    BY <1>1, <1>2 DEF CopiesInv, CopiesShape, Tables
  <2>2. Recreating'
    BY <1>1, <1>2 DEF CopiesShape, Recreating
  <2>3. CASE Writes(at[w], r)
    BY <1>1, <2>1, <2>2, <2>3, Alone, Onward, IdleWritesNothing
  <2>4. CASE ~Writes(at[w], r)
    BY <1>1, <2>1, <2>2, <2>4, Aside, IdleWritesNothing
  <2>. QED
    BY <2>3, <2>4
<1>3. CASE /\ UNCHANGED queued
           /\ unsure' = unsure \cup IF at[w].op \in {"save", "land", "search", "update"}
                                    THEN {x \in DOMAIN stored : Writes(at[w], x)}
                                    ELSE DOMAIN stored
  <2>1. r \in DOMAIN stored \ unsure /\ r \in Responses /\ Sound(r)
    BY <1>1, <1>3 DEF CopiesInv, CopiesShape, Tables
  <2>2. at[w].op \in {"save", "land", "search", "update"} /\ ~Writes(at[w], r)
    BY <1>1, <1>3, <2>1
  <2>3. Recreating' <=> Recreating
    BY <1>1, <1>3, <2>2, StillRecreating DEF Unoccupied
  <2>. QED
    BY <1>1, <2>1, <2>2, <2>3, Aside, IdleWritesNothing
<1>. QED
  BY <1>2, <1>3 DEF Fail

LEMMA CopiesStep == ASSUME CopiesInv, SearchNext PROVE CopiesInv'
<1>1. CopiesShape'
  BY CopiesShapeStep DEF CopiesInv
<1>2. ASSUME NEW r \in DOMAIN stored' \ unsure' PROVE Sound(r)'
  <2>1. ASSUME NEW w \in WebWorkers,
               \/ SaveEntity(w) \/ SearchCopies(w) \/ UpdateCopy(w) \/ Updated(w)
               \/ SaveForm(w) \/ DeleteMapping(w) \/ QueuePopulate(w)
        PROVE  Sound(r)'
    BY <2>1, SoundSaveEntity, SoundSearchCopies, SoundUpdateCopy, SoundUpdated, SoundSaveForm,
       SoundDeleteMapping, SoundQueuePopulate DEF Workers
  <2>2. ASSUME NEW w \in CeleryWorkers,
               Populate(w) \/ PopulateRow(w) \/ LandRow(w) \/ Populated(w)
        PROVE  Sound(r)'
    BY <2>2, SoundPopulate, SoundPopulateRow, SoundLandRow, SoundPopulated DEF Workers
  <2>3. ASSUME NEW w \in Workers, SaveResponse(w) \/ LookUp(w) \/ Land(w) \/ Fail(w)
        PROVE  Sound(r)'
    BY <2>3, SoundSaveResponse, SoundLookUp, SoundLand, SoundFail
  <2>. QED
    BY <2>1, <2>2, <2>3 DEF SearchNext
<1>. QED
  BY <1>1, <1>2 DEF CopiesInv

(* submission_index.py, with the handlers that write copies and the task   *)
(* that writes all again: a response that nobody is writing is listed as   *)
(* it is stored, unless two writers overlapped or a failure spoilt it.     *)
THEOREM CopiesAreRight == SearchSpec => []LogShowsWhatIsStored
<1>1. CopiesInv => LogShowsWhatIsStored
  <2>. SUFFICES ASSUME CopiesInv, queued = 0,
                       \A w \in Workers : at[w].op \notin {"mapping", "queue"},
                       NEW r \in DOMAIN stored \ unsure,
                       \A w \in Workers : ~Writes(at[w], r)
                PROVE  r \in DOMAIN index /\ index[r] = Entry(r, stored[r])
    BY DEF LogShowsWhatIsStored
  <2>1. ~Recreating
    BY DEF Recreating
  <2>. QED
    BY <2>1 DEF CopiesInv, Sound, RightCopy
<1>2. CopiesInv /\ [SearchNext]_searchVars => CopiesInv'
  <2>. SUFFICES ASSUME CopiesInv, [SearchNext]_searchVars PROVE CopiesInv'
    OBVIOUS
  <2>1. CASE SearchNext
    BY <2>1, CopiesStep
  <2>2. CASE UNCHANGED searchVars
    BY <2>2 DEF searchVars, CopiesInv, CopiesShape, Sound, Recreating, KnowsOf, WillBeRight,
       RightButName, RightCopy, Entry
  <2>. QED
    BY <2>1, <2>2
<1>. QED
  BY <1>1, <1>2, CopiesInit, PTL DEF SearchSpec
=============================================================================
