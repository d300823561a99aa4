----------------------- MODULE AccountLifecycleProofs -----------------------
(***************************************************************************)
(* Proofs about AccountLifecycle, for every length of the trial year.      *)
(***************************************************************************)
EXTENDS AccountLifecycle, TLAPS

(* An Organization object whose dates belong to this account: activated    *)
(* when the account was or not yet, changed no earlier, and closed by the  *)
(* nightly job only after the first year.                                  *)
YearOver == first # 0 /\ now - Year >= first

Sound(o) ==
  /\ o.active \in {0, first}
  /\ o.active # 0 => o.changed >= o.active
  /\ o.status = "Deativated" => YearOver

(* The row is sound, and so is every object that is going to be saved.     *)
RowSound     == Exists => Sound(row)
UpgradeSound == pc["upgrade"] \in {"save", "again"} => Sound(copy["upgrade"])
CronSound    == pc["cron"] \in {"users", "save"} => Sound(copy["cron"]) /\ YearOver
LinkSound ==
  /\ first # 0 \/ ~linked => pc["link"] = "idle"
  /\ first # 0 => linked
  /\ pc["link"] = "save" => /\ copy["link"].status = "Activated"
                            /\ copy["link"].active \in 1..now
                            /\ copy["link"].changed = copy["link"].active

LifeInv == TypeOK /\ RowSound /\ UpgradeSound /\ CronSound /\ LinkSound

(* What the actions share: a row that exists has columns, and the         *)
(* constants and the clock are numbers.                                    *)
LEMMA Typed ==
  ASSUME TypeOK
  PROVE  /\ Year \in Nat /\ MaxDay \in Nat
         /\ now \in Nat /\ first \in Nat /\ ranOn \in Nat /\ renewed \in Nat
         /\ Exists => row \in Columns
BY LifecycleAssumption DEF TypeOK, Exists

(* A registered account satisfies the invariant.                           *)
LEMMA LifeInit == Init => LifeInv
<1>. SUFFICES ASSUME Init PROVE LifeInv
  OBVIOUS
<1>1. TypeOK
  <2>1. /\ row \in Columns /\ Registered("Basic") \in Columns
        /\ 1 \in 1..MaxDay
    BY LifecycleAssumption DEF Init, Registered, Columns, Statuses
  <2>2. pc \in [Programs -> Labels] /\ copy \in [Copiers -> Columns]
    BY <2>1 DEF Init, Labels
  <2>3. alone \in BOOLEAN /\ linked \in BOOLEAN
    BY DEF Init
  <2>4. now \in 1..MaxDay /\ ranOn \in 0..now /\ first \in 0..now /\ renewed \in 0..now
    BY <2>1 DEF Init
  <2>. QED
    BY <2>1, <2>2, <2>3, <2>4 DEF Init, TypeOK
<1>2. RowSound /\ UpgradeSound /\ CronSound /\ LinkSound
  BY DEF Init, RowSound, UpgradeSound, CronSound, LinkSound, Sound, Registered, Exists,
         Programs
<1>. QED
  BY <1>1, <1>2 DEF LifeInv

(* The activation link preserves the invariant.                            *)
LEMMA LinkKeepsLifeInv ==
  ASSUME LifeInv, Link
  PROVE  LifeInv'
<1>. USE Typed DEF LifeInv
<1>1. CASE UseLink
  <2>1. TypeOK'
    <3>1. linked' \in BOOLEAN /\ alone' \in BOOLEAN /\ users' \in {"off", "on", "gone"}
      BY <1>1 DEF UseLink, Start, SetUsers, TypeOK
    <3>2. pc' \in [Programs -> Labels]
      BY <1>1 DEF UseLink, Start, TypeOK, Labels
    <3>. QED
      BY <1>1, <3>1, <3>2 DEF UseLink, TypeOK
  <2>2. LinkSound'
    <3>1. pc'["link"] = "load" /\ linked' /\ first' = first /\ first = 0
      BY <1>1 DEF UseLink, Start, LinkSound, TypeOK, Programs
    <3>. QED
      BY <3>1 DEF LinkSound
  <2>3. RowSound' /\ UpgradeSound' /\ CronSound'
    BY <1>1 DEF UseLink, Start, TypeOK, Programs, RowSound, UpgradeSound, CronSound,
                Sound, YearOver, Exists
  <2>. QED
    BY <2>1, <2>2, <2>3
<1>2. CASE LoadForActivation
  <2> DEFINE activated == [row EXCEPT !.active = now, !.changed = now, !.status = "Activated"]
  <2>0. Exists => /\ activated \in Columns
                  /\ activated.active = now /\ activated.changed = now
                  /\ activated.status = "Activated"
    BY DEF Columns, Statuses
  <2>1. TypeOK'
    <3>1. copy' \in [Copiers -> Columns]
      BY <1>2, <2>0 DEF LoadForActivation, TypeOK
    <3>2. pc' \in [Programs -> Labels]
      BY <1>2 DEF LoadForActivation, Go, TypeOK, Labels
    <3>. QED
      BY <1>2, <3>1, <3>2 DEF LoadForActivation, Go, TypeOK
  <2>2. LinkSound'
    <3>1. pc["link"] = "load" /\ linked /\ first = 0 /\ UNCHANGED <<linked, first, now>>
      BY <1>2 DEF LoadForActivation, LinkSound
    <3>2. pc'["link"] = "save" => copy'["link"] = activated /\ Exists
      BY <1>2 DEF LoadForActivation, Go, TypeOK, Programs, Copiers
    <3>3. now \in 1..now
      BY DEF TypeOK
    <3>. QED
      BY <3>1, <3>2, <3>3, <2>0 DEF LinkSound
  <2>3. RowSound' /\ UpgradeSound' /\ CronSound'
    BY <1>2 DEF LoadForActivation, Go, TypeOK, Programs, Copiers, RowSound, UpgradeSound,
                CronSound, Sound, YearOver, Exists
  <2>. QED
    BY <2>1, <2>2, <2>3
<1>3. CASE SaveActivation
  <2>1. first = 0 /\ linked
    BY <1>3 DEF SaveActivation, LinkSound
  <2>2. TypeOK'
    BY <1>3 DEF SaveActivation, SaveRow, Go, TypeOK, LinkSound, Labels, Programs, Copiers
  <2>3. LinkSound'
    BY <1>3, <2>1 DEF SaveActivation, Go, LinkSound, TypeOK, Programs
  <2>4. RowSound'
    BY <1>3 DEF SaveActivation, SaveRow, RowSound, Sound, LinkSound, TypeOK, Columns, Copiers
  <2>5. UpgradeSound' /\ CronSound'
    BY <1>3, <2>1 DEF SaveActivation, Go, TypeOK, Programs, UpgradeSound, CronSound, Sound,
                      YearOver
  <2>. QED
    BY <2>2, <2>3, <2>4, <2>5
<1>. QED
  BY <1>1, <1>2, <1>3 DEF Link

(* The nightly job, failing or not, preserves the invariant.               *)
LEMMA CronKeepsLifeInv ==
  ASSUME LifeInv, Cron \/ CronFails
  PROVE  LifeInv'
<1>. USE Typed DEF LifeInv
<1>1. CASE CronStart
  <2>1. TypeOK'
    BY <1>1 DEF CronStart, Start, TypeOK, Exists, Labels, Programs, Copiers
  <2>2. LinkSound'
    BY <1>1 DEF CronStart, Start, LinkSound, TypeOK, Programs, Copiers
  <2>3. RowSound' /\ UpgradeSound'
    BY <1>1 DEF CronStart, Start, TypeOK, Programs, Copiers, RowSound, UpgradeSound,
                Sound, YearOver, Exists
  <2>4. CronSound'
    <3>1. CASE Exists /\ row.status = "Activated" /\ Expired(row)
      <4>1. Sound(row) /\ YearOver
        BY <3>1 DEF RowSound, Sound, YearOver, Expired, Columns
      <4>. QED
        BY <1>1, <3>1, <4>1 DEF CronStart, Start, TypeOK, Programs, Copiers, CronSound,
                                Sound, YearOver
    <3>2. CASE ~(Exists /\ row.status = "Activated" /\ Expired(row))
      BY <1>1, <3>2 DEF CronStart, Start, TypeOK, Programs, CronSound
    <3>. QED
      BY <3>1, <3>2
  <2>. QED
    BY <2>1, <2>2, <2>3, <2>4
<1>2. CASE CronUsers
  <2>1. TypeOK'
    BY <1>2 DEF CronUsers, SetUsers, Go, TypeOK, Labels, Programs
  <2>2. LinkSound'
    BY <1>2 DEF CronUsers, Go, LinkSound, TypeOK, Programs
  <2>3. RowSound' /\ UpgradeSound' /\ CronSound'
    BY <1>2 DEF CronUsers, Go, TypeOK, Programs, RowSound, UpgradeSound, CronSound, Sound,
                YearOver, Exists
  <2>. QED
    BY <2>1, <2>2, <2>3
<1>3. CASE CronSave
  <2>1. TypeOK'
    BY <1>3 DEF CronSave, Go, TypeOK, Columns, Statuses, Labels, Programs, Copiers
  <2>2. LinkSound'
    BY <1>3 DEF CronSave, Go, LinkSound, TypeOK, Programs
  <2>3. RowSound'
    BY <1>3 DEF CronSave, RowSound, CronSound, Sound, YearOver, TypeOK, Columns, Copiers
  <2>4. UpgradeSound' /\ CronSound'
    BY <1>3 DEF CronSave, Go, TypeOK, Programs, UpgradeSound, CronSound, Sound, YearOver
  <2>. QED
    BY <2>1, <2>2, <2>3, <2>4
<1>4. CASE CronFails
  <2>1. TypeOK'
    BY <1>4 DEF CronFails, Go, TypeOK, Labels, Programs
  <2>2. LinkSound'
    BY <1>4 DEF CronFails, Go, LinkSound, TypeOK, Programs
  <2>3. RowSound' /\ UpgradeSound' /\ CronSound'
    BY <1>4 DEF CronFails, Go, TypeOK, Programs, RowSound, UpgradeSound, CronSound, Sound,
                YearOver, Exists
  <2>. QED
    BY <2>1, <2>2, <2>3
<1>. QED
  BY <1>1, <1>2, <1>3, <1>4 DEF Cron

(* The upgrade preserves the invariant.                                    *)
LEMMA UpgradeKeepsLifeInv ==
  ASSUME LifeInv, Upgrade
  PROVE  LifeInv'
<1>. USE Typed DEF LifeInv
<1>1. CASE RequestUpgrade
  <2>1. TypeOK'
    BY <1>1 DEF RequestUpgrade, Start, TypeOK, Labels, Programs
  <2>2. LinkSound'
    BY <1>1 DEF RequestUpgrade, Start, LinkSound, TypeOK, Programs
  <2>3. RowSound' /\ UpgradeSound' /\ CronSound'
    BY <1>1 DEF RequestUpgrade, Start, TypeOK, Programs, RowSound, UpgradeSound, CronSound,
                Sound, YearOver, Exists
  <2>. QED
    BY <2>1, <2>2, <2>3
<1>2. CASE LoadForUpgrade
  <2>1. TypeOK'
    BY <1>2 DEF LoadForUpgrade, Go, TypeOK, Columns, Labels, Programs, Copiers
  <2>2. LinkSound'
    BY <1>2 DEF LoadForUpgrade, Go, LinkSound, TypeOK, Programs, Copiers
  <2>3. RowSound' /\ CronSound'
    BY <1>2 DEF LoadForUpgrade, Go, TypeOK, Programs, Copiers, RowSound, CronSound, Sound,
                YearOver, Exists
  <2>4. UpgradeSound'
    BY <1>2 DEF LoadForUpgrade, Go, TypeOK, Programs, Copiers, RowSound, UpgradeSound, Sound,
                YearOver, Exists, Columns
  <2>. QED
    BY <2>1, <2>2, <2>3, <2>4
<1>3. CASE SaveUpgrade \/ SaveUpgradeAgain
  <2>1. TypeOK'
    BY <1>3 DEF SaveUpgrade, SaveUpgradeAgain, SaveRow, Go, TypeOK, Labels, Programs, Copiers
  <2>2. LinkSound'
    BY <1>3 DEF SaveUpgrade, SaveUpgradeAgain, Go, LinkSound, TypeOK, Programs
  <2>3. RowSound'
    BY <1>3 DEF SaveUpgrade, SaveUpgradeAgain, SaveRow, RowSound, UpgradeSound, Sound, YearOver
  <2>4. UpgradeSound' /\ CronSound'
    BY <1>3 DEF SaveUpgrade, SaveUpgradeAgain, Go, TypeOK, Programs, UpgradeSound, CronSound,
                Sound, YearOver
  <2>. QED
    BY <2>1, <2>2, <2>3, <2>4
<1>. QED
  BY <1>1, <1>2, <1>3 DEF Upgrade

(* The administrator and the clock preserve the invariant.                 *)
LEMMA AdminKeepsLifeInv ==
  ASSUME LifeInv, Admin \/ NextDay
  PROVE  LifeInv'
<1>. USE Typed DEF LifeInv
<1>1. CASE AdminDeactivates \/ AdminActivates
  <2>0. PICK status \in {"Activated", "Deactivated"} :
          row' = row \/ row' = [row EXCEPT !.status = status, !.changed = now]
    BY <1>1 DEF AdminDeactivates, AdminActivates
  <2>1. TypeOK'
    <3>1. row' \in Columns \cup {NoRow}
      BY <1>1, <2>0 DEF AdminDeactivates, AdminActivates, Columns, Statuses
    <3>2. pc' \in [Programs -> Labels] /\ alone' \in BOOLEAN
      BY <1>1 DEF AdminDeactivates, AdminActivates, Start, TypeOK, Labels
    <3>3. renewed' \in 0..now
      BY <1>1 DEF AdminDeactivates, AdminActivates, TypeOK
    <3>. QED
      BY <1>1, <3>1, <3>2, <3>3 DEF AdminDeactivates, AdminActivates, TypeOK
  <2>2. LinkSound'
    BY <1>1 DEF AdminDeactivates, AdminActivates, Start, LinkSound, TypeOK, Programs
  <2>3. RowSound'
    <3>1. row \in Columns /\ first' = first /\ now' = now
      BY <1>1 DEF AdminDeactivates, AdminActivates
    <3>2. CASE row' = row
      BY <3>1, <3>2 DEF RowSound, Sound, YearOver, Exists
    <3>3. CASE row' = [row EXCEPT !.status = status, !.changed = now]
      <4>1. row'.status = status /\ row'.changed = now /\ row'.active = row.active
        BY <3>1, <3>3 DEF Columns
      <4>2. row.active # 0 => now >= row.active
        BY <1>1 DEF AdminDeactivates, AdminActivates, RowSound, Sound, TypeOK
      <4>3. row.active \in {0, first}
        BY <1>1 DEF AdminDeactivates, AdminActivates, RowSound, Sound
      <4>. QED
        BY <3>1, <4>1, <4>2, <4>3 DEF RowSound, Sound, YearOver
    <3>. QED
      BY <2>0, <3>2, <3>3
  <2>4. UpgradeSound' /\ CronSound'
    BY <1>1 DEF AdminDeactivates, AdminActivates, Start, TypeOK, Programs, UpgradeSound,
                CronSound, Sound, YearOver
  <2>. QED
    BY <2>1, <2>2, <2>3, <2>4
<1>2. CASE AdminSetsUsers \/ AdminDeletes \/ PurgeUsers \/ PurgeRow
  <2>. USE DEF AdminSetsUsers, AdminDeletes, PurgeUsers, PurgeRow
  <2>1. TypeOK'
    BY <1>2 DEF Start, Go, SetUsers, TypeOK, Labels, Programs
  <2>2. LinkSound'
    BY <1>2 DEF Start, Go, LinkSound, TypeOK, Programs
  <2>3. RowSound'
    BY <1>2 DEF RowSound, Sound, YearOver, Exists
  <2>4. UpgradeSound' /\ CronSound'
    BY <1>2 DEF Start, Go, TypeOK, Programs, UpgradeSound, CronSound, Sound, YearOver
  <2>. QED
    BY <2>1, <2>2, <2>3, <2>4
<1>3. CASE NextDay
  <2>1. TypeOK'
    BY <1>3 DEF NextDay, TypeOK
  <2>2. LinkSound'
    BY <1>3 DEF NextDay, LinkSound, TypeOK
  <2>3. RowSound' /\ UpgradeSound' /\ CronSound'
    BY <1>3 DEF NextDay, RowSound, UpgradeSound, CronSound, Sound, YearOver, Exists
  <2>. QED
    BY <2>1, <2>2, <2>3
<1>. QED
  BY <1>1, <1>2, <1>3 DEF Admin

(* Stuttering preserves the invariant.                                     *)
LEMMA StutterKeepsLifeInv ==
  ASSUME LifeInv, UNCHANGED vars
  PROVE  LifeInv'
BY DEF LifeInv, vars, TypeOK, RowSound, UpgradeSound, CronSound, LinkSound, Sound, YearOver,
       Exists

(* The invariant holds throughout.                                         *)
THEOREM AccountsAreSound == Spec => []LifeInv
<1>1. LifeInv /\ [Next]_vars => LifeInv'
  BY LinkKeepsLifeInv, CronKeepsLifeInv, UpgradeKeepsLifeInv, AdminKeepsLifeInv,
     StutterKeepsLifeInv DEF Next
<1>. QED
  BY LifeInit, <1>1, PTL DEF Spec

(* The state keeps its shape.                                              *)
THEOREM LifecycleTypeInvariant == Spec => []TypeOK
<1>1. LifeInv => TypeOK
  BY DEF LifeInv
<1>. QED
  BY AccountsAreSound, <1>1, PTL

(* However the activation link, the upgrade, the administrator and the     *)
(* nightly job (Organization.deactivate) overlap, and whatever stale       *)
(* object is saved last, no account is closed by the job within a year of  *)
(* its first activation.                                                   *)
THEOREM FirstYearIsKept == Spec => []FirstYearKept
<1>1. LifeInv => FirstYearKept
  BY DEF LifeInv, FirstYearKept, RowSound, Sound, YearOver
<1>. QED
  BY AccountsAreSound, <1>1, PTL

-----------------------------------------------------------------------------
(***************************************************************************)
(* Programs that run alone.                                                *)
(***************************************************************************)

(* At most one program runs, what it fetched is still the row, and it has  *)
(* done to the users what its label says.                                  *)
OneRuns == \A p, q \in Programs : pc[p] # "idle" /\ pc[q] # "idle" => p = q

LinkAlone ==
  /\ pc["link"] \in {"load", "save"} /\ Exists => row.active = 0
  /\ pc["link"] = "save" =>
       /\ Exists /\ copy["link"].type = row.type
       /\ copy["link"].changed >= renewed

CronAlone ==
  pc["cron"] \in {"users", "save"} =>
    /\ Exists /\ copy["cron"] = row /\ row.type = "Basic" /\ row.status = "Activated"
    /\ renewed # 0 => now - Year >= renewed
    /\ pc["cron"] = "save" => users # "on"

UpgradeAlone ==
  /\ pc["upgrade"] = "save" => Exists /\ copy["upgrade"] = [row EXCEPT !.type = "Pro"]
  /\ pc["upgrade"] = "again" => Exists /\ copy["upgrade"] = row /\ row.type = "Pro"

AdminAlone ==
  /\ pc["admin"] = "usersOn" => row.status = "Activated"
  /\ pc["admin"] \in {"usersOn", "usersOff"} => Exists

(* The row alone: re-opened accounts carry the day, and a closed account   *)
(* has no active users but while its closing or its activation is under    *)
(* way.                                                                    *)
RowAlone ==
  Exists =>
    /\ row.status = "Activated" => row.changed >= renewed
    /\ row.status = "Deativated" /\ renewed # 0 => now - Year >= renewed
    /\ row.status # "Activated" /\ pc["admin"] # "usersOff" /\ pc["link"] = "idle"
         => users # "on"

Parts == OneRuns /\ LinkAlone /\ CronAlone /\ UpgradeAlone /\ AdminAlone /\ RowAlone

SoloInv ==
  /\ LifeInv
  /\ alone => Parts

(* A row with columns is no missing row.                                   *)
LEMMA ColumnsAreARow == \A o \in Columns : o # NoRow
<1>1. DOMAIN NoRow = {"exists"}
  BY DEF NoRow
<1>2. \A o \in Columns : DOMAIN o = {"type", "status", "active", "changed"}
  BY DEF Columns
<1>. QED
  BY <1>1, <1>2

(* The label of program q when p is at label l and nothing else runs.      *)
OnlyAt(p, l, q) == IF q = p THEN l ELSE "idle"

(* A program that starts and stays alone is the only one at a label.       *)
LEMMA StartAlone ==
  ASSUME TypeOK, NEW p \in Programs, NEW l, Start(p, l), alone'
  PROVE  /\ alone
         /\ \A q \in Programs : pc[q] = "idle" /\ pc'[q] = OnlyAt(p, l, q)
         /\ OneRuns'
<1>1. alone /\ Running = {}
  BY DEF Start
<1>2. \A q \in Programs : pc[q] = "idle"
  BY <1>1 DEF Running
<1>3. \A q \in Programs : pc'[q] = OnlyAt(p, l, q)
  BY <1>2 DEF Start, TypeOK, OnlyAt
<1>. QED
  BY <1>1, <1>2, <1>3 DEF OneRuns, OnlyAt

(* So is one that goes on.                                                 *)
LEMMA GoAlone ==
  ASSUME TypeOK, OneRuns, NEW p \in Programs, NEW l, pc[p] # "idle", Go(p, l)
  PROVE  /\ \A q \in Programs : q # p => pc[q] = "idle"
         /\ \A q \in Programs : pc'[q] = OnlyAt(p, l, q)
         /\ OneRuns'
<1>1. \A q \in Programs : q # p => pc[q] = "idle"
  BY DEF OneRuns
<1>2. \A q \in Programs : pc'[q] = OnlyAt(p, l, q)
  BY <1>1 DEF Go, TypeOK, OnlyAt
<1>. QED
  BY <1>1, <1>2 DEF OneRuns, OnlyAt

(* A registered account satisfies the invariant.                           *)
LEMMA SoloInit == Init => SoloInv
<1>. SUFFICES ASSUME Init PROVE SoloInv
  OBVIOUS
<1>1. \A p \in Programs : pc[p] = "idle"
  BY DEF Init
<1>2. OneRuns /\ LinkAlone /\ CronAlone /\ UpgradeAlone /\ AdminAlone
  BY <1>1 DEF OneRuns, LinkAlone, CronAlone, UpgradeAlone, AdminAlone, Programs
<1>3. RowAlone
  BY DEF Init, RowAlone, Registered
<1>. QED
  BY LifeInit, <1>2, <1>3 DEF SoloInv, Parts

(* The activation link preserves the invariant.                            *)
LEMMA LinkKeepsParts ==
  ASSUME LifeInv, alone => Parts, Link, alone'
  PROVE  Parts'
<1>. USE Typed DEF Programs
<1>0. TypeOK
  BY DEF LifeInv
<1>1. CASE UseLink
  <2>1. alone /\ OneRuns' /\ \A q \in Programs : pc'[q] = OnlyAt("link", "load", q)
    BY <1>0, <1>1, StartAlone DEF UseLink
  <2>2. first = 0
    BY <1>1 DEF UseLink, LifeInv, LinkSound
  <2>3. LinkAlone'
    BY <1>1, <2>1, <2>2 DEF UseLink, LinkAlone, OnlyAt, LifeInv, RowSound, Sound, Exists
  <2>4. CronAlone' /\ UpgradeAlone' /\ AdminAlone'
    BY <2>1 DEF CronAlone, UpgradeAlone, AdminAlone, OnlyAt
  <2>5. RowAlone'
    BY <1>1, <2>1 DEF UseLink, RowAlone, Parts, OnlyAt, Exists
  <2>. QED
    BY <2>1, <2>3, <2>4, <2>5 DEF Parts
<1>2. CASE LoadForActivation
  <2>1. PICK l \in {"save", "idle"} : Go("link", l)
    BY <1>2 DEF LoadForActivation
  <2>2. alone /\ Parts
    BY <2>1 DEF Go
  <2>3. OneRuns' /\ \A q \in Programs : pc'[q] = OnlyAt("link", l, q)
    BY <1>0, <1>2, <2>1, <2>2, GoAlone DEF LoadForActivation, Parts
  <2>4. pc'["link"] = "save" <=> Exists /\ row.active = 0
    BY <1>0, <1>2 DEF LoadForActivation, Go, TypeOK
  <2>5. pc'["link"] = "save" => /\ copy'["link"].type = row.type
                               /\ copy'["link"].changed = now
    BY <1>0, <1>2, <2>4 DEF LoadForActivation, TypeOK, Copiers, Columns
  <2>6. LinkAlone'
    BY <1>0, <1>2, <2>2, <2>3, <2>4, <2>5
    DEF LoadForActivation, LinkAlone, OnlyAt, Parts, TypeOK, Exists
  <2>7. CronAlone' /\ UpgradeAlone' /\ AdminAlone'
    BY <2>3 DEF CronAlone, UpgradeAlone, AdminAlone, OnlyAt
  <2>8. RowAlone'
    <3>1. pc'["link"] = "idle" => ~Exists
      BY <1>2, <2>2, <2>3, <2>4 DEF LoadForActivation, Parts, LinkAlone, OnlyAt
    <3>2. pc["admin"] = "idle" /\ pc'["admin"] = "idle"
      BY <1>0, <1>2, <2>1, <2>2, <2>3, GoAlone DEF LoadForActivation, Parts, OnlyAt
    <3>. QED
      BY <1>2, <2>2, <3>1, <3>2 DEF LoadForActivation, RowAlone, Parts, Exists
  <2>. QED
    BY <2>3, <2>6, <2>7, <2>8 DEF Parts
<1>3. CASE SaveActivation
  <2>1. Go("link", "idle") /\ alone /\ Parts
    BY <1>3 DEF SaveActivation, Go
  <2>2. OneRuns' /\ \A q \in Programs : pc'[q] = "idle"
    BY <1>0, <1>3, <2>1, GoAlone DEF SaveActivation, Parts, OnlyAt
  <2>3. LinkAlone' /\ CronAlone' /\ UpgradeAlone' /\ AdminAlone'
    BY <2>2 DEF LinkAlone, CronAlone, UpgradeAlone, AdminAlone
  <2>4. RowAlone'
    BY <1>3, <2>1 DEF SaveActivation, SaveRow, RowAlone, Parts, LinkAlone, LifeInv, LinkSound
  <2>. QED
    BY <2>2, <2>3, <2>4 DEF Parts
<1>. QED
  BY <1>1, <1>2, <1>3 DEF Link

(* The nightly job preserves the invariant.                                *)
LEMMA CronKeepsParts ==
  ASSUME LifeInv, alone => Parts, Cron \/ CronFails, alone'
  PROVE  Parts'
<1>. USE Typed DEF Programs
<1>0. TypeOK
  BY DEF LifeInv
<1>1. CASE CronStart
  <2> DEFINE due == Exists /\ row.status = "Activated" /\ Expired(row)
  <2>1. Start("cron", IF due THEN "users" ELSE "idle")
    BY <1>1 DEF CronStart
  <2>2. /\ alone /\ OneRuns' /\ \A q \in Programs : pc[q] = "idle"
        /\ \A q \in Programs : pc'[q] = OnlyAt("cron", IF due THEN "users" ELSE "idle", q)
    BY <1>0, <2>1, StartAlone
  <2>3. CronAlone'
    <3>1. CASE due
      <4>1. row.type = "Basic" /\ (renewed # 0 => now - Year >= renewed)
        BY <3>1, <2>2 DEF Expired, Columns, Parts, RowAlone, LifeInv, RowSound, Sound
      <4>2. copy'["cron"] = row
        BY <1>0, <1>1, <3>1 DEF CronStart, TypeOK, Copiers
      <4>. QED
        BY <1>1, <2>2, <3>1, <4>1, <4>2 DEF CronStart, CronAlone, OnlyAt, Exists
    <3>2. CASE ~due
      BY <2>2, <3>2 DEF CronAlone, OnlyAt
    <3>. QED
      BY <3>1, <3>2
  <2>4. LinkAlone' /\ UpgradeAlone' /\ AdminAlone'
    BY <2>2 DEF LinkAlone, UpgradeAlone, AdminAlone, OnlyAt
  <2>5. RowAlone'
    BY <1>1, <2>2 DEF CronStart, RowAlone, Parts, OnlyAt, Exists
  <2>. QED
    BY <2>2, <2>3, <2>4, <2>5 DEF Parts
<1>2. CASE CronUsers
  <2>1. Go("cron", "save") /\ alone /\ Parts
    BY <1>2 DEF CronUsers, Go
  <2>2. OneRuns' /\ \A q \in Programs : pc'[q] = OnlyAt("cron", "save", q)
    BY <1>0, <1>2, <2>1, GoAlone DEF CronUsers, Parts
  <2>3. CronAlone'
    BY <1>2, <2>1, <2>2 DEF CronUsers, CronAlone, SetUsers, Parts, OnlyAt, Exists
  <2>4. LinkAlone' /\ UpgradeAlone' /\ AdminAlone'
    BY <2>2 DEF LinkAlone, UpgradeAlone, AdminAlone, OnlyAt
  <2>5. RowAlone'
    BY <1>2, <2>1 DEF CronUsers, CronAlone, SetUsers, RowAlone, Parts, Exists
  <2>. QED
    BY <2>2, <2>3, <2>4, <2>5 DEF Parts
<1>3. CASE CronSave
  <2>1. Go("cron", "idle") /\ alone /\ Parts
    BY <1>3 DEF CronSave, Go
  <2>2. OneRuns' /\ \A q \in Programs : pc'[q] = "idle"
    BY <1>0, <1>3, <2>1, GoAlone DEF CronSave, Parts, OnlyAt
  <2>3. LinkAlone' /\ CronAlone' /\ UpgradeAlone' /\ AdminAlone'
    BY <2>2 DEF LinkAlone, CronAlone, UpgradeAlone, AdminAlone
  <2>4. RowAlone'
    <3>1. row'.status = "Deativated"
      BY <1>0, <1>3 DEF CronSave, TypeOK, Copiers, Columns
    <3>. QED
      BY <1>3, <2>1, <3>1 DEF CronSave, CronAlone, RowAlone, Parts
  <2>. QED
    BY <2>2, <2>3, <2>4 DEF Parts
<1>4. CASE CronFails
  <2>1. Go("cron", "idle") /\ alone /\ Parts
    BY <1>4 DEF CronFails, Go
  <2>2. /\ OneRuns' /\ \A q \in Programs : pc'[q] = "idle"
        /\ pc["admin"] = "idle" /\ pc["link"] = "idle"
    BY <1>0, <1>4, <2>1, GoAlone DEF CronFails, Parts, OnlyAt
  <2>3. LinkAlone' /\ CronAlone' /\ UpgradeAlone' /\ AdminAlone'
    BY <2>2 DEF LinkAlone, CronAlone, UpgradeAlone, AdminAlone
  <2>4. RowAlone'
    BY <1>4, <2>1, <2>2 DEF CronFails, RowAlone, Parts, Exists
  <2>. QED
    BY <2>2, <2>3, <2>4 DEF Parts
<1>. QED
  BY <1>1, <1>2, <1>3, <1>4 DEF Cron

(* The upgrade preserves the invariant.                                    *)
LEMMA UpgradeKeepsParts ==
  ASSUME LifeInv, alone => Parts, Upgrade, alone'
  PROVE  Parts'
<1>. USE Typed DEF Programs
<1>0. TypeOK
  BY DEF LifeInv
<1>1. CASE RequestUpgrade
  <2>1. /\ alone /\ OneRuns' /\ \A q \in Programs : pc[q] = "idle"
        /\ \A q \in Programs : pc'[q] = OnlyAt("upgrade", "load", q)
    BY <1>0, <1>1, StartAlone DEF RequestUpgrade
  <2>2. LinkAlone' /\ CronAlone' /\ UpgradeAlone' /\ AdminAlone'
    BY <2>1 DEF LinkAlone, CronAlone, UpgradeAlone, AdminAlone, OnlyAt
  <2>3. RowAlone'
    BY <1>1, <2>1 DEF RequestUpgrade, RowAlone, Parts, Exists
  <2>. QED
    BY <2>1, <2>2, <2>3 DEF Parts
<1>2. CASE LoadForUpgrade
  <2>1. PICK l \in {"save", "idle"} : Go("upgrade", l)
    BY <1>2 DEF LoadForUpgrade
  <2>2. alone /\ Parts
    BY <2>1 DEF Go
  <2>3. /\ OneRuns' /\ \A q \in Programs : pc'[q] = OnlyAt("upgrade", l, q)
        /\ pc["admin"] = "idle" /\ pc["link"] = "idle"
    BY <1>0, <1>2, <2>1, <2>2, GoAlone DEF LoadForUpgrade, Parts
  <2>4. LinkAlone' /\ CronAlone' /\ AdminAlone'
    BY <2>3 DEF LinkAlone, CronAlone, AdminAlone, OnlyAt
  <2>5. UpgradeAlone'
    BY <1>0, <1>2, <2>3 DEF LoadForUpgrade, Go, UpgradeAlone, OnlyAt, TypeOK, Copiers, Exists
  <2>6. RowAlone'
    BY <1>2, <2>2, <2>3 DEF LoadForUpgrade, RowAlone, Parts, Exists
  <2>. QED
    BY <2>3, <2>4, <2>5, <2>6 DEF Parts
<1>3. CASE SaveUpgrade \/ SaveUpgradeAgain
  <2>1. PICK l \in {"again", "idle"} : Go("upgrade", l)
    BY <1>3 DEF SaveUpgrade, SaveUpgradeAgain
  <2>2. alone /\ Parts
    BY <2>1 DEF Go
  <2>3. /\ OneRuns' /\ \A q \in Programs : pc'[q] = OnlyAt("upgrade", l, q)
        /\ pc["admin"] = "idle" /\ pc["link"] = "idle"
    BY <1>0, <1>3, <2>1, <2>2, GoAlone DEF SaveUpgrade, SaveUpgradeAgain, Parts
  <2>4. LinkAlone' /\ CronAlone' /\ AdminAlone'
    BY <2>3 DEF LinkAlone, CronAlone, AdminAlone, OnlyAt
  <2>5. /\ row' = copy["upgrade"] /\ copy' = copy /\ Exists /\ row' \in Columns
        /\ row'.type = "Pro" /\ row'.status = row.status /\ row'.changed = row.changed
    BY <1>0, <1>3, <2>2
    DEF SaveUpgrade, SaveUpgradeAgain, SaveRow, Parts, UpgradeAlone, TypeOK, Copiers, Columns
  <2>6. UpgradeAlone'
    BY <2>3, <2>5 DEF UpgradeAlone, OnlyAt, Exists, NoRow, Columns
  <2>7. RowAlone'
    BY <1>3, <2>2, <2>3, <2>5 DEF SaveUpgrade, SaveUpgradeAgain, RowAlone, Parts
  <2>. QED
    BY <2>3, <2>4, <2>6, <2>7 DEF Parts
<1>. QED
  BY <1>1, <1>2, <1>3 DEF Upgrade

(* The administrator and the clock preserve the invariant.                 *)
LEMMA AdminKeepsParts ==
  ASSUME LifeInv, alone => Parts, Admin \/ NextDay, alone'
  PROVE  Parts'
<1>. USE Typed DEF Programs
<1>0. TypeOK
  BY DEF LifeInv
<1>1. CASE AdminDeactivates \/ AdminActivates
  <2>1. PICK l \in {"usersOff", "usersOn"} : Start("admin", l)
    BY <1>1 DEF AdminDeactivates, AdminActivates
  <2>2. /\ alone /\ OneRuns' /\ \A q \in Programs : pc[q] = "idle"
        /\ \A q \in Programs : pc'[q] = OnlyAt("admin", l, q)
    BY <1>0, <2>1, StartAlone
  <2>3. LinkAlone' /\ CronAlone' /\ UpgradeAlone'
    BY <2>2 DEF LinkAlone, CronAlone, UpgradeAlone, OnlyAt
  <2>4. CASE AdminDeactivates
    <3>1. row' \in Columns /\ row'.status = "Deactivated" /\ Exists'
      <4>1. row \in Columns /\ now \in Nat
        BY <1>0, <2>4 DEF AdminDeactivates
      <4>2. row' \in Columns /\ row'.status = "Deactivated"
        BY <4>1, <2>4 DEF AdminDeactivates, Columns, Statuses
      <4>. QED
        BY <4>2, ColumnsAreARow DEF Exists
    <3>2. pc'["admin"] = "usersOff"
      BY <1>0, <2>4 DEF AdminDeactivates, Start, TypeOK
    <3>. QED
      BY <2>2, <2>3, <2>4, <3>1, <3>2 DEF AdminAlone, RowAlone, Parts
  <2>5. CASE AdminActivates
    <3>1. row' \in Columns /\ row'.status = "Activated" /\ Exists'
      <4>1. row \in Columns /\ now \in Nat
        BY <1>0, <2>5 DEF AdminActivates
      <4>2. row' \in Columns /\ row'.status = "Activated"
        BY <4>1, <2>5 DEF AdminActivates, Columns, Statuses
      <4>. QED
        BY <4>2, ColumnsAreARow DEF Exists
    <3>2. pc'["admin"] = "usersOn"
      BY <1>0, <2>5 DEF AdminActivates, Start, TypeOK
    <3>3. row'.changed >= renewed'
      BY <1>0, <2>2, <2>5 DEF AdminActivates, Columns, Parts, RowAlone
    <3>. QED
      BY <2>2, <2>3, <3>1, <3>2, <3>3 DEF AdminAlone, RowAlone, Parts
  <2>. QED
    BY <1>1, <2>4, <2>5
<1>2. CASE AdminDeletes
  <2>1. /\ alone /\ OneRuns' /\ \A q \in Programs : pc[q] = "idle"
        /\ \A q \in Programs : pc'[q] = OnlyAt("admin", "purgeUsers", q)
    BY <1>0, <1>2, StartAlone DEF AdminDeletes
  <2>2. LinkAlone' /\ CronAlone' /\ UpgradeAlone' /\ AdminAlone'
    BY <2>1 DEF LinkAlone, CronAlone, UpgradeAlone, AdminAlone, OnlyAt
  <2>3. RowAlone'
    BY <1>2, <2>1 DEF AdminDeletes, RowAlone, Parts, Exists
  <2>. QED
    BY <2>1, <2>2, <2>3 DEF Parts
<1>3. CASE AdminSetsUsers \/ PurgeUsers \/ PurgeRow
  <2>1. PICK l \in {"idle", "purgeRow"} : Go("admin", l)
    BY <1>3 DEF AdminSetsUsers, PurgeUsers, PurgeRow
  <2>2. alone /\ Parts
    BY <2>1 DEF Go
  <2>3. OneRuns' /\ \A q \in Programs : pc'[q] = OnlyAt("admin", l, q)
    BY <1>0, <1>3, <2>1, <2>2, GoAlone DEF AdminSetsUsers, PurgeUsers, PurgeRow, Parts
  <2>4. LinkAlone' /\ CronAlone' /\ UpgradeAlone' /\ AdminAlone'
    BY <2>3 DEF LinkAlone, CronAlone, UpgradeAlone, AdminAlone, OnlyAt
  <2>5. RowAlone'
    <3>1. CASE AdminSetsUsers
      BY <2>2, <3>1 DEF AdminSetsUsers, SetUsers, RowAlone, AdminAlone, Parts, Exists
    <3>2. CASE PurgeUsers
      BY <2>2, <3>2 DEF PurgeUsers, RowAlone, Parts, Exists
    <3>3. CASE PurgeRow
      BY <3>3 DEF PurgeRow, RowAlone, Exists
    <3>. QED
      BY <1>3, <3>1, <3>2, <3>3
  <2>. QED
    BY <2>3, <2>4, <2>5 DEF Parts
<1>4. CASE NextDay
  <2>1. alone /\ Parts
    BY <1>4 DEF NextDay
  <2>2. OneRuns' /\ LinkAlone' /\ UpgradeAlone' /\ AdminAlone'
    BY <1>4, <2>1
    DEF NextDay, Parts, OneRuns, LinkAlone, UpgradeAlone, AdminAlone, Exists
  <2>3. CronAlone' /\ RowAlone'
    BY <1>0, <1>4, <2>1 DEF NextDay, Parts, CronAlone, RowAlone, TypeOK, Exists
  <2>. QED
    BY <2>2, <2>3 DEF Parts
<1>. QED
  BY <1>1, <1>2, <1>3, <1>4 DEF Admin

(* Stuttering preserves the invariant.                                     *)
LEMMA StutterKeepsParts ==
  ASSUME Parts, UNCHANGED vars
  PROVE  Parts'
BY DEF vars, Parts, OneRuns, LinkAlone, CronAlone, UpgradeAlone, AdminAlone, RowAlone, Exists,
       Running, Programs

(* Unless programs overlap, the invariant about one program holds.         *)
THEOREM AloneIsOrderly == Spec => []SoloInv
<1>1. ASSUME SoloInv, [Next]_vars
      PROVE  SoloInv'
  <2>1. LifeInv /\ (alone => Parts)
    BY <1>1 DEF SoloInv
  <2>2. LifeInv'
    BY <1>1, <2>1, LinkKeepsLifeInv, CronKeepsLifeInv, UpgradeKeepsLifeInv,
       AdminKeepsLifeInv, StutterKeepsLifeInv DEF Next
  <2>3. ASSUME alone'
        PROVE  Parts'
    <3>1. CASE UNCHANGED vars
      BY <2>1, <2>3, <3>1, StutterKeepsParts DEF vars
    <3>2. CASE Next
      BY <2>1, <2>3, <3>2, LinkKeepsParts, CronKeepsParts, UpgradeKeepsParts, AdminKeepsParts
      DEF Next
    <3>. QED
      BY <1>1, <3>1, <3>2
  <2>. QED
    BY <2>2, <2>3 DEF SoloInv, Parts
<1>. QED
  BY SoloInit, <1>1, PTL DEF Spec

(* Unless programs overlapped, the nightly job closes no account within a  *)
(* year of the day the administrator re-opened it (is_expired).            *)
THEOREM RenewalsAreKept == Spec => []RenewalKept
<1>1. SoloInv => RenewalKept
  BY DEF SoloInv, Parts, RenewalKept, RowAlone
<1>. QED
  BY AloneIsOrderly, <1>1, PTL

(* Unless programs overlapped, nobody logs in to a closed account: every   *)
(* path that closes one turns its users off (Organization.deactivate,      *)
(* deactivate_organizations).                                              *)
THEOREM ClosedMeansClosed == Spec => []ClosedForUsers
<1>1. SoloInv => ClosedForUsers
  BY DEF SoloInv, Parts, ClosedForUsers, RowAlone, Running, Programs
<1>. QED
  BY AloneIsOrderly, <1>1, PTL

(* Unless programs overlap, a paid account stays paid and the nightly job  *)
(* leaves it open: the job's object is still the row, which is a trial's.  *)
THEOREM PaidAccountsStayPaid == Spec => PaidStaysPaid
<1>1. ASSUME SoloInv, [Next]_vars, alone', Exists, row.type = "Pro", row' # NoRow
      PROVE  row'.type = "Pro" /\ (row'.status = "Deativated" => row.status = "Deativated")
  <2>1. row \in Columns /\ TypeOK
    BY <1>1, Typed DEF SoloInv, LifeInv
  <2>2. alone
    BY <1>1 DEF Next, Link, Cron, CronFails, Upgrade, Admin, NextDay, UseLink,
                LoadForActivation, SaveActivation, CronStart, CronUsers, CronSave,
                RequestUpgrade, LoadForUpgrade, SaveUpgrade, SaveUpgradeAgain,
                AdminDeactivates, AdminActivates, AdminSetsUsers, AdminDeletes, PurgeUsers,
                PurgeRow, Start, Go, vars
  <2>3. Parts
    BY <1>1, <2>2 DEF SoloInv, Parts
  <2>4. CASE row' = row
    BY <1>1, <2>4
  <2>5. CASE SaveActivation
    BY <1>1, <2>3, <2>5 DEF SaveActivation, SaveRow, Parts, LinkAlone, SoloInv, LifeInv, LinkSound
  <2>6. CASE CronSave
    BY <1>1, <2>3, <2>6 DEF CronSave, Parts, CronAlone
  <2>7. CASE SaveUpgrade \/ SaveUpgradeAgain
    BY <2>1, <2>3, <2>7 DEF SaveUpgrade, SaveUpgradeAgain, SaveRow, Parts, UpgradeAlone, Columns
  <2>8. CASE AdminDeactivates \/ AdminActivates
    BY <1>1, <2>1, <2>8 DEF AdminDeactivates, AdminActivates, Columns
  <2>9. CASE PurgeRow
    BY <1>1, <2>9 DEF PurgeRow
  <2>. QED
    BY <1>1, <2>4, <2>5, <2>6, <2>7, <2>8, <2>9
    DEF Next, Link, Cron, CronFails, Upgrade, Admin, NextDay, UseLink, LoadForActivation,
        CronStart, CronUsers, RequestUpgrade, LoadForUpgrade, AdminSetsUsers, AdminDeletes,
        PurgeUsers, vars
<1>2. SoloInv /\ [Next]_vars
        => [(alone' /\ Exists /\ row.type = "Pro" /\ row' # NoRow)
              => /\ row'.type = "Pro"
                 /\ row'.status = "Deativated" => row.status = "Deativated"]_vars
  BY <1>1
<1>. QED
  BY AloneIsOrderly, <1>2, PTL DEF Spec, PaidStaysPaid
=============================================================================
