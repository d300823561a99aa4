-------------------------- MODULE AccountLifecycle --------------------------
(***************************************************************************)
(* The life of one organization's account: activation by the link in the   *)
(* registration mail, expiry after a trial year, upgrade to a paid plan,   *)
(* and the administrator's deactivate, activate and delete actions.        *)
(*                                                                         *)
(* The activation link, the nightly job and the upgrade load the           *)
(* Organization object, change it and save() ALL its columns; the admin    *)
(* actions update single columns.  The users' is_active flags are written  *)
(* by a separate query.  Nothing puts these queries in one transaction, so *)
(* each of them is one action and the programs interleave between them.    *)
(***************************************************************************)
EXTENDS Integers, FiniteSets

CONSTANTS
  Year,     \* TRIAL_PERIOD_IN_YEAR, in days of the model
  MaxDay    \* bound: the last day, which stands for all later ones

ASSUME LifecycleAssumption == Year \in Nat \ {0} /\ MaxDay \in Nat \ {0}

VARIABLES
  row,      \* the Organization row; a date is a day, 0 for NULL
  users,    \* is_active of the organization's users, or "gone"
  linked,   \* the activation link has been used
  now,      \* today
  ranOn,    \* the day the nightly job last started on, 0 if never
  pc,       \* pc[p]: the next query of program p
  copy,     \* copy[p]: the Organization object p holds in memory
  first,    \* history: the day the account was first activated, or 0
  renewed,  \* history: the last day the administrator re-opened it, or 0
  alone     \* history: no program ever started while another one ran

vars == <<row, users, linked, now, ranOn, pc, copy, first, renewed, alone>>

Programs == {"link", "cron", "upgrade", "admin"}
Copiers  == {"link", "cron", "upgrade"}

(* "Deativated" is what Organization.deactivate writes; the admin action   *)
(* writes "Deactivated".                                                   *)
Statuses == {"Activated", "Deactivated", "Deativated"}
Columns  == [type : {"Basic", "Pro"}, status : Statuses, active : Nat, changed : Nat]
NoRow    == [exists |-> FALSE]

Exists  == row # NoRow
Running == {p \in Programs : pc[p] # "idle"}

(* The row a registration creates: no dates, users not yet active.         *)
Registered(type) == [type |-> type, status |-> "Activated", active |-> 0, changed |-> 0]

Init ==
  /\ \E type \in {"Basic", "Pro"} : row = Registered(type)
  /\ users = "off" /\ linked = FALSE
  /\ now = 1 /\ ranOn = 0
  /\ pc = [p \in Programs |-> "idle"]
  /\ copy = [p \in Copiers |-> Registered("Basic")]
  /\ first = 0 /\ renewed = 0 /\ alone = TRUE

(* Mutants of Expired: the year always runs from the activation date; it   *)
(* ends a day early; only the anniversary itself counts.                   *)
ExpiredSinceActive(o) == o.type = "Basic" /\ o.active # 0 /\ now - Year >= o.active
ExpiredEarly(o) ==
  LET since == IF o.changed # 0 /\ o.status = "Activated" THEN o.changed ELSE o.active
  IN  o.type = "Basic" /\ o.active # 0 /\ now - Year + 1 >= since
ExpiredToday(o) ==
  LET since == IF o.changed # 0 /\ o.status = "Activated" THEN o.changed ELSE o.active
  IN  o.type = "Basic" /\ o.active # 0 /\ now - Year = since

(* is_expired: a trial year has passed since the last status change of an  *)
(* open account, or since the activation of a closed one.                  *)
Expired(o) ==
  LET since == IF o.changed # 0 /\ o.status = "Activated" THEN o.changed ELSE o.active
  IN  o.type = "Basic" /\ o.active # 0 /\ now - Year >= since

-----------------------------------------------------------------------------
Start(p, label) ==
  /\ pc[p] = "idle"
  /\ pc' = [pc EXCEPT ![p] = label]
  /\ alone' = (alone /\ Running = {})

Go(p, label) ==
  /\ pc' = [pc EXCEPT ![p] = label]
  /\ UNCHANGED alone

(* save() of a whole object: an UPDATE, or an INSERT when the row is gone. *)
SaveRow(p) == row' = copy[p]

(* A query on the users' is_active column; deleted users stay deleted.     *)
SetUsers(flag) == users' = IF users = "gone" THEN "gone" ELSE flag

(* The activation link: the registration application makes the user active *)
(* and sends user_activated; initialize_organization fetches the row ...   *)
UseLink ==
  /\ ~linked /\ users # "gone"
  /\ Start("link", "load")
  /\ linked' = TRUE
  /\ SetUsers("on")
  /\ UNCHANGED <<row, now, ranOn, copy, first, renewed>>

LoadForActivation ==
  /\ pc["link"] = "load"
  /\ IF Exists /\ row.active = 0
     THEN /\ Go("link", "save")
          /\ copy' = [copy EXCEPT !["link"] = [row EXCEPT !.active = now, !.changed = now,
                                                          !.status = "Activated"]]
     ELSE Go("link", "idle") /\ UNCHANGED copy
  /\ UNCHANGED <<row, users, linked, now, ranOn, first, renewed>>

(* ... and active_organization saves it with both dates set.               *)
SaveActivation ==
  /\ pc["link"] = "save"
  /\ SaveRow("link")
  /\ first' = copy["link"].active
  /\ Go("link", "idle")
  /\ UNCHANGED <<users, linked, now, ranOn, copy, renewed>>

-----------------------------------------------------------------------------
(* A mutant of CronStart: the query forgets to leave out paid accounts.    *)
CronStartAnyPlan ==
  LET due == Exists /\ row.status = "Activated" /\ Expired([row EXCEPT !.type = "Basic"]) IN
  /\ ranOn < now \/ now = MaxDay
  /\ ranOn' = now
  /\ Start("cron", IF due THEN "users" ELSE "idle")
  /\ copy' = [copy EXCEPT !["cron"] = IF due THEN row ELSE @]
  /\ UNCHANGED <<row, users, linked, now, first, renewed>>

(* The nightly job fetches the open trial accounts that have expired ...   *)
CronStart ==
  LET due == Exists /\ row.status = "Activated" /\ Expired(row) IN
  /\ ranOn < now \/ now = MaxDay
  /\ ranOn' = now
  /\ Start("cron", IF due THEN "users" ELSE "idle")
  /\ copy' = [copy EXCEPT !["cron"] = IF due THEN row ELSE @]
  /\ UNCHANGED <<row, users, linked, now, first, renewed>>

(* A mutant of CronUsers: the users keep their access.                     *)
CronUsersKept ==
  /\ pc["cron"] = "users"
  /\ Go("cron", "save")
  /\ UNCHANGED <<row, users, linked, now, ranOn, copy, first, renewed>>

(* ... deactivate() turns the users off ...                                *)
CronUsers ==
  /\ pc["cron"] = "users"
  /\ SetUsers("off")
  /\ Go("cron", "save")
  /\ UNCHANGED <<row, linked, now, ranOn, copy, first, renewed>>

(* A mutant of CronSave: yet another spelling of the status.               *)
CronSaveMisspelt ==
  /\ pc["cron"] = "save"
  /\ row' = [copy["cron"] EXCEPT !.status = "Deactived"]
  /\ Go("cron", "idle")
  /\ UNCHANGED <<users, linked, now, ranOn, copy, first, renewed>>

(* ... and saves the object it fetched, with the new status.               *)
CronSave ==
  /\ pc["cron"] = "save"
  /\ row' = [copy["cron"] EXCEPT !.status = "Deativated"]
  /\ Go("cron", "idle")
  /\ UNCHANGED <<users, linked, now, ranOn, copy, first, renewed>>

(* The job raises, or the scheduler dies, on this account or an earlier    *)
(* one of the list: the rest waits for the next day.                       *)
CronFails ==
  /\ pc["cron"] # "idle" /\ now < MaxDay
  /\ Go("cron", "idle")
  /\ UNCHANGED <<row, users, linked, now, ranOn, copy, first, renewed>>

-----------------------------------------------------------------------------
(* upgrade, from a session or with the token of a mail, which inactive     *)
(* users have too: is_trial looks at the row ...                           *)
RequestUpgrade ==
  /\ users # "gone" /\ (users = "on" \/ (Exists /\ row.changed # 0))
  /\ Exists /\ row.type = "Basic"
  /\ Start("upgrade", "load")
  /\ UNCHANGED <<row, users, linked, now, ranOn, copy, first, renewed>>

(* ... the view fetches it again; the posted form overwrites the type, or  *)
(* is invalid and nothing is saved ...                                     *)
LoadForUpgrade ==
  /\ pc["upgrade"] = "load"
  /\ \/ /\ Exists
        /\ copy' = [copy EXCEPT !["upgrade"] = [row EXCEPT !.type = "Pro"]]
        /\ Go("upgrade", "save")
     \/ Go("upgrade", "idle") /\ UNCHANGED copy
  /\ UNCHANGED <<row, users, linked, now, ranOn, first, renewed>>

(* ... OrganizationForm.update saves it; if the payment or profile form is *)
(* invalid the view stops here, already on the paid plan ...               *)
SaveUpgrade ==
  /\ pc["upgrade"] = "save"
  /\ SaveRow("upgrade")
  /\ Go("upgrade", "again") \/ Go("upgrade", "idle")
  /\ UNCHANGED <<users, linked, now, ranOn, copy, first, renewed>>

(* ... and otherwise saves the same object once more.                      *)
SaveUpgradeAgain ==
  /\ pc["upgrade"] = "again"
  /\ SaveRow("upgrade")
  /\ Go("upgrade", "idle")
  /\ UNCHANGED <<users, linked, now, ranOn, copy, first, renewed>>

-----------------------------------------------------------------------------
(* deactivate_organizations and activate_organizations: the row is left    *)
(* alone when it has that status already, the users never.                 *)
AdminDeactivates ==
  /\ Exists
  /\ Start("admin", "usersOff")
  /\ row' = IF row.status = "Deactivated" THEN row
            ELSE [row EXCEPT !.status = "Deactivated", !.changed = now]
  /\ UNCHANGED <<users, linked, now, ranOn, copy, first, renewed>>

AdminActivates ==
  /\ Exists
  /\ Start("admin", "usersOn")
  /\ row' = IF row.status = "Activated" THEN row
            ELSE [row EXCEPT !.status = "Activated", !.changed = now]
  /\ renewed' = IF row.status = "Activated" THEN renewed ELSE now
  /\ UNCHANGED <<users, linked, now, ranOn, copy, first>>

AdminSetsUsers ==
  /\ \/ pc["admin"] = "usersOff" /\ SetUsers("off")
     \/ pc["admin"] = "usersOn"  /\ SetUsers("on")
  /\ Go("admin", "idle")
  /\ UNCHANGED <<row, linked, now, ranOn, copy, first, renewed>>

(* delete_organizations: accounts the administrator had closed; users and  *)
(* profiles first, the row last.                                           *)
AdminDeletes ==
  /\ Exists /\ row.status = "Deactivated"
  /\ Start("admin", "purgeUsers")
  /\ UNCHANGED <<row, users, linked, now, ranOn, copy, first, renewed>>

PurgeUsers ==
  /\ pc["admin"] = "purgeUsers"
  /\ users' = "gone"
  /\ Go("admin", "purgeRow")
  /\ UNCHANGED <<row, linked, now, ranOn, copy, first, renewed>>

PurgeRow ==
  /\ pc["admin"] = "purgeRow"
  /\ row' = NoRow
  /\ Go("admin", "idle")
  /\ UNCHANGED <<users, linked, now, ranOn, copy, first, renewed>>

-----------------------------------------------------------------------------
NextDay ==
  /\ now < MaxDay
  /\ now' = now + 1
  /\ UNCHANGED <<row, users, linked, ranOn, pc, copy, first, renewed, alone>>

Link    == UseLink \/ LoadForActivation \/ SaveActivation
Cron    == CronStart \/ CronUsers \/ CronSave
Upgrade == RequestUpgrade \/ LoadForUpgrade \/ SaveUpgrade \/ SaveUpgradeAgain
Admin   == AdminDeactivates \/ AdminActivates \/ AdminSetsUsers
             \/ AdminDeletes \/ PurgeUsers \/ PurgeRow

Next == Link \/ Cron \/ CronFails \/ Upgrade \/ Admin \/ NextDay

Spec == Init /\ [][Next]_vars

(* Days pass, and supervisord keeps the scheduler up, so the nightly job   *)
(* starts and ends.  Nothing makes a user, an administrator or a failure   *)
(* act.                                                                    *)
FairSpec == Spec /\ WF_vars(NextDay) /\ WF_vars(Cron)

-----------------------------------------------------------------------------
Labels == {"idle", "load", "save", "users", "again", "usersOff", "usersOn",
           "purgeUsers", "purgeRow"}

(* The shape of the state.                                                 *)
TypeOK ==
  /\ row \in Columns \cup {NoRow}
  /\ users \in {"off", "on", "gone"}
  /\ {linked, alone} \subseteq BOOLEAN
  /\ now \in 1..MaxDay /\ ranOn \in 0..now
  /\ {first, renewed} \subseteq 0..now
  /\ pc \in [Programs -> Labels]
  /\ copy \in [Copiers -> Columns]

(* However the programs overlap, the nightly job (Organization.deactivate) *)
(* never closes an account in the year that follows its first activation.  *)
FirstYearKept ==
  (Exists /\ row.status = "Deativated") => first # 0 /\ now - Year >= first

(* Nor, unless programs overlapped, in the year after the administrator    *)
(* re-opened it: is_expired counts from status_changed_datetime then.      *)
RenewalKept ==
  (alone /\ Exists /\ row.status = "Deativated" /\ renewed # 0) => now - Year >= renewed

(* Unless programs overlap, a paid account neither falls back to a trial   *)
(* nor is closed by the nightly job.                                       *)
PaidStaysPaid ==
  [][(alone' /\ Exists /\ row.type = "Pro" /\ row' # NoRow)
       => /\ row'.type = "Pro"
          /\ row'.status = "Deativated" => row.status = "Deativated"]_vars

(* Unless programs overlapped, no user of a closed account can log in once *)
(* the program that closed it is done.                                     *)
ClosedForUsers ==
  (alone /\ Running = {} /\ Exists /\ row.status # "Activated") => users # "on"

(* "Upgrade your account to retain full access to your DataWinners         *)
(* Account": the users of a paid account that no administrator closed can  *)
(* log in, even where no programs ever overlapped.                         *)
PaidAccountHasAccess ==
  (alone /\ Running = {} /\ Exists /\ row.type = "Pro" /\ row.active # 0
     /\ row.status # "Deactivated") => users = "on"

(* An open account whose trial year is over does not stay open: the job's  *)
(* failures, skipped days and stale saves only delay it.                   *)
ExpiredOpen == /\ Exists /\ row.type = "Basic" /\ row.status = "Activated"
               /\ row.active # 0 /\ now - Year >= row.changed
ExpiredGetsClosed == ExpiredOpen ~> ~ExpiredOpen
=============================================================================
