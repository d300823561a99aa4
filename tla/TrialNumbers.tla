---------------------------- MODULE TrialNumbers ----------------------------
(***************************************************************************)
(* The SMS of all trial organizations arrive at the same number, and a     *)
(* table leads from the number of the sender to the organization.  Each    *)
(* organization has its data senders in a database of its own, so every    *)
(* request that adds, edits, imports or deletes some writes to both, one   *)
(* after the other, and may fail in between.                               *)
(***************************************************************************)
EXTENDS Integers, Functions

CONSTANTS
  Organizations, PhoneNumbers,
  DataSenders,     \* short codes of each organization
  Requests         \* requests that are handled at once

VARIABLES
  in_trial_mode,   \* [organization -> BOOLEAN]
  data_senders,    \* [organization -> [short code -> number]], in its database
  trial_rows,      \* DataSenderOnTrialAccount: [number -> organization]
  request,         \* what each request has still to do: see NoWork
  contested        \* history: numbers that two organizations or requests claimed at once, or
                   \* that a request left between its database and the table

numberVars == <<in_trial_mode, data_senders, trial_rows, request, contested>>

None        == [x \in {} |-> x]
Over(f, g)  == [x \in DOMAIN f \cup DOMAIN g |-> IF x \in DOMAIN g THEN g[x] ELSE f[x]]
Minus(f, S) == [x \in DOMAIN f \ S |-> f[x]]

(* A request writes sheet, [short code -> number], and deletes the rows of *)
(* former numbers; trial is the mode its organization was in when it read. *)
NoWork     == [at |-> "idle", org |-> "none", trial |-> FALSE, sheet |-> None, former |-> {}]
Handled(j) == Range(j.sheet) \cup j.former

NumbersInit ==
  /\ in_trial_mode = [o \in Organizations |-> TRUE]
  /\ data_senders = [o \in Organizations |-> None]
  /\ trial_rows = None
  /\ request = [r \in Requests |-> NoWork]
  /\ contested = {}

(* clean_telephone_number                                                  *)
NumberFree(o, n) == in_trial_mode[o] => n \notin {x \in DOMAIN trial_rows : trial_rows[x] # o}

(* mangrove refuses what another data sender of the organization has.      *)
Acceptable(o, sheet) ==
  /\ IsInjective(sheet)
  /\ \A s \in DOMAIN data_senders[o] \ DOMAIN sheet : data_senders[o][s] \notin Range(sheet)

(* A request begins, and reads the mode of its organization.  Nothing is   *)
(* claimed of what follows a contest.                                      *)
Handle(r, o, at, sheet, former) ==
  LET job == [at |-> at, org |-> o, trial |-> in_trial_mode[o], sheet |-> sheet, former |-> former]
  IN /\ contested = {}   \* bound
     /\ request[r] = NoWork
     /\ request' = [request EXCEPT ![r] = job]
     /\ contested' = contested \cup (Handled(job) \cap UNION {Handled(request[q]) : q \in Requests})

Goes(r, at) ==
  request' = [request EXCEPT ![r] = IF at = "end" THEN NoWork ELSE [@ EXCEPT !.at = at]]
Store(o, sheet) == data_senders' = [data_senders EXCEPT ![o] = Over(@, sheet)]

PostCreate(r) == \E o \in Organizations, n \in PhoneNumbers : \E s \in DataSenders[o] :
  /\ NumberFree(o, n)
  /\ Handle(r, o, "create", [x \in {s} |-> n], {})
  /\ UNCHANGED <<in_trial_mode, data_senders, trial_rows>>

(* process_create_data_sender_form: the row comes first.                   *)
CreateRow(r) ==
  /\ request[r].at = "create"
  /\ trial_rows' = IF request[r].trial
                   THEN Over(trial_rows, [n \in Range(request[r].sheet) |-> request[r].org])
                   ELSE trial_rows
  /\ Goes(r, "create_sender")
  /\ UNCHANGED <<in_trial_mode, data_senders, contested>>

CreateSender(r) ==
  LET o == request[r].org  sheet == request[r].sheet
  IN /\ request[r].at = "create_sender"
     /\ \/ UNCHANGED data_senders
        \/ /\ Acceptable(o, sheet) /\ DOMAIN sheet \cap DOMAIN data_senders[o] = {}
           /\ Store(o, sheet)
     /\ Goes(r, "end")
     /\ UNCHANGED <<in_trial_mode, trial_rows, contested>>

PostEdit(r) == \E o \in Organizations, n \in PhoneNumbers : \E s \in DOMAIN data_senders[o] :
  /\ NumberFree(o, n)
  /\ Handle(r, o, "edit", [x \in {s} |-> n], {data_senders[o][s]})
  /\ UNCHANGED <<in_trial_mode, data_senders, trial_rows>>

EditSender(r) ==
  LET o == request[r].org  sheet == request[r].sheet
  IN /\ request[r].at = "edit"
     /\ \/ UNCHANGED data_senders /\ Goes(r, "end")
        \/ /\ Acceptable(o, sheet) /\ DOMAIN sheet \subseteq DOMAIN data_senders[o]
           /\ Store(o, sheet)
           /\ Goes(r, IF request[r].trial THEN "former_row" ELSE "end")
     /\ UNCHANGED <<in_trial_mode, trial_rows, contested>>

(* A mutant of EditRow: the new row first.                                 *)
EditNewRowFirst(r) ==
  /\ request[r].at = "former_row"
  /\ trial_rows' = Minus(Over(trial_rows, [n \in Range(request[r].sheet) |-> request[r].org]),
                         request[r].former)
  /\ Goes(r, "end")
  /\ UNCHANGED <<in_trial_mode, data_senders, contested>>

(* update_data_sender_from_trial_organization: the row of the former       *)
(* number goes, whoever has it; then the new one is added, by AddRow.      *)
EditRow(r) ==
  /\ request[r].at = "former_row"
  /\ trial_rows' = Minus(trial_rows, request[r].former)
  /\ Goes(r, "rows")
  /\ UNCHANGED <<in_trial_mode, data_senders, contested>>

PostImport(r) == \E o \in Organizations : \E S \in SUBSET DataSenders[o] :
  \E sheet \in [S -> PhoneNumbers] :
  /\ S # {}
  /\ Handle(r, o, "import", sheet, {})
  /\ UNCHANGED <<in_trial_mode, data_senders, trial_rows>>

(* The rows of the sheet that are accepted; no one looks for the numbers   *)
(* of other organizations.                                                 *)
ImportSenders(r) == \E S \in SUBSET DOMAIN request[r].sheet :
  LET o == request[r].org  sheet == [s \in S |-> request[r].sheet[s]]
  IN /\ request[r].at = "import"
     /\ Acceptable(o, sheet) /\ S \cap DOMAIN data_senders[o] = {}
     /\ Store(o, sheet)
     /\ request' = [request EXCEPT ![r] =
          IF in_trial_mode[o] /\ S # {} THEN [@ EXCEPT !.at = "rows", !.sheet = sheet] ELSE NoWork]
     /\ UNCHANGED <<in_trial_mode, trial_rows, contested>>

(* _add_data_sender_to_trial_organization: save, by primary key.  It moves *)
(* a number that another organization has.                                 *)
AddRow(r) == \E s \in DOMAIN request[r].sheet :
  LET n == request[r].sheet[s]  left == Minus(request[r].sheet, {s})
  IN /\ request[r].at = "rows"
     /\ trial_rows' = Over(trial_rows, [x \in {n} |-> request[r].org])
     /\ request' = [request EXCEPT ![r] = IF left = None THEN NoWork ELSE [@ EXCEPT !.sheet = left]]
     /\ contested' = IF n \in DOMAIN trial_rows /\ trial_rows[n] # request[r].org
                     THEN contested \cup {n} ELSE contested
     /\ UNCHANGED <<in_trial_mode, data_senders>>

(* delete_data_senders: all of them from the database, then their rows.    *)
DeleteSenders(r) == \E o \in Organizations : \E S \in SUBSET DOMAIN data_senders[o] :
  /\ S # {}
  /\ Handle(r, o, "delete_rows", None, {data_senders[o][s] : s \in S})
  /\ data_senders' = [data_senders EXCEPT ![o] = Minus(@, S)]
  /\ UNCHANGED <<in_trial_mode, trial_rows>>

(* One at a time; the first that is missing ends the request.              *)
DeleteRow(r) ==
  /\ request[r].at = "delete_rows"
  /\ \/ \E n \in request[r].former \cap DOMAIN trial_rows :
          /\ request[r].trial
          /\ trial_rows' = Minus(trial_rows, {n})
          /\ LET left == request[r].former \ {n}
             IN  request' = [request EXCEPT ![r] = IF left = {} THEN NoWork
                                                   ELSE [@ EXCEPT !.former = left]]
     \/ /\ ~request[r].trial \/ request[r].former \ DOMAIN trial_rows # {}
        /\ Goes(r, "end") /\ UNCHANGED trial_rows
  /\ UNCHANGED <<in_trial_mode, data_senders, contested>>

(* upgrade: the type is saved first, and the rows stay when the form turns *)
(* out to be invalid.                                                      *)
Upgrade(r) == \E o \in Organizations :
  /\ in_trial_mode[o]
  /\ Handle(r, o, "upgrade", None, {})
  /\ in_trial_mode' = [in_trial_mode EXCEPT ![o] = FALSE]
  /\ UNCHANGED <<data_senders, trial_rows>>

UpgradeRows(r) ==
  /\ request[r].at = "upgrade"
  /\ trial_rows' = Minus(trial_rows, {n \in DOMAIN trial_rows : trial_rows[n] = request[r].org})
  /\ Goes(r, "end")
  /\ UNCHANGED <<in_trial_mode, data_senders, contested>>

(* An exception or a killed worker.                                        *)
RequestFails(r) ==
  /\ request[r] # NoWork
  /\ Goes(r, "end")
  /\ contested' = IF request[r].at \in {"former_row", "rows"}
                  THEN contested \cup Handled(request[r]) ELSE contested
  /\ UNCHANGED <<in_trial_mode, data_senders, trial_rows>>

NumbersNext == \E r \in Requests :
  \/ PostCreate(r) \/ CreateRow(r) \/ CreateSender(r)
  \/ PostEdit(r) \/ EditSender(r) \/ EditRow(r)
  \/ PostImport(r) \/ ImportSenders(r) \/ AddRow(r)
  \/ DeleteSenders(r) \/ DeleteRow(r)
  \/ Upgrade(r) \/ UpgradeRows(r) \/ RequestFails(r)

NumbersSpec == NumbersInit /\ [][NumbersNext]_numberVars

-----------------------------------------------------------------------------
(* find_trial_account_organization, for an SMS to the trial number.        *)
LeadsTo(n, o) == n \in DOMAIN trial_rows /\ trial_rows[n] = o

(* The SMS of a data sender of a trial organization reaches it, and so no  *)
(* other one, when no request is at work on the number and the number was  *)
(* never contested: whatever was added, edited, deleted, upgraded or given *)
(* up before by any organization.                                          *)
SmsReachItsOrganization ==
  \A o \in Organizations : in_trial_mode[o] =>
    \A s \in DOMAIN data_senders[o] :
      \/ LeadsTo(data_senders[o][s], o)
      \/ data_senders[o][s] \in contested
      \/ \E r \in Requests : data_senders[o][s] \in Handled(request[r])
=============================================================================
