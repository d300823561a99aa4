-------------------------- MODULE SubmissionQuota --------------------------
(***************************************************************************)
(* Counting and limiting the submissions of one organization.              *)
(*                                                                         *)
(* Every HTTP request that brings a submission (an SMS relayed by Vumi,    *)
(* the web SMS tester, a web form, a smartphone form, an Excel import) and *)
(* every SMS delivery receipt runs in one of the uwsgi worker processes.   *)
(* It reads the organization's MessageTracker rows, decides, and later     *)
(* increments counters with Django's read-modify-write: fetch the row,     *)
(* add one in memory, save ALL columns.  There is no transaction around a  *)
(* request and PostgreSQL runs at READ COMMITTED, so each query and each   *)
(* save is one action here and the workers interleave between them.        *)
(***************************************************************************)
EXTENDS Integers, Sequences, FiniteSets

CONSTANTS
  Requests,    \* the HTTP requests, each handled once by one worker
  Channel,     \* Channel[r]: the entry point the request calls
  MessageId,   \* MessageId[r]: Vumi's id of the SMS (equal for a redelivery)
  Rows,        \* Rows[r]: valid rows in the uploaded sheet (import only)
  Workers,     \* uwsgi worker processes: requests in flight at once
  MsgLimit,    \* LIMIT_TRIAL_ORG_MESSAGE_COUNT
  SubLimit,    \* LIMIT_TRIAL_ORG_SUBMISSION_COUNT
  NearMsg,     \* NEAR_SMS_LIMIT_TRIGGER
  NearSub,     \* NEAR_SUBMISSION_LIMIT_TRIGGER
  MaxMonth,    \* bound: months the instance runs through
  Events       \* what else happens: a subset of EventKinds

Channels   == {"sms", "websms", "web", "phone", "import", "receipt"}
EventKinds == {"abort", "upgrade", "deactivate", "expire", "month"}

ASSUME QuotaAssumption ==
  /\ IsFiniteSet(Requests)
  /\ Channel \in [Requests -> Channels]
  /\ Rows \in [Requests -> Nat \ {0}]
  /\ Workers \in Nat \ {0}
  /\ {MsgLimit, SubLimit, NearMsg, NearSub, MaxMonth} \subseteq Nat \ {0}
  /\ Events \subseteq EventKinds

(* The columns of MessageTracker that the modelled requests write. *)
Fields == {"incoming_sms_count", "outgoing_sms_count", "sms_registration_count",
           "incoming_web_count", "incoming_sp_count", "outgoing_sms_charged_count"}
Counters == [Fields -> Nat]
NoCounts == [f \in Fields |-> 0]

MailTypes == {"about_to_reach_submission_limit", "about_to_reach_sms_limit",
              "reached_submission_limit"}

VARIABLES
  org,      \* the Organization row: account type and status
  month,    \* the current month
  stamp,    \* stamp[id]: the date in MessageTracker row id
  count,    \* count[id]: the counters in MessageTracker row id
  smsRow,   \* message ids of the saved SMS rows (column is UNIQUE)
  mails,    \* mails sent to the organization's creator, by type
  pc,       \* pc[r]: the next query, save or call of request r
  mem,      \* mem[r]: the objects and values request r holds in memory
  stored,   \* stored[r]: survey responses r has stored in CouchDB
  result,   \* result[r]: how r ended
  applied   \* history: increments performed on row id, by column

envVars   == <<org, month>>
tableVars == <<stamp, count, applied>>
outVars   == <<smsRow, mails, stored>>
vars == <<envVars, tableVars, outVars, pc, mem, result>>

(* What a worker holds of a request: in_trial_mode of its Organization     *)
(* object, the column to increment, its MessageTracker object (id, month   *)
(* and counters), the first aggregate of get_total_submission_count and    *)
(* the sheet rows still to import.  It is gone when the request ends.      *)
Memory == [basic : BOOLEAN, field : Fields, id : Nat, month : Nat, count : Counters,
           acc : Int, left : Int]

Fresh(r) == [basic |-> TRUE, field |-> "incoming_sms_count", id |-> 0, month |-> 0,
             count |-> NoCounts, acc |-> 0, left |-> Rows[r]]

Busy == {r \in Requests : pc[r] \notin {"idle", "done"}}

(* Request r goes on at a label, remembering m, or ends.                   *)
Continue(r, label, m) ==
  /\ pc' = [pc EXCEPT ![r] = label]
  /\ mem' = [mem EXCEPT ![r] = m]
  /\ UNCHANGED result

Finish(r, how) ==
  /\ pc' = [pc EXCEPT ![r] = "done"]
  /\ mem' = [mem EXCEPT ![r] = Fresh(r)]
  /\ result' = [result EXCEPT ![r] = how]

(***************************************************************************)
(* Aggregates.  Django's Sum over all rows of the organization: the total  *)
(* of a column is the number of unit increments its cells hold.            *)
(***************************************************************************)
Units(table, f) == UNION {{id} \X (1..table[id][f]) : id \in DOMAIN table}
Total(table, f) == Cardinality(Units(table, f))

Incoming(table) == Total(table, "incoming_sms_count")
                     + Total(table, "incoming_sp_count")
                     + Total(table, "incoming_web_count")

Net(table) == Incoming(table) - Total(table, "sms_registration_count")

(* The rows _get_message_tracker finds for a month, and the one it takes:  *)
(* the latest date, then the largest id.                                   *)
RowsOf(m) == {id \in DOMAIN stamp : stamp[id].month = m}

IsLatest(id, m) ==
  /\ id \in RowsOf(m)
  /\ \A other \in RowsOf(m) : \/ stamp[other].day < stamp[id].day
                              \/ stamp[other].day = stamp[id].day /\ other <= id

Insert(row) ==
  /\ stamp' = Append(stamp, row)
  /\ count' = Append(count, NoCounts)
  /\ applied' = Append(applied, NoCounts)

(* in_trial_mode and is_expired.                                           *)
InTrial(o) == o.upgrade = "none"
Expired(o) == InTrial(o) /\ o.lapsed

Init ==
  /\ org = [upgrade |-> "none", lapsed |-> FALSE, status |-> "Activated"]
  /\ month = 1
  /\ stamp = <<>> /\ count = <<>> /\ applied = <<>>
  /\ smsRow = {}
  /\ mails = [t \in MailTypes |-> 0]
  /\ pc = [r \in Requests |-> "idle"]
  /\ mem = [r \in Requests |-> Fresh(r)]
  /\ stored = [r \in Requests |-> 0]
  /\ result = [r \in Requests |-> "none"]

-----------------------------------------------------------------------------
(* A worker takes the request and loads the Organization row.              *)

Loaded(r) == [Fresh(r) EXCEPT !.basic = InTrial(org)]

(* find_dbm and process_sms_counter: a deactivated or expired account gets *)
(* the empty answer, a trial account is checked, a paid one is counted.    *)
ArriveSms(r) ==
  /\ Channel[r] = "sms"
  /\ IF org.status = "Deactivated" \/ Expired(org)
     THEN Finish(r, "closed")
     ELSE Continue(r, IF InTrial(org) THEN "msgLimit" ELSE "load", Loaded(r))

(* The web entry points pass the is_not_expired decorator; the smartphone  *)
(* view has no such decorator.  All but the import then ask                *)
(* is_quota_reached, which is FALSE at once for a paid account.            *)
ArriveOnline(r) ==
  /\ Channel[r] \in {"websms", "web", "phone", "import"}
  /\ IF Channel[r] # "phone" /\ Expired(org)
     THEN Finish(r, "closed")
     ELSE Continue(r, IF Channel[r] = "import" THEN "noteIn"
                      ELSE IF InTrial(org) THEN "subIn" ELSE "accept", Loaded(r))

(* A mutant of ArriveReceipt: a receipt polls until its SMS row exists.    *)
ArriveReceiptPolling(r) ==
  /\ Channel[r] = "receipt"
  /\ IF MessageId[r] \in smsRow THEN Finish(r, "ok") ELSE UNCHANGED <<pc, mem, result>>

(* receipt: the SMS row is looked up by message id and saved; a chargeable *)
(* status goes on to the increment, an unknown id only to a message.       *)
ArriveReceipt(r) ==
  /\ Channel[r] = "receipt"
  /\ \/ /\ MessageId[r] \in smsRow
        /\ Continue(r, "load", [Loaded(r) EXCEPT !.field = "outgoing_sms_charged_count"])
     \/ Finish(r, "ok")

Arrive(r) ==
  /\ pc[r] = "idle"
  /\ Cardinality(Busy) < Workers
  /\ ArriveSms(r) \/ ArriveOnline(r) \/ ArriveReceipt(r)
  /\ UNCHANGED <<envVars, tableVars, outVars>>

-----------------------------------------------------------------------------
(* The checks of a trial account, before the submission is accepted.       *)

(* The reply at a limit is translated to the questionnaire's language: an  *)
(* unknown questionnaire code makes that raise, and the request fails.     *)
Refuse(r, reply) ==
  \/ Finish(r, reply)
  \/ Channel[r] = "sms" /\ Finish(r, "failed")

(* A mutant of MsgLimitCheck: the SMS limit is held against all channels.  *)
MsgLimitOnAllChannels(r) ==
  /\ pc[r] = "msgLimit"
  /\ IF Incoming(count) >= MsgLimit
     THEN Refuse(r, "msgLimit")
     ELSE Continue(r, "subIn", mem[r])
  /\ UNCHANGED <<envVars, tableVars, outVars>>

MsgLimitCheck(r) ==
  /\ pc[r] = "msgLimit"
  /\ IF Total(count, "incoming_sms_count") >= MsgLimit
     THEN Refuse(r, "msgLimit")
     ELSE Continue(r, "subIn", mem[r])
  /\ UNCHANGED <<envVars, tableVars, outVars>>

(* get_total_submission_count runs two queries: first the three incoming   *)
(* columns, then the registrations.  The label names what it is for.       *)
SumIncoming(r) ==
  /\ pc[r] \in {"subIn", "noteIn", "nearIn", "fullIn"}
  /\ Continue(r, CASE pc[r] = "subIn"  -> "subReg"
                   [] pc[r] = "noteIn" -> "noteReg"
                   [] pc[r] = "nearIn" -> "nearReg"
                   [] pc[r] = "fullIn" -> "fullReg",
              [mem[r] EXCEPT !.acc = Incoming(count)])
  /\ UNCHANGED <<envVars, tableVars, outVars>>

(* Mutants of SeenNet: registrations are not given back, and off by one.   *)
SeenIncoming(r)  == mem[r].acc
SeenNetButOne(r) == mem[r].acc - Total(count, "sms_registration_count") - 1

SeenNet(r) == mem[r].acc - Total(count, "sms_registration_count")
Summed(r) == [mem[r] EXCEPT !.acc = 0]

(* A mutant of SubLimitCheck: an admitted SMS goes uncounted.              *)
SubLimitUncounted(r) ==
  /\ pc[r] = "subReg"
  /\ IF SeenNet(r) >= SubLimit
     THEN Refuse(r, "subLimit")
     ELSE Continue(r, "accept", Summed(r))
  /\ UNCHANGED <<envVars, tableVars, outVars>>

SubLimitCheck(r) ==
  /\ pc[r] = "subReg"
  /\ IF SeenNet(r) >= SubLimit
     THEN Refuse(r, "subLimit")
     ELSE Continue(r, IF Channel[r] = "sms" THEN "load" ELSE "accept", Summed(r))
  /\ UNCHANGED <<envVars, tableVars, outVars>>

Mailed(types) == [t \in MailTypes |-> mails[t] + (IF t \in types THEN 1 ELSE 0)]

(* has_exceeded_quota_and_notify_users, per sheet row: both mails hang on  *)
(* one count; has_exceeded_submission_limit then counts again.             *)
NotifyOnImport(r) ==
  /\ pc[r] = "noteReg"
  /\ mails' = Mailed(IF ~mem[r].basic THEN {}
                     ELSE {t \in {"about_to_reach_submission_limit"} : SeenNet(r) = NearSub}
                          \cup {t \in {"reached_submission_limit"} : SeenNet(r) = SubLimit})
  /\ Continue(r, IF mem[r].basic THEN "subIn" ELSE "accept", Summed(r))
  /\ UNCHANGED <<envVars, tableVars, smsRow, stored>>

-----------------------------------------------------------------------------
(* Incrementing one column of the current month's tracker.                 *)

(* _get_message_tracker.  The web and smartphone views load the            *)
(* Organization afresh just before.                                        *)
Load(r) ==
  LET now == [mem[r] EXCEPT
                !.basic = IF Channel[r] \in {"web", "phone"} THEN InTrial(org) ELSE @]
  IN
  /\ pc[r] = "load"
  /\ \/ /\ RowsOf(month) = {}
        /\ Continue(r, "create", [now EXCEPT !.month = month])
     \/ \E id \in DOMAIN stamp :
          /\ IsLatest(id, month)
          /\ Continue(r, "save", [now EXCEPT !.id = id, !.count = count[id]])
  /\ UNCHANGED <<envVars, tableVars, outVars>>

(* A mutant of Create: the new object does not learn its primary key.      *)
CreateWithoutKey(r) ==
  /\ pc[r] = "create"
  /\ Insert([month |-> mem[r].month, day |-> 1])
  /\ Continue(r, "save", [mem[r] EXCEPT !.month = 0, !.count = NoCounts])
  /\ UNCHANGED <<envVars, outVars>>

Create(r) ==
  /\ pc[r] = "create"
  /\ Insert([month |-> mem[r].month, day |-> 1])
  /\ Continue(r, "save", [mem[r] EXCEPT !.id = Len(stamp) + 1, !.month = 0,
                                         !.count = NoCounts])
  /\ UNCHANGED <<envVars, outVars>>

(* A mutant of Raised: the increment is added twice.                       *)
RaisedTwice(r, f) == [mem[r].count EXCEPT ![f] = @ + 2]

(* save() writes every column of the object, f one higher than fetched.    *)
Raised(r, f) == [mem[r].count EXCEPT ![f] = @ + 1]

Write(r, f) ==
  /\ count' = [count EXCEPT ![mem[r].id] = Raised(r, f)]
  /\ applied' = [applied EXCEPT ![mem[r].id][f] = @ + 1]
  /\ UNCHANGED stamp

(* The object is dropped after the save.                                   *)
Dropped(r) == [mem[r] EXCEPT !.id = 0, !.count = NoCounts, !.field = "incoming_sms_count"]

(* Where a request goes once its column is saved.                          *)
AfterSave(r) ==
  CASE mem[r].field = "sms_registration_count"  -> "reply"
    [] Channel[r] = "import" /\ mem[r].left > 1 -> "noteIn"
    [] Channel[r] \in {"web", "phone"} /\ mem[r].basic -> "nearIn"
    [] OTHER -> "done"

(* A mutant of Save: the second save uses an object fetched before the     *)
(* first one.                                                              *)
SaveStale(r) ==
  /\ pc[r] = "save"
  /\ Write(r, mem[r].field)
  /\ \/ /\ mem[r].field = "incoming_sms_count"
        /\ Continue(r, "saveOut", mem[r])
     \/ /\ mem[r].field # "incoming_sms_count"
        /\ IF AfterSave(r) = "done"
           THEN Finish(r, "ok")
           ELSE Continue(r, AfterSave(r), [Dropped(r) EXCEPT !.left = mem[r].left - 1])
  /\ UNCHANGED <<envVars, outVars>>

Save(r) ==
  /\ pc[r] = "save"
  /\ Write(r, mem[r].field)
  /\ \/ /\ mem[r].field = "incoming_sms_count"
        /\ Continue(r, "saveOut", [mem[r] EXCEPT !.count = Raised(r, mem[r].field)])
     \/ /\ mem[r].field # "incoming_sms_count"
        /\ IF AfterSave(r) = "done"
           THEN Finish(r, "ok")
           ELSE Continue(r, AfterSave(r), [Dropped(r) EXCEPT !.left = mem[r].left - 1])
  /\ UNCHANGED <<envVars, outVars>>

(* increment_all_message_count saves the same object a second time.        *)
SaveOutgoing(r) ==
  /\ pc[r] = "saveOut"
  /\ Write(r, "outgoing_sms_count")
  /\ Continue(r, IF mem[r].basic THEN "nearIn" ELSE "accept", Dropped(r))
  /\ UNCHANGED <<envVars, outVars>>

-----------------------------------------------------------------------------
(* check_quotas_and_update_users: three comparisons, each with counts of   *)
(* its own; the second one for SMS only.                                   *)

NearSubmissionLimit(r) ==
  /\ pc[r] = "nearReg"
  /\ mails' = Mailed({t \in {"about_to_reach_submission_limit"} : SeenNet(r) = NearSub})
  /\ Continue(r, IF Channel[r] = "sms" THEN "nearSms" ELSE "fullIn", Summed(r))
  /\ UNCHANGED <<envVars, tableVars, smsRow, stored>>

NearSmsLimit(r) ==
  /\ pc[r] = "nearSms"
  /\ mails' = Mailed({t \in {"about_to_reach_sms_limit"} :
                        Total(count, "incoming_sms_count") = NearMsg})
  /\ Continue(r, "fullIn", mem[r])
  /\ UNCHANGED <<envVars, tableVars, smsRow, stored>>

ReachedSubmissionLimit(r) ==
  /\ pc[r] = "fullReg"
  /\ mails' = Mailed({t \in {"reached_submission_limit"} : SeenNet(r) = SubLimit})
  /\ IF Channel[r] = "sms" THEN Continue(r, "accept", Summed(r)) ELSE Finish(r, "ok")
  /\ UNCHANGED <<envVars, tableVars, smsRow, stored>>

-----------------------------------------------------------------------------
(* Handing the submission to the player, and answering.                    *)

(* What the player can make of a message, by channel: a survey response    *)
(* stored or rejected with errors, a questionnaire or subject not found,   *)
(* a subject registered (or refused as a duplicate), another exception.    *)
Outcomes(c) ==
  {"stored", "invalid", "error"}
    \cup (IF c \in {"sms", "websms"} THEN {"notFound", "registration", "duplicate"} ELSE {})

(* Mutants of CountedAs: a rejected smartphone form is counted too, and    *)
(* the web SMS tester gives back registrations it never counted.           *)
CountedIfRejected(c, o) ==
  CASE c = "sms" /\ o \in {"registration", "duplicate"}         -> "sms_registration_count"
    [] c = "websms" /\ o \in {"stored", "invalid", "notFound"}  -> "incoming_web_count"
    [] c = "web" /\ o = "stored"                                -> "incoming_web_count"
    [] c = "import" /\ o \in {"stored", "invalid"}              -> "incoming_web_count"
    [] c = "phone" /\ o \in {"stored", "invalid"}               -> "incoming_sp_count"
    [] OTHER                                                    -> "none"

CountedFromTester(c, o) ==
  CASE c \in {"sms", "websms"} /\ o \in {"registration", "duplicate"} -> "sms_registration_count"
    [] c = "websms" /\ o \in {"stored", "invalid", "notFound"}  -> "incoming_web_count"
    [] c = "web" /\ o = "stored"                                -> "incoming_web_count"
    [] c = "import" /\ o \in {"stored", "invalid"}              -> "incoming_web_count"
    [] c = "phone" /\ o = "stored"                              -> "incoming_sp_count"
    [] OTHER                                                    -> "none"

(* The column an outcome makes the channel increment, if any.              *)
CountedAs(c, o) ==
  CASE c = "sms" /\ o \in {"registration", "duplicate"}         -> "sms_registration_count"
    [] c = "websms" /\ o \in {"stored", "invalid", "notFound"}  -> "incoming_web_count"
    [] c = "web" /\ o = "stored"                                -> "incoming_web_count"
    [] c = "import" /\ o \in {"stored", "invalid"}              -> "incoming_web_count"
    [] c = "phone" /\ o = "stored"                              -> "incoming_sp_count"
    [] OTHER                                                    -> "none"

Accept(r) ==
  /\ pc[r] = "accept"
  /\ \E o \in Outcomes(Channel[r]) :
       LET f == CountedAs(Channel[r], o) IN
       /\ stored' = [stored EXCEPT ![r] = IF o = "stored" THEN @ + 1 ELSE @]
       /\ \/ f # "none" /\ Continue(r, "load", [mem[r] EXCEPT !.field = f])
          \/ f = "none" /\ Channel[r] = "sms" /\ Continue(r, "reply", mem[r])
          \/ f = "none" /\ Channel[r] # "sms" /\ Finish(r, "ok")
  /\ UNCHANGED <<envVars, tableVars, smsRow, mails>>

(* The reply's SMS row; message_id is UNIQUE, so a redelivered message     *)
(* fails here, after it was counted and stored again.                      *)
Reply(r) ==
  /\ pc[r] = "reply"
  /\ IF MessageId[r] \in smsRow THEN Finish(r, "failed") ELSE Finish(r, "answered")
  /\ smsRow' = smsRow \cup {MessageId[r]}
  /\ UNCHANGED <<envVars, tableVars, mails, stored>>

Step(r) ==
  \/ Arrive(r)
  \/ MsgLimitCheck(r) \/ SumIncoming(r) \/ SubLimitCheck(r) \/ NotifyOnImport(r)
  \/ Load(r) \/ Create(r) \/ Save(r) \/ SaveOutgoing(r)
  \/ NearSubmissionLimit(r) \/ NearSmsLimit(r) \/ ReachedSubmissionLimit(r)
  \/ Accept(r) \/ Reply(r)

-----------------------------------------------------------------------------
(* What happens around the requests.                                       *)

(* The request ends in an exception (a mail that cannot be sent, a lost    *)
(* database connection) or its worker is killed: what it saved stays.  An  *)
(* exception while a registration is given back may be caught by           *)
(* submit_to_player, which then replies.                                   *)
Abort(r) ==
  /\ "abort" \in Events
  /\ r \in Busy
  /\ \/ Finish(r, "failed")
     \/ /\ pc[r] \in {"load", "create", "save"}
        /\ mem[r].field = "sms_registration_count"
        /\ Continue(r, "reply", Dropped(r))
  /\ UNCHANGED <<envVars, tableVars, outVars>>

(* upgrade: OrganizationForm.update saves the new account type ...         *)
Upgrade ==
  /\ "upgrade" \in Events
  /\ InTrial(org)
  /\ org' = [org EXCEPT !.upgrade = "saved"]
  /\ UNCHANGED <<month, tableVars, outVars, pc, mem, result>>

(* ... and, if the other forms are valid too, a tracker dated today.       *)
UpgradeTracker ==
  /\ org.upgrade = "saved"
  /\ org' = [org EXCEPT !.upgrade = "done"]
  /\ \E day \in {1, 2} : Insert([month |-> month, day |-> day])
  /\ UNCHANGED <<month, outVars, pc, mem, result>>

(* deactivate_organizations in the admin.                                  *)
Deactivate ==
  /\ "deactivate" \in Events
  /\ org.status = "Activated"
  /\ org' = [org EXCEPT !.status = "Deactivated"]
  /\ UNCHANGED <<month, tableVars, outVars, pc, mem, result>>

(* A year has passed since the account was activated.                      *)
TrialPeriodEnds ==
  /\ "expire" \in Events
  /\ ~org.lapsed
  /\ org' = [org EXCEPT !.lapsed = TRUE]
  /\ UNCHANGED <<month, tableVars, outVars, pc, mem, result>>

NextMonth ==
  /\ "month" \in Events
  /\ month < MaxMonth
  /\ month' = month + 1
  /\ UNCHANGED <<org, tableVars, outVars, pc, mem, result>>

(* The instance ends when every request has been handled.                  *)
Finished ==
  /\ \A r \in Requests : pc[r] = "done"
  /\ UNCHANGED vars

Next ==
  \/ \E r \in Requests : Step(r) \/ Abort(r)
  \/ Upgrade \/ UpgradeTracker \/ Deactivate \/ TrialPeriodEnds \/ NextMonth
  \/ Finished

Spec == Init /\ [][Next]_vars

(* A worker that runs keeps running and a free worker takes a waiting      *)
(* request; nothing makes an upgrade, an expiry or a failure happen.       *)
FairSpec == Spec /\ \A r \in Requests : WF_vars(Step(r))

-----------------------------------------------------------------------------
Labels == {"idle", "msgLimit", "subIn", "subReg", "noteIn", "noteReg", "load", "create",
           "save", "saveOut", "nearIn", "nearReg", "nearSms", "fullIn", "fullReg",
           "accept", "reply", "done"}

Results == {"none", "ok", "answered", "msgLimit", "subLimit", "closed", "failed"}

EnvOK ==
  /\ org \in [upgrade : {"none", "saved", "done"}, lapsed : BOOLEAN,
              status : {"Activated", "Deactivated"}]
  /\ month \in 1..MaxMonth

TableOK ==
  /\ stamp \in Seq([month : Nat, day : {1, 2}])
  /\ count \in Seq(Counters) /\ Len(count) = Len(stamp)
  /\ applied \in Seq(Counters) /\ Len(applied) = Len(stamp)

OutOK ==
  /\ smsRow \subseteq {MessageId[r] : r \in Requests}
  /\ mails \in [MailTypes -> Nat]
  /\ stored \in [Requests -> Nat]

(* A request about to save holds an object that came from a row.           *)
RequestOK ==
  /\ pc \in [Requests -> Labels]
  /\ mem \in [Requests -> Memory]
  /\ \A r \in Requests : pc[r] \in {"save", "saveOut"} => mem[r].id \in 1..Len(stamp)
  /\ result \in [Requests -> Results]

(* The shape of the state.                                                 *)
TypeOK == EnvOK /\ TableOK /\ OutOK /\ RequestOK

(***************************************************************************)
(* Properties of any number of workers.                                    *)
(***************************************************************************)

(* A lost update only ever loses: no cell of MessageTracker is above the   *)
(* number of increments the workers performed on it, whatever stale object *)
(* was saved over it.                                                      *)
NoPhantomCount ==
  \A id \in DOMAIN stamp : \A f \in Fields : count[id][f] <= applied[id][f]

(* An organization is told it used up its SMS only if it did: a refusal at *)
(* the SMS limit (check_quotas_for_trial) follows MsgLimit counted SMS.    *)
SmsRefusalJustified ==
  \A r \in Requests :
    result[r] = "msgLimit" => Total(applied, "incoming_sms_count") >= MsgLimit

(* Responses stored by the requests of some channels, and how many of      *)
(* those requests are between storing and counting.                        *)
StoredBy(channels) ==
  Cardinality(UNION {{r} \X (1..stored[r]) : r \in {q \in Requests : Channel[q] \in channels}})

(* SMS are counted before the player stores them, so, even when a worker   *)
(* dies, no stored response is missing from the performed increments; the  *)
(* form channels count afterwards, so a smartphone form is never counted   *)
(* unless it was stored.                                                   *)
CountedAgainstStored ==
  /\ StoredBy({"sms"}) <= Total(applied, "incoming_sms_count")
                             - Total(applied, "sms_registration_count")
  /\ Total(applied, "incoming_sp_count") <= StoredBy({"phone"})

(***************************************************************************)
(* Properties of one worker: without interleaving the limits are exact.    *)
(***************************************************************************)

(* The counters lose nothing.                                              *)
CountersExact == Workers = 1 => count = applied

(* "With the DataWinners Basic Account, you have up to 1000 free           *)
(* Submissions including 50 SMS Submissions."                              *)
BasicAllowance ==
  InTrial(org) => /\ Total(applied, "incoming_sms_count") <= MsgLimit
                  /\ Net(applied) <= SubLimit

(* Who reads "You have reached the 1000 Submission Limit" has reached it,  *)
(* once no request is being handled any more.                              *)
ReachedMailTruthful ==
  (mails["reached_submission_limit"] > 0 /\ Busy = {}) => Net(applied) >= SubLimit

(* Who is told "You have reached your limit of 1000 free Submissions" has  *)
(* made them.                                                              *)
SubmissionRefusalJustified ==
  \A r \in Requests : result[r] = "subLimit" => Net(applied) >= SubLimit

(* One worker implements the ledger: every submission is admitted, given   *)
(* back or refused against exact counts.                                   *)
Refused == {r \in Requests : result[r] \in {"msgLimit", "subLimit"}}

Ledger == INSTANCE QuotaLedger WITH
            plan     <- IF InTrial(org) THEN "Basic" ELSE "Pro",
            sms      <- Total(count, "incoming_sms_count"),
            other    <- Total(count, "incoming_sp_count") + Total(count, "incoming_web_count"),
            back     <- Total(count, "sms_registration_count"),
            refusals <- Cardinality(Refused)

ImplementsLedger == Ledger!Spec

(***************************************************************************)
(* Liveness.                                                               *)
(***************************************************************************)

(* Every request is handled to its end, however the workers interleave.    *)
EveryRequestEnds == \A r \in Requests : <>(pc[r] = "done")
=============================================================================
