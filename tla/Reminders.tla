----------------------------- MODULE Reminders -----------------------------
(***************************************************************************)
(* The reminders of one paid organization: the nightly job that sends them *)
(* (scheduler/scheduler.py, smsclient.py, Reminder in project/models.py),  *)
(* the users who save the reminder settings of a project                   *)
(* (project/wizard_view.py) or delete it (project/helper.py), and the data *)
(* senders who submit.  One action per query, save or SMS.                 *)
(***************************************************************************)
EXTENDS Deadlines, Sequences, FiniteSets

CONSTANTS
  Projects, Senders, Users,
  None,           \* no project, no document, no row
  Forms,          \* what a user may save: deadline, whether to remind all, reminders
  FirstToday, LastToday, MaxFailures, MaxEdits, MaxSubmissions   \* bounds

Modes        == {"before", "on", "after"}
Kinds        == [mode : Modes, day : 0..31]
ReminderRows == [id : Nat, mode : Modes, day : 0..31]

(* The days have two months before and one after them.                     *)
ASSUME RemindersAssumption ==
  /\ IsFiniteSet(Senders)
  /\ Forms \subseteq [deadline : Deadlines, toAll : BOOLEAN, kinds : SUBSET Kinds]
  /\ \A f \in Forms : \A k, q \in f.kinds : k.mode = q.mode => k = q
  /\ {FirstToday, LastToday, MaxFailures, MaxEdits, MaxSubmissions} \subseteq Nat
  /\ FirstToday <= LastToday
  /\ Months >= 4 /\ FirstDay[3] <= FirstToday /\ LastToday < FirstDay[Months]

VARIABLES
  today,      \* the day
  submitted,  \* {<<project, sender, day>>}: the responses in CouchDB
  project,    \* the project documents: settings, void, revision
  rows,       \* the Reminder rows of each project, in PostgreSQL
  nextId,     \* the next primary key
  ranOn,      \* the day of the last job
  job,        \* what the job holds in memory
  inbox,      \* the SMS each data sender received, oldest first
  logged,     \* ReminderLog documents
  counted,    \* sent_reminders_count of the organization
  request,    \* what the request of each user holds in memory
  edits,      \* requests so far
  failures,   \* failures so far
  spoilt,     \* reminders that met a failure or an edit since today's job started
  orderly     \* no two requests overlapped and none failed half way

jobVars  == <<ranOn, job, inbox, logged, counted>>
userVars == <<project, rows, nextId, request, edits, orderly>>
vars     == <<today, submitted, jobVars, userVars, failures, spoilt>>

NoJob == [at |-> "idle", listed |-> [p \in Projects |-> {}], project |-> None,
          doc |-> None, due |-> {}, row |-> None, list |-> {}, certain |-> TRUE,
          sent |-> 0, total |-> 0]
NoRequest == [at |-> "idle"]

Ids(R) == {r.id : r \in R}
AllIds == UNION {Ids(rows[p]) : p \in Projects}
Spoil(ids) == spoilt' = IF ranOn = today THEN spoilt \cup ids ELSE spoilt
Fails      == failures < MaxFailures /\ failures' = failures + 1

(* The settings of a new project.                                          *)
NewForm == [deadline |-> [frequency |-> "month", day |-> 5, mode |-> "Following"],
            toAll |-> FALSE, kinds |-> {}]

Documents == [form : Forms \cup {NewForm}, void : BOOLEAN, rev : Nat]
Messages  == [project : Projects, row : ReminderRows, form : Forms \cup {NewForm},
              void : BOOLEAN, certain : BOOLEAN, day : FirstToday..LastToday, deadline : Int]

Init ==
  /\ today = FirstToday /\ ranOn = FirstToday - 1
  /\ submitted = {}
  /\ project = [p \in Projects |-> [form |-> NewForm, void |-> FALSE, rev |-> 0]]
  /\ rows = [p \in Projects |-> {}] /\ nextId = 1
  /\ job = NoJob
  /\ inbox = [s \in Senders |-> <<>>]
  /\ logged = 0 /\ counted = 0
  /\ request = [u \in Users |-> NoRequest]
  /\ edits = 0 /\ failures = 0 /\ spoilt = {} /\ orderly = TRUE

-----------------------------------------------------------------------------
(* When a reminder is due (Reminder in project/models.py).                 *)
Delta(r) == CASE r.mode = "before" -> -r.day [] r.mode = "on" -> 0 [] r.mode = "after" -> r.day

ApplicableDeadline(dl, r, n) ==
  IF r.mode = "before" THEN NextDeadline(dl, n) ELSE CurrentDeadline(dl, n)

ShouldBeSentOn(dl, r, n) == n = ApplicableDeadline(dl, r, n) + Delta(r)

(* A mutant of SubmittedIn: the first day of the period is left out.       *)
SubmittedLater(p, period) ==
  {s \in Senders : \E n \in period.start+1 .. period.end : <<p, s, n>> \in submitted}

(* The query returns who submitted on a day of the period.                 *)
SubmittedIn(p, period) ==
  {s \in Senders : \E n \in period.start..period.end : <<p, s, n>> \in submitted}

SenderList(p, form, n) ==
  IF form.toAll THEN Senders ELSE Senders \ SubmittedIn(p, Period(form.deadline, n))

(* Deleting a project voids its responses, which the query may then miss.  *)
Certain(p) ==
  /\ orderly /\ ~project[p].void
  /\ \A u \in Users : request[u].at = "void" => request[u].project # p

-----------------------------------------------------------------------------
(* A mutant of StartNight: the job fires again when it is restarted.       *)
StartNightAgain ==
  /\ job.at = "idle"
  /\ ranOn' = today
  /\ job' = [NoJob EXCEPT !.at = "projects", !.listed = rows]
  /\ UNCHANGED <<today, submitted, inbox, logged, counted, userVars, failures, spoilt>>

(* The nightly job.  It lists the reminders of the organization once, then *)
(* loads one project after the other.                                      *)
StartNight ==
  /\ job.at = "idle" /\ ranOn < today
  /\ ranOn' = today
  /\ job' = [NoJob EXCEPT !.at = "projects", !.listed = rows]
  /\ UNCHANGED <<today, submitted, inbox, logged, counted, userVars, failures, spoilt>>

LoadProject(p) ==
  /\ job.at = "projects" /\ job.listed[p] # {}
  /\ job' = [job EXCEPT
       !.at = "reminders", !.project = p, !.doc = project[p], !.listed[p] = {}, !.total = 0,
       !.due = {r \in job.listed[p] : ShouldBeSentOn(project[p].form.deadline, r, today)}]
  /\ UNCHANGED <<today, submitted, ranOn, inbox, logged, counted, userVars, failures, spoilt>>

EndNight ==
  /\ job.at = "projects" /\ \A p \in Projects : job.listed[p] = {}
  /\ job' = NoJob
  /\ UNCHANGED <<today, submitted, ranOn, inbox, logged, counted, userVars, failures, spoilt>>

(* get_sender_list: with NotADeadLine the reminder is given up.            *)
FetchSenders(r) ==
  /\ job.at = "reminders" /\ r \in job.due
  /\ LET form  == job.doc.form
         n     == ApplicableDeadline(form.deadline, r, today)
         exact == SenderList(job.project, form, n)
     IN  IF form.toAll \/ HasPeriod(form.deadline, n)
         THEN \E list \in SUBSET Senders :
                /\ exact \subseteq list /\ (Certain(job.project) => list = exact)
                /\ job' = [job EXCEPT !.at = "send", !.row = r, !.due = @ \ {r}, !.sent = 0,
                                     !.list = list, !.certain = Certain(job.project)]
         ELSE job' = [job EXCEPT !.due = @ \ {r}]
  /\ UNCHANGED <<today, submitted, ranOn, inbox, logged, counted, userVars, failures, spoilt>>

(* The SMS that leaves: what a data sender finds on the phone.             *)
Message ==
  [project |-> job.project, row |-> job.row, form |-> job.doc.form, void |-> job.doc.void,
   certain |-> job.certain, day |-> today,
   deadline |-> ApplicableDeadline(job.doc.form.deadline, job.row, today)]

Send(s) ==
  /\ job.at = "send" /\ s \in job.list
  /\ inbox' = [inbox EXCEPT ![s] = Append(@, Message)]
  /\ job' = [job EXCEPT !.at = "log", !.list = @ \ {s}, !.sent = @ + 1]
  /\ UNCHANGED <<today, submitted, ranOn, logged, counted, userVars, failures, spoilt>>

Log ==
  /\ job.at = "log"
  /\ logged' = logged + 1
  /\ job' = [job EXCEPT !.at = "send"]
  /\ UNCHANGED <<today, submitted, ranOn, inbox, counted, userVars, failures, spoilt>>

(* A mutant of Refused: what the gateway did not take is counted.          *)
RefusedCounted(s) ==
  /\ job.at = "send" /\ s \in job.list /\ Fails
  /\ job' = [job EXCEPT !.list = @ \ {s}, !.sent = @ + 1]
  /\ Spoil({job.row.id})
  /\ UNCHANGED <<today, submitted, ranOn, inbox, logged, counted, userVars>>

(* send_sms returns False: the gateway did not take the message.           *)
Refused(s) ==
  /\ job.at = "send" /\ s \in job.list /\ Fails
  /\ job' = [job EXCEPT !.list = @ \ {s}]
  /\ Spoil({job.row.id})
  /\ UNCHANGED <<today, submitted, ranOn, inbox, logged, counted, userVars>>

ReminderDone ==
  /\ job.at = "send" /\ job.list = {}
  /\ job' = [job EXCEPT !.at = "reminders", !.row = None, !.certain = TRUE, !.sent = 0,
                        !.total = @ + job.sent]
  /\ UNCHANGED <<today, submitted, ranOn, inbox, logged, counted, userVars, failures, spoilt>>

(* A mutant of ReminderFails: the exception leaves the loop.               *)
ReminderFailsAll ==
  /\ Fails
  /\ job.at \in {"send", "log"}
  /\ job' = [job EXCEPT !.at = "reminders", !.row = None, !.list = {}, !.due = {}, !.sent = 0]
  /\ Spoil({job.row.id})
  /\ UNCHANGED <<today, submitted, ranOn, inbox, logged, counted, userVars>>

(* An exception while one reminder is sent: the next reminder follows, and *)
(* what this one had sent is not added to the total.                       *)
ReminderFails ==
  /\ Fails
  /\ \/ /\ job.at = "reminders"
        /\ \E r \in job.due : /\ job' = [job EXCEPT !.due = @ \ {r}]
                              /\ Spoil({r.id})
     \/ /\ job.at \in {"send", "log"}
        /\ job' = [job EXCEPT !.at = "reminders", !.row = None, !.list = {}, !.certain = TRUE,
                            !.sent = 0]
        /\ Spoil({job.row.id})
  /\ UNCHANGED <<today, submitted, ranOn, inbox, logged, counted, userVars>>

(* org.increment_message_count_for, and the next project.                  *)
CountReminders ==
  /\ job.at = "reminders" /\ job.due = {}
  /\ counted' = counted + job.total
  /\ job' = [NoJob EXCEPT !.at = "projects", !.listed = job.listed]
  /\ UNCHANGED <<today, submitted, ranOn, inbox, logged, userVars, failures, spoilt>>

(* An exception while a project is loaded or counted.                      *)
ProjectFails ==
  /\ Fails
  /\ \/ /\ job.at = "projects"
        /\ \E p \in Projects : /\ job.listed[p] # {}
                               /\ job' = [job EXCEPT !.listed[p] = {}]
                               /\ Spoil(Ids(job.listed[p]))
     \/ /\ job.at = "reminders" /\ job.due = {}
        /\ job' = [NoJob EXCEPT !.at = "projects", !.listed = job.listed]
        /\ UNCHANGED spoilt
  /\ UNCHANGED <<today, submitted, ranOn, inbox, logged, counted, userVars>>

(* The scheduler process dies; it is restarted and fires again tomorrow.   *)
JobDies ==
  /\ job.at # "idle" /\ Fails
  /\ job' = NoJob
  /\ Spoil(AllIds)
  /\ UNCHANGED <<today, submitted, ranOn, inbox, logged, counted, userVars>>

Job ==
  \/ StartNight \/ EndNight \/ Log \/ ReminderDone \/ CountReminders
  \/ \E p \in Projects : LoadProject(p)
  \/ \E p \in Projects : \E r \in job.due : FetchSenders(r)
  \/ \E s \in Senders : Send(s) \/ Refused(s)
  \/ ReminderFails \/ ProjectFails \/ JobDies

-----------------------------------------------------------------------------
(* The users.  A request loads the project document first; CouchDB refuses *)
(* to save a document that was saved by another since.                     *)
Starts(u, p, at, value) ==
  /\ request[u].at = "idle" /\ edits < MaxEdits
  /\ request' = [request EXCEPT ![u] =
       [at |-> at, project |-> p, value |-> value, rev |-> project[p].rev, todo |-> {}]]
  /\ edits' = edits + 1
  /\ orderly' = (orderly /\ \A v \in Users : request[v].at = "idle")
  /\ UNCHANGED <<today, submitted, jobVars, project, rows, nextId, failures, spoilt>>

SaveDocument(u, doc) ==
  LET p == request[u].project
  IN  /\ IF project[p].rev = request[u].rev
         THEN project' = [project EXCEPT ![p] = [doc EXCEPT !.rev = @ + 1]] /\ UNCHANGED orderly
         ELSE UNCHANGED project /\ orderly' = FALSE
      /\ request' = [request EXCEPT ![u] = NoRequest]
      /\ Spoil(Ids(rows[p]))
      /\ UNCHANGED <<today, submitted, jobVars, rows, nextId, edits, failures>>

(* A mutant of DeleteRows: the old rows stay.                              *)
DeleteNoRows(u) ==
  /\ request[u].at = "delete"
  /\ request' = [request EXCEPT ![u].at = "insert", ![u].todo = request[u].value.kinds]
  /\ UNCHANGED <<today, submitted, jobVars, project, rows, nextId, edits, failures, spoilt, orderly>>

(* reminder_settings: the rows are replaced, then the document is saved.   *)
SettingsPosted(u) == \E p \in Projects, f \in Forms : Starts(u, p, "delete", f)

DeleteRows(u) ==
  /\ request[u].at = "delete"
  /\ rows' = [rows EXCEPT ![request[u].project] = {}]
  /\ request' = [request EXCEPT ![u].at = "insert", ![u].todo = request[u].value.kinds]
  /\ UNCHANGED <<today, submitted, jobVars, project, nextId, edits, failures, spoilt, orderly>>

Place == [before |-> 1, on |-> 2, after |-> 3]

(* A mutant of InsertRow: the key of the last row is used again.           *)
InsertRowSameKey(u) ==
  /\ request[u].at = "insert"
  /\ \E k \in request[u].todo :
       /\ rows' = [rows EXCEPT ![request[u].project] =
                     @ \cup {[id |-> nextId, mode |-> k.mode, day |-> k.day]}]
       /\ request' = [request EXCEPT ![u].todo = @ \ {k}]
  /\ Spoil({nextId})
  /\ UNCHANGED <<today, submitted, jobVars, project, nextId, edits, failures, orderly>>

InsertRow(u) ==
  /\ request[u].at = "insert"
  /\ \E k \in request[u].todo :
       /\ \A q \in request[u].todo : Place[k.mode] <= Place[q.mode]
       /\ rows' = [rows EXCEPT ![request[u].project] =
                     @ \cup {[id |-> nextId, mode |-> k.mode, day |-> k.day]}]
       /\ request' = [request EXCEPT ![u].todo = @ \ {k}]
  /\ nextId' = nextId + 1
  /\ Spoil({nextId})
  /\ UNCHANGED <<today, submitted, jobVars, project, edits, failures, orderly>>

SaveSettings(u) ==
  /\ request[u].at = "insert" /\ request[u].todo = {}
  /\ SaveDocument(u, [project[request[u].project] EXCEPT !.form = request[u].value])

(* delete_project and undelete_project: the rows are fetched and saved     *)
(* again, which changes none of their columns, then the document is voided.*)
DeletePosted(u) == \E p \in Projects : Starts(u, p, "fetch", ~project[p].void)

FetchRows(u) ==
  /\ request[u].at = "fetch"
  /\ request' = [request EXCEPT ![u].at = "void", ![u].todo = rows[request[u].project]]
  /\ UNCHANGED <<today, submitted, jobVars, project, rows, nextId, edits, failures, spoilt, orderly>>

VoidReminder(u) ==
  /\ request[u].at = "void"
  /\ \E r \in request[u].todo :
       /\ rows' = [rows EXCEPT ![request[u].project] = @ \cup {r}]
       /\ request' = [request EXCEPT ![u].todo = @ \ {r}]
       /\ Spoil({r.id})
  /\ UNCHANGED <<today, submitted, jobVars, project, nextId, edits, failures, orderly>>

SetVoid(u) ==
  /\ request[u].at = "void" /\ request[u].todo = {}
  /\ SaveDocument(u, [project[request[u].project] EXCEPT !.void = request[u].value])

RequestFails(u) ==
  /\ request[u].at # "idle" /\ Fails
  /\ request' = [request EXCEPT ![u] = NoRequest]
  /\ orderly' = FALSE
  /\ UNCHANGED <<today, submitted, jobVars, project, rows, nextId, edits, spoilt>>

UserStep(u) ==
  \/ SettingsPosted(u) \/ DeleteRows(u) \/ InsertRow(u) \/ SaveSettings(u)
  \/ DeletePosted(u) \/ FetchRows(u) \/ VoidReminder(u) \/ SetVoid(u)
  \/ RequestFails(u)

-----------------------------------------------------------------------------
(* The data senders, and the clock.  A job is over before the day is; a    *)
(* night may pass without one.                                             *)
Submit(s, p) ==
  /\ Cardinality(submitted) < MaxSubmissions
  /\ submitted' = submitted \cup {<<p, s, today>>}
  /\ UNCHANGED <<today, jobVars, userVars, failures, spoilt>>

NextDay ==
  /\ job.at = "idle" /\ today < LastToday
  /\ today' = today + 1
  /\ spoilt' = {}
  /\ UNCHANGED <<submitted, jobVars, userVars, failures>>

Next ==
  \/ Job
  \/ \E u \in Users : UserStep(u)
  \/ \E s \in Senders, p \in Projects : Submit(s, p)
  \/ NextDay

Spec == Init /\ [][Next]_vars

-----------------------------------------------------------------------------
Jobs ==
  [at : {"idle", "projects", "reminders", "send", "log"},
   listed : [Projects -> SUBSET ReminderRows], project : Projects \cup {None},
   doc : Documents \cup {None}, due : SUBSET ReminderRows, row : ReminderRows \cup {None},
   list : SUBSET Senders, certain : BOOLEAN, sent : Nat, total : Nat]

JobOK ==
  /\ job \in Jobs
  /\ job.at \in {"reminders", "send", "log"} => job.project \in Projects /\ job.doc \in Documents
  /\ job.at \in {"send", "log"} => job.row \in ReminderRows

SettingsRequests == [at : {"delete", "insert"}, project : Projects, value : Forms, rev : Nat,
                     todo : SUBSET Kinds]
DeleteRequests   == [at : {"fetch", "void"}, project : Projects, value : BOOLEAN, rev : Nat,
                     todo : SUBSET ReminderRows]

RequestOK(q, next) ==
  \/ q = NoRequest
  \/ q \in SettingsRequests
  \/ q \in DeleteRequests /\ \A r \in q.todo : r.id < next

TypeOK ==
  /\ today \in FirstToday..LastToday /\ ranOn \in FirstToday-1..today
  /\ submitted \subseteq Projects \X Senders \X (FirstToday..today)
  /\ project \in [Projects -> Documents] /\ rows \in [Projects -> SUBSET ReminderRows]
  /\ nextId \in Nat /\ \A p \in Projects : \A r \in rows[p] : r.id < nextId
  /\ JobOK
  /\ inbox \in [Senders -> Seq(Messages)]
  /\ logged \in Nat /\ counted \in Nat /\ edits \in Nat /\ failures \in Nat
  /\ spoilt \subseteq Nat /\ orderly \in BOOLEAN
  /\ DOMAIN request = Users /\ \A u \in Users : RequestOK(request[u], nextId)

-----------------------------------------------------------------------------
(* The dates of the job are what a deadline means: the next deadline is    *)
(* the first one after today, the current one the last one up to today.    *)
DeadlinesInOrder ==
  \A f \in Forms :
    LET dl == f.deadline
        next == NextDeadline(dl, today)
        current == CurrentDeadline(dl, today)
    IN  /\ IsDeadline(dl, next) /\ IsDeadline(dl, current)
        /\ current <= today /\ today < next
        /\ \A n \in current+1 .. next-1 : ~IsDeadline(dl, n)

(* No response falls between the periods of two deadlines or into both.    *)
PeriodsTile ==
  \A f \in Forms :
    LET dl == f.deadline
    IN  Period(dl, NextDeadline(dl, today)).start
          = Period(dl, CurrentDeadline(dl, today)).end + 1

(* A reminder reaches a data sender at most once for a deadline, and never *)
(* for an earlier deadline than before, whatever is edited meanwhile.      *)
OnceADeadline ==
  \A s \in Senders : \A i, j \in DOMAIN inbox[s] :
    /\ i < j
    /\ inbox[s][i].project = inbox[s][j].project /\ inbox[s][i].row = inbox[s][j].row
    => inbox[s][i].deadline < inbox[s][j].deadline

(* Whoever had submitted for the deadline by the day before is not         *)
(* reminded of it, if only the late ones are to be.                        *)
PunctualAreSpared ==
  \A s \in Senders : \A i \in DOMAIN inbox[s] :
    LET m == inbox[s][i]
        period == Period(m.form.deadline, m.deadline)
    IN  m.certain /\ ~m.form.toAll
          => \A n \in period.start .. period.end :
               <<m.project, s, n>> \in submitted => n >= m.day

(* When a night is over, every reminder that was due today, by what a      *)
(* deadline means, has reached every late data sender, whatever happened   *)
(* to other reminders.                                                     *)
Due(dl, r, n) ==
  /\ IsDeadline(dl, n) /\ today = n + Delta(r)
  /\ r.mode = "before" => n > today /\ \A d \in today+1 .. n-1 : ~IsDeadline(dl, d)
  /\ r.mode # "before" => n <= today /\ \A d \in n+1 .. today : ~IsDeadline(dl, d)

Reached(s, p, r, n) ==
  \E i \in DOMAIN inbox[s] :
    LET m == inbox[s][i] IN m.project = p /\ m.row = r /\ m.deadline = n /\ m.day = today

Late(p, form, n) ==
  {s \in Senders : form.toAll \/ s \notin SubmittedIn(p, Period(form.deadline, n))}

AllReached(p) ==
  LET form == project[p].form
      dl   == form.deadline
  IN  \A r \in rows[p] : r.id \notin spoilt =>
        \A n \in MonthsLater(today, -1) - 1 .. MonthsLater(today, 1) + 1 :
          Due(dl, r, n) => \A s \in Late(p, form, n) : Reached(s, p, r, n)

NightOver == job.at = "idle" /\ ranOn = today

LateAreReminded ==
  NightOver => \A p \in Projects :
    InEveryMonth(project[p].form.deadline) \/ project[p].form.toAll => AllReached(p)

(* forms.py:127 and deadline.py:60: day 31 is the last day of the month.   *)
LastDayIsReminded == NightOver => \A p \in Projects : AllReached(p)

(* A project that was deleted before the job loaded it sends no reminder.  *)
DeletedIsSilent == \A s \in Senders : \A i \in DOMAIN inbox[s] : ~inbox[s][i].void

(* Every SMS that is counted was logged, every one logged was sent, and    *)
(* without a failure all three agree when a night is over.                 *)
Received == UNION {{s} \X DOMAIN inbox[s] : s \in Senders}

NothingInvented ==
  /\ counted <= logged /\ logged <= Cardinality(Received)
  /\ NightOver /\ failures = 0 => counted = Cardinality(Received)

(* Unless requests overlapped or failed, the rows are the ones of the      *)
(* settings that the document holds.                                       *)
SettingsTogether ==
  orderly => \A p \in Projects :
    (\A u \in Users : request[u].at # "idle" => request[u].project # p)
      => /\ {[mode |-> r.mode, day |-> r.day] : r \in rows[p]} = project[p].form.kinds
         /\ \A r, q \in rows[p] : r.mode = q.mode /\ r.day = q.day => r = q
=============================================================================
