# TLA+ models of DataWinners

DataWinners is a Django 1.4 application with which organizations collect data by
SMS, web forms, smartphones and Excel sheets.  Accounts, counters and routing
tables live in PostgreSQL, projects, questionnaires and survey responses in
CouchDB (through the `mangrove` library, which is not in this repository), and
lists are served from ElasticSearch.  The pages are jQuery and knockout programs
that keep a state of their own in the browser.

Four things make it hard to get right, and they are what the models are about:

* **No transactions.**  `settings.py` installs no transaction middleware, so each
  query and each `save()` commits alone, and several uwsgi processes
  (`deployment/uwsgi/uwsgi.ini`), the celery workers and the scheduler process
  interleave between them.
* **Whole-object saves.**  `save()` writes every column of an object that may
  have been fetched long before.
* **Effects before checks.**  A message is counted before it is parsed, a mail
  is sent before the outcome is known, a number is routed before its owner is
  accepted.
* **State in the page.**  What a page posts was loaded earlier, and flags, ticks,
  open dialogs and requests under way survive longer than what they were about.

No test of the repository runs two requests at once.

## Inventory

| Component | State | Operations | What is hard | What makes it correct |
|---|---|---|---|---|
| Submission intake and quota (`submission/views.py`, `accountmanagement/models.py`, `xforms/views.py`, `project/submission/submission_import.py`) | `MessageTracker` rows, `SMS` rows, the responses | six entry points: SMS, web SMS tester, web form, smartphone form, Excel import, delivery receipt | read-modify-write counters; check and count in different queries; registrations counted and given back; redelivered SMS | counters lose or invent nothing; a Basic account stays within 1000 submissions and 50 SMS; refusals and mails are true |
| Account lifecycle (`accountmanagement/*`, `deactivate/deactive.py`) | the `Organization` row, `is_active` of its users | activation link, expiry, nightly deactivation, upgrade, administrator's deactivate, activate, delete | stale whole-row saves; status and users in two queries; a job that stops half way | nobody is closed before the year is over; the expired are closed; paid accounts stay paid and usable |
| Dated mails (`scheduler/scheduler.py`) | none of their own | one query per kind and day | exact-date queries, skipped days | each mail once, to the right accounts |
| Deadlines (`scheduler/deadline.py`) | none | next and current deadline, period of a deadline | ends of months, weeks, years | the periods of consecutive deadlines cover every day once |
| Reminders (`scheduler/scheduler.py`, `smsclient.py`, `project/models.py`, `wizard_view.py`) | `Reminder` rows (PostgreSQL), settings in the project document (CouchDB), reminder log, counters | nightly loop over projects, reminders, senders; saving the settings; deleting the project | rows and document saved apart, rows listed once and used later, exceptions half way, counting | the late are reminded once a deadline, the punctual are not, and what is counted was sent |
| Project and questionnaire lifecycle (`project/models.py`, `wizard_view.py`, `helper.py`, `questionnaire_builder.py`) | a project document, a questionnaire document, the responses | edit, rewriting of responses; create, activate, deactivate, test mode, delete | pages that save over one another, codes given again, a celery task that is retried | an answer stands under the code of the question it was given to, and stays |
| Data senders and trial numbers (`entity/helper.py`, `entity/forms.py`, `organization_finder.py`) | each organization's data senders; number -> organization | add, edit, import, delete, upgrade, route | two databases; save by primary key; number stored before the data sender | a number leads to the organization that has its data sender |
| Questionnaire pages (`create_project.js`, `questionnaire_wizard.js`, `create_subject_questionnaire.js`, `questionnaire_view_model.js`, `questionnaire_helper.js`) | the questions, flags about what was changed, open warnings | add, change, remove questions and choices, change the report, save, be refused | flags and warnings that outlive what they were about | losses are confirmed, changes announced, the page is not blocked for good |
| Lists (`dwtable.js`, `datasender_actions.js`, ...) | the page of rows shown, ticks, "all", the action under way | search, turn the page, tick, act | the server searches again; records come and go | an action touches what the page said, and the list shows what there is |
| Imports (`fileuploader.js`, `datasender_import.js`, `import_submission.js`, `entity_import.js`) | files waiting, on their way, the message shown | choose, answer, lose, close | several files, lost answers, a closed dialog | results belong to one file; the list is loaded again |
| Data pages of a project (`submission_results.js`, `submission_analysis_index.js`, ...) | tab, filters, table, charts, hidden form | open a tab, filter, chart, export | answers that overtake one another | rows, charts and files are those of the tab and the filters |
| Edit forms (`data_modified_warning.js`, `edit_submission.js`, `warning_dialog.js`, ...) | what was typed, what was clicked before the warning | edit, follow a link, save, be refused | a wish remembered through saves and reloads | nothing typed is lost silently |
| SMS to many (`broadcast_message.js`, `project/views/views.py`) | numbers, counts of recipients, failed numbers | choose, type, confirm, send, answer | counts of the page, hidden numbers | a message goes where the user agreed |
| Search index (`search/*`, `project/models.py`) | ElasticSearch copies of the responses, with names of data senders and subjects in them; rows of data senders, with names of projects in them; the mapping | post-save handlers, recreation of a mapping, repopulation task | a copy repeats what several documents say; documents and copies are written one after the other, and read long before | the copy ends equal to the documents |
| Subjects, SMS API, feeds, custom reports, location tree, activity log, registration, dashboards, UI, migrations | | | mostly reads, wording or calls of external code | |

`PROJECT.json` lists every component with its files and status, and under
`hazards` each of the places above at its line.

Interactions: the intake asks the account (`in_trial_mode`, `is_expired`,
`status`) before it accepts; an upgrade inserts a `MessageTracker` row under
running requests and deletes the trial numbers; the scheduler process closes
accounts that running requests still hold; the reminders and the SMS API share
`MessageTracker` with the intake; the questionnaire pages post to the view that
rewrites responses; the lists, the imports and the edit forms of data senders
post to the views that keep the trial numbers; every save of a response, a data
sender, a subject, a project or a questionnaire ends in the search index, which
the lists and the data pages are served from.

## Modules

| Module | What it is |
|---|---|
| `QuotaLedger` | abstract: admit, give back, refuse, each in one step against exact counts |
| `SubmissionQuota` | the intake, one action per query, save or call |
| `SubmissionQuotaProofs` | invariants of the intake, proved |
| `SubmissionQuotaRefinement` | one worker implements `QuotaLedger`, proved |
| `MCSubmissionQuota` | its instances for TLC |
| `AccountLifecycle` | one account's row, users and the programs that change them |
| `AccountLifecycleProofs` | its invariants, proved |
| `MCAccountLifecycle` | its instance for TLC |
| `Deadlines` | the date algorithms, for any calendar |
| `Reminders` | the nightly reminders of one organization and the users who edit its projects |
| `RemindersProofs` | what the date algorithms return and the invariants of the reminders, proved |
| `MCReminders` | its instances for TLC, with the calendar of 2012 |
| `QuestionnaireBuilder` | the page on which a questionnaire is written, in its four forms |
| `OptionList` | the choices of a question on that page, and their letters |
| `QuestionnaireStore` | the saved questionnaire, the responses and the task that rewrites them |
| `QuestionnaireProofs` | the invariants of `QuestionnaireBuilder`, `OptionList` and `QuestionnaireStore`, proved |
| `RecordList` | the four lists whose rows are ticked and acted upon |
| `MCRecordList` | its instance for TLC where the lists stand alone |
| `ImportPopup` | the three import dialogs over the upload queue |
| `SubmissionLog` | the log and the analysis of a project: tabs, filters, charts, exports |
| `UnsavedChanges` | the three edit forms that warn before they are left |
| `BroadcastSms` | the page and the view that send an SMS to many |
| `TrialNumbers` | the data senders of several organizations and the table that routes their numbers |
| `SearchIndex` | the copies of a project's responses, the handlers and the task that write them |
| `DataSenderIndex` | the rows of the data senders, which name their projects |
| `DataSenderProofs` | the invariants of `TrialNumbers`, `SearchIndex` and `DataSenderIndex`, proved |
| `WebApplication` | the pages and those parts of the server as one system |
| `WebApplicationProofs` | the invariants of `RecordList`, `ImportPopup`, `SubmissionLog`, `UnsavedChanges` and `BroadcastSms`, and those of the whole, proved |
| `MCWebApplication` | its instance for TLC |

Definitions named "A mutant of X" in the modules are wrong versions of X, used
to see that the properties can fail; nothing else refers to them.

### SubmissionQuota

`count[id]` and `stamp[id]` are the `MessageTracker` rows of one organization,
`smsRow` the `SMS` rows, `stored` the responses in CouchDB.  Every request `r`
has a label `pc[r]` and the objects it holds in memory, `mem[r]`; `Workers`
bounds the requests in flight.  A column of the tracker is summed as Django's
`Sum` does, over all rows.  `applied` is a history variable: it is raised by one
with every increment that a worker performs, so the difference between
`applied` and `count` is what was lost.

| Actions | Code |
|---|---|
| `ArriveSms`, `ArriveOnline`, `ArriveReceipt` | `process_sms_counter`, `find_dbm_for_web_sms`, the views and their decorators, `receipt` |
| `MsgLimitCheck`, `SumIncoming`, `SubLimitCheck`, `Refuse` | `check_quotas_for_trial`, `is_quota_reached`, the two queries of `get_total_submission_count`, the translated reply |
| `NotifyOnImport` | `has_exceeded_quota_and_notify_users`, for each row of a sheet |
| `Load`, `Create`, `Save`, `SaveOutgoing` | `_get_message_tracker`, the increments and the second save of `increment_all_message_count` |
| `NearSubmissionLimit`, `NearSmsLimit`, `ReachedSubmissionLimit` | `check_quotas_and_update_users` |
| `Accept`, `CountedAs`, `Reply` | `submit_to_player`, the form views, the `SMS` row of the reply |
| `Abort` | an exception or a killed worker, at any query; the exception that `submit_to_player` catches |
| `Upgrade`, `UpgradeTracker`, `Deactivate`, `TrialPeriodEnds`, `NextMonth` | what happens around the requests |

What the external player makes of a message is a choice among the outcomes the
code distinguishes.  A response that is edited on the web is stored but not
counted and behaves like `"invalid"` here.  Numbers are abstract: only their
order against the limits matters.

### AccountLifecycle

`row` is the `Organization` row (type, status, `active_date`,
`status_changed_datetime`), `users` the `is_active` flags of its users, which the
code always writes together.  Four programs, `link`, `cron`, `upgrade`, `admin`,
each with a `pc`; the first three save whole objects, `copy[p]`.  The two
spellings of the closed status are the code's: `Organization.deactivate` writes
`"Deativated"`, the administrator `"Deactivated"`, and only the second one is
looked for by `process_sms_counter`, the login form and `delete_organizations`.
`first` and `renewed` remember the days an account was first activated and last
re-opened; `alone` is true as long as no program started while another ran.

### Deadlines and Reminders

A date is the number of its day; the calendar is given by the first days of its
months.  `IsDeadline` says what is meant by a deadline, the other operators are
the methods of `Month`, `Week` and `Deadline`.  `Quarter`, `next_date` and
`current_date` are called by nothing but tests and are left out.

`rows[p]` are the `Reminder` rows of project `p`, `project[p]` its document with
the settings, the `void` flag and the CouchDB revision.  `job` is what the
nightly job holds in memory: `listed`, the rows it fetched at its start, `doc`,
the document it loaded when the project's turn came, `due`, the rows still to be
sent, `list`, the data senders still to be reached by the current one.  `inbox`
is what arrives on the phones, with what the job knew when it sent it.

| Actions | Code |
|---|---|
| `StartNight`, `LoadProject`, `CountReminders`, `EndNight` | `send_reminders`, `send_reminders_for_an_organization` |
| `FetchSenders`, `Send`, `Refused`, `Log`, `ReminderDone` | `send_reminders_on`, `Reminder.get_sender_list`, `SMSClient.send_reminder` |
| `ReminderFails`, `ProjectFails`, `JobDies` | the two `except` clauses and the end of the scheduler process |
| `SettingsPosted`, `DeleteRows`, `InsertRow`, `SaveSettings` | `reminder_settings` |
| `DeletePosted`, `FetchRows`, `VoidReminder`, `SetVoid` | `delete_project`, `undelete_project` |

`has_deadline` is `True` in every document the code creates and nothing changes
it, so its test is not modelled.  `Reminder.void` sets an attribute that is no
column: its `save` writes the row as it was, and inserts it again if another user
deleted it meanwhile, which is what `VoidReminder` does.  Deleting a project also
voids its responses, and the query for punctual data senders, which belongs to
`mangrove`, may then miss some: `certain` records whether it could.  `orderly`
says that no two requests of users overlapped and none failed, `spoilt` collects
the rows that met a failure or an edit since the job of the day started.
`increment_message_count_for` is one step here; its lost updates are the subject
of `SubmissionQuota`.

### The questionnaire: QuestionnaireBuilder, OptionList, QuestionnaireStore

`questions` is `questionnaireViewModel.questions`; of a question the model keeps
its identity, its code, its title (empty, one the page generated, one the user
typed), its name, whether it is new and its role.  The flags have the names they
have in the code.  `dialogs` are the open warnings: deletion of a question with
collected data, deletion of the period question, saving with deletions, change
of the report, and the proposal to inform the data senders.  `posts` counts
requests without an answer; the server may accept, refuse or never answer.
`kind` is the form in which the page is served, and decides between the three
scripts.  `loaded` and `confirmed` are history.

| Actions | Code |
|---|---|
| `AddQuestion`, `ChangeTitle`, `ChangeCode`, `ChangeSelectedQuestion` | the view model's `addQuestion`, `changeSelectedQuestion`, the bound inputs |
| `ClickDelete`, `ContinueDelete`, `CancelDialog`, `removeQuestion` | `removeQuestionCheckForSubmission`, `...ForRegistration`, `removeQuestion`, the dialogs |
| `ChangeReport`, `ContinueFlip`, `CancelDialog` | the handlers of `#id_entity_type` and `basic_project_info` |
| `Save`, `SaveInvalid`, `ContinueSave`, `SaveAsDraft` | the handlers of `#save_and_create`, `#save_as_draft`, `#submit-button` |
| `SavedAndStays`, `SavedAndLeaves`, `Refused`, `PostFails`, `ContinueInform` | the callbacks of the post |

`OptionList` computes the value of a choice as `next_option_value` does, with a
number of letters that is 26 in the code; `After` is the value a number of choices
later.  Removing a choice moves the values of
the later ones; the model follows the text of a choice by an identity.

`QuestionnaireStore` has the saved form as a function from questions to codes, so
it can say *which question* an answer was given to although the code is all that
a response keeps.  `SaveQuestionnaire` is `edit_project` with
`generate_fields_by_question_set`; `RunJob` and `JobFails` are
`update_associated_submissions` with its three retries.  `inOrder` ends when a
page saves over a save it has not seen, over a task that has not run, renames and
drops at once, or a task is given up: of these the code promises nothing (see
"Noticed").

### Lists, imports and data pages: RecordList, ImportPopup, SubmissionLog

`RecordList` has the server's `records`, the request under way (`xhr`, at most one:
the table aborts the former one), the `rows` of the last answer, the ticks, the
header's tick and `all_selected`.  `counted` are the records found when the rows
were drawn, whose number "You have selected all N" announces.  A dialog remembers
what it was opened for; the action that is posted says `told`, the records that the
page announced (those counted, or those ticked), and `done`, what the server did,
which for "all" searches again: `later` are the records that may answer that search
besides, having come since.  `ServerActs`, `ActionDone`, `PageReloaded` and
`ActionFails` are separate steps, between which records come and go by other users
(`RecordArrives`, `RecordGoes`).

`ImportPopup` has the queue of `fileuploader.js` and the one-item list the pages
made of its own: the answers of other files throw in `_find`, so they are neither
shown nor dequeued.  `Answer` covers every combination of rows imported and
refused, `NoAnswerTo` an answer that cannot be parsed or never comes.

`SubmissionLog` distinguishes the request for a tab's headers, the table made of
them, the table's own request for rows, and the chart requests, which nothing
aborts.  A file that is exported depends on the last handler bound and the last
hidden input appended, as the browser sends them.

### Forms and messages: UnsavedChanges, BroadcastSms

`UnsavedChanges` keeps `redirect_url` and `click_after_reload` twice, as the code
does: in a JavaScript object and in hidden inputs that the server echoes.  `wanted`
is what the user last asked for and `owed` what was asked for of a save that the
server has not accepted yet: a refused page carries it in its hidden inputs and the
next save takes it along.  Two histories say what the code does not clean up:
`remembered`, that a button which was already answered is still remembered, and
`discarded`, that the answers of a save were discarded whose link is.  `#` links go
nowhere, as `window.location.href = "#"` does.

| Actions | Code |
|---|---|
| `Edit`, `ClickLink`, `ClickProjectLink` | the bindings of `data_modified_warning.js`, `datasender_modified_warning.js`, `bind_project_links.js` |
| `Dismiss`, `YesSave`, `NoDiscard`, `Leave` | the answers to the warning.  Without errors "Don't Save" gives every input of the form its initial value again, the hidden ones included; with errors the server discards |
| `CloseProjectDialog`, `ConfirmProjectDialog` | the dialogs of the project's buttons |
| `EscapeSenderForm`, `AnswerUnseen` | Escape and the cross of the data sender's dialog, with typed answers and with a save under way |
| `SaveChanges`, `Accept`, `Refuse`, `Discard` | the form's button and `submission_views.edit` |

`BroadcastSms` models the page and the view together: `SubmitMessage` and
`Continue` post the form, `BroadcastMessage` is the view, with the numbers it
takes from the form and the data senders it finds then.

### TrialNumbers

`data_senders` are the databases of the organizations, `trial_rows` the table
`DataSenderOnTrialAccount` that all trial organizations share.  A request holds
`sheet`, the data senders it writes with their numbers, and `former`, the numbers
whose rows it deletes; it goes through its labels one write at a time and may fail
between any two.

| Actions | Code |
|---|---|
| `PostCreate`, `CreateRow`, `CreateSender` | `process_create_data_sender_form`: the form's check, the row, the data sender |
| `PostEdit`, `EditSender`, `EditRow`, `AddRow` | `edit_data_sender`, `update_data_sender_from_trial_organization` |
| `PostImport`, `ImportSenders`, `AddRow` | `import_data`, `add_imported_data_sender_to_trial_organization` |
| `DeleteSenders`, `DeleteRow` | `delete_data_senders`, `delete_datasender_for_trial_mode`, which stops at the first missing row |
| `Upgrade`, `UpgradeRows` | `upgrade`: the type, and the rows of the organization |
| `RequestFails` | an exception or a killed worker between two writes |

`contested` are the numbers for which the code promises nothing any more: two
requests worked on them at once, a row was moved from another organization by an
import, or a request died between the database and the table.

### The search index: SearchIndex, DataSenderIndex

`SearchIndex`: `stored`, `entity_name` and `date_format` are what CouchDB says of
the responses, of their data sender or subject and of the questionnaire; `index`
has the copies in ElasticSearch and `mapped` the format of their mapping.  Every
worker has a job, `at[w]`, with what it has read; handlers run in the request
that saved the document, after its save.

| Actions | Code |
|---|---|
| `SaveResponse`, `LookUp`, `Land` | the save of a response (new, edited, deleted, rewritten), then `update_submission_search_index`: the reads, then `es.index` |
| `SaveEntity`, `SearchCopies`, `UpdateCopy`, `Updated` | an entity under another name: `entity_search_update`, then `submission_update_on_entity_edition` with its query and its loop of partial updates |
| `SaveForm`, `DeleteMapping`, `QueuePopulate` | `form_model_change_handler`, `update_store`, `recreate_elastic_store` |
| `Populate`, `PopulateRow`, `LandRow`, `Populated` | `async_populate_submission_index`: the rows of the view, then each as if it were saved |
| `Fail` | an exception in any job; the task is tried again, or was at its last retry |

What a response says is one value, its status and whether it is deleted
included.  `unsure` collects the responses of which the code promises nothing: two
jobs wrote one copy at the same time, a job failed, or a change of the format was
not noticed because the mapping already had it; a response that is saved again
is sure again.  Deleting a mapping and putting the new one are one step.

`DataSenderIndex`: `project` holds name, members and void flag of the project
documents, `row` the names in the row of each data sender, `writing` what the
handlers still have to write.

| Actions | Code |
|---|---|
| `Associate`, `RemoveFromProject` | `associate_data_sender_to_project`, `delete_datasender`: a save without handlers, then the row of that data sender |
| `SaveProject` | `Project.save` with its handler: a new name, imported data senders, a new user's, reminder settings |
| `EditDataSender` | the handler of an edited data sender |
| `SetVoid` | `Project.set_void`: a save without handlers, and no row |
| `ReadNames`, `WriteRow`, `RowWriterFails` | `update_datasender_index`, one row after the other |

`doubtful` are the rows of which nothing is promised: two workers wrote one at a
time, one failed, or a project was deleted or restored since the row was written.

### WebApplication

A browser window shows one page and starts over when it is loaded, so the pages
share no state that outlives a page but the server's.  `WebApplication` is their
sum: a behaviour belongs to one `component`, the variables of the others stay as
they are.  It states the joint type invariant and the property that no page is
blocked for good.

## Runs

| Run | Instance | Shows |
|---|---|---|
| `quota_concurrent` | 2 workers; an SMS delivered twice, a smartphone form, a receipt; aborts, closing | `NoPhantomCount`, `SmsRefusalJustified`, `CountedAgainstStored` under every interleaving and in spite of crashes; `EveryRequestEnds` |
| `quota_serial` | 1 worker; two SMS, a two-row sheet, the SMS tester; two months, upgrade, expiry | `CountersExact`, `BasicAllowance`, `SubmissionRefusalJustified`, `ImplementsLedger` |
| `quota_allowance` | 2 workers | **violated**: a Basic account exceeds its allowance |
| `quota_mail` | 1 worker | **violated**: the "limit reached" mail goes to an account below its limit |
| `lifecycle` | trial year of 2 days, 5 days | `FirstYearKept` under every overlap; `RenewalKept`, `ClosedForUsers`, `PaidStaysPaid` without overlap; `ExpiredGetsClosed` |
| `lifecycle_paid` | the same | **violated**: an account upgraded after its closing is paid and unusable |
| `deadlines` | all 76 deadlines on the 425 days from January 2012 to February 2013 | `DeadlinesInOrder`, `PeriodsTile` |
| `reminders` | 1 project, 1 data sender, 2 users, 3 days, 2 edits, 1 failure, 1 response | `OnceADeadline`, `PunctualAreSpared`, `LateAreReminded`, `NothingInvented`, `SettingsTogether` |
| `reminders_lastday` | 29 and 30 April 2012 | **violated**: the reminder of a deadline on the last day is never sent |
| `reminders_deleted` | 1 user | **violated**: a deleted project still sends reminders |
| `pages` | all components of `WebApplication`, see below | the properties below |
| `lists_all` | the four lists of `pages` | **violated**: an action on "all N" touches only these N |

| Property of `pages` | What it says |
|---|---|
| `PagesTypeOK` | the pages keep their types; at most one request, dialog and action of a list at once |
| `NoPageBlockedForGood` | a page, dialog or tab is blocked only while the request that unblocks it is under way |
| `QuestionnaireSound` | questions that are not shown have valid titles, generated titles and names stay distinct; choices keep the values of their positions, and the page knows when a value changes its meaning |
| `IndexAgrees` | when nobody is writing them, copies of responses say what the documents say, with the current names and date format, and rows of data senders name their projects |
| `AnswersIdentified` | codes of the saved form are distinct, and answers stand under the code of their question |
| `AnswersKept` | no task drops the answer to a question that is still asked |
| `ListShownAsItIs` | ticks, header and "all" agree with the rows shown; no empty page behind the end of a list |
| `ActsOnWhatWasTold` | an action touches nothing but what the page announced and, for "all", records that came since and answer the same search (finding 6 is that it touches these); once the server has acted, everything announced is done, except what others deleted and users, who are spared |
| `SmsReachItsOrganization` | the number of a trial organization's data sender leads to it |
| `DataLossConfirmed` | a questionnaire that drops answered questions is posted only after a warning was confirmed |
| `ChangesAnnounced` | a changed questionnaire that was saved makes the page propose to inform the data senders |
| `ReportAndQuestionsAgree` | the report and the template shown belong together; the user's questions survive |
| `ImportsAccountedFor` | the results shown are of one file, leaving the page asks, the list is loaded again |
| `PageShowsWhatIsSet` | rows, charts and exported files are those of the tab and the filters that are set |
| `UnsavedHandled` | by links, buttons and answers nothing typed is left without a warning (Escape and the cross of the data sender's dialog do lose it); project dialogs open over saved answers only; the page goes where it was last asked to, also after refused saves, until one is discarded; the dialog that opens is the one last asked for, until an answered button is remembered |
| `SentAsAgreed` | a large sending was confirmed, typed numbers are used only when chosen, failed ones are not sent to again |

The limits of the intake are 1 to 3 instead of 50 and 1000: every comparison is
with a limit or a trigger, and both sides of each are reached by the requests of
the instance.  Two workers and three requests suffice for a lost update, a
double check and a tracker inserted twice; the others see what they left.  A
web form behaves like the smartphone form of `quota_concurrent` but for the expiry,
which only it looks at; `quota_allowance` has one.  Upgrades and expiry are in
`quota_serial`, and under any number of workers in the theorems.
Two rows in the sheet make the loop repeat, two months make a registration fall
into another row than its SMS.  In the lifecycle, two days of year and five days
let an account be activated, expire, be re-opened and expire again; the last day
stands for all later ones, so the nightly job can run on it more than once and
no longer fails.  `lifecycle` does not check for deadlock: when the account is
deleted nothing is left to do.

In the runs of the reminders the days are 1 to 3 May 2012: the second is a
monthly and a weekly deadline, with reminders on the day before, the day itself
and the day after, so a response may come before, between and after them.  Two
edits are two overlapping requests or one after the other, and one failure can
meet any step.  A reminder is at most 31 days before or after its deadline, a
bound of the model (`Kinds`): the form takes any number.  `LateAreReminded` is stated for deadlines on a day that every
month has or reminders to all; the others are the finding below.  These runs do
not check for deadlock: the clock stops at the last day.

`MCWebApplication_pages.cfg` bounds `pages`.  The builder has up to three questions
(one shown and two hidden, one saved and two new, or the reverse) and two requests
under way; the choices go to four with an alphabet of two letters, so the change
to two-letter values happens within the list; the store has two pages that save,
two form codes, four questions, two responses and one task at a time with any
number of failures.  The lists have three records, of which a search finds two, and
pages of one or two rows, so that a list has several pages, a last page can become
empty, a search can differ from "all", and a third record can come after two were
announced.  The uploader has two connections and four files: one more than can wait for a freed place.  The data pages have two tabs
and two filters, with two requests of a kind under way, so that answers can
overtake one another.  The forms have three values, one of which the server
refuses, a `#` link and another one, and two buttons: a wish can be taken back,
come back in a refused page and meet a different one.  The messages have two data
senders and two numbers, one refused by the provider, with a confirmation from two recipients.  The trial numbers have two
organizations with two and one data senders, two numbers and two requests at
once: any contest takes two.  The search index has a web worker and a celery
worker, two responses about one data sender, one of which has two states, two
names, two date formats and one waiting task: a copy can be overtaken by its
document, by the name, by the format and by the task, and a loop over copies be
interrupted between them.  The rows have two workers, two projects, three
names, so that one can be free, and one data sender.  `pages` and
`lists_all` do not check for deadlock: a page that has been left, or whose bound is
used up, has nothing left to do.

With two workers `SubmissionRefusalJustified`, `CountersExact` and
`ImplementsLedger` do not hold: the two queries of `get_total_submission_count`
may straddle a registration being given back, and saves overwrite each other.

### Fairness

`SubmissionQuota.FairSpec` is weakly fair for each request's steps: a uwsgi
process that handles a request goes on, and a free one takes a waiting request.
Upgrade, closing, expiry and aborts are never forced.  `AccountLifecycle.FairSpec`
is weakly fair for the clock and for the nightly job (supervisord restarts the
scheduler); users, administrators and failures are not.  The pages assume none:
a request may never be answered, and what is checked of blocking is a safety
property, that there is still a request whose end unblocks the page.

## Findings

1. **The allowance of a Basic account is exceeded** by concurrent submissions:
   the check (`submission/views.py:156-163`) and the count (`:164`) are separate.
2. **The "limit reached" mail may be false**: the SMS it was sent for turns out
   to be a registration and is given back (`submission/views.py:177`, `:209`).
3. **An account upgraded after it was closed stays closed**: `upgrade` writes the
   type only, so the users remain inactive and the status `"Deativated"`
   (`accountmanagement/views.py:219-247`).
4. **Deadlines on the last day of a month send no reminders** to those who are
   late, in every month shorter than the chosen day (`scheduler/deadline.py:105`).
5. **A deleted project goes on reminding** its data senders
   (`project/helper.py:158`, `scheduler/scheduler.py:59`).
6. **"You have selected all N" acts on more than N**: the number was counted when
   the rows were drawn (`dwtable.js:155`), and the server searches again
   (`entity/view/all_datasenders.py:164`), so a record that was registered or
   received in between is removed or deleted with them.

Noticed on the way, without a property: an upgrade with an invalid payment form
is paid without payment details, and cannot be repeated (`SaveUpgrade`);
`send_deactivate_email` is imported by `runscheduler` and never scheduled; the
administrator's "activate" on an account that was never activated opens it with
no activation date, and it never expires; an account the nightly job closed
cannot be deleted until the administrator closes it again.

Noticed in the pages and in the parts of the server they post to, where the
properties state what the code does achieve:

* Questionnaire pages: a draft is posted without the warning about deleted
  questions; dismissing the proposal to inform leaves new questions with the
  code "code", so a second save gives a saved question another code; the subject
  page keeps its flags after a save, and its button stays disabled after a failed
  request; changing the report of a new project drops retitled questions of the
  template without asking; editing the text of a choice does not count as a
  change; `#submit-button` blocks the page before it validates
  (`questionnaire_wizard.js:192`), for good when the form is invalid.
* Store: codes are given again once their question is dropped; renaming a form
  and dropping questions at once leaves the answers (`wizard_view.py:420`, the task
  looks under the former code after moving the responses); a refused project
  name comes after the questionnaire was saved (`wizard_view.py:228`); a stale
  save brings dropped questions back; three retries later a task is given up.
* Lists: `all_selected` stays true when the header is ticked again while a
  request is under way; turning the page on the rows of an older search ends
  behind the list; the subject page binds its confirmation anew each time, so one
  confirmation sends several requests.
* Imports: of several files chosen at once only the last is shown; the places of
  the others are lost, and with as many as connections the dialog waits for good;
  an answer that cannot be parsed shows nothing; a list of earlier rows may stay
  next to an error; the quota message replaces the uploader.
* Data pages: acting before the table is made shows the rows of another tab;
  charts that arrive late are drawn over the list, and out of order.
* Forms: Cancel leaves the button that was clicked in `click_after_reload`, and when
  the user later leaves by a link, "Save" and "Don't Save" open that button's dialog
  instead (`edit_submission.js:27`); only the Cancel link of the data sender's dialog
  warns, while its cross and Escape close it and lose what was typed
  (`datasender_actions.js:366`); the link of a save that was refused and then discarded stays in its hidden
  input and is followed after a later save; with an invalid form, "Don't Save"
  opens the button's dialog again after the server discarded; the answer to a save
  under way is not seen when Escape closed the data sender's dialog; a data sender's
  Cancel always reloads.
* SMS to many: a double click sends twice; a data sender without a number is
  counted with the previous result (`project/helper.py:204`); after a failure
  everyone else is sent to again.
* Search index: `set_void` writes no rows, so the name of a deleted project stays
  in them, a new project of that name lists its data senders
  (`search/entity_search.py:51`) and a restored one may lack some; restoring also
  revives responses that had been deleted one by one, and fails at its last step
  when the name was taken meanwhile (`project/models.py:253`); a copy that vanished
  ends the renaming of the others; what two writers or a failure spoilt is not
  repaired until the next save.
* Projects: `activate_project` does not look at the state, so a link that is
  followed again, or a page saved in test mode later, lets an activation remove
  real responses (`project/views/views.py:414`).
* Trial numbers: an import takes a number away from another organization
  (`import_data.py:109` never looks); a refused registration stays routed; deletion
  stops at the first missing row (`entity/helper.py:231`); an upgrade with an invalid
  form leaves the rows of a paid account.

## Proofs

All theorems hold for every value of the constants that the named assumptions
admit: any number of requests, workers and limits, any year; any calendar of
consecutive months, whatever their lengths; any projects, users and forms, on days
with two months of the calendar before them and one after; any pages, questions,
choices and responses; any organizations and numbers; any records, searches and
page lengths; any files, tabs, filters and links.  The assumptions say no more
than the code does:

* the data senders of `Reminders` and `BroadcastSms` and the records of `RecordList`
  are finitely many, because they are counted;
* the saved questions a page opens with (`FieldsAssumption`) have titles, distinct
  names and numbers that follow their positions, and a subject type ends with its
  unique id, as the server makes them;
* the bounds admit what the program begins with: two questions of a project
  (`MaxAsked`, `MaxQuestions` at least 2);
* the names of tabs, links and buttons differ from the values that stand for "none",
  for a closed dialog and, of buttons, for `#`, which is a link.

Of the intake:

* `SubmissionQuotaProofs`: `TypeInvariant`; `LostUpdatesOnlyLose` - the
  invariant adds to `NoPhantomCount` that every object in a worker's memory is
  itself bounded by the row's history, which is what a stale save needs;
  `SmsRefusalsAreJustified` from it, because a sum of bounded cells is bounded;
  `OneWorkerCountsExactly` - with one worker the object in memory equals its row.
  The lemmas on sums (`UnitsFinite`, `TotalMonotone`, `TotalRaised`, ...) are
  about `Total`, defined as a cardinality so that no recursion is needed.
  `CountsMatchResponses` counts: what was performed is what is stored, plus the
  SMS that are counted before they are stored and minus the forms that are stored
  and not counted yet, each at the labels where it may be (`CountedAhead`).
* `QuotaLedger`: `LedgerKeepsAllowance`, by induction on its five actions.
* `SubmissionQuotaRefinement`: `OneWorkerImplementsLedger`.  `SerialInvariant`
  says what the only running request knows at each label (the sums it read are
  still exact, an admitted SMS has not been counted yet, a registration has been
  counted and not given back); with it each action is a ledger action or a
  stutter.  `OneWorkerKeepsAllowance` combines it with `LedgerKeepsAllowance`, and
  `OneWorkerRefusesJustly` adds that nothing is given back between the two queries
  of the check and that what was refused stays refused justly.

Of the accounts and the reminders:

* `AccountLifecycleProofs`: `LifecycleTypeInvariant` and `FirstYearIsKept`.  The
  inductive invariant `LifeInv` says that the row *and every object that will
  still be saved* carry no activation date but the true one, no earlier change
  date, and the closed status only when the first year is over: stale saves are
  harmless because what is stale is sound.  `RenewalsAreKept`, `ClosedMeansClosed`
  and `PaidAccountsStayPaid` rest on `SoloInv`, which adds to `LifeInv` what holds
  as long as no programs overlapped: one program runs, the object it fetched is
  still the row, and it has done to the users what its label says.
* `RemindersProofs`, first part: `DeadlinesAreNeighbours` and `PeriodsAreNeighbours`.  Every
  day lies in one month (`MonthExists`, by the least month that ends after it), a
  monthly deadline is the deadline of its month, and the deadlines of
  consecutive months follow each other; the weekly ones are arithmetic modulo 7.
* `RemindersProofs`, second part: `RemindersType`; `DeadlinesAlwaysInOrder` and
  `PeriodsAlwaysTile` from the two theorems on dates; and five invariants.
  `RemindedOnce` rests on `OnceInv`: nobody has received today what the job has
  yet to list, load or send (`JobInOrder`), so the SMS of one row lie on
  different days, and the day of an SMS is its deadline plus a distance that is
  fixed for the row (`BoxesInOrder`), so its deadlines differ too.  A row that is
  edited gets a new primary key, which is why edits do no harm.
  `PunctualSpared` adds to `OnceInv` that whoever is in the list the job still
  holds had no response before today; a response that arrives after the query
  is of today.  `SettingsStayTogether` rests on `SettingsInv`: while requests
  come one at a time, the one in progress knows exactly which rows it has still
  to insert or to save, and the document it loaded is still the current one.
  `CountedWasSent` rests on `CountsInv`, which counts what the night in progress
  has sent and not yet written (`job.sent`, `job.total`, the one SMS to be logged).
  `LateOnesReminded` rests on `NothingForgotten`: on the day of the job each row
  that is due and that nothing spoilt is still listed, or among those to be done,
  or being sent with the late data senders still in its list, or done, and who is
  not in the list any more has the SMS.

Of the questionnaires, in `QuestionnaireProofs`:

* `QuestionnaireBuilder`: `QuestionsAreSound`, `BuilderIsUnblocked`,
  `LossIsConfirmed`, `ChangesAreAnnounced` and `ReportIsAsShown`, from one invariant,
  `BuilderInv`.  `SoundList` is what every operation on the list keeps (identities
  and names distinct, "Question n" the n-th, one question shown), proved for an
  addition (`Grown`), a removal (`Shrunk`) and a report's template; `LossInv` says
  that every saved question that is missing was noted, `TextInv` that a list with
  no noted change extends the saved one with new questions, `ReportInv` that only a
  new project has reports to choose from.  A deletion warning stands alone and over
  a question that may go, which `ContinueDelete` needs and does not test.
* `OptionList`: `AnswersCanBeRead`.  `Val(i)` is what `next_option_value` gives after
  i - 1 steps.  `After` is a recursive function of a bounded length; `Unfolding`,
  `UnfoldingsAgree` and `AfterStep` show that its values do not depend on that
  length, so that removing a choice gives each later one its neighbour's value.
* `QuestionnaireStore`: `AnswersAreIdentified` and `AnswersAreKept`.  The
  inductive invariant says that, as long as the saves are in order, there is at
  most one task; without one every answer stands under the code of its question
  (`AllSettled`), with one each response is settled or will be by the task,
  whether or not an earlier try reached it: rewriting twice is rewriting once.
  New codes are distinct because they lie above the highest saved one
  (`HighestCode`) and number an interval (`Generated`).  `FormsKeepTheirType`
  follows what pages save over one another, in order or not.

Of the data senders and the index, in `DataSenderProofs`:

* `SmsAreDelivered`.  `SmsReachItsOrganization` says nothing of
  numbers that a request is at work on, so it is far from inductive: `JobInv` says
  of each number what holds at each label of the one request that works on it
  (whether other organizations are still led to it, whether the own row is
  written, whether the data sender is gone).  `LeavesAlone` is what a step must do
  to all other numbers, and `OneStep` derives the invariant from `StepSafe` for the
  numbers of the step, so that each action is one lemma.
* `RowsAlwaysNameTheProjects`.  `RowsInv` adds
  to `RowsNameTheProjects` that a row that is not in doubt has one writer at most
  and that the names this writer has found are still those of the documents:
  whoever changes them in between has to write that row too, which puts it in
  doubt.  `RewritesKeep` is that argument for the four actions that save.
* `CopiesAreRight`.  `CopiesInv` says of each response that is sure, besides
  `LogShowsWhatIsStored`: it has one writer at most, what this writer has read is
  still so (`KnowsOf`), and the copy will be right when it is done (`WillBeRight`).
  While the index is recreated nothing is said of a copy that has no writer,
  because the task that comes writes it.

Of the pages, in `WebApplicationProofs`:

* `UnsavedIsHandled`, from `FormInv`: what the form shows is what is saved unless
  something was typed since or the server found errors (`ShownInv`); of the places
  that remember a link (`LinkInv`) and a button (`ButtonInv`), the page's object, its
  hidden inputs and the request under way, each holds what is `wanted` when it will
  be used and what is `owed` otherwise.  `LinkKept` and `ButtonKept` show that a step
  which changes none of them keeps that; `LeavingIsSound` and `OpeningIsSound` derive
  from it that whatever is followed or opened is what was last asked for.
* `ToldIsDone` and `ListIsShown`.  `SelectionInv` and `ChoiceInv` follow a choice
  from the ticks through the dialog to the server, which searches again.  `DoneInv`
  gives the half that nothing announced is left out: until others delete a record,
  all that was announced is still there to be found, or done.  `EndInv` is
  about counting: as long as nobody else changed the list, a page that has rows
  starts before the end of what was found, the records an action has removed
  since are known by that action, and an action that keeps the page leaves
  something beyond its start.  `Places` and what follows it show that a page of a
  finite set of records holds as many as it should.
* `SentOnlyAsAgreed`, from `SmsInv`: the numbers are empty unless "Other People" is
  chosen, and a request counts the people it was confirmed for.
* `EveryFileIsAccounted` and `DialogIsUnblocked`, from `ImportInv`: the queue holds the
  file that is awaited and those that were forgotten, files that wait beyond the
  connections are not under way, and both are counted by `filesInProgress`.
* `PageIsAsSet` and `TabIsUnblocked`, from `LogInv`: headers are awaited for the tab
  that is marked alone, the rows and the charts are of the filters or their request
  is, and the last handler and the last hidden input belong to the tab.
* Of the whole: `NoPageIsBlocked`, `TheQuestionnaireIsSound`, `TheIndexAgrees` and
  `PagesKeepTheirTypes`.  A behaviour of `WebApplication` is one of each part, which
  may stutter (`AppIsListed`, `AppIsBuilt`, ...), so what is proved of a part holds in
  the whole; the types come from the parts' invariants.

Only model-checked: the two liveness properties, for liveness
under fairness and `ENABLED` are out of the proof system's reach, and the six runs
that refute a comment or a test.  Every invariant and action property of the
other runs is stated by a theorem.  RECURSIVE operators and
induction over data are out of reach too; the modules have no recursive operator
and one recursive function, whose values are characterized by unfolding.

## Not modelled

* `Dated account mails`: queries for an exact date, without state.
* Of the search index: the filters, sorting and paging of queries; the rows of
  subjects, written by one handler from one document; the change of a form's code,
  whose responses are saved by `_save_documents` of `mangrove`, of which this
  repository does not show whether it calls the handlers; columns that are added
  to a mapping.
* Activation, deactivation and test mode of a project: `activate_project` deletes
  the responses that it lists, which the list of hazards keeps without a property.
* Feeds, custom reports, data extraction, location tree, activity log,
  registration, dashboards: reads, wording, or calls of external code.
* Of the pages: the list of users, the settings of reminders (what they post is
  in `Reminders`), sorting of columns, previews, help.
* In `TrialNumbers`: data senders registered by SMS, which the code never adds to
  the table, and the administrator's number, which is checked at registration and
  added at activation (`post_activation_events.py:111`).
* Of the hazards noticed in the first survey two are only described here: the
  message of an import names a row number that counts refused rows
  (`project/submission/submission_import.py:54`), and an upgrade form that is invalid
  is half saved (`accountmanagement/forms.py:63`, part of `SaveUpgrade` and `Upgrade`).

Most lines of JavaScript under `media/` are libraries and data: jQuery and its user
interface, DataTables, OpenLayers, underscore, validation, autocompletion, date and
month pickers, JSON, Flot, the lists of countries and networks, Django's admin
scripts.  They are not this program's logic and are modelled only where a page
depends on their state (the upload queue, the table's request and page); the
server, in Python, is mapped beside them.

## Plan

Done, with proofs: the intake with its ledger, the account lifecycle, deadlines
and reminders, the questionnaire and its builder, the lists, imports, data pages
and forms, the trial numbers, the copies in the search index.  What is left, in
this order:

1. **Pure algorithms**: `get_changed_questions`, the row number in the import
   message, the sorting of columns.
2. **Pages**: the list of users, the settings of reminders.
3. **Proofs**: that the copies of a project's rows and the responses it lists are
   written in the end stays with TLC (liveness); a refinement of the reminders to
   an abstract calendar of SMS would state in one formula what their five
   invariants say together.
