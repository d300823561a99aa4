------------------------- MODULE QuestionnaireStore -------------------------
(***************************************************************************)
(* What the server makes of the questionnaires that the builder posts for  *)
(* a project: the questions that were added get codes, the form is saved,  *)
(* and a Celery task rewrites the collected responses later.  Several      *)
(* pages may show the questionnaire, each with the questions it was opened *)
(* with.  A question is a number that is never given twice; its code is.   *)
(***************************************************************************)
EXTENDS Integers, SequencesExt

CONSTANTS
  Pages,         \* pages that are open on the questionnaire
  FormCodes, FirstCode,
  MaxAsked, MaxReceived, MaxJobs   \* bounds: questions ever, responses, queued tasks

ASSUME StoreAssumption ==
  /\ FirstCode \in FormCodes
  /\ MaxAsked \in Nat \ {0, 1} /\ {MaxReceived, MaxJobs} \subseteq Nat \ {0}

VARIABLES
  fields,        \* the saved form: [question -> code]
  form_code,
  opened,        \* [page -> fields it was opened with]
  received,      \* responses: [form, answers], answers being [code -> question]
  jobs,          \* update_associated_submissions, queued or being retried
  asked,         \* questions asked so far
  inOrder        \* history: see SaveQuestionnaire

storeVars == <<fields, form_code, opened, received, jobs, asked, inOrder>>

Codes(f)     == {f[q] : q \in DOMAIN f}
Without(f, S) == [x \in DOMAIN f \ S |-> f[x]]

StoreInit ==
  /\ fields = [q \in 1..2 |-> q] /\ form_code = FirstCode
  /\ opened = [p \in Pages |-> fields]
  /\ received = <<>> /\ jobs = <<>> /\ asked = 2 /\ inOrder = TRUE

OpenPage == \E p \in Pages :
  /\ opened[p] # fields
  /\ opened' = [opened EXCEPT ![p] = fields]
  /\ UNCHANGED <<fields, form_code, received, jobs, asked, inOrder>>

(* What the page posts: some of the questions it was opened with, and new  *)
(* ones, whose code is "code" and is 0 here.                               *)
Posted(kept, n) == [q \in DOMAIN kept \cup (asked + 1..asked + n) |->
                      IF q \in DOMAIN kept THEN kept[q] ELSE 0]

(* generate_fields_by_question_set: numbers above the highest code of the  *)
(* saved form.                                                             *)
generate_fields(posted) ==
  [q \in DOMAIN posted |->
     IF posted[q] # 0 THEN posted[q]
     ELSE Max(Codes(fields)) + Cardinality({n \in DOMAIN posted : posted[n] = 0 /\ n <= q})]

(* edit_project.  The task is queued before the project is saved, which    *)
(* may be refused for its name.  Not in order: a save of a page opened     *)
(* before another save, or while a task has not run, and one that renames  *)
(* the form and drops questions at once; nor is a task that was given up.  *)
SaveQuestionnaire ==
  \E p \in Pages, c \in FormCodes, n \in 0..MaxAsked - asked, named \in BOOLEAN :
  \E kept \in SUBSET DOMAIN opened[p] :
    LET new     == generate_fields(Posted([q \in kept |-> opened[p][q]], n))
        dropped == Codes(fields) \ Codes(new)
    IN /\ new # <<>>
       /\ Len(jobs) < MaxJobs   \* bound
       /\ fields' = new /\ form_code' = c /\ asked' = asked + n
       /\ jobs' = Append(jobs, [from |-> form_code, to |-> c, dropped |-> dropped])
       /\ opened' = IF named THEN [opened EXCEPT ![p] = new] ELSE opened
       /\ inOrder' = (/\ inOrder /\ jobs = <<>> /\ opened[p] = fields
                      /\ c = form_code \/ dropped = {})
       /\ UNCHANGED received

(* A data sender answers every question of the form.                       *)
Receive ==
  /\ Len(received) < MaxReceived   \* bound
  /\ received' = Append(received,
       [form |-> form_code,
        answers |-> [x \in Codes(fields) |-> CHOOSE q \in DOMAIN fields : fields[q] = x]])
  /\ UNCHANGED <<fields, form_code, opened, jobs, asked, inOrder>>

(* update_submissions_for_form_code_change                                 *)
Moved(r, job) == IF job.from # job.to /\ r.form = job.from THEN [r EXCEPT !.form = job.to] ELSE r

(* A mutant of Popped: the codes from the first dropped one on go.         *)
PoppedFrom(r, job) ==
  IF r.form = job.from
  THEN [r EXCEPT !.answers =
          Without(@, {x \in DOMAIN r.answers : \E d \in job.dropped : x >= d})]
  ELSE r

(* update_submissions_for_form_field_change: the responses that are still  *)
(* under the old code.                                                     *)
Popped(r, job) ==
  IF r.form = job.from THEN [r EXCEPT !.answers = Without(@, job.dropped)] ELSE r

(* A mutant of Rewritten: the code of the form is left.                    *)
RewrittenUnmoved(r, job) == Popped(r, job)

Rewritten(r, job) == Popped(Moved(r, job), job)

RunJob ==
  /\ jobs # <<>>
  /\ received' = [i \in DOMAIN received |-> Rewritten(received[i], Head(jobs))]
  /\ jobs' = Tail(jobs)
  /\ UNCHANGED <<fields, form_code, opened, asked, inOrder>>

(* It fails after some of the responses were saved, and is tried again; a  *)
(* third retry is the last.                                                *)
JobFails == \E n \in 0..Len(received) :
  /\ jobs # <<>>
  /\ received' = [i \in DOMAIN received |-> IF i <= n THEN Rewritten(received[i], Head(jobs))
                                                      ELSE received[i]]
  /\ \/ UNCHANGED <<jobs, inOrder>>
     \/ jobs' = Tail(jobs) /\ inOrder' = FALSE
  /\ UNCHANGED <<fields, form_code, opened, asked>>

(* Nothing is claimed of what follows a save that is not in order.         *)
StoreNext ==
  /\ inOrder   \* bound
  /\ OpenPage \/ SaveQuestionnaire \/ Receive \/ RunJob \/ JobFails

StoreSpec == StoreInit /\ [][StoreNext]_storeVars

-----------------------------------------------------------------------------
(* The state has its type.                                                 *)
StoreTypeOK ==
  /\ form_code \in FormCodes /\ DOMAIN fields \subseteq 1..MaxAsked /\ fields # <<>>
  /\ Codes(fields) \subseteq 1..MaxAsked
  /\ \A i \in DOMAIN received : received[i].form \in FormCodes

(* No two questions of the saved form have one code, while the saves are   *)
(* in order; nothing is said of a stale save.                              *)
CodesDistinct ==
  inOrder => \A q, r \in DOMAIN fields : fields[q] = fields[r] => q = r

(* Codes are given again once their question is dropped.  Still, when the  *)
(* tasks have run, an answer that stands under the code of a question was  *)
(* given to that question, and no answer to it is missing or left under a  *)
(* former code of the form, if the saves were in order.                    *)
AnswersBelong ==
  inOrder /\ jobs = <<>> => \A i \in DOMAIN received :
    /\ received[i].form = form_code
    /\ \A x \in DOMAIN received[i].answers :
         \E q \in DOMAIN fields : fields[q] = x /\ received[i].answers[x] = q

(* A response under the code of the form always has the answers to the     *)
(* questions it was asked that are still asked: the tasks drop none.       *)
AnswersKept ==
  [][inOrder' => \A i \in DOMAIN received : \A x \in DOMAIN received[i].answers :
       LET q == received[i].answers[x]
       IN q \in DOMAIN fields' /\ fields'[q] = x => x \in DOMAIN received'[i].answers]_storeVars

(* An answer can be told by its code: the codes of the form are distinct   *)
(* and stand for the questions that were answered.                         *)
AnswersIdentified == CodesDistinct /\ AnswersBelong
=============================================================================
