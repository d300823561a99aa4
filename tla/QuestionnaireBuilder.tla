------------------------ MODULE QuestionnaireBuilder ------------------------
(***************************************************************************)
(* The page on which a questionnaire is written, in the four forms it is   *)
(* served: a new project ("create") and an existing one ("edit"), both     *)
(* with project/create_project.js; the registration form of a subject type *)
(* ("subject", entity/create_subject_questionnaire.js); and the            *)
(* questionnaire tab of a project ("tab", project/questionnaire_wizard.js).*)
(* They share the view model and its dialogs.  The server answers a post   *)
(* as it likes: what it keeps is the subject of QuestionnaireStore.  A     *)
(* page that is opened again starts over, as the model does.               *)
(*                                                                         *)
(* A title is a number: 0 is the empty title, n > 0 is "Question n", and   *)
(* the negative ones are what users or templates call a question.          *)
(***************************************************************************)
EXTENDS Integers, SequencesExt

CONSTANTS
  PageKinds,      \* the forms of the page the user may open
  Titles,         \* what a user may type as a title
  FirstFields,    \* the questions saved before the page is opened, by kind
  MaxQuestions, MaxPosts   \* bounds: the questions of the list, requests under way

ASSUME BuilderAssumption ==
  /\ PageKinds \subseteq {"create", "edit", "subject", "tab"}
  /\ Titles \subseteq {t \in Int : t <= 0}
  /\ MaxQuestions \in Nat \ {0, 1} /\ MaxPosts \in Nat

Question == [id : Nat, code : Nat, title : Int, name : Nat,
             role : {"plain", "period", "fixed"}, new : BOOLEAN]

(* What was saved before has titles, and the numbers the page gave it; the *)
(* form of a subject type ends with the unique id, which the server made.  *)
ASSUME FieldsAssumption == \A k \in PageKinds \ {"create"} : LET f == FirstFields[k] IN
  /\ f \in Seq(Question) /\ Len(f) \in 1..MaxQuestions
  /\ \A i \in DOMAIN f :
       /\ ~f[i].new /\ f[i].title # 0 /\ (f[i].title > 0 => f[i].title = i /\ k # "subject")
       /\ \A j \in DOMAIN f : f[i].id = f[j].id \/ (f[i].name = f[j].name /\ f[i].name > 0) => i = j
  /\ k = "subject" => Last(f).role = "fixed" /\ Last(f).name = 0

VARIABLES
  kind, open,             \* the form of the page, and whether it is shown
  report, reportLoaded,   \* kind of report shown in the form, and the one loaded
  questions,              \* questionnaireViewModel.questions
  selectedQuestion,       \* the id of the one shown on the right
  hasAddedNewQuestions, hasDeletedOldQuestion, questionnaire_was_changed,
  is_continue,            \* of DW.has_submission_delete_warning(_for_entity)
  dialogs,                \* open warnings
  code, savedCode,        \* #questionnaire-code, #saved-questionnaire-code
  busy,                   \* blockUI, or the disabled button of the subject page
  posts,                  \* number of requests the server has not answered
  answered,               \* data were collected with the saved questions
  loaded,                 \* history: the questions the page took as saved
  confirmed               \* history: a loss of data was confirmed on this page

flagVars == <<hasAddedNewQuestions, hasDeletedOldQuestion, questionnaire_was_changed>>
modelVars == <<questions, selectedQuestion, flagVars>>
formVars == <<kind, report, reportLoaded, code, savedCode>>
builderVars == <<formVars, open, modelVars, is_continue, dialogs, busy, posts, answered,
                 loaded, confirmed>>

Projects == {"create", "edit"}       \* the pages of create_project.js
Ids(s)   == {s[i].id : i \in DOMAIN s}
Saved(id, c, title, name, role) ==
  [id |-> id, code |-> c, title |-> title, name |-> name, role |-> role, new |-> FALSE]

(* The questions proposed for a new project: the reporting period, after   *)
(* the question that names the subject when the report is about one.       *)
PeriodQuestion == -3
EntityQuestion == -4
Template(subject) ==
  IF subject THEN <<Saved(1, 1, EntityQuestion, 0, "fixed"), Saved(2, 2, PeriodQuestion, 0, "period")>>
             ELSE <<Saved(1, 1, PeriodQuestion, 0, "period")>>
Reports == {"general", "clinic", "school"}   \* no subject, or one of these types

BuilderInit ==
  /\ kind \in PageKinds /\ open = TRUE
  /\ questions = IF kind = "create" THEN Template(FALSE) ELSE FirstFields[kind]
  /\ selectedQuestion = questions[1].id
  /\ hasAddedNewQuestions = FALSE /\ hasDeletedOldQuestion = FALSE
  /\ questionnaire_was_changed = FALSE /\ is_continue = FALSE
  /\ dialogs = {} /\ busy = FALSE /\ posts = 0 /\ answered = FALSE
  /\ code = 1 /\ savedCode = 1 /\ report = "general" /\ reportLoaded = "general"
  /\ loaded = questions /\ confirmed = FALSE

-----------------------------------------------------------------------------
(* The view model.                                                         *)

(* DW.question(): what addQuestion makes when the list shows the questions *)
(* listed.  On the subject page only the hidden name is numbered, above    *)
(* every number in use; the title is the word "Question" alone.            *)
PlainTitle == -1

next_question_name_generator(listed) ==
  IF kind = "subject"
  THEN Max({1, Len(listed)} \cup {listed[i].name : i \in DOMAIN listed}) + 1
  ELSE Len(listed) + 1

NewQuestion(listed) ==
  LET n == next_question_name_generator(listed)
  IN [id |-> Min((3..2 * MaxQuestions + 3) \ (Ids(questions) \cup Ids(loaded))), code |-> 0,
      title |-> IF kind = "subject" THEN PlainTitle ELSE n,
      name  |-> IF kind = "subject" THEN n ELSE 0, role |-> "plain", new |-> TRUE]

renumberQuestions(list) ==
  [i \in DOMAIN list |-> IF list[i].title > 0 THEN [list[i] EXCEPT !.title = i] ELSE list[i]]

(* addQuestion() puts the new question last, but for the unique id of a    *)
(* subject, which stays there (subjectQuestionnaireViewModel).             *)
addQuestion ==
  LET before == IF kind = "subject" THEN Front(questions) ELSE questions
      q      == NewQuestion(before)
  IN /\ questions' = Append(before, q) \o SubSeq(questions, Len(before) + 1, Len(questions))
     /\ selectedQuestion' = q.id
     /\ hasAddedNewQuestions' = TRUE
     /\ UNCHANGED <<hasDeletedOldQuestion, questionnaire_was_changed>>

(* Mutants of removeQuestion: the removed one stays selected; the removal  *)
(* of a saved question is not noted.                                       *)
removeQuestionSelected(i) ==
  LET rest == renumberQuestions(RemoveAt(questions, i))
      old  == ~questions[i].new
  IN /\ questions' = IF rest = <<>> THEN <<NewQuestion(rest)>> ELSE rest
     /\ hasDeletedOldQuestion' = (hasDeletedOldQuestion \/ old)
     /\ questionnaire_was_changed' = (questionnaire_was_changed \/ old)
     /\ hasAddedNewQuestions' = TRUE
     /\ UNCHANGED selectedQuestion
removeQuestionUnnoted(i) ==
  LET rest == renumberQuestions(RemoveAt(questions, i))
      list == IF rest = <<>> THEN <<NewQuestion(rest)>> ELSE rest
  IN /\ questions' = list
     /\ selectedQuestion' = list[((i - 1) % Len(list)) + 1].id
     /\ hasAddedNewQuestions' = TRUE
     /\ UNCHANGED <<hasDeletedOldQuestion, questionnaire_was_changed>>

(* removeQuestion(): the next one is selected, or the first.               *)
removeQuestion(i) ==
  LET rest == renumberQuestions(RemoveAt(questions, i))
      list == IF rest = <<>> THEN <<NewQuestion(rest)>> ELSE rest
      old  == ~questions[i].new
  IN /\ questions' = list
     /\ selectedQuestion' = list[((i - 1) % Len(list)) + 1].id
     /\ hasDeletedOldQuestion' = (hasDeletedOldQuestion \/ old)
     /\ questionnaire_was_changed' = (questionnaire_was_changed \/ old)
     /\ hasAddedNewQuestions' = TRUE

Position == CHOOSE i \in DOMAIN questions : questions[i].id = selectedQuestion
Selected == questions[Position]

(* $('#question_form').valid(): the form shows the selected question only, *)
(* and the rule on duplicates awaits an addition or a removal.             *)
FormValid ==
  /\ Selected.title # 0
  /\ kind # "tab" /\ hasAddedNewQuestions =>
       \A i \in DOMAIN questions :
          questions[i].id # selectedQuestion => questions[i].title # Selected.title

(* Enabled fields: on the questionnaire tab, those of new questions.       *)
isEnabled(q)    == kind # "tab" \/ q.new
canBeDeleted(q) == IF kind = "tab" THEN q.new ELSE q.role # "fixed"

(* What DW.questionnaire_has_submission may return: a request that fails   *)
(* counts as data.                                                         *)
questionnaire_has_submission == {answered, TRUE}

Idle == open /\ dialogs = {} /\ ~(busy /\ kind # "subject")

-----------------------------------------------------------------------------
(* What the user does on the page.                                         *)

(* A mutant of ChangeSelectedQuestion: the form is not validated.          *)
ChangeSelectedAnyway == \E i \in DOMAIN questions :
  /\ Idle
  /\ selectedQuestion' = questions[i].id
  /\ UNCHANGED <<formVars, open, questions, flagVars, is_continue, dialogs, busy,
                 posts, answered, loaded, confirmed>>

ChangeSelectedQuestion == \E i \in DOMAIN questions :
  /\ Idle /\ FormValid
  /\ selectedQuestion' = questions[i].id
  /\ UNCHANGED <<formVars, open, questions, flagVars, is_continue, dialogs, busy,
                 posts, answered, loaded, confirmed>>

ChangeTitle == \E t \in Titles :
  /\ Idle /\ isEnabled(Selected)
  /\ questions' = [questions EXCEPT ![Position].title = t]
  /\ questionnaire_was_changed' = (questionnaire_was_changed \/ ~Selected.new)
  /\ UNCHANGED <<formVars, open, selectedQuestion, hasAddedNewQuestions, hasDeletedOldQuestion,
                 is_continue, dialogs, busy, posts, answered, loaded, confirmed>>

ChangeCode == \E c \in {1, 2} :
  /\ Idle /\ kind \in {"edit", "subject"}
  /\ code' = c
  /\ questionnaire_was_changed' = (questionnaire_was_changed \/ (kind = "edit" /\ c # savedCode))
  /\ UNCHANGED <<kind, report, reportLoaded, savedCode, open, questions, selectedQuestion,
                 hasAddedNewQuestions, hasDeletedOldQuestion, is_continue, dialogs, busy,
                 posts, answered, loaded, confirmed>>

AddQuestion ==
  /\ Idle /\ FormValid /\ Len(questions) < MaxQuestions
  /\ addQuestion
  /\ UNCHANGED <<formVars, open, is_continue, dialogs, busy, posts, answered, loaded, confirmed>>

(* The warning a click on Delete opens, or none.                           *)
DeleteWarning(q, has) ==
  CASE kind \in Projects /\ q.role = "period"                          -> "period"
    [] kind = "edit" /\ ~q.new /\ ~is_continue /\ has                  -> "delete"
    [] kind = "subject" /\ ~is_continue /\ has                         -> "delete"
    [] OTHER                                                           -> "none"

(* The click on Delete; when a warning opens, the click goes on to the     *)
(* question, which it selects.  A form that is not valid lets only the     *)
(* selected question be removed, and asks nothing.                         *)
ClickDelete == \E i \in DOMAIN questions, has \in questionnaire_has_submission :
  LET warning == IF FormValid THEN DeleteWarning(questions[i], has) ELSE "none"
  IN /\ Idle /\ canBeDeleted(questions[i])
     /\ FormValid \/ questions[i].id = selectedQuestion
     /\ IF warning = "none"
        THEN removeQuestion(i) /\ UNCHANGED <<dialogs, is_continue>>
        ELSE /\ dialogs' = {warning}
             /\ is_continue' = (is_continue /\ warning # "delete")
             /\ selectedQuestion' = questions[i].id
             /\ UNCHANGED <<questions, flagVars>>
     /\ UNCHANGED <<formVars, open, busy, posts, answered, loaded, confirmed>>

(* The report, or the subject type, is changed: another template replaces  *)
(* the questions (init_view_model), after a warning if some were added.    *)
continue_flip(r) ==
  /\ questions' = Template(r # "general") /\ selectedQuestion' = 1
  /\ reportLoaded' = r
  /\ hasAddedNewQuestions' = FALSE
  /\ UNCHANGED <<hasDeletedOldQuestion, questionnaire_was_changed>>

ChangeReport == \E r \in Reports \ {report} :
  /\ Idle /\ kind = "create"
  /\ report' = r
  /\ IF hasAddedNewQuestions
     THEN dialogs' = {"flip"} /\ UNCHANGED <<reportLoaded, modelVars>>
     ELSE continue_flip(r) /\ UNCHANGED dialogs
  /\ UNCHANGED <<kind, code, savedCode, open, is_continue, busy, posts, answered,
                 loaded, confirmed>>

(* Continue flips, then closes the dialog; closing it puts back in the     *)
(* form the report that is loaded (dialogclose).                           *)
ContinueFlip ==
  /\ open /\ "flip" \in dialogs
  /\ continue_flip(report)
  /\ dialogs' = dialogs \ {"flip"} /\ report' = reportLoaded'
  /\ UNCHANGED <<kind, code, savedCode, open, is_continue, busy, posts, answered,
                 loaded, confirmed>>

(* Continue in the warning of a deletion: the selected question goes.      *)
ContinueDelete == \E d \in dialogs \cap {"delete", "period"} :
  /\ open /\ "inform" \notin dialogs
  /\ is_continue' = (is_continue \/ d = "delete")
  /\ removeQuestion(Position)
  /\ dialogs' = dialogs \ {d}
  /\ confirmed' = TRUE
  /\ UNCHANGED <<formVars, open, busy, posts, answered, loaded>>

(* A mutant of CancelDialog: the form keeps the report that was chosen.    *)
CancelKeepingReport == \E d \in dialogs :
  /\ open /\ (d = "inform" \/ "inform" \notin dialogs)
  /\ dialogs' = dialogs \ {d}
  /\ is_continue' = (is_continue /\ d # "delete")
  /\ UNCHANGED <<formVars, open, modelVars, busy, posts, answered, loaded, confirmed>>

(* Cancel or the cross in a warning.  Closing the one that asks to inform  *)
(* the data senders leaves the user on the page.                           *)
CancelDialog == \E d \in dialogs :
  /\ open /\ (d = "inform" \/ "inform" \notin dialogs)
  /\ dialogs' = dialogs \ {d}
  /\ is_continue' = (is_continue /\ d # "delete")
  /\ report' = IF d = "flip" THEN reportLoaded ELSE report
  /\ UNCHANGED <<kind, reportLoaded, code, savedCode, open, modelVars, busy, posts, answered,
                 loaded, confirmed>>

-----------------------------------------------------------------------------
(* Saving.                                                                 *)

(* DW.post_project_data, DW.post_subject_data or submit_questionnaire.     *)
Post == posts < MaxPosts /\ posts' = posts + 1

(* #save_and_create, or #submit-button of the other two pages: one more    *)
(* warning if a question was removed and data exist.                       *)
Save == \E has \in questionnaire_has_submission :
  /\ Idle /\ FormValid /\ ~busy
  /\ IF /\ kind \in {"edit", "subject"} /\ hasDeletedOldQuestion
        /\ ~is_continue /\ has
     THEN dialogs' = {"save"} /\ UNCHANGED <<posts, busy>>
     ELSE Post /\ busy' = TRUE /\ UNCHANGED dialogs
  /\ UNCHANGED <<formVars, open, modelVars, is_continue, answered, loaded, confirmed>>

(* The tab blocks the page before it validates the form.                   *)
SaveInvalid ==
  /\ Idle /\ kind = "tab" /\ ~FormValid
  /\ busy' = TRUE
  /\ UNCHANGED <<formVars, open, modelVars, is_continue, dialogs, posts, answered,
                 loaded, confirmed>>

(* Continue in that warning.  The subject page has enabled its button.     *)
ContinueSave ==
  /\ open /\ "save" \in dialogs /\ "inform" \notin dialogs
  /\ Post
  /\ dialogs' = dialogs \ {"save"}
  /\ busy' = (kind # "subject")
  /\ confirmed' = TRUE
  /\ UNCHANGED <<formVars, open, modelVars, is_continue, answered, loaded>>

(* #save_as_draft: no warning, and the page stays usable.                  *)
SaveAsDraft ==
  /\ Idle /\ kind \in Projects /\ FormValid
  /\ Post
  /\ UNCHANGED <<formVars, open, modelVars, is_continue, dialogs, busy, answered,
                 loaded, confirmed>>

(* A mutant of Informs: an addition is no change.                          *)
InformsOfOldOnly == questionnaire_was_changed

(* The answer to a post reaches the page: the questionnaire is saved.      *)
Informs == questionnaire_was_changed \/ \E i \in DOMAIN questions : questions[i].new

SavedAndStays ==
  /\ open /\ kind \in {"subject", "tab"}
  /\ posts > 0 /\ posts' = posts - 1
  /\ busy' = FALSE
  /\ \E c \in {1, 2} : savedCode' = IF kind = "subject" THEN c ELSE savedCode
  /\ questions' = [i \in DOMAIN questions |-> [questions[i] EXCEPT !.new = FALSE]]
  /\ loaded' = questions'
  /\ IF kind = "tab" /\ Informs
     THEN dialogs' = dialogs \cup {"inform"} /\ questionnaire_was_changed' = FALSE
     ELSE UNCHANGED <<dialogs, questionnaire_was_changed>>
  /\ UNCHANGED <<kind, code, report, reportLoaded, open, selectedQuestion,
                 hasAddedNewQuestions, hasDeletedOldQuestion, is_continue, answered, confirmed>>

SavedAndLeaves ==
  /\ open /\ kind \in Projects
  /\ posts > 0 /\ posts' = posts - 1
  /\ busy' = FALSE
  /\ IF kind = "edit" /\ Informs
     THEN dialogs' = dialogs \cup {"inform"} /\ UNCHANGED open
     ELSE dialogs' = {} /\ open' = FALSE   \* window.location.replace
  /\ UNCHANGED <<formVars, modelVars, is_continue, answered, loaded, confirmed>>

(* A mutant of Refused: the page stays blocked.                            *)
RefusedBlocked ==
  /\ open
  /\ posts > 0 /\ posts' = posts - 1
  /\ UNCHANGED <<formVars, open, modelVars, is_continue, dialogs, busy, answered, loaded, confirmed>>

(* The server refuses the questionnaire, and says so.                      *)
Refused ==
  /\ open
  /\ posts > 0 /\ posts' = posts - 1
  /\ busy' = FALSE
  /\ UNCHANGED <<formVars, open, modelVars, is_continue, dialogs, answered, loaded, confirmed>>

(* The request or its answer is lost: the page is unblocked when no other  *)
(* is under way (ajaxStop), the button of the subject page never.          *)
PostFails ==
  /\ open
  /\ posts > 0 /\ posts' = posts - 1
  /\ busy' = (busy /\ (kind = "subject" \/ posts > 1))
  /\ UNCHANGED <<formVars, open, modelVars, is_continue, dialogs, answered, loaded, confirmed>>

(* Continue in the dialog that asks to inform the data senders.            *)
ContinueInform ==
  /\ open /\ "inform" \in dialogs
  /\ open' = (kind # "edit")
  /\ dialogs' = IF kind = "edit" THEN {} ELSE dialogs \ {"inform"}
  /\ UNCHANGED <<formVars, modelVars, is_continue, busy, posts, answered, loaded, confirmed>>

(* The first answers to the saved questionnaire arrive.                    *)
DataArrive ==
  /\ open /\ kind # "create" /\ ~answered
  /\ answered' = TRUE
  /\ UNCHANGED <<formVars, open, modelVars, is_continue, dialogs, busy, posts, loaded, confirmed>>

BuilderNext ==
  \/ ChangeSelectedQuestion \/ ChangeTitle \/ ChangeCode \/ AddQuestion \/ ClickDelete
  \/ ChangeReport \/ ContinueFlip \/ ContinueDelete \/ CancelDialog
  \/ Save \/ SaveInvalid \/ ContinueSave \/ SaveAsDraft
  \/ SavedAndStays \/ SavedAndLeaves \/ Refused \/ PostFails \/ ContinueInform
  \/ DataArrive

BuilderSpec == BuilderInit /\ [][BuilderNext]_builderVars

-----------------------------------------------------------------------------
(* The state has its type, and the question shown on the right is one of   *)
(* the list, whatever was removed, flipped or loaded.                      *)
BuilderTypeOK ==
  /\ questions \in Seq(Question) /\ loaded \in Seq(Question)
  /\ selectedQuestion \in Ids(questions)
  /\ dialogs \subseteq {"delete", "period", "save", "flip", "inform"}
  /\ {code, savedCode} \subseteq {1, 2}
  /\ report \in Reports /\ reportLoaded \in Reports
  /\ posts \in 0..MaxPosts

(* Save posts a questionnaire with collected data and without a question   *)
(* it had only after the user confirmed a warning: the ones of             *)
(* removeQuestionCheckForSubmission and ...ForRegistration, or the one of  *)
(* #save_and_create and #submit-button.  (#save_as_draft asks nothing.)    *)
DataLossConfirmed ==
  [][ (/\ posts' > posts /\ (busy' \/ kind = "subject")
       /\ answered /\ Ids(loaded) \ Ids(questions) # {})
        => confirmed' ]_builderVars

(* The form shows one question, and validation sees no other: the rest of  *)
(* the list still has no empty title.                                      *)
HiddenQuestionsValid ==
  \A i \in DOMAIN questions : questions[i].id # selectedQuestion => questions[i].title # 0

(* The numbers the page gives stay distinct through additions and          *)
(* removals: "Question n" is the n-th one, and names differ on the subject *)
(* page, where they are not renumbered.                                    *)
GeneratedNamesDistinct ==
  \A i \in DOMAIN questions :
    /\ questions[i].title > 0 => questions[i].title = i
    /\ questions[i].name > 0 => \A j \in DOMAIN questions :
                                   questions[j].name = questions[i].name => i = j

(* Outside the warning, the report the form would post is the one whose    *)
(* template was loaded.                                                    *)
ReportMatchesQuestions == open /\ "flip" \notin dialogs => report = reportLoaded

(* Questions the user added to a new project are not replaced by another   *)
(* template unless the user said Continue.                                 *)
AddedQuestionsKept ==
  reportLoaded' # reportLoaded => "flip" \in dialogs \/ \A i \in DOMAIN questions : ~questions[i].new

(* When a page that shows something else than it was opened with (a        *)
(* question more or less, another title or code) goes on because it is     *)
(* saved, it has proposed to inform the data senders.                      *)
Text(list) == [i \in DOMAIN list |-> <<list[i].id, list[i].title>>]
ChangesAnnounced ==
  [][ (/\ kind \in {"edit", "tab"} /\ posts' < posts /\ (~open' \/ loaded' # loaded)
       /\ Text(questions) # Text(loaded) \/ code # savedCode)
        => "inform" \in dialogs' ]_builderVars

(* A project page is blocked only while a request that will unblock it is  *)
(* under way.                                                              *)
NotBlockedForGood == open /\ busy /\ kind \in Projects => posts > 0

(* What a user sees of the list is sound: the two above together.          *)
QuestionsSound == HiddenQuestionsValid /\ GeneratedNamesDistinct

(* The report chosen and the questions shown belong together, however the  *)
(* warning about changing the report was answered, and the user's own      *)
(* questions survive it.                                                   *)
ReportAndQuestionsAgree == [][ReportMatchesQuestions' /\ AddedQuestionsKept]_builderVars
=============================================================================
