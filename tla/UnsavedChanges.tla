--------------------------- MODULE UnsavedChanges ---------------------------
(***************************************************************************)
(* A form that warns before the user leaves it with unsaved changes: the   *)
(* edition of a submission ("submission"), whose warning offers to save,   *)
(* to discard or to stay, and which also guards the links that act on the  *)
(* project; the edition of a subject ("subject") and of a data sender, in  *)
(* a dialog ("sender"), whose warnings ask whether to leave.               *)
(***************************************************************************)
EXTENDS TLC

CONSTANTS
  FormKinds,
  Values, Invalid, SavedAtFirst,   \* what the form may hold, what the server refuses
  Links,                           \* of the page; "#" goes nowhere
  ProjectLinks                     \* .sms_tester, .activate_project, .delete_project

ASSUME UnsavedAssumption ==
  /\ FormKinds \subseteq {"submission", "subject", "sender"}
  /\ Invalid \subseteq Values /\ SavedAtFirst \subseteq Values
  /\ "#" \in Links /\ {"none", "closed"} \cap Links = {}
  /\ {"#", "none", "closed"} \cap ProjectLinks = {}

VARIABLES
  formKind,
  saved,                  \* what the server holds
  value, initialValue,    \* what the form shows, and showed when it was loaded
  form_has_errors,
  linksWarn,              \* bind_project_links(true) was called last
  redirect_url, click_after_reload,  \* of the data_submission object, "none" for none
  hidden,                 \* the hidden inputs of these names
  warning,                \* #cancel_submission_warning_message is open
  projectDialog,          \* the dialog of a project link that is open, or "none"
  post,                   \* {[value, hidden, discard]}: the form that was submitted
  goneTo,                 \* where the browser went, "closed" for a dialog that was closed
                          \* with Escape or the cross, or "none"
  wanted,                 \* history: what the user last asked for and did not take back
  owed,                   \* history: what was asked for of a save that was not yet accepted
  remembered,             \* history: the page remembers a button that was already answered
  discarded               \* history: the page remembers a link whose save was discarded

pageVars == <<value, initialValue, form_has_errors, linksWarn>>
wishVars == <<redirect_url, click_after_reload, hidden>>
askedVars == <<wanted, owed, remembered, discarded>>
unsavedVars == <<formKind, saved, pageVars, wishVars, warning, projectDialog, post, goneTo,
                 askedVars>>

NoWish == [redirect |-> "none", click |-> "none"]
LinksOf(k) == IF k = "sender" THEN {"cancel"} ELSE Links

(* The page as the server renders it.                                      *)
Load(v, errors) ==
  /\ value' = v /\ initialValue' = v /\ form_has_errors' = errors
  /\ linksWarn' = (errors /\ formKind = "submission")
  /\ redirect_url' = "none" /\ click_after_reload' = "none"

(* A submission that was received with errors shows them at once.          *)
UnsavedInit ==
  /\ formKind \in FormKinds
  /\ saved \in IF formKind = "submission" THEN SavedAtFirst ELSE SavedAtFirst \ Invalid
  /\ value = saved /\ initialValue = saved
  /\ form_has_errors = (saved \in Invalid) /\ linksWarn = form_has_errors
  /\ redirect_url = "none" /\ click_after_reload = "none" /\ hidden = NoWish
  /\ warning = FALSE /\ projectDialog = "none" /\ post = {} /\ goneTo = "none"
  /\ wanted = "none" /\ owed = "none" /\ remembered = FALSE /\ discarded = FALSE

is_form_changed == value # initialValue

OnForm == goneTo = "none" /\ post = {} /\ ~warning /\ projectDialog = "none"

-----------------------------------------------------------------------------
Edit == \E v \in Values \ {value} :
  /\ OnForm
  /\ value' = v
  /\ linksWarn' = (linksWarn \/ (formKind = "submission" /\ v # initialValue))
  /\ UNCHANGED <<formKind, saved, initialValue, form_has_errors, wishVars, warning,
                 projectDialog, post, goneTo, askedVars>>

redirect(to) == goneTo' = IF to = "#" THEN goneTo ELSE to

(* bind_all_links; the data sender's Cancel closes the dialog.             *)
ClickLink == \E l \in LinksOf(formKind) :
  /\ OnForm
  /\ redirect_url' = l /\ wanted' = l
  /\ IF is_form_changed \/ form_has_errors
     THEN warning' = TRUE /\ UNCHANGED goneTo
     ELSE redirect(l) /\ UNCHANGED warning
  /\ UNCHANGED <<formKind, saved, pageVars, click_after_reload, hidden, projectDialog, post,
                 owed, remembered, discarded>>

(* Escape and the cross of the data sender's dialog, which nothing guards, *)
(* a save under way included: blockUI does not stop the key.               *)
EscapeSenderForm ==
  /\ formKind = "sender" /\ goneTo = "none" /\ ~warning
  /\ goneTo' = "closed" /\ wanted' = "closed"
  /\ UNCHANGED <<formKind, saved, pageVars, wishVars, warning, projectDialog, post, owed,
                 remembered, discarded>>

(* The answer to that save is shown in a dialog that nobody sees.          *)
AnswerUnseen == \E p \in post :
  /\ goneTo = "closed"
  /\ saved' = IF p.value \in Invalid THEN saved ELSE p.value
  /\ post' = {}
  /\ UNCHANGED <<formKind, pageVars, wishVars, warning, projectDialog, goneTo, askedVars>>

ClickProjectLink == \E p \in ProjectLinks :
  /\ OnForm /\ formKind = "submission"
  /\ wanted' = p
  /\ IF linksWarn THEN /\ click_after_reload' = p /\ warning' = TRUE
                       /\ UNCHANGED projectDialog
                  ELSE /\ projectDialog' = p
                       /\ UNCHANGED <<click_after_reload, warning>>
  /\ UNCHANGED <<formKind, saved, pageVars, redirect_url, hidden, post, goneTo,
                 owed, remembered, discarded>>

(* The button is answered, and nothing clears what remembers it.           *)
CloseProjectDialog ==
  /\ projectDialog # "none" /\ goneTo = "none"
  /\ projectDialog' = "none" /\ wanted' = owed
  /\ remembered' = (remembered \/ click_after_reload # "none" \/ hidden.click # "none")
  /\ UNCHANGED <<formKind, saved, pageVars, wishVars, warning, post, goneTo, owed, discarded>>

(* The project is activated or deleted: its page is left.                  *)
ConfirmProjectDialog ==
  /\ projectDialog \notin {"none", "sms_tester"} /\ goneTo = "none"
  /\ goneTo' = projectDialog /\ wanted' = projectDialog
  /\ UNCHANGED <<formKind, saved, pageVars, wishVars, warning, projectDialog, post, owed,
                 remembered, discarded>>

-----------------------------------------------------------------------------
(* The answers to the warning.                                             *)

(* Cancel, Escape or the cross.  The button that was clicked stays in      *)
(* click_after_reload.                                                     *)
Dismiss ==
  /\ warning /\ post = {} /\ goneTo = "none"
  /\ warning' = FALSE
  /\ wanted' = owed
  /\ remembered' = (remembered \/ click_after_reload # "none")
  /\ UNCHANGED <<formKind, saved, pageVars, wishVars, projectDialog, post, goneTo, owed, discarded>>

Submit(wish, discard) ==
  /\ hidden' = wish
  /\ post' = {[value |-> value, discard |-> discard]}

(* "Save".  About a link, the button of an earlier save that was refused   *)
(* stays in its hidden input: val() reads it.                              *)
YesSave ==
  /\ warning /\ post = {} /\ goneTo = "none" /\ formKind = "submission"
  /\ Submit(IF click_after_reload # "none"
            THEN [redirect |-> "none", click |-> click_after_reload]
            ELSE [hidden EXCEPT !.redirect = IF redirect_url = "#" THEN "none" ELSE redirect_url],
            FALSE)
  /\ owed' = IF wanted = "#" THEN "none" ELSE wanted
  /\ remembered' = (remembered \/ (click_after_reload = "none" /\ hidden.click # "none"))
  /\ UNCHANGED <<formKind, saved, pageVars, redirect_url, click_after_reload, warning,
                 projectDialog, goneTo, wanted, discarded>>

(* "Don't Save", about a button of the project: errors are discarded by    *)
(* the server, with the button in its hidden input; without errors every   *)
(* input of the form takes its initial value again, that one included.     *)
(* Then the button is clicked again.                                       *)
NoDiscard ==
  /\ warning /\ post = {} /\ goneTo = "none"
  /\ formKind = "submission" /\ click_after_reload # "none"
  /\ warning' = FALSE
  /\ linksWarn' = FALSE
  /\ projectDialog' = click_after_reload
  /\ IF form_has_errors
     THEN /\ Submit([hidden EXCEPT !.click = click_after_reload], TRUE)
          /\ UNCHANGED value
     ELSE /\ value' = initialValue
          /\ UNCHANGED <<hidden, post>>
  /\ UNCHANGED <<formKind, saved, initialValue, form_has_errors, redirect_url, click_after_reload,
                 goneTo, askedVars>>

(* "Don't Save" about a link; on the other forms, the answer that leaves.  *)
Leave ==
  /\ warning /\ post = {} /\ goneTo = "none" /\ click_after_reload = "none"
  /\ redirect(redirect_url)
  /\ UNCHANGED <<formKind, saved, pageVars, wishVars, warning, projectDialog, post, askedVars>>

-----------------------------------------------------------------------------
(* The button of the form, and the server.                                 *)

(* A mutant of SaveChanges: the link last clicked is sent along.           *)
SaveChangesAndGo ==
  /\ OnForm
  /\ wanted' = owed
  /\ Submit([hidden EXCEPT !.redirect = redirect_url], FALSE)
  /\ UNCHANGED <<formKind, saved, pageVars, redirect_url, click_after_reload, warning,
                 projectDialog, goneTo, owed, remembered, discarded>>

SaveChanges ==
  /\ OnForm
  /\ wanted' = owed
  /\ Submit(hidden, FALSE)
  /\ UNCHANGED <<formKind, saved, pageVars, redirect_url, click_after_reload, warning,
                 projectDialog, goneTo, owed, remembered, discarded>>

(* edit_submission.js: the button that was clicked is clicked again when   *)
(* the page comes back without errors.                                     *)
Reload(v, errors) ==
  /\ Load(v, errors)
  /\ projectDialog' = IF errors THEN "none" ELSE hidden.click
  /\ warning' = FALSE /\ post' = {}
  /\ UNCHANGED <<formKind, hidden>>

(* submission_views.edit: the saved answers are shown again.  The link of  *)
(* an earlier save that was refused stays in its hidden input.             *)
Discard ==
  /\ \E p \in post : p.discard
  /\ goneTo = "none"
  /\ Reload(saved, saved \in Invalid)
  /\ owed' = IF saved \in Invalid THEN hidden.click ELSE "none"
  /\ discarded' = (discarded \/ hidden.redirect # "none")
  /\ UNCHANGED <<saved, goneTo, wanted, remembered>>

(* What the user asked for comes back in the page, and goes with whatever  *)
(* is saved next.                                                          *)
Refuse == \E p \in post :
  /\ ~p.discard /\ goneTo = "none"
  /\ Reload(p.value, TRUE)
  /\ wanted' = owed
  /\ UNCHANGED <<saved, goneTo, owed, remembered, discarded>>

(* The entity question always counts as changed, so that the answers are   *)
(* saved.                                                                  *)
Accept == \E p \in post :
  /\ ~p.discard /\ p.value \notin Invalid /\ goneTo = "none"
  /\ saved' = p.value
  /\ IF hidden.redirect # "none"
     THEN /\ goneTo' = hidden.redirect
          /\ UNCHANGED <<formKind, pageVars, wishVars, warning, projectDialog, post>>
     ELSE Reload(p.value, FALSE) /\ UNCHANGED goneTo
  /\ owed' = "none"
  /\ UNCHANGED <<wanted, remembered, discarded>>

UnsavedNext ==
  \/ Edit \/ ClickLink \/ EscapeSenderForm \/ AnswerUnseen
  \/ ClickProjectLink \/ CloseProjectDialog \/ ConfirmProjectDialog
  \/ Dismiss \/ YesSave \/ NoDiscard \/ Leave \/ SaveChanges
  \/ Discard \/ Refuse \/ Accept

UnsavedSpec == UnsavedInit /\ [][UnsavedNext]_unsavedVars

-----------------------------------------------------------------------------
(* The state has its type.                                                 *)
UnsavedTypeOK ==
  /\ {saved, value, initialValue} \subseteq Values
  /\ {form_has_errors, linksWarn, warning} \subseteq BOOLEAN
  /\ redirect_url \in Links \cup {"none", "cancel"}
  /\ {projectDialog, click_after_reload, hidden.click} \subseteq ProjectLinks \cup {"none"}

(* The dialog that tests, activates or deletes the project is open only    *)
(* over a form that shows what the server holds, whether it was opened at  *)
(* once or after the warning, a discard or a reload.                       *)
ProjectActionOnSaved ==
  projectDialog # "none" /\ post = {} => value = saved

(* The answers to leave: nothing typed is lost unless the user was warned, *)
(* or told the page to discard it.                                         *)
Announced ==
  goneTo' # goneTo /\ value # saved' => warning \/ \E p \in post : p.discard

(* The page goes nowhere but where the user last asked, also when the save *)
(* was refused, once or several times, and repeated with the button of the *)
(* form; until the answers of a refused save are discarded.                *)
GoesWhereAsked ==
  goneTo' # goneTo /\ ~discarded => goneTo' = wanted'

(* A dialog of the project opens only for the button that was last asked   *)
(* for, also after saves that were refused; until a button is answered     *)
(* that the page goes on remembering.                                      *)
OpensWhatWasAsked ==
  projectDialog' \notin {"none", projectDialog} /\ ~remembered => projectDialog' = wanted'

(* By links, buttons and the answers to the warning nothing typed is lost  *)
(* silently, project dialogs are opened over saved answers, and the page   *)
(* does what was last asked of it.  Escape and the cross of the data       *)
(* sender's dialog do lose what was typed, without a warning.              *)
UnsavedHandled ==
  [][ /\ ProjectActionOnSaved'
      /\ goneTo' # "closed" => Announced
      /\ GoesWhereAsked /\ OpensWhatWasAsked ]_unsavedVars
=============================================================================
