--------------------------- MODULE WebApplication ---------------------------
(***************************************************************************)
(* The pages of the web application that keep a state in the browser, with *)
(* the server as far as they talk to it, and the parts of the server that  *)
(* pages read and write: the store of questionnaires, the table of trial   *)
(* numbers and the copies in the search index.  They do not run together:  *)
(* a browser window shows one page, which starts over when it is loaded,   *)
(* and these parts of the server share no state.  A behaviour is one of    *)
(* the component it begins with, the others staying as they are.           *)
(***************************************************************************)
EXTENDS QuestionnaireBuilder, OptionList, QuestionnaireStore, RecordList, ImportPopup,
        SubmissionLog, UnsavedChanges, BroadcastSms, TrialNumbers, SearchIndex,
        DataSenderIndex

VARIABLE component

Parts == {"builder", "options", "store", "list", "import", "log", "form", "broadcast", "numbers",
          "search", "rows"}

appVars == <<component, builderVars, optionVars, storeVars, listVars, importVars, logVars,
             unsavedVars, broadcastVars, numberVars, searchVars, rowVars>>

(* A component that is not shown begins in one of its initial states.      *)
AppInit ==
  /\ component \in Parts
  /\ BuilderInit /\ (component # "builder" => kind = "create")
  /\ OptionInit  /\ (component # "options" => ~is_edit /\ Len(options) = 1)
  /\ StoreInit
  /\ ListInit    /\ (component # "list" => /\ listKind = "submissions"
                                          /\ records = Records
                                          /\ iDisplayLength = Max(PageLengths))
  /\ ImportInit  /\ (component # "import" => importKind = "submissions")
  /\ LogInit     /\ (component # "log" => logKind = "log")
  /\ UnsavedInit /\ (component # "form" => formKind = "subject" /\ saved \notin Invalid)
  /\ BroadcastInit
  /\ NumbersInit
  /\ SearchInit  /\ (component # "search" => /\ date_format = CHOOSE f \in DateFormats : TRUE
                                            /\ \A e \in Entities : entity_name[e] =
                                                 CHOOSE n \in EntityNames : TRUE)
  /\ RowsInit    /\ (component # "rows" => project = CHOOSE f \in NewProjects : TRUE)

AppNext ==
  /\ UNCHANGED component
  /\ \/ /\ component = "builder" /\ BuilderNext
        /\ UNCHANGED <<optionVars, storeVars, listVars, importVars, logVars,
                       unsavedVars, broadcastVars, numberVars, searchVars, rowVars>>
     \/ /\ component = "options" /\ OptionNext
        /\ UNCHANGED <<builderVars, storeVars, listVars, importVars, logVars,
                       unsavedVars, broadcastVars, numberVars, searchVars, rowVars>>
     \/ /\ component = "store" /\ StoreNext
        /\ UNCHANGED <<builderVars, optionVars, listVars, importVars, logVars,
                       unsavedVars, broadcastVars, numberVars, searchVars, rowVars>>
     \/ /\ component = "list" /\ ListNext
        /\ UNCHANGED <<builderVars, optionVars, storeVars, importVars, logVars,
                       unsavedVars, broadcastVars, numberVars, searchVars, rowVars>>
     \/ /\ component = "import" /\ ImportNext
        /\ UNCHANGED <<builderVars, optionVars, storeVars, listVars, logVars,
                       unsavedVars, broadcastVars, numberVars, searchVars, rowVars>>
     \/ /\ component = "log" /\ LogNext
        /\ UNCHANGED <<builderVars, optionVars, storeVars, listVars, importVars,
                       unsavedVars, broadcastVars, numberVars, searchVars, rowVars>>
     \/ /\ component = "form" /\ UnsavedNext
        /\ UNCHANGED <<builderVars, optionVars, storeVars, listVars, importVars,
                       logVars, broadcastVars, numberVars, searchVars, rowVars>>
     \/ /\ component = "broadcast" /\ BroadcastNext
        /\ UNCHANGED <<builderVars, optionVars, storeVars, listVars, importVars,
                       logVars, unsavedVars, numberVars, searchVars, rowVars>>
     \/ /\ component = "numbers" /\ NumbersNext
        /\ UNCHANGED <<builderVars, optionVars, storeVars, listVars, importVars,
                       logVars, unsavedVars, broadcastVars, searchVars, rowVars>>
     \/ /\ component = "search" /\ SearchNext
        /\ UNCHANGED <<builderVars, optionVars, storeVars, listVars, importVars,
                       logVars, unsavedVars, broadcastVars, numberVars, rowVars>>
     \/ /\ component = "rows" /\ RowsNext
        /\ UNCHANGED <<builderVars, optionVars, storeVars, listVars, importVars,
                       logVars, unsavedVars, broadcastVars, numberVars, searchVars>>

AppSpec == AppInit /\ [][AppNext]_appVars

(* Every page keeps its type.                                              *)
PagesTypeOK ==
  /\ BuilderTypeOK /\ StoreTypeOK /\ ListTypeOK
  /\ ImportTypeOK /\ LogTypeOK /\ UnsavedTypeOK

(* Whoever blocks a page (DW.loading, $.blockUI) has a request under way   *)
(* whose end unblocks it: saving a project, importing, opening a tab.      *)
NoPageBlockedForGood == NotBlockedForGood /\ BlockedWhileSending /\ TabNotBlockedForGood

(* What the builder shows, and what its choices mean to the answers that   *)
(* were collected with them, are sound.                                    *)
QuestionnaireSound == QuestionsSound /\ AnswersStayReadable

(* What the server lists from the search index, responses and the data     *)
(* senders of a project, is what the databases hold.                       *)
IndexAgrees == LogShowsWhatIsStored /\ RowsNameTheProjects
=============================================================================
