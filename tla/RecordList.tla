----------------------------- MODULE RecordList -----------------------------
(***************************************************************************)
(* A page that lists records in a dwTable and acts on the selected ones:   *)
(* all data senders ("datasenders") or those of a project ("project"), the *)
(* subjects of a type ("subjects") and the submissions of a project        *)
(* ("submissions").  The server searches and cuts the list into pages; the *)
(* user sees the rows of the last answer, and the action is decided on     *)
(* them while the records, the search box and the requests move on.        *)
(***************************************************************************)
EXTENDS Integers, FiniteSets, FiniteSetsExt

CONSTANTS
  ListKinds,    \* the pages the user may open
  Records,      \* records there may ever be: their number is their order
  Searches,     \* what the search box, or the filters, may say
  Matching,     \* [Searches -> SUBSET Records]: what the server finds for them
  NoSearch,     \* the empty search box
  PageLengths,  \* the choices of "Show _MENU_"
  Superusers    \* data senders who are users of the account

ASSUME ListAssumption ==
  /\ ListKinds \subseteq {"datasenders", "project", "subjects", "submissions"}
  /\ Records \subseteq Nat /\ IsFiniteSet(Records)
  /\ NoSearch \in Searches /\ Matching \in [Searches -> SUBSET Records]
  /\ PageLengths \subseteq Nat \ {0} /\ Superusers \subseteq Records

VARIABLES
  listKind,
  records,         \* what the server holds
  searchBox,
  iDisplayStart, iDisplayLength,   \* of the table's settings
  displayLength,   \* the length it was last drawn with
  xhr,             \* the request to the server whose answer is awaited, or {}
  rows, recordsDisplay,            \* the answer shown, and how many records match
  checked,         \* ticked rows
  checkall,        \* the tick in the header
  all_selected, message,           \* .select_all_message: its data, what it says
  dialog,          \* the dialog that is open, with the data it was given, or {}
  acting,          \* the action posted to the server, or {}
  handlers,        \* handlers of #ok_button (subject page)
  rowsFor,         \* history: the search the rows answer
  counted,         \* history: the records found then, as many as recordsDisplay
  fresh,           \* history: no request was made since the rows were drawn
  drifted          \* history: see Remember

tableVars == <<searchBox, iDisplayStart, iDisplayLength, displayLength, xhr, rows,
               recordsDisplay, checked, checkall, all_selected, message, rowsFor, counted, fresh>>
listVars  == <<listKind, records, tableVars, dialog, acting, handlers, drifted>>

Smaller(a, b) == IF a <= b THEN a ELSE b
Found(s)      == records \cap Matching[s]
(* The records from the start-th on, of those found.                       *)
Page(found, start, length) ==
  {r \in found : LET before == Cardinality({q \in found : q < r})
                 IN start <= before /\ before < start + length}
fnDisplayEnd == Smaller(iDisplayStart + iDisplayLength, recordsDisplay)

ListInit ==
  /\ listKind \in ListKinds
  /\ records \in {S \in SUBSET Records : S # {}}
  /\ searchBox = NoSearch /\ rowsFor = NoSearch
  /\ iDisplayStart = 0 /\ iDisplayLength \in PageLengths /\ displayLength = iDisplayLength
  /\ xhr = {} /\ rows = Page(Found(NoSearch), 0, iDisplayLength)
  /\ recordsDisplay = Cardinality(Found(NoSearch)) /\ counted = Found(NoSearch)
  /\ checked = {} /\ checkall = FALSE /\ all_selected = FALSE /\ message = "none"
  /\ dialog = {} /\ acting = {} /\ handlers = 0 /\ fresh = TRUE /\ drifted = FALSE

(* A dialog is modal; a posted action blocks the page.                     *)
Blocked == acting # {}
Free    == dialog = {} /\ ~Blocked

-----------------------------------------------------------------------------
(* Drawing.                                                                *)

(* fnDraw, from the start that is given: fnPreDrawCallback clears the      *)
(* ticks, and goes back to the first page when the length changed; the     *)
(* request replaces the one under way (abort, and sEcho).  The message     *)
(* and its data stay until the answer is drawn.                            *)
Draw(search, start, length) ==
  LET from == IF displayLength # length THEN 0 ELSE start
  IN /\ checked' = {} /\ checkall' = FALSE
     /\ displayLength' = length /\ iDisplayLength' = length
     /\ iDisplayStart' = from
     /\ xhr' = {[search |-> search, start |-> from, length |-> length]}
     /\ fresh' = FALSE
     /\ UNCHANGED <<rows, recordsDisplay, all_selected, message, rowsFor, counted>>

(* drifted: a page was turned, or an action chosen, on rows that do not    *)
(* answer the last request; the answer to an action was lost; or records   *)
(* were deleted by others.                                                 *)
Remember == drifted' = (drifted \/ ~fresh)

Search == \E s \in Searches \ {searchBox} :
  /\ Free
  /\ searchBox' = s
  /\ Draw(s, 0, iDisplayLength)
  /\ UNCHANGED <<listKind, records, dialog, acting, handlers, drifted>>

(* First, previous, next, last.                                            *)
ChangePage == \E start \in {0, iDisplayStart - iDisplayLength, iDisplayStart + iDisplayLength,
                            ((recordsDisplay - 1) \div iDisplayLength) * iDisplayLength} :
  /\ Free
  /\ start > iDisplayStart => fnDisplayEnd # recordsDisplay
  /\ start < iDisplayStart => iDisplayStart # 0
  /\ start # iDisplayStart
  /\ Draw(searchBox, IF start < 0 THEN 0 ELSE start, iDisplayLength)
  /\ Remember
  /\ UNCHANGED <<listKind, records, searchBox, dialog, acting, handlers>>

ChangeLength == \E length \in PageLengths \ {iDisplayLength} :
  /\ Free
  /\ Draw(searchBox, iDisplayStart, length)
  /\ UNCHANGED <<listKind, records, searchBox, dialog, acting, handlers, drifted>>

(* The answer, whatever is open by then: the rows are replaced, and        *)
(* nothing is selected.                                                    *)
Shown(q) ==
  /\ rows' = Page(Found(q.search), q.start, q.length)
  /\ recordsDisplay' = Cardinality(Found(q.search)) /\ counted' = Found(q.search)
  /\ checked' = {} /\ checkall' = FALSE
  /\ all_selected' = FALSE /\ message' = "none"
  /\ rowsFor' = q.search /\ fresh' = TRUE

RowsAnswered == \E q \in xhr :
  /\ Shown(q)
  /\ xhr' = xhr \ {q}
  /\ UNCHANGED <<listKind, records, searchBox, iDisplayStart, iDisplayLength, displayLength,
                 dialog, acting, handlers, drifted>>

(* "error": function () {}                                                 *)
RowsNotAnswered == \E q \in xhr :
  /\ xhr' = xhr \ {q}
  /\ UNCHANGED <<listKind, records, searchBox, iDisplayStart, iDisplayLength, displayLength,
                 rows, recordsDisplay, checked, checkall, all_selected, message, rowsFor, counted,
                 fresh, dialog, acting, handlers, drifted>>

-----------------------------------------------------------------------------
(* Selecting.                                                              *)

(* A mutant of show_select_all_message: hiding it keeps its data.          *)
show_message_only(show) ==
  /\ message' = IF show /\ Cardinality(rows) # recordsDisplay THEN "page" ELSE "none"
  /\ UNCHANGED all_selected

show_select_all_message(show) ==
  IF show /\ Cardinality(rows) # recordsDisplay
  THEN message' = "page" /\ UNCHANGED all_selected
  ELSE message' = "none" /\ all_selected' = FALSE

ClickCheckall ==
  /\ Free /\ recordsDisplay # 0
  /\ checkall' = ~checkall
  /\ checked' = IF checkall THEN {} ELSE rows
  /\ show_select_all_message(~checkall)
  /\ UNCHANGED <<listKind, records, searchBox, iDisplayStart, iDisplayLength, displayLength,
                 xhr, rows, recordsDisplay, rowsFor, counted, fresh,
                 dialog, acting, handlers, drifted>>

ClickRow == \E r \in rows :
  /\ Free
  /\ checked' = (checked \ {r}) \cup ({r} \ checked)
  /\ checkall' = (checked' = rows)
  /\ show_select_all_message(checked' = rows)
  /\ UNCHANGED <<listKind, records, searchBox, iDisplayStart, iDisplayLength, displayLength,
                 xhr, rows, recordsDisplay, rowsFor, counted, fresh,
                 dialog, acting, handlers, drifted>>

select_all_rows ==
  /\ Free /\ message = "page"
  /\ message' = "all" /\ all_selected' = TRUE
  /\ UNCHANGED <<listKind, records, searchBox, iDisplayStart, iDisplayLength, displayLength,
                 xhr, rows, recordsDisplay, checked, checkall, rowsFor, counted, fresh,
                 dialog, acting, handlers, drifted>>

clear_select_all_rows ==
  /\ Free /\ message = "all"
  /\ message' = "none" /\ all_selected' = FALSE
  /\ checked' = {} /\ checkall' = FALSE
  /\ UNCHANGED <<listKind, records, searchBox, iDisplayStart, iDisplayLength, displayLength,
                 xhr, rows, recordsDisplay, rowsFor, counted, fresh,
                 dialog, acting, handlers, drifted>>

-----------------------------------------------------------------------------
(* Acting.  A menu item is given the ticked rows and all_selected.         *)

(* A mutant of get_updated_table_page_index: always the same page.         *)
same_page_index(ids) == iDisplayStart

get_updated_table_page_index(ids) ==
  IF \/ all_selected
     \/ fnDisplayEnd = recordsDisplay /\ Cardinality(rows) = Cardinality(ids)
  THEN 0 ELSE iDisplayStart

(* What the page tells the user is selected: "all" are those it counted    *)
(* when it drew the rows.  Later are those the server may find besides, if *)
(* they were registered or received since.                                 *)
Told  == IF message = "all" THEN counted ELSE checked
Later == IF message = "all" THEN Matching[rowsFor] \ counted ELSE {}

Choice(what) ==
  [what |-> what, ids |-> checked, all |-> all_selected,
   pageToGo |-> IF listKind \in {"datasenders", "project"}
                THEN get_updated_table_page_index(checked) ELSE 0,
   told |-> Told, later |-> Later, sure |-> fresh]   \* history

(* A mutant of Requested: the search is not sent.                          *)
RequestedUnsearched(d, times) ==
  {[what |-> d.what, ids |-> d.ids, all |-> d.all, search |-> NoSearch, pageToGo |-> d.pageToGo,
    times |-> times, left |-> times, done |-> {}, told |-> d.told, later |-> d.later,
    sure |-> d.sure]}

Requested(d, times) ==
  {[what |-> d.what, ids |-> d.ids, all |-> d.all, search |-> searchBox, pageToGo |-> d.pageToGo,
    times |-> times, left |-> times, done |-> {}, told |-> d.told, later |-> d.later,
    sure |-> d.sure]}

(* handle_datasender_delete: the users among the selected ones are named   *)
(* by the page for the ticked rows, by the server when all are selected;   *)
(* if there are as many as ticked rows, nothing can be deleted.            *)
NamedUsers == Superusers \cap (IF all_selected THEN Found(searchBox) ELSE checked)
OnlyUsers  == NamedUsers # {} /\ Cardinality(NamedUsers) = Cardinality(checked)

OpenDelete ==
  /\ Free /\ checked # {} /\ listKind # "project"
  /\ dialog' = {Choice(IF listKind = "datasenders" /\ OnlyUsers THEN "warning" ELSE "delete")}
  /\ handlers' = IF listKind = "subjects" THEN handlers + 1 ELSE handlers
  /\ handlers < 2   \* bound
  /\ Remember
  /\ UNCHANGED <<listKind, records, tableVars, acting>>

(* add_remove_from_project                                                 *)
OpenProjects == \E what \in {"associate", "disassociate"} :
  /\ Free /\ checked # {} /\ listKind = "datasenders"
  /\ dialog' = {Choice(what)}
  /\ Remember
  /\ UNCHANGED <<listKind, records, tableVars, acting, handlers>>

(* populate_dialog_box_for_web_users: the ticked rows only.                *)
OpenWebUsers ==
  /\ Free /\ checked # {} /\ listKind = "datasenders"
  /\ dialog' = {[Choice("webusers") EXCEPT !.all = FALSE, !.told = checked, !.later = {}]}
  /\ Remember
  /\ UNCHANGED <<listKind, records, tableVars, acting, handlers>>

(* remove_from_project asks nothing, and moves the table before it posts.  *)
remove_from_project ==
  /\ Free /\ checked # {} /\ listKind = "project" /\ acting = {}
  /\ acting' = Requested(Choice("remove"), 1)
  /\ iDisplayStart' = get_updated_table_page_index(checked)
  /\ Remember
  /\ UNCHANGED <<listKind, records, searchBox, iDisplayLength, displayLength, xhr, rows,
                 recordsDisplay, checked, checkall, all_selected, message, rowsFor, counted, fresh,
                 dialog, handlers>>

(* OK: the search box is read now.  The dialogs on projects and web users  *)
(* stay open until the answer.                                             *)
Confirm == \E d \in dialog :
  /\ d.what # "warning" /\ acting = {}
  /\ acting' = Requested(d, IF listKind = "subjects" THEN handlers ELSE 1)
  /\ dialog' = IF d.what = "delete" THEN {} ELSE dialog
  /\ UNCHANGED <<listKind, records, tableVars, handlers, drifted>>

Cancel ==
  /\ dialog # {} /\ ~Blocked
  /\ dialog' = {}
  /\ UNCHANGED <<listKind, records, tableVars, acting, handlers, drifted>>

(* data_sender_short_codes, subject_short_codes_to_delete or               *)
(* get_survey_response_ids_from_request; users are not deleted.            *)
Removing == {"delete", "remove"}
ServerActs == \E a \in acting :
  LET asked   == IF a.all THEN Found(a.search) ELSE a.ids \cap records
      touched == IF listKind = "datasenders" /\ a.what = "delete"
                 THEN asked \ Superusers ELSE asked
  IN /\ a.left > 0
     /\ records' = IF a.what \in Removing THEN records \ touched ELSE records
     /\ acting' = {[a EXCEPT !.left = @ - 1, !.done = @ \cup touched]}
     /\ UNCHANGED <<listKind, tableVars, dialog, handlers, drifted>>

(* The answer to the action: the table is drawn again.  The index of the   *)
(* submissions is computed only now.                                       *)
ActionDone == \E a \in acting :
  /\ listKind # "subjects" /\ a.left = 0
  /\ LET start == IF listKind = "submissions" THEN get_updated_table_page_index(a.ids)
                   ELSE IF a.what \in {"delete", "disassociate"} THEN a.pageToGo
                   ELSE iDisplayStart
     IN Draw(searchBox, start, iDisplayLength)
  /\ acting' = {} /\ dialog' = {}
  /\ drifted' = (drifted \/ (listKind = "submissions" /\ ~fresh))
  /\ UNCHANGED <<listKind, records, searchBox, handlers>>

(* window.location.reload() at the first answer; a second request goes on. *)
PageReloaded == \E a \in acting :
  /\ listKind = "subjects" /\ a.left < a.times
  /\ acting' = {}
  /\ searchBox' = NoSearch /\ iDisplayStart' = 0
  /\ iDisplayLength' \in PageLengths /\ displayLength' = iDisplayLength'
  /\ xhr' = {} /\ Shown([search |-> NoSearch, start |-> 0, length |-> iDisplayLength'])
  /\ handlers' = 0 /\ dialog' = {}
  /\ UNCHANGED <<listKind, records, drifted>>

(* The action is refused, or its answer lost.                              *)
ActionFails == \E a \in acting :
  /\ acting' = {}
  /\ drifted' = (drifted \/ a.done # {})
  /\ UNCHANGED <<listKind, records, tableVars, dialog, handlers>>

(* A record is registered or received meanwhile.                           *)
RecordArrives == \E r \in Records \ records :
  /\ records' = records \cup {r}
  /\ UNCHANGED <<listKind, tableVars, dialog, acting, handlers, drifted>>

(* One is deleted by somebody else, or by the second request of a subject  *)
(* page that was loaded again since.                                       *)
RecordGoes == \E r \in records :
  /\ records' = records \ {r}
  /\ drifted' = TRUE
  /\ UNCHANGED <<listKind, tableVars, dialog, acting, handlers>>

ListNext ==
  \/ Search \/ ChangePage \/ ChangeLength \/ RowsAnswered \/ RowsNotAnswered
  \/ ClickCheckall \/ ClickRow \/ select_all_rows \/ clear_select_all_rows
  \/ OpenDelete \/ OpenProjects \/ OpenWebUsers \/ remove_from_project
  \/ Confirm \/ Cancel \/ ServerActs \/ ActionDone \/ PageReloaded \/ ActionFails
  \/ RecordArrives \/ RecordGoes

ListSpec == ListInit /\ [][ListNext]_listVars

-----------------------------------------------------------------------------
(* The state has its type, and at most one request, one dialog and one     *)
(* action are under way.                                                   *)
ListTypeOK ==
  /\ records \subseteq Records /\ searchBox \in Searches /\ rowsFor \in Searches
  /\ iDisplayStart \in Nat /\ iDisplayLength \in PageLengths
  /\ message \in {"none", "page", "all"} /\ {all_selected, checkall} \subseteq BOOLEAN
  /\ \A S \in {xhr, dialog, acting} : Cardinality(S) <= 1

(* The ticks are on rows that are shown, through reloads and deletions, and*)
(* the header's is on exactly when all of them are.                        *)
TicksAreShown ==
  /\ checked \subseteq rows
  /\ rows # {} => (checkall <=> checked = rows)

(* While the rows answer the last request, everything found is selected    *)
(* exactly when the page says so, and then every row shown is ticked.      *)
SelectionAnnounced ==
  fresh => /\ all_selected <=> message = "all"
           /\ all_selected => checkall

(* Users of the account are not deleted with the data senders.             *)
Spared(a) == IF listKind = "datasenders" /\ a.what = "delete" THEN Superusers ELSE {}

(* An action decided on rows that answer the last request does what the    *)
(* page said was selected, although the server searches again with what    *)
(* the box says when the user confirms: it touches nothing else, but for   *)
(* records that came since and answer the same search, when all were       *)
(* selected; and once the server has acted, nothing that was announced is  *)
(* left out, unless it was deleted by others or may not be deleted.        *)
ActsOnWhatWasTold == \A a \in acting : a.sure =>
  /\ a.done \subseteq a.told \cup a.later
  /\ ~drifted /\ a.left < a.times => a.told \ Spared(a) \subseteq a.done

(* "You have selected all N": an action touches nothing but these N, even  *)
(* when a record arrives before the server searches again.                 *)
ActsOnWhatWasCounted == \A a \in acting : a.sure => a.done \subseteq a.told

(* Removing the last rows of the list does not leave the user on a page    *)
(* beyond its end.                                                         *)
PageNotBeyondEnd == fresh /\ ~drifted => (rows = {} => recordsDisplay = 0)

(* What is selected is what the page shows as selected, by its ticks and by*)
(* its message.                                                            *)
SelectionShown == TicksAreShown /\ SelectionAnnounced

(* The list shows what there is, and selects what it shows as selected.    *)
ListShownAsItIs == SelectionShown /\ PageNotBeyondEnd
=============================================================================
