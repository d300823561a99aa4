---------------------------- MODULE ImportPopup ----------------------------
(***************************************************************************)
(* The dialog that imports submissions ("submissions"), data senders       *)
(* ("senders") or subjects of a type ("things") from files.  The uploader  *)
(* (fileuploader.js) accepts several files at once and sends at most       *)
(* maxConnections of them together; its list has been reduced to one item, *)
(* the file added last, and the answer to any other file is lost in an     *)
(* exception: its results are never shown, and its place in the queue is   *)
(* never given back.                                                       *)
(*                                                                         *)
(* Files are numbered in the order in which they are added, from the time  *)
(* the page is loaded.                                                     *)
(***************************************************************************)
EXTENDS Integers, SequencesExt

CONSTANTS
  ImportKinds,      \* the dialogs the user may open
  maxConnections,
  MaxFiles          \* bound: files chosen on one page

ASSUME ImportAssumption ==
  /\ ImportKinds \subseteq {"submissions", "senders", "things"}
  /\ maxConnections \in Nat \ {0} /\ MaxFiles \in Nat

VARIABLES
  importKind,
  popup,              \* the dialog is open
  chosen,             \* files added since the page was loaded
  queue,              \* _queue of the uploader
  sending,            \* files whose request is under way
  listed,             \* qqFileId of the only item of the list, or 0
  filesInProgress,    \* _filesInProgress: asks before leaving the page
  uploaderGone,       \* the button was replaced: the quota is over
  importBlocked,      \* blockUI
  outcome,            \* the message shown: whose file, and whether the answer was lost
  successOf, errorsOf,   \* the file whose rows each section shows, or 0
  dropped,            \* history: files whose place in the queue is lost
  unseen              \* history: files imported and answered since the dialog was opened

importVars == <<importKind, popup, chosen, queue, sending, listed, filesInProgress, uploaderGone,
                importBlocked, outcome, successOf, errorsOf, dropped, unseen>>

NothingShown == outcome' = {} /\ successOf' = 0 /\ errorsOf' = 0
NothingToldYet == UNCHANGED <<outcome, successOf, errorsOf>>
MaybeUnseen(id) == unseen' \in {unseen, IF popup THEN unseen \cup {id} ELSE unseen}

NewUploader  == queue' = <<>> /\ listed' = 0

(* The page as it is loaded, with what was imported before.                *)
PageLoaded ==
  /\ popup' = FALSE /\ chosen' = 0 /\ sending' = {} /\ filesInProgress' = 0
  /\ uploaderGone' = FALSE /\ importBlocked' = FALSE /\ dropped' = {} /\ unseen' = {}
  /\ NewUploader /\ NothingShown /\ UNCHANGED importKind

ImportInit ==
  /\ importKind \in ImportKinds
  /\ popup = FALSE /\ chosen = 0 /\ queue = <<>> /\ sending = {} /\ listed = 0
  /\ filesInProgress = 0 /\ uploaderGone = FALSE /\ importBlocked = FALSE
  /\ outcome = {} /\ successOf = 0 /\ errorsOf = 0 /\ dropped = {} /\ unseen = {}

-----------------------------------------------------------------------------
(* The dialog of submissions gets a new uploader each time (and does not   *)
(* open when its element is gone), the one of data senders is cleared, and *)
(* the one of subjects is left as it was.                                  *)
OpenPopup ==
  /\ ~popup /\ ~importBlocked /\ ~uploaderGone
  /\ popup' = TRUE
  /\ IF importKind = "things" THEN NothingToldYet ELSE NothingShown
  /\ IF importKind = "submissions" THEN NewUploader ELSE UNCHANGED <<queue, listed>>
  /\ unseen' = {}
  /\ UNCHANGED <<importKind, chosen, sending, filesInProgress, uploaderGone, importBlocked, dropped>>

(* The page is loaded again, unless the user stays because the uploader    *)
(* asks; then the page of submissions remains blocked.                     *)
LeavePage ==
  \/ PageLoaded
  \/ /\ filesInProgress # 0
     /\ popup' = FALSE /\ importBlocked' = (importBlocked \/ importKind = "submissions")
     /\ NothingToldYet
     /\ UNCHANGED <<importKind, chosen, queue, sending, listed, filesInProgress, uploaderGone,
                    dropped, unseen>>

(* The button of the dialog of submissions.  On the pages of data senders  *)
(* and subjects, closing it, be it with Escape, which blockUI does not     *)
(* stop, loads the page again if there is a message.                       *)
ClosePopup ==
  /\ popup
  /\ IF importKind = "submissions" THEN ~importBlocked ELSE outcome # {}
  /\ LeavePage

(* A mutant of EscapePopup: Escape never loads the page again.             *)
EscapeAnyway ==
  /\ popup
  /\ popup' = FALSE
  /\ NothingToldYet
  /\ UNCHANGED <<importKind, chosen, queue, sending, listed, filesInProgress, uploaderGone,
                 importBlocked, dropped, unseen>>

(* Escape, or the cross, when this loads nothing.                          *)
EscapePopup ==
  /\ popup
  /\ importKind # "submissions" => outcome = {}
  /\ popup' = FALSE
  /\ NothingToldYet
  /\ UNCHANGED <<importKind, chosen, queue, sending, listed, filesInProgress, uploaderGone,
                 importBlocked, dropped, unseen>>

(* _uploadFileList and _uploadFile for n files: onSubmit, _onSubmit and    *)
(* upload.  Only the dialog of submissions hides what it showed.           *)
ChooseFiles == \E n \in 1..(MaxFiles - chosen) :
  LET added == [i \in 1..n |-> chosen + i]
  IN /\ popup /\ ~importBlocked /\ ~uploaderGone
     /\ chosen' = chosen + n /\ listed' = chosen + n
     /\ queue' = queue \o added
     /\ sending' = sending \cup
          {added[i] : i \in {j \in 1..n : Len(queue) + j <= maxConnections}}
     /\ filesInProgress' = filesInProgress + n
     /\ importBlocked' = TRUE
     /\ dropped' = dropped \cup {added[i] : i \in 1..(n - 1)}
     /\ IF importKind = "submissions" THEN NothingShown ELSE NothingToldYet
     /\ UNCHANGED <<importKind, popup, uploaderGone, unseen>>

(* _dequeue(id): the first file waiting is sent.                           *)
dequeue(id) ==
  LET i    == CHOOSE k \in DOMAIN queue : queue[k] = id
      rest == RemoveAt(queue, i)
      next == IF Len(rest) >= maxConnections /\ i <= maxConnections
              THEN {rest[maxConnections]} ELSE {}
  IN queue' = rest /\ sending' = (sending \ {id}) \cup next

(* _find throws for a file that is not in the list.                        *)
AnswerIgnored == \E id \in sending \ {listed} :
  /\ sending' = sending \ {id}
  /\ MaybeUnseen(id)
  /\ NothingToldYet
  /\ UNCHANGED <<importKind, popup, chosen, queue, listed, filesInProgress, uploaderGone,
                 importBlocked, dropped>>

(* onComplete: rows were imported, rows were refused, or neither.          *)
Answer(id) == \E rows \in SUBSET {"imported", "refused"} :
  /\ unseen' = IF popup /\ "imported" \in rows THEN unseen \cup {id} ELSE unseen
  /\ outcome' = {[of |-> id, lost |-> FALSE]}
  /\ successOf' = IF "imported" \in rows THEN id
                  ELSE IF importKind = "submissions" THEN successOf ELSE 0
  /\ errorsOf' = IF "refused" \in rows THEN id
                 ELSE IF importKind = "submissions" THEN errorsOf ELSE 0
  /\ dequeue(id)
  /\ uploaderGone' \in {uploaderGone, importKind = "submissions"}
  /\ UNCHANGED dropped

(* The answer is not one: the import failed or took too long, and records  *)
(* may have been imported.  Nothing is shown of submissions: an exception  *)
(* ends onComplete.                                                        *)
NoAnswerTo(id) ==
  /\ MaybeUnseen(id)
  /\ errorsOf' = IF importKind = "submissions" THEN errorsOf ELSE 0
  /\ successOf' = IF importKind = "things" THEN 0 ELSE successOf
  /\ IF importKind = "submissions"
     THEN /\ sending' = sending \ {id} /\ dropped' = dropped \cup {id}
          /\ UNCHANGED <<queue, outcome>>
     ELSE /\ dequeue(id) /\ outcome' = {[of |-> id, lost |-> TRUE]}
          /\ UNCHANGED dropped
  /\ UNCHANGED uploaderGone

AnswerShown == \E id \in sending \cap {listed} :
  /\ Answer(id) \/ NoAnswerTo(id)
  /\ filesInProgress' = filesInProgress - 1
  /\ importBlocked' = FALSE
  /\ UNCHANGED <<importKind, popup, chosen, listed>>

ImportNext ==
  OpenPopup \/ ClosePopup \/ EscapePopup \/ ChooseFiles \/ AnswerIgnored \/ AnswerShown

ImportSpec == ImportInit /\ [][ImportNext]_importVars

-----------------------------------------------------------------------------
(* The state has its type, and what is sent is queued or was forgotten.    *)
ImportTypeOK ==
  /\ chosen \in 0..MaxFiles /\ listed \in 0..chosen
  /\ sending \subseteq 1..chosen /\ dropped \subseteq 1..chosen /\ unseen \subseteq 1..chosen
  /\ ToSet(queue) \subseteq 1..chosen /\ IsInjective(queue)
  /\ filesInProgress \in 0..MaxFiles
  /\ {successOf, errorsOf} \subseteq 0..chosen /\ Cardinality(outcome) <= 1

(* The message, the rows imported and the rows refused that are shown      *)
(* together belong to one file, the one whose name is shown, however many  *)
(* were imported before.  (After a lost answer the page of data senders    *)
(* keeps the rows of the import before.)                                   *)
ResultsOfOneFile ==
  popup /\ ~importBlocked => \A o \in outcome :
    /\ o.of = listed
    /\ errorsOf \in {0, o.of}
    /\ successOf \in {0, o.of} \/ (importKind = "senders" /\ o.lost)

(* The dialog is blocked only while the answer that unblocks it is awaited,*)
(* as long as fewer places than there are connections were lost by         *)
(* choosing several files at once.                                         *)
BlockedWhileSending ==
  popup /\ importBlocked /\ Cardinality(dropped) < maxConnections => listed \in sending

(* Closing the dialog of data senders or subjects, with no upload under    *)
(* way, leaves no list on the page that lacks what was just imported, even *)
(* when the answer said that nothing was, or never came.                   *)
ListLoadedAgain ==
  popup /\ ~popup' /\ importKind # "submissions" /\ filesInProgress = 0 => unseen' = {}

(* A request under way is protected: leaving the page asks.                *)
LeavingAsks == Cardinality(sending) <= filesInProgress

(* The dialog tells what became of each file: the result of one at a time, *)
(* none forgotten while it is sent, and the list reloaded in the end.      *)
ImportsAccountedFor ==
  [][ResultsOfOneFile' /\ LeavingAsks' /\ ListLoadedAgain]_importVars
=============================================================================
