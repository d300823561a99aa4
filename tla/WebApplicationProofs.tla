------------------------ MODULE WebApplicationProofs ------------------------
(***************************************************************************)
(* Proofs about the pages and the stores behind them: the forms that warn  *)
(* of unsaved changes, the list of records, the sending of an SMS to many, *)
(* the import dialogs and the data pages, for any values of their          *)
(* constants; and, at the end, what the runs check of the whole, from the  *)
(* proofs about its parts.                                                 *)
(***************************************************************************)
EXTENDS WebApplication, QuestionnaireProofs, DataSenderProofs, FiniteSetTheorems, TLAPS

-----------------------------------------------------------------------------
(* UnsavedChanges: the state has its shape.                                 *)
Wishes   == [redirect : Links \cup {"none", "cancel"}, click : ProjectLinks \cup {"none"}]
FormShape ==
  /\ formKind \in FormKinds
  /\ saved \in Values /\ value \in Values /\ initialValue \in Values
  /\ redirect_url \in Links \cup {"none", "cancel"}
  /\ click_after_reload \in ProjectLinks \cup {"none"}
  /\ projectDialog \in ProjectLinks \cup {"none"}
  /\ hidden \in Wishes
  /\ \A p \in post : p.value \in Values

Here == goneTo = "none"

(* What the form shows: without errors it was loaded with what is saved;   *)
(* links that do not warn are on a form that was not touched; what was     *)
(* posted is what is shown.                                                *)
LoadedSaved    == Here /\ ~form_has_errors => initialValue = saved
QuietUntouched == Here /\ formKind = "submission" /\ ~linksWarn /\ post = {}
                    => ~form_has_errors /\ value = initialValue
PostedShown    == Here => \A p \in post : p.value = value

(* Which dialogs go together: the project's is not under the warning, and  *)
(* over a posted form only when that form discards.                        *)
OneDialog    == Here /\ warning => projectDialog = "none"
OnlyDiscards == Here /\ projectDialog # "none" => \A p \in post : p.discard

(* Where the page is to go, by a link: the warning is about the link that  *)
(* is wanted, a form is posted with it, and what an earlier save left is   *)
(* still owed; all until that save is discarded.                           *)
Posting        == \E p \in post : ~p.discard
WarnedOfWanted == Here /\ warning /\ post = {} /\ click_after_reload = "none"
                    => redirect_url = wanted
PostedWanted   == Here /\ ~discarded /\ Posting => hidden.redirect \in {"none", wanted}
LinkOwed       == Here /\ ~discarded => hidden.redirect \in {"none", owed}

(* The same of a button, until one is answered that stays remembered.        *)
AtRest        == post = {} /\ projectDialog = "none"
ButtonWanted  == Here /\ ~remembered /\ click_after_reload # "none"
                   => wanted = click_after_reload /\ (AtRest => warning)
CarriedWanted == Here /\ ~remembered /\ post # {} /\ hidden.click # "none"
                   => wanted = hidden.click
ButtonOwed    == Here /\ ~remembered /\ hidden.click # "none" /\ (Posting \/ AtRest)
                   => owed = hidden.click

(* Buttons of the project are on the page of a submission only, and only   *)
(* the data sender's form is closed without being left.                    *)
OnlySubmissions ==
  /\ formKind # "submission" =>
       projectDialog = "none" /\ click_after_reload = "none" /\ hidden.click = "none"
  /\ goneTo = "closed" => formKind = "sender"

ShownInv  == ProjectActionOnSaved /\ LoadedSaved /\ QuietUntouched /\ PostedShown
               /\ OneDialog /\ OnlyDiscards /\ OnlySubmissions
LinkInv   == WarnedOfWanted /\ PostedWanted /\ LinkOwed
ButtonInv == ButtonWanted /\ CarriedWanted /\ ButtonOwed
FormInv   == FormShape /\ ShownInv /\ LinkInv /\ ButtonInv

(* The page as it is first rendered.                                       *)
LEMMA UnsavedStart == UnsavedInit => FormInv
<1>. SUFFICES ASSUME UnsavedInit PROVE FormInv
  OBVIOUS
<1>1. FormShape
  <2>1. saved \in Values /\ value \in Values /\ initialValue \in Values
    BY UnsavedAssumption DEF UnsavedInit
  <2>2. hidden \in Wishes
    BY DEF UnsavedInit, Wishes, NoWish
  <2>. QED
    BY <2>1, <2>2 DEF UnsavedInit, FormShape
<1>2. ShownInv
  BY DEF UnsavedInit, ShownInv, ProjectActionOnSaved, LoadedSaved, QuietUntouched, PostedShown,
         OneDialog, OnlyDiscards, OnlySubmissions, NoWish
<1>3. LinkInv /\ ButtonInv
  BY DEF UnsavedInit, NoWish, LinkInv, WarnedOfWanted, PostedWanted, LinkOwed, Posting,
         ButtonInv, ButtonWanted, CarriedWanted, ButtonOwed
<1>. QED
  BY <1>1, <1>2, <1>3 DEF FormInv

(* Every step keeps the types.                                             *)
LEMMA TypesKept ==
  ASSUME FormInv, UnsavedNext
  PROVE  FormShape'
<1>. USE UnsavedAssumption DEF FormInv, FormShape, pageVars, wishVars
<1>1. CASE Edit
  BY <1>1 DEF Edit
<1>2. CASE ClickLink
  BY <1>2 DEF ClickLink, LinksOf, redirect
<1>3. CASE ClickProjectLink
  BY <1>3 DEF ClickProjectLink
<1>4. CASE CloseProjectDialog \/ ConfirmProjectDialog \/ Dismiss \/ Leave \/ EscapeSenderForm
  BY <1>4 DEF CloseProjectDialog, ConfirmProjectDialog, Dismiss, Leave, EscapeSenderForm, redirect
<1>5. CASE YesSave
  BY <1>5 DEF YesSave, Submit, Wishes
<1>6. CASE NoDiscard
  BY <1>6 DEF NoDiscard, Submit, Wishes
<1>7. CASE SaveChanges
  BY <1>7 DEF SaveChanges, Submit
<1>8. CASE Discard
  BY <1>8 DEF Discard, Reload, Load, Wishes
<1>9. CASE Refuse
  BY <1>9 DEF Refuse, Reload, Load, Wishes
<1>10. CASE Accept
  BY <1>10 DEF Accept, Reload, Load, Wishes
<1>11. CASE AnswerUnseen
  BY <1>11 DEF AnswerUnseen
<1>. QED
  BY <1>1, <1>2, <1>3, <1>4, <1>5, <1>6, <1>7, <1>8, <1>9, <1>10, <1>11 DEF UnsavedNext

(* What is shown stays tied to what is saved.                              *)
LEMMA ShownKept ==
  ASSUME FormInv, UnsavedNext
  PROVE  ShownInv'
<1>. USE UnsavedAssumption
     DEF FormInv, FormShape, ShownInv, pageVars, wishVars, ProjectActionOnSaved, LoadedSaved,
         QuietUntouched, PostedShown, OneDialog, OnlyDiscards, OnlySubmissions, Here
<1>1. CASE Edit
  <2>1. ~linksWarn' => ~linksWarn /\ (formKind = "submission" => value' = initialValue)
    BY <1>1 DEF Edit
  <2>2. /\ OnForm
        /\ UNCHANGED <<formKind, saved, initialValue, form_has_errors, wishVars, warning,
                       projectDialog, post, goneTo>>
    BY <1>1 DEF Edit
  <2>. QED
    BY <2>1, <2>2 DEF OnForm
<1>2. CASE ClickLink
  BY <1>2 DEF ClickLink, OnForm, LinksOf, redirect
<1>3. CASE ClickProjectLink
  BY <1>3 DEF ClickProjectLink, OnForm
<1>4. CASE CloseProjectDialog
  BY <1>4 DEF CloseProjectDialog
<1>5. CASE ConfirmProjectDialog
  BY <1>5 DEF ConfirmProjectDialog
<1>6. CASE Dismiss
  BY <1>6 DEF Dismiss
<1>7. CASE Leave
  BY <1>7 DEF Leave, redirect
<1>8. CASE YesSave
  BY <1>8 DEF YesSave, Submit
<1>9. CASE NoDiscard
  <2>1. /\ Here /\ post = {} /\ ~warning' /\ saved' = saved /\ goneTo' = goneTo
        /\ formKind = "submission" /\ formKind' = formKind
        /\ UNCHANGED <<initialValue, form_has_errors>>
    BY <1>9 DEF NoDiscard
  <2>2. CASE form_has_errors
    <3>1. value' = value /\ post' = {[value |-> value, discard |-> TRUE]}
      BY <1>9, <2>2 DEF NoDiscard, Submit
    <3>2. \A p \in post' : p.value = value' /\ p.discard
      BY <3>1
    <3>3. post' # {}
      BY <3>1
    <3>4. form_has_errors'
      BY <2>1, <2>2
    <3>. QED
      BY <2>1, <3>2, <3>3, <3>4
  <2>3. CASE ~form_has_errors
    BY <1>9, <2>1, <2>3 DEF NoDiscard
  <2>. QED
    BY <2>2, <2>3
<1>10. CASE SaveChanges
  BY <1>10 DEF SaveChanges, Submit, OnForm
<1>11. CASE Discard
  BY <1>11 DEF Discard, Reload, Load
<1>12. CASE Refuse
  BY <1>12 DEF Refuse, Reload, Load
<1>13. CASE Accept
  BY <1>13 DEF Accept, Reload, Load, Wishes
<1>14. CASE EscapeSenderForm \/ AnswerUnseen
  BY <1>14 DEF EscapeSenderForm, AnswerUnseen
<1>. QED
  BY <1>1, <1>2, <1>3, <1>4, <1>5, <1>6, <1>7, <1>8, <1>9, <1>10, <1>11, <1>12, <1>13, <1>14
  DEF UnsavedNext

(* Of the links, the page remembers what the user asked for.               *)
LEMMA LinkKept ==
  ASSUME FormInv, UnsavedNext
  PROVE  LinkInv'
<1>. USE UnsavedAssumption
     DEF FormInv, FormShape, LinkInv, pageVars, wishVars, askedVars, WarnedOfWanted,
         PostedWanted, LinkOwed, Posting, Here
<1>1. CASE Edit
  BY <1>1 DEF Edit, OnForm
<1>2. CASE ClickLink
  BY <1>2 DEF ClickLink, OnForm
<1>3. CASE ClickProjectLink
  BY <1>3 DEF ClickProjectLink, OnForm
<1>4. CASE CloseProjectDialog
  BY <1>4 DEF CloseProjectDialog, ShownInv, OneDialog, OnlyDiscards
<1>5. CASE ConfirmProjectDialog \/ EscapeSenderForm \/ AnswerUnseen
  BY <1>5 DEF ConfirmProjectDialog, EscapeSenderForm, AnswerUnseen
<1>6. CASE Dismiss
  BY <1>6 DEF Dismiss
<1>7. CASE Leave
  BY <1>7 DEF Leave
<1>8. CASE YesSave
  <2>1. post' # {} /\ Here /\ warning /\ post = {}
    BY <1>8 DEF YesSave, Submit
  <2>2. CASE click_after_reload # "none"
    BY <1>8, <2>1, <2>2 DEF YesSave, Submit
  <2>3. CASE click_after_reload = "none"
    <3>1. redirect_url = wanted
      BY <2>1, <2>3
    <3>2. /\ hidden'.redirect = IF wanted = "#" THEN "none" ELSE wanted
          /\ owed' = IF wanted = "#" THEN "none" ELSE wanted
      BY <1>8, <2>3, <3>1 DEF YesSave, Submit, Wishes
    <3>. QED
      BY <1>8, <2>1, <3>2 DEF YesSave
  <2>. QED
    BY <2>2, <2>3
<1>9. CASE NoDiscard
  <2>1. /\ Here /\ post = {} /\ ~warning'
        /\ hidden'.redirect = hidden.redirect
        /\ UNCHANGED <<goneTo, askedVars>>
    BY <1>9 DEF NoDiscard, Submit, Wishes
  <2>2. \A p \in post' : p.discard
    BY <1>9 DEF NoDiscard, Submit
  <2>. QED
    BY <2>1, <2>2
<1>10. CASE SaveChanges
  BY <1>10 DEF SaveChanges, Submit, OnForm
<1>11. CASE Discard
  BY <1>11 DEF Discard, Reload
<1>12. CASE Refuse
  BY <1>12 DEF Refuse, Reload
<1>13. CASE Accept
  BY <1>13 DEF Accept, Reload, Load
<1>. QED
  BY <1>1, <1>2, <1>3, <1>4, <1>5, <1>6, <1>7, <1>8, <1>9, <1>10, <1>11, <1>12, <1>13
  DEF UnsavedNext

(* The same of the buttons of the project.                                 *)
LEMMA ButtonKept ==
  ASSUME FormInv, UnsavedNext
  PROVE  ButtonInv'
<1>. USE UnsavedAssumption
     DEF FormInv, FormShape, ButtonInv, pageVars, wishVars, askedVars, ButtonWanted,
         CarriedWanted, ButtonOwed, Posting, AtRest, Here
<1>1. CASE Edit
  BY <1>1 DEF Edit, OnForm
<1>2. CASE ClickLink
  BY <1>2 DEF ClickLink, OnForm
<1>3. CASE ClickProjectLink
  BY <1>3 DEF ClickProjectLink, OnForm
<1>4. CASE CloseProjectDialog
  BY <1>4 DEF CloseProjectDialog
<1>5. CASE ConfirmProjectDialog \/ EscapeSenderForm \/ AnswerUnseen
  BY <1>5 DEF ConfirmProjectDialog, EscapeSenderForm, AnswerUnseen
<1>6. CASE Dismiss
  BY <1>6 DEF Dismiss
<1>7. CASE Leave
  BY <1>7 DEF Leave
<1>8. CASE YesSave
  <2>1. post' # {} /\ Here /\ UNCHANGED <<wanted, click_after_reload, goneTo>>
    BY <1>8 DEF YesSave, Submit
  <2>2. CASE click_after_reload # "none"
    <3>1. hidden'.click = click_after_reload
      BY <1>8, <2>2 DEF YesSave, Submit
    <3>2. ~remembered' => wanted = click_after_reload /\ ~remembered
      BY <1>8, <2>1, <2>2 DEF YesSave
    <3>3. ~remembered' => owed' = click_after_reload
      BY <1>8, <2>2, <3>2 DEF YesSave
    <3>. QED
      BY <2>1, <3>1, <3>2, <3>3
  <2>3. CASE click_after_reload = "none"
    <3>1. hidden'.click = hidden.click
      BY <1>8, <2>3 DEF YesSave, Submit, Wishes
    <3>2. hidden'.click # "none" => remembered'
      BY <1>8, <2>3, <3>1 DEF YesSave
    <3>. QED
      BY <2>1, <2>3, <3>2
  <2>. QED
    BY <2>2, <2>3
<1>9. CASE NoDiscard
  <2>1. /\ Here /\ post = {} /\ projectDialog' # "none"
        /\ click_after_reload # "none"
        /\ UNCHANGED <<goneTo, askedVars, click_after_reload>>
    BY <1>9 DEF NoDiscard
  <2>2. ~remembered => wanted = click_after_reload
    BY <2>1
  <2>3. post' # {} => hidden'.click = click_after_reload /\ \A p \in post' : p.discard
    BY <1>9, <2>1 DEF NoDiscard, Submit, Wishes
  <2>. QED
    BY <2>1, <2>2, <2>3
<1>10. CASE SaveChanges
  BY <1>10 DEF SaveChanges, Submit, OnForm
<1>11. CASE Discard
  BY <1>11 DEF Discard, Reload, Load
<1>12. CASE Refuse
  BY <1>12 DEF Refuse, Reload, Load
<1>13. CASE Accept
  BY <1>13 DEF Accept, Reload, Load
<1>. QED
  BY <1>1, <1>2, <1>3, <1>4, <1>5, <1>6, <1>7, <1>8, <1>9, <1>10, <1>11, <1>12, <1>13
  DEF UnsavedNext

(* The invariant holds on every page.                                      *)
THEOREM UnsavedInvariant == UnsavedSpec => []FormInv
<1>1. FormInv /\ [UnsavedNext]_unsavedVars => FormInv'
  <2>. SUFFICES ASSUME FormInv, [UnsavedNext]_unsavedVars PROVE FormInv'
    OBVIOUS
  <2>1. CASE UnsavedNext
    BY <2>1, TypesKept, ShownKept, LinkKept, ButtonKept DEF FormInv
  <2>2. CASE UNCHANGED unsavedVars
    BY <2>2 DEF unsavedVars, pageVars, wishVars, askedVars, FormInv, FormShape, ShownInv,
                ProjectActionOnSaved, LoadedSaved, QuietUntouched, PostedShown, OneDialog,
                OnlyDiscards, OnlySubmissions, LinkInv, WarnedOfWanted, PostedWanted, LinkOwed,
                ButtonInv, ButtonWanted, CarriedWanted, ButtonOwed, Posting, AtRest, Here
  <2>. QED
    BY <2>1, <2>2
<1>. QED
  BY <1>1, UnsavedStart, PTL DEF UnsavedSpec

(* Where a page goes, and what is lost by going: only a link that was not  *)
(* warned of, a button of the project, an answer to the warning and a save *)
(* leave it, besides Escape and the cross.                                 *)
LEMMA LeavingIsSound ==
  ASSUME FormInv, UnsavedNext, goneTo' # goneTo
  PROVE  /\ goneTo' # "closed" /\ value # saved' => warning \/ \E p \in post : p.discard
         /\ ~discarded => goneTo' = wanted'
<1>. USE DEF FormInv, FormShape, ShownInv, LinkInv, pageVars, wishVars, askedVars, Here, Posting
<1>1. CASE ClickLink
  BY <1>1 DEF ClickLink, OnForm, redirect, is_form_changed, LoadedSaved
<1>2. CASE ConfirmProjectDialog
  BY <1>2 DEF ConfirmProjectDialog, ProjectActionOnSaved, OnlyDiscards
<1>3. CASE Leave
  BY <1>3 DEF Leave, redirect, WarnedOfWanted
<1>4. CASE Accept
  BY <1>4 DEF Accept, PostedShown, PostedWanted
<1>5. CASE EscapeSenderForm
  BY <1>5 DEF EscapeSenderForm
<1>. QED
  BY <1>1, <1>2, <1>3, <1>4, <1>5
  DEF UnsavedNext, Edit, ClickProjectLink, CloseProjectDialog, Dismiss, YesSave, NoDiscard,
      SaveChanges, Discard, Refuse, AnswerUnseen

(* Which dialog of the project opens: by a button that is not warned of,   *)
(* by "Don't Save", or when the page is loaded again.                      *)
LEMMA OpeningIsSound ==
  ASSUME FormInv, UnsavedNext, projectDialog' \notin {"none", projectDialog}, ~remembered
  PROVE  projectDialog' = wanted'
<1>. USE DEF FormInv, FormShape, ButtonInv, pageVars, wishVars, askedVars, Here
<1>1. CASE ClickProjectLink
  BY <1>1 DEF ClickProjectLink
<1>2. CASE NoDiscard
  BY <1>2 DEF NoDiscard, ButtonWanted
<1>3. CASE Discard \/ Accept
  BY <1>3 DEF Discard, Accept, Reload, CarriedWanted
<1>4. CASE Refuse
  BY <1>4 DEF Refuse, Reload
<1>. QED
  BY <1>1, <1>2, <1>3, <1>4
  DEF UnsavedNext, Edit, ClickLink, EscapeSenderForm, AnswerUnseen, CloseProjectDialog,
      ConfirmProjectDialog, Dismiss, YesSave, Leave, SaveChanges

(* Nothing typed is lost silently, and the page does what the user last    *)
(* asked: data_modified_warning.js, edit_submission.js and the view.       *)
THEOREM UnsavedIsHandled == UnsavedSpec => UnsavedHandled
<1>1. FormInv /\ FormInv' /\ [UnsavedNext]_unsavedVars
        => [ /\ ProjectActionOnSaved'
             /\ goneTo' # "closed" => Announced
             /\ GoesWhereAsked /\ OpensWhatWasAsked ]_unsavedVars
  BY LeavingIsSound, OpeningIsSound
  DEF FormInv, ShownInv, Announced, GoesWhereAsked, OpensWhatWasAsked
<1>. QED
  BY <1>1, UnsavedInvariant, PTL DEF UnsavedSpec, UnsavedHandled

-----------------------------------------------------------------------------
(***************************************************************************)
(* The rows of a page.  The records before one, counted, are its place.    *)
(***************************************************************************)
Place(F, r) == Cardinality({q \in F : q < r})

LEMMA Places ==
  ASSUME NEW F \in SUBSET Nat, IsFiniteSet(F)
  PROVE  /\ Cardinality(F) \in Nat
         /\ [r \in F |-> Place(F, r)] \in Bijection(F, 0 .. Cardinality(F)-1)
<1> DEFINE n == Cardinality(F)
           Before(r) == {q \in F : q < r}
           place == [r \in F |-> Place(F, r)]
<1>1. n \in Nat
  BY FS_CardinalityType
<1>0. \A r \in F : r \in Int
  OBVIOUS
<1>2. ASSUME NEW r \in F
      PROVE  IsFiniteSet(Before(r)) /\ Place(F, r) \in Nat /\ Place(F, r) < n
  <2>1. Before(r) \in SUBSET F /\ r \notin Before(r)
    OBVIOUS
  <2>2. IsFiniteSet(Before(r)) /\ Cardinality(Before(r)) \in Nat
    BY <2>1, FS_Subset, FS_CardinalityType
  <2>3. Cardinality(Before(r)) <= n /\ Cardinality(Before(r)) # n
    <3>. HIDE DEF Before
    <3>. QED
      BY <2>1, FS_Subset
  <2>. QED
    BY <1>1, <2>2, <2>3 DEF Place
<1>3. ASSUME NEW r \in F, NEW q \in F, q < r
      PROVE  Place(F, q) < Place(F, r)
  <2>1. Before(q) \in SUBSET Before(r) /\ q \in Before(r) /\ q \notin Before(q)
    <3>1. r \in Int /\ q \in Int
      BY <1>0
    <3>2. \A x \in F : x < q => x < r
      BY <1>0, <1>3, <3>1
    <3>3. ~(q < q)
      BY <3>1
    <3>. QED
      BY <1>3, <3>2, <3>3
  <2>2. /\ Cardinality(Before(q)) <= Cardinality(Before(r))
        /\ Cardinality(Before(q)) # Cardinality(Before(r))
    <3>1. IsFiniteSet(Before(r))
      BY <1>2
    <3>. HIDE DEF Before
    <3>. QED
      BY <2>1, <3>1, FS_Subset
  <2>3. Cardinality(Before(q)) \in Int /\ Cardinality(Before(r)) \in Int
    BY <1>2 DEF Place
  <2>. QED
    BY <2>2, <2>3 DEF Place
<1>4. place \in Injection(F, 0..n-1)
  <2>. HIDE DEF Before, n
  <2>1. place \in [F -> 0..n-1]
    BY <1>1, <1>2
  <2>2. \A r, q \in F : r # q => Place(F, r) # Place(F, q)
    <3>1. ASSUME NEW r \in F, NEW q \in F, r # q
          PROVE  Place(F, r) # Place(F, q)
      <4>1. Place(F, r) \in Int /\ Place(F, q) \in Int
        BY <1>1, <1>2
      <4>2. r \in Int /\ q \in Int
        BY <1>0
      <4>3. CASE r < q
        BY <1>3, <4>1, <4>3
      <4>4. CASE q < r
        BY <1>3, <4>1, <4>4
      <4>. QED
        BY <3>1, <4>2, <4>3, <4>4
    <3>. QED
      BY <3>1
  <2>. QED
    BY <2>1, <2>2 DEF Injection, IsInjective
<1>5. IsFiniteSet(0..n-1) /\ Cardinality(0..n-1) = n
  <2>1. 0 \in Int /\ n-1 \in Int
    BY <1>1
  <2>2. IsFiniteSet(0..n-1) /\ Cardinality(0..n-1) = IF 0 > n-1 THEN 0 ELSE n-1-0+1
    <3>. HIDE DEF n
    <3>. QED
      BY <2>1, FS_Interval
  <2>. QED
    BY <1>1, <2>2
<1>6. place \in Surjection(F, 0..n-1)
  <2>. HIDE DEF place
  <2>. QED
    BY <1>4, <1>5, FS_Injection
<1>. QED
  BY <1>1, <1>4, <1>6 DEF Bijection

LEMMA PageCount ==
  ASSUME NEW F \in SUBSET Nat, IsFiniteSet(F), NEW start \in Nat, NEW length \in Nat
  PROVE  /\ IsFiniteSet(Page(F, start, length)) /\ Page(F, start, length) \subseteq F
         /\ Cardinality(F) \in Nat
         /\ Cardinality(Page(F, start, length)) =
              IF Cardinality(F) <= start THEN 0 ELSE Smaller(length, Cardinality(F) - start)
<1> DEFINE n == Cardinality(F)
           place == [r \in F |-> Place(F, r)]
           page == Page(F, start, length)
           end == Smaller(start + length, n) - 1
           on == [r \in page |-> place[r]]
<1>1. /\ n \in Nat /\ place \in [F -> 0..n-1]
      /\ \A r, q \in F : place[r] = place[q] => r = q
      /\ \A i \in 0..n-1 : \E r \in F : place[r] = i
  <2>. HIDE DEF place
  <2>. QED
    BY Places DEF place, Bijection, Injection, IsInjective, Surjection
<1>2. page \subseteq F /\ \A r \in F : r \in page <=> start <= place[r] /\ place[r] < start + length
  BY DEF Page, Place
<1>. HIDE DEF place, page, n
<1>3. IsFiniteSet(page)
  BY <1>2, FS_Subset
<1>4. end \in Int /\ \A i \in 0..n-1 : i \in start..end <=> start <= i /\ i < start + length
  BY <1>1 DEF Smaller
<1>5. on \in Bijection(page, start..end)
  <2>1. on \in [page -> start..end]
    BY <1>1, <1>2, <1>4
  <2>2. \A r, q \in page : on[r] = on[q] => r = q
    BY <1>1, <1>2
  <2>3. ASSUME NEW i \in start..end
        PROVE  \E r \in page : on[r] = i
    <3>1. i \in 0..n-1 /\ start <= i /\ i < start + length
      BY <1>1, <2>3 DEF Smaller
    <3>2. PICK r \in F : place[r] = i
      BY <1>1, <3>1
    <3>. QED
      BY <1>2, <3>1, <3>2
  <2>. HIDE DEF on, end
  <2>. QED
    BY <2>1, <2>2, <2>3 DEF Bijection, Injection, IsInjective, Surjection
<1>6. Cardinality(page) = Cardinality(start..end)
  <2>. HIDE DEF on, end
  <2>. QED
    BY <1>3, <1>5, FS_Bijection DEF ExistsBijection
<1>7. Cardinality(start..end) = IF start > end THEN 0 ELSE end - start + 1
  BY <1>4, FS_Interval
<1>. QED
  BY <1>1, <1>2, <1>3, <1>6, <1>7 DEF Smaller, page, n

(***************************************************************************)
(* The list of records.  The state has its shape; of the requests, dialogs *)
(* and actions there is one at most.                                       *)
(***************************************************************************)
Whats   == {"delete", "warning", "associate", "disassociate", "webusers", "remove"}
Queries == [search : Searches, start : Nat, length : PageLengths]
Dialogs == [what : Whats, ids : SUBSET Records, all : BOOLEAN, pageToGo : Nat,
            told : SUBSET Records, later : SUBSET Records, sure : BOOLEAN]
Actions == [what : Whats, ids : SUBSET Records, all : BOOLEAN, search : Searches,
            pageToGo : Nat, times : Nat, left : Nat, done : SUBSET Records,
            told : SUBSET Records, later : SUBSET Records, sure : BOOLEAN]

Single(S) == \A x, y \in S : x = y

TableShape ==
  /\ searchBox \in Searches /\ rowsFor \in Searches
  /\ iDisplayStart \in Nat /\ iDisplayLength \in PageLengths /\ displayLength = iDisplayLength
  /\ rows \subseteq Records /\ checked \subseteq Records /\ recordsDisplay \in Nat
  /\ counted \subseteq Records
  /\ message \in {"none", "page", "all"} /\ all_selected \in BOOLEAN /\ checkall \in BOOLEAN
  /\ fresh \in BOOLEAN
  /\ xhr \subseteq Queries /\ Single(xhr)

ListShape ==
  /\ records \subseteq Records /\ TableShape
  /\ dialog \subseteq Dialogs /\ Single(dialog)
  /\ acting \subseteq Actions /\ Single(acting)
  /\ handlers \in Nat /\ drifted \in BOOLEAN

LEMMA FoundCount ==
  ASSUME records \subseteq Records, NEW s \in Searches
  PROVE  /\ Found(s) \in SUBSET Nat /\ Found(s) \subseteq Records /\ IsFiniteSet(Found(s))
         /\ Cardinality(Found(s)) \in Nat
<1>1. Found(s) \in SUBSET Records
  BY DEF Found
<1>. QED
  BY <1>1, ListAssumption, FS_Subset, FS_CardinalityType

LEMMA PageShape ==
  ASSUME records \subseteq Records, NEW s \in Searches, NEW start \in Nat, NEW length \in PageLengths
  PROVE  Page(Found(s), start, length) \subseteq Records
BY FoundCount DEF Page

LEMMA ChoiceShape ==
  ASSUME ListShape, NEW what \in Whats
  PROVE  Choice(what) \in Dialogs
<1>1. Told \in SUBSET Records /\ Later \in SUBSET Records
  BY ListAssumption DEF Told, Later, ListShape, TableShape
<1>2. get_updated_table_page_index(checked) \in Nat
  BY DEF get_updated_table_page_index, ListShape, TableShape
<1>. QED
  BY <1>1, <1>2 DEF Choice, Dialogs, ListShape, TableShape

LEMMA RequestedShape ==
  ASSUME ListShape, NEW d \in Dialogs, NEW times \in Nat
  PROVE  Requested(d, times) \subseteq Actions /\ Single(Requested(d, times))
BY DEF Requested, Dialogs, Actions, Single, ListShape, TableShape

LEMMA DrawShape ==
  ASSUME ListShape, NEW s \in Searches, NEW start \in Nat, NEW length \in PageLengths,
         Draw(s, start, length), searchBox' \in Searches
  PROVE  TableShape'
<1> DEFINE from == IF displayLength # length THEN 0 ELSE start
<1>1. [search |-> s, start |-> from, length |-> length] \in Queries /\ from \in Nat
  BY DEF Queries
<1>2. xhr' \subseteq Queries /\ Single(xhr')
  BY <1>1 DEF Draw, Single
<1>3. iDisplayStart' \in Nat /\ iDisplayLength' \in PageLengths /\ displayLength' = iDisplayLength'
  BY <1>1 DEF Draw
<1>. QED
  BY <1>2, <1>3 DEF Draw, ListShape, TableShape

LEMMA ShownShape ==
  ASSUME ListShape, NEW q \in Queries, Shown(q)
  PROVE  /\ rows' \subseteq Records /\ checked' \subseteq Records /\ recordsDisplay' \in Nat
         /\ counted' \subseteq Records /\ rowsFor' \in Searches /\ message' = "none"
         /\ ~all_selected' /\ ~checkall' /\ all_selected' \in BOOLEAN /\ checkall' \in BOOLEAN /\ fresh' = TRUE
<1>1. q.search \in Searches /\ q.start \in Nat /\ q.length \in PageLengths
  BY DEF Queries
<1>2. records \subseteq Records
  BY DEF ListShape
<1>. QED
  BY <1>1, <1>2, PageShape, FoundCount DEF Shown

LEMMA ListShapeInit == ListInit => ListShape
<1>. SUFFICES ASSUME ListInit PROVE ListShape
  OBVIOUS
<1>1. records \subseteq Records /\ NoSearch \in Searches /\ iDisplayLength \in PageLengths
  BY ListAssumption DEF ListInit
<1>2. rows \subseteq Records /\ recordsDisplay \in Nat /\ counted \subseteq Records
  BY <1>1, PageShape, FoundCount DEF ListInit
<1>. QED
  BY <1>1, <1>2 DEF ListInit, ListShape, TableShape, Single

LEMMA ListShapeStep == ListShape /\ [ListNext]_listVars => ListShape'
<1>. SUFFICES ASSUME ListShape, [ListNext]_listVars PROVE ListShape'
  OBVIOUS
<1>1. ASSUME UNCHANGED tableVars
      PROVE  TableShape'
  BY <1>1 DEF tableVars, ListShape, TableShape
<1>2. ASSUME UNCHANGED <<records, dialog, acting, handlers>>, drifted' \in BOOLEAN, TableShape'
      PROVE  ListShape'
  BY <1>2 DEF ListShape
<1>3. (drifted' = (drifted \/ ~fresh)) => drifted' \in BOOLEAN
  BY DEF ListShape, TableShape
<1>4. iDisplayLength \in Nat \ {0} /\ iDisplayLength \in PageLengths /\ recordsDisplay \in Nat
      /\ iDisplayStart \in Nat /\ searchBox \in Searches
  BY ListAssumption DEF ListShape, TableShape
<1>5. CASE Search
  BY <1>2, <1>4, <1>5, DrawShape DEF Search, ListShape
<1>6. CASE ChangePage
  <2>1. PICK start \in {0, iDisplayStart - iDisplayLength, iDisplayStart + iDisplayLength,
                        ((recordsDisplay - 1) \div iDisplayLength) * iDisplayLength} :
          Draw(searchBox, IF start < 0 THEN 0 ELSE start, iDisplayLength)
    BY <1>6 DEF ChangePage
  <2>2. start \in Int
    BY <1>4
  <2>3. (IF start < 0 THEN 0 ELSE start) \in Nat
    BY <2>2
  <2>4. searchBox' = searchBox /\ UNCHANGED <<records, dialog, acting, handlers>> /\ Remember
    BY <1>6 DEF ChangePage
  <2>5. TableShape'
    BY <1>4, <2>1, <2>3, <2>4, DrawShape
  <2>. QED
    BY <1>2, <1>3, <2>4, <2>5 DEF Remember
<1>7. CASE ChangeLength
  BY <1>2, <1>4, <1>7, DrawShape DEF ChangeLength, ListShape
<1>8. CASE RowsAnswered
  <2>1. PICK q \in xhr : Shown(q) /\ xhr' = xhr \ {q}
    BY <1>8 DEF RowsAnswered
  <2>2. q \in Queries
    BY DEF ListShape, TableShape
  <2>3. /\ UNCHANGED <<searchBox, iDisplayStart, iDisplayLength, displayLength>>
        /\ UNCHANGED <<records, dialog, acting, handlers, drifted>>
    BY <1>8 DEF RowsAnswered
  <2>4. TableShape'
    BY <2>1, <2>2, <2>3, ShownShape DEF ListShape, TableShape, Single
  <2>. QED
    BY <1>2, <2>3, <2>4 DEF ListShape
<1>9. CASE RowsNotAnswered
  BY <1>2, <1>9 DEF RowsNotAnswered, ListShape, TableShape, Single
<1>10. CASE ClickCheckall \/ ClickRow \/ select_all_rows \/ clear_select_all_rows
  <2>1. TableShape'
    BY <1>10 DEF ClickCheckall, ClickRow, select_all_rows, clear_select_all_rows,
                 show_select_all_message, ListShape, TableShape
  <2>2. UNCHANGED <<records, dialog, acting, handlers, drifted>>
    BY <1>10 DEF ClickCheckall, ClickRow, select_all_rows, clear_select_all_rows
  <2>. QED
    BY <1>2, <2>1, <2>2 DEF ListShape
<1>11. CASE OpenDelete \/ OpenProjects \/ OpenWebUsers
  <2>1. UNCHANGED tableVars /\ UNCHANGED <<records, acting>> /\ handlers' \in {handlers, handlers + 1}
        /\ Remember
    BY <1>11 DEF OpenDelete, OpenProjects, OpenWebUsers
  <2>2. \E d \in Dialogs : dialog' = {d}
    <3>1. CASE OpenDelete \/ OpenProjects
      BY <3>1, ChoiceShape DEF OpenDelete, OpenProjects, Whats
    <3>2. CASE OpenWebUsers
      <4>1. Choice("webusers") \in Dialogs /\ checked \subseteq Records
        BY ChoiceShape DEF Whats, ListShape, TableShape
      <4>. HIDE DEF Choice
      <4>2. [Choice("webusers") EXCEPT !.all = FALSE, !.told = checked, !.later = {}] \in Dialogs
        BY <4>1 DEF Dialogs
      <4>. QED
        BY <3>2, <4>2 DEF OpenWebUsers
    <3>. QED
      BY <1>11, <3>1, <3>2
  <2>. QED
    BY <1>1, <1>3, <2>1, <2>2 DEF ListShape, Remember, Single
<1>12. CASE remove_from_project
  <2>1. Choice("remove") \in Dialogs
    BY ChoiceShape DEF Whats
  <2>2. acting' \subseteq Actions /\ Single(acting')
    BY <1>12, <2>1, RequestedShape DEF remove_from_project
  <2>3. get_updated_table_page_index(checked) \in Nat
    BY <1>4 DEF get_updated_table_page_index
  <2>4. TableShape'
    BY <1>12, <2>3 DEF remove_from_project, ListShape, TableShape
  <2>. QED
    BY <1>3, <1>12, <2>2, <2>4 DEF remove_from_project, Remember, ListShape
<1>13. CASE Confirm
  <2>1. PICK d \in dialog : /\ acting' = Requested(d, IF listKind = "subjects" THEN handlers ELSE 1)
                            /\ dialog' = IF d.what = "delete" THEN {} ELSE dialog
    BY <1>13 DEF Confirm
  <2>2. d \in Dialogs /\ (IF listKind = "subjects" THEN handlers ELSE 1) \in Nat
    BY DEF ListShape
  <2>3. acting' \subseteq Actions /\ Single(acting')
    BY <2>1, <2>2, RequestedShape
  <2>4. dialog' \subseteq Dialogs /\ Single(dialog')
    BY <2>1 DEF ListShape, Single
  <2>. QED
    BY <1>1, <1>13, <2>3, <2>4 DEF Confirm, ListShape
<1>14. CASE Cancel
  BY <1>1, <1>14 DEF Cancel, ListShape, Single
<1>15. CASE ServerActs
  <2>1. PICK a \in acting : \E touched \in SUBSET Records :
          /\ a.left > 0
          /\ records' \subseteq records
          /\ acting' = {[a EXCEPT !.left = @ - 1, !.done = @ \cup touched]}
    <3>1. PICK a \in acting : 
            LET meant   == IF a.all THEN Found(a.search) ELSE a.ids \cap records
                touched == IF listKind = "datasenders" /\ a.what = "delete"
                           THEN meant \ Superusers ELSE meant
            IN  /\ a.left > 0
                /\ records' = IF a.what \in Removing THEN records \ touched ELSE records
                /\ acting' = {[a EXCEPT !.left = @ - 1, !.done = @ \cup touched]}
      BY <1>15 DEF ServerActs
    <3>2. (IF a.all THEN Found(a.search) ELSE a.ids \cap records) \subseteq Records
      BY DEF Found, ListShape
    <3>. QED
      BY <3>1, <3>2
  <2>2. a \in Actions
    BY DEF ListShape
  <2>3. acting' \subseteq Actions /\ Single(acting')
    <3>1. PICK touched \in SUBSET Records :
            acting' = {[a EXCEPT !.left = @ - 1, !.done = @ \cup touched]}
      BY <2>1
    <3>2. a.left - 1 \in Nat /\ a.done \cup touched \in SUBSET Records
      BY <2>1, <2>2 DEF Actions
    <3>3. [a EXCEPT !.left = a.left - 1, !.done = a.done \cup touched] \in Actions
      BY <2>2, <3>2 DEF Actions
    <3>. QED
      BY <3>1, <3>3 DEF Single
  <2>. QED
    BY <1>1, <1>15, <2>1, <2>3 DEF ServerActs, ListShape
<1>16. CASE ActionDone
  <2>1. PICK a \in acting : \E start \in {get_updated_table_page_index(a.ids), a.pageToGo, iDisplayStart} :
          Draw(searchBox, start, iDisplayLength)
    BY <1>16 DEF ActionDone
  <2>2. get_updated_table_page_index(a.ids) \in Nat /\ a.pageToGo \in Nat
    BY <1>4 DEF get_updated_table_page_index, ListShape, Actions
  <2>3. TableShape'
    <3>1. PICK start \in Nat : Draw(searchBox, start, iDisplayLength)
      BY <1>4, <2>1, <2>2
    <3>2. searchBox' \in Searches
      BY <1>4, <1>16 DEF ActionDone
    <3>. QED
      BY <1>4, <3>1, <3>2, DrawShape
  <2>4. /\ records' = records /\ dialog' = {} /\ acting' = {} /\ handlers' = handlers
        /\ drifted' = (drifted \/ (listKind = "submissions" /\ ~fresh))
    BY <1>16 DEF ActionDone
  <2>. QED
    BY <2>3, <2>4 DEF ListShape, Single
<1>17. CASE PageReloaded
  <2>1. PICK length \in PageLengths : /\ iDisplayLength' = length /\ displayLength' = length
                                      /\ Shown([search |-> NoSearch, start |-> 0, length |-> length])
    BY <1>17 DEF PageReloaded
  <2>2. [search |-> NoSearch, start |-> 0, length |-> length] \in Queries
    BY ListAssumption DEF Queries
  <2>3. /\ rows' \subseteq Records /\ checked' \subseteq Records /\ recordsDisplay' \in Nat
        /\ counted' \subseteq Records /\ rowsFor' \in Searches /\ message' = "none" /\ all_selected' \in BOOLEAN
        /\ checkall' \in BOOLEAN /\ fresh' = TRUE
    BY <2>1, <2>2, ShownShape
  <2>4. searchBox' \in Searches /\ iDisplayStart' = 0 /\ xhr' = {}
    BY <1>17, ListAssumption DEF PageReloaded
  <2>5. TableShape'
    BY <2>1, <2>3, <2>4 DEF TableShape, Single
  <2>. QED
    BY <1>17, <2>5 DEF PageReloaded, ListShape, Single
<1>18. CASE ActionFails \/ RecordArrives \/ RecordGoes
  <2>1. UNCHANGED tableVars
    BY <1>18 DEF ActionFails, RecordArrives, RecordGoes
  <2>. QED
    BY <1>1, <1>18, <2>1 DEF ActionFails, RecordArrives, RecordGoes, ListShape, Single
<1>19. CASE UNCHANGED listVars
  BY <1>1, <1>2, <1>19 DEF listVars, ListShape
<1>. QED
  BY <1>5, <1>6, <1>7, <1>8, <1>9, <1>10, <1>11, <1>12, <1>13, <1>14, <1>15, <1>16, <1>17,
     <1>18, <1>19 DEF ListNext

(* While the rows answer the last request, the message is there only when  *)
(* all rows are ticked, and the rows are what the search box asks for.     *)
SelectionInv ==
  /\ TicksAreShown
  /\ fresh => /\ all_selected <=> message = "all"
              /\ message # "none" => checkall

AnswerInv ==
  /\ fresh => xhr = {} /\ rowsFor = searchBox
  /\ rows \subseteq counted /\ counted \subseteq Matching[rowsFor]
  /\ \A q \in xhr : q.search = searchBox

(* What a choice means for the server, if it searches for s.               *)
Means(c, s) == c.told \cup c.later = IF c.all THEN Matching[s] ELSE c.ids

ChoiceInv ==
  /\ \A d \in dialog : d.sure => Means(d, searchBox)
  /\ \A a \in acting : a.sure => Means(a, a.search) /\ a.done \subseteq a.told \cup a.later

ToldInv == ListShape /\ SelectionInv /\ AnswerInv /\ ChoiceInv

LEMMA ToldInit == ListInit => ToldInv
<1>. SUFFICES ASSUME ListInit PROVE ToldInv
  OBVIOUS
<1>1. ListShape
  BY ListShapeInit
<1>2. rows \subseteq counted /\ counted \subseteq Matching[rowsFor]
  BY DEF ListInit, Page, Found
<1>. QED
  BY <1>1, <1>2 DEF ListInit, ToldInv, SelectionInv, TicksAreShown, AnswerInv, ChoiceInv

(* A choice made on rows that answer the last request.                     *)
LEMMA ChoiceMeans ==
  ASSUME ToldInv, fresh
  PROVE  \A what : /\ Means(Choice(what), searchBox)
                   /\ Means([Choice(what) EXCEPT !.all = FALSE, !.told = checked, !.later = {}], searchBox)
<1>1. /\ all_selected \in BOOLEAN /\ (all_selected <=> message = "all") /\ rowsFor = searchBox
      /\ counted \subseteq Matching[rowsFor]
  BY DEF ToldInv, ListShape, TableShape, SelectionInv, AnswerInv
<1>. QED
  BY <1>1 DEF Means, Choice, Told, Later

LEMMA ToldStep == ToldInv /\ [ListNext]_listVars => ToldInv'
<1>. SUFFICES ASSUME ToldInv, [ListNext]_listVars PROVE ToldInv'
  OBVIOUS
<1>1. ListShape /\ ListShape'
  BY ListShapeStep DEF ToldInv
<1>. SUFFICES SelectionInv' /\ AnswerInv' /\ ChoiceInv'
  BY <1>1 DEF ToldInv
<1>. USE DEF ToldInv
<1>2. ASSUME UNCHANGED <<searchBox, iDisplayLength, displayLength, xhr, rows, recordsDisplay, checked, checkall,
                         all_selected, message, rowsFor, counted, fresh>>
      PROVE  SelectionInv' /\ AnswerInv'
  BY <1>2 DEF SelectionInv, TicksAreShown, AnswerInv
<1>3. ASSUME UNCHANGED <<searchBox, dialog, acting>>
      PROVE  ChoiceInv'
  BY <1>3 DEF ChoiceInv
<1>4. ASSUME NEW s, NEW start, NEW length, Draw(s, start, length), searchBox' = s
      PROVE  SelectionInv' /\ AnswerInv'
  BY <1>1, <1>4 DEF Draw, SelectionInv, TicksAreShown, AnswerInv, ListShape, TableShape
<1>5. ASSUME NEW q, Shown(q), xhr' = {}, searchBox' = q.search
      PROVE  SelectionInv' /\ AnswerInv'
  BY <1>5 DEF Shown, SelectionInv, TicksAreShown, AnswerInv, Page, Found
<1>6. CASE Search
  <2>1. ChoiceInv'
    BY <1>6 DEF Search, Free, Blocked, ChoiceInv
  <2>. QED
    BY <1>4, <1>6, <2>1 DEF Search
<1>7. CASE ChangePage \/ ChangeLength
  BY <1>3, <1>4, <1>7 DEF ChangePage, ChangeLength
<1>8. CASE RowsAnswered
  <2>1. PICK q \in xhr : Shown(q) /\ xhr' = xhr \ {q}
    BY <1>8 DEF RowsAnswered
  <2>2. xhr' = {} /\ q.search = searchBox /\ searchBox' = searchBox
    BY <1>1, <1>8, <2>1 DEF RowsAnswered, ListShape, TableShape, Single, AnswerInv
  <2>. QED
    BY <1>3, <1>5, <1>8, <2>1, <2>2 DEF RowsAnswered
<1>9. CASE RowsNotAnswered
  BY <1>3, <1>9 DEF RowsNotAnswered, SelectionInv, TicksAreShown, AnswerInv
<1>10. CASE ClickCheckall \/ ClickRow \/ select_all_rows \/ clear_select_all_rows
  <2>1. ChoiceInv' /\ AnswerInv'
    BY <1>3, <1>10 DEF ClickCheckall, ClickRow, select_all_rows, clear_select_all_rows, AnswerInv
  <2>2. TicksAreShown'
    BY <1>1, <1>10 DEF ClickCheckall, ClickRow, select_all_rows, clear_select_all_rows,
                       SelectionInv, TicksAreShown, ListShape, TableShape
  <2>3. fresh' = fresh
    BY <1>10 DEF ClickCheckall, ClickRow, select_all_rows, clear_select_all_rows
  <2>4. ASSUME fresh
        PROVE  /\ all_selected' <=> message' = "all"
               /\ message' # "none" => checkall'
    <3>1. /\ all_selected <=> message = "all"
          /\ message # "none" => checkall
          /\ rows # {} => (checkall <=> checked = rows)
      BY <2>4 DEF SelectionInv, TicksAreShown
    <3>2. CASE ClickCheckall
      BY <1>1, <3>1, <3>2 DEF ClickCheckall, show_select_all_message, ListShape, TableShape
    <3>3. CASE ClickRow
      <4>1. PICK r \in rows : /\ checked' = (checked \ {r}) \cup ({r} \ checked)
                              /\ checkall' = (checked' = rows)
                              /\ show_select_all_message(checked' = rows)
        BY <3>3 DEF ClickRow
      <4>2. checked' = rows => checked # rows
        BY <4>1
      <4>. QED
        BY <1>1, <3>1, <4>1, <4>2 DEF show_select_all_message, ListShape, TableShape
    <3>4. CASE select_all_rows \/ clear_select_all_rows
      BY <3>1, <3>4 DEF select_all_rows, clear_select_all_rows
    <3>. QED
      BY <1>10, <3>2, <3>3, <3>4
  <2>. QED
    BY <2>1, <2>2, <2>3, <2>4 DEF SelectionInv
<1>11. CASE OpenDelete \/ OpenProjects \/ OpenWebUsers
  <2>1. PICK what : dialog' \in {{Choice(what)},
                                 {[Choice(what) EXCEPT !.all = FALSE, !.told = checked, !.later = {}]}}
    BY <1>11 DEF OpenDelete, OpenProjects, OpenWebUsers
  <2>2. PICK d : dialog' = {d} /\ d.sure = fresh /\ (fresh => Means(d, searchBox))
    <3>1. CASE dialog' = {Choice(what)}
      <4>1. Choice(what).sure = fresh
        BY DEF Choice
      <4>. HIDE DEF Choice
      <4>. QED
        BY <3>1, <4>1, ChoiceMeans
    <3>2. CASE dialog' = {[Choice(what) EXCEPT !.all = FALSE, !.told = checked, !.later = {}]}
      <4>1. [Choice(what) EXCEPT !.all = FALSE, !.told = checked, !.later = {}].sure = fresh
        BY DEF Choice
      <4>. HIDE DEF Choice
      <4>. QED
        BY <3>2, <4>1, ChoiceMeans
    <3>. QED
      BY <2>1, <3>1, <3>2
  <2>3. UNCHANGED tableVars /\ acting' = acting
    BY <1>11 DEF OpenDelete, OpenProjects, OpenWebUsers
  <2>4. searchBox' = searchBox
    BY <2>3 DEF tableVars
  <2>5. ChoiceInv'
    BY <2>2, <2>3, <2>4 DEF ChoiceInv, Means
  <2>. QED
    BY <1>2, <2>3, <2>5 DEF tableVars
<1>12. ASSUME NEW d, NEW times, acting' = Requested(d, times), d.sure => Means(d, searchBox)
       PROVE  \A a \in acting' : a.sure => Means(a, a.search) /\ a.done \subseteq a.told \cup a.later
  BY <1>12 DEF Requested, Means
<1>13. CASE remove_from_project
  <2>1. acting' = Requested(Choice("remove"), 1) /\ Choice("remove").sure = fresh
    BY <1>13 DEF remove_from_project, Choice
  <2>2. \A a \in acting' : a.sure => Means(a, a.search) /\ a.done \subseteq a.told \cup a.later
    BY <1>12, <2>1, ChoiceMeans
  <2>3. UNCHANGED <<dialog, searchBox>>
    BY <1>13 DEF remove_from_project
  <2>. QED
    BY <1>2, <1>13, <2>2, <2>3 DEF remove_from_project, ChoiceInv
<1>14. CASE Confirm
  <2>1. PICK d \in dialog : acting' = Requested(d, IF listKind = "subjects" THEN handlers ELSE 1)
    BY <1>14 DEF Confirm
  <2>2. \A a \in acting' : a.sure => Means(a, a.search) /\ a.done \subseteq a.told \cup a.later
    BY <1>12, <2>1 DEF ChoiceInv
  <2>3. UNCHANGED tableVars /\ (dialog' \subseteq dialog)
    BY <1>14 DEF Confirm
  <2>. QED
    BY <1>2, <2>2, <2>3 DEF tableVars, ChoiceInv
<1>15. CASE Cancel \/ ActionFails \/ RecordArrives \/ RecordGoes
  <2>1. UNCHANGED tableVars /\ (dialog' \subseteq dialog) /\ (acting' \subseteq acting)
    BY <1>15 DEF Cancel, ActionFails, RecordArrives, RecordGoes
  <2>. QED
    BY <1>2, <2>1 DEF tableVars, ChoiceInv
<1>16. CASE ServerActs
  <2>1. PICK a \in acting : \E touched \in SUBSET (IF a.all THEN Found(a.search) ELSE a.ids) :
          acting' = {[a EXCEPT !.left = @ - 1, !.done = @ \cup touched]}
    BY <1>16 DEF ServerActs
  <2>2. a \in Actions
    BY <1>1 DEF ListShape
  <2>3. PICK touched \in SUBSET (IF a.all THEN Found(a.search) ELSE a.ids) :
          acting' = {[a EXCEPT !.left = @ - 1, !.done = @ \cup touched]}
    BY <2>1
  <2>4. \A b \in acting' : b.sure => Means(b, b.search) /\ b.done \subseteq b.told \cup b.later
    <3>1. a.sure => Means(a, a.search) /\ a.done \cup touched \subseteq a.told \cup a.later
      BY <2>3 DEF ChoiceInv, Means, Found
    <3>. QED
      BY <2>2, <2>3, <3>1 DEF Means, Actions
  <2>5. UNCHANGED tableVars /\ dialog' = dialog
    BY <1>16 DEF ServerActs
  <2>. QED
    BY <1>2, <2>4, <2>5 DEF tableVars, ChoiceInv
<1>17. CASE ActionDone
  <2>1. searchBox' = searchBox /\ dialog' = {} /\ acting' = {}
        /\ \E start : Draw(searchBox, start, iDisplayLength)
    BY <1>17 DEF ActionDone
  <2>. QED
    BY <1>4, <2>1 DEF ChoiceInv
<1>18. CASE PageReloaded
  <2>1. PICK length : Shown([search |-> NoSearch, start |-> 0, length |-> length])
    BY <1>18 DEF PageReloaded
  <2>. QED
    BY <1>5, <1>18, <2>1 DEF PageReloaded, ChoiceInv
<1>19. CASE UNCHANGED listVars
  BY <1>2, <1>3, <1>19 DEF listVars, tableVars
<1>. QED
  BY <1>6, <1>7, <1>8, <1>9, <1>10, <1>11, <1>13, <1>14, <1>15, <1>16, <1>17, <1>18, <1>19
     DEF ListNext

(* What is gone by the action under way.  All else that the page counted,  *)
(* or that was chosen, is still there; and once the server has acted, all  *)
(* that was chosen is done.                                                *)
Gone == UNION {a.done : a \in {b \in acting : b.what \in Removing}}

DoneInv == ~drifted =>
  /\ fresh => counted \subseteq records \cup Gone
  /\ \A d \in dialog : d.sure => d.told \subseteq records \cup Gone
  /\ \A a \in acting : a.sure =>
       /\ a.told \subseteq records \cup a.done
       /\ a.left < a.times => a.told \ Spared(a) \subseteq a.done

LEMMA DoneInit == ListInit => DoneInv
BY DEF ListInit, DoneInv, Found

LEMMA DoneStep == ToldInv /\ DoneInv /\ [ListNext]_listVars => DoneInv'
<1>. SUFFICES ASSUME ToldInv, DoneInv, [ListNext]_listVars, ~drifted' PROVE DoneInv'
  BY DEF DoneInv
<1>1. /\ checked \subseteq counted /\ Single(acting) /\ acting \subseteq Actions
      /\ dialog \subseteq Dialogs
  BY DEF ToldInv, SelectionInv, TicksAreShown, AnswerInv, ListShape
<1>2. acting = {} => Gone = {}
  BY DEF Gone
<1>3. ~drifted
  BY DEF ListNext, Search, ChangePage, ChangeLength, RowsAnswered, RowsNotAnswered, ClickCheckall,
         ClickRow, select_all_rows, clear_select_all_rows, OpenDelete, OpenProjects, OpenWebUsers,
         remove_from_project, Confirm, Cancel, ServerActs, ActionDone, PageReloaded, ActionFails,
         RecordArrives, RecordGoes, Remember, listVars
<1>4. /\ fresh => counted \subseteq records \cup Gone
      /\ \A d \in dialog : d.sure => d.told \subseteq records \cup Gone
      /\ \A a \in acting : a.sure =>
           /\ a.told \subseteq records \cup a.done
           /\ a.left < a.times => a.told \ Spared(a) \subseteq a.done
  BY <1>3 DEF DoneInv
<1>5. ASSUME UNCHANGED <<listKind, acting>>, records \subseteq records',
             dialog' \subseteq dialog, fresh' => fresh /\ counted' = counted
      PROVE  DoneInv'
  BY <1>4, <1>5 DEF DoneInv, Gone, Spared
<1>6. CASE Search \/ ChangePage \/ ChangeLength
  BY <1>5, <1>6 DEF Search, ChangePage, ChangeLength, Draw
<1>7. CASE RowsAnswered
  <2>1. UNCHANGED <<listKind, records, dialog, acting>> /\ counted' \subseteq records
    BY <1>7 DEF RowsAnswered, Shown, Found
  <2>. QED
    BY <1>4, <2>1 DEF DoneInv, Gone, Spared
<1>8. CASE RowsNotAnswered \/ Cancel \/ RecordArrives
  BY <1>5, <1>8 DEF RowsNotAnswered, Cancel, RecordArrives, tableVars
<1>9. CASE ClickCheckall \/ ClickRow \/ select_all_rows \/ clear_select_all_rows
  BY <1>5, <1>9 DEF ClickCheckall, ClickRow, select_all_rows, clear_select_all_rows
<1>10. CASE OpenDelete \/ OpenProjects \/ OpenWebUsers
  <2>1. UNCHANGED tableVars /\ UNCHANGED <<listKind, records, acting>> /\ acting = {}
    BY <1>10 DEF OpenDelete, OpenProjects, OpenWebUsers, Free, Blocked
  <2>2. PICK what : dialog' \in {{Choice(what)},
                                 {[Choice(what) EXCEPT !.all = FALSE, !.told = checked, !.later = {}]}}
    BY <1>10 DEF OpenDelete, OpenProjects, OpenWebUsers
  <2>3. \A d \in dialog' : d.sure = fresh /\ d.told \subseteq counted
    <3>1. CASE dialog' = {Choice(what)}
      BY <1>1, <3>1 DEF Choice, Told
    <3>2. CASE dialog' = {[Choice(what) EXCEPT !.all = FALSE, !.told = checked, !.later = {}]}
      BY <1>1, <3>2 DEF Choice
    <3>. QED
      BY <2>2, <3>1, <3>2
  <2>4. \A d \in dialog' : d.sure => d.told \subseteq records
    BY <1>2, <1>4, <2>1, <2>3
  <2>. QED
    BY <1>4, <2>1, <2>4 DEF DoneInv, Gone, tableVars
<1>11. ASSUME NEW d, NEW times, acting' = Requested(d, times), acting = {}, times \in Nat,
              d.sure => d.told \subseteq records,
              UNCHANGED <<listKind, records, fresh, counted>>, dialog' \subseteq dialog
       PROVE  DoneInv'
  <2>1. \A a \in acting' : /\ a.told = d.told /\ a.sure = d.sure /\ a.done = {}
                           /\ a.left = times /\ a.times = times
    BY <1>11 DEF Requested
  <2>2. Gone' = {}
    BY <2>1 DEF Gone
  <2>. QED
    BY <1>2, <1>4, <1>11, <2>1, <2>2 DEF DoneInv
<1>12. CASE remove_from_project
  <2>1. /\ acting' = Requested(Choice("remove"), 1) /\ acting = {}
        /\ UNCHANGED <<listKind, records, fresh, counted, dialog>>
    BY <1>12 DEF remove_from_project
  <2>2. Choice("remove").sure = fresh /\ Choice("remove").told \subseteq counted
    BY <1>1 DEF Choice, Told
  <2>. HIDE DEF Choice
  <2>. QED
    BY <1>2, <1>4, <1>11, <2>1, <2>2
<1>13. CASE Confirm
  <2>1. PICK d \in dialog : acting' = Requested(d, IF listKind = "subjects" THEN handlers ELSE 1)
    BY <1>13 DEF Confirm
  <2>2. /\ acting = {} /\ dialog' \subseteq dialog
        /\ UNCHANGED <<listKind, records, fresh, counted>>
    BY <1>13 DEF Confirm, tableVars
  <2>3. (IF listKind = "subjects" THEN handlers ELSE 1) \in Nat
    BY DEF ToldInv, ListShape
  <2>4. d.sure => d.told \subseteq records
    BY <1>2, <1>4, <2>2
  <2>. QED
    BY <1>11, <2>1, <2>2, <2>3, <2>4
<1>14. CASE ServerActs
  <2>1. PICK a \in acting :
          LET meant   == IF a.all THEN Found(a.search) ELSE a.ids \cap records
              touched == IF listKind = "datasenders" /\ a.what = "delete"
                         THEN meant \ Superusers ELSE meant
          IN  /\ records' = IF a.what \in Removing THEN records \ touched ELSE records
              /\ acting' = {[a EXCEPT !.left = @ - 1, !.done = @ \cup touched]}
    BY <1>14 DEF ServerActs
  <2>2. PICK touched :
          /\ touched = (IF a.all THEN Found(a.search) ELSE a.ids \cap records) \ Spared(a)
          /\ records' = IF a.what \in Removing THEN records \ touched ELSE records
          /\ acting' = {[a EXCEPT !.left = @ - 1, !.done = @ \cup touched]}
    BY <2>1 DEF Spared
  <2>3. UNCHANGED <<listKind, dialog, fresh, counted>>
    BY <1>14 DEF ServerActs, tableVars
  <2>4. PICK b : /\ acting' = {b}
                 /\ b.what = a.what /\ b.done = a.done \cup touched
                 /\ b.told = a.told /\ b.sure = a.sure
    <3>1. a \in Actions
      BY <1>1
    <3> DEFINE done == [a EXCEPT !.left = @ - 1, !.done = @ \cup touched]
    <3>2. /\ done.what = a.what /\ done.done = a.done \cup touched
          /\ done.told = a.told /\ done.sure = a.sure
      BY <3>1 DEF Actions
    <3>3. acting' = {done}
      BY <2>2
    <3>. QED
      BY <3>2, <3>3
  <2>5. a.sure => a.told \subseteq records \cup a.done /\ a.told \ Spared(a) \subseteq a.done \cup touched
    <3>1. a.sure => a.told \subseteq IF a.all THEN Matching[a.search] ELSE a.ids
      BY DEF ToldInv, ChoiceInv, Means
    <3>. QED
      BY <1>4, <2>2, <3>1 DEF Found
  <2>6. Gone = IF a.what \in Removing THEN a.done ELSE {}
    BY <1>1 DEF Gone, Single
  <2>7. Gone' = IF a.what \in Removing THEN a.done \cup touched ELSE {}
    BY <2>4 DEF Gone
  <2>8. records \cup Gone \subseteq records' \cup Gone'
    BY <2>2, <2>6, <2>7
  <2>9. records \cup a.done \subseteq records' \cup b.done
    BY <2>2, <2>4
  <2>10. Spared(b)' = Spared(a)
    BY <2>3, <2>4 DEF Spared
  <2>. QED
    BY <1>4, <2>3, <2>4, <2>5, <2>8, <2>9, <2>10 DEF DoneInv
<1>15. CASE ActionDone
  BY <1>15 DEF ActionDone, DoneInv, Draw
<1>16. CASE PageReloaded
  BY <1>16 DEF PageReloaded, DoneInv, Shown, Found
<1>17. CASE ActionFails
  <2>1. PICK a \in acting : a.done = {}
    BY <1>17 DEF ActionFails
  <2>2. Gone = {}
    BY <1>1, <2>1 DEF Gone, Single
  <2>3. acting' = {} /\ UNCHANGED <<records, dialog, fresh, counted>>
    BY <1>17 DEF ActionFails, tableVars
  <2>. QED
    BY <1>4, <2>2, <2>3 DEF DoneInv
<1>18. CASE RecordGoes
  BY <1>18 DEF RecordGoes
<1>19. CASE UNCHANGED listVars
  BY <1>5, <1>19 DEF listVars, tableVars
<1>. QED
  BY <1>6, <1>7, <1>8, <1>9, <1>10, <1>12, <1>13, <1>14, <1>15, <1>16, <1>17, <1>18, <1>19
     DEF ListNext

(* dwtable.js, datasender_actions.js, subject_actions.js and               *)
(* submission_log_actions.js: an action decided on the rows of the last    *)
(* answer is done to what the page counted as selected, to all of it, and  *)
(* to nothing else but records that came since and answer the same search. *)
THEOREM ToldIsDone == ListSpec => []ActsOnWhatWasTold
<1>1. ToldInv /\ DoneInv => ActsOnWhatWasTold
  BY DEF ToldInv, ChoiceInv, DoneInv, ActsOnWhatWasTold
<1>. QED
  BY <1>1, ToldInit, ToldStep, DoneInit, DoneStep, PTL DEF ListSpec

(***************************************************************************)
(* The end of the list.  Count(s) records are found for s.  A page with    *)
(* rows starts before the end of what was found; what an action removed    *)
(* since is known by the action; and an action that keeps the page leaves  *)
(* something beyond its start.                                             *)
(***************************************************************************)
Left(F) == Cardinality(F \cup Gone)

RowsFilled ==
  /\ Cardinality(rows) <= iDisplayLength /\ (rows = {} => recordsDisplay = 0)
  /\ iDisplayStart > 0 =>
       /\ iDisplayStart < recordsDisplay
       /\ Cardinality(rows) = Smaller(iDisplayLength, recordsDisplay - iDisplayStart)
  /\ recordsDisplay <= Left(Found(searchBox))

Starts(q) == q.start = 0 \/ q.start < Cardinality(Found(searchBox))

(* What the choice c deletes leaves something beyond start.                *)
Leaves(c, start) == start = 0 \/ (~c.all /\ recordsDisplay - Cardinality(c.ids) > start)

ChosenHere(c) ==
  c.ids \subseteq rows /\ (c.all => all_selected) /\ Leaves(c, c.pageToGo)

EndInv == ~drifted =>
  /\ dialog # {} \/ acting # {} => fresh
  /\ fresh => RowsFilled
  /\ \A q \in xhr : q.length = iDisplayLength /\ q.start = iDisplayStart /\ Starts(q)
  /\ \A d \in dialog : ChosenHere(d) /\ d.what # "remove"
  /\ \A a \in acting : /\ ChosenHere(a)
                       /\ ~a.all => a.done \subseteq a.ids
                       /\ a.what = "remove" => Leaves(a, iDisplayStart)

PageInv == ToldInv /\ EndInv

(* The index that get_updated_table_page_index gives leaves something.     *)
LEMMA IndexLeaves ==
  ASSUME ListShape, RowsFilled, NEW ids \in SUBSET rows
  PROVE  LET there == get_updated_table_page_index(ids)
         IN  there = 0 \/ (~all_selected /\ recordsDisplay - Cardinality(ids) > there)
<1> DEFINE n == Cardinality(rows)
           k == Cardinality(ids)
<1>1. IsFiniteSet(rows)
  BY ListAssumption, FS_Subset DEF ListShape, TableShape
<1>2. n \in Nat /\ k \in Nat /\ k <= n /\ IsFiniteSet(ids)
  BY <1>1, FS_Subset, FS_CardinalityType
<1>3. iDisplayStart \in Nat /\ iDisplayLength \in Nat /\ recordsDisplay \in Nat
  BY ListAssumption DEF ListShape, TableShape
<1>4. CASE get_updated_table_page_index(ids) = 0
  BY <1>4
<1>5. CASE get_updated_table_page_index(ids) # 0
  <2>1. /\ ~all_selected /\ get_updated_table_page_index(ids) = iDisplayStart /\ iDisplayStart > 0
        /\ ~(fnDisplayEnd = recordsDisplay /\ n = k)
    BY <1>3, <1>5 DEF get_updated_table_page_index
  <2>2. /\ iDisplayStart < recordsDisplay /\ n <= iDisplayLength
        /\ n = Smaller(iDisplayLength, recordsDisplay - iDisplayStart)
    BY <2>1 DEF RowsFilled
  <2>3. CASE iDisplayStart + iDisplayLength < recordsDisplay
    BY <1>2, <1>3, <2>1, <2>2, <2>3
  <2>4. CASE iDisplayStart + iDisplayLength >= recordsDisplay
    <3>1. fnDisplayEnd = recordsDisplay
      BY <1>3, <2>4 DEF fnDisplayEnd, Smaller
    <3>2. n = recordsDisplay - iDisplayStart
      BY <1>3, <2>2, <2>4 DEF Smaller
    <3>3. k < n
      BY <1>2, <2>1, <3>1
    <3>. QED
      BY <1>2, <1>3, <2>1, <3>2, <3>3
  <2>. QED
    BY <1>3, <2>3, <2>4
<1>. QED
  BY <1>4, <1>5

(* Rows that answer a request.                                             *)
LEMMA RowsAnswer ==
  ASSUME records \subseteq Records, NEW s \in Searches, NEW start \in Nat, NEW length \in PageLengths,
         start = 0 \/ start < Cardinality(Found(s)),
         NEW R, R = Page(Found(s), start, length), NEW n, n = Cardinality(Found(s))
  PROVE  /\ n \in Nat /\ Cardinality(R) <= length /\ (R = {} => n = 0)
         /\ start > 0 => start < n /\ Cardinality(R) = Smaller(length, n - start)
<1>1. /\ Found(s) \in SUBSET Nat /\ IsFiniteSet(Found(s)) /\ n \in Nat
  BY FoundCount
<1>2. length \in Nat /\ length > 0
  BY ListAssumption
<1>3. /\ IsFiniteSet(R) /\ Cardinality(R) = IF n <= start THEN 0 ELSE Smaller(length, n - start)
  BY <1>1, <1>2, PageCount
<1>4. R = {} => Cardinality(R) = 0
  BY FS_EmptySet
<1>. QED
  BY <1>1, <1>2, <1>3, <1>4 DEF Smaller

(* More records are found, or as many.                                     *)
LEMMA FoundGrows ==
  ASSUME ListShape, ListShape', NEW s \in Searches
  PROVE  /\ Left(Found(s)) \in Nat /\ Left(Found(s))' \in Nat
         /\ Found(s) \cup Gone \subseteq (Found(s) \cup Gone)' => Left(Found(s)) <= Left(Found(s))'
         /\ Cardinality(Found(s)) \in Nat /\ Cardinality(Found(s))' \in Nat
         /\ records \subseteq records' => Cardinality(Found(s)) <= Cardinality(Found(s))'
<1>1. ASSUME NEW S \in SUBSET Records, NEW T \in SUBSET Records
      PROVE  /\ Cardinality(S) \in Nat /\ Cardinality(T) \in Nat
             /\ S \subseteq T => Cardinality(S) <= Cardinality(T)
  <2>1. IsFiniteSet(S) /\ IsFiniteSet(T)
    BY ListAssumption, FS_Subset
  <2>. QED
    BY <2>1, FS_Subset, FS_CardinalityType
<1>2. /\ Found(s) \in SUBSET Records /\ Found(s)' \in SUBSET Records
      /\ records \subseteq records' => Found(s) \subseteq Found(s)'
  BY DEF Found, ListShape
<1>3. Gone \in SUBSET Records /\ Gone' \in SUBSET Records
  <2>1. \A a \in acting : a.done \subseteq Records
    BY DEF ListShape, Actions
  <2>2. \A a \in acting' : a.done \subseteq Records
    BY DEF ListShape, Actions
  <2>. QED
    BY <2>1, <2>2 DEF Gone
<1>4. Found(s) \cup Gone \in SUBSET Records /\ (Found(s) \cup Gone)' \in SUBSET Records
  BY <1>2, <1>3
<1>5. /\ Left(Found(s)) = Cardinality(Found(s) \cup Gone)
      /\ Left(Found(s))' = Cardinality((Found(s) \cup Gone)')
  BY DEF Left
<1>6. /\ Cardinality(Found(s) \cup Gone) \in Nat /\ Cardinality((Found(s) \cup Gone)') \in Nat
      /\ Found(s) \cup Gone \subseteq (Found(s) \cup Gone)'
           => Cardinality(Found(s) \cup Gone) <= Cardinality((Found(s) \cup Gone)')
  BY <1>1, <1>4
<1>7. /\ Cardinality(Found(s)) \in Nat /\ Cardinality(Found(s)') \in Nat
      /\ Found(s) \subseteq Found(s)' => Cardinality(Found(s)) <= Cardinality(Found(s)')
  BY <1>1, <1>2
<1>8. Cardinality(Found(s))' = Cardinality(Found(s)')
  OBVIOUS
<1>. QED
  BY <1>2, <1>5, <1>6, <1>7, <1>8

(* An action leaves what it has not touched.                               *)
LEMMA ActionLeaves ==
  ASSUME ToldInv, ~drifted, EndInv, NEW a \in acting, NEW start \in Nat, Leaves(a, start)
  PROVE  start = 0 \/ start < Cardinality(Found(searchBox))
<1> DEFINE F == Found(searchBox)
<1>. SUFFICES ASSUME start > 0 PROVE start < Cardinality(F)
  OBVIOUS
<1>1. /\ ListShape /\ Single(acting) /\ a \in Actions /\ recordsDisplay \in Nat /\ fresh
      /\ searchBox \in Searches
  BY DEF ToldInv, ListShape, TableShape, EndInv
<1>2. /\ ~a.all /\ recordsDisplay - Cardinality(a.ids) > start
      /\ a.done \subseteq a.ids /\ a.ids \subseteq Records
      /\ recordsDisplay <= Left(F)
  BY <1>1 DEF Leaves, EndInv, RowsFilled, Actions
<1>3. Gone \subseteq a.ids
  BY <1>1, <1>2 DEF Gone, Single
<1>4. IsFiniteSet(F) /\ Cardinality(F) \in Nat
  BY <1>1, FoundCount DEF ListShape
<1>5. IsFiniteSet(a.ids) /\ Cardinality(a.ids) \in Nat
  BY <1>2, ListAssumption, FS_Subset, FS_CardinalityType
<1>6. IsFiniteSet(Gone) /\ Cardinality(Gone) \in Nat /\ Cardinality(Gone) <= Cardinality(a.ids)
  BY <1>3, <1>5, FS_Subset, FS_CardinalityType
<1>7. Left(F) <= Cardinality(F) + Cardinality(Gone)
  <2>1. Left(F) = Cardinality(F) + Cardinality(Gone) - Cardinality(F \cap Gone)
    BY <1>4, <1>6, FS_Union DEF Left
  <2>2. Cardinality(F \cap Gone) \in Nat
    BY <1>4, FS_Intersection, FS_CardinalityType
  <2>. QED
    BY <1>4, <1>6, <2>1, <2>2
<1>8. Left(F) \in Nat
  BY <1>4, <1>6, FS_Union, FS_CardinalityType DEF Left
<1>. HIDE DEF F
<1>. QED
  BY <1>1, <1>2, <1>4, <1>5, <1>6, <1>7, <1>8

(* The table is drawn again, from a start that has something beyond it.    *)
LEMMA EndDraw ==
  ASSUME ToldInv, EndInv, ToldInv', NEW s \in Searches, NEW start \in Nat, NEW length \in PageLengths,
         Draw(s, start, length), searchBox' = s, records' = records,
         drifted \/ start = 0 \/ length # iDisplayLength
           \/ (s = searchBox /\ start < Cardinality(Found(s))),
         drifted => drifted', dialog' = {}, acting' = {}
  PROVE  EndInv'
<1>. SUFFICES ASSUME ~drifted' PROVE EndInv'
  BY DEF EndInv
<1> DEFINE from == IF displayLength # length THEN 0 ELSE start
<1>1. /\ ~fresh' /\ iDisplayStart' = from /\ iDisplayLength' = length
      /\ xhr' = {[search |-> s, start |-> from, length |-> length]}
  BY DEF Draw
<1>2. displayLength = iDisplayLength
  BY DEF ToldInv, ListShape, TableShape
<1>3. from = 0 \/ from < Cardinality(Found(s))
  BY <1>2
<1>4. Cardinality(Found(searchBox))' = Cardinality(Found(s))
  BY DEF Found
<1>5. \A q \in xhr' : q.length = iDisplayLength' /\ q.start = iDisplayStart' /\ Starts(q)'
  BY <1>1, <1>3, <1>4 DEF Starts
<1>. QED
  BY <1>1, <1>5 DEF EndInv

(* The rows are replaced.                                                  *)
LEMMA EndShown ==
  ASSUME ToldInv, ToldInv', NEW q \in Queries, Shown(q), searchBox' = q.search, records' = records,
         iDisplayStart' = q.start, iDisplayLength' = q.length, xhr' = {},
         q.start = 0 \/ q.start < Cardinality(Found(q.search)), dialog' = {}, acting' = {}
  PROVE  EndInv'
<1>1. /\ q.search \in Searches /\ q.start \in Nat /\ q.length \in PageLengths
      /\ records \subseteq Records
  BY DEF Queries, ToldInv, ListShape
<1>2. rows' = Page(Found(q.search), q.start, q.length) /\ recordsDisplay' = Cardinality(Found(q.search))
  BY DEF Shown
<1>3. /\ recordsDisplay' \in Nat /\ Cardinality(rows') <= q.length /\ (rows' = {} => recordsDisplay' = 0)
      /\ q.start > 0 => q.start < recordsDisplay'
                        /\ Cardinality(rows') = Smaller(q.length, recordsDisplay' - q.start)
  BY <1>1, <1>2, RowsAnswer
<1>4. Left(Found(searchBox))' = Cardinality(Found(q.search))
  <2>1. Gone' = {}
    BY DEF Gone
  <2>2. Found(searchBox)' = Found(q.search)
    BY DEF Found
  <2>3. (Found(searchBox) \cup Gone)' = Found(q.search)
    BY <2>1, <2>2
  <2>. QED
    BY <2>3 DEF Left
<1>5. RowsFilled'
  BY <1>2, <1>3, <1>4 DEF RowsFilled
<1>. QED
  BY <1>5 DEF EndInv

(* The table stays, and no fewer records are there, but for what an action *)
(* removed.                                                                *)
LEMMA EndStays ==
  ASSUME ToldInv, EndInv, ToldInv', ~drifted, ~drifted',
         UNCHANGED <<iDisplayStart, iDisplayLength, xhr, rows, recordsDisplay, searchBox, fresh>>,
         Found(searchBox) \cup Gone \subseteq (Found(searchBox) \cup Gone)',
         xhr # {} => records \subseteq records'
  PROVE  /\ fresh => RowsFilled'
         /\ \A q \in xhr' : q.length = iDisplayLength' /\ q.start = iDisplayStart' /\ Starts(q)'
         /\ \A c : (c.all => all_selected') => (ChosenHere(c) => ChosenHere(c)')
         /\ \A c, n : Leaves(c, n) <=> Leaves(c, n)'
<1>1. /\ ListShape /\ ListShape' /\ searchBox \in Searches /\ recordsDisplay \in Nat
  BY DEF ToldInv, ListShape, TableShape
<1>2. /\ Left(Found(searchBox)) \in Nat /\ Left(Found(searchBox))' \in Nat
      /\ Left(Found(searchBox)) <= Left(Found(searchBox))'
      /\ Cardinality(Found(searchBox)) \in Nat /\ Cardinality(Found(searchBox))' \in Nat
      /\ xhr # {} => Cardinality(Found(searchBox)) <= Cardinality(Found(searchBox))'
  <2>1. PICK s \in Searches : s = searchBox
    BY <1>1
  <2>2. Found(searchBox) = Found(s) /\ Found(searchBox)' = Found(s)'
        /\ Left(Found(searchBox)) = Left(Found(s)) /\ Left(Found(searchBox))' = Left(Found(s))'
    BY <2>1
  <2>. QED
    BY <1>1, <2>2, FoundGrows
<1>3. fresh => RowsFilled'
  BY <1>1, <1>2 DEF EndInv, RowsFilled
<1>4. \A q \in xhr : q.start \in Nat
  BY <1>1 DEF ListShape, TableShape, Queries
<1>5. \A q \in xhr : Starts(q)'
  BY <1>2, <1>4 DEF EndInv, Starts
<1>. QED
  BY <1>3, <1>5 DEF EndInv, ChosenHere, Leaves

LEMMA PageInit == ListInit => PageInv
<1>. SUFFICES ASSUME ListInit PROVE PageInv
  OBVIOUS
<1>1. ToldInv
  BY ToldInit
<1>2. /\ records \subseteq Records /\ NoSearch \in Searches /\ iDisplayLength \in PageLengths
      /\ rows = Page(Found(NoSearch), 0, iDisplayLength)
      /\ recordsDisplay = Cardinality(Found(NoSearch))
  BY ListAssumption DEF ListInit
<1>3. /\ recordsDisplay \in Nat /\ Cardinality(rows) <= iDisplayLength
      /\ (rows = {} => recordsDisplay = 0)
  BY <1>2, RowsAnswer
<1>4. Left(Found(searchBox)) = recordsDisplay
  <2>1. Gone = {} /\ searchBox = NoSearch
    BY DEF ListInit, Gone
  <2>2. Found(searchBox) \cup Gone = Found(NoSearch)
    BY <2>1
  <2>. QED
    BY <1>2, <2>2 DEF Left
<1>5. RowsFilled
  BY <1>3, <1>4 DEF ListInit, RowsFilled
<1>. QED
  BY <1>1, <1>5 DEF ListInit, PageInv, EndInv

(* A choice is about the rows that are shown.                              *)
LEMMA ChoiceHere ==
  ASSUME ToldInv, RowsFilled, NEW what
  PROVE  /\ ChosenHere(Choice(what))
         /\ ChosenHere([Choice(what) EXCEPT !.all = FALSE, !.told = checked, !.later = {}])
<1>1. checked \subseteq rows /\ ListShape /\ all_selected \in BOOLEAN
  BY DEF ToldInv, SelectionInv, TicksAreShown, ListShape, TableShape
<1> DEFINE c == Choice(what)
           d == [c EXCEPT !.all = FALSE, !.told = checked, !.later = {}]
<1>2. c.ids = checked /\ c.all = all_selected
      /\ c.pageToGo = IF listKind \in {"datasenders", "project"}
                      THEN get_updated_table_page_index(checked) ELSE 0
  BY DEF Choice
<1>3. d.ids = checked /\ d.all = FALSE /\ d.pageToGo = c.pageToGo
  BY DEF Choice
<1>. HIDE DEF c, d
<1>4. c.pageToGo = 0 \/ (~all_selected /\ recordsDisplay - Cardinality(checked) > c.pageToGo)
  BY <1>1, <1>2, IndexLeaves
<1>5. ChosenHere(c) /\ ChosenHere(d)
  BY <1>1, <1>2, <1>3, <1>4 DEF ChosenHere, Leaves
<1>. QED
  BY <1>5 DEF c, d

LEMMA PageStep == PageInv /\ [ListNext]_listVars => PageInv'
<1>. SUFFICES ASSUME PageInv, [ListNext]_listVars PROVE PageInv'
  OBVIOUS
<1>1. ToldInv /\ EndInv /\ ToldInv'
  BY ToldStep DEF PageInv
<1>. SUFFICES EndInv'
  BY <1>1 DEF PageInv
<1>2. /\ ListShape /\ ListShape' /\ iDisplayLength \in PageLengths /\ iDisplayLength \in Nat \ {0}
      /\ iDisplayStart \in Nat /\ recordsDisplay \in Nat /\ searchBox \in Searches
      /\ Single(xhr) /\ Single(dialog) /\ Single(acting)
      /\ dialog \subseteq Dialogs /\ acting \subseteq Actions /\ (fresh => xhr = {})
  BY <1>1, ListAssumption DEF ToldInv, ListShape, TableShape, AnswerInv
<1>3. drifted => EndInv
  BY DEF EndInv
<1>4. CASE drifted'
  BY <1>4 DEF EndInv
<1>. SUFFICES ASSUME ~drifted' PROVE EndInv'
  BY <1>4
<1>5. CASE Search
  <2>1. PICK s \in Searches : Draw(s, 0, iDisplayLength) /\ searchBox' = s
    BY <1>5 DEF Search
  <2>2. records' = records /\ drifted' = drifted /\ dialog' = {} /\ acting' = {}
    BY <1>5 DEF Search, Free, Blocked
  <2>. QED
    BY <1>1, <1>2, <2>1, <2>2, EndDraw
<1>6. CASE ChangePage
  <2>1. PICK start \in {0, iDisplayStart - iDisplayLength, iDisplayStart + iDisplayLength,
                        ((recordsDisplay - 1) \div iDisplayLength) * iDisplayLength} :
          /\ start > iDisplayStart => fnDisplayEnd # recordsDisplay
          /\ Draw(searchBox, IF start < 0 THEN 0 ELSE start, iDisplayLength)
    BY <1>6 DEF ChangePage
  <2>2. records' = records /\ searchBox' = searchBox /\ dialog' = {} /\ acting' = {}
        /\ dialog = {} /\ acting = {} /\ fresh /\ ~drifted
    BY <1>6 DEF ChangePage, Free, Blocked, Remember
  <2>3. RowsFilled /\ Left(Found(searchBox)) = Cardinality(Found(searchBox))
    <3>1. Gone = {}
      BY <2>2 DEF Gone
    <3>2. Found(searchBox) \cup Gone = Found(searchBox)
      BY <3>1
    <3>. QED
      BY <1>1, <2>2, <3>2 DEF EndInv, Left
  <2>4. start \in Int /\ (start <= 0 \/ start < recordsDisplay)
    <3>1. CASE start \in {0, iDisplayStart - iDisplayLength}
      BY <1>2, <2>3, <3>1 DEF RowsFilled
    <3>2. CASE start = iDisplayStart + iDisplayLength
      BY <1>2, <2>1, <3>2 DEF fnDisplayEnd, Smaller
    <3>3. CASE start = ((recordsDisplay - 1) \div iDisplayLength) * iDisplayLength
      <4>1. \A n \in Int, k \in Nat \ {0} : (n \div k) * k <= n /\ (n \div k) * k \in Int
        OBVIOUS
      <4>2. start <= recordsDisplay - 1 /\ start \in Int
        BY <1>2, <3>3, <4>1
      <4>. QED
        BY <1>2, <4>2
    <3>. QED
      BY <2>1, <3>1, <3>2, <3>3
  <2> DEFINE from == IF start < 0 THEN 0 ELSE start
  <2>5. from \in Nat /\ (from = 0 \/ from < Cardinality(Found(searchBox)))
    <3>1. Cardinality(Found(searchBox)) \in Nat
      BY <1>2, FoundCount DEF ListShape
    <3>. QED
      BY <1>2, <2>3, <2>4, <3>1 DEF RowsFilled
  <2>6. Draw(searchBox, from, iDisplayLength)
    BY <2>1
  <2>. HIDE DEF from
  <2>. QED
    BY <1>1, <1>2, <2>2, <2>5, <2>6, EndDraw
<1>7. CASE ChangeLength
  <2>1. PICK length \in PageLengths : Draw(searchBox, iDisplayStart, length) /\ length # iDisplayLength
    BY <1>7 DEF ChangeLength
  <2>2. records' = records /\ drifted' = drifted /\ dialog' = {} /\ acting' = {}
        /\ searchBox' = searchBox
    BY <1>7 DEF ChangeLength, Free, Blocked
  <2>. QED
    BY <1>1, <1>2, <2>1, <2>2, EndDraw
<1>8. CASE RowsAnswered
  <2>1. PICK q \in xhr : Shown(q) /\ xhr' = xhr \ {q}
    BY <1>8 DEF RowsAnswered
  <2>2. xhr' = {} /\ q \in Queries /\ q.search = searchBox
    BY <1>1, <1>2, <2>1 DEF Single, ListShape, TableShape, ToldInv, AnswerInv
  <2>3. UNCHANGED <<records, searchBox, iDisplayStart, iDisplayLength, dialog, acting, drifted>>
    BY <1>8 DEF RowsAnswered
  <2>4. /\ q.length = iDisplayLength /\ q.start = iDisplayStart /\ Starts(q)
        /\ dialog = {} /\ acting = {}
    BY <1>1, <1>2, <2>3 DEF EndInv
  <2>. QED
    BY <1>1, <2>1, <2>2, <2>3, <2>4, EndShown DEF Starts
<1>9. CASE RowsNotAnswered
  <2>1. xhr' = {} /\ xhr # {} /\ ~fresh
    BY <1>2, <1>9 DEF RowsNotAnswered, Single
  <2>2. UNCHANGED <<dialog, acting, drifted, fresh>>
    BY <1>9 DEF RowsNotAnswered
  <2>. QED
    BY <1>1, <2>1, <2>2 DEF EndInv
<1>10. ASSUME ~drifted, ~drifted',
              UNCHANGED <<records, acting, iDisplayStart, iDisplayLength, xhr, rows, recordsDisplay,
                          searchBox, fresh>>
       PROVE  /\ fresh => RowsFilled'
              /\ \A q \in xhr' : q.length = iDisplayLength' /\ q.start = iDisplayStart' /\ Starts(q)'
              /\ \A c : (c.all => all_selected') => (ChosenHere(c) => ChosenHere(c)')
              /\ \A c, n : Leaves(c, n) <=> Leaves(c, n)'
  <2>1. (Found(searchBox) \cup Gone)' = Found(searchBox) \cup Gone
    BY <1>10 DEF Found, Gone
  <2>. QED
    BY <1>1, <1>10, <2>1, EndStays
<1>11. CASE ClickCheckall \/ ClickRow \/ select_all_rows \/ clear_select_all_rows
  <2>1. /\ UNCHANGED <<records, acting, iDisplayStart, iDisplayLength, xhr, rows, recordsDisplay,
                       searchBox, fresh, dialog, drifted>>
        /\ dialog = {} /\ acting = {}
    BY <1>11 DEF ClickCheckall, ClickRow, select_all_rows, clear_select_all_rows, Free, Blocked
  <2>. QED
    BY <1>10, <2>1 DEF EndInv
<1>12. CASE OpenDelete \/ OpenProjects \/ OpenWebUsers
  <2>1. UNCHANGED tableVars /\ UNCHANGED <<records, acting>> /\ acting = {} /\ fresh /\ ~drifted
    BY <1>12 DEF OpenDelete, OpenProjects, OpenWebUsers, Free, Blocked, Remember
  <2>2. RowsFilled
    BY <1>1, <2>1 DEF EndInv
  <2>3. PICK what \in Whats \ {"remove"} :
          dialog' \in {{Choice(what)}, {[Choice(what) EXCEPT !.all = FALSE, !.told = checked, !.later = {}]}}
    BY <1>12 DEF OpenDelete, OpenProjects, OpenWebUsers, Whats
  <2>4. PICK d : dialog' = {d} /\ ChosenHere(d) /\ d.what # "remove"
    <3>1. /\ Choice(what).what = what
          /\ [Choice(what) EXCEPT !.all = FALSE, !.told = checked, !.later = {}].what = what
      BY DEF Choice
    <3>. HIDE DEF Choice
    <3>. QED
      BY <1>1, <2>2, <2>3, <3>1, ChoiceHere
  <2>5. ChosenHere(d)'
    BY <2>1, <2>4 DEF ChosenHere, Leaves, tableVars
  <2>. QED
    BY <1>10, <2>1, <2>4, <2>5 DEF EndInv, tableVars
<1>13. ASSUME NEW d, NEW times, acting' = Requested(d, times)
       PROVE  \A a \in acting' : /\ a.what = d.what /\ a.ids = d.ids /\ a.all = d.all
                                 /\ a.pageToGo = d.pageToGo /\ a.done = {}
  BY <1>13 DEF Requested
<1>14. CASE remove_from_project
  <2> DEFINE d == Choice("remove")
             there == get_updated_table_page_index(checked)
  <2>1. /\ acting' = Requested(d, 1) /\ iDisplayStart' = there
        /\ UNCHANGED <<records, searchBox, iDisplayLength, xhr, rows, recordsDisplay, fresh,
                       all_selected>>
        /\ dialog = {} /\ dialog' = {} /\ acting = {} /\ fresh /\ ~drifted
    BY <1>14 DEF remove_from_project, Free, Remember
  <2>2. RowsFilled /\ xhr = {}
    BY <1>1, <1>2, <2>1 DEF EndInv
  <2>3. d.ids = checked /\ d.all = all_selected /\ checked \subseteq rows
    BY <1>1 DEF Choice, ToldInv, SelectionInv, TicksAreShown
  <2>4. ChosenHere(d)
    BY <1>1, <2>2, ChoiceHere
  <2>. HIDE DEF d
  <2>5. Leaves(d, there)
    BY <1>2, <2>2, <2>3, IndexLeaves DEF Leaves
  <2>6. there \in {0, iDisplayStart}
    BY DEF get_updated_table_page_index
  <2>. HIDE DEF there
  <2>7. \A a \in acting' : /\ ChosenHere(a)' /\ a.done = {} /\ Leaves(a, iDisplayStart)'
    <3>1. ASSUME NEW a \in acting'
          PROVE  /\ ChosenHere(a)' /\ a.done = {} /\ Leaves(a, iDisplayStart)'
      <4>1. a.ids = d.ids /\ a.all = d.all /\ a.pageToGo = d.pageToGo /\ a.done = {}
        BY <1>13, <2>1
      <4>2. ChosenHere(a) /\ (there = 0 \/ (~a.all /\ recordsDisplay - Cardinality(a.ids) > there))
        BY <2>4, <2>5, <4>1 DEF ChosenHere, Leaves
      <4>3. ChosenHere(a)'
        BY <2>1, <4>2 DEF ChosenHere, Leaves
      <4>. QED
        BY <2>1, <4>1, <4>2, <4>3 DEF Leaves
    <3>. QED
      BY <3>1
  <2>8. Gone = {} /\ Gone' = {}
    BY <2>1, <2>7 DEF Gone
  <2>9. Left(Found(searchBox))' = Left(Found(searchBox))
    BY <2>1, <2>8 DEF Left, Found
  <2>10. RowsFilled'
    BY <1>2, <2>1, <2>2, <2>6, <2>9 DEF RowsFilled
  <2>. QED
    BY <2>1, <2>2, <2>7, <2>10 DEF EndInv
<1>15. CASE Confirm
  <2>1. PICK d \in dialog : acting' = Requested(d, IF listKind = "subjects" THEN handlers ELSE 1)
    BY <1>15 DEF Confirm
  <2>2. UNCHANGED tableVars /\ UNCHANGED <<records, drifted>> /\ (dialog' \subseteq dialog) /\ acting = {}
    BY <1>15 DEF Confirm
  <2>3. ~drifted /\ fresh /\ RowsFilled /\ ChosenHere(d) /\ xhr = {} /\ d.what # "remove"
    BY <1>1, <1>2, <2>1, <2>2 DEF EndInv
  <2>4. \A a \in acting' : ChosenHere(a) /\ a.done = {} /\ a.what # "remove"
    BY <1>13, <2>1, <2>3 DEF ChosenHere, Leaves
  <2>5. Gone = {} /\ Gone' = {}
    BY <2>2, <2>4 DEF Gone
  <2>6. /\ RowsFilled' /\ \A c : ChosenHere(c) => ChosenHere(c)'
    <3>1. Left(Found(searchBox))' = Left(Found(searchBox))
      BY <2>2, <2>5 DEF Left, Found, tableVars
    <3>. QED
      BY <2>2, <2>3, <3>1 DEF RowsFilled, ChosenHere, Leaves, tableVars
  <2>. QED
    BY <1>1, <2>2, <2>3, <2>4, <2>6 DEF EndInv, tableVars
<1>16. CASE Cancel
  <2>1. UNCHANGED tableVars /\ UNCHANGED <<records, acting, drifted>> /\ dialog' = {}
    BY <1>16 DEF Cancel
  <2>2. \A c : ChosenHere(c) => (c.all => all_selected')
    BY <2>1 DEF ChosenHere, tableVars
  <2>. QED
    BY <1>1, <1>10, <2>1, <2>2 DEF EndInv, tableVars
<1>17. CASE ServerActs
  <2>1. PICK a \in acting : \E meant \in SUBSET Records : \E touched \in SUBSET meant :
          /\ meant = IF a.all THEN Found(a.search) ELSE a.ids \cap records
          /\ records' = IF a.what \in Removing THEN records \ touched ELSE records
          /\ acting' = {[a EXCEPT !.left = @ - 1, !.done = @ \cup touched]}
    <3>1. ASSUME NEW a \in acting
          PROVE  (IF a.all THEN Found(a.search) ELSE a.ids \cap records) \in SUBSET Records
      BY <1>2 DEF Found, ListShape
    <3>. QED
      BY <1>17, <3>1 DEF ServerActs
  <2>2. PICK touched \in SUBSET Records :
          /\ ~a.all => touched \subseteq a.ids
          /\ records' = IF a.what \in Removing THEN records \ touched ELSE records
          /\ acting' = {[a EXCEPT !.left = @ - 1, !.done = @ \cup touched]}
    BY <2>1
  <2> DEFINE b == [a EXCEPT !.left = @ - 1, !.done = @ \cup touched]
  <2>3. /\ b.what = a.what /\ b.ids = a.ids /\ b.all = a.all /\ b.pageToGo = a.pageToGo
        /\ b.done = a.done \cup touched
    BY <1>2 DEF Actions
  <2>4. acting' = {b} /\ acting = {a}
    BY <1>2, <2>2 DEF Single
  <2>. HIDE DEF b
  <2>5. UNCHANGED tableVars /\ UNCHANGED <<dialog, drifted>>
    BY <1>17 DEF ServerActs
  <2>6. ~drifted /\ fresh /\ xhr = {}
    BY <1>1, <1>2, <2>4, <2>5 DEF EndInv
  <2>7. Gone = (IF a.what \in Removing THEN a.done ELSE {})
        /\ Gone' = (IF a.what \in Removing THEN a.done \cup touched ELSE {})
    BY <2>3, <2>4 DEF Gone
  <2>8. Found(searchBox) \cup Gone \subseteq (Found(searchBox) \cup Gone)'
    BY <2>2, <2>5, <2>7 DEF Found, tableVars
  <2>9. /\ RowsFilled' /\ \A c : (c.all => all_selected') => (ChosenHere(c) => ChosenHere(c)')
        /\ \A c, n : Leaves(c, n) <=> Leaves(c, n)'
    BY <1>1, <2>5, <2>6, <2>8, EndStays DEF tableVars
  <2>10. /\ ChosenHere(b)' /\ (~b.all => b.done \subseteq b.ids)
         /\ b.what = "remove" => Leaves(b, iDisplayStart)'
    <3>1. /\ ChosenHere(a) /\ (~a.all => a.done \subseteq a.ids)
          /\ a.what = "remove" => Leaves(a, iDisplayStart)
      BY <1>1, <2>6 DEF EndInv
    <3>. QED
      BY <2>2, <2>3, <2>5, <3>1 DEF ChosenHere, Leaves, tableVars
  <2>11. \A d \in dialog : ChosenHere(d)' /\ d.what # "remove"
    BY <1>1, <2>5, <2>6 DEF EndInv, ChosenHere, Leaves, tableVars
  <2>. QED
    BY <2>4, <2>5, <2>6, <2>9, <2>10, <2>11 DEF EndInv, tableVars
<1>18. CASE ActionDone
  <2>1. PICK a \in acting :
          /\ listKind # "subjects"
          /\ Draw(searchBox, IF listKind = "submissions" THEN get_updated_table_page_index(a.ids)
                             ELSE IF a.what \in {"delete", "disassociate"} THEN a.pageToGo
                             ELSE iDisplayStart, iDisplayLength)
    BY <1>18 DEF ActionDone
  <2> DEFINE start == IF listKind = "submissions" THEN get_updated_table_page_index(a.ids)
                      ELSE IF a.what \in {"delete", "disassociate"} THEN a.pageToGo
                      ELSE iDisplayStart
  <2>2. UNCHANGED <<records, searchBox>> /\ dialog' = {} /\ acting' = {} /\ ~drifted
    BY <1>18 DEF ActionDone
  <2>3. /\ fresh /\ RowsFilled /\ ChosenHere(a) /\ (a.what = "remove" => Leaves(a, iDisplayStart))
        /\ a \in Actions
    BY <1>1, <1>2, <2>2 DEF EndInv
  <2>4. a.pageToGo \in Nat /\ get_updated_table_page_index(a.ids) \in {0, iDisplayStart}
    BY <2>3 DEF Actions, get_updated_table_page_index
  <2>5. Leaves(a, get_updated_table_page_index(a.ids)) /\ Leaves(a, a.pageToGo)
    BY <1>2, <2>3, IndexLeaves DEF ChosenHere, Leaves
  <2>6. ASSUME a.what \notin Removing
        PROVE  iDisplayStart = 0 \/ iDisplayStart < Cardinality(Found(searchBox))
    <3>1. Gone = {}
      BY <1>2, <2>6 DEF Gone, Single
    <3>2. Found(searchBox) \cup Gone = Found(searchBox)
      BY <3>1
    <3>3. recordsDisplay <= Cardinality(Found(searchBox)) /\ Cardinality(Found(searchBox)) \in Nat
      BY <1>2, <2>3, <3>2, FoundCount DEF RowsFilled, Left, ListShape
    <3>. QED
      BY <1>2, <2>3, <3>3 DEF RowsFilled
  <2>7. start \in Nat
    BY <1>2, <2>4
  <2>8. start = 0 \/ start < Cardinality(Found(searchBox))
    <3>1. CASE start \in {get_updated_table_page_index(a.ids), a.pageToGo}
      <4>1. Leaves(a, start)
        BY <2>5, <3>1
      <4>. HIDE DEF start
      <4>. QED
        BY <1>1, <2>2, <2>7, <4>1, ActionLeaves
    <3>2. CASE start = iDisplayStart /\ a.what \notin {"delete", "disassociate"}
      <4>1. CASE a.what = "remove"
        <5>1. Leaves(a, iDisplayStart)
          BY <2>3, <4>1
        <5>2. iDisplayStart = 0 \/ iDisplayStart < Cardinality(Found(searchBox))
          BY <1>1, <1>2, <2>2, <5>1, ActionLeaves
        <5>. QED
          BY <3>2, <5>2
      <4>2. CASE a.what # "remove"
        <5>1. iDisplayStart = 0 \/ iDisplayStart < Cardinality(Found(searchBox))
          BY <2>6, <3>2, <4>2 DEF Removing
        <5>. QED
          BY <3>2, <5>1
      <4>. QED
        BY <4>1, <4>2
    <3>. QED
      BY <3>1, <3>2
  <2>9. Draw(searchBox, start, iDisplayLength)
    BY <2>1
  <2>. HIDE DEF start
  <2>. QED
    BY <1>1, <1>2, <2>2, <2>7, <2>8, <2>9, EndDraw
<1>19. CASE PageReloaded
  <2>1. PICK length \in PageLengths :
          /\ iDisplayLength' = length
          /\ Shown([search |-> NoSearch, start |-> 0, length |-> length])
    BY <1>19 DEF PageReloaded
  <2> DEFINE q == [search |-> NoSearch, start |-> 0, length |-> length]
  <2>2. q \in Queries /\ q.search = NoSearch /\ q.start = 0 /\ q.length = length /\ Shown(q)
    BY <2>1, ListAssumption DEF Queries
  <2>3. /\ searchBox' = NoSearch /\ records' = records /\ iDisplayStart' = 0 /\ xhr' = {}
        /\ dialog' = {} /\ acting' = {}
    BY <1>19 DEF PageReloaded
  <2>. HIDE DEF q
  <2>. QED
    BY <1>1, <2>1, <2>2, <2>3, EndShown
<1>20. CASE ActionFails
  <2>1. PICK a \in acting : acting' = {} /\ drifted' = (drifted \/ a.done # {})
    BY <1>20 DEF ActionFails
  <2>2. UNCHANGED tableVars /\ UNCHANGED <<records, dialog>>
    BY <1>20 DEF ActionFails
  <2>3. ~drifted /\ fresh /\ xhr = {} /\ a.done = {}
    BY <1>1, <1>2, <2>1 DEF EndInv
  <2>4. Gone = {} /\ Gone' = {}
    BY <1>2, <2>1, <2>3 DEF Gone, Single
  <2>5. /\ RowsFilled' /\ \A c : ChosenHere(c) => ChosenHere(c)'
    <3>1. Left(Found(searchBox))' = Left(Found(searchBox))
      BY <2>2, <2>4 DEF Left, Found, tableVars
    <3>2. RowsFilled
      BY <1>1, <2>3 DEF EndInv
    <3>. QED
      BY <2>2, <3>1, <3>2 DEF RowsFilled, ChosenHere, Leaves, tableVars
  <2>. QED
    BY <1>1, <2>1, <2>2, <2>3, <2>5 DEF EndInv, tableVars
<1>21. CASE RecordArrives
  <2>1. UNCHANGED tableVars /\ UNCHANGED <<dialog, acting, drifted>> /\ (records \subseteq records')
    BY <1>21 DEF RecordArrives
  <2>2. Found(searchBox) \cup Gone \subseteq (Found(searchBox) \cup Gone)'
    BY <2>1 DEF Found, Gone, tableVars
  <2>3. /\ fresh => RowsFilled'
        /\ \A q \in xhr' : q.length = iDisplayLength' /\ q.start = iDisplayStart' /\ Starts(q)'
        /\ \A c : (c.all => all_selected') => (ChosenHere(c) => ChosenHere(c)')
        /\ \A c, n : Leaves(c, n) <=> Leaves(c, n)'
    BY <1>1, <2>1, <2>2, EndStays DEF tableVars
  <2>4. \A c : ChosenHere(c) => (c.all => all_selected')
    BY <2>1 DEF ChosenHere, tableVars
  <2>. QED
    BY <1>1, <2>1, <2>3, <2>4 DEF EndInv, tableVars
<1>22. CASE RecordGoes
  BY <1>22 DEF RecordGoes
<1>23. CASE UNCHANGED listVars
  <2>1. drifted' = drifted /\ UNCHANGED tableVars /\ UNCHANGED <<records, acting, dialog>>
    BY <1>23 DEF listVars
  <2>2. \A c : ChosenHere(c) => (c.all => all_selected')
    BY <2>1 DEF ChosenHere, tableVars
  <2>. QED
    BY <1>1, <1>10, <2>1, <2>2 DEF EndInv, tableVars
<1>. QED
  BY <1>5, <1>6, <1>7, <1>8, <1>9, <1>11, <1>12, <1>14, <1>15, <1>16, <1>17, <1>18, <1>19,
     <1>20, <1>21, <1>22, <1>23 DEF ListNext

(* The list shows what there is, and selects what it shows as selected.    *)
THEOREM ListIsShown == ListSpec => []ListShownAsItIs
<1>1. PageInv => ListShownAsItIs
  BY DEF PageInv, ToldInv, SelectionInv, EndInv, RowsFilled, ListShownAsItIs, SelectionShown,
         SelectionAnnounced, PageNotBeyondEnd
<1>. QED
  BY <1>1, PageInit, PageStep, PTL DEF ListSpec

-----------------------------------------------------------------------------
(***************************************************************************)
(* BroadcastSms.  The form and the requests have their shape.              *)
(***************************************************************************)
Tos      == {"All", "Associated", "Additional"}
Line     == Numbers \cup {""}
Typed    == Seq(Line)
Sendings == [to : Tos, others : Typed, awaited : BOOLEAN, confirmed : BOOLEAN, counted : Nat]

SmsShape ==
  /\ senders \subseteq Senders /\ to \in Tos /\ others \in Typed
  /\ counts \in [{"All", "Associated"} -> Nat]
  /\ sendings \in Seq(Sendings)

(* A request was confirmed, or counts few; it counts its numbers, and has  *)
(* numbers only when they were chosen.                                     *)
Agreed(s) ==
  /\ s.to # "Additional" => s.others = <<>>
  /\ s.to = "Additional" => s.counted = Len(s.others)
  /\ ~s.confirmed => s.counted < Many

SmsInv ==
  /\ SmsShape
  /\ telephoneRules <=> to = "Additional"
  /\ to # "Additional" => others = <<>>
  /\ confirmOpen => ToSet(others) \cap failed_numbers = {}
  /\ \A i \in DOMAIN sendings : Agreed(sendings[i])

LEMMA Counted ==
  ASSUME senders \subseteq Senders
  PROVE  /\ \A t : CountOf(t) \in Nat
         /\ Loaded \in [{"All", "Associated"} -> Nat]
<1>1. Cardinality(senders) \in Nat /\ Cardinality(Associated) \in Nat
  BY BroadcastAssumption, FS_Subset, FS_CardinalityType
<1>. QED
  BY <1>1 DEF CountOf, Loaded

(* The numbers that are not blank are some of those typed.                 *)
LEMMA PlacesOf ==
  ASSUME NEW o \in Typed
  PROVE  /\ clean_others(o) \subseteq 1..Len(o) /\ Len(o) \in Nat
         /\ o = <<>> => clean_others(o) = {}
<1>1. Len(o) \in Nat /\ DOMAIN o = 1..Len(o) /\ (o = <<>> => Len(o) = 0)
  BY DEF Typed
<1>2. clean_others(o) \subseteq DOMAIN o
  BY DEF clean_others
<1>. QED
  BY <1>1, <1>2

LEMMA NoNumbers == <<>> \in Typed /\ ToSet(<<>>) = {}
  BY DEF Typed, ToSet

LEMMA SmsInit == BroadcastInit => SmsInv
<1>. SUFFICES ASSUME BroadcastInit PROVE SmsInv
  OBVIOUS
<1>1. senders \subseteq Senders
  BY BroadcastAssumption DEF BroadcastInit
<1>2. counts \in [{"All", "Associated"} -> Nat]
  BY <1>1, Counted DEF BroadcastInit
<1>. QED
  BY <1>1, <1>2 DEF BroadcastInit, SmsInv, SmsShape, Tos, Typed

(* A request that is sent keeps the others, and is what the form says.     *)
LEMMA Sent ==
  ASSUME SmsInv, NEW c \in BOOLEAN, c \/ getPeopleNumber < Many, Send(c)
  PROVE  /\ sendings' \in Seq(Sendings)
         /\ \A i \in DOMAIN sendings' : Agreed(sendings'[i])
         /\ Len(sendings') = Len(sendings) + 1
<1> DEFINE n == Len(sendings)
           s == [to |-> to, others |-> others, awaited |-> TRUE, confirmed |-> c,
                 counted |-> getPeopleNumber]
           old == [i \in DOMAIN sendings |-> [sendings[i] EXCEPT !.awaited = FALSE]]
<1>1. /\ sendings \in Seq(Sendings) /\ n \in Nat /\ DOMAIN sendings = 1..n
      /\ \A i \in 1..n : sendings[i] \in Sendings /\ Agreed(sendings[i])
  BY DEF SmsInv, SmsShape
<1>2. getPeopleNumber \in Nat
  BY DEF SmsInv, SmsShape, getPeopleNumber, isAdditionalSelected, Tos, Typed
<1>3. s \in Sendings /\ Agreed(s)
  <2>1. s \in Sendings
    BY <1>2 DEF SmsInv, SmsShape, Sendings
  <2>2. s.to = to /\ s.others = others /\ s.confirmed = c /\ s.counted = getPeopleNumber
    OBVIOUS
  <2>. HIDE DEF s
  <2>3. to = "Additional" => getPeopleNumber = Len(others)
    BY DEF getPeopleNumber, isAdditionalSelected
  <2>. QED
    BY <2>1, <2>2, <2>3 DEF Agreed, SmsInv
<1>4. \A i \in 1..n : old[i] \in Sendings /\ Agreed(old[i])
  <2>. SUFFICES ASSUME NEW i \in 1..n PROVE old[i] \in Sendings /\ Agreed(old[i])
    OBVIOUS
  <2>1. sendings[i] \in Sendings /\ Agreed(sendings[i]) /\ old[i] = [sendings[i] EXCEPT !.awaited = FALSE]
    BY <1>1
  <2>2. old[i] \in Sendings /\ old[i].to = sendings[i].to /\ old[i].others = sendings[i].others
        /\ old[i].confirmed = sendings[i].confirmed /\ old[i].counted = sendings[i].counted
    BY <2>1 DEF Sendings
  <2>. HIDE DEF old
  <2>. QED
    BY <2>1, <2>2 DEF Agreed
<1>5. old \in Seq(Sendings) /\ Len(old) = n
  BY <1>1, <1>4
<1>6. sendings' = Append(old, s)
  BY DEF Send
<1>. HIDE DEF old, s
<1>7. sendings' \in Seq(Sendings) /\ Len(sendings') = n + 1
      /\ \A i \in 1..n+1 : sendings'[i] = IF i = n+1 THEN s ELSE old[i]
  BY <1>1, <1>3, <1>5, <1>6
<1>8. \A i \in 1..n+1 : Agreed(sendings'[i])
  BY <1>1, <1>3, <1>4, <1>7
<1>. QED
  BY <1>1, <1>7, <1>8

(* What the view sends.                                                    *)
LEMMA ViewSends ==
  ASSUME SmsInv, BroadcastMessage
  PROVE  SmsInv' /\ BulkConfirmed' /\ OthersOnlyWhenChosen' /\ Len(sendings') < Len(sendings)
<1>1. PICK i \in DOMAIN sendings : \E provider \in BOOLEAN, unreached \in SUBSET Hosted :
        LET s      == sendings[i]
            typed  == clean_others(s.others)
            called == {s.others[k] : k \in typed}
            failed == IF provider THEN (called \cap Hosted) \cup unreached ELSE {}
            good   == provider /\ failed = {}
        IN /\ unreached # {} => DataSendersOf(s.to) # {}
           /\ sent' = {[to |-> s.to, numbers |-> called, confirmed |-> s.confirmed,
                        people |-> Cardinality(DataSendersOf(s.to)) + Cardinality(typed),
                        grown |-> s.to # "Additional" /\ CountOf(s.to) > s.counted]}
           /\ sendings' = RemoveAt(sendings, i)
           /\ IF ~s.awaited
              THEN UNCHANGED <<formVarsB, counts, confirmOpen, failed_numbers>>
              ELSE /\ to' = IF good THEN "Associated" ELSE s.to
                   /\ others' = IF good THEN <<>> ELSE s.others
                   /\ text' = ~good
                   /\ telephoneRules' = (to' = "Additional")
                   /\ counts' = Loaded /\ confirmOpen' = FALSE
                   /\ failed_numbers' = failed
           /\ UNCHANGED senders
  BY DEF BroadcastMessage
<1> DEFINE s == sendings[i]
           typed == clean_others(s.others)
           called == {s.others[k] : k \in typed}
           people == Cardinality(DataSendersOf(s.to)) + Cardinality(typed)
           grown == s.to # "Additional" /\ CountOf(s.to) > s.counted
<1>2. \E good \in BOOLEAN :
        /\ sent' = {[to |-> s.to, numbers |-> called, confirmed |-> s.confirmed,
                     people |-> people, grown |-> grown]}
        /\ sendings' = RemoveAt(sendings, i)
        /\ IF ~s.awaited
           THEN UNCHANGED <<formVarsB, counts, confirmOpen, failed_numbers>>
           ELSE /\ to' = IF good THEN "Associated" ELSE s.to
                /\ others' = IF good THEN <<>> ELSE s.others
                /\ telephoneRules' = (to' = "Additional")
                /\ counts' = Loaded /\ confirmOpen' = FALSE
        /\ UNCHANGED senders
  BY <1>1
<1>3. PICK good \in BOOLEAN :
        /\ sent' = {[to |-> s.to, numbers |-> called, confirmed |-> s.confirmed,
                     people |-> people, grown |-> grown]}
        /\ sendings' = RemoveAt(sendings, i)
        /\ IF ~s.awaited
           THEN UNCHANGED <<formVarsB, counts, confirmOpen, failed_numbers>>
           ELSE /\ to' = IF good THEN "Associated" ELSE s.to
                /\ others' = IF good THEN <<>> ELSE s.others
                /\ telephoneRules' = (to' = "Additional")
                /\ counts' = Loaded /\ confirmOpen' = FALSE
        /\ UNCHANGED senders
  BY <1>2
<1>4. /\ sendings \in Seq(Sendings) /\ s \in Sendings /\ Agreed(s)
      /\ \A j \in DOMAIN sendings : Agreed(sendings[j])
  BY DEF SmsInv, SmsShape
<1>5. /\ s.to \in Tos /\ s.others \in Typed /\ s.counted \in Nat /\ s.confirmed \in BOOLEAN
  BY <1>4 DEF Sendings
<1>6. /\ sendings' \in Seq(Sendings) /\ Len(sendings') = Len(sendings) - 1
      /\ \A j \in DOMAIN sendings' : \E k \in DOMAIN sendings : sendings'[j] = sendings[k]
  <2> DEFINE a == SubSeq(sendings, 1, i-1)
             b == SubSeq(sendings, i+1, Len(sendings))
  <2>1. i \in 1..Len(sendings)
    BY <1>4
  <2>2. a \in Seq(Sendings) /\ Len(a) = i-1 /\ \A j \in 1..i-1 : a[j] = sendings[j]
    BY <1>4, <2>1
  <2>3. b \in Seq(Sendings) /\ Len(b) = Len(sendings) - i
        /\ \A j \in 1..Len(sendings)-i : b[j] = sendings[i+j]
    BY <1>4, <2>1
  <2>4. sendings' = a \o b
    BY <1>3 DEF RemoveAt
  <2>. HIDE DEF a, b
  <2>5. Len(sendings') = Len(sendings) - 1 /\ sendings' \in Seq(Sendings) /\ Len(sendings) \in Nat
    BY <2>1, <2>2, <2>3, <2>4, <1>4
  <2>6. ASSUME NEW j \in 1..Len(sendings)-1
        PROVE  \E k \in 1..Len(sendings) : sendings'[j] = sendings[k]
    <3>1. CASE j <= i-1
      <4>1. sendings'[j] = a[j] /\ j \in 1..i-1
        BY <2>1, <2>2, <2>3, <2>4, <2>5, <3>1
      <4>. QED
        BY <4>1, <2>1, <2>2, <2>5
    <3>2. CASE j > i-1
      <4>1. sendings'[j] = b[j-(i-1)] /\ j-(i-1) \in 1..Len(sendings)-i
        BY <2>1, <2>2, <2>3, <2>4, <2>5, <3>2
      <4>2. b[j-(i-1)] = sendings[i+(j-(i-1))] /\ i+(j-(i-1)) \in 1..Len(sendings)
        BY <4>1, <2>1, <2>3, <2>5
      <4>. QED
        BY <4>1, <4>2
    <3>. QED
      BY <2>1, <2>5, <3>1, <3>2
  <2>. QED
    BY <2>5, <2>6, <1>4
<1>7. Len(sendings') < Len(sendings)
  BY <1>4, <1>6
<1>8. BulkConfirmed'
  <2>1. DataSendersOf(s.to) \subseteq Senders /\ DataSendersOf(s.to) = IF s.to = "Additional" THEN {} ELSE
           IF s.to = "All" THEN senders ELSE Associated
    BY <1>5, BroadcastAssumption DEF DataSendersOf, Tos, SmsInv, SmsShape
  <2>2. Cardinality(DataSendersOf(s.to)) \in Nat /\ Cardinality({}) = 0
    BY <2>1, BroadcastAssumption, FS_Subset, FS_CardinalityType, FS_EmptySet
  <2>3. Cardinality(typed) \in Nat /\ Cardinality(typed) <= Len(s.others)
    <3>1. typed \subseteq 1..Len(s.others) /\ Len(s.others) \in Nat
      BY <1>5, PlacesOf
    <3>2. IsFiniteSet(1..Len(s.others)) /\ Cardinality(1..Len(s.others)) = Len(s.others)
      BY <3>1, FS_Interval
    <3>. QED
      BY <3>1, <3>2, FS_Subset, FS_CardinalityType
  <2>. HIDE DEF s, typed
  <2>4. CASE s.to = "Additional"
    <3>1. people <= s.counted
      BY <1>4, <2>1, <2>2, <2>3, <2>4 DEF Agreed
    <3>2. people >= Many => s.confirmed
      BY <1>4, <1>5, <2>2, <2>3, <3>1, BroadcastAssumption DEF Agreed
    <3>. QED
      BY <1>3, <3>2 DEF BulkConfirmed
  <2>5. CASE s.to # "Additional"
    <3>1. s.others = <<>> /\ Cardinality(typed) = 0
      BY <1>4, <2>3, <2>5 DEF Agreed
    <3>2. people = CountOf(s.to) /\ CountOf(s.to) \in Nat
      BY <1>5, <2>1, <2>2, <2>5, <3>1 DEF CountOf
    <3>3. ~grown /\ people >= Many => s.confirmed
      BY <1>4, <1>5, <2>5, <3>2, BroadcastAssumption DEF Agreed
    <3>. HIDE DEF people, grown, called
    <3>4. sent' = {[to |-> s.to, numbers |-> called, confirmed |-> s.confirmed,
                    people |-> people, grown |-> grown]}
      BY <1>3
    <3>. QED
      BY <3>3, <3>4 DEF BulkConfirmed
  <2>. QED
    BY <2>4, <2>5
<1>9. OthersOnlyWhenChosen'
  <2>1. s.to # "Additional" => called = {}
    <3>1. s.to # "Additional" => typed = {}
      BY <1>4, <1>5, PlacesOf DEF Agreed
    <3>. HIDE DEF typed
    <3>. QED
      BY <3>1
  <2>. HIDE DEF s, called
  <2>. QED
    BY <1>3, <2>1 DEF OthersOnlyWhenChosen
<1>10. SmsInv'
  <2>1. \A j \in DOMAIN sendings' : Agreed(sendings'[j])
    BY <1>4, <1>6
  <2>2. senders' \subseteq Senders /\ senders' = senders
    BY <1>3 DEF SmsInv, SmsShape
  <2>3. CASE ~s.awaited
    BY <1>3, <1>6, <2>1, <2>2, <2>3 DEF SmsInv, SmsShape, formVarsB
  <2>4. CASE s.awaited
    <3>1. Loaded \in [{"All", "Associated"} -> Nat]
      BY <2>2, Counted
    <3>2. to' \in Tos /\ others' \in Typed /\ (to' # "Additional" => others' = <<>>)
      <4>1. s.to # "Additional" => s.others = <<>>
        BY <1>4 DEF Agreed
      <4>. HIDE DEF s
      <4>2. CASE good
        BY <1>3, <2>4, <4>2, NoNumbers DEF Tos
      <4>3. CASE ~good
        BY <1>3, <1>5, <2>4, <4>1, <4>3
      <4>. QED
        BY <4>2, <4>3
    <3>. QED
      BY <1>3, <1>6, <2>1, <2>2, <2>4, <3>1, <3>2 DEF SmsInv, SmsShape
  <2>. QED
    BY <2>3, <2>4
<1>. QED
  BY <1>7, <1>8, <1>9, <1>10

LEMMA SmsStep ==
  ASSUME SmsInv, BroadcastNext
  PROVE  SmsInv' /\ BulkConfirmed' /\ OthersOnlyWhenChosen' /\ FailedNotRetried
<1>. USE DEF SmsInv, SmsShape, NothingSent, formVarsB
<1>1. sent' = {} => BulkConfirmed' /\ OthersOnlyWhenChosen'
  BY DEF BulkConfirmed, OthersOnlyWhenChosen
<1>2. sendings' = sendings => FailedNotRetried
  BY DEF FailedNotRetried
<1>3. CASE TypeText
  BY <1>1, <1>2, <1>3 DEF TypeText
<1>4. CASE TypeNumber
  <2>1. PICK x \in Line : others' = Append(others, x)
    BY <1>4 DEF TypeNumber, Line
  <2>2. others' \in Typed
    BY <2>1 DEF Typed
  <2>. QED
    <3>1. /\ ~confirmOpen /\ to = "Additional" /\ sent' = {}
          /\ UNCHANGED <<senders, to, counts, telephoneRules, confirmOpen, failed_numbers, sendings>>
      BY <1>4 DEF TypeNumber, isAdditionalSelected
    <3>. QED
      BY <1>1, <1>2, <3>1, <2>2
<1>5. CASE Clear
  BY <1>1, <1>2, <1>5, NoNumbers DEF Clear
<1>6. CASE ChooseTo
  <2>1. others' \in Typed /\ to' \in Tos /\ (to' # "Additional" => others' = <<>>)
        /\ (telephoneRules' <=> to' = "Additional")
    BY <1>6, NoNumbers DEF ChooseTo, Tos
  <2>2. UNCHANGED <<senders, counts, confirmOpen, failed_numbers, sendings>> /\ ~confirmOpen /\ sent' = {}
    BY <1>6 DEF ChooseTo
  <2>. QED
    BY <1>1, <1>2, <2>1, <2>2
<1>7. CASE SubmitMessage
  <2>1. ToSet(others) \cap failed_numbers = {}
    <3>1. CASE telephoneRules
      BY <1>7, <3>1 DEF SubmitMessage, NumbersValid
    <3>2. CASE ~telephoneRules
      BY <3>2 DEF ToSet
    <3>. QED
      BY <3>1, <3>2
  <2>2. CASE getPeopleNumber >= Many
    BY <1>1, <1>2, <1>7, <2>1, <2>2 DEF SubmitMessage
  <2>3. CASE ~(getPeopleNumber >= Many)
    <3>1. getPeopleNumber < Many
      BY <2>3, BroadcastAssumption DEF getPeopleNumber, isAdditionalSelected, Tos, Typed
    <3>2. Send(FALSE) /\ UNCHANGED <<senders, formVarsB, counts, failed_numbers, confirmOpen>> /\ sent' = {}
      BY <1>7, <2>3 DEF SubmitMessage
    <3>3. sendings' \in Seq(Sendings) /\ \A i \in DOMAIN sendings' : Agreed(sendings'[i])
      BY <3>1, <3>2, Sent
    <3>. QED
      BY <1>1, <2>1, <3>2, <3>3 DEF FailedNotRetried
  <2>. QED
    BY <2>2, <2>3
<1>8. CASE Continue
  <2>1. confirmOpen /\ Send(TRUE) /\ UNCHANGED <<senders, formVarsB, counts, failed_numbers>>
        /\ sent' = {} /\ confirmOpen' = FALSE
    BY <1>8 DEF Continue
  <2>2. sendings' \in Seq(Sendings) /\ \A i \in DOMAIN sendings' : Agreed(sendings'[i])
    BY <2>1, Sent
  <2>. QED
    BY <1>1, <2>1, <2>2 DEF FailedNotRetried
<1>9. CASE DismissConfirm
  BY <1>1, <1>2, <1>9 DEF DismissConfirm
<1>10. CASE BroadcastMessage
  <2>1. SmsInv' /\ BulkConfirmed' /\ OthersOnlyWhenChosen' /\ Len(sendings') < Len(sendings)
    BY <1>10, ViewSends
  <2>2. Len(sendings) \in Nat /\ Len(sendings') \in Nat
    BY <2>1
  <2>. QED
    BY <2>1, <2>2 DEF FailedNotRetried
<1>11. CASE SendersChange
  <2>1. senders' \subseteq Senders
    BY <1>11, BroadcastAssumption DEF SendersChange
  <2>. QED
    BY <1>1, <1>2, <1>11, <2>1 DEF SendersChange
<1>. QED
  BY <1>3, <1>4, <1>5, <1>6, <1>7, <1>8, <1>9, <1>10, <1>11 DEF BroadcastNext

(* broadcast_sms.js and the view: a large sending was confirmed, numbers   *)
(* are called only when they were chosen, a failed one once.               *)
THEOREM SentOnlyAsAgreed == BroadcastSpec => SentAsAgreed
<1>1. SmsInv /\ [BroadcastNext]_broadcastVars => SmsInv'
  <2>. SUFFICES ASSUME SmsInv, [BroadcastNext]_broadcastVars PROVE SmsInv'
    OBVIOUS
  <2>1. CASE UNCHANGED broadcastVars
    BY <2>1 DEF broadcastVars, SmsInv, SmsShape
  <2>. QED
    BY <2>1, SmsStep
<1>2. SmsInv /\ [BroadcastNext]_broadcastVars
        => [BulkConfirmed' /\ OthersOnlyWhenChosen' /\ FailedNotRetried]_broadcastVars
  BY SmsStep
<1>. QED
  BY <1>1, <1>2, SmsInit, PTL DEF BroadcastSpec, SentAsAgreed

-----------------------------------------------------------------------------
(***************************************************************************)
(* ImportPopup.  The state has its shape.                                  *)
(***************************************************************************)
Files == 1..MaxFiles

ImportShape ==
  /\ importKind \in {"submissions", "senders", "things"}
  /\ popup \in BOOLEAN /\ importBlocked \in BOOLEAN
  /\ chosen \in 0..MaxFiles /\ listed \in 0..chosen /\ filesInProgress \in 0..chosen
  /\ queue \in Seq(Files) /\ ToSet(queue) \subseteq 1..chosen /\ IsInjective(queue)
  /\ sending \subseteq 1..chosen /\ dropped \subseteq 1..chosen /\ unseen \subseteq 1..chosen
  /\ successOf \in 0..chosen /\ errorsOf \in 0..chosen
  /\ outcome = {} \/ \E o : outcome = {o}

(* What is queued beyond the connections.                                  *)
WaitingAt == {j \in DOMAIN queue : j > maxConnections}
Waiting   == {queue[j] : j \in WaitingAt}

(* Nothing is queued but the file that is awaited and those forgotten; a   *)
(* file waits or is sent, and it counts.                                   *)
QueueInv ==
  /\ ToSet(queue) \subseteq dropped \cup (IF importBlocked THEN {listed} ELSE {})
  /\ listed \in sending => importBlocked /\ listed \in ToSet(queue)
  /\ sending \cap Waiting = {}
  /\ Cardinality(sending \cup Waiting) <= filesInProgress

(* What is shown; the dialog of submissions shows nothing while it waits,  *)
(* and the one of subjects keeps its results while it is closed.           *)
ResultsMatch == \A o \in outcome :
  /\ o.of = listed
  /\ errorsOf \in {0, o.of}
  /\ successOf \in {0, o.of} \/ (importKind = "senders" /\ o.lost)

OutcomeInv ==
  /\ importKind = "submissions" /\ popup /\ importBlocked =>
       outcome = {} /\ successOf = 0 /\ errorsOf = 0
  /\ ~importBlocked /\ (popup \/ importKind = "things") => ResultsMatch
  /\ popup /\ importKind # "submissions" /\ outcome = {} /\ filesInProgress = 0 => unseen = {}

ImportInv == ImportShape /\ QueueInv /\ BlockedWhileSending /\ OutcomeInv

LEMMA FileSets ==
  ASSUME NEW n \in Nat, NEW S \in SUBSET (1..n)
  PROVE  IsFiniteSet(S) /\ Cardinality(S) \in Nat
<1>1. IsFiniteSet(1..n)
  BY FS_Interval
<1>. QED
  BY <1>1, FS_Subset, FS_CardinalityType

LEMMA EmptyQueue == <<>> \in Seq(Files) /\ ToSet(<<>>) = {} /\ IsInjective(<<>>) /\ DOMAIN <<>> = {}
  BY DEF ToSet, IsInjective

(* A page that was just loaded.                                            *)
LEMMA FreshPage ==
  ASSUME importKind \in {"submissions", "senders", "things"},
         popup = FALSE, chosen = 0, queue = <<>>, sending = {}, listed = 0,
         filesInProgress = 0, importBlocked = FALSE, outcome = {},
         successOf = 0, errorsOf = 0, dropped = {}, unseen = {}
  PROVE  ImportInv
<1>1. WaitingAt = {} /\ Waiting = {}
  BY EmptyQueue DEF WaitingAt, Waiting
<1>2. ImportShape
  <2>1. queue \in Seq(Files) /\ ToSet(queue) \subseteq 1..chosen /\ IsInjective(queue)
    BY EmptyQueue
  <2>2. chosen \in 0..MaxFiles /\ listed \in 0..chosen /\ filesInProgress \in 0..chosen
        /\ successOf \in 0..chosen /\ errorsOf \in 0..chosen
    BY ImportAssumption
  <2>3. sending \subseteq 1..chosen /\ dropped \subseteq 1..chosen /\ unseen \subseteq 1..chosen
    OBVIOUS
  <2>. QED
    BY <2>1, <2>2, <2>3 DEF ImportShape
<1>3. QueueInv
  BY <1>1, EmptyQueue, FS_EmptySet DEF QueueInv
<1>4. BlockedWhileSending /\ OutcomeInv
  BY DEF BlockedWhileSending, OutcomeInv, ResultsMatch
<1>. QED
  BY <1>2, <1>3, <1>4 DEF ImportInv

(* The file leaves the queue, and the first that waits is sent.            *)
LEMMA Dequeued ==
  ASSUME ImportInv, NEW id \in ToSet(queue), dequeue(id)
  PROVE  /\ queue' \in Seq(Files) /\ IsInjective(queue')
         /\ ToSet(queue') \subseteq ToSet(queue) \ {id}
         /\ sending' \cup Waiting' \subseteq (sending \cup Waiting) \ {id}
         /\ sending' \cap Waiting' = {}
<1> DEFINE i == CHOOSE k \in DOMAIN queue : queue[k] = id
           n == Len(queue)
           rest == RemoveAt(queue, i)
           next == IF Len(rest) >= maxConnections /\ i <= maxConnections
                   THEN {rest[maxConnections]} ELSE {}
<1>1. queue \in Seq(Files) /\ n \in Nat /\ DOMAIN queue = 1..n /\ maxConnections \in Nat \ {0}
      /\ \A j, k \in 1..n : queue[j] = queue[k] => j = k
  BY ImportAssumption DEF ImportInv, ImportShape, IsInjective
<1>2. i \in 1..n /\ queue[i] = id
  <2>1. \E k \in DOMAIN queue : queue[k] = id
    BY DEF ToSet
  <2>. QED
    BY <2>1, <1>1
<1>3. queue' = rest /\ sending' = (sending \ {id}) \cup next
  BY DEF dequeue
<1>. HIDE DEF i
<1>4. rest \in Seq(Files) /\ Len(rest) = n-1
      /\ \A j \in 1..n-1 : rest[j] = IF j < i THEN queue[j] ELSE queue[j+1]
  BY <1>1, <1>2, TakenOut
<1>. HIDE DEF rest, n
<1>5. DOMAIN rest = 1..n-1
  BY <1>1, <1>2, <1>4
<1>6. ASSUME NEW j \in 1..n-1
      PROVE  \E k \in 1..n : k # i /\ rest[j] = queue[k] /\ k \in {j, j+1} /\ (j >= i => k = j+1)
                             /\ (j < i => k = j)
  <2>1. CASE j < i
    BY <1>1, <1>2, <1>4, <2>1
  <2>2. CASE ~(j < i)
    <3>1. j+1 \in 1..n /\ j+1 # i /\ rest[j] = queue[j+1] /\ j >= i
      BY <1>1, <1>2, <1>4, <2>2
    <3>. QED
      BY <3>1, <2>2
  <2>. QED
    BY <2>1, <2>2
<1>7. \A j \in 1..n-1 : rest[j] # id /\ rest[j] \in ToSet(queue)
  BY <1>1, <1>2, <1>6 DEF ToSet
<1>8. IsInjective(rest)
  <2>. SUFFICES ASSUME NEW j \in 1..n-1, NEW k \in 1..n-1, rest[j] = rest[k] PROVE j = k
    BY <1>5 DEF IsInjective
  <2>1. PICK jj \in 1..n : rest[j] = queue[jj] /\ (j >= i => jj = j+1) /\ (j < i => jj = j)
    BY <1>6
  <2>2. PICK kk \in 1..n : rest[k] = queue[kk] /\ (k >= i => kk = k+1) /\ (k < i => kk = k)
    BY <1>6
  <2>3. jj = kk
    BY <1>1, <2>1, <2>2
  <2>. QED
    BY <1>1, <1>2, <2>1, <2>2, <2>3
<1>9. ASSUME NEW j \in 1..n-1, j > maxConnections \/ (j = maxConnections /\ i <= maxConnections)
      PROVE  rest[j] \in Waiting
  <2>1. PICK k \in 1..n : rest[j] = queue[k] /\ k \in {j, j+1} /\ (j >= i => k = j+1)
    BY <1>6
  <2>2. k > maxConnections
    BY <1>1, <1>2, <1>9, <2>1
  <2>. QED
    BY <1>1, <2>1, <2>2 DEF Waiting, WaitingAt
<1>10. \A x \in Waiting' : x # id /\ x \in Waiting /\ x \notin next
  <2>. SUFFICES ASSUME NEW x \in Waiting' PROVE x # id /\ x \in Waiting /\ x \notin next
    OBVIOUS
  <2>1. PICK j \in 1..n-1 : j > maxConnections /\ x = rest[j]
    BY <1>3, <1>5 DEF Waiting, WaitingAt
  <2>2. x \notin next
    <3>1. Len(rest) >= maxConnections => maxConnections \in 1..n-1 /\ rest[maxConnections] # rest[j]
      BY <1>1, <1>4, <1>5, <1>8, <2>1 DEF IsInjective
    <3>. QED
      BY <3>1, <2>1
  <2>. QED
    BY <1>7, <1>9, <2>1, <2>2
<1>11. \A x \in next : x # id /\ x \in Waiting
  <2>1. Len(rest) >= maxConnections => maxConnections \in 1..n-1
    BY <1>1, <1>4
  <2>. QED
    BY <1>7, <1>9, <2>1
<1>12. sending \cap Waiting = {}
  BY DEF ImportInv, QueueInv
<1>. HIDE DEF next
<1>13. ToSet(queue') \subseteq ToSet(queue) \ {id}
  BY <1>3, <1>5, <1>7 DEF ToSet
<1>. QED
  BY <1>3, <1>4, <1>8, <1>10, <1>11, <1>12, <1>13

(* When nothing is awaited the queue is not longer than what was dropped.  *)
LEMMA QueueIsDropped ==
  ASSUME ImportInv, ~importBlocked
  PROVE  Len(queue) <= Cardinality(dropped)
<1>1. queue \in Seq(Files) /\ Len(queue) \in Nat /\ DOMAIN queue = 1..Len(queue) /\ IsInjective(queue)
      /\ ToSet(queue) \subseteq dropped
  BY DEF ImportInv, ImportShape, QueueInv
<1>2. queue \in [1..Len(queue) -> dropped]
  BY <1>1 DEF ToSet
<1>3. queue \in Injection(1..Len(queue), dropped)
  BY <1>1, <1>2 DEF Injection
<1>4. IsFiniteSet(dropped)
  <2>1. chosen \in Nat /\ dropped \in SUBSET (1..chosen)
    BY ImportAssumption DEF ImportInv, ImportShape
  <2>. QED
    BY <2>1, FileSets
<1>5. Cardinality(1..Len(queue)) = Len(queue)
  BY <1>1, FS_Interval
<1>. QED
  BY <1>3, <1>4, <1>5, FS_Injection

(* More files are chosen.                                                  *)
LEMMA FilesChosen ==
  ASSUME ImportInv, ChooseFiles
  PROVE  ImportInv'
<1>1. PICK n \in 1..(MaxFiles - chosen) :
        LET added == [i \in 1..n |-> chosen + i]
        IN /\ popup /\ ~importBlocked /\ ~uploaderGone
           /\ chosen' = chosen + n /\ listed' = chosen + n
           /\ queue' = queue \o added
           /\ sending' = sending \cup
                {added[i] : i \in {j \in 1..n : Len(queue) + j <= maxConnections}}
           /\ filesInProgress' = filesInProgress + n
           /\ importBlocked' = TRUE
           /\ dropped' = dropped \cup {added[i] : i \in 1..(n - 1)}
           /\ IF importKind = "submissions" THEN NothingShown ELSE NothingToldYet
           /\ UNCHANGED <<importKind, popup, uploaderGone, unseen>>
  BY DEF ChooseFiles
<1> DEFINE added == [i \in 1..n |-> chosen + i]
           l == Len(queue)
<1>2. /\ n \in Nat \ {0} /\ chosen \in Nat /\ l \in Nat /\ chosen + n <= MaxFiles /\ MaxFiles \in Nat
      /\ maxConnections \in Nat \ {0} /\ queue \in Seq(Files) /\ DOMAIN queue = 1..l
      /\ ToSet(queue) \subseteq 1..chosen /\ ToSet(queue) \subseteq dropped
      /\ filesInProgress \in 0..chosen
      /\ sending \subseteq 1..chosen /\ dropped \subseteq 1..chosen
  BY <1>1, ImportAssumption DEF ImportInv, ImportShape, QueueInv
<1>3. added \in Seq(Files) /\ Len(added) = n /\ \A i \in 1..n : added[i] = chosen + i
  <2>1. \A i \in 1..n : chosen + i \in Files
    BY <1>2 DEF Files
  <2>2. n \in Nat
    BY <1>2
  <2>3. added \in Seq(Files) /\ Len(added) = n
    BY <2>1, <2>2
  <2>. QED
    BY <2>3
<1>4. queue' = queue \o added
  BY <1>1
<1>. HIDE DEF added, l
<1>5. queue' \in Seq(Files) /\ Len(queue') = l + n /\ DOMAIN queue' = 1..(l+n)
  <2>1. queue' \in Seq(Files) /\ Len(queue') = l + n
    <3>1. queue \in Seq(Files) /\ added \in Seq(Files) /\ Len(added) = n /\ Len(queue) = l
      BY <1>2, <1>3 DEF l
    <3>. QED
      BY <1>4, <3>1, Joined
  <2>. QED
    BY <2>1
<1>6. /\ \A i \in 1..l : queue'[i] = queue[i]
      /\ \A i \in (l+1)..(l+n) : queue'[i] = chosen + (i - l)
  <2>1. \A i \in 1..l : queue'[i] = queue[i]
    BY <1>2, <1>3, <1>4 DEF l
  <2>2. ASSUME NEW i \in (l+1)..(l+n) PROVE queue'[i] = chosen + (i - l)
    <3>1. i - l \in 1..n /\ i \in 1..(l+n) /\ i > l
      BY <1>2
    <3>2. queue'[i] = added[i - l]
      BY <1>2, <1>3, <1>4, <3>1 DEF l
    <3>. QED
      BY <1>3, <3>1, <3>2
  <2>. QED
    BY <2>1, <2>2
<1>7. \A i \in 1..l : queue[i] \in 1..chosen /\ queue[i] \in dropped
  BY <1>2 DEF ToSet
<1>8. IsInjective(queue')
  <2>. SUFFICES ASSUME NEW i \in 1..(l+n), NEW j \in 1..(l+n), queue'[i] = queue'[j] PROVE i = j
    BY <1>5 DEF IsInjective
  <2>1. CASE i <= l /\ j <= l
    <3>1. i \in 1..l /\ j \in 1..l
      BY <1>2, <2>1
    <3>. QED
      BY <1>2, <1>6, <3>1 DEF ImportInv, ImportShape, IsInjective
  <2>2. CASE i <= l /\ j > l
    <3>1. i \in 1..l /\ j \in (l+1)..(l+n)
      BY <1>2, <2>2
    <3>. QED
      BY <1>2, <1>6, <1>7, <3>1
  <2>3. CASE i > l /\ j <= l
    <3>1. j \in 1..l /\ i \in (l+1)..(l+n)
      BY <1>2, <2>3
    <3>. QED
      BY <1>2, <1>6, <1>7, <3>1
  <2>4. CASE i > l /\ j > l
    <3>1. j \in (l+1)..(l+n) /\ i \in (l+1)..(l+n)
      BY <1>2, <2>4
    <3>. QED
      BY <1>2, <1>6, <3>1
  <2>. QED
    BY <1>2, <2>1, <2>2, <2>3, <2>4
<1>9. dropped' = dropped \cup ((chosen+1)..(chosen+(n-1)))
  <2>1. {added[i] : i \in 1..(n-1)} = (chosen+1)..(chosen+(n-1))
    <3>1. \A i \in 1..(n-1) : added[i] = chosen + i
      BY <1>2, <1>3
    <3>2. \A x \in (chosen+1)..(chosen+(n-1)) : x - chosen \in 1..(n-1) /\ added[x - chosen] = x
      BY <1>2, <1>3
    <3>. QED
      BY <1>2, <3>1, <3>2
  <2>. QED
    BY <1>1, <2>1 DEF added
<1>10. sending' = sending \cup {chosen + i : i \in {j \in 1..n : l + j <= maxConnections}}
  <2>1. sending' = sending \cup {added[i] : i \in {j \in 1..n : l + j <= maxConnections}}
    BY <1>1 DEF added, l
  <2>. QED
    BY <1>3, <2>1
<1>11. \A x \in Waiting' : x \in Waiting \/ \E i \in 1..n : x = chosen + i /\ l + i > maxConnections
  <2>. SUFFICES ASSUME NEW x \in Waiting'
                PROVE  x \in Waiting \/ \E i \in 1..n : x = chosen + i /\ l + i > maxConnections
    OBVIOUS
  <2>1. PICK j \in 1..(l+n) : j > maxConnections /\ x = queue'[j]
    BY <1>5 DEF Waiting, WaitingAt
  <2>2. CASE j <= l
    BY <1>2, <1>6, <2>1, <2>2 DEF Waiting, WaitingAt
  <2>3. CASE j > l
    <3>1. j - l \in 1..n /\ j \in (l+1)..(l+n) /\ l + (j - l) > maxConnections
      BY <1>2, <2>1, <2>3
    <3>. QED
      BY <1>6, <2>1, <3>1
  <2>. QED
    BY <1>2, <2>2, <2>3
<1>12. Waiting \subseteq 1..chosen /\ sending \cap Waiting = {}
       /\ Cardinality(sending \cup Waiting) <= filesInProgress
  BY <1>2, <1>7 DEF Waiting, WaitingAt, ImportInv, QueueInv
<1>13. ImportShape'
  <2>1. ToSet(queue') \subseteq 1..chosen'
    <3>1. \A i \in 1..(l+n) : queue'[i] \in 1..(chosen + n)
      <4>. SUFFICES ASSUME NEW i \in 1..(l+n) PROVE queue'[i] \in 1..(chosen + n)
        OBVIOUS
      <4>1. CASE i \in 1..l
        BY <1>2, <1>6, <1>7, <4>1
      <4>2. CASE i \in (l+1)..(l+n)
        BY <1>2, <1>6, <4>2
      <4>. QED
        BY <1>2, <4>1, <4>2
    <3>. QED
      BY <1>1, <1>5, <3>1 DEF ToSet
  <2>2. sending' \subseteq 1..chosen' /\ dropped' \subseteq 1..chosen' /\ unseen' \subseteq 1..chosen'
    <3>1. \A i \in 1..n : chosen + i \in 1..(chosen+n)
      BY <1>2
    <3>2. (1..chosen) \subseteq 1..(chosen+n) /\ (chosen+1)..(chosen+(n-1)) \subseteq 1..(chosen+n)
      BY <1>2
    <3>3. unseen' = unseen /\ unseen \subseteq 1..chosen /\ chosen' = chosen+n
      BY <1>1 DEF ImportInv, ImportShape
    <3>. QED
      BY <1>2, <1>9, <1>10, <3>1, <3>2, <3>3
  <2>3. successOf' \in 0..chosen' /\ errorsOf' \in 0..chosen' /\ (outcome' = {} \/ \E o : outcome' = {o})
    <3>1. chosen' = chosen + n /\ (NothingShown \/ NothingToldYet)
      BY <1>1
    <3>2. successOf \in 0..chosen /\ errorsOf \in 0..chosen /\ (outcome = {} \/ \E o : outcome = {o})
      BY DEF ImportInv, ImportShape
    <3>3. CASE NothingShown
      BY <1>2, <3>1, <3>3 DEF NothingShown
    <3>4. CASE NothingToldYet
      BY <1>2, <3>1, <3>2, <3>4 DEF NothingToldYet
    <3>. QED
      BY <3>1, <3>3, <3>4
  <2>4. chosen' \in 0..MaxFiles /\ listed' \in 0..chosen' /\ filesInProgress' \in 0..chosen'
    BY <1>1, <1>2
  <2>. QED
    BY <1>1, <1>5, <1>8, <2>1, <2>2, <2>3, <2>4 DEF ImportInv, ImportShape
<1>14. QueueInv'
  <2>1. ToSet(queue') \subseteq dropped' \cup {listed'}
    <3>1. \A i \in 1..(l+n) : queue'[i] \in dropped' \cup {listed'}
      <4>. SUFFICES ASSUME NEW i \in 1..(l+n) PROVE queue'[i] \in dropped' \cup {listed'}
        OBVIOUS
      <4>1. CASE i \in 1..l
        BY <1>6, <1>7, <1>9, <4>1
      <4>2. CASE i \in (l+1)..(l+n)
        <5>1. queue'[i] = chosen + (i-l) /\ listed' = chosen + n /\ i - l \in 1..n
          BY <1>1, <1>2, <1>6, <4>2
        <5>2. CASE i - l = n
          BY <5>1, <5>2
        <5>3. CASE i - l # n
          <6>1. chosen + (i-l) \in (chosen+1)..(chosen+(n-1))
            BY <1>2, <5>1, <5>3
          <6>. QED
            BY <1>9, <5>1, <6>1
        <5>. QED
          BY <5>2, <5>3
      <4>. QED
        BY <1>2, <4>1, <4>2
    <3>. QED
      BY <1>5, <3>1 DEF ToSet
  <2>2. listed' \in ToSet(queue')
    <3>1. l+n \in 1..(l+n) /\ l+n \in (l+1)..(l+n) /\ (l+n)-l = n
      BY <1>2
    <3>2. queue'[l+n] = listed'
      BY <1>1, <1>6, <3>1
    <3>. QED
      BY <1>5, <3>1, <3>2 DEF ToSet
  <2>3. sending' \cap Waiting' = {}
    <3>. SUFFICES ASSUME NEW x \in Waiting', x \in sending' PROVE FALSE
      OBVIOUS
    <3>1. x \in Waiting \/ \E i \in 1..n : x = chosen + i /\ l + i > maxConnections
      BY <1>11
    <3>2. x \in sending \/ \E i \in 1..n : x = chosen + i /\ l + i <= maxConnections
      BY <1>10
    <3>3. x \in Waiting => x \in 1..chosen /\ x \notin sending
      BY <1>12
    <3>4. x \in sending => x \in 1..chosen /\ x \notin Waiting
      BY <1>2, <1>12
    <3>5. \A i \in 1..n : chosen + i \notin 1..chosen
      BY <1>2
    <3>6. \A i, j \in 1..n : chosen + i = chosen + j => i = j
      BY <1>2
    <3>7. \A i \in 1..n : ~(l + i > maxConnections /\ l + i <= maxConnections)
      BY <1>2
    <3>. QED
      BY <3>1, <3>2, <3>3, <3>4, <3>5, <3>6, <3>7
  <2>4. Cardinality(sending' \cup Waiting') <= filesInProgress'
    <3> DEFINE old == sending \cup Waiting
               more == (chosen+1)..(chosen+n)
    <3>1. sending' \cup Waiting' \subseteq old \cup more
      BY <1>2, <1>10, <1>11
    <3>2. IsFiniteSet(old) /\ Cardinality(old) \in Nat
      <4>1. old \in SUBSET (1..chosen)
        BY <1>2, <1>12
      <4>. QED
        BY <1>2, <4>1, FileSets
    <3>3. IsFiniteSet(more) /\ Cardinality(more) = n
      BY <1>2, FS_Interval
    <3>4. IsFiniteSet(old \cup more) /\ IsFiniteSet(old \cap more)
          /\ Cardinality(old \cup more) = Cardinality(old) + n - Cardinality(old \cap more)
      <4>. HIDE DEF old, more
      <4>. QED
        BY <3>2, <3>3, FS_Union, FS_Intersection
    <3>5. Cardinality(old \cap more) \in Nat
      BY <3>4, FS_CardinalityType
    <3>6. Cardinality(sending' \cup Waiting') <= Cardinality(old \cup more)
          /\ Cardinality(sending' \cup Waiting') \in Nat
      <4>. HIDE DEF old, more
      <4>. QED
        BY <3>1, <3>4, FS_Subset, FS_CardinalityType
    <3>7. Cardinality(old) <= filesInProgress /\ filesInProgress' = filesInProgress + n /\ filesInProgress \in Int
      BY <1>1, <1>2, <1>12
    <3>8. Cardinality(old \cup more) \in Nat
      BY <3>4, FS_CardinalityType
    <3>. HIDE DEF old, more
    <3>. QED
      BY <1>2, <3>2, <3>4, <3>5, <3>6, <3>7, <3>8
  <2>. QED
    BY <1>1, <2>1, <2>2, <2>3, <2>4 DEF QueueInv
<1>15. BlockedWhileSending'
  <2>. SUFFICES ASSUME Cardinality(dropped') < maxConnections PROVE listed' \in sending'
    BY DEF BlockedWhileSending
  <2> DEFINE more == (chosen+1)..(chosen+(n-1))
  <2>1. IsFiniteSet(dropped) /\ Cardinality(dropped) \in Nat
    BY <1>2, FileSets
  <2>2. IsFiniteSet(more) /\ Cardinality(more) = n-1
    BY <1>2, FS_Interval
  <2>3. dropped \cap more = {} /\ dropped' = dropped \cup more
    BY <1>2, <1>9
  <2>. HIDE DEF more
  <2>4. Cardinality(dropped') = Cardinality(dropped) + (n-1)
    <3>1. Cardinality(dropped \cup more)
            = Cardinality(dropped) + Cardinality(more) - Cardinality(dropped \cap more)
      BY <2>1, <2>2, FS_Union
    <3>2. Cardinality(dropped \cap more) = 0
      BY <2>3, FS_EmptySet
    <3>. QED
      BY <1>2, <2>1, <2>2, <2>3, <3>1, <3>2
  <2>5. l <= Cardinality(dropped)
    BY <1>1, QueueIsDropped DEF l
  <2>6. l + n <= maxConnections
    BY <1>2, <2>1, <2>4, <2>5
  <2>. QED
    BY <1>1, <1>2, <1>10, <2>6
<1>16. OutcomeInv'
  <2>1. importBlocked' = TRUE /\ importKind' = importKind
    BY <1>1
  <2>2. importKind = "submissions" => NothingShown
    BY <1>1
  <2>3. filesInProgress' # 0
    BY <1>1, <1>2
  <2>. QED
    BY <2>1, <2>2, <2>3 DEF OutcomeInv, NothingShown
<1>. QED
  BY <1>13, <1>14, <1>15, <1>16 DEF ImportInv

LEMMA UnderWay ==
  ASSUME ImportInv
  PROVE  /\ IsFiniteSet(sending \cup Waiting) /\ Cardinality(sending \cup Waiting) \in Nat
         /\ chosen \in Nat /\ filesInProgress \in Nat
         /\ sending # {} => filesInProgress > 0
<1>1. chosen \in Nat /\ filesInProgress \in Nat /\ sending \cup Waiting \in SUBSET (1..chosen)
  <2>1. chosen \in Nat /\ filesInProgress \in Nat /\ sending \subseteq 1..chosen /\ ToSet(queue) \subseteq 1..chosen
    BY ImportAssumption DEF ImportInv, ImportShape
  <2>2. Waiting \subseteq ToSet(queue)
    BY DEF Waiting, WaitingAt, ToSet
  <2>. QED
    BY <2>1, <2>2
<1>2. IsFiniteSet(sending \cup Waiting) /\ Cardinality(sending \cup Waiting) \in Nat
  BY <1>1, FileSets
<1>3. sending # {} => Cardinality(sending \cup Waiting) # 0
  BY <1>2, FS_EmptySet
<1>. QED
  BY <1>1, <1>2, <1>3 DEF ImportInv, QueueInv

(* The dialog opens, and is closed.                                        *)
LEMMA PopupOpened ==
  ASSUME ImportInv, OpenPopup
  PROVE  ImportInv'
<1>1. /\ ~importBlocked /\ popup' = TRUE /\ unseen' = {}
      /\ UNCHANGED <<importKind, chosen, sending, filesInProgress, importBlocked, dropped>>
  BY DEF OpenPopup
<1>2. CASE importKind = "submissions"
  <2>1. queue' = <<>> /\ listed' = 0 /\ outcome' = {} /\ successOf' = 0 /\ errorsOf' = 0
    BY <1>2 DEF OpenPopup, NothingShown, NewUploader
  <2>2. Waiting' = {} /\ queue' \in Seq(Files) /\ ToSet(queue') = {} /\ IsInjective(queue')
    BY <2>1, EmptyQueue DEF Waiting, WaitingAt
  <2>3. chosen \in Nat /\ sending \subseteq 1..chosen
    BY ImportAssumption DEF ImportInv, ImportShape
  <2>4. ImportShape'
    BY <1>1, <2>1, <2>2, <2>3 DEF ImportInv, ImportShape
  <2>5. QueueInv'
    <3>1. Cardinality(sending' \cup Waiting') <= filesInProgress'
      <4>1. sending' \cup Waiting' \in SUBSET (sending \cup Waiting)
        BY <1>1, <2>2
      <4>2. Cardinality(sending' \cup Waiting') <= Cardinality(sending \cup Waiting)
            /\ Cardinality(sending' \cup Waiting') \in Nat
        BY <4>1, UnderWay, FS_Subset, FS_CardinalityType
      <4>. QED
        BY <1>1, <4>2, UnderWay DEF ImportInv, QueueInv
    <3>2. listed' \notin sending'
      BY <1>1, <2>1, <2>3
    <3>. QED
      BY <2>2, <3>1, <3>2 DEF QueueInv
  <2>6. BlockedWhileSending' /\ OutcomeInv'
    BY <1>1, <2>1 DEF BlockedWhileSending, OutcomeInv, ResultsMatch
  <2>. QED
    BY <2>4, <2>5, <2>6 DEF ImportInv
<1>3. CASE importKind # "submissions"
  <2>1. UNCHANGED <<queue, listed>>
    BY <1>3 DEF OpenPopup
  <2>2. CASE importKind = "things"
    <3>1. UNCHANGED <<outcome, successOf, errorsOf>>
      BY <2>2 DEF OpenPopup, NothingToldYet
    <3>. QED
      BY <1>1, <2>1, <2>2, <3>1 DEF ImportInv, ImportShape, QueueInv, Waiting, WaitingAt,
         BlockedWhileSending, OutcomeInv, ResultsMatch
  <2>3. CASE importKind # "things"
    <3>1. outcome' = {} /\ successOf' = 0 /\ errorsOf' = 0 /\ chosen \in Nat
      BY <2>3, ImportAssumption DEF OpenPopup, NothingShown, ImportInv, ImportShape
    <3>2. ImportShape'
      BY <1>1, <2>1, <3>1 DEF ImportInv, ImportShape
    <3>3. QueueInv' /\ BlockedWhileSending' /\ OutcomeInv'
      BY <1>1, <2>1, <1>3, <3>1 DEF ImportInv, QueueInv, Waiting, WaitingAt,
         BlockedWhileSending, OutcomeInv, ResultsMatch
    <3>. QED
      BY <3>2, <3>3 DEF ImportInv
  <2>. QED
    BY <2>2, <2>3
<1>. QED
  BY <1>2, <1>3

LEMMA PopupLeft ==
  ASSUME ImportInv, ClosePopup
  PROVE  ImportInv' /\ ListLoadedAgain
<1>1. CASE PageLoaded
  <2>1. ImportInv'
    <3>1. /\ importKind' \in {"submissions", "senders", "things"}
          /\ popup' = FALSE /\ chosen' = 0 /\ queue' = <<>> /\ sending' = {} /\ listed' = 0
          /\ filesInProgress' = 0 /\ importBlocked' = FALSE /\ outcome' = {}
          /\ successOf' = 0 /\ errorsOf' = 0 /\ dropped' = {} /\ unseen' = {}
      BY <1>1 DEF PageLoaded, NewUploader, NothingShown, ImportInv, ImportShape
    <3>2. WaitingAt' = {} /\ Waiting' = {}
      BY <3>1, EmptyQueue DEF WaitingAt, Waiting
    <3>3. ImportShape'
      <4>1. queue' \in Seq(Files) /\ ToSet(queue') \subseteq 1..chosen' /\ IsInjective(queue')
        BY <3>1, EmptyQueue
      <4>2. chosen' \in 0..MaxFiles /\ listed' \in 0..chosen' /\ filesInProgress' \in 0..chosen'
            /\ successOf' \in 0..chosen' /\ errorsOf' \in 0..chosen'
        BY <3>1, ImportAssumption
      <4>. QED
        BY <3>1, <4>1, <4>2 DEF ImportShape
    <3>4. QueueInv'
      BY <3>1, <3>2, EmptyQueue, FS_EmptySet DEF QueueInv
    <3>. QED
      BY <3>1, <3>3, <3>4 DEF ImportInv, BlockedWhileSending, OutcomeInv, ResultsMatch
  <2>. QED
    BY <1>1, <2>1 DEF PageLoaded, ListLoadedAgain
<1>2. CASE ~PageLoaded
  <2>1. /\ filesInProgress # 0 /\ popup' = FALSE
        /\ importBlocked' = (importBlocked \/ importKind = "submissions")
        /\ UNCHANGED <<outcome, successOf, errorsOf, importKind, chosen, queue, sending, listed,
                       filesInProgress, dropped, unseen>>
    BY <1>2 DEF ClosePopup, LeavePage, NothingToldYet
  <2>2. importBlocked' \in BOOLEAN
    BY <2>1 DEF ImportInv, ImportShape
  <2>3. ImportShape'
    BY <2>1, <2>2 DEF ImportInv, ImportShape
  <2>4. QueueInv'
    BY <2>1 DEF ImportInv, QueueInv, Waiting, WaitingAt
  <2>5. BlockedWhileSending' /\ OutcomeInv'
    BY <2>1 DEF ImportInv, BlockedWhileSending, OutcomeInv, ResultsMatch
  <2>. QED
    BY <2>1, <2>3, <2>4, <2>5 DEF ImportInv, ListLoadedAgain
<1>. QED
  BY <1>1, <1>2

LEMMA PopupEscaped ==
  ASSUME ImportInv, EscapePopup
  PROVE  ImportInv' /\ ListLoadedAgain
<1>1. /\ popup /\ popup' = FALSE /\ (importKind # "submissions" => outcome = {})
      /\ UNCHANGED <<outcome, successOf, errorsOf, importKind, chosen, queue, sending, listed,
                     filesInProgress, importBlocked, dropped, unseen>>
  BY DEF EscapePopup, NothingToldYet
<1>2. ImportShape' /\ QueueInv'
  BY <1>1 DEF ImportInv, ImportShape, QueueInv, Waiting, WaitingAt
<1>3. BlockedWhileSending' /\ OutcomeInv' /\ ListLoadedAgain
  BY <1>1 DEF ImportInv, BlockedWhileSending, OutcomeInv, ResultsMatch, ListLoadedAgain
<1>. QED
  BY <1>2, <1>3 DEF ImportInv

(* An answer is lost in an exception.                                      *)
LEMMA IgnoredKeeps ==
  ASSUME ImportInv, AnswerIgnored
  PROVE  ImportInv'
<1>1. PICK id \in sending \ {listed} : sending' = sending \ {id} /\ MaybeUnseen(id)
  BY DEF AnswerIgnored
<1>2. UNCHANGED <<outcome, successOf, errorsOf, importKind, popup, chosen, queue, listed,
                  filesInProgress, importBlocked, dropped>>
  BY DEF AnswerIgnored, NothingToldYet
<1>3. ImportShape'
  <2>1. unseen' \subseteq 1..chosen /\ sending' \subseteq 1..chosen
    BY <1>1 DEF MaybeUnseen, ImportInv, ImportShape
  <2>. QED
    BY <1>2, <2>1 DEF ImportInv, ImportShape
<1>4. QueueInv'
  <2>1. Waiting' = Waiting
    BY <1>2 DEF Waiting, WaitingAt
  <2>2. sending' \cup Waiting' \in SUBSET (sending \cup Waiting)
    BY <1>1, <2>1
  <2>3. Cardinality(sending' \cup Waiting') <= Cardinality(sending \cup Waiting)
        /\ Cardinality(sending' \cup Waiting') \in Nat
    BY <2>2, UnderWay, FS_Subset, FS_CardinalityType
  <2>4. Cardinality(sending' \cup Waiting') <= filesInProgress'
    BY <1>2, <2>3, UnderWay DEF ImportInv, QueueInv
  <2>. QED
    BY <1>1, <1>2, <2>1, <2>4 DEF ImportInv, QueueInv
<1>5. BlockedWhileSending'
  BY <1>1, <1>2 DEF ImportInv, BlockedWhileSending
<1>6. OutcomeInv'
  <2>1. filesInProgress # 0
    BY <1>1, UnderWay
  <2>. QED
    BY <1>2, <2>1 DEF ImportInv, OutcomeInv, ResultsMatch
<1>. QED
  BY <1>3, <1>4, <1>5, <1>6 DEF ImportInv

(* The answer to the file that is listed.                                  *)
LEMMA AnswerKeeps ==
  ASSUME ImportInv, AnswerShown
  PROVE  ImportInv'
<1>1. /\ Answer(listed) \/ NoAnswerTo(listed)
      /\ filesInProgress' = filesInProgress - 1 /\ importBlocked' = FALSE
      /\ UNCHANGED <<importKind, popup, chosen, listed>>
  BY DEF AnswerShown
<1>2. /\ listed \in sending /\ listed \in ToSet(queue) /\ importBlocked /\ filesInProgress > 0
      /\ chosen \in Nat /\ chosen' = chosen /\ chosen <= MaxFiles /\ filesInProgress \in 0..chosen
      /\ listed \in 1..chosen /\ sending \subseteq 1..chosen
  <2>1. listed \in sending
    BY DEF AnswerShown
  <2>. QED
    <3>1. importBlocked /\ listed \in ToSet(queue) /\ filesInProgress \in 0..chosen /\ chosen <= MaxFiles
          /\ sending \subseteq 1..chosen
      BY <2>1, ImportAssumption DEF ImportInv, ImportShape, QueueInv
    <3>. QED
      BY <1>1, <2>1, <3>1, UnderWay
<1>3. /\ queue' \in Seq(Files) /\ IsInjective(queue') /\ ToSet(queue') \subseteq ToSet(queue)
      /\ ToSet(queue') \subseteq dropped' /\ dropped' \subseteq 1..chosen
      /\ sending' \cap Waiting' = {} /\ sending' \subseteq 1..chosen /\ listed \notin sending'
      /\ Cardinality(sending' \cup Waiting') <= filesInProgress - 1
  <2>1. CASE dequeue(listed) /\ UNCHANGED dropped
    <3>1. queue' \in Seq(Files) /\ IsInjective(queue')
          /\ ToSet(queue') \subseteq ToSet(queue) \ {listed}
          /\ sending' \cup Waiting' \subseteq (sending \cup Waiting) \ {listed}
          /\ sending' \cap Waiting' = {}
      BY <1>2, <2>1, Dequeued
    <3>2. ToSet(queue') \subseteq dropped' /\ dropped' \subseteq 1..chosen
      BY <1>2, <2>1, <3>1 DEF ImportInv, ImportShape, QueueInv
    <3>3. Cardinality(sending' \cup Waiting') <= filesInProgress - 1
      <4>1. sending' \cup Waiting' \in SUBSET ((sending \cup Waiting) \ {listed})
        BY <3>1
      <4>2. IsFiniteSet((sending \cup Waiting) \ {listed})
            /\ Cardinality((sending \cup Waiting) \ {listed}) = Cardinality(sending \cup Waiting) - 1
        BY <1>2, UnderWay, FS_RemoveElement
      <4>3. Cardinality(sending' \cup Waiting') <= Cardinality(sending \cup Waiting) - 1
            /\ Cardinality(sending' \cup Waiting') \in Nat
        BY <4>1, <4>2, FS_Subset, FS_CardinalityType
      <4>. QED
        BY <4>3, UnderWay DEF ImportInv, QueueInv
    <3>4. sending' \subseteq 1..chosen
      BY <1>2, <3>1 DEF ImportInv, ImportShape, Waiting, WaitingAt, ToSet
    <3>. QED
      BY <3>1, <3>2, <3>3, <3>4
  <2>2. CASE sending' = sending \ {listed} /\ dropped' = dropped \cup {listed} /\ UNCHANGED queue
    <3>1. Waiting' = Waiting
      BY <2>2 DEF Waiting, WaitingAt
    <3>2. listed \notin Waiting /\ sending \cap Waiting = {}
      BY <1>2 DEF ImportInv, QueueInv
    <3>3. Cardinality(sending' \cup Waiting') <= filesInProgress - 1
      <4>1. sending' \cup Waiting' = (sending \cup Waiting) \ {listed}
        BY <2>2, <3>1, <3>2
      <4>2. Cardinality((sending \cup Waiting) \ {listed}) = Cardinality(sending \cup Waiting) - 1
        BY <1>2, UnderWay, FS_RemoveElement
      <4>3. Cardinality(sending \cup Waiting) <= filesInProgress
        BY DEF ImportInv, QueueInv
      <4> DEFINE c == Cardinality(sending \cup Waiting)
      <4>4. c \in Nat /\ filesInProgress \in Nat /\ c <= filesInProgress
        BY <4>3, UnderWay
      <4>5. Cardinality(sending' \cup Waiting') = c - 1
        BY <4>1, <4>2
      <4>. HIDE DEF c
      <4>. QED
        BY <4>4, <4>5
    <3>4. ToSet(queue') \subseteq dropped' /\ dropped' \subseteq 1..chosen
      BY <1>2, <2>2 DEF ImportInv, ImportShape, QueueInv
    <3>. QED
      BY <1>2, <2>2, <3>1, <3>2, <3>3, <3>4 DEF ImportInv, ImportShape
  <2>. QED
    BY <1>1, <2>1, <2>2 DEF Answer, NoAnswerTo
<1>4. unseen' \subseteq 1..chosen
  BY <1>1, <1>2 DEF Answer, NoAnswerTo, MaybeUnseen, ImportInv, ImportShape
<1>5. ASSUME Answer(listed)
      PROVE  /\ successOf' \in 0..chosen /\ errorsOf' \in 0..chosen /\ \E o : outcome' = {o}
             /\ OutcomeInv'
  <2>1. PICK kinds \in SUBSET {"imported", "refused"} :
          /\ outcome' = {[of |-> listed, lost |-> FALSE]}
          /\ successOf' = IF "imported" \in kinds THEN listed
                          ELSE IF importKind = "submissions" THEN successOf ELSE 0
          /\ errorsOf' = IF "refused" \in kinds THEN listed
                         ELSE IF importKind = "submissions" THEN errorsOf ELSE 0
    BY <1>5 DEF Answer
  <2>2. successOf' \in 0..chosen /\ errorsOf' \in 0..chosen
    BY <1>2, <2>1 DEF ImportInv, ImportShape
  <2>3. popup /\ importKind = "submissions" => successOf = 0 /\ errorsOf = 0
    BY <1>2 DEF ImportInv, OutcomeInv
  <2>4. popup' \/ importKind' = "things" => errorsOf' \in {0, listed} /\ successOf' \in {0, listed}
    BY <1>1, <2>1, <2>3
  <2>5. OutcomeInv'
    <3>1. \A o \in outcome' : o.of = listed
      BY <2>1
    <3>2. outcome' # {}
      BY <2>1
    <3>. QED
      BY <1>1, <2>4, <3>1, <3>2 DEF OutcomeInv, ResultsMatch
  <2>. QED
    BY <2>1, <2>2, <2>5
<1>6. ASSUME NoAnswerTo(listed)
      PROVE  /\ successOf' \in 0..chosen /\ errorsOf' \in 0..chosen
             /\ outcome' = {} \/ \E o : outcome' = {o}
             /\ OutcomeInv'
  <2>1. /\ errorsOf' = IF importKind = "submissions" THEN errorsOf ELSE 0
        /\ successOf' = IF importKind = "things" THEN 0 ELSE successOf
        /\ importKind = "submissions" => outcome' = outcome
        /\ importKind # "submissions" => outcome' = {[of |-> listed, lost |-> TRUE]}
    BY <1>6 DEF NoAnswerTo
  <2>2. /\ successOf' \in 0..chosen /\ errorsOf' \in 0..chosen
        /\ outcome' = {} \/ \E o : outcome' = {o}
    <3>1. successOf \in 0..chosen /\ errorsOf \in 0..chosen /\ chosen \in 0..MaxFiles
      BY <1>2 DEF ImportInv, ImportShape
    <3>2. outcome = {} \/ \E o : outcome = {o}
      BY <1>2 DEF ImportInv, ImportShape
    <3>3. 0 \in 0..chosen
      BY <3>1, ImportAssumption
    <3>. QED
      BY <2>1, <3>1, <3>2, <3>3
  <2>3. OutcomeInv'
    <3>1. CASE importKind = "submissions"
      BY <1>1, <1>2, <2>1, <3>1 DEF ImportInv, OutcomeInv, ResultsMatch
    <3>2. CASE importKind # "submissions"
      <4>1. \A o \in outcome' : o.of = listed /\ o.lost
        BY <2>1, <3>2
      <4>2. outcome' # {} /\ errorsOf' = 0 /\ (importKind = "things" => successOf' = 0)
        BY <2>1, <3>2
      <4>3. importKind = "senders" \/ importKind = "things"
        BY <3>2 DEF ImportInv, ImportShape
      <4>. QED
        BY <1>1, <3>2, <4>1, <4>2, <4>3 DEF OutcomeInv, ResultsMatch
    <3>. QED
      BY <3>1, <3>2
  <2>. QED
    BY <2>2, <2>3
<1>7. ImportShape'
  <2>1. /\ successOf' \in 0..chosen /\ errorsOf' \in 0..chosen
        /\ outcome' = {} \/ \E o : outcome' = {o}
    BY <1>1, <1>5, <1>6
  <2>2. filesInProgress' \in 0..chosen
    BY <1>1, <1>2
  <2>. QED
    BY <1>1, <1>2, <1>3, <1>4, <2>1, <2>2 DEF ImportInv, ImportShape
<1>8. QueueInv'
  BY <1>1, <1>2, <1>3 DEF QueueInv
<1>9. BlockedWhileSending'
  BY <1>1 DEF BlockedWhileSending
<1>. QED
  BY <1>1, <1>5, <1>6, <1>7, <1>8, <1>9 DEF ImportInv

LEMMA ImportFacts ==
  ASSUME ImportInv
  PROVE  ResultsOfOneFile /\ LeavingAsks /\ BlockedWhileSending /\ ImportTypeOK
<1>1. ResultsOfOneFile
  BY DEF ImportInv, OutcomeInv, ResultsMatch, ResultsOfOneFile
<1>2. LeavingAsks
  <2>1. sending \in SUBSET (sending \cup Waiting)
    OBVIOUS
  <2>2. Cardinality(sending) <= Cardinality(sending \cup Waiting) /\ Cardinality(sending) \in Nat
    BY <2>1, UnderWay, FS_Subset, FS_CardinalityType
  <2>. QED
    BY <2>2, UnderWay DEF LeavingAsks, ImportInv, QueueInv
<1>3. ImportTypeOK
  <2>1. Cardinality(outcome) <= 1
    <3>1. Cardinality({}) = 0 /\ \A o : Cardinality({o}) = 1
      BY FS_EmptySet, FS_Singleton
    <3>2. CASE outcome = {}
      BY <3>1, <3>2
    <3>3. CASE \E o : outcome = {o}
      <4>1. PICK o : outcome = {o}
        BY <3>3
      <4>2. Cardinality({o}) = 1
        BY <3>1
      <4>. QED
        BY <4>1, <4>2
    <3>. QED
      BY <3>2, <3>3 DEF ImportInv, ImportShape
  <2>2. filesInProgress \in 0..MaxFiles
    BY ImportAssumption DEF ImportInv, ImportShape
  <2>. QED
    BY <2>1, <2>2 DEF ImportInv, ImportShape, ImportTypeOK
<1>. QED
  BY <1>1, <1>2, <1>3 DEF ImportInv

LEMMA ImportStep ==
  ASSUME ImportInv, ImportNext
  PROVE  ImportInv' /\ ListLoadedAgain
<1>1. CASE OpenPopup
  <2>1. popup' = TRUE
    BY <1>1 DEF OpenPopup
  <2>. QED
    BY <1>1, <2>1, PopupOpened DEF ListLoadedAgain
<1>2. CASE ClosePopup
  BY <1>2, PopupLeft
<1>3. CASE EscapePopup
  BY <1>3, PopupEscaped
<1>4. CASE ChooseFiles
  <2>1. popup' = popup
    BY <1>4 DEF ChooseFiles
  <2>. QED
    BY <1>4, <2>1, FilesChosen DEF ListLoadedAgain
<1>5. CASE AnswerIgnored
  BY <1>5, IgnoredKeeps DEF AnswerIgnored, ListLoadedAgain
<1>6. CASE AnswerShown
  <2>1. popup' = popup
    BY <1>6 DEF AnswerShown
  <2>. QED
    BY <1>6, <2>1, AnswerKeeps DEF ListLoadedAgain
<1>. QED
  BY <1>1, <1>2, <1>3, <1>4, <1>5, <1>6 DEF ImportNext

LEMMA ImportKept ==
  /\ ImportInit => ImportInv
  /\ ImportInv /\ [ImportNext]_importVars => ImportInv'
<1>1. ImportInit => ImportInv
  BY FreshPage, ImportAssumption DEF ImportInit
<1>2. ASSUME ImportInv, UNCHANGED importVars PROVE ImportInv'
  BY <1>2 DEF importVars, ImportInv, ImportShape, QueueInv, Waiting, WaitingAt,
     BlockedWhileSending, OutcomeInv, ResultsMatch
<1>. QED
  BY <1>1, <1>2, ImportStep

(* The uploader and the dialogs: the results shown are of one file, no     *)
(* request is forgotten, and the list is loaded again in the end.          *)
THEOREM EveryFileIsAccounted == ImportSpec => ImportsAccountedFor
<1>1. ImportInv /\ ImportInv' /\ [ImportNext]_importVars
        => [ResultsOfOneFile' /\ LeavingAsks' /\ ListLoadedAgain]_importVars
  <2>1. ImportInv' => ResultsOfOneFile' /\ LeavingAsks'
    BY ImportFacts, PTL
  <2>. QED
    BY <2>1, ImportStep
<1>. QED
  BY <1>1, ImportKept, PTL DEF ImportSpec, ImportsAccountedFor

(* The dialog is not blocked without an answer to come.                    *)
THEOREM DialogIsUnblocked == ImportSpec => []BlockedWhileSending
<1>1. ImportInv => BlockedWhileSending
  BY DEF ImportInv
<1>. QED
  BY <1>1, ImportKept, PTL DEF ImportSpec

-----------------------------------------------------------------------------
(***************************************************************************)
(* SubmissionLog.  The state has its shape.                                *)
(***************************************************************************)
LogShape ==
  /\ LogTypeOK
  /\ logKind \in {"log", "analysis"} /\ isChartViewShown \in BOOLEAN
  /\ isChartViewShown => logKind = "analysis"
  /\ tableXhr # {} => table \in TabsOf(logKind)
  /\ chartXhr \in Seq(LogFilters)
  /\ exportInputs \in Seq(LogFilters) /\ exportHandlers \in Seq(TabsOf(logKind))
  /\ exportHandlers # <<>> /\ Last(exportHandlers) = active_tab

(* Unless the user was early, headers are awaited for the tab that is      *)
(* marked alone, the table is of that tab or awaits them, and its rows are *)
(* of the filters that are set or are awaited.                             *)
TableInv ==
  ~early /\ ~logFailed =>
    /\ table \in {"none", active_tab}
    /\ \A t \in DOMAIN headers \ {active_tab} : headers[t] = 0
    /\ logKind = "log" => headers[active_tab] = IF table = "none" THEN 1 ELSE 0
    /\ ~isChartViewShown =>
         IF table = "none" THEN Awaited
         ELSE \/ tableXhr = {search_filters}
              \/ tableXhr = {} /\ shown = {[tab |-> active_tab, filters |-> search_filters]}

(* The charts asked for last are of the filters that are set.              *)
ChartInv ==
  isChartViewShown /\ orderly /\ ~logFailed =>
    IF chartXhr = <<>> THEN charts = {search_filters} ELSE Last(chartXhr) = search_filters

LogInv == LogShape /\ TableInv /\ ChartInv /\ TabNotBlockedForGood

LEMMA TabFacts ==
  ASSUME logKind \in {"log", "analysis"}
  PROVE  {"none", "plain"} \cap TabsOf(logKind) = {}
  BY LogAssumption DEF TabsOf

LEMMA LogStart == LogInit => LogInv
<1>. SUFFICES ASSUME LogInit PROVE LogInv
  OBVIOUS
<1>1. logKind \in {"log", "analysis"} /\ active_tab \in TabsOf(logKind) /\ DOMAIN headers = TabsOf(logKind)
      /\ headers[active_tab] = 1 /\ \A t \in DOMAIN headers \ {active_tab} : headers[t] = 0
  BY LogAssumption DEF LogInit, TabsOf
<1>2. exportHandlers \in Seq(TabsOf(logKind)) /\ exportHandlers # <<>> /\ Last(exportHandlers) = active_tab
  BY <1>1 DEF LogInit, Last
<1>3. chartXhr \in Seq(LogFilters) /\ exportInputs \in Seq(LogFilters)
  BY DEF LogInit
<1>4. LogTypeOK
  <2>1. headers \in [TabsOf(logKind) -> 0..MaxRequests]
    <3>1. 0 \in 0..MaxRequests /\ 1 \in 0..MaxRequests
      BY LogAssumption
    <3>. QED
      BY <3>1 DEF LogInit
  <2>. QED
    BY <1>1, <2>1, LogAssumption DEF LogInit, LogTypeOK
<1>5. Awaited
  BY <1>1 DEF Awaited
<1>. QED
  BY <1>1, <1>2, <1>3, <1>4, <1>5
  DEF LogInit, LogInv, LogShape, TableInv, ChartInv, TabNotBlockedForGood

(* An answer to a request for headers leaves one request less.             *)
LEMMA HeadersCounted ==
  ASSUME LogInv, NEW t \in DOMAIN headers, headers[t] > 0,
         headers' = [headers EXCEPT ![t] = @ - 1]
  PROVE  /\ headers' \in [TabsOf(logKind) -> 0..MaxRequests] /\ DOMAIN headers' = DOMAIN headers
         /\ \A u \in DOMAIN headers : headers[u] = 0 => headers'[u] = 0
         /\ DOMAIN headers = TabsOf(logKind)
<1>1. headers \in [TabsOf(logKind) -> 0..MaxRequests] /\ MaxRequests \in Nat
  BY LogAssumption DEF LogInv, LogShape, LogTypeOK
<1>. QED
  BY <1>1

LEMMA HeadersKeep ==
  ASSUME LogInv, HeadersArrive
  PROVE  LogInv'
<1>1. PICK t \in DOMAIN headers :
        /\ headers[t] > 0
        /\ headers' = [headers EXCEPT ![t] = @ - 1]
        /\ logBlocked' = (logBlocked /\ Awaited')
        /\ IF table = "none" THEN table' = t /\ tableXhr' = {search_filters}
                             ELSE UNCHANGED <<table, tableXhr>>
  BY DEF HeadersArrive, ajaxStop
<1>2. UNCHANGED <<logKind, active_tab, search_filters, shown, exportVars, chartVars, early, logFailed>>
  BY DEF HeadersArrive
<1>3. /\ headers' \in [TabsOf(logKind) -> 0..MaxRequests] /\ DOMAIN headers' = DOMAIN headers
      /\ \A u \in DOMAIN headers : headers[u] = 0 => headers'[u] = 0
      /\ DOMAIN headers = TabsOf(logKind)
  BY <1>1, HeadersCounted
<1>4. LogShape'
  <2>1. LogTypeOK'
    <3>1. logBlocked' \in BOOLEAN
      BY <1>1
    <3>2. table' \in TabsOf(logKind) \cup {"none", "plain"} /\ tableXhr' \subseteq LogFilters
      BY <1>1, <1>3 DEF LogInv, LogShape, LogTypeOK
    <3>. QED
      BY <1>2, <1>3, <3>1, <3>2 DEF LogInv, LogShape, LogTypeOK, chartVars, TabsOf
  <2>2. tableXhr' # {} => table' \in TabsOf(logKind')
    BY <1>1, <1>2, <1>3 DEF LogInv, LogShape, TabsOf
  <2>. QED
    BY <1>2, <2>1, <2>2 DEF LogInv, LogShape, exportVars, chartVars, TabsOf
<1>5. TableInv'
  <2>. SUFFICES ASSUME ~early, ~logFailed PROVE TableInv'
    BY <1>2 DEF TableInv
  <2>1. t = active_tab /\ active_tab \in DOMAIN headers /\ table \in {"none", active_tab} /\ active_tab # "none"
    BY <1>1, <1>3, TabFacts DEF LogInv, LogShape, LogTypeOK, TableInv
  <2>2. logKind = "log" => headers'[active_tab] = 0 /\ table = "none"
    <3>1. logKind = "log" => headers[active_tab] = 1 /\ table = "none"
      BY <1>1, <2>1 DEF LogInv, TableInv
    <3>2. headers'[active_tab] = headers[active_tab] - 1
      BY <1>1, <2>1 DEF LogInv, LogShape, LogTypeOK
    <3>. QED
      BY <3>1, <3>2
  <2>. QED
    BY <1>1, <1>2, <1>3, <2>1, <2>2 DEF LogInv, TableInv, chartVars
<1>6. ChartInv' /\ TabNotBlockedForGood'
  BY <1>1, <1>2 DEF LogInv, ChartInv, chartVars, TabNotBlockedForGood
<1>. QED
  BY <1>4, <1>5, <1>6 DEF LogInv

LEMMA HeadersLost ==
  ASSUME LogInv, HeadersFail
  PROVE  LogInv'
<1>1. PICK t \in DOMAIN headers :
        /\ headers[t] > 0
        /\ headers' = [headers EXCEPT ![t] = @ - 1]
        /\ logBlocked' = (logBlocked /\ Awaited')
  BY DEF HeadersFail, ajaxStop
<1>2. UNCHANGED <<logKind, active_tab, search_filters, table, tableXhr, shown, exportVars,
                  chartVars, early>> /\ logFailed' = TRUE
  BY DEF HeadersFail
<1>3. headers' \in [TabsOf(logKind) -> 0..MaxRequests]
  BY <1>1, HeadersCounted
<1>4. logBlocked' \in BOOLEAN
  BY <1>1
<1>. QED
  BY <1>1, <1>2, <1>3, <1>4
  DEF LogInv, LogShape, LogTypeOK, TableInv, ChartInv, exportVars, chartVars, TabsOf, TabNotBlockedForGood

LEMMA RowsKeep ==
  ASSUME LogInv, RowsArrive \/ RowsFail
  PROVE  LogInv'
<1>1. /\ tableXhr # {} /\ tableXhr' = {}
      /\ UNCHANGED <<logKind, active_tab, search_filters, headers, table, logBlocked, exportVars,
                     chartVars, early>>
  BY DEF RowsArrive, RowsFail
<1>2. CASE RowsArrive
  <2>1. PICK f \in tableXhr : shown' = {[tab |-> table, filters |-> f]}
    BY <1>2 DEF RowsArrive
  <2>2. logFailed' = logFailed
    BY <1>2 DEF RowsArrive
  <2>3. shown' \subseteq [tab : TabsOf(logKind), filters : LogFilters]
    BY <2>1 DEF LogInv, LogShape, LogTypeOK
  <2>4. LogShape'
    BY <1>1, <2>3 DEF LogInv, LogShape, LogTypeOK, exportVars, chartVars, TabsOf
  <2>5. TableInv'
    BY <1>1, <2>1, <2>2, TabFacts DEF LogInv, LogShape, TableInv, chartVars, Awaited
  <2>. QED
    BY <1>1, <2>2, <2>4, <2>5 DEF LogInv, ChartInv, chartVars, TabNotBlockedForGood, Awaited
<1>3. CASE RowsFail
  <2>1. logFailed' = TRUE /\ shown' = shown
    BY <1>3 DEF RowsFail
  <2>2. LogShape'
    BY <1>1, <2>1 DEF LogInv, LogShape, LogTypeOK, exportVars, chartVars, TabsOf
  <2>. QED
    BY <1>1, <2>1, <2>2 DEF LogInv, TableInv, ChartInv, chartVars, TabNotBlockedForGood, Awaited
<1>. QED
  BY <1>2, <1>3

(* A new table awaits its headers.                                         *)
LEMMA TableMade ==
  ASSUME LogInv, NEW t \in TabsOf(logKind), NewTable(t)
  PROVE  /\ headers' \in [TabsOf(logKind) -> 0..MaxRequests] /\ DOMAIN headers' = DOMAIN headers
         /\ headers'[t] = headers[t] + 1 /\ headers'[t] > 0 /\ Awaited'
         /\ \A u \in TabsOf(logKind) \ {t} : headers'[u] = headers[u]
         /\ table' = "none" /\ tableXhr' = {} /\ shown' = {}
<1>1. headers \in [TabsOf(logKind) -> 0..MaxRequests] /\ MaxRequests \in Nat
  BY LogAssumption DEF LogInv, LogShape, LogTypeOK
<1>2. headers[t] < MaxRequests /\ headers' = [headers EXCEPT ![t] = @ + 1]
  BY DEF NewTable
<1>3. headers'[t] = headers[t] + 1 /\ headers'[t] \in 0..MaxRequests /\ headers'[t] > 0
  BY <1>1, <1>2
<1>4. headers' \in [TabsOf(logKind) -> 0..MaxRequests]
  BY <1>1, <1>2, <1>3
<1>. QED
  BY <1>1, <1>2, <1>3, <1>4 DEF NewTable, Awaited

LEMMA TabClicked ==
  ASSUME LogInv, ClickTab
  PROVE  LogInv'
<1>1. PICK t \in DOMAIN headers \ {active_tab} :
        /\ active_tab' = t
        /\ exportHandlers' = Append(exportHandlers, t)
        /\ NewTable(t)
        /\ logBlocked' = TRUE
        /\ early' = (early \/ NoTable)
  BY DEF ClickTab
<1>2. UNCHANGED <<logKind, search_filters, exportInputs, exported, chartVars, logFailed>>
  BY DEF ClickTab
<1>3. t \in TabsOf(logKind) /\ DOMAIN headers = TabsOf(logKind)
  BY DEF LogInv, LogShape, LogTypeOK
<1>4. /\ headers' \in [TabsOf(logKind) -> 0..MaxRequests] /\ DOMAIN headers' = DOMAIN headers
      /\ headers'[t] = headers[t] + 1 /\ headers'[t] > 0 /\ Awaited'
      /\ \A u \in TabsOf(logKind) \ {t} : headers'[u] = headers[u]
      /\ table' = "none" /\ tableXhr' = {} /\ shown' = {}
  BY <1>1, <1>3, TableMade
<1>5. exportHandlers' \in Seq(TabsOf(logKind)) /\ exportHandlers' # <<>> /\ Last(exportHandlers') = t
  BY <1>1, <1>3, Appended DEF LogInv, LogShape
<1>6. LogShape'
  <2>1. LogTypeOK'
    BY <1>1, <1>2, <1>3, <1>4 DEF LogInv, LogShape, LogTypeOK, chartVars, TabsOf
  <2>. QED
    BY <1>1, <1>2, <1>4, <1>5, <2>1 DEF LogInv, LogShape, chartVars, TabsOf
<1>7. TableInv'
  <2>. SUFFICES ASSUME ~early, ~logFailed, ~NoTable PROVE TableInv'
    BY <1>1, <1>2 DEF TableInv
  <2>1. logKind = "log" /\ headers[t] = 0 /\ headers[active_tab] = 0
    <3>1. table # "none"
      BY DEF NoTable
    <3>2. logKind = "log"
      BY <1>1, <1>3 DEF LogInv, LogShape, LogTypeOK, TabsOf
    <3>. QED
      BY <1>1, <3>1, <3>2 DEF LogInv, TableInv
  <2>2. \A u \in DOMAIN headers' \ {t} : headers'[u] = 0
    BY <1>3, <1>4, <2>1 DEF LogInv, TableInv
  <2>. QED
    BY <1>1, <1>4, <2>1, <2>2 DEF TableInv
<1>8. ChartInv' /\ TabNotBlockedForGood'
  BY <1>2, <1>4 DEF LogInv, ChartInv, chartVars, TabNotBlockedForGood
<1>. QED
  BY <1>6, <1>7, <1>8 DEF LogInv

(* A request for charts is the last one.                                   *)
LEMMA ChartsAsked ==
  ASSUME LogInv, NEW f \in LogFilters, generateCharts(f)
  PROVE  chartXhr' \in Seq(LogFilters) /\ chartXhr' # <<>> /\ Last(chartXhr') = f
  BY Appended DEF LogInv, LogShape, generateCharts

LEMMA FilterKeeps ==
  ASSUME LogInv, ChangeFilter
  PROVE  LogInv'
<1>1. PICK f \in LogFilters \ {search_filters} :
        /\ search_filters' = f
        /\ IF isChartViewShown
           THEN generateCharts(f) /\ UNCHANGED <<table, tableXhr, early>>
           ELSE /\ table' = IF table = "none" THEN "plain" ELSE table
                /\ tableXhr' = IF NoTable THEN {} ELSE {f}
                /\ early' = (early \/ NoTable)
                /\ UNCHANGED <<chartXhr, orderly>>
  BY DEF ChangeFilter
<1>2. UNCHANGED <<logKind, active_tab, headers, shown, logBlocked, exportVars,
                  isChartViewShown, charts, logFailed>>
  BY DEF ChangeFilter
<1>3. CASE isChartViewShown
  <2>1. chartXhr' \in Seq(LogFilters) /\ chartXhr' # <<>> /\ Last(chartXhr') = f
    BY <1>1, <1>3, ChartsAsked
  <2>2. UNCHANGED <<table, tableXhr, early>>
    BY <1>1, <1>3
  <2>3. LogShape'
    BY <1>1, <1>2, <2>1, <2>2 DEF LogInv, LogShape, LogTypeOK, exportVars, TabsOf
  <2>4. TableInv'
    BY <1>2, <1>3, <2>2 DEF LogInv, TableInv
  <2>5. ChartInv'
    BY <1>1, <2>1 DEF ChartInv
  <2>. QED
    BY <1>2, <2>3, <2>4, <2>5 DEF LogInv, TabNotBlockedForGood, Awaited
<1>4. CASE ~isChartViewShown
  <2>1. /\ table' = IF table = "none" THEN "plain" ELSE table
        /\ tableXhr' = IF NoTable THEN {} ELSE {f}
        /\ early' = (early \/ NoTable)
        /\ UNCHANGED <<chartXhr, orderly>>
    BY <1>1, <1>4
  <2>2. LogShape'
    <3>1. table' \in TabsOf(logKind) \cup {"none", "plain"} /\ tableXhr' \subseteq LogFilters
          /\ (tableXhr' # {} => table' \in TabsOf(logKind))
      BY <2>1 DEF LogInv, LogShape, LogTypeOK, NoTable
    <3>. QED
      BY <1>1, <1>2, <2>1, <3>1 DEF LogInv, LogShape, LogTypeOK, exportVars, TabsOf
  <2>3. TableInv'
    <3>. SUFFICES ASSUME ~early, ~NoTable, ~logFailed PROVE TableInv'
      BY <1>2, <2>1 DEF TableInv
    <3>1. table' = table /\ table # "none" /\ tableXhr' = {f}
      BY <2>1 DEF NoTable
    <3>. QED
      BY <1>1, <1>2, <1>4, <3>1 DEF LogInv, TableInv
  <2>4. ChartInv'
    BY <1>2, <1>4 DEF ChartInv
  <2>. QED
    BY <1>2, <2>2, <2>3, <2>4 DEF LogInv, TabNotBlockedForGood, Awaited
<1>. QED
  BY <1>3, <1>4

LEMMA ViewKeeps ==
  ASSUME LogInv, ShowChart \/ ShowTable
  PROVE  LogInv'
<1>1. CASE ShowChart
  <2>1. /\ logKind = "analysis" /\ isChartViewShown' = TRUE /\ generateCharts(search_filters)
        /\ UNCHANGED <<logKind, active_tab, search_filters, logTableVars, exportVars, charts,
                       early, logFailed>>
    BY <1>1 DEF ShowChart
  <2>2. chartXhr' \in Seq(LogFilters) /\ chartXhr' # <<>> /\ Last(chartXhr') = search_filters
    BY <2>1, ChartsAsked DEF LogInv, LogShape, LogTypeOK
  <2>3. LogShape'
    BY <2>1, <2>2 DEF LogInv, LogShape, LogTypeOK, exportVars, logTableVars, TabsOf
  <2>. QED
    BY <2>1, <2>2, <2>3 DEF LogInv, TableInv, ChartInv, logTableVars, TabNotBlockedForGood, Awaited
<1>2. CASE ShowTable
  <2>1. /\ isChartViewShown /\ isChartViewShown' = FALSE /\ charts' = {} /\ NewTable(active_tab)
        /\ UNCHANGED <<logKind, active_tab, search_filters, logBlocked, exportVars, chartXhr, orderly,
                       early, logFailed>>
    BY <1>2 DEF ShowTable
  <2>2. active_tab \in TabsOf(logKind) /\ DOMAIN headers = TabsOf(logKind) /\ logKind # "log"
    BY <2>1 DEF LogInv, LogShape, LogTypeOK
  <2>3. /\ headers' \in [TabsOf(logKind) -> 0..MaxRequests] /\ DOMAIN headers' = DOMAIN headers
        /\ Awaited' /\ \A u \in TabsOf(logKind) \ {active_tab} : headers'[u] = headers[u]
        /\ table' = "none" /\ tableXhr' = {} /\ shown' = {}
    BY <2>1, <2>2, TableMade
  <2>4. LogShape'
    BY <2>1, <2>3 DEF LogInv, LogShape, LogTypeOK, exportVars, TabsOf
  <2>. QED
    BY <2>1, <2>2, <2>3, <2>4 DEF LogInv, TableInv, ChartInv, TabNotBlockedForGood
<1>. QED
  BY <1>1, <1>2

LEMMA ChartsKeep ==
  ASSUME LogInv, ChartsArrive \/ ChartsFail
  PROVE  LogInv'
<1>1. PICK i \in DOMAIN chartXhr :
        /\ chartXhr' = RemoveAt(chartXhr, i)
        /\ \/ charts' = {chartXhr[i]} /\ orderly' = (orderly /\ i = 1) /\ logFailed' = logFailed
           \/ charts' = charts /\ orderly' = orderly /\ logFailed' = TRUE
  BY DEF ChartsArrive, ChartsFail
<1>2. UNCHANGED <<logKind, active_tab, search_filters, logTableVars, exportVars, isChartViewShown,
                  early>>
  BY DEF ChartsArrive, ChartsFail
<1>3. chartXhr \in Seq(LogFilters) /\ Len(chartXhr) \in Nat /\ i \in 1..Len(chartXhr)
      /\ chartXhr[i] \in LogFilters
  BY DEF LogInv, LogShape
<1>4. chartXhr' \in Seq(LogFilters) /\ Len(chartXhr') = Len(chartXhr) - 1
      /\ \A j \in 1..Len(chartXhr)-1 : chartXhr'[j] = IF j < i THEN chartXhr[j] ELSE chartXhr[j+1]
  BY <1>1, <1>3, TakenOut
<1>5. LogShape'
  <2>1. charts' \subseteq LogFilters
    BY <1>1, <1>3 DEF LogInv, LogShape, LogTypeOK
  <2>. QED
    BY <1>2, <1>4, <2>1 DEF LogInv, LogShape, LogTypeOK, exportVars, logTableVars, TabsOf
<1>6. TableInv' /\ TabNotBlockedForGood'
  BY <1>1, <1>2 DEF LogInv, TableInv, logTableVars, TabNotBlockedForGood, Awaited
<1>7. ChartInv'
  <2>. SUFFICES ASSUME isChartViewShown, orderly', ~logFailed' PROVE ChartInv'
    BY <1>2 DEF ChartInv
  <2>1. charts' = {chartXhr[i]} /\ orderly /\ i = 1 /\ ~logFailed
    <3>1. CASE charts' = {chartXhr[i]} /\ orderly' = (orderly /\ i = 1) /\ logFailed' = logFailed
      BY <3>1
    <3>2. CASE logFailed' = TRUE
      BY <3>2
    <3>. QED
      BY <1>1, <3>1, <3>2
  <2>2. Last(chartXhr) = search_filters
    BY <1>3, <2>1 DEF LogInv, ChartInv
  <2>3. CASE Len(chartXhr) = 1
    <3>1. chartXhr' = <<>>
      BY <1>4, <2>3
    <3>. QED
      BY <1>2, <2>1, <2>2, <2>3, <3>1 DEF ChartInv, Last
  <2>4. CASE Len(chartXhr) # 1
    <3>1. chartXhr' # <<>> /\ Len(chartXhr)-1 \in 1..Len(chartXhr)-1
      BY <1>3, <1>4, <2>4
    <3>2. chartXhr'[Len(chartXhr)-1] = chartXhr[(Len(chartXhr)-1)+1] /\ (Len(chartXhr)-1)+1 = Len(chartXhr)
      BY <1>3, <1>4, <2>1, <3>1
    <3>. QED
      BY <1>2, <1>4, <2>2, <3>1, <3>2 DEF ChartInv, Last
  <2>. QED
    BY <2>3, <2>4
<1>. QED
  BY <1>5, <1>6, <1>7 DEF LogInv

(* The file that is asked for last is that of the tab, with the filters.   *)
LEMMA ExportKeeps ==
  ASSUME LogInv, Export
  PROVE  LogInv' /\ ExportMatchesPage
<1>1. exportInputs' = appendJson(exportInputs, exportHandlers, search_filters)
      /\ exported' = {AskedBy(exportInputs', Last(exportHandlers))}
  BY DEF Export
<1>2. UNCHANGED <<logKind, active_tab, search_filters, logTableVars, exportHandlers, chartVars,
                  early, logFailed>>
  BY DEF Export
<1> DEFINE more == [h \in DOMAIN exportHandlers |-> search_filters]
           m == Len(exportHandlers)
           n == Len(exportInputs)
<1>3. exportHandlers \in Seq(TabsOf(logKind)) /\ exportHandlers # <<>> /\ m \in Nat \ {0}
      /\ DOMAIN exportHandlers = 1..m /\ Last(exportHandlers) = active_tab
      /\ search_filters \in LogFilters /\ exportInputs \in Seq(LogFilters) /\ n \in Nat
  BY DEF LogInv, LogShape, LogTypeOK
<1>4. more \in Seq(LogFilters) /\ Len(more) = m /\ more[m] = search_filters
  BY <1>3
<1>. HIDE DEF more
<1>5. exportInputs' = exportInputs \o more
  BY <1>1 DEF appendJson, more
<1>6. exportInputs' \in Seq(LogFilters) /\ Len(exportInputs') = n + m /\ exportInputs'[n+m] = search_filters
  <2>1. exportInputs' \in Seq(LogFilters) /\ Len(exportInputs') = n + m
    BY <1>3, <1>4, <1>5, Joined
  <2>2. (n+m) - n = m /\ n+m \in 1..(n+m) /\ n+m > n
    BY <1>3
  <2>3. exportInputs'[n+m] = more[m]
    BY <1>3, <1>4, <1>5, <2>2
  <2>. QED
    BY <1>4, <2>1, <2>3
<1>7. Last(exportInputs') = search_filters
  BY <1>6 DEF Last
<1>8. ExportMatchesPage
  BY <1>1, <1>3, <1>7 DEF AskedBy, ExportMatchesPage
<1>. QED
  BY <1>2, <1>6, <1>8 DEF LogInv, LogShape, LogTypeOK, logTableVars, chartVars, TableInv, ChartInv,
     TabNotBlockedForGood, Awaited, TabsOf

LEMMA LogStep ==
  ASSUME LogInv, LogNext
  PROVE  LogInv' /\ ExportMatchesPage
<1>1. CASE Export
  BY <1>1, ExportKeeps
<1>2. CASE ~Export
  <2>1. exportInputs' = exportInputs
    BY <1>2 DEF LogNext, HeadersArrive, HeadersFail, RowsArrive, RowsFail, ClickTab, ChangeFilter,
       ShowChart, ShowTable, ChartsArrive, ChartsFail, exportVars
  <2>. QED
    BY <1>2, <2>1, HeadersKeep, HeadersLost, RowsKeep, TabClicked, FilterKeeps, ViewKeeps, ChartsKeep
    DEF LogNext, ExportMatchesPage
<1>. QED
  BY <1>1, <1>2

LEMMA LogKept == LogInv /\ [LogNext]_logVars => LogInv'
<1>1. ASSUME LogInv, UNCHANGED logVars PROVE LogInv'
  BY <1>1 DEF LogInv, LogShape, LogTypeOK, logVars, logTableVars, exportVars, chartVars, TableInv,
     ChartInv, TabNotBlockedForGood, Awaited, TabsOf
<1>. QED
  BY <1>1, LogStep

LEMMA LogFacts ==
  ASSUME LogInv
  PROVE  RowsAnswerPage /\ ChartsAnswerFilters
<1>1. RowsAnswerPage
  BY DEF LogInv, LogShape, TableInv, RowsAnswerPage
<1>2. ChartsAnswerFilters
  BY DEF LogInv, ChartInv, ChartsAnswerFilters
<1>. QED
  BY <1>1, <1>2

(* The Data pages: the table, the charts and the export are of the tab and *)
(* the filters that the page is set to.                                    *)
THEOREM PageIsAsSet == LogSpec => PageShowsWhatIsSet
<1>1. LogInv /\ LogInv' /\ [LogNext]_logVars
        => [RowsAnswerPage' /\ ChartsAnswerFilters' /\ ExportMatchesPage]_logVars
  <2>1. LogInv' => RowsAnswerPage' /\ ChartsAnswerFilters'
    BY LogFacts, PTL
  <2>. QED
    BY <2>1, LogStep
<1>. QED
  BY <1>1, LogStart, LogKept, PTL DEF LogSpec, PageShowsWhatIsSet

(* DW.loading: a tab that was opened is not blocked for good.              *)
THEOREM TabIsUnblocked == LogSpec => []TabNotBlockedForGood
<1>1. LogInv => TabNotBlockedForGood
  BY DEF LogInv
<1>. QED
  BY <1>1, LogStart, LogKept, PTL DEF LogSpec

-----------------------------------------------------------------------------
(***************************************************************************)
(* The whole.  A behaviour of the application is one of each of its parts, *)
(* most of which stay as they are.                                         *)
(***************************************************************************)
LEMMA AppIsListed == AppSpec => ListSpec
<1>1. AppInit => ListInit
  BY DEF AppInit
<1>2. [AppNext]_appVars => [ListNext]_listVars
  BY DEF AppNext, appVars
<1>. QED
  BY <1>1, <1>2, PTL DEF AppSpec, ListSpec

LEMMA AppIsStored == AppSpec => StoreSpec
<1>1. AppInit => StoreInit
  BY DEF AppInit
<1>2. [AppNext]_appVars => [StoreNext]_storeVars
  BY DEF AppNext, appVars
<1>. QED
  BY <1>1, <1>2, PTL DEF AppSpec, StoreSpec

LEMMA AppIsIndexed == AppSpec => SearchSpec /\ RowsSpec
<1>1. AppInit => SearchInit /\ RowsInit
  BY DEF AppInit
<1>2. [AppNext]_appVars => [SearchNext]_searchVars
  BY DEF AppNext, appVars
<1>3. [AppNext]_appVars => [RowsNext]_rowVars
  BY DEF AppNext, appVars
<1>. QED
  BY <1>1, <1>2, <1>3, PTL DEF AppSpec, SearchSpec, RowsSpec

(* submission_index.py and datasender_index.py: what the server lists from *)
(* the search index, responses and the data senders of a project, is what  *)
(* the databases hold.                                                     *)
THEOREM TheIndexAgrees == AppSpec => []IndexAgrees
BY AppIsIndexed, CopiesAreRight, RowsAlwaysNameTheProjects, PTL DEF IndexAgrees

LEMMA AppIsBuilt == AppSpec => BuilderSpec /\ OptionSpec
<1>1. AppInit => BuilderInit /\ OptionInit
  BY DEF AppInit
<1>2. [AppNext]_appVars => [BuilderNext]_builderVars
  BY DEF AppNext, appVars
<1>3. [AppNext]_appVars => [OptionNext]_optionVars
  BY DEF AppNext, appVars
<1>. QED
  BY <1>1, <1>2, <1>3, PTL DEF AppSpec, BuilderSpec, OptionSpec

LEMMA AppIsShown == AppSpec => ImportSpec /\ LogSpec /\ UnsavedSpec
<1>1. AppInit => ImportInit /\ LogInit /\ UnsavedInit
  BY DEF AppInit
<1>2. [AppNext]_appVars => [ImportNext]_importVars
  BY DEF AppNext, appVars
<1>3. [AppNext]_appVars => [LogNext]_logVars
  BY DEF AppNext, appVars
<1>4. [AppNext]_appVars => [UnsavedNext]_unsavedVars
  BY DEF AppNext, appVars
<1>. QED
  BY <1>1, <1>2, <1>3, <1>4, PTL DEF AppSpec, ImportSpec, LogSpec, UnsavedSpec

(* DW.loading and $.blockUI: whatever blocks a page has a request under    *)
(* way whose end unblocks it, saving a project, importing, opening a tab.  *)
THEOREM NoPageIsBlocked == AppSpec => []NoPageBlockedForGood
BY AppIsBuilt, AppIsShown, BuilderIsUnblocked, DialogIsUnblocked, TabIsUnblocked, PTL
   DEF NoPageBlockedForGood

(* The questionnaire that the builder shows is sound, and the values of    *)
(* its choices stay readable in the answers that were collected with them. *)
THEOREM TheQuestionnaireIsSound == AppSpec => []QuestionnaireSound
BY AppIsBuilt, QuestionsAreSound, AnswersCanBeRead, PTL DEF QuestionnaireSound

(* Type correctness of the parts whose invariant does not have it yet.     *)
FlagsOK == form_has_errors \in BOOLEAN /\ linksWarn \in BOOLEAN /\ warning \in BOOLEAN

LEMMA FlagsStart == UnsavedInit => FlagsOK
<1>. SUFFICES ASSUME UnsavedInit PROVE FlagsOK
  OBVIOUS
<1>1. form_has_errors = (saved \in Invalid) /\ linksWarn = form_has_errors /\ warning = FALSE
  BY DEF UnsavedInit
<1>2. form_has_errors \in BOOLEAN
  BY <1>1
<1>. QED
  BY <1>1, <1>2 DEF FlagsOK

LEMMA FlagsKept == FlagsOK /\ [UnsavedNext]_unsavedVars => FlagsOK'
<1>. SUFFICES ASSUME FlagsOK, [UnsavedNext]_unsavedVars PROVE FlagsOK'
  OBVIOUS
<1>. USE DEF FlagsOK, pageVars
<1>1. CASE Edit
  BY <1>1 DEF Edit
<1>2. CASE ClickLink
  BY <1>2 DEF ClickLink
<1>3. CASE ClickProjectLink
  BY <1>3 DEF ClickProjectLink
<1>4. CASE CloseProjectDialog \/ ConfirmProjectDialog \/ Dismiss \/ YesSave \/ Leave \/ SaveChanges
           \/ EscapeSenderForm \/ AnswerUnseen
  BY <1>4 DEF CloseProjectDialog, ConfirmProjectDialog, Dismiss, YesSave, Leave, SaveChanges,
              EscapeSenderForm, AnswerUnseen
<1>5. CASE NoDiscard
  BY <1>5 DEF NoDiscard
<1>6. CASE Discard
  <2>1. /\ form_has_errors' = (saved \in Invalid) /\ warning' = FALSE
        /\ linksWarn' = (form_has_errors' /\ formKind = "submission")
    BY <1>6 DEF Discard, Reload, Load
  <2>2. form_has_errors' \in BOOLEAN
    BY <2>1
  <2>. QED
    BY <2>1, <2>2
<1>7. CASE Refuse
  BY <1>7 DEF Refuse, Reload, Load
<1>8. CASE Accept
  BY <1>8 DEF Accept, Reload, Load
<1>9. CASE UNCHANGED unsavedVars
  BY <1>9 DEF unsavedVars
<1>. QED
  BY <1>1, <1>2, <1>3, <1>4, <1>5, <1>6, <1>7, <1>8, <1>9 DEF UnsavedNext

LEMMA FormTypes == UnsavedSpec => []UnsavedTypeOK
<1>1. FormInv /\ FlagsOK => UnsavedTypeOK
  BY DEF FormInv, FormShape, FlagsOK, UnsavedTypeOK, Wishes
<1>. QED
  BY <1>1, FlagsStart, FlagsKept, UnsavedInvariant, PTL DEF UnsavedSpec

LEMMA SingleCounts ==
  ASSUME NEW S, Single(S)
  PROVE  Cardinality(S) <= 1
<1>1. CASE S = {}
  BY <1>1, FS_EmptySet
<1>2. CASE \E x \in S : TRUE
  <2>1. PICK x \in S : S = {x}
    BY <1>2 DEF Single
  <2>. QED
    BY <2>1, FS_Singleton
<1>. QED
  BY <1>1, <1>2

LEMMA ListTypes == ListSpec => []ListTypeOK
<1>1. PageInv => ListTypeOK
  <2>. SUFFICES ASSUME PageInv PROVE ListTypeOK
    OBVIOUS
  <2>1. ListShape
    BY DEF PageInv, ToldInv
  <2>2. \A S \in {xhr, dialog, acting} : Cardinality(S) <= 1
    BY <2>1, SingleCounts DEF ListShape, TableShape
  <2>. QED
    BY <2>1, <2>2 DEF ListShape, TableShape, ListTypeOK
<1>. QED
  BY <1>1, PageInit, PageStep, PTL DEF ListSpec

LEMMA BuilderTypes == BuilderSpec => []BuilderTypeOK
BY BuilderInvariant, BuilderFacts, PTL

LEMMA ImportTypes == ImportSpec => []ImportTypeOK
<1>1. ImportInv => ImportTypeOK
  BY ImportFacts
<1>. QED
  BY <1>1, ImportKept, PTL DEF ImportSpec

LEMMA LogTypes == LogSpec => []LogTypeOK
<1>1. LogInv => LogTypeOK
  BY DEF LogInv, LogShape
<1>. QED
  BY <1>1, LogStart, LogKept, PTL DEF LogSpec

(* Every page keeps its type, whatever is shown on it and however long.    *)
THEOREM PagesKeepTheirTypes == AppSpec => []PagesTypeOK
BY AppIsBuilt, AppIsStored, AppIsListed, AppIsShown, BuilderTypes, FormsKeepTheirType, ListTypes,
   ImportTypes, LogTypes, FormTypes, PTL DEF PagesTypeOK
=============================================================================
