---------------------------- MODULE BroadcastSms ----------------------------
(***************************************************************************)
(* The page that sends a text message to the data senders of a project, to *)
(* all of them, or to other people whose numbers the user types, and the   *)
(* view that sends it.  The page counts the recipients to ask before a     *)
(* large sending, and validates the numbers; the view sends to everybody   *)
(* the form names, and tells which numbers failed.                         *)
(***************************************************************************)
EXTENDS Integers, SequencesExt

CONSTANTS
  Senders, Associated,   \* data senders there may be, and those of the project
  Numbers,               \* numbers one may type, besides the blank one ""
  Hosted,                \* numbers the provider refuses: those that receive submissions
  TooLong,               \* numbers with too many digits
  Many,                  \* recipients from which the page asks: 100
  MaxTyped, MaxSendings  \* bounds: numbers typed, requests under way

ASSUME BroadcastAssumption ==
  /\ IsFiniteSet(Senders) /\ Associated \subseteq Senders
  /\ Hosted \subseteq Numbers /\ TooLong \subseteq Numbers
  /\ {Many, MaxTyped, MaxSendings} \subseteq Nat \ {0}

VARIABLES
  senders,               \* of the account
  to,                    \* #id_to
  others,                \* #id_others: the numbers, in order
  text,                  \* #sms_content is not empty
  counts,                \* the "number" attributes of the options
  telephoneRules,        \* the rules of #id_others are added
  confirmOpen,           \* #more_people_warning
  failed_numbers,        \* of the page
  sendings,              \* requests under way; the page awaits the last one
  sent                   \* history: what the view has just sent, or {}

broadcastVars == <<senders, to, others, text, counts, telephoneRules, confirmOpen,
                   failed_numbers, sendings, sent>>
formVarsB == <<to, others, text, telephoneRules>>

CountOf(t) == IF t = "All" THEN Cardinality(senders) ELSE Cardinality(Associated)
Loaded     == [t \in {"All", "Associated"} |-> CountOf(t)]

BroadcastInit ==
  /\ senders = Associated
  /\ to = "Associated" /\ others = <<>> /\ text = FALSE
  /\ counts = Loaded
  /\ telephoneRules = FALSE /\ confirmOpen = FALSE /\ failed_numbers = {}
  /\ sendings = <<>> /\ sent = {}

isAdditionalSelected == to = "Additional"

NothingSent == sent' = {}

-----------------------------------------------------------------------------
(* The page.                                                               *)

TypeText ==
  /\ ~confirmOpen
  /\ text' = ~text
  /\ UNCHANGED <<senders, to, others, counts, telephoneRules, confirmOpen,
                 failed_numbers, sendings>>
  /\ NothingSent

(* The column of the numbers is hidden unless "Other People" is selected.  *)
TypeNumber == \E n \in Numbers \cup {""} :
  /\ ~confirmOpen /\ isAdditionalSelected /\ Len(others) < MaxTyped
  /\ others' = Append(others, n)
  /\ UNCHANGED <<senders, to, text, counts, telephoneRules, confirmOpen,
                 failed_numbers, sendings>>
  /\ NothingSent

(* clearContent: the rules stay.                                           *)
Clear ==
  /\ ~confirmOpen
  /\ others' = <<>> /\ text' = FALSE
  /\ UNCHANGED <<senders, to, counts, telephoneRules, confirmOpen,
                 failed_numbers, sendings>>
  /\ NothingSent

(* processAddtionalColumnValidation                                        *)
ChooseTo == \E t \in {"All", "Associated", "Additional"} \ {to} :
  /\ ~confirmOpen
  /\ to' = t
  /\ telephoneRules' = (t = "Additional")
  /\ others' = IF t = "Additional" THEN others ELSE <<>>
  /\ UNCHANGED <<senders, text, counts, confirmOpen, failed_numbers, sendings>>
  /\ NothingSent

(* The rule on hosted numbers knows the failed numbers of the page.        *)
NumbersValid ==
  telephoneRules => /\ others \notin {<<>>, <<"">>}   \* required
                    /\ ToSet(others) \cap (TooLong \cup failed_numbers) = {}

getPeopleNumber == IF isAdditionalSelected THEN Len(others) ELSE counts[to]

Send(confirmed) ==
  /\ Len(sendings) < MaxSendings   \* bound
  /\ sendings' = Append([i \in DOMAIN sendings |-> [sendings[i] EXCEPT !.awaited = FALSE]],
       [to |-> to, others |-> others, awaited |-> TRUE,
        confirmed |-> confirmed, counted |-> getPeopleNumber])   \* history

(* A mutant of SubmitMessage: only more than Many ask.                     *)
SubmitAboveMany ==
  /\ ~confirmOpen /\ text /\ NumbersValid
  /\ IF getPeopleNumber > Many
     THEN confirmOpen' = TRUE /\ UNCHANGED sendings
     ELSE Send(FALSE) /\ UNCHANGED confirmOpen
  /\ UNCHANGED <<senders, formVarsB, counts, failed_numbers>>
  /\ NothingSent

(* submitHandler.  Nothing blocks the page: the button may be clicked      *)
(* again before the answer comes.                                          *)
SubmitMessage ==
  /\ ~confirmOpen /\ text /\ NumbersValid
  /\ IF getPeopleNumber >= Many
     THEN confirmOpen' = TRUE /\ UNCHANGED sendings
     ELSE Send(FALSE) /\ UNCHANGED confirmOpen
  /\ UNCHANGED <<senders, formVarsB, counts, failed_numbers>>
  /\ NothingSent

Continue ==
  /\ confirmOpen
  /\ confirmOpen' = FALSE
  /\ Send(TRUE)
  /\ UNCHANGED <<senders, formVarsB, counts, failed_numbers>>
  /\ NothingSent

DismissConfirm ==
  /\ confirmOpen
  /\ confirmOpen' = FALSE
  /\ UNCHANGED <<senders, formVarsB, counts, failed_numbers, sendings>>
  /\ NothingSent

-----------------------------------------------------------------------------
(* The view.                                                               *)

(* _get_data_senders                                                       *)
DataSendersOf(t) ==
  IF t = "All" THEN senders ELSE IF t = "Associated" THEN Associated ELSE {}

(* The places of the numbers that are not blank.                           *)
clean_others(numbers) == {i \in DOMAIN numbers : numbers[i] # ""}

(* helper.broadcast_message: to the data senders, and to every number that *)
(* was typed.  The page is rendered with an empty form, or with the same   *)
(* one when numbers failed or no provider was found.  The answer to a      *)
(* request the page replaced by another is dropped.                        *)
BroadcastMessage ==
  \E i \in DOMAIN sendings, provider \in BOOLEAN, unreached \in SUBSET Hosted :
  LET s      == sendings[i]
      typed  == clean_others(s.others)
      called == {s.others[k] : k \in typed}
      failed == IF provider THEN (called \cap Hosted) \cup unreached ELSE {}
      good   == provider /\ failed = {}
  IN /\ unreached # {} => DataSendersOf(s.to) # {}
     /\ sent' = {[to |-> s.to, numbers |-> called, confirmed |-> s.confirmed,
                  people |-> Cardinality(DataSendersOf(s.to)) + Cardinality(typed),
                  grown |-> s.to # "Additional" /\ CountOf(s.to) > s.counted]}
     /\ sendings' = RemoveAt(sendings, i)
     /\ IF ~s.awaited
        THEN UNCHANGED <<formVarsB, counts, confirmOpen, failed_numbers>>
        ELSE /\ to' = IF good THEN "Associated" ELSE s.to
             /\ others' = IF good THEN <<>> ELSE s.others
             /\ text' = ~good
             /\ telephoneRules' = (to' = "Additional")
             /\ counts' = Loaded /\ confirmOpen' = FALSE
             /\ failed_numbers' = failed
     /\ UNCHANGED senders

SendersChange ==
  /\ senders' \in {Associated \cup S : S \in SUBSET Senders} \ {senders}
  /\ UNCHANGED <<formVarsB, counts, confirmOpen, failed_numbers, sendings>>
  /\ NothingSent

BroadcastNext ==
  \/ TypeText \/ TypeNumber \/ Clear \/ ChooseTo \/ SubmitMessage \/ Continue \/ DismissConfirm
  \/ BroadcastMessage \/ SendersChange

BroadcastSpec == BroadcastInit /\ [][BroadcastNext]_broadcastVars

-----------------------------------------------------------------------------
(* A message that goes to many people was confirmed, although the page     *)
(* counts what it shows and the view what it finds, unless there are more  *)
(* data senders than when the page was loaded.                             *)
BulkConfirmed == \A s \in sent : ~s.grown /\ s.people >= Many => s.confirmed

(* The view sends to the numbers of the form whatever the choice: they are *)
(* there only when "Other People" was chosen.                              *)
OthersOnlyWhenChosen == \A s \in sent : s.numbers # {} => s.to = "Additional"

(* A number that failed is not sent to again from the page that says so.   *)
FailedNotRetried ==
  Len(sendings') > Len(sendings) => ToSet(others) \cap failed_numbers = {}

(* A message goes where the user agreed to and to a failed number once.    *)
SentAsAgreed ==
  [][BulkConfirmed' /\ OthersOnlyWhenChosen' /\ FailedNotRetried]_broadcastVars
=============================================================================
