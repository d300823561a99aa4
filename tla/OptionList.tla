----------------------------- MODULE OptionList -----------------------------
(***************************************************************************)
(* The choices of a multiple choice question on the page where a           *)
(* questionnaire is edited.  A choice is stored in the answers as its      *)
(* letters, "a" to "z", "1a" to "1z", "2a"..., which the page gives by     *)
(* position: removing a choice moves the letters of the later ones.        *)
(***************************************************************************)
EXTENDS Integers, SequencesExt

CONSTANTS
  Letters,       \* number of letters: 26
  MaxOptions     \* bound: choices of the question

ASSUME OptionAssumption == Letters \in Nat \ {0} /\ MaxOptions \in Nat \ {0}

VARIABLES
  options,          \* choices(): [id, val], id being what the text says
  originals,        \* [val -> id] of selectedQuestion().options.choices
  is_edit,          \* the questionnaire was saved before
  optionsChanged,   \* DW.questionnaire_was_changed
  lastId            \* choices written so far

optionVars == <<options, originals, is_edit, optionsChanged, lastId>>

(* The values as pairs: the digit, 0 when there is none, and the letter.   *)
FirstValue == <<0, 1>>
next_option_value(v) ==
  IF v[2] = Letters THEN <<v[1] + 1, 1>> ELSE <<v[1], v[2] + 1>>
After(v, k) ==
  LET value[j \in 0..k] == IF j = 0 THEN v ELSE next_option_value(value[j-1])
  IN value[k]
ValuesOf(n)   == [i \in 1..n |-> After(FirstValue, i - 1)]

OptionInit == \E n \in 1..MaxOptions :
  /\ options = [i \in 1..n |-> [id |-> i, val |-> ValuesOf(n)[i]]]
  /\ originals = options
  /\ is_edit \in BOOLEAN /\ optionsChanged = FALSE /\ lastId = n

addOptionToQuestion ==
  /\ Len(options) < MaxOptions /\ lastId < 2 * MaxOptions   \* bounds
  /\ lastId' = lastId + 1
  /\ options' = Append(options,
       [id |-> lastId', val |-> IF options = <<>> THEN FirstValue
                                ELSE next_option_value(Last(options).val)])
  /\ UNCHANGED <<originals, is_edit, optionsChanged>>

(* The later choices are given the values from that of the removed one on. *)
Shifted(i) ==
  [j \in DOMAIN options |->
     IF j > i THEN [options[j] EXCEPT !.val = After(options[i].val, j - i - 1)] ELSE options[j]]

(* A mutant of removeOptionFromQuestion: the last removal decides.         *)
removeOptionForgetting == \E i \in DOMAIN options :
  /\ Len(options) > 1
  /\ optionsChanged' = (is_edit /\ \E j \in DOMAIN originals : originals[j].val = options[i].val)
  /\ options' = RemoveAt(Shifted(i), i)
  /\ UNCHANGED <<originals, is_edit, lastId>>

(* checkForQuestionnaireChange looks for the value among those the         *)
(* question was loaded with.                                               *)
removeOptionFromQuestion == \E i \in DOMAIN options :
  /\ Len(options) > 1   \* choiceCanBeDeleted
  /\ optionsChanged' = (optionsChanged \/
       (is_edit /\ \E j \in DOMAIN originals : originals[j].val = options[i].val))
  /\ options' = RemoveAt(Shifted(i), i)
  /\ UNCHANGED <<originals, is_edit, lastId>>

OptionNext == addOptionToQuestion \/ removeOptionFromQuestion
OptionSpec == OptionInit /\ [][OptionNext]_optionVars

-----------------------------------------------------------------------------
(* The choices have the values of their positions, whatever was added and  *)
(* removed, so that an answer stands for one choice.                       *)
ValuesFollowPositions ==
  \A i \in DOMAIN options : options[i].val = ValuesOf(Len(options))[i]

(* When a value that may stand in answers means another choice than it did *)
(* when the page was opened, or none, the page knows that the              *)
(* questionnaire has changed and will say so when it is saved.             *)
MeaningChangeNoticed ==
  is_edit => \A o \in ToSet(originals) : (o \in ToSet(options)) \/ optionsChanged

(* The answers collected can be read with the choices of the page, or the  *)
(* page says that they cannot.                                             *)
AnswersStayReadable == ValuesFollowPositions /\ MeaningChangeNoticed
=============================================================================
