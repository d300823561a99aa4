---------------------------- MODULE QuotaLedger ----------------------------
(***************************************************************************)
(* What the quota of a Basic account promises: each submission is admitted *)
(* or refused in one step, against exact counts.  SMS are limited on their *)
(* own and as submissions; a subject registered by SMS is given back, once *)
(* per SMS at most.                                                        *)
(***************************************************************************)
EXTENDS Integers, TLAPS

CONSTANTS MsgLimit, SubLimit

VARIABLES
  plan,      \* "Basic" or "Pro"
  sms,       \* SMS admitted
  other,     \* submissions admitted through the other channels
  back,      \* SMS given back because they registered a subject
  refusals   \* submissions turned away because of a limit

vars == <<plan, sms, other, back, refusals>>

Net == sms + other - back

Init == plan = "Basic" /\ sms = 0 /\ other = 0 /\ back = 0 /\ refusals = 0

AdmitSms ==
  /\ plan = "Basic" => sms < MsgLimit /\ Net < SubLimit
  /\ sms' = sms + 1
  /\ UNCHANGED <<plan, other, back, refusals>>

AdmitOther ==
  /\ plan = "Basic" => Net < SubLimit
  /\ other' = other + 1
  /\ UNCHANGED <<plan, sms, back, refusals>>

GiveBack ==
  /\ back < sms
  /\ back' = back + 1
  /\ UNCHANGED <<plan, sms, other, refusals>>

Refuse ==
  /\ sms >= MsgLimit \/ Net >= SubLimit
  /\ refusals' = refusals + 1
  /\ UNCHANGED <<plan, sms, other, back>>

GoPro ==
  /\ plan' = "Pro"
  /\ UNCHANGED <<sms, other, back, refusals>>

Next == AdmitSms \/ AdmitOther \/ GiveBack \/ Refuse \/ GoPro

Spec == Init /\ [][Next]_vars

-----------------------------------------------------------------------------
(* What follows from the ledger's rules alone: a Basic account never has   *)
(* more SMS or more submissions than its limits, and gives back no more    *)
(* than it took (the limits of accountmanagement/models.py).               *)
WithinAllowance ==
  /\ {sms, other, back} \subseteq Nat
  /\ back <= sms
  /\ plan = "Basic" => sms <= MsgLimit /\ Net <= SubLimit

(* The ledger keeps a Basic account within its allowance, whatever the     *)
(* limits are.                                                             *)
THEOREM LedgerKeepsAllowance ==
  ASSUME MsgLimit \in Nat, SubLimit \in Nat
  PROVE  Spec => []WithinAllowance
<1>1. Init => WithinAllowance
  BY DEF Init, WithinAllowance, Net
<1>2. WithinAllowance /\ [Next]_vars => WithinAllowance'
  <2>. SUFFICES ASSUME WithinAllowance, [Next]_vars
                PROVE  WithinAllowance'
    OBVIOUS
  <2>. USE DEF WithinAllowance, Net
  <2>1. CASE AdmitSms
    BY <2>1 DEF AdmitSms
  <2>2. CASE AdmitOther
    BY <2>2 DEF AdmitOther
  <2>3. CASE GiveBack
    BY <2>3 DEF GiveBack
  <2>4. CASE Refuse \/ UNCHANGED vars
    BY <2>4 DEF Refuse, vars
  <2>5. CASE GoPro
    BY <2>5 DEF GoPro
  <2>. QED
    BY <2>1, <2>2, <2>3, <2>4, <2>5 DEF Next
<1>. QED
  BY <1>1, <1>2, PTL DEF Spec
=============================================================================
