------------------------- MODULE MCSubmissionQuota -------------------------
(***************************************************************************)
(* Instances of SubmissionQuota for TLC: which requests arrive.            *)
(***************************************************************************)
EXTENDS SubmissionQuota, TLC

CONSTANTS r1, r2, r3, r4, m1, m2

(* One worker: SMS, a sheet and the web SMS tester in any order;           *)
(* several: two SMS (each may turn out to be a registration), a form from  *)
(* a smartphone and the receipt of a reply.                                *)
FourRequests       == {r1, r2, r3, r4}
SmsSmsImportTest   == r1 :> "sms" @@ r2 :> "sms" @@ r3 :> "import" @@ r4 :> "websms"
SmsSmsPhoneReceipt == r1 :> "sms" @@ r2 :> "sms" @@ r3 :> "phone" @@ r4 :> "receipt"
(* A form from the web, and no receipt.                                    *)
ThreeRequests      == {r1, r2, r3}
SmsSmsWeb          == r1 :> "sms" @@ r2 :> "sms" @@ r3 :> "web"

OneRow3  == [r \in ThreeRequests |-> 1]
OneRow4  == [r \in FourRequests |-> 1]
TwoRows4 == [r \in FourRequests |-> 2]
(* r1 and r2 are one SMS that is delivered twice.                          *)
SameMessage  == r1 :> m1 @@ r2 :> m1 @@ r3 :> m2
SameMessage4 == r1 :> m1 @@ r2 :> m1 @@ r3 :> m2 @@ r4 :> m2
=============================================================================
