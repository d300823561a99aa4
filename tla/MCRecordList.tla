---------------------------- MODULE MCRecordList ----------------------------
EXTENDS RecordList, TLC

(* Three records, two of them found by the search "x".                     *)
MCMatching == ("" :> Records) @@ ("x" :> {r \in Records : r # 2})
=============================================================================
