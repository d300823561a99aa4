------------------------- MODULE MCAccountLifecycle -------------------------
(***************************************************************************)
(* Instances of AccountLifecycle for TLC.  Year and MaxDay are given in    *)
(* the .cfg files: two trial years and a day, so that an account can be    *)
(* activated, expire, be re-opened and expire again.                       *)
(***************************************************************************)
EXTENDS AccountLifecycle
=============================================================================
