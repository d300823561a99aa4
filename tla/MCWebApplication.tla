-------------------------- MODULE MCWebApplication --------------------------
EXTENDS WebApplication

(* The builder: an empty title, a question of the user's own; the saved    *)
(* questions of the pages that open with some.                             *)
MCTitles == {0}
MCFirstFields ==
  [k \in {"create", "edit", "subject", "tab"} |->
     CASE k = "create"  -> <<>>
       [] k = "subject" -> <<Saved(1, 1, -2, 0, "plain"), Saved(2, 2, -4, 0, "fixed")>>
       [] OTHER         -> <<Saved(1, 1, -2, 0, "plain"), Saved(2, 2, 2, 0, "plain")>>]

(* The lists: three records, two of them found by the search "x".          *)
MCMatching == ("" :> Records) @@ ("x" :> {r \in Records : r # 2})

(* Trial numbers: an organization with two data senders, one with one.     *)
MCDataSenders == ("o" :> {1, 2}) @@ ("p" :> {1})

(* The search index: two responses of one data sender, one of which may be *)
(* edited or deleted.                                                      *)
MCAbout == (1 :> "e") @@ (2 :> "e")
MCContents == (1 :> {"a", "b"}) @@ (2 :> {"a"})
=============================================================================
