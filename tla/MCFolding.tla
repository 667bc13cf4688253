------------------------------- MODULE MCFolding -------------------------------
(* Instances of Folding for TLC.                                             *)
EXTENDS Folding

\* ls1, ls2 and ls3 are outputs of one command at different times: ls2 has one
\* line more than ls1, ls3 many more.
Listings == [c1 |-> <<"ls1", "file", "ls2", "ls3", "file">>,
             c2 |-> <<"file", "diff", "reply", "diff", "ls1">>]
ListingLines ==
    [t \in {"ls1", "ls2", "ls3", "file", "diff", "reply"} |->
        CASE t = "ls1" -> 1..3
          [] t = "ls2" -> 1..4
          [] t = "ls3" -> 1..7
          [] OTHER -> {}]
=============================================================================
