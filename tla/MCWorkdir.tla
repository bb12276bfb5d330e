----------------------------- MODULE MCWorkdir ------------------------------
(* Two levels and two branchings; four seeds of queue_backup/.             *)
EXTENDS WorkdirUsers

MCFirst == <<"a", "b">>

MCCover == "a" :> [level |-> 1, branch |-> 0] @@ "b" :> [level |-> 1, branch |-> 1]
           @@ "c" :> [level |-> 2, branch |-> 0]

MCBackups == {[level |-> 1, branch |-> 2, backup |-> TRUE, name |-> "p"],
              [level |-> 2, branch |-> 0, backup |-> TRUE, name |-> "q"],
              [level |-> 2, branch |-> 0, backup |-> TRUE, name |-> "r"],
              [level |-> 2, branch |-> 1, backup |-> TRUE, name |-> "s"]}
=============================================================================
