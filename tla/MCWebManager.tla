---------------------------- MODULE MCWebManager ----------------------------
(* Two POST requests, with two names or one, with the same schema label or   *)
(* none, and a DELETE request for the first name.                            *)
EXTENDS WebManager

MCPost == {1, 2}
MCDeletes == {1}
MCClients == {Poster(p) : p \in MCPost} \cup {Runner(p) : p \in MCPost}
             \cup {Deleter(d) : d \in MCDeletes}

Asks(k, l, n) == [name |-> k, label |-> l, tasks |-> n]
TwoNames == {<<Asks("a", "install", 1), Asks("b", "install", 1)>>,
             <<Asks("b", "install", 1), Asks("a", "install", 1)>>}
OneName == {<<Asks("a", "none", 0), Asks("a", "none", 0)>>}
MCRequests == TwoNames \cup OneName
MCTarget == [d \in MCDeletes |-> "a"]
=============================================================================
