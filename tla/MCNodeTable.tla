---------------------------- MODULE MCNodeTable ----------------------------
\* NodeTable with two machines.  The host check finds another name on the
\* first one, so that its name changes when the list is restored;
\* the second one has no role yet, as after a scan.
EXTENDS NodeTable, TLC

CONSTANTS m1, m2

MCNewNodes == {[name |-> "n1", addr |-> m1, role |-> "master"],
               [name |-> "n2", addr |-> m2, role |-> "None"]}
\* A node gets another role; a node gets the name of another one, or a row that
\* is another one by now its address.
MCEditedNodes == {[name |-> "n1", addr |-> m1, role |-> "worker"],
                  [name |-> "n1", addr |-> m2, role |-> "None"]}
MCNameOrder == <<"n2", "n1", "h1">>
MCOsName == (m1 :> "h1") @@ (m2 :> "None")
MCInitialInv == {None, [hosts |-> [n1 |-> m1, n2 |-> m2], all |-> {"n1", "n2"},
                        kube_control_plane |-> {"n1"}, kube_worker |-> {"n1"}]}
=============================================================================
