------------------------------ MODULE NodeCalls ------------------------------
(* A list of nodes that is saved to the inventory and loaded from it again,  *)
(* without a host check and with nothing in between.                         *)
EXTENDS Inventory, PureCalls

CONSTANT NodeLists  \* the lists that may be saved

ASSUME NodeCallsAssumption ==
    /\ NodeLists \subseteq Seq(Node)
    /\ \A ns \in NodeLists :
         /\ "localhost" \notin NamesIn(ns)
         /\ \A i, j \in DOMAIN ns : ns[i].name = ns[j].name => i = j

NodeListCalls == [op : {"nodes"}, nodes : NodeLists]

\* saveNodesToInventory, then loadNodesFromInventory.
SaveAndLoad ==
    CallStep("nodes", InventoryHostsToNodes(ListHosts(BuildInventory(call.nodes),
                                                      [n \in Name |-> "None"])))

NodeCallsSpec == CallInit(NodeListCalls) /\ [][SaveAndLoad]_callVars

\* A list of nodes comes back from the inventory with its machines, names and
\* roles, but that masters are both when there is no worker.
RolesReturn ==
    answer.op = "nodes" =>
      Range(answer.out) =
        {[n EXCEPT !.role = IF @ = "master" /\ ~ \E m \in Range(call.nodes) : IsWorker(m)
                              THEN "both" ELSE @] : n \in Range(call.nodes)}
=============================================================================
