----------------------------- MODULE NodeTable -----------------------------
(***************************************************************************)
(* The list of nodes of the installer: the state `nodes' of App            *)
(* (src/web-installer/app.jsx), the operations of NodeSettings             *)
(* (components/node-settings.jsx) and the modals on it, its debounced save *)
(* to the Inventory default/default and its restoration from there.        *)
(*                                                                         *)
(* Every call to the API server is at least two steps, so that what the    *)
(* user does meanwhile, and other calls, come in between.  Nothing guards  *)
(* the inventory while the server patches it: the handler reads it, the    *)
(* storage reads it again and writes it, and so once more for the name of  *)
(* the host check.  A call may fail before, between or after these.        *)
(***************************************************************************)
EXTENDS Inventory

CONSTANTS
  None,
  Saves,                \* bound: calls of saveNodesToInventory at a time
  MaxNodes,             \* bound: nodes in the list
  MaxOps,               \* bound: what the user does
  MaxFaults,            \* bound: calls that fail
  NewNodes,             \* what the user may add, a subset of Node
  EditedNodes,          \* what the user may make of a node, a subset of Node
  OsName,               \* OsName[m]: the host name a host check finds on machine m
  InitialInv            \* inventories there may be at the start

ASSUME NodeTableAssumption ==
  /\ NewNodes \subseteq Node /\ EditedNodes \subseteq Node
  /\ OsName \in [Machine -> Name \cup {"None"}]
  /\ None \notin Inventories
  /\ InitialInv \subseteq Inventories \cup {None}
  /\ MaxOps \in Nat /\ MaxFaults \in Nat /\ MaxNodes \in Nat

VARIABLES
  \* App and NodeSettings
  nodes,                \* the list, a sequence of Node
  nodesLoaded,
  timer,                \* the debounce timer of the autosave is set
  confirmDelete,        \* the rows that a dialog asks to delete, or None
  add,                  \* ManualAddModal waits for preCheckHosts: the list it
                        \* will append to and its node, or None
  load,                 \* load[l]: the call of loadNodesFromInventory at the "start"
                        \* or for a "refresh"
  save,                 \* save[s]: a call of saveNodesToInventory and the inventory `obj' that
                        \* the server holds for it; `alone', `may', the machines
                        \* it may remove, and `met', that another one wrote
                        \* since obj was read, are history
  \* the API server
  inv,                  \* the inventory, or None
  checked,              \* the last host check found host names
  \* bounds
  ops, faults,
  \* history; no guard reads it
  byUser,               \* machines the user deleted
  forgotten,            \* machines that the page by itself
  unsaved,              \* a save failed or met another one after the last good one
  crossed               \* inv was written from one that another save had replaced

page == <<nodes, nodesLoaded, timer, confirmDelete, add>>
server == <<inv, checked>>
history == <<byUser, forgotten, unsaved, crossed>>
bounds == <<ops, faults>>
vars == <<page, load, save, server, bounds, history>>

NoLoad == [at |-> "Off", list |-> << >>]
Asked == [at |-> "Asked", list |-> << >>]
Answer(list) == [at |-> "Answered", list |-> list]
NoSave == [pc |-> "Off", nodes |-> << >>, removed |-> {}, obj |-> None,
           alone |-> TRUE, may |-> {}, met |-> FALSE]
Machines(i) == IF i = None THEN {} ELSE Range(i.hosts)

\* The machines of the inventory, and of those that the server holds.
Held == Machines(inv) \cup UNION {Machines(save[s].obj) : s \in Saves}

TypeOK ==
  /\ nodes \in Seq(Node) /\ nodesLoaded \in BOOLEAN /\ timer \in BOOLEAN
  /\ confirmDelete = None \/ confirmDelete \subseteq 1 .. MaxNodes
  /\ add = None \/ add \in [base : Seq(Node), node : Node]
  /\ load \in [{"start", "refresh"} -> [at : {"Off", "Asked", "Answered"}, list : Seq(Node)]]
  /\ save \in [Saves -> [pc : {"Off", "Post", "Get", "Patch", "Merge", "Write", "Check", "Stamp"},
                         nodes : Seq(Node), removed : SUBSET Name,
                         obj : Inventories \cup {None}, alone : BOOLEAN,
                         may : SUBSET Machine, met : BOOLEAN]]
  /\ inv = None \/ inv \in Inventories
  /\ checked \in BOOLEAN /\ unsaved \in BOOLEAN /\ crossed \in BOOLEAN
  /\ byUser \subseteq Machine /\ forgotten \subseteq Machine
  /\ ops \in 0 .. MaxOps /\ faults \in 0 .. MaxFaults

-----------------------------------------------------------------------------
\* The user does something; a call fails.
Acts == ops < MaxOps /\ ops' = ops + 1 /\ UNCHANGED faults
Fails == faults < MaxFaults /\ faults' = faults + 1 /\ UNCHANGED ops

\* The state `nodes'.

\* setNodes: a new array, so that the effect of App sets its timer anew.
SetNodes(list) == nodes' = list /\ timer' = nodesLoaded

\* What the user did not delete and the new list does not have any more.
Forget(list) == forgotten' = forgotten \cup (AddrsIn(nodes) \ (AddrsIn(list) \cup byUser))

-----------------------------------------------------------------------------
\* Restoring the list.

HostNames == [n \in Name |->
                IF checked /\ n \in DOMAIN inv.hosts THEN OsName[inv.hosts[n]] ELSE "None"]

\* listInventoryHosts; any error is an empty list, and so is an inventory that
\* is not there.
AnswerLoad(l) ==
  /\ load[l] = Asked
  /\ load' = [load EXCEPT ![l] =
                Answer(IF inv = None THEN << >>
                       ELSE InventoryHostsToNodes(ListHosts(inv, HostNames)))]
  /\ UNCHANGED <<bounds, page, save, server, history>>

FailLoad(l) ==
  /\ Fails
  /\ load[l] = Asked
  /\ load' = [load EXCEPT ![l] = Answer(<< >>)]
  /\ UNCHANGED <<page, save, server, history>>

Answered(l) == load[l].at = "Answered"

\* The effect at the start: a list that is not empty replaces what is there.
Restore ==
  /\ Answered("start")
  /\ nodes' = IF load["start"].list # << >> THEN load["start"].list ELSE nodes
  /\ nodesLoaded' = TRUE /\ timer' = TRUE
  /\ load' = [load EXCEPT !["start"] = NoLoad]
  /\ forgotten' = forgotten \cup ((AddrsIn(nodes) \cup Held) \ (AddrsIn(nodes') \cup byUser))
  /\ UNCHANGED <<bounds, confirmDelete, add, save, server, byUser, unsaved, crossed>>

\* onRefresh
Refresh ==
  /\ Acts
  /\ load["refresh"] = NoLoad
  /\ load' = [load EXCEPT !["refresh"] = Asked]
  /\ UNCHANGED <<nodes, nodesLoaded, timer, confirmDelete, add, save, server, history>>

\* ... and what it found: an empty answer keeps the list.  The check of the
\* connections that follows maps the list to itself with other statuses, which
\* sets the timer once more.
Refreshed ==
  /\ Answered("refresh")
  /\ LET list == IF load["refresh"].list # << >> THEN load["refresh"].list ELSE nodes
     IN  SetNodes(list) /\ Forget(list)
  /\ load' = [load EXCEPT !["refresh"] = NoLoad]
  /\ UNCHANGED <<bounds, nodesLoaded, confirmDelete, add, save, server, byUser, unsaved, crossed>>

-----------------------------------------------------------------------------
\* NodeSettings.

\* handleConfirm of ManualAddModal asks for preCheckHosts; what it calls then
\* is the onAdd of this render, which appends to the list of this render.
StartAdd(node) ==
  /\ Acts
  /\ add = None /\ Len(nodes) < MaxNodes
  /\ add' = [base |-> nodes, node |-> node]
  /\ UNCHANGED <<nodes, nodesLoaded, timer, confirmDelete, load, save, server,
                 history>>

\* The answer of preCheckHosts is not looked at.
FinishAdd ==
  /\ add # None
  /\ LET list == Append(add.base, add.node)
     IN  /\ SetNodes(list)
         /\ byUser' = byUser \ {add.node.addr}
         /\ forgotten' = (forgotten \cup (AddrsIn(nodes) \ byUser)) \ AddrsIn(list)
  /\ add' = None
  /\ UNCHANGED <<bounds, nodesLoaded, confirmDelete, load, save, server, unsaved, crossed>>

\* preCheckHosts throws: the modal stays.
FailAdd ==
  /\ Fails
  /\ add # None /\ add' = None
  /\ UNCHANGED <<nodes, nodesLoaded, timer, confirmDelete, load, save, server,
                 history>>

\* updateNode with what EditNodeModal returns: any name, address and role, also
\* those of another node.  The row is a number, too.
EditNode(i, node) ==
  /\ Acts
  /\ i \in DOMAIN nodes /\ nodes[i] # node
  /\ LET list == [nodes EXCEPT ![i] = node]
     IN  /\ SetNodes(list)
         /\ byUser' = (byUser \cup AddrsIn(nodes)) \ AddrsIn(list)
         /\ forgotten' = forgotten \ AddrsIn(list)
  /\ UNCHANGED <<nodesLoaded, confirmDelete, add, load, save, server, unsaved, crossed>>

\* removeNode and removeBatch ask first.  Rows are numbers: the selection and
\* the dialog do not follow the list when it changes, so that they may name any
\* rows, or none.
AskDelete(rows) ==
  /\ Acts
  /\ confirmDelete = None
  /\ confirmDelete' = rows
  /\ UNCHANGED <<nodes, nodesLoaded, timer, add, load, save, server, history>>

Without(list, rows) == Filter(list, DOMAIN list \ rows)

DoConfirmDelete ==
  /\ confirmDelete # None
  /\ LET list == Without(nodes, confirmDelete)
     IN  /\ SetNodes(list)
         /\ byUser' = byUser \cup (AddrsIn(nodes) \ AddrsIn(list))
  /\ confirmDelete' = None
  /\ UNCHANGED <<bounds, nodesLoaded, add, load, save, server, forgotten, unsaved, crossed>>

CancelDelete ==
  /\ confirmDelete # None /\ confirmDelete' = None
  /\ UNCHANGED <<bounds, nodes, nodesLoaded, timer, add, load, save, server, history>>

-----------------------------------------------------------------------------
\* saveNodesToInventory.

Idle == \A s \in Saves : save[s].pc = "Off"

\* History: the machines whose name another node of the list takes.
Shadowed == AddrsIn(nodes) \ Range(BuildInventory(nodes).hosts)

\* Mutant: the list before the last addition is saved.
StartedStale(s, may) ==
  [t \in Saves |->
     IF t = s THEN [NoSave EXCEPT !.pc = "Post", !.nodes = SubSeq(nodes, 1, Len(nodes) - 1),
                                  !.alone = Idle, !.may = may]
     ELSE IF save[t].pc = "Off" THEN save[t] ELSE [save[t] EXCEPT !.alone = FALSE]]

\* A save that starts while another one is under way: neither is alone.
Started(s, may) ==
  [t \in Saves |->
     IF t = s THEN [NoSave EXCEPT !.pc = "Post", !.nodes = nodes, !.alone = Idle, !.may = may]
     ELSE IF save[t].pc = "Off" THEN save[t] ELSE [save[t] EXCEPT !.alone = FALSE]]

\* A save ends; a good one that was alone leaves nothing unsaved.
Ended(s, good) ==
  /\ save' = [save EXCEPT ![s] = NoSave]
  /\ unsaved' = ~(good /\ save[s].alone)

\* The call was handled; its answer may get lost.
Answers(s) == \/ Ended(s, TRUE) /\ UNCHANGED bounds
              \/ Ended(s, FALSE) /\ Fails

\* The timer of the autosave: its list is that of the last change.
FireTimer(s) ==
  /\ timer /\ save[s].pc = "Off"
  /\ timer' = FALSE
  /\ save' = Started(s, byUser \cup forgotten \cup Shadowed)
  /\ UNCHANGED <<bounds, nodes, nodesLoaded, confirmDelete, add, load, server, history>>

\* goNext saves at once what is in the list, even before it was restored.
GoNextSaves(s) ==
  /\ Acts
  /\ save[s].pc = "Off"
  /\ save' = Started(s, byUser \cup forgotten \cup Shadowed
                         \cup (IF nodesLoaded THEN {} ELSE Machines(inv)))
  /\ UNCHANGED <<page, load, server, history>>

\* createInventory.  The API server keeps lists as they are.
Post(s) ==
  /\ save[s].pc = "Post"
  /\ IF inv = None
       THEN /\ inv' = BuildInventory(save[s].nodes) /\ checked' = FALSE
            /\ Answers(s)
       ELSE /\ save' = [save EXCEPT ![s].pc = "Get"]
            /\ UNCHANGED <<server, unsaved, bounds>>
  /\ UNCHANGED <<page, load, byUser, forgotten, crossed>>

\* Mutant: nothing is ever removed.
GetNothing(s) ==
  /\ save[s].pc = "Get"
  /\ save' = [save EXCEPT ![s].pc = "Patch"]
  /\ UNCHANGED <<page, load, server, bounds, history>>

\* getInventory: what is there and not in the list is to be removed.
Get(s) ==
  /\ save[s].pc = "Get"
  /\ save' = [save EXCEPT ![s].pc = "Patch",
                         ![s].removed = DOMAIN inv.hosts \ DOMAIN BuildInventory(save[s].nodes).hosts]
  /\ UNCHANGED <<bounds, page, load, server, history>>

\* ... and if it fails nothing is.
FailGet(s) ==
  /\ Fails
  /\ save[s].pc = "Get"
  /\ save' = [save EXCEPT ![s].pc = "Patch", ![s].alone = FALSE]
  /\ UNCHANGED <<page, load, server, history>>

Merged(i, s) == MergePatch(i, BuildInventory(save[s].nodes), save[s].removed)

\* The server gets an inventory for a save and goes on to pc.
Holds(s, pc, i) == save' = [save EXCEPT ![s].pc = pc, ![s].obj = i]

\* patchInventory: the handler reads the inventory, merges and looks at the
\* outcome.
Patch(s) ==
  /\ save[s].pc = "Patch"
  /\ IF UniqueHosts(Merged(inv, s))
       THEN Holds(s, "Merge", inv) /\ UNCHANGED unsaved
       ELSE Ended(s, FALSE)
  /\ UNCHANGED <<bounds, page, load, server, byUser, forgotten, crossed>>

\* ... the storage reads it once more, and makes there the changes that the
\* handler found.
Merge(s) ==
  /\ save[s].pc = "Merge"
  /\ \E reordered \in BOOLEAN :
       Holds(s, "Write", ApplyChanges(save[s].obj, Merged(save[s].obj, s), inv, reordered))
  /\ UNCHANGED <<bounds, page, load, server, history>>

\* History: the saves whose inventory is not the one of the server any more.
Written(s, record) ==
  save' = [t \in Saves |-> IF t = s THEN record
                           ELSE IF save[t].obj = None THEN save[t]
                           ELSE [save[t] EXCEPT !.met = TRUE]]

\* ... and writes what it has, whatever was written meanwhile.
Write(s) ==
  /\ save[s].pc = "Write"
  /\ inv' = save[s].obj /\ crossed' = save[s].met
  /\ Written(s, [save[s] EXCEPT !.pc = "Check", !.obj = None, !.met = FALSE])
  /\ UNCHANGED <<bounds, page, load, checked, byUser, forgotten, unsaved>>

\* promise=false: the handler goes on when the host check has ended.  It puts
\* its name into the inventory, which the storage reads ...
Check(s) ==
  /\ save[s].pc = "Check"
  /\ Holds(s, "Stamp", inv)
  /\ UNCHANGED <<bounds, page, load, server, history>>

\* ... and writes.  The answer may get lost; what getInventory confirms then
\* changes nothing.
Stamp(s) ==
  /\ save[s].pc = "Stamp"
  /\ inv' = save[s].obj /\ checked' \in BOOLEAN
  /\ crossed' = (crossed \/ save[s].met)
  /\ Written(s, NoSave)
  /\ \/ unsaved' = ~save[s].alone /\ UNCHANGED bounds
     \/ unsaved' = TRUE /\ Fails
  /\ UNCHANGED <<page, load, byUser, forgotten>>

\* The call fails before the server has written anything, or at the host check:
\* the save ends.
FailCall(s) ==
  /\ Fails
  /\ save[s].pc \in {"Post", "Patch", "Check"}
  /\ Ended(s, FALSE)
  /\ UNCHANGED <<page, load, server, byUser, forgotten, crossed>>

-----------------------------------------------------------------------------
Init ==
  /\ nodes = << >> /\ nodesLoaded = FALSE /\ timer = FALSE /\ confirmDelete = None /\ add = None
  /\ load = [start |-> Asked, refresh |-> NoLoad]
  /\ save = [s \in Saves |-> NoSave]
  /\ inv \in InitialInv /\ checked \in BOOLEAN
  /\ byUser = {} /\ forgotten = {} /\ unsaved = TRUE /\ crossed = FALSE
  /\ ops = 0 /\ faults = 0

User == \/ Refresh \/ FinishAdd \/ FailAdd \/ DoConfirmDelete \/ CancelDelete
        \/ \E node \in NewNodes : StartAdd(node)
        \/ \E i \in 1 .. MaxNodes, node \in EditedNodes : EditNode(i, node)
        \/ \E rows \in SUBSET (1 .. MaxNodes) \ {{}} : AskDelete(rows)

Loads == \/ Restore \/ Refreshed
         \/ \E l \in {"start", "refresh"} : AnswerLoad(l) \/ FailLoad(l)

Save(s) == \/ FireTimer(s) \/ GoNextSaves(s) \/ Post(s) \/ Get(s) \/ FailGet(s)
           \/ Patch(s) \/ Merge(s) \/ Write(s) \/ Check(s) \/ Stamp(s) \/ FailCall(s)

Next == User \/ Loads \/ \E s \in Saves : Save(s)

\* Timers fire and calls come to an end.
Calls(s) == Post(s) \/ Get(s) \/ Patch(s) \/ Merge(s) \/ Write(s) \/ Check(s) \/ Stamp(s)
Fairness == \A s \in Saves : WF_vars(FireTimer(s)) /\ WF_vars(Calls(s))

Spec == Init /\ [][Next]_vars
FairSpec == Spec /\ Fairness

-----------------------------------------------------------------------------
\* Every group of the inventory names hosts that are there, and `all' with
\* them, however the calls of saves overlap, fail or come late: an installation
\* never finds a group with a host it does not know.  Only what was written
\* from an inventory that another save had replaced may be otherwise.
GroupsResolve ==
  (inv # None /\ ~crossed) =>
    /\ inv.kube_control_plane \cup inv.kube_worker \cup inv.all \subseteq DOMAIN inv.hosts
    /\ inv.kube_control_plane \cup inv.kube_worker \subseteq inv.all

\* The same without the exception, which does not hold: of two saves of a server
\* with n1 and n2 one takes n2 away, the other one adds n3 and lists n2.
GroupsAlwaysResolve ==
  inv # None => inv.kube_control_plane \cup inv.kube_worker \cup inv.all \subseteq DOMAIN inv.hosts

\* Once a save went through that no other one met, and nothing is to be saved,
\* the inventory is the list on the page.
LastSaveWins ==
  (nodesLoaded /\ ~timer /\ Idle /\ ~unsaved) => inv = BuildInventory(nodes)

Removed == Machines(inv) \ Machines(inv')

\* A machine that the user keeps leaves the inventory only because the page
\* had it when the save began (an empty or failed start, an answer or an
\* addition that came late, a save before the start, two nodes of one name) or
\* because saves met.
LossHasCause ==
  [][Removed # {} =>
       \E s \in Saves : /\ save[s].pc \in {"Write", "Stamp"} /\ save'[s].pc # save[s].pc
                        /\ save[s].alone => Removed \subseteq save[s].may]_vars

\* What the page promises: it restores the list, and empties it by mistake
\* never.
HostsKept == [][Removed \subseteq byUser]_vars
=============================================================================
