----------------------------- MODULE Inventory -----------------------------
(***************************************************************************)
(* How the page and the API server turn node lists into inventories and    *)
(* back: buildInventory and inventoryHostsToNodes of                       *)
(* src/web-installer/app.jsx, and what the inventory handler of the web    *)
(* server does with a merge patch and a list of hosts.  Credentials, ports *)
(* and architectures are data and left out; a machine stands for its       *)
(* address.                                                                *)
(***************************************************************************)
EXTENDS Naturals, Sequences, Functions, FiniteSetsExt

CONSTANTS Machine,      \* the addresses of hosts
          NameOrder     \* the names of hosts, from the highest to the lowest

ASSUME InventoryAssumption == NameOrder \in Seq(Range(NameOrder))

Name == Range(NameOrder)
Role == {"master", "worker", "both", "None"}
Node == [name : Name, addr : Machine, role : Role]

\* The elements of s at the positions P, in their order.
Filter(s, P) ==
  LET kept[k \in 0 .. Len(s)] ==
        IF k = 0 THEN << >>
        ELSE IF k \in P THEN Append(kept[k - 1], s[k]) ELSE kept[k - 1]
  IN  kept[Len(s)]

NamesIn(nodes) == {nodes[i].name : i \in DOMAIN nodes}
AddrsIn(nodes) == {nodes[i].addr : i \in DOMAIN nodes}

IsMaster(node) == node.role \in {"master", "both"}
IsWorker(node) == node.role \in {"worker", "both"}

\* A record of the server: who has which address, and the groups.
Inventories ==
  [hosts : UNION {[names -> Machine] : names \in SUBSET Name}, all : SUBSET Name,
   kube_control_plane : SUBSET Name, kube_worker : SUBSET Name]

\* A later node with the same name takes the place of an earlier one.
HostOf(nodes, n) == nodes[Max({i \in DOMAIN nodes : nodes[i].name = n})].addr

\* etcd, k8s_cluster, nfs and image_registry follow from these groups.
BuildInventory(nodes) ==
  LET masters == {n.name : n \in {m \in Range(nodes) : IsMaster(m)}}
      workers == {n.name : n \in {m \in Range(nodes) : IsWorker(m)}}
  IN  [hosts |-> [n \in NamesIn(nodes) |-> HostOf(nodes, n)],
       kube_control_plane |-> masters,
       kube_worker |-> IF workers = {} THEN masters ELSE workers,
       all |-> NamesIn(nodes)]

\* Mutant: control plane first, as if there were no third role.
RoleOfFirst(groups) ==
  IF "kube_control_plane" \in groups THEN "master"
  ELSE IF "kube_worker" \in groups THEN "worker" ELSE "None"

RoleOf(groups) ==
  IF {"kube_control_plane", "kube_worker"} \subseteq groups THEN "both"
  ELSE IF "kube_control_plane" \in groups THEN "master"
  ELSE IF "kube_worker" \in groups THEN "worker" ELSE "None"

\* h.hostname || h.name
NameOf(item) == IF item.hostname # "None" THEN item.hostname ELSE item.name

InventoryHostsToNodes(items) ==
  LET kept == Filter(items, {i \in DOMAIN items : NameOf(items[i]) # "localhost"})
  IN  [i \in DOMAIN kept |-> [name |-> NameOf(kept[i]), addr |-> kept[i].addr,
                              role |-> RoleOf(kept[i].groups)]]

-----------------------------------------------------------------------------
\* The inventory handler.

\* Mutant: the groups are merged as the hosts are.
MergePatchUnions(inv, patch, removed) ==
  [patch EXCEPT !.hosts = [n \in (DOMAIN inv.hosts \cup DOMAIN patch.hosts)
                                   \ (removed \ DOMAIN patch.hosts) |->
                             IF n \in DOMAIN patch.hosts THEN patch.hosts[n]
                             ELSE inv.hosts[n]],
                !.kube_worker = @ \cup inv.kube_worker]

\* JSON merge patch: removed hosts go, the others are added or replaced, the
\* lists of the groups are replaced.
MergePatch(inv, patch, removed) ==
  [patch EXCEPT !.hosts = [n \in (DOMAIN inv.hosts \cup DOMAIN patch.hosts)
                                   \ (removed \ DOMAIN patch.hosts) |->
                             IF n \in DOMAIN patch.hosts THEN patch.hosts[n]
                             ELSE inv.hosts[n]]]

\* client.Patch with MergeFrom: the changes that make new of old, made in cur.
\* Lists of groups are compared and replaced as a whole; one with the same names
\* in another order is a change, too.
ApplyChanges(old, new, cur, reordered) ==
  LET changed == {n \in DOMAIN new.hosts : ~(n \in DOMAIN old.hosts /\ old.hosts[n] = new.hosts[n])}
      kept == DOMAIN cur.hosts \ (DOMAIN old.hosts \ DOMAIN new.hosts)
      Group(o, n, c) == IF o = n /\ ~reordered THEN c ELSE n
  IN  [hosts |-> [n \in kept \cup changed |-> IF n \in changed THEN new.hosts[n] ELSE cur.hosts[n]],
       all |-> Group(old.all, new.all, cur.all),
       kube_control_plane |-> Group(old.kube_control_plane, new.kube_control_plane,
                                    cur.kube_control_plane),
       kube_worker |-> Group(old.kube_worker, new.kube_worker, cur.kube_worker)]

\* validateUniqueHostVariables
UniqueHosts(inv) ==
  \A m, n \in DOMAIN inv.hosts : inv.hosts[m] = inv.hosts[n] => m = n

\* ListHosts: one item per host, from the highest name to the lowest; hostname
\* is what the last host check found (osname), or "None".
HostItem(inv, n, osname) ==
  [name |-> n, hostname |-> osname[n], addr |-> inv.hosts[n],
   groups |-> {g \in {"kube_control_plane", "kube_worker"} : n \in inv[g]}]

ListHosts(inv, osname) ==
  LET order == Filter(NameOrder, {i \in DOMAIN NameOrder : NameOrder[i] \in DOMAIN inv.hosts})
  IN  [i \in DOMAIN order |-> HostItem(inv, order[i], osname)]
=============================================================================
