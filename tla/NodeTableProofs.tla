-------------------------- MODULE NodeTableProofs --------------------------
(***************************************************************************)
(* Theorems about NodeTable, for every list of nodes, any number of saves  *)
(* and any order and failure of their calls: the types, the groups of the  *)
(* inventory, what the last save leaves, and why a machine may get lost.   *)
(* And about what the calls of NodeCalls and FormCalls answer: the nodes   *)
(* that come back, the field that was edited, the playbooks listed.        *)
(***************************************************************************)
EXTENDS NodeTable, NodeCalls, FormCalls, FiniteSetTheorems, TLAPS

-----------------------------------------------------------------------------
\* Numbers, and functions that are defined step by step.

\* A set of numbers has a least one, as < is well-founded.
LEMMA LeastNumber ==
  ASSUME NEW T \in SUBSET Nat, T # {}
  PROVE  \E x \in T : \A y \in T : x <= y
  <1>1. \E x \in T : \A y \in T : ~(<<y, x>> \in OpToRel(<, Nat))
    BY NatLessThanWellFounded, WFMin
  <1>2. OpToRel(<, Nat) = {ss \in Nat \X Nat : ss[1] < ss[2]}
    BY Zenon DEF OpToRel
  <1>3. PICK x \in T : \A y \in T : ~(<<y, x>> \in {ss \in Nat \X Nat : ss[1] < ss[2]})
    BY <1>1, <1>2, Zenon
  <1>4. ASSUME NEW y \in T PROVE x <= y
    <2>1. ~(<<y, x>> \in {ss \in Nat \X Nat : ss[1] < ss[2]})
      BY <1>3
    <2>2. x \in Nat /\ y \in Nat
      OBVIOUS
    <2>3. <<y, x>> \in Nat \X Nat /\ <<y, x>>[1] = y /\ <<y, x>>[2] = x
      BY <2>2
    <2>4. ~(y < x)
      BY <2>1, <2>3
    <2> QED BY <2>2, <2>4
  <1> QED BY <1>4

\* Induction over the numbers up to m, for a set of numbers.
LEMMA InductionUpTo ==
  ASSUME NEW S, NEW m \in Nat, 0 \in S, \A n \in 1 .. m : n - 1 \in S => n \in S
  PROVE  0 .. m \subseteq S
  <1> SUFFICES ASSUME (0 .. m) \ S # {} PROVE FALSE
    OBVIOUS
  <1>1. PICK x \in (0 .. m) \ S : \A y \in (0 .. m) \ S : x <= y
    <2>1. (0 .. m) \ S \in SUBSET Nat
      OBVIOUS
    <2> QED BY <2>1, LeastNumber
  <1>2. x # 0
    BY <1>1
  <1>3. x - 1 \in 0 .. m /\ ~(x <= x - 1)
    BY <1>1, <1>2
  <1>4. x - 1 \in S
    BY <1>1, <1>3
  <1> QED BY <1>1, <1>2, <1>3, <1>4

\* f follows the steps of G from v0 on, up to n.
Follows(f, G, v0, n) ==
  DOMAIN f = 0 .. n /\ f[0] = v0 /\ \A k \in 1 .. n : f[k] = G[k][f[k - 1]]

\* There is such a function, whatever the steps are ...
LEMMA FollowsExists ==
  ASSUME NEW n \in Nat, NEW G, NEW v0
  PROVE  \E f : f = [k \in 0 .. n |-> f[k]] /\ Follows(f, G, v0, n)
  <1> DEFINE Upto(m) == \E f : f = [k \in 0 .. m |-> f[k]] /\ Follows(f, G, v0, m)
             S == {m \in 0 .. n : Upto(m)}
  <1>1. 0 \in S
    <2> DEFINE f == [k \in 0 .. 0 |-> v0]
    <2>1. f = [k \in 0 .. 0 |-> f[k]] /\ Follows(f, G, v0, 0)
      BY DEF Follows
    <2> HIDE DEF f
    <2> QED BY <2>1
  <1>2. \A m \in 1 .. n : m - 1 \in S => m \in S
    <2> SUFFICES ASSUME NEW m \in 1 .. n, m - 1 \in S PROVE m \in S
      OBVIOUS
    <2>1. PICK f : Follows(f, G, v0, m - 1)
      BY Zenon
    <2> DEFINE g == [k \in 0 .. m |-> IF k = m THEN G[m][f[m - 1]] ELSE f[k]]
    <2>2. DOMAIN g = 0 .. m /\ g[0] = v0
      BY <2>1 DEF Follows
    <2>3. ASSUME NEW k \in 1 .. m PROVE g[k] = G[k][g[k - 1]]
      BY <2>1 DEF Follows
    <2>4. g = [k \in 0 .. m |-> g[k]]
      OBVIOUS
    <2> HIDE DEF g
    <2>5. Follows(g, G, v0, m)
      BY <2>2, <2>3 DEF Follows
    <2>6. Upto(m)
      BY <2>4, <2>5
    <2> QED BY <2>6
  <1> HIDE DEF S
  <1>3. 0 .. n \subseteq S
    BY <1>1, <1>2, InductionUpTo
  <1>4. n \in S
    BY <1>3
  <1> QED BY <1>4 DEF S

\* ... and its values stay where the steps stay.
LEMMA FollowsType ==
  ASSUME NEW n \in Nat, NEW V, NEW G, NEW v0 \in V, NEW f, Follows(f, G, v0, n),
         \A k \in 1 .. n, v \in V : G[k][v] \in V
  PROVE  \A k \in 0 .. n : f[k] \in V
  <1> DEFINE S == {k \in 0 .. n : f[k] \in V}
  <1>1. 0 \in S
    BY DEF Follows
  <1>2. \A k \in 1 .. n : k - 1 \in S => k \in S
    BY DEF Follows
  <1> HIDE DEF S
  <1>3. 0 .. n \subseteq S
    BY <1>1, <1>2, InductionUpTo
  <1> QED BY <1>3 DEF S

\* Filter goes through the sequence element by element.
LEMMA FilterSteps ==
  ASSUME NEW s, Len(s) \in Nat, NEW P
  PROVE  \E kept : /\ kept[0] = << >> /\ Filter(s, P) = kept[Len(s)]
                   /\ \A k \in 1 .. Len(s) :
                        kept[k] = IF k \in P THEN Append(kept[k - 1], s[k]) ELSE kept[k - 1]
  <1> DEFINE n == Len(s)
             S == {s[k] : k \in 1 .. n}
             G == [k \in 1 .. n |-> [v \in Seq(S) |-> IF k \in P THEN Append(v, s[k]) ELSE v]]
             Eq(f) == f = [k \in 0 .. n |-> IF k = 0 THEN << >>
                                           ELSE IF k \in P THEN Append(f[k - 1], s[k]) ELSE f[k - 1]]
             kept == CHOOSE f : Eq(f)
  <1>1. n \in Nat /\ << >> \in Seq(S) /\ \A k \in 1 .. n : s[k] \in S
    OBVIOUS
  <1>2. \A k \in 1 .. n, v \in Seq(S) :
          G[k][v] \in Seq(S) /\ G[k][v] = IF k \in P THEN Append(v, s[k]) ELSE v
    BY <1>1
  <1>3. Filter(s, P) = kept[n]
    BY DEF Filter
  <1> HIDE DEF n, G, S
  <1>4. PICK f : f = [k \in 0 .. n |-> f[k]] /\ Follows(f, G, << >>, n)
    BY <1>1, FollowsExists
  <1>5. \A k \in 0 .. n : f[k] \in Seq(S)
    BY <1>1, <1>2, <1>4, FollowsType
  <1>6. \A k \in 0 .. n : f[k] = IF k = 0 THEN << >>
                                   ELSE IF k \in P THEN Append(f[k - 1], s[k]) ELSE f[k - 1]
    <2>1. f[0] = << >>
      BY <1>4 DEF Follows
    <2>2. ASSUME NEW k \in 1 .. n
          PROVE  f[k] = IF k \in P THEN Append(f[k - 1], s[k]) ELSE f[k - 1]
      <3>1. k - 1 \in 0 .. n
        BY <1>1
      <3> QED BY <1>2, <1>4, <1>5, <3>1 DEF Follows
    <2> QED BY <1>1, <2>1, <2>2
  <1>7. Eq(f)
    BY <1>4, <1>6
  <1>8. Eq(kept)
    BY <1>7
  <1> HIDE DEF kept
  <1>9. kept[0] = << >>
    BY <1>1, <1>8
  <1>10. ASSUME NEW k \in 1 .. n
         PROVE  kept[k] = IF k \in P THEN Append(kept[k - 1], s[k]) ELSE kept[k - 1]
    <2>1. k \in 0 .. n /\ k # 0
      BY <1>1
    <2> QED BY <1>8, <2>1
  <1> QED BY <1>3, <1>9, <1>10 DEF n

\* Filter keeps the elements at the positions P, and no other ones.
LEMMA FilterElements ==
  ASSUME NEW s, Len(s) \in Nat, NEW P
  PROVE  LET S == {s[k] : k \in P \cap (1 .. Len(s))}
         IN  Filter(s, P) \in Seq(S) /\ Range(Filter(s, P)) = S
  <1> DEFINE n == Len(s)
             S == {s[k] : k \in P \cap (1 .. n)}
             Upto(m) == {s[k] : k \in P \cap (1 .. m)}
  <1>1. n \in Nat
    OBVIOUS
  <1>2. PICK kept : /\ kept[0] = << >> /\ Filter(s, P) = kept[n]
                    /\ \A k \in 1 .. n :
                         kept[k] = IF k \in P THEN Append(kept[k - 1], s[k]) ELSE kept[k - 1]
    BY FilterSteps
  <1> DEFINE T == {k \in 0 .. n : kept[k] \in Seq(S) /\ Range(kept[k]) = Upto(k)}
  <1>3. 0 \in T
    <2>1. Range(<< >>) = {}
      BY DEF Range
    <2>2. Upto(0) = {}
      OBVIOUS
    <2>3. << >> \in Seq(S)
      OBVIOUS
    <2> HIDE DEF Upto, S
    <2>4. kept[0] \in Seq(S) /\ Range(kept[0]) = Upto(0)
      BY <1>2, <2>1, <2>2, <2>3
    <2>5. 0 \in 0 .. n
      BY <1>1
    <2> QED BY <2>4, <2>5
  <1>4. \A k \in 1 .. n : k - 1 \in T => k \in T
    <2> SUFFICES ASSUME NEW k \in 1 .. n, k - 1 \in T PROVE k \in T
      OBVIOUS
    <2>0. k \in 0 .. n /\ kept[k - 1] \in Seq(S) /\ Range(kept[k - 1]) = Upto(k - 1)
      BY <1>1
    <2>1. CASE k \in P
      <3> DEFINE v == kept[k - 1]
                 x == s[k]
      <3>1. kept[k] = Append(v, x) /\ x \in S
        BY <1>2, <2>1
      <3>2. Upto(k) = Upto(k - 1) \cup {x}
        BY <1>1, <2>1
      <3>3. v \in Seq(S) /\ Range(v) = Upto(k - 1)
        BY <2>0
      <3> HIDE DEF v, x, S, Upto
      <3>4. /\ Append(v, x) \in Seq(S) /\ Len(v) \in Nat /\ DOMAIN v = 1 .. Len(v)
            /\ DOMAIN Append(v, x) = 1 .. Len(v) + 1 /\ Append(v, x)[Len(v) + 1] = x
            /\ \A j \in 1 .. Len(v) : Append(v, x)[j] = v[j]
        BY <3>1, <3>3
      <3>5. DOMAIN Append(v, x) = DOMAIN v \cup {Len(v) + 1}
        BY <3>4
      <3>6. Range(Append(v, x)) = Range(v) \cup {x}
        BY <3>4, <3>5 DEF Range
      <3> QED BY <2>0, <3>1, <3>2, <3>3, <3>4, <3>6
    <2>2. CASE k \notin P
      <3>1. kept[k] = kept[k - 1]
        BY <1>2, <2>2
      <3>2. Upto(k) = Upto(k - 1)
        BY <1>1, <2>2
      <3> QED BY <2>0, <3>1, <3>2
    <2> QED BY <2>1, <2>2
  <1> HIDE DEF T
  <1>5. 0 .. n \subseteq T
    BY <1>1, <1>3, <1>4, InductionUpTo
  <1>6. n \in T
    BY <1>1, <1>5
  <1> QED BY <1>2, <1>6 DEF T

\* So they are in any set that has the elements at these positions.
LEMMA FilterType ==
  ASSUME NEW S, NEW s, Len(s) \in Nat, NEW P, \A k \in P \cap (1 .. Len(s)) : s[k] \in S
  PROVE  Filter(s, P) \in Seq(S)
  <1> DEFINE K == {s[k] : k \in P \cap (1 .. Len(s))}
  <1>1. Filter(s, P) \in Seq(K)
    BY FilterElements
  <1>2. K \subseteq S
    OBVIOUS
  <1> HIDE DEF K
  <1> QED BY <1>1, <1>2

-----------------------------------------------------------------------------
\* What the operators of Inventory make of lists and inventories.

LEMMA MachinesOfList ==
  ASSUME NEW list \in Seq(Node)
  PROVE  AddrsIn(list) \subseteq Machine /\ NamesIn(list) \subseteq Name
  <1>1. ASSUME NEW i \in DOMAIN list
        PROVE  list[i].addr \in Machine /\ list[i].name \in Name
    <2>1. list[i] \in Node
      OBVIOUS
    <2> QED BY <2>1 DEF Node
  <1> QED BY <1>1 DEF AddrsIn, NamesIn

\* A name of the list belongs to the machine of a node of the list.
LEMMA HostOfNode ==
  ASSUME NEW list \in Seq(Node), NEW n \in NamesIn(list)
  PROVE  HostOf(list, n) \in AddrsIn(list)
  <1> DEFINE rows == {i \in DOMAIN list : list[i].name = n}
             T == {Len(list) - i : i \in rows}
  <1>1. rows # {} /\ rows \subseteq 1 .. Len(list) /\ Len(list) \in Nat
    BY DEF NamesIn
  <1>2. T # {} /\ T \in SUBSET Nat
    BY <1>1
  <1>3. PICK x \in T : \A y \in T : x <= y
    <2> HIDE DEF T
    <2> QED BY <1>2, LeastNumber
  <1>4. PICK i \in rows : x = Len(list) - i
    BY <1>3
  <1>5. ASSUME NEW j \in rows PROVE i >= j
    <2>1. i \in Nat /\ j \in Nat
      BY <1>1
    <2>2. Len(list) - i <= Len(list) - j
      BY <1>3, <1>4
    <2> QED BY <1>1, <2>1, <2>2
  <1> HIDE DEF rows
  <1>6. Max(rows) \in rows
    BY <1>4, <1>5 DEF Max
  <1> QED BY <1>6 DEF HostOf, AddrsIn, rows

\* What buildInventory returns is an inventory; its machines are in the list.
LEMMA BuildType ==
  ASSUME NEW list \in Seq(Node)
  PROVE  /\ BuildInventory(list) \in Inventories
         /\ Range(BuildInventory(list).hosts) \subseteq AddrsIn(list)
  <1> DEFINE ms == {n.name : n \in {m \in Range(list) : IsMaster(m)}}
             ws == {n.name : n \in {m \in Range(list) : IsWorker(m)}}
             hosts == [n \in NamesIn(list) |-> HostOf(list, n)]
  <1>1. ms \subseteq Name /\ ws \subseteq Name
    <2>1. ms \subseteq NamesIn(list) /\ ws \subseteq NamesIn(list)
      BY DEF Range, NamesIn
    <2> QED BY <2>1, MachinesOfList
  <1>2. NamesIn(list) \subseteq Name /\ hosts \in [NamesIn(list) -> Machine]
    BY MachinesOfList, HostOfNode
  <1>3. Range(hosts) \subseteq AddrsIn(list)
    BY HostOfNode DEF Range
  <1>4. BuildInventory(list) = [hosts |-> hosts, kube_control_plane |-> ms,
                                kube_worker |-> IF ws = {} THEN ms ELSE ws,
                                all |-> NamesIn(list)]
    BY DEF BuildInventory
  <1>5. hosts \in UNION {[names -> Machine] : names \in SUBSET Name}
    BY <1>2
  <1> HIDE DEF ms, ws, hosts
  <1> QED BY <1>1, <1>2, <1>3, <1>4, <1>5 DEF Inventories

\* A merge patch of an inventory is one, and brings machines of the patch only.
LEMMA MergeType ==
  ASSUME NEW old \in Inventories, NEW new \in Inventories, NEW removed
  PROVE  /\ MergePatch(old, new, removed) \in Inventories
         /\ Range(MergePatch(old, new, removed).hosts) \subseteq Range(old.hosts) \cup Range(new.hosts)
         /\ Range(new.hosts) \subseteq Range(MergePatch(old, new, removed).hosts)
  <1> DEFINE names == (DOMAIN old.hosts \cup DOMAIN new.hosts) \ (removed \ DOMAIN new.hosts)
             hosts == [n \in names |-> IF n \in DOMAIN new.hosts THEN new.hosts[n] ELSE old.hosts[n]]
  <1>1. PICK d1 \in SUBSET Name : old.hosts \in [d1 -> Machine]
    BY DEF Inventories
  <1>2. PICK d2 \in SUBSET Name : new.hosts \in [d2 -> Machine]
    BY DEF Inventories
  <1>3. hosts \in [names -> Machine] /\ names \subseteq Name
    BY <1>1, <1>2
  <1>4. Range(hosts) \subseteq Range(old.hosts) \cup Range(new.hosts)
    BY DEF Range
  <1>5. Range(new.hosts) \subseteq Range(hosts)
    BY DEF Range
  <1>6. hosts \in UNION {[d -> Machine] : d \in SUBSET Name}
    BY <1>3
  <1>7. MergePatch(old, new, removed) = [new EXCEPT !.hosts = hosts]
    BY DEF MergePatch
  <1> HIDE DEF hosts
  <1> QED BY <1>4, <1>5, <1>6, <1>7 DEF Inventories

\* What client.Patch makes is an inventory, of machines that were there and of
\* the patched one's; nothing comes between when it is read once.
LEMMA ChangesType ==
  ASSUME NEW old \in Inventories, NEW new \in Inventories, NEW cur \in Inventories,
         NEW reordered \in BOOLEAN
  PROVE  /\ ApplyChanges(old, new, cur, reordered) \in Inventories
         /\ Range(ApplyChanges(old, new, cur, reordered).hosts)
              \subseteq Range(cur.hosts) \cup Range(new.hosts)
         /\ ApplyChanges(old, new, old, reordered) = new
  <1> DEFINE changed == {n \in DOMAIN new.hosts :
                           ~(n \in DOMAIN old.hosts /\ old.hosts[n] = new.hosts[n])}
             kept(c) == DOMAIN c.hosts \ (DOMAIN old.hosts \ DOMAIN new.hosts)
             hosts(c) == [n \in kept(c) \cup changed |->
                            IF n \in changed THEN new.hosts[n] ELSE c.hosts[n]]
             Group(o, n, c) == IF o = n /\ ~reordered THEN c ELSE n
             made(c) == [hosts |-> hosts(c), all |-> Group(old.all, new.all, c.all),
                         kube_control_plane |-> Group(old.kube_control_plane,
                                          new.kube_control_plane, c.kube_control_plane),
                         kube_worker |-> Group(old.kube_worker, new.kube_worker, c.kube_worker)]
  <1>0. \A c : ApplyChanges(old, new, c, reordered) = made(c)
    BY DEF ApplyChanges
  <1>1. PICK d1 \in SUBSET Name : old.hosts \in [d1 -> Machine]
    BY DEF Inventories
  <1>2. PICK d2 \in SUBSET Name : new.hosts \in [d2 -> Machine]
    BY DEF Inventories
  <1>3. PICK d3 \in SUBSET Name : cur.hosts \in [d3 -> Machine]
    BY DEF Inventories
  <1>4. hosts(cur) \in [kept(cur) \cup changed -> Machine] /\ kept(cur) \cup changed \subseteq Name
    BY <1>2, <1>3
  <1>5. Range(hosts(cur)) \subseteq Range(cur.hosts) \cup Range(new.hosts)
    BY DEF Range
  <1>6. hosts(cur) \in UNION {[d -> Machine] : d \in SUBSET Name}
    BY <1>4
  <1>7. hosts(old) = new.hosts
    <2>1. kept(old) \cup changed = d2
      BY <1>1, <1>2
    <2>2. \A n \in d2 : (IF n \in changed THEN new.hosts[n] ELSE old.hosts[n]) = new.hosts[n]
      BY <1>1, <1>2
    <2> HIDE DEF changed, kept
    <2> QED BY <1>2, <2>1, <2>2
  <1> HIDE DEF hosts
  <1>8. made(cur) \in Inventories /\ made(cur).hosts = hosts(cur)
    BY <1>6 DEF Inventories
  <1>9. made(old) = new
    BY <1>7 DEF Inventories
  <1> HIDE DEF made
  <1> QED BY <1>0, <1>5, <1>8, <1>9

\* The list that is restored from an inventory is a list of nodes.
LEMMA LoadType ==
  ASSUME NEW i \in Inventories, NEW names \in [Name -> Name \cup {"None"}]
  PROVE  InventoryHostsToNodes(ListHosts(i, names)) \in Seq(Node)
  <1> DEFINE order == Filter(NameOrder, {k \in DOMAIN NameOrder : NameOrder[k] \in DOMAIN i.hosts})
             Item == [name : Name, hostname : Name \cup {"None"}, addr : Machine,
                      groups : SUBSET {"kube_control_plane", "kube_worker"}]
             items == ListHosts(i, names)
             kept == Filter(items, {k \in DOMAIN items : NameOf(items[k]) # "localhost"})
  <1>1. PICK d \in SUBSET Name : i.hosts \in [d -> Machine]
    BY DEF Inventories
  <1>2. order \in Seq(d)
    BY <1>1, FilterType, InventoryAssumption
  <1>3. ASSUME NEW n \in d PROVE HostItem(i, n, names) \in Item
    BY <1>1, <1>3 DEF HostItem
  <1>4. items = [k \in DOMAIN order |-> HostItem(i, order[k], names)]
    BY DEF ListHosts
  <1> HIDE DEF order, items, Item
  <1>5. items \in Seq(Item)
    BY <1>2, <1>3, <1>4
  <1>6. kept \in Seq(Item)
    BY <1>5, FilterType
  <1>7. InventoryHostsToNodes(items) =
          [k \in DOMAIN kept |-> [name |-> NameOf(kept[k]), addr |-> kept[k].addr,
                                  role |-> RoleOf(kept[k].groups)]]
    BY DEF InventoryHostsToNodes
  <1> HIDE DEF kept
  <1>8. ASSUME NEW item \in Item
        PROVE  [name |-> NameOf(item), addr |-> item.addr, role |-> RoleOf(item.groups)] \in Node
    BY DEF Item, NameOf, RoleOf, Node, Role
  <1> QED BY <1>6, <1>7, <1>8 DEF items

-----------------------------------------------------------------------------
Resolves(i) ==
  /\ i.kube_control_plane \subseteq DOMAIN i.hosts
  /\ i.kube_worker \subseteq DOMAIN i.hosts
  /\ i.all \subseteq DOMAIN i.hosts
  /\ i.kube_control_plane \subseteq i.all
  /\ i.kube_worker \subseteq i.all

\* What buildInventory returns: its groups are made of names of nodes, and
\* every node is a host.
LEMMA BuildResolves ==
  ASSUME NEW list
  PROVE  LET i == BuildInventory(list)
         IN  Resolves(i) /\ i.all = NamesIn(list) /\ DOMAIN i.hosts = NamesIn(list)
<1> DEFINE ms == {n.name : n \in {m \in Range(list) : IsMaster(m)}}
           ws == {n.name : n \in {m \in Range(list) : IsWorker(m)}}
<1>1. ms \subseteq NamesIn(list) /\ ws \subseteq NamesIn(list)
  BY DEF NamesIn, Range
<1>2. /\ BuildInventory(list).kube_control_plane = ms
      /\ BuildInventory(list).kube_worker = IF ws = {} THEN ms ELSE ws
      /\ BuildInventory(list).all = NamesIn(list)
      /\ DOMAIN BuildInventory(list).hosts = NamesIn(list)
  BY DEF BuildInventory
<1> QED BY <1>1, <1>2 DEF Resolves

\* A merge patch keeps every host that its groups name, whatever it removes
\* and whatever was there.
LEMMA MergeResolves ==
  ASSUME NEW old, NEW list, NEW removed
  PROVE  Resolves(MergePatch(old, BuildInventory(list), removed))
<1> DEFINE new == BuildInventory(list)
           res == MergePatch(old, new, removed)
<1>1. Resolves(new)
  BY BuildResolves
<1>2. /\ res.kube_control_plane = new.kube_control_plane
      /\ res.kube_worker = new.kube_worker /\ res.all = new.all
      /\ DOMAIN res.hosts = (DOMAIN old.hosts \cup DOMAIN new.hosts)
                              \ (removed \ DOMAIN new.hosts)
  BY DEF MergePatch, BuildInventory
<1>3. DOMAIN new.hosts \subseteq DOMAIN res.hosts
  BY <1>2
<1> HIDE DEF new, res
<1>4. Resolves(res)
  BY <1>1, <1>2, <1>3 DEF Resolves
<1> QED BY <1>4 DEF res, new

-----------------------------------------------------------------------------
(* There and back again *)

\* In a list whose nodes have names of their own, every machine gets its name.
LEMMA HostOfOwn ==
  ASSUME NEW list \in Seq(Node), NEW i \in DOMAIN list,
         \A j \in DOMAIN list : list[i].name = list[j].name => i = j
  PROVE  HostOf(list, list[i].name) = list[i].addr
  <1>1. {j \in DOMAIN list : list[j].name = list[i].name} = {i}
    OBVIOUS
  <1>2. i \in Nat
    OBVIOUS
  <1>3. Max({i}) = i
    BY <1>2 DEF Max
  <1> QED BY <1>1, <1>3 DEF HostOf

\* The role that comes back: masters are both when there is no worker.
Returned(n, list) ==
  [n EXCEPT !.role = IF @ = "master" /\ ~ \E m \in Range(list) : IsWorker(m) THEN "both" ELSE @]

\* The groups that a node is put in are those of that role.
LEMMA RoleOfOwn ==
  ASSUME NEW list \in Seq(Node), NEW i \in DOMAIN list,
         \A j \in DOMAIN list : list[i].name = list[j].name => i = j
  PROVE  LET made == BuildInventory(list)
             groups == {g \in {"kube_control_plane", "kube_worker"} : list[i].name \in made[g]}
         IN  RoleOf(groups) = Returned(list[i], list).role
  <1> DEFINE n == list[i]
             made == BuildInventory(list)
             ms == {m \in Range(list) : IsMaster(m)}
             ws == {m \in Range(list) : IsWorker(m)}
             groups == {g \in {"kube_control_plane", "kube_worker"} : n.name \in made[g]}
  <1>1. n \in Node /\ n \in Range(list)
    BY DEF Range
  <1>2. \A m \in Range(list) : m.name = n.name => m = n
    BY DEF Range
  <1>3. (n.name \in {m.name : m \in ms} <=> IsMaster(n)) /\ (n.name \in {m.name : m \in ws} <=> IsWorker(n))
    BY <1>1, <1>2
  <1>4. ws = {} <=> ~ \E m \in Range(list) : IsWorker(m)
    OBVIOUS
  <1>5. ws = {} <=> {m.name : m \in ws} = {}
    OBVIOUS
  <1>6. /\ made.kube_control_plane = {m.name : m \in ms}
        /\ made.kube_worker = IF {m.name : m \in ws} = {} THEN {m.name : m \in ms} ELSE {m.name : m \in ws}
    BY DEF BuildInventory
  <1>7. ws = {} => ~ IsWorker(n)
    BY <1>1
  <1>8. /\ "kube_control_plane" \in groups <=> IsMaster(n)
        /\ "kube_worker" \in groups <=> IF ws = {} THEN IsMaster(n) ELSE IsWorker(n)
    BY <1>3, <1>5, <1>6
  <1>9. Returned(n, list).role = IF n.role = "master" /\ ws = {} THEN "both" ELSE n.role
    BY <1>1, <1>4 DEF Returned, Node
  <1>10. n.role \in {"master", "worker", "both", "None"}
    BY <1>1 DEF Node, Role
  <1> HIDE DEF n, ws, groups
  <1>11. RoleOf(groups) = IF n.role = "master" /\ ws = {} THEN "both" ELSE n.role
    BY <1>7, <1>8, <1>10 DEF RoleOf, IsMaster, IsWorker
  <1> QED BY <1>9, <1>11 DEF n, groups

\* A list whose nodes have names of their own comes back from the inventory with
\* its machines, names and roles, but that masters are both when there is no
\* worker (buildInventory, ListHosts, inventoryHostsToNodes).
THEOREM RolesComeBack ==
  ASSUME NEW list \in Seq(Node), "localhost" \notin NamesIn(list),
         \A i, j \in DOMAIN list : list[i].name = list[j].name => i = j
  PROVE  Range(InventoryHostsToNodes(ListHosts(BuildInventory(list), [n \in Name |-> "None"])))
           = {Returned(n, list) : n \in Range(list)}
  <1> DEFINE made == BuildInventory(list)
             os == [n \in Name |-> "None"]
             here == {k \in DOMAIN NameOrder : NameOrder[k] \in DOMAIN made.hosts}
             order == Filter(NameOrder, here)
             items == ListHosts(made, os)
             all == {k \in DOMAIN items : NameOf(items[k]) # "localhost"}
             kept == Filter(items, all)
             Back(item) == [name |-> NameOf(item), addr |-> item.addr, role |-> RoleOf(item.groups)]
  <1>1. /\ Len(NameOrder) \in Nat /\ DOMAIN NameOrder = 1 .. Len(NameOrder)
        /\ Name = {NameOrder[k] : k \in 1 .. Len(NameOrder)}
    BY SMTT(30), InventoryAssumption DEF Name, Range
  <1>2. DOMAIN made.hosts = NamesIn(list) /\ NamesIn(list) \subseteq Name
    BY BuildResolves, MachinesOfList
  <1>3. Range(order) = NamesIn(list) /\ order \in Seq(NamesIn(list))
    <2>1. {NameOrder[k] : k \in here \cap (1 .. Len(NameOrder))} = NamesIn(list)
      BY <1>1, <1>2
    <2> HIDE DEF here
    <2> QED BY <1>1, <2>1, FilterElements
  <1>4. items = [k \in DOMAIN order |-> HostItem(made, order[k], os)]
    BY DEF ListHosts
  <1> HIDE DEF made, os, order, items
  <1>5. Range(items) = {HostItem(made, n, os) : n \in NamesIn(list)}
    BY <1>3, <1>4 DEF Range
  <1>6. ASSUME NEW n \in NamesIn(list)
        PROVE  NameOf(HostItem(made, n, os)) = n /\ n # "localhost"
    <2>1. os[n] = "None"
      BY <1>2 DEF os
    <2> QED BY <2>1 DEF HostItem, NameOf
  <1>7. DOMAIN items = DOMAIN order /\ Len(items) \in Nat /\ DOMAIN items = 1 .. Len(items)
    <2>1. DOMAIN order = 1 .. Len(order) /\ Len(order) \in Nat
      BY <1>3
    <2> QED BY <1>4, <2>1
  <1>8. all = 1 .. Len(items)
    <2>1. ASSUME NEW k \in DOMAIN items PROVE NameOf(items[k]) # "localhost"
      <3>1. order[k] \in Range(order)
        BY <1>7 DEF Range
      <3> QED BY <1>3, <1>4, <1>6, <1>7, <3>1
    <2> QED BY <1>7, <2>1
  <1>9. kept \in Seq(Range(items)) /\ Range(kept) = Range(items)
    <2>1. {items[k] : k \in all \cap (1 .. Len(items))} = Range(items)
      BY <1>7, <1>8 DEF Range
    <2> HIDE DEF all
    <2> QED BY <1>7, <2>1, FilterElements
  <1>10. InventoryHostsToNodes(items) = [k \in DOMAIN kept |-> Back(kept[k])]
    BY DEF InventoryHostsToNodes
  <1> HIDE DEF kept
  <1>11. Range(InventoryHostsToNodes(items)) = {Back(item) : item \in Range(kept)}
    BY <1>10 DEF Range
  <1>12. ASSUME NEW i \in DOMAIN list
         PROVE  Back(HostItem(made, list[i].name, os)) = Returned(list[i], list)
    <2> DEFINE n == list[i]
               item == HostItem(made, n.name, os)
    <2>1. n \in Node /\ n.name \in NamesIn(list)
      BY DEF NamesIn
    <2>2. item.addr = n.addr
      BY <1>2, <2>1, HostOfOwn DEF HostItem, made, BuildInventory
    <2>3. RoleOf(item.groups) = Returned(n, list).role
      BY RoleOfOwn DEF HostItem, made
    <2>4. NameOf(item) = n.name
      BY <1>6, <2>1
    <2>5. Returned(n, list) = [name |-> n.name, addr |-> n.addr, role |-> Returned(n, list).role]
      BY <2>1 DEF Returned, Node
    <2> HIDE DEF n, item
    <2>6. Back(item) = Returned(n, list)
      BY <2>2, <2>3, <2>4, <2>5
    <2> QED BY <2>6 DEF n, item
  <1> HIDE DEF Back
  <1>13. {Back(item) : item \in Range(kept)} = {Back(HostItem(made, n, os)) : n \in NamesIn(list)}
    BY <1>5, <1>9
  <1>14. {Back(HostItem(made, n, os)) : n \in NamesIn(list)} = {Returned(list[i], list) : i \in DOMAIN list}
    BY <1>12 DEF NamesIn
  <1>15. {Returned(list[i], list) : i \in DOMAIN list} = {Returned(n, list) : n \in Range(list)}
    BY DEF Range
  <1> QED BY <1>11, <1>13, <1>14, <1>15 DEF items, made, os

-----------------------------------------------------------------------------
\* A list that is saved and loaded again on its own, of NodeCalls.

\* The list that comes back is the one that the inventory makes of the list.
Loaded ==
  /\ call \in NodeListCalls
  /\ \/ answer = [op |-> "none"]
     \/ answer = [op |-> "nodes",
                  out |-> InventoryHostsToNodes(ListHosts(BuildInventory(call.nodes),
                                                          [n \in Name |-> "None"]))]

\* Saving a list of nodes with names of their own and loading it again, with no host
\* check in between, brings back the machines, names and roles it had, but that masters
\* are both when there is no worker.  This for every list, however long.
THEOREM RolesAlwaysReturn == NodeCallsSpec => []RolesReturn
  <1>1. CallInit(NodeListCalls) => Loaded
    BY DEF CallInit, Loaded
  <1>2. Loaded /\ [SaveAndLoad]_callVars => Loaded'
    BY DEF Loaded, SaveAndLoad, CallStep, callVars
  <1>3. ASSUME Loaded PROVE RolesReturn
    <2> SUFFICES ASSUME answer.op = "nodes"
                 PROVE  Range(answer.out) = {Returned(n, call.nodes) : n \in Range(call.nodes)}
      BY DEF RolesReturn, Returned
    <2>1. call.nodes \in NodeLists
      BY <1>3 DEF Loaded, NodeListCalls
    <2>2. /\ call.nodes \in Seq(Node) /\ "localhost" \notin NamesIn(call.nodes)
          /\ \A i, j \in DOMAIN call.nodes : call.nodes[i].name = call.nodes[j].name => i = j
      BY <2>1, NodeCallsAssumption
    <2>3. answer.out = InventoryHostsToNodes(ListHosts(BuildInventory(call.nodes),
                                                       [n \in Name |-> "None"]))
      BY <1>3 DEF Loaded
    <2> QED BY <2>2, <2>3, RolesComeBack
  <1> QED BY <1>1, <1>2, <1>3, PTL DEF NodeCallsSpec

-----------------------------------------------------------------------------
\* The types of the state.

LoadRecord == [at : {"Off", "Asked", "Answered"}, list : Seq(Node)]
SaveRecord == [pc : {"Off", "Post", "Get", "Patch", "Merge", "Write", "Check", "Stamp"},
               nodes : Seq(Node), removed : SUBSET Name, obj : Inventories \cup {None},
               alone : BOOLEAN, may : SUBSET Machine, met : BOOLEAN]

\* The lists that steps make are lists of nodes.
LEMMA ListTypes ==
  ASSUME NEW list \in Seq(Node)
  PROVE  /\ \A node \in Node : Append(list, node) \in Seq(Node)
         /\ \A node \in Node, i \in DOMAIN list : [list EXCEPT ![i] = node] \in Seq(Node)
         /\ \A rows : Without(list, rows) \in Seq(Node)
  <1>1. ASSUME NEW rows PROVE Without(list, rows) \in Seq(Node)
    BY FilterType DEF Without
  <1>2. ASSUME NEW node \in Node, NEW i \in DOMAIN list
        PROVE  [list EXCEPT ![i] = node] \in Seq(Node)
    OBVIOUS
  <1> QED BY <1>1, <1>2

LEMMA AnswerTypes ==
  /\ NoLoad \in LoadRecord /\ Asked \in LoadRecord
  /\ \A list \in Seq(Node) : Answer(list) \in LoadRecord
  BY DEF Answer, NoLoad, Asked, LoadRecord

LEMMA LoadTypes ==
  ASSUME TypeOK, NEW l \in {"start", "refresh"}, NEW record \in LoadRecord,
         load' = [load EXCEPT ![l] = record]
  PROVE  load' \in [{"start", "refresh"} -> LoadRecord]
  <1>1. load \in [{"start", "refresh"} -> LoadRecord]
    BY DEF TypeOK, LoadRecord
  <1> HIDE DEF LoadRecord
  <1> QED BY <1>1

LEMMA InitType == Init => TypeOK
  <1> SUFFICES ASSUME Init PROVE TypeOK
    OBVIOUS
  <1> USE DEF Init
  <1>1. load \in [{"start", "refresh"} -> LoadRecord]
    <2>1. load = [l \in {"start", "refresh"} |-> IF l = "start" THEN Asked ELSE NoLoad]
      OBVIOUS
    <2> QED BY <2>1, AnswerTypes
  <1>2. save \in [Saves -> SaveRecord]
    BY DEF SaveRecord, NoSave
  <1>3. inv = None \/ inv \in Inventories
    BY NodeTableAssumption DEF NodeTableAssumption
  <1>4. ops \in 0 .. MaxOps /\ faults \in 0 .. MaxFaults
    BY NodeTableAssumption DEF NodeTableAssumption
  <1>5. nodes \in Seq(Node)
    OBVIOUS
  <1> QED BY <1>1, <1>2, <1>3, <1>4, <1>5 DEF TypeOK, LoadRecord, SaveRecord

\* What the user does and what a failing call uses up.
LEMMA BoundTypes ==
  ASSUME TypeOK, Acts \/ Fails \/ UNCHANGED bounds
  PROVE  ops' \in 0 .. MaxOps /\ faults' \in 0 .. MaxFaults
  BY NodeTableAssumption DEF TypeOK, NodeTableAssumption, Acts, Fails, bounds

LEMMA UserType == TypeOK /\ User => TypeOK'
  <1> SUFFICES ASSUME TypeOK, User PROVE TypeOK'
    OBVIOUS
  <1> USE DEF page, server, history
  <1>0. ops' \in 0 .. MaxOps /\ faults' \in 0 .. MaxFaults
    BY BoundTypes DEF User, Refresh, FinishAdd, FailAdd, DoConfirmDelete, CancelDelete, StartAdd,
         EditNode, AskDelete
  <1>1. CASE Refresh
    <2>1. load' \in [{"start", "refresh"} -> LoadRecord]
      BY <1>1, AnswerTypes, LoadTypes, Zenon DEF Refresh
    <2> QED BY <1>0, <1>1, <2>1 DEF Refresh, TypeOK, LoadRecord
  <1>2. CASE FinishAdd
    <2>1. add \in [base : Seq(Node), node : Node]
      BY <1>2 DEF FinishAdd, TypeOK
    <2>2. add.base \in Seq(Node) /\ add.node \in Node
      BY <2>1
    <2>3. nodes' \in Seq(Node) /\ timer' \in BOOLEAN
      BY <1>2, <2>2, ListTypes DEF FinishAdd, SetNodes, TypeOK
    <2>4. byUser' \subseteq Machine /\ forgotten' \subseteq Machine
      BY <1>2, MachinesOfList DEF FinishAdd, TypeOK
    <2> QED BY <1>0, <1>2, <2>3, <2>4 DEF FinishAdd, TypeOK
  <1>3. CASE FailAdd
    BY <1>0, <1>3 DEF FailAdd, TypeOK
  <1>4. CASE DoConfirmDelete
    <2>1. nodes' \in Seq(Node) /\ timer' \in BOOLEAN
      BY <1>4, ListTypes DEF DoConfirmDelete, SetNodes, TypeOK
    <2>2. byUser' \subseteq Machine
      BY <1>4, MachinesOfList DEF DoConfirmDelete, TypeOK
    <2> QED BY <1>0, <1>4, <2>1, <2>2 DEF DoConfirmDelete, TypeOK
  <1>5. CASE CancelDelete
    BY <1>0, <1>5 DEF CancelDelete, TypeOK
  <1>6. ASSUME NEW node \in NewNodes, StartAdd(node) PROVE TypeOK'
    <2>1. add' \in [base : Seq(Node), node : Node]
      BY <1>6, NodeTableAssumption DEF NodeTableAssumption, StartAdd, TypeOK
    <2> QED BY <1>0, <1>6, <2>1 DEF StartAdd, TypeOK
  <1>7. ASSUME NEW i \in 1 .. MaxNodes, NEW node \in EditedNodes, EditNode(i, node) PROVE TypeOK'
    <2>1. nodes' \in Seq(Node) /\ timer' \in BOOLEAN
      BY <1>7, ListTypes, NodeTableAssumption DEF NodeTableAssumption, EditNode, SetNodes, TypeOK
    <2>2. byUser' \subseteq Machine /\ forgotten' \subseteq Machine
      BY <1>7, MachinesOfList DEF EditNode, TypeOK
    <2> QED BY <1>0, <1>7, <2>1, <2>2 DEF EditNode, TypeOK
  <1>8. ASSUME NEW rows \in SUBSET (1 .. MaxNodes) \ {{}}, AskDelete(rows) PROVE TypeOK'
    BY <1>0, <1>8 DEF AskDelete, TypeOK
  <1> QED BY <1>1, <1>2, <1>3, <1>4, <1>5, <1>6, <1>7, <1>8 DEF User

\* The host names that a load sees.
LEMMA HostNamesType == TypeOK /\ inv # None => HostNames \in [Name -> Name \cup {"None"}]
  <1> SUFFICES ASSUME TypeOK, inv # None PROVE HostNames \in [Name -> Name \cup {"None"}]
    OBVIOUS
  <1>1. PICK d \in SUBSET Name : inv.hosts \in [d -> Machine]
    BY DEF TypeOK, Inventories
  <1> QED BY <1>1, NodeTableAssumption DEF NodeTableAssumption, HostNames

LEMMA MachinesType ==
  ASSUME TypeOK
  PROVE  Machines(inv) \subseteq Machine /\ Held \subseteq Machine
  <1>1. ASSUME NEW i \in Inventories \cup {None} PROVE Machines(i) \subseteq Machine
    <2>1. CASE i = None
      BY <2>1 DEF Machines
    <2>2. CASE i # None
      <3>1. PICK d \in SUBSET Name : i.hosts \in [d -> Machine]
        BY <2>2 DEF Inventories
      <3> QED BY <3>1 DEF Machines, Range
    <2> QED BY <2>1, <2>2
  <1>2. inv \in Inventories \cup {None} /\ \A s \in Saves : save[s].obj \in Inventories \cup {None}
    BY DEF TypeOK
  <1> QED BY <1>1, <1>2 DEF Held

LEMMA LoadsType == TypeOK /\ Loads => TypeOK'
  <1> SUFFICES ASSUME TypeOK, Loads PROVE TypeOK'
    OBVIOUS
  <1> USE DEF page, server, history, bounds
  <1>0. ops' \in 0 .. MaxOps /\ faults' \in 0 .. MaxFaults
    BY BoundTypes DEF Loads, Restore, Refreshed, AnswerLoad, FailLoad
  <1>m. Held \subseteq Machine
    BY MachinesType
  <1>l. \A l \in {"start", "refresh"} : load[l].list \in Seq(Node)
    BY DEF TypeOK
  <1>1. CASE Restore
    <2>1. load' \in [{"start", "refresh"} -> LoadRecord]
      BY <1>1, AnswerTypes, LoadTypes, Zenon DEF Restore
    <2>2. nodes' \in Seq(Node)
      BY <1>1, <1>l DEF Restore, TypeOK
    <2>3. forgotten' \subseteq Machine
      BY <1>1, <1>m, MachinesOfList DEF Restore, TypeOK
    <2> QED BY <1>0, <1>1, <2>1, <2>2, <2>3 DEF Restore, TypeOK, LoadRecord
  <1>2. CASE Refreshed
    <2>1. load' \in [{"start", "refresh"} -> LoadRecord]
      BY <1>2, AnswerTypes, LoadTypes, Zenon DEF Refreshed
    <2>2. nodes' \in Seq(Node) /\ timer' \in BOOLEAN
      BY <1>2, <1>l DEF Refreshed, SetNodes, TypeOK
    <2>3. forgotten' \subseteq Machine
      BY <1>2, MachinesOfList DEF Refreshed, Forget, TypeOK
    <2> QED BY <1>0, <1>2, <2>1, <2>2, <2>3 DEF Refreshed, TypeOK, LoadRecord
  <1>3. ASSUME NEW l \in {"start", "refresh"}, AnswerLoad(l) \/ FailLoad(l) PROVE TypeOK'
    <2>1. inv # None => InventoryHostsToNodes(ListHosts(inv, HostNames)) \in Seq(Node)
      BY LoadType, HostNamesType DEF TypeOK
    <2>2. PICK list \in Seq(Node) : load' = [load EXCEPT ![l] = Answer(list)]
      <3>1. << >> \in Seq(Node)
        OBVIOUS
      <3>2. CASE AnswerLoad(l)
        BY <2>1, <3>1, <3>2, Zenon DEF AnswerLoad
      <3>3. CASE FailLoad(l)
        BY <3>1, <3>3, Zenon DEF FailLoad
      <3> QED BY <1>3, <3>2, <3>3
    <2>3. load' \in [{"start", "refresh"} -> LoadRecord]
      BY <2>2, AnswerTypes, LoadTypes
    <2> QED BY <1>0, <1>3, <2>3 DEF AnswerLoad, FailLoad, TypeOK, LoadRecord
  <1> QED BY <1>1, <1>2, <1>3 DEF Loads

\* The calls of saveNodesToInventory.
LEMMA StartedType ==
  ASSUME TypeOK, NEW s \in Saves, NEW may \in SUBSET Machine
  PROVE  Started(s, may) \in [Saves -> SaveRecord]
  <1>1. Idle \in BOOLEAN
    BY DEF Idle
  <1>2. [NoSave EXCEPT !.pc = "Post", !.nodes = nodes, !.alone = Idle, !.may = may] \in SaveRecord
    BY <1>1 DEF SaveRecord, NoSave, TypeOK
  <1>3. \A t \in Saves : save[t] \in SaveRecord
    BY DEF TypeOK, SaveRecord
  <1>4. \A t \in Saves : [save[t] EXCEPT !.alone = FALSE] \in SaveRecord
    BY <1>3 DEF SaveRecord
  <1> HIDE DEF SaveRecord
  <1> QED BY <1>2, <1>3, <1>4 DEF Started

\* What a save found at the server does not go away, and the server holds an
\* inventory for it between reading and writing.
Found == {"Get", "Patch", "Merge", "Write", "Check", "Stamp"}
Holding == {"Merge", "Write", "Stamp"}

ServerThere ==
  /\ \A s \in Saves : save[s].pc \in Found => inv \in Inventories
  /\ \A s \in Saves : IF save[s].pc \in Holding THEN save[s].obj \in Inventories
                      ELSE save[s].obj = None

-----------------------------------------------------------------------------
\* What the steps of a save do to the calls.

\* A save that starts takes the list of the page; it is alone if there is no
\* other, and no other one is from now on.
LEMMA StartedCalls ==
  ASSUME TypeOK, NEW s \in Saves, NEW may, save[s].pc = "Off", save' = Started(s, may)
  PROVE  /\ save'[s].pc = "Post" /\ save'[s].nodes = nodes /\ save'[s].removed = {}
         /\ save'[s].alone = Idle /\ save'[s].may = may
         /\ save'[s].obj = None /\ save'[s].met = FALSE
         /\ \A t \in Saves \ {s} :
              /\ save'[t].pc = save[t].pc /\ save'[t].nodes = save[t].nodes
              /\ save'[t].removed = save[t].removed /\ save'[t].may = save[t].may
              /\ save'[t].obj = save[t].obj /\ save'[t].met = save[t].met
              /\ save[t].pc # "Off" => ~save'[t].alone
  <1>1. save'[s] = [NoSave EXCEPT !.pc = "Post", !.nodes = nodes, !.alone = Idle, !.may = may]
    BY DEF Started
  <1>2. ASSUME NEW t \in Saves \ {s}
        PROVE  /\ save'[t].pc = save[t].pc /\ save'[t].nodes = save[t].nodes
               /\ save'[t].removed = save[t].removed /\ save'[t].may = save[t].may
               /\ save'[t].obj = save[t].obj /\ save'[t].met = save[t].met
               /\ save[t].pc # "Off" => ~save'[t].alone
    <2>1. save'[t] = IF save[t].pc = "Off" THEN save[t] ELSE [save[t] EXCEPT !.alone = FALSE]
      BY DEF Started
    <2>2. save[t] \in SaveRecord
      BY DEF TypeOK, SaveRecord
    <2> QED BY <2>1, <2>2 DEF SaveRecord
  <1> QED BY <1>1, <1>2 DEF NoSave

\* Three kinds of steps: a save goes on and leaves the server as it is, it ends
\* before it wrote an inventory that it holds, or the server writes one.
GoesOn(s) == \/ Get(s) \/ FailGet(s) \/ Merge(s) \/ Check(s)
             \/ Post(s) /\ inv # None
             \/ Patch(s) /\ UniqueHosts(Merged(inv, s))
Ends(s) == \/ FailCall(s)
           \/ Post(s) /\ inv = None
           \/ Patch(s) /\ ~UniqueHosts(Merged(inv, s))
Writes(s) == Write(s) \/ Stamp(s)

LEMMA SaveCases ==
  ASSUME NEW s \in Saves, Save(s)
  PROVE  FireTimer(s) \/ GoNextSaves(s) \/ GoesOn(s) \/ Ends(s) \/ Writes(s)
  BY DEF Save, GoesOn, Ends, Writes

\* The steps of a save that goes on, one after the other.
LEMMA NextCall ==
  ASSUME TypeOK, ServerThere, NEW s \in Saves, GoesOn(s)
  PROVE  /\ UNCHANGED <<page, load, server, history>>
         /\ \/ /\ save[s].pc = "Post" /\ inv # None
               /\ save' = [save EXCEPT ![s].pc = "Get"]
            \/ /\ save[s].pc = "Get"
               /\ \/ save' = [save EXCEPT ![s].pc = "Patch", ![s].alone = FALSE]
                  \/ save' = [save EXCEPT ![s].pc = "Patch",
                        ![s].removed = DOMAIN inv.hosts
                                         \ DOMAIN BuildInventory(save[s].nodes).hosts]
            \/ save[s].pc = "Patch" /\ Holds(s, "Merge", inv)
            \/ /\ save[s].pc = "Merge"
               /\ \E reordered \in BOOLEAN :
                    Holds(s, "Write",
                          ApplyChanges(save[s].obj, Merged(save[s].obj, s), inv, reordered))
            \/ save[s].pc = "Check" /\ Holds(s, "Stamp", inv)
  <1> USE DEF history
  <1>1. CASE Get(s) \/ FailGet(s)
    BY <1>1, Zenon DEF Get, FailGet
  <1>2. CASE Post(s) /\ inv # None
    BY <1>2, Zenon DEF Post
  <1>3. CASE Patch(s) /\ UniqueHosts(Merged(inv, s))
    BY <1>3, Zenon DEF Patch, Holds
  <1>4. CASE Merge(s)
    BY <1>4, Zenon DEF Merge, Holds
  <1>5. CASE Check(s)
    BY <1>5, Zenon DEF Check, Holds
  <1> QED BY <1>1, <1>2, <1>3, <1>4, <1>5 DEF GoesOn

\* A save that goes on keeps its list, and what it may remove.
LEMMA MovesOn ==
  ASSUME TypeOK, ServerThere, NEW s \in Saves, GoesOn(s)
  PROVE  /\ save' \in [Saves -> SaveRecord]
         /\ save'[s].pc \in Found /\ save'[s].nodes = save[s].nodes
         /\ save'[s].may = save[s].may /\ save'[s].met = save[s].met
         /\ save[s].pc \in {"Post", "Get", "Patch", "Merge", "Check"}
         /\ save'[s].alone => save[s].alone
         /\ inv \in Inventories
         /\ \A t \in Saves \ {s} : save'[t] = save[t]
         /\ UNCHANGED <<page, load, server, history>>
         /\ \/ save[s].pc = "Post" /\ save'[s].pc = "Get" /\ save'[s].obj = None
            \/ /\ save[s].pc = "Get" /\ save'[s].pc = "Patch" /\ save'[s].obj = None
               /\ save'[s].alone => save'[s].removed =
                    DOMAIN inv.hosts \ DOMAIN BuildInventory(save[s].nodes).hosts
            \/ /\ save[s].pc = "Patch" /\ save'[s].pc = "Merge" /\ save'[s].obj = inv
               /\ save'[s].removed = save[s].removed
            \/ /\ save[s].pc = "Merge" /\ save'[s].pc = "Write"
               /\ save'[s].removed = save[s].removed
               /\ \E reordered \in BOOLEAN :
                    save'[s].obj = ApplyChanges(save[s].obj, Merged(save[s].obj, s), inv, reordered)
            \/ save[s].pc = "Check" /\ save'[s].pc = "Stamp" /\ save'[s].obj = inv
  <1>s. save \in [Saves -> SaveRecord] /\ save[s] \in SaveRecord
    BY DEF TypeOK, SaveRecord
  <1>b. BuildInventory(save[s].nodes) \in Inventories
    BY BuildType DEF TypeOK
  <1>o. /\ \A t \in Saves \ {s} : save'[t] = save[t]
        /\ UNCHANGED <<page, load, server, history>>
    <2>1. \A t \in Saves \ {s} : save'[t] = save[t]
      BY <1>s, NextCall, ZenonT(60) DEF Holds
    <2> QED BY <2>1, NextCall
  <1>1. CASE save[s].pc = "Post" /\ inv # None /\ save' = [save EXCEPT ![s].pc = "Get"]
    <2>1. save' \in [Saves -> SaveRecord]
      BY <1>1, <1>s DEF SaveRecord
    <2>2. save'[s] = [save[s] EXCEPT !.pc = "Get"] /\ save[s].obj = None
      BY <1>1, <1>s DEF ServerThere, Holding
    <2>3. inv \in Inventories
      BY <1>1 DEF TypeOK
    <2> QED BY <1>1, <1>s, <1>o, <2>1, <2>2, <2>3 DEF SaveRecord, Found
  <1>2. CASE save[s].pc = "Get" /\ save' = [save EXCEPT ![s].pc = "Patch", ![s].alone = FALSE]
    <2>1. save' \in [Saves -> SaveRecord]
      BY <1>2, <1>s DEF SaveRecord
    <2>2. save'[s] = [save[s] EXCEPT !.pc = "Patch", !.alone = FALSE] /\ save[s].obj = None
      BY <1>2, <1>s DEF ServerThere, Holding
    <2>3. inv \in Inventories
      BY <1>2 DEF ServerThere, Found
    <2> QED BY <1>2, <1>s, <1>o, <2>1, <2>2, <2>3 DEF SaveRecord, Found
  <1>3. ASSUME save[s].pc = "Get", NEW removed,
               removed = DOMAIN inv.hosts \ DOMAIN BuildInventory(save[s].nodes).hosts,
               save' = [save EXCEPT ![s].pc = "Patch", ![s].removed = removed]
        PROVE  /\ save' \in [Saves -> SaveRecord] /\ save[s].obj = None /\ inv \in Inventories
               /\ save'[s] = [save[s] EXCEPT !.pc = "Patch", !.removed = removed]
    <2>1. inv \in Inventories /\ save[s].obj = None
      BY <1>3 DEF ServerThere, Found, Holding
    <2>2. removed \in SUBSET Name
      BY <1>3, <2>1 DEF Inventories
    <2>3. [save[s] EXCEPT !.pc = "Patch", !.removed = removed] \in SaveRecord
      BY <1>s, <2>2 DEF SaveRecord
    <2> HIDE DEF SaveRecord
    <2> QED BY <1>3, <1>s, <2>1, <2>3
  <1>4. ASSUME NEW pc \in Holding, NEW i \in Inventories, Holds(s, pc, i)
        PROVE  /\ save' \in [Saves -> SaveRecord]
               /\ save'[s] = [save[s] EXCEPT !.pc = pc, !.obj = i]
    <2>1. [save[s] EXCEPT !.pc = pc, !.obj = i] \in SaveRecord
      BY <1>s DEF SaveRecord, Holding
    <2> HIDE DEF SaveRecord
    <2> QED BY <1>4, <1>s, <2>1 DEF Holds
  <1>5. CASE save[s].pc = "Patch" /\ Holds(s, "Merge", inv)
    <2>1. inv \in Inventories
      BY <1>5 DEF ServerThere, Found
    <2>2. save' \in [Saves -> SaveRecord] /\ save'[s] = [save[s] EXCEPT !.pc = "Merge", !.obj = inv]
      BY <1>4, <1>5, <2>1 DEF Holding
    <2> QED BY <1>5, <1>s, <1>o, <2>1, <2>2 DEF SaveRecord, Found
  <1>6. CASE save[s].pc = "Check" /\ Holds(s, "Stamp", inv)
    <2>1. inv \in Inventories
      BY <1>6 DEF ServerThere, Found
    <2>2. save' \in [Saves -> SaveRecord] /\ save'[s] = [save[s] EXCEPT !.pc = "Stamp", !.obj = inv]
      BY <1>4, <1>6, <2>1 DEF Holding
    <2> QED BY <1>6, <1>s, <1>o, <2>1, <2>2 DEF SaveRecord, Found
  <1>7. ASSUME save[s].pc = "Merge", NEW reordered \in BOOLEAN, NEW i,
               i = ApplyChanges(save[s].obj, Merged(save[s].obj, s), inv, reordered),
               Holds(s, "Write", i)
        PROVE  /\ save' \in [Saves -> SaveRecord] /\ inv \in Inventories
               /\ save'[s] = [save[s] EXCEPT !.pc = "Write", !.obj = i]
    <2>1. inv \in Inventories /\ save[s].obj \in Inventories
      BY <1>7 DEF ServerThere, Found, Holding
    <2>2. Merged(save[s].obj, s) \in Inventories
      BY <1>b, <2>1, MergeType DEF Merged
    <2>3. i \in Inventories
      BY <1>7, <2>1, <2>2, ChangesType
    <2> QED BY <1>4, <1>7, <2>1, <2>3 DEF Holding
  <1>8. CASE save[s].pc = "Get" /\ ~(save' = [save EXCEPT ![s].pc = "Patch", ![s].alone = FALSE])
    <2> DEFINE removed == DOMAIN inv.hosts \ DOMAIN BuildInventory(save[s].nodes).hosts
    <2>1. save' = [save EXCEPT ![s].pc = "Patch", ![s].removed = removed]
      BY <1>8, NextCall, Zenon
    <2>2. /\ save' \in [Saves -> SaveRecord] /\ save[s].obj = None /\ inv \in Inventories
          /\ save'[s] = [save[s] EXCEPT !.pc = "Patch", !.removed = removed]
      BY <1>3, <1>8, <2>1
    <2> HIDE DEF removed
    <2>3. /\ save'[s].pc = "Patch" /\ save'[s].removed = removed /\ save'[s].obj = None
          /\ save'[s].nodes = save[s].nodes /\ save'[s].may = save[s].may
          /\ save'[s].met = save[s].met /\ save'[s].alone = save[s].alone
      BY <1>s, <2>2 DEF SaveRecord
    <2> QED BY <1>8, <1>o, <2>2, <2>3 DEF Found, removed
  <1>9. CASE save[s].pc = "Merge"
    <2>1. PICK reordered \in BOOLEAN :
             Holds(s, "Write", ApplyChanges(save[s].obj, Merged(save[s].obj, s), inv, reordered))
      BY <1>9, NextCall, Zenon
    <2> DEFINE i == ApplyChanges(save[s].obj, Merged(save[s].obj, s), inv, reordered)
    <2>2. /\ save' \in [Saves -> SaveRecord] /\ inv \in Inventories
          /\ save'[s] = [save[s] EXCEPT !.pc = "Write", !.obj = i]
      BY <1>7, <1>9, <2>1
    <2> HIDE DEF i
    <2>3. /\ save'[s].pc = "Write" /\ save'[s].obj = i /\ save'[s].removed = save[s].removed
          /\ save'[s].nodes = save[s].nodes /\ save'[s].may = save[s].may
          /\ save'[s].met = save[s].met /\ save'[s].alone = save[s].alone
      BY <1>s, <2>2 DEF SaveRecord
    <2> QED BY <1>9, <1>o, <2>2, <2>3 DEF Found, i
  <1> QED BY <1>1, <1>2, <1>5, <1>6, <1>8, <1>9, NextCall, Zenon

\* A save that ends, and what it leaves at the server.
LEMMA EndsCall ==
  ASSUME TypeOK, NEW s \in Saves, Ends(s)
  PROVE  /\ save[s].pc \in {"Post", "Patch", "Check"} /\ save'[s] = NoSave
         /\ save' \in [Saves -> SaveRecord]
         /\ \A t \in Saves \ {s} : save'[t] = save[t]
         /\ UNCHANGED <<page, load, byUser, forgotten, crossed>>
         /\ unsaved' \in BOOLEAN /\ checked' \in BOOLEAN
         /\ \/ inv' = inv /\ unsaved'
            \/ /\ save[s].pc = "Post" /\ inv = None /\ inv' = BuildInventory(save[s].nodes)
               /\ ~unsaved' => save[s].alone
  <1>1. save \in [Saves -> SaveRecord] /\ checked \in BOOLEAN
    BY DEF TypeOK, SaveRecord
  <1>2. save' = [save EXCEPT ![s] = NoSave] /\ save[s].pc \in {"Post", "Patch", "Check"}
    BY Zenon DEF Ends, Patch, FailCall, Post, Answers, Ended
  <1>3. NoSave \in SaveRecord
    BY DEF NoSave, SaveRecord
  <1> HIDE DEF SaveRecord
  <1>4. /\ save'[s] = NoSave /\ save' \in [Saves -> SaveRecord]
        /\ \A t \in Saves \ {s} : save'[t] = save[t]
    BY <1>1, <1>2, <1>3
  <1>5. CASE FailCall(s) \/ (Patch(s) /\ ~UniqueHosts(Merged(inv, s)))
    <2>1. Ended(s, FALSE) /\ UNCHANGED <<page, load, server, byUser, forgotten, crossed>>
      BY <1>5, Zenon DEF FailCall, Patch
    <2>2. unsaved'
      BY <2>1 DEF Ended
    <2> QED BY <1>1, <1>2, <1>4, <2>1, <2>2 DEF server
  <1>6. CASE Post(s) /\ inv = None
    <2>1. /\ inv' = BuildInventory(save[s].nodes) /\ save[s].pc = "Post" /\ checked' = FALSE
          /\ UNCHANGED <<page, load, byUser, forgotten, crossed>>
      BY <1>6 DEF Post
    <2>2. unsaved' \in BOOLEAN /\ (~unsaved' => save[s].alone)
      BY <1>6 DEF Post, Answers, Ended
    <2> QED BY <1>2, <1>4, <1>6, <2>1, <2>2
  <1> QED BY <1>5, <1>6 DEF Ends

\* A write puts in place what the server holds for the save; the inventories of
\* other saves are not the one of the server any more.
LEMMA WritesCall ==
  ASSUME TypeOK, ServerThere, NEW s \in Saves, Writes(s)
  PROVE  /\ save[s].obj \in Inventories /\ inv' = save[s].obj
         /\ save' \in [Saves -> SaveRecord]
         /\ \A t \in Saves \ {s} :
              /\ save'[t].pc = save[t].pc /\ save'[t].nodes = save[t].nodes
              /\ save'[t].removed = save[t].removed /\ save'[t].may = save[t].may
              /\ save'[t].obj = save[t].obj /\ save'[t].alone = save[t].alone
              /\ save[t].obj # None => save'[t].met
         /\ UNCHANGED <<page, load, byUser, forgotten>>
         /\ unsaved' \in BOOLEAN /\ checked' \in BOOLEAN /\ crossed' \in BOOLEAN
         /\ save'[s].obj = None
         /\ \/ /\ save[s].pc = "Write" /\ save'[s].pc = "Check" /\ save'[s].nodes = save[s].nodes
               /\ save'[s].may = save[s].may /\ save'[s].alone = save[s].alone
               /\ unsaved' = unsaved /\ crossed' = save[s].met
            \/ /\ save[s].pc = "Stamp" /\ save'[s].pc = "Off" /\ save'[s] = NoSave
               /\ ~unsaved' => save[s].alone
               /\ crossed' = (crossed \/ save[s].met)
  <1>s. save \in [Saves -> SaveRecord] /\ \A t \in Saves : save[t] \in SaveRecord
    BY DEF TypeOK, SaveRecord
  <1>o. save[s].obj \in Inventories /\ inv' = save[s].obj
    BY DEF Writes, Write, Stamp, ServerThere, Holding
  <1>1. ASSUME NEW record \in SaveRecord, Written(s, record)
        PROVE  /\ save' \in [Saves -> SaveRecord] /\ save'[s] = record
               /\ \A t \in Saves \ {s} :
                    /\ save'[t].pc = save[t].pc /\ save'[t].nodes = save[t].nodes
                    /\ save'[t].removed = save[t].removed /\ save'[t].may = save[t].may
                    /\ save'[t].obj = save[t].obj /\ save'[t].alone = save[t].alone
                    /\ save[t].obj # None => save'[t].met
    <2>1. \A t \in Saves : [save[t] EXCEPT !.met = TRUE] \in SaveRecord
      BY <1>s DEF SaveRecord
    <2>2. save' = [t \in Saves |-> IF t = s THEN record
                                   ELSE IF save[t].obj = None THEN save[t]
                                   ELSE [save[t] EXCEPT !.met = TRUE]]
      BY <1>1 DEF Written
    <2>3. save' \in [Saves -> SaveRecord] /\ save'[s] = record
      <3> HIDE DEF SaveRecord
      <3> QED BY <1>s, <1>1, <2>1, <2>2
    <2>4. ASSUME NEW t \in Saves \ {s}
          PROVE  /\ save'[t].pc = save[t].pc /\ save'[t].nodes = save[t].nodes
                 /\ save'[t].removed = save[t].removed /\ save'[t].may = save[t].may
                 /\ save'[t].obj = save[t].obj /\ save'[t].alone = save[t].alone
                 /\ save[t].obj # None => save'[t].met
      <3>1. save'[t] = IF save[t].obj = None THEN save[t] ELSE [save[t] EXCEPT !.met = TRUE]
        BY <2>2
      <3> QED BY <1>s, <3>1 DEF SaveRecord
    <2> QED BY <2>3, <2>4
  <1>2. CASE Write(s)
    <2> DEFINE record == [save[s] EXCEPT !.pc = "Check", !.obj = None, !.met = FALSE]
    <2>1. /\ record \in SaveRecord /\ record.pc = "Check" /\ record.obj = None
          /\ record.nodes = save[s].nodes /\ record.may = save[s].may
          /\ record.alone = save[s].alone
      BY <1>s DEF SaveRecord
    <2>2. /\ Written(s, record) /\ save[s].pc = "Write" /\ crossed' = save[s].met
          /\ UNCHANGED <<page, load, checked, byUser, forgotten, unsaved>>
      BY <1>2 DEF Write
    <2>3. unsaved' \in BOOLEAN /\ checked' \in BOOLEAN /\ crossed' \in BOOLEAN
      BY <2>2 DEF TypeOK
    <2> HIDE DEF record
    <2> QED BY <1>1, <1>o, <2>1, <2>2, <2>3
  <1>3. CASE Stamp(s)
    <2>1. NoSave \in SaveRecord /\ NoSave.pc = "Off" /\ NoSave.obj = None
      BY DEF NoSave, SaveRecord
    <2>2. /\ Written(s, NoSave) /\ save[s].pc = "Stamp" /\ checked' \in BOOLEAN
          /\ crossed' = (crossed \/ save[s].met)
          /\ UNCHANGED <<page, load, byUser, forgotten>>
      BY <1>3 DEF Stamp
    <2>3. unsaved' \in BOOLEAN /\ (~unsaved' => save[s].alone) /\ crossed' \in BOOLEAN
      BY <1>3, Zenon DEF Stamp, TypeOK
    <2> QED BY <1>1, <1>o, <2>1, <2>2, <2>3
  <1> QED BY <1>2, <1>3 DEF Writes

-----------------------------------------------------------------------------
\* The types hold.
TypeInv == TypeOK /\ ServerThere

LEMMA SaveType ==
  ASSUME TypeInv, NEW s \in Saves, Save(s)
  PROVE  TypeInv'
  <1> USE DEF page, server, history, TypeInv
  <1>0. ops' \in 0 .. MaxOps /\ faults' \in 0 .. MaxFaults
    BY BoundTypes DEF Save, FireTimer, GoNextSaves, Post, Get, FailGet, Patch, Merge, Write, Check,
         Stamp, FailCall, Ended, Answers, bounds
  <1>l. BuildInventory(save[s].nodes) \in Inventories
    BY BuildType DEF TypeOK
  <1>m. Machines(inv) \subseteq Machine
    BY MachinesType
  <1>sh. Shadowed \subseteq Machine
    BY MachinesOfList DEF Shadowed, TypeOK
  <1>p. ~(FireTimer(s) \/ GoNextSaves(s)) => UNCHANGED page
    BY SaveCases, MovesOn, EndsCall, WritesCall
  <1>1. CASE FireTimer(s) \/ GoNextSaves(s)
    <2>1. PICK may \in SUBSET Machine : save[s].pc = "Off" /\ save' = Started(s, may)
      <3>1. CASE FireTimer(s)
        BY <1>sh, <3>1 DEF FireTimer, TypeOK
      <3>2. CASE GoNextSaves(s)
        BY <1>sh, <1>m, <3>2 DEF GoNextSaves, TypeOK
      <3> QED BY <1>1, <3>1, <3>2
    <2>2. save' \in [Saves -> SaveRecord]
      BY <2>1, StartedType
    <2>3. UNCHANGED <<nodes, nodesLoaded, confirmDelete, add, load, server, history>>
          /\ timer' \in BOOLEAN
      BY <1>1 DEF FireTimer, GoNextSaves, TypeOK
    <2>4. TypeOK'
      BY <1>0, <2>2, <2>3 DEF TypeOK, SaveRecord
    <2>5. ServerThere'
      <3>1. inv' = inv /\ save'[s].pc = "Post" /\ save'[s].obj = None
        BY <2>1, <2>3, StartedCalls DEF server
      <3>2. \A t \in Saves \ {s} : save'[t].pc = save[t].pc /\ save'[t].obj = save[t].obj
        BY <2>1, StartedCalls
      <3> QED BY <3>1, <3>2 DEF ServerThere, Found, Holding
    <2> QED BY <2>4, <2>5
  <1>2. CASE GoesOn(s)
    <2>1. save' \in [Saves -> SaveRecord] /\ UNCHANGED <<page, load, server, history>>
      BY <1>2, MovesOn
    <2>2. TypeOK'
      BY <1>0, <2>1 DEF TypeOK, SaveRecord
    <2>3. \A t \in Saves \ {s} : save'[t] = save[t]
      BY <1>2, MovesOn
    <2>4. IF save'[s].pc \in Holding THEN save'[s].obj \in Inventories ELSE save'[s].obj = None
      <3>1. save[s].pc = "Merge" => Merged(save[s].obj, s) \in Inventories
                                      /\ save[s].obj \in Inventories
        BY <1>l, MergeType DEF Merged, ServerThere, Holding
      <3>2. inv \in Inventories
        BY <1>2, MovesOn
      <3>3. ASSUME save'[s].pc = "Write" PROVE save'[s].obj \in Inventories
        <4>1. save[s].pc = "Merge" /\ \E reordered \in BOOLEAN : save'[s].obj =
                ApplyChanges(save[s].obj, Merged(save[s].obj, s), inv, reordered)
          BY <1>2, <3>3, MovesOn
        <4>2. PICK reordered \in BOOLEAN : save'[s].obj =
                ApplyChanges(save[s].obj, Merged(save[s].obj, s), inv, reordered)
          BY <4>1
        <4>3. ApplyChanges(save[s].obj, Merged(save[s].obj, s), inv, reordered) \in Inventories
          BY <3>1, <3>2, <4>1, <4>2, ChangesType, Zenon
        <4> QED BY <4>2, <4>3
      <3> QED BY <1>2, <3>2, <3>3, MovesOn DEF Holding
    <2>5. ServerThere'
      BY <1>2, <2>1, <2>3, <2>4, MovesOn DEF ServerThere
    <2> QED BY <2>2, <2>5
  <1>3. CASE Ends(s)
    <2>1. inv' = inv \/ inv' \in Inventories
      BY <1>3, <1>l, EndsCall
    <2>2. TypeOK'
      BY <1>0, <1>3, <2>1, EndsCall DEF TypeOK, SaveRecord
    <2>3. save'[s].pc = "Off" /\ save'[s].obj = None
      BY <1>3, EndsCall DEF NoSave
    <2>4. ServerThere'
      BY <1>3, <2>1, <2>3, EndsCall DEF ServerThere, Found, Holding
    <2> QED BY <2>2, <2>4
  <1>4. CASE Writes(s)
    <2>1. TypeOK'
      BY <1>0, <1>4, WritesCall DEF TypeOK, SaveRecord
    <2>2. ServerThere'
      BY <1>4, WritesCall DEF ServerThere, Found, Holding
    <2> QED BY <2>1, <2>2
  <1> QED BY <1>1, <1>2, <1>3, <1>4, SaveCases

LEMMA TypeInvAlways == Spec => []TypeInv
  <1>1. Init => TypeInv
    BY InitType DEF Init, ServerThere, NoSave, TypeInv, Found, Holding
  <1>2. TypeInv /\ [Next]_vars => TypeInv'
    <2> SUFFICES ASSUME TypeInv, [Next]_vars PROVE TypeInv'
      OBVIOUS
    <2>1. CASE UNCHANGED vars
      BY <2>1 DEF TypeInv, TypeOK, ServerThere, vars, page, server, history, bounds
    <2>2. CASE User \/ Loads
      <3>1. UNCHANGED <<save, inv>>
        BY <2>2 DEF User, Refresh, FinishAdd, FailAdd, DoConfirmDelete, CancelDelete, StartAdd,
             EditNode, AskDelete, Loads, Restore, Refreshed, AnswerLoad, FailLoad, server
      <3> QED BY <2>2, <3>1, UserType, LoadsType DEF TypeInv, ServerThere
    <2> QED BY <2>1, <2>2, SaveType DEF Next
  <1> QED BY <1>1, <1>2, PTL DEF Spec

\* TypeOK: every list stays one of nodes, and what the server has or holds for a
\* save an inventory, for any machines, names and nodes.
THEOREM TypeCorrect == Spec => []TypeOK
  <1>1. TypeInv => TypeOK
    BY DEF TypeInv
  <1> QED BY <1>1, TypeInvAlways, PTL

-----------------------------------------------------------------------------
\* What the user does and what is restored changes no save and no inventory;
\* a change of the list sets the timer.
LEMMA PageStep ==
  ASSUME User \/ Loads \/ UNCHANGED vars
  PROVE  /\ UNCHANGED <<save, inv, unsaved, crossed>>
         /\ nodesLoaded' /\ ~timer' => UNCHANGED <<nodes, nodesLoaded, timer>>
  <1> USE DEF page, server, history, SetNodes
  <1>1. CASE User
    <2>1. CASE FinishAdd
      BY <2>1, Zenon DEF FinishAdd
    <2>2. CASE DoConfirmDelete
      BY <2>2, Zenon DEF DoConfirmDelete
    <2>3. ASSUME NEW i, NEW node, EditNode(i, node)
          PROVE  /\ UNCHANGED <<save, inv, unsaved, crossed>>
                 /\ nodesLoaded' /\ ~timer' => UNCHANGED <<nodes, nodesLoaded, timer>>
      BY <2>3, Zenon DEF EditNode
    <2>4. CASE Refresh \/ FailAdd \/ CancelDelete \/ \E node \in NewNodes : StartAdd(node)
      BY <2>4, Zenon DEF Refresh, FailAdd, CancelDelete, StartAdd
    <2>5. ASSUME NEW rows, AskDelete(rows)
          PROVE  UNCHANGED <<save, inv, unsaved, crossed, nodes, nodesLoaded, timer>>
      BY <2>5, Zenon DEF AskDelete
    <2> QED BY <1>1, <2>1, <2>2, <2>3, <2>4, <2>5 DEF User
  <1>2. CASE Loads
    BY <1>2 DEF Loads, Restore, Refreshed, AnswerLoad, FailLoad
  <1>3. CASE UNCHANGED vars
    BY <1>3 DEF vars
  <1> QED BY <1>1, <1>2, <1>3

\* What the server holds for a save that no other one met since: what it read
\* is still there, and what it will write resolves.
GroupsInv ==
  /\ inv # None /\ ~crossed => Resolves(inv)
  /\ \A s \in Saves : ~save[s].met =>
       /\ save[s].pc \in {"Merge", "Stamp"} => save[s].obj = inv
       /\ save[s].pc = "Write" => Resolves(save[s].obj)

LEMMA GroupsInvKept ==
  ASSUME TypeInv, GroupsInv, [Next]_vars
  PROVE  GroupsInv'
  <1>t. TypeOK /\ ServerThere
    BY DEF TypeInv
  <1>r. \A i : Resolves(i)' = Resolves(i')
    BY DEF Resolves
  <1>1. CASE User \/ Loads \/ UNCHANGED vars
    <2>1. UNCHANGED <<save, inv, crossed>>
      BY <1>1, PageStep
    <2> QED BY <2>1 DEF GroupsInv, Resolves
  <1>2. ASSUME NEW s \in Saves, FireTimer(s) \/ GoNextSaves(s) PROVE GroupsInv'
    <2>1. PICK may : save[s].pc = "Off" /\ save' = Started(s, may)
      BY <1>2 DEF FireTimer, GoNextSaves
    <2>2. UNCHANGED <<inv, crossed>>
      BY <1>2 DEF FireTimer, GoNextSaves, server, history
    <2>3. save'[s].pc = "Post" /\ \A t \in Saves \ {s} :
            save'[t].pc = save[t].pc /\ save'[t].obj = save[t].obj /\ save'[t].met = save[t].met
      BY <1>t, <2>1, StartedCalls
    <2> QED BY <2>2, <2>3 DEF GroupsInv, Resolves
  <1>3. ASSUME NEW s \in Saves, GoesOn(s) PROVE GroupsInv'
    <2>1. UNCHANGED <<inv, crossed>> /\ \A t \in Saves \ {s} : save'[t] = save[t]
      BY <1>t, <1>3, MovesOn DEF server, history
    <2>2. save'[s].pc = "Write" /\ ~save'[s].met => Resolves(save'[s].obj)
      <3> SUFFICES ASSUME save'[s].pc = "Write", ~save'[s].met PROVE Resolves(save'[s].obj)
        OBVIOUS
      <3>1. /\ save[s].pc = "Merge" /\ ~save[s].met /\ inv \in Inventories
            /\ \E reordered \in BOOLEAN : save'[s].obj =
                 ApplyChanges(save[s].obj, Merged(save[s].obj, s), inv, reordered)
        BY <1>t, <1>3, MovesOn
      <3>2. save[s].obj = inv
        BY <3>1 DEF GroupsInv
      <3>3. Merged(inv, s) \in Inventories
        BY <1>t, <3>1, BuildType, MergeType DEF Merged, TypeOK
      <3>4. save'[s].obj = Merged(inv, s)
        BY <3>1, <3>2, <3>3, ChangesType
      <3> QED BY <3>4, MergeResolves DEF Merged
    <2>3. ~save'[s].met /\ save'[s].pc \in {"Merge", "Stamp"} => save'[s].obj = inv'
      BY <1>t, <1>3, <2>1, MovesOn
    <2> QED BY <2>1, <2>2, <2>3 DEF GroupsInv, Resolves
  <1>4. ASSUME NEW s \in Saves, Ends(s) PROVE GroupsInv'
    <2>1. /\ save'[s].pc = "Off" /\ \A t \in Saves \ {s} : save'[t] = save[t]
          /\ crossed' = crossed
      BY <1>t, <1>4, EndsCall DEF NoSave
    <2>2. CASE inv' = inv
      BY <2>1, <2>2 DEF GroupsInv, Resolves
    <2>3. CASE inv = None /\ inv' = BuildInventory(save[s].nodes)
      <3>1. Resolves(inv')
        BY <2>3, BuildResolves
      <3>2. \A t \in Saves : save[t].pc \notin Found
        BY <1>t, <2>3, NodeTableAssumption DEF NodeTableAssumption, ServerThere
      <3> QED BY <2>1, <3>1, <3>2 DEF GroupsInv, Resolves, Found
    <2> QED BY <1>t, <1>4, <2>2, <2>3, EndsCall
  <1>5. ASSUME NEW s \in Saves, Writes(s) PROVE GroupsInv'
    <2>1. inv' = save[s].obj /\ save[s].obj \in Inventories /\ save'[s].pc \in {"Check", "Off"}
      BY <1>t, <1>5, WritesCall
    <2>2. \A t \in Saves \ {s} : /\ save'[t].pc = save[t].pc /\ save'[t].obj = save[t].obj
                                 /\ save[t].obj # None => save'[t].met
      BY <1>t, <1>5, WritesCall
    <2>3. \A t \in Saves : save'[t].pc \in Holding => save'[t].met
      BY <1>t, <2>1, <2>2, NodeTableAssumption DEF NodeTableAssumption, ServerThere, Holding
    <2>4. ~crossed' => Resolves(inv')
      <3>1. CASE save[s].pc = "Write" /\ crossed' = save[s].met
        BY <2>1, <3>1 DEF GroupsInv
      <3>2. CASE save[s].pc = "Stamp" /\ crossed' = (crossed \/ save[s].met)
        BY <2>1, <3>2, NodeTableAssumption DEF NodeTableAssumption, GroupsInv
      <3> QED BY <1>t, <1>5, <3>1, <3>2, WritesCall
    <2> QED BY <2>3, <2>4 DEF GroupsInv, Resolves, Holding
  <1> QED BY <1>1, <1>2, <1>3, <1>4, <1>5, SaveCases DEF Next

\* GroupsResolve: however the calls of saves overlap, fail or come late, only
\* what the server wrote from an inventory that another save had replaced
\* leaves a group that names a host which is not there.
THEOREM GroupsResolveHolds ==
  ASSUME \A i \in InitialInv : i = None \/ Resolves(i)
  PROVE  Spec => []GroupsResolve
<1>1. Init => GroupsInv
  BY DEF Init, GroupsInv, NoSave
<1>2. TypeInv /\ GroupsInv /\ [Next]_vars => GroupsInv'
  BY GroupsInvKept
<1>3. GroupsInv => GroupsResolve
  BY DEF Resolves, GroupsResolve, GroupsInv
<1> QED BY <1>1, <1>2, <1>3, TypeInvAlways, PTL DEF Spec

-----------------------------------------------------------------------------
\* LastSaveWins and LossHasCause need what a save that meets no other one is:
\* the list it carries is the one on the page as long as no timer is set, what
\* it found at the server is still there, and what is there and not in its list
\* it may remove.

Working(s) == save[s].pc # "Off"
Fresh(s) == Working(s) /\ save[s].alone

\* Next to a save that is alone there is none.
AloneIsAlone == \A s, t \in Saves : Fresh(s) /\ Working(t) => s = t

\* Its list is the one on the page; what it will remove is what is there beyond
\* the list, what the server read for it is what there is, and what the server
\* writes for it is the list.
AloneIsTrue ==
  \A s \in Saves : Fresh(s) =>
    /\ nodesLoaded /\ ~timer => save[s].nodes = nodes
    /\ save[s].pc \in {"Patch", "Merge"} =>
         save[s].removed = DOMAIN inv.hosts \ DOMAIN BuildInventory(save[s].nodes).hosts
    /\ save[s].pc \in {"Merge", "Stamp"} => save[s].obj = inv
    /\ save[s].pc = "Write" => save[s].obj = BuildInventory(save[s].nodes)
    /\ save[s].pc \in {"Check", "Stamp"} => inv = BuildInventory(save[s].nodes)

SaveInv == AloneIsAlone /\ AloneIsTrue /\ LastSaveWins

\* What the page has, and what the user or the page gave up.
Covered == AddrsIn(nodes) \cup byUser \cup forgotten

\* What a save carries, and what the server has or holds once the list was
\* restored, is covered; what a save that is alone takes from the inventory it
\* may.
CoverInv ==
  /\ timer => nodesLoaded
  /\ \A s \in Saves : Working(s) => AddrsIn(save[s].nodes) \subseteq Covered
  /\ nodesLoaded => Held \subseteq Covered
  /\ \A s \in Saves : Fresh(s) =>
       Machines(inv) \subseteq save[s].may \cup Range(BuildInventory(save[s].nodes).hosts)

\* A patch that removes all the list does not have makes the list of it.
LEMMA PatchIsList ==
  ASSUME NEW i, NEW list, NEW removed,
         removed = DOMAIN i.hosts \ DOMAIN BuildInventory(list).hosts
  PROVE  MergePatch(i, BuildInventory(list), removed) = BuildInventory(list)
  <1> DEFINE new == BuildInventory(list)
  <1>1. (DOMAIN i.hosts \cup DOMAIN new.hosts) \ (removed \ DOMAIN new.hosts) = DOMAIN new.hosts
    OBVIOUS
  <1>2. new = [hosts |-> new.hosts, kube_control_plane |-> new.kube_control_plane,
               kube_worker |-> new.kube_worker, all |-> new.all]
        /\ new.hosts = [n \in DOMAIN new.hosts |-> new.hosts[n]]
    BY DEF BuildInventory
  <1> HIDE DEF new
  <1>3. MergePatch(i, new, removed) = [new EXCEPT !.hosts = [n \in DOMAIN new.hosts |-> new.hosts[n]]]
    BY <1>1 DEF MergePatch
  <1> QED BY <1>2, <1>3 DEF new

LEMMA SaveInvKept ==
  ASSUME TypeInv, SaveInv, [Next]_vars
  PROVE  SaveInv'
  <1>t. TypeOK /\ ServerThere
    BY DEF TypeInv
  <1>b. \A list : BuildInventory(list)' = BuildInventory(list')
    BY DEF BuildInventory, NamesIn, HostOf
  <1>1. CASE User \/ Loads \/ UNCHANGED vars
    <2>1. /\ UNCHANGED <<save, inv, unsaved>>
          /\ nodesLoaded' /\ ~timer' => UNCHANGED <<nodes, nodesLoaded, timer>>
      BY <1>1, PageStep
    <2> QED BY <2>1 DEF SaveInv, AloneIsAlone, AloneIsTrue, LastSaveWins, Fresh, Working, Idle
  <1>2. ASSUME NEW s \in Saves, FireTimer(s) \/ GoNextSaves(s) PROVE SaveInv'
    <2>1. PICK may : save[s].pc = "Off" /\ save' = Started(s, may)
      BY <1>2 DEF FireTimer, GoNextSaves
    <2>2. UNCHANGED <<nodes, nodesLoaded, inv>>
      BY <1>2 DEF FireTimer, GoNextSaves, page, server
    <2>3. /\ save'[s].pc = "Post" /\ save'[s].nodes = nodes
          /\ save'[s].alone = Idle
          /\ \A t \in Saves \ {s} : save'[t].pc = save[t].pc /\ (save[t].pc # "Off" => ~save'[t].alone)
      BY <1>t, <2>1, StartedCalls
    <2>4. AloneIsAlone'
      BY <2>3 DEF AloneIsAlone, Fresh, Working, Idle
    <2>5. AloneIsTrue'
      BY <2>2, <2>3 DEF AloneIsTrue, Fresh, Working
    <2>6. ~Idle'
      BY <2>3 DEF Idle
    <2> QED BY <2>4, <2>5, <2>6 DEF SaveInv, LastSaveWins
  <1>3. ASSUME NEW s \in Saves, GoesOn(s) PROVE SaveInv'
    <2>1. /\ save'[s].pc \in Found /\ save'[s].nodes = save[s].nodes
          /\ Working(s) /\ (save'[s].alone => save[s].alone)
          /\ \A t \in Saves \ {s} : save'[t] = save[t]
          /\ UNCHANGED <<nodes, nodesLoaded, timer, inv>> /\ inv \in Inventories
      BY <1>t, <1>3, MovesOn DEF page, server, Working
    <2>2. AloneIsAlone'
      BY <2>1 DEF SaveInv, AloneIsAlone, Fresh, Working
    <2>3. ASSUME Fresh(s)'
          PROVE  /\ nodesLoaded' /\ ~timer' => save'[s].nodes = nodes'
                 /\ save'[s].pc \in {"Patch", "Merge"} => save'[s].removed =
                      DOMAIN inv.hosts \ DOMAIN BuildInventory(save[s].nodes).hosts
                 /\ save'[s].pc \in {"Merge", "Stamp"} => save'[s].obj = inv
                 /\ save'[s].pc = "Write" => save'[s].obj = BuildInventory(save[s].nodes)
                 /\ save'[s].pc \in {"Check", "Stamp"} => inv = BuildInventory(save[s].nodes)
      <3>1. Fresh(s)
        BY <2>1, <2>3 DEF Fresh
      <3>2. save[s].pc = "Merge" =>
              /\ save[s].obj = inv
              /\ Merged(inv, s) = BuildInventory(save[s].nodes)
        BY <3>1, PatchIsList DEF SaveInv, AloneIsTrue, Merged
      <3>3. BuildInventory(save[s].nodes) \in Inventories
        BY <1>t, BuildType DEF TypeOK
      <3>4. save'[s].pc = "Write" => save'[s].obj = BuildInventory(save[s].nodes)
        <4> SUFFICES ASSUME save'[s].pc = "Write"
                     PROVE  save'[s].obj = BuildInventory(save[s].nodes)
          OBVIOUS
        <4>1. save[s].pc = "Merge" /\ \E reordered \in BOOLEAN : save'[s].obj =
                ApplyChanges(save[s].obj, Merged(save[s].obj, s), inv, reordered)
          BY <1>t, <1>3, MovesOn
        <4>2. PICK reordered \in BOOLEAN : save'[s].obj =
                ApplyChanges(inv, BuildInventory(save[s].nodes), inv, reordered)
          BY <3>2, <4>1
        <4> QED BY <2>1, <3>3, <4>2, ChangesType
      <3>5. /\ save'[s].pc \in {"Merge", "Stamp"} => save'[s].obj = inv
            /\ save'[s].pc # "Check"
            /\ save'[s].pc = "Stamp" => save[s].pc = "Check"
        BY <1>t, <1>3, MovesOn
      <3>6. save'[s].pc \in {"Patch", "Merge"} => save'[s].removed =
              DOMAIN inv.hosts \ DOMAIN BuildInventory(save[s].nodes).hosts
        BY <1>t, <1>3, <2>3, <3>1, MovesOn DEF SaveInv, AloneIsTrue, Fresh
      <3> QED BY <2>1, <3>1, <3>4, <3>5, <3>6 DEF SaveInv, AloneIsTrue
    <2>4. AloneIsTrue'
      BY <1>b, <2>1, <2>3 DEF SaveInv, AloneIsTrue, Fresh, Working
    <2>5. ~Idle'
      BY <2>1 DEF Idle, Found
    <2> QED BY <2>2, <2>4, <2>5 DEF SaveInv, LastSaveWins
  <1>4. ASSUME NEW s \in Saves, Ends(s) PROVE SaveInv'
    <2>1. /\ Working(s) /\ save'[s].pc = "Off"
          /\ \A t \in Saves \ {s} : save'[t] = save[t]
          /\ UNCHANGED <<nodes, nodesLoaded, timer>>
      BY <1>t, <1>4, EndsCall DEF page, NoSave, Working
    <2>2. \/ inv' = inv /\ unsaved'
          \/ inv' = BuildInventory(save[s].nodes) /\ (~unsaved' => save[s].alone)
      BY <1>t, <1>4, EndsCall
    <2>3. CASE Fresh(s)
      <3>1. \A t \in Saves : ~Fresh(t)'
        BY <2>1, <2>3 DEF SaveInv, AloneIsAlone, Fresh, Working
      <3>2. AloneIsAlone' /\ AloneIsTrue'
        BY <3>1 DEF AloneIsAlone, AloneIsTrue
      <3>3. nodesLoaded' /\ ~timer' => save[s].nodes = nodes'
        BY <2>1, <2>3 DEF SaveInv, AloneIsTrue
      <3>4. LastSaveWins'
        BY <1>b, <2>2, <3>3 DEF LastSaveWins
      <3> QED BY <3>2, <3>4 DEF SaveInv
    <2>4. CASE ~Fresh(s)
      <3>1. unsaved' /\ \A t \in Saves : ~Fresh(t)'
        BY <2>1, <2>2, <2>4 DEF SaveInv, AloneIsAlone, Fresh, Working
      <3> QED BY <3>1 DEF SaveInv, AloneIsAlone, AloneIsTrue, LastSaveWins
    <2> QED BY <2>3, <2>4
  <1>5. ASSUME NEW s \in Saves, Writes(s) PROVE SaveInv'
    <2>1. /\ \A t \in Saves \ {s} : /\ save'[t].pc = save[t].pc
                                    /\ save'[t].alone = save[t].alone
          /\ UNCHANGED <<nodes, nodesLoaded, timer>>
          /\ inv' = save[s].obj /\ Working(s)
      BY <1>t, <1>5, WritesCall DEF page, Working
    <2>2. \A t \in Saves \ {s} : ~Fresh(t)'
      BY <2>1 DEF SaveInv, AloneIsAlone, Fresh, Working
    <2>3. Fresh(s)' => Fresh(s)
      BY <1>t, <1>5, WritesCall DEF Fresh, Working, NoSave
    <2>4. AloneIsAlone'
      BY <2>1, <2>2, <2>3 DEF SaveInv, AloneIsAlone, Fresh, Working
    <2>5. CASE save[s].pc = "Write"
      <3>1. /\ save'[s].pc = "Check" /\ save'[s].nodes = save[s].nodes
        BY <1>t, <1>5, <2>5, WritesCall
      <3>2. Fresh(s)' => /\ inv' = BuildInventory(save[s].nodes)
                         /\ nodesLoaded' /\ ~timer' => save'[s].nodes = nodes'
        BY <2>1, <2>3, <2>5, <3>1 DEF SaveInv, AloneIsTrue
      <3>3. AloneIsTrue'
        BY <1>b, <2>2, <3>1, <3>2 DEF AloneIsTrue
      <3>4. ~Idle'
        BY <3>1 DEF Idle
      <3> QED BY <2>4, <3>3, <3>4 DEF SaveInv, LastSaveWins
    <2>6. CASE save[s].pc = "Stamp"
      <3>1. save'[s].pc = "Off" /\ (~unsaved' => save[s].alone)
        BY <1>t, <1>5, <2>6, WritesCall DEF NoSave
      <3>2. ~Fresh(s)'
        BY <3>1 DEF Fresh, Working
      <3>3. AloneIsTrue'
        BY <2>2, <3>2 DEF AloneIsTrue
      <3>4. Fresh(s) => /\ inv' = BuildInventory(save[s].nodes)
                        /\ nodesLoaded' /\ ~timer' => save[s].nodes = nodes'
        BY <2>1, <2>6 DEF SaveInv, AloneIsTrue
      <3>5. LastSaveWins'
        BY <1>b, <2>1, <3>1, <3>4 DEF LastSaveWins, Fresh
      <3> QED BY <2>4, <3>3, <3>5 DEF SaveInv
    <2> QED BY <1>t, <1>5, <2>5, <2>6, WritesCall
  <1> QED BY <1>1, <1>2, <1>3, <1>4, <1>5, SaveCases DEF Next

\* LastSaveWins: when the last good save met no other one and no change waits
\* for its save, the inventory is the list on the page, for any lists, any
\* number of saves and any order and failure of their calls.
THEOREM LastSaveWinsHolds == Spec => []LastSaveWins
  <1>1. Init => SaveInv
    BY DEF Init, SaveInv, AloneIsAlone, AloneIsTrue, LastSaveWins, Fresh, Working, NoSave
  <1>2. TypeInv /\ SaveInv /\ [Next]_vars => SaveInv'
    BY SaveInvKept
  <1>3. SaveInv => LastSaveWins
    BY DEF SaveInv
  <1> QED BY <1>1, <1>2, <1>3, TypeInvAlways, PTL DEF Spec

-----------------------------------------------------------------------------
\* Where the machines of the inventory come from.

\* The page covers ever more: what leaves the list the user or the page gave up.
LEMMA CoveredGrows ==
  ASSUME TypeOK, User \/ Loads \/ UNCHANGED vars
  PROVE  /\ Covered \subseteq Covered'
         /\ (timer => nodesLoaded) => (timer' => nodesLoaded')
         /\ nodesLoaded' => nodesLoaded \/ Held \subseteq Covered'
  <1> DEFINE Good == /\ Covered \subseteq Covered'
                     /\ (timer => nodesLoaded) => (timer' => nodesLoaded')
                     /\ nodesLoaded' => nodesLoaded \/ Held \subseteq Covered'
  <1>a. AddrsIn(nodes)' = AddrsIn(nodes')
    BY DEF AddrsIn
  <1>c. Covered' = AddrsIn(nodes') \cup byUser' \cup forgotten'
    BY <1>a DEF Covered
  <1>1. CASE UNCHANGED <<nodes, nodesLoaded, timer, byUser, forgotten>>
    BY <1>1, <1>c DEF Covered
  <1>2. CASE UNCHANGED vars \/ AnswerLoad("start") \/ AnswerLoad("refresh") \/ FailLoad("start")
          \/ FailLoad("refresh")
    BY <1>1, <1>2, Zenon DEF vars, page, history, AnswerLoad, FailLoad
  <1>3. CASE Refresh \/ FailAdd \/ CancelDelete \/ \E node \in NewNodes : StartAdd(node)
    BY <1>1, <1>3, Zenon DEF Refresh, FailAdd, CancelDelete, StartAdd, history
  <1>4. CASE \E rows \in SUBSET (1 .. MaxNodes) \ {{}} : AskDelete(rows)
    BY <1>1, <1>4, Zenon DEF AskDelete, history
  <1>5. CASE Restore
    <2>1. /\ nodesLoaded' /\ timer' /\ byUser' = byUser
          /\ forgotten' = forgotten \cup ((AddrsIn(nodes) \cup Held) \ (AddrsIn(nodes') \cup byUser))
      BY <1>5 DEF Restore
    <2> QED BY <2>1, <1>c DEF Covered
  <1>6. CASE Refreshed
    <2>1. nodesLoaded' = nodesLoaded /\ byUser' = byUser
      BY <1>6 DEF Refreshed
    <2>2. timer' = nodesLoaded
      BY <1>6 DEF Refreshed, SetNodes
    <2>3. forgotten' = forgotten \cup (AddrsIn(nodes) \ (AddrsIn(nodes') \cup byUser))
      BY <1>6 DEF Refreshed, SetNodes, Forget
    <2> QED BY <2>1, <2>2, <2>3, <1>c DEF Covered
  <1>7. CASE FinishAdd
    <2>1. PICK list : /\ nodes' = list /\ timer' = nodesLoaded /\ nodesLoaded' = nodesLoaded
                      /\ list = Append(add.base, add.node)
                      /\ byUser' = byUser \ {add.node.addr}
                      /\ forgotten' = (forgotten \cup (AddrsIn(nodes) \ byUser)) \ AddrsIn(list)
      BY <1>7 DEF FinishAdd, SetNodes
    <2>2. add.base \in Seq(Node)
      BY <1>7 DEF FinishAdd, TypeOK
    <2>3. Len(list) \in DOMAIN list /\ list[Len(list)] = add.node
      BY <2>1, <2>2
    <2>4. add.node.addr \in AddrsIn(list)
      BY <2>3 DEF AddrsIn
    <2> QED BY <2>1, <2>4, <1>c DEF Covered
  <1>8. CASE DoConfirmDelete
    <2>1. /\ timer' = nodesLoaded /\ nodesLoaded' = nodesLoaded /\ forgotten' = forgotten
          /\ byUser' = byUser \cup (AddrsIn(nodes) \ AddrsIn(nodes'))
      BY <1>8 DEF DoConfirmDelete, SetNodes
    <2> QED BY <2>1, <1>c DEF Covered
  <1>9. ASSUME NEW i, NEW node, EditNode(i, node) PROVE Good
    <2>1. /\ timer' = nodesLoaded /\ nodesLoaded' = nodesLoaded
          /\ byUser' = (byUser \cup AddrsIn(nodes)) \ AddrsIn(nodes')
          /\ forgotten' = forgotten \ AddrsIn(nodes')
      BY <1>9 DEF EditNode, SetNodes
    <2> QED BY <2>1, <1>c DEF Covered
  <1> QED BY <1>2, <1>3, <1>4, <1>5, <1>6, <1>7, <1>8, <1>9 DEF User, Loads

\* The machines that a step of a save brings to the server come from its list or
\* from what was there.
LEMMA MachinesMade ==
  ASSUME TypeInv, NEW s \in Saves, GoesOn(s) \/ Ends(s) \/ Writes(s)
  PROVE  Held' \subseteq Held \cup AddrsIn(save[s].nodes)
  <1>0. None \notin Inventories
    BY NodeTableAssumption DEF NodeTableAssumption
  <1>t. TypeOK /\ ServerThere
    BY DEF TypeInv
  <1>m. \A i : Machines(i)' = Machines(i')
    BY DEF Machines
  <1>h. Held' = Machines(inv') \cup UNION {Machines(save'[t].obj) : t \in Saves}
    BY DEF Held, Machines
  <1>1. save[s].nodes \in Seq(Node)
    BY <1>t DEF TypeOK
  <1>2. /\ BuildInventory(save[s].nodes) \in Inventories
        /\ Range(BuildInventory(save[s].nodes).hosts) \subseteq AddrsIn(save[s].nodes)
    BY <1>1, BuildType
  <1>3. ASSUME NEW t \in Saves PROVE Machines(save[t].obj) \subseteq Held
    BY DEF Held
  <1>4. CASE GoesOn(s)
    <2>1. inv' = inv /\ inv \in Inventories /\ \A t \in Saves \ {s} : save'[t] = save[t]
      BY <1>t, <1>4, MovesOn DEF server
    <2>2. Machines(save'[s].obj) \subseteq Held \cup AddrsIn(save[s].nodes)
      <3>1. CASE save'[s].obj \in {None, inv}
        BY <3>1 DEF Held, Machines
      <3>2. CASE save[s].pc = "Merge"
        <4>1. PICK reordered \in BOOLEAN : save'[s].obj =
                ApplyChanges(save[s].obj, Merged(save[s].obj, s), inv, reordered)
          BY <1>t, <1>4, <3>2, MovesOn
        <4>2. save[s].obj \in Inventories
          BY <1>t, <3>2 DEF ServerThere, Holding
        <4>3. /\ Merged(save[s].obj, s) \in Inventories
              /\ Range(Merged(save[s].obj, s).hosts)
                   \subseteq Range(save[s].obj.hosts) \cup AddrsIn(save[s].nodes)
          BY <1>2, <4>2, MergeType DEF Merged
        <4>4. save'[s].obj \in Inventories
              /\ Range(save'[s].obj.hosts) \subseteq
                   Range(inv.hosts) \cup Range(Merged(save[s].obj, s).hosts)
          <5> DEFINE i == ApplyChanges(save[s].obj, Merged(save[s].obj, s), inv, reordered)
          <5>1. i \in Inventories
            BY <2>1, <4>1, <4>2, <4>3, ChangesType, Zenon
          <5>3. Range(i.hosts) \subseteq Range(inv.hosts) \cup Range(Merged(save[s].obj, s).hosts)
            <6>1. PICK old, new, cur \in Inventories :
                     old = save[s].obj /\ new = Merged(save[s].obj, s) /\ cur = inv
              BY <2>1, <4>2, <4>3
            <6>2. Range(ApplyChanges(old, new, cur, reordered).hosts)
                    \subseteq Range(cur.hosts) \cup Range(new.hosts)
              BY ChangesType
            <6> QED BY <6>1, <6>2
          <5> HIDE DEF i
          <5>2. save'[s].obj = i
            BY <4>1 DEF i
          <5> QED BY <5>1, <5>2, <5>3
        <4>5. Range(save[s].obj.hosts) \subseteq Held /\ Range(inv.hosts) \subseteq Held
          BY <1>0, <1>3, <2>1, <4>2 DEF Held, Machines
        <4> QED BY <1>0, <4>3, <4>4, <4>5 DEF Machines
      <3> QED BY <1>t, <1>4, <3>1, <3>2, MovesOn
    <2>3. Machines(inv') \subseteq Held
      BY <2>1 DEF Held
    <2>4. \A t \in Saves : Machines(save'[t].obj) \subseteq Held \cup AddrsIn(save[s].nodes)
      BY <1>3, <2>1, <2>2
    <2> QED BY <1>h, <2>3, <2>4
  <1>5. CASE Ends(s)
    <2>1. \A t \in Saves : Machines(save'[t].obj) \subseteq Held
      BY <1>t, <1>3, <1>5, EndsCall DEF NoSave, Machines
    <2>2. Machines(inv') \subseteq Held \cup AddrsIn(save[s].nodes)
      <3>1. CASE inv' = inv
        BY <3>1 DEF Held
      <3>2. CASE inv' = BuildInventory(save[s].nodes)
        BY <1>2, <3>2 DEF Machines
      <3> QED BY <1>t, <1>5, <3>1, <3>2, EndsCall
    <2> QED BY <1>h, <2>1, <2>2
  <1>6. CASE Writes(s)
    <2>1. /\ inv' = save[s].obj /\ save'[s].obj = None
          /\ \A t \in Saves \ {s} : save'[t].obj = save[t].obj
      BY <1>t, <1>6, WritesCall
    <2>2. \A t \in Saves : Machines(save'[t].obj) \subseteq Held
      BY <1>3, <2>1 DEF Machines
    <2> QED BY <1>h, <1>3, <2>1, <2>2
  <1> QED BY <1>4, <1>5, <1>6

\* A list is covered by the hosts of its inventory and the shadowed nodes.
LEMMA ShadowedCovers ==
  AddrsIn(nodes) \subseteq Shadowed \cup Range(BuildInventory(nodes).hosts)
  BY DEF Shadowed

LEMMA CoverInvKept ==
  ASSUME TypeInv, SaveInv, CoverInv, [Next]_vars
  PROVE  CoverInv'
  <1>t. TypeOK /\ ServerThere
    BY DEF TypeInv
  <1>m. /\ \A i : Machines(i)' = Machines(i') /\ BuildInventory(i)' = BuildInventory(i')
        /\ \A list : AddrsIn(list)' = AddrsIn(list')
        /\ \A f : Range(f)' = Range(f')
    BY DEF Machines, BuildInventory, NamesIn, HostOf, AddrsIn, Range
  <1>1. CASE User \/ Loads \/ UNCHANGED vars
    <2>1. UNCHANGED <<save, inv>>
      BY <1>1, PageStep
    <2>2. /\ Covered \subseteq Covered'
          /\ (timer => nodesLoaded) => (timer' => nodesLoaded')
          /\ nodesLoaded' => nodesLoaded \/ Held \subseteq Covered'
      BY <1>1, <1>t, CoveredGrows
    <2>3. \A s \in Saves : Working(s)' => AddrsIn(save'[s].nodes) \subseteq Covered'
      BY <2>1, <2>2 DEF CoverInv, Working
    <2>h. Held' = Held
      BY <2>1 DEF Held, Machines
    <2>4. nodesLoaded' => Held' \subseteq Covered'
      BY <2>h, <2>2 DEF CoverInv
    <2>5. \A s \in Saves : Fresh(s)' =>
            Machines(inv') \subseteq save'[s].may \cup Range(BuildInventory(save'[s].nodes).hosts)
      BY <2>1 DEF CoverInv, Fresh, Working
    <2> QED BY <2>2, <2>3, <2>4, <2>5 DEF CoverInv, Machines, AddrsIn, BuildInventory, NamesIn, HostOf
  <1>c. UNCHANGED <<nodes, byUser, forgotten>> => Covered' = Covered
    BY DEF Covered, AddrsIn
  <1>2. ASSUME NEW s \in Saves, FireTimer(s) \/ GoNextSaves(s) PROVE CoverInv'
    <2>1. PICK may : /\ save[s].pc = "Off" /\ save' = Started(s, may)
                     /\ byUser \cup forgotten \cup Shadowed \subseteq may
                     /\ ~nodesLoaded => Machines(inv) \subseteq may
      <3>1. CASE FireTimer(s)
        BY <3>1 DEF FireTimer, CoverInv
      <3>2. CASE GoNextSaves(s)
        BY <3>2 DEF GoNextSaves
      <3> QED BY <1>2, <3>1, <3>2
    <2>2. UNCHANGED <<nodes, nodesLoaded, byUser, forgotten, inv>> /\ (timer' => timer)
      BY <1>2 DEF FireTimer, GoNextSaves, page, server, history
    <2>3. /\ save'[s].pc = "Post" /\ save'[s].nodes = nodes /\ save'[s].may = may
          /\ save'[s].alone = Idle /\ save'[s].obj = None
          /\ \A t \in Saves \ {s} : /\ save'[t].pc = save[t].pc /\ save'[t].nodes = save[t].nodes
                                    /\ save'[t].obj = save[t].obj
                                    /\ save[t].pc # "Off" => ~save'[t].alone
      BY <1>t, <2>1, StartedCalls, ZenonT(60)
    <2>4. \A t \in Saves : Working(t)' => AddrsIn(save'[t].nodes) \subseteq Covered'
      BY <1>c, <2>2, <2>3 DEF CoverInv, Working, Covered
    <2>h. Held' = Held
      <3>1. \A t \in Saves : save'[t].obj = save[t].obj
        BY <1>t, <2>1, <2>3 DEF ServerThere, Holding
      <3> QED BY <2>2, <3>1 DEF Held, Machines
    <2>5. nodesLoaded' => Held' \subseteq Covered'
      BY <1>c, <2>2, <2>h DEF CoverInv
    <2>6. Machines(inv) \subseteq may \cup Range(BuildInventory(nodes).hosts)
      <3>1. Machines(inv) \subseteq Held
        BY DEF Held
      <3> QED BY <2>1, <3>1, ShadowedCovers DEF CoverInv, Covered
    <2>7. \A t \in Saves : Fresh(t)' =>
            Machines(inv') \subseteq save'[t].may \cup Range(BuildInventory(save'[t].nodes).hosts)
      BY <2>2, <2>3, <2>6 DEF Fresh, Working
    <2> QED BY <2>2, <2>4, <2>5, <2>7 DEF CoverInv, Machines, AddrsIn, BuildInventory, NamesIn, HostOf
  <1>3. ASSUME NEW s \in Saves, GoesOn(s) PROVE CoverInv'
    <2>1. /\ save'[s].nodes = save[s].nodes /\ save'[s].may = save[s].may
          /\ Working(s) /\ (save'[s].alone => save[s].alone)
          /\ \A t \in Saves \ {s} : save'[t] = save[t]
          /\ UNCHANGED <<nodes, nodesLoaded, timer, byUser, forgotten, inv>>
      BY <1>t, <1>3, MovesOn DEF page, server, history, Working
    <2>2. \A t \in Saves : Working(t)' => AddrsIn(save'[t].nodes) \subseteq Covered'
      BY <1>c, <2>1 DEF CoverInv, Working
    <2>3. \A t \in Saves : Fresh(t)' =>
            Machines(inv') \subseteq save'[t].may \cup Range(BuildInventory(save'[t].nodes).hosts)
      BY <2>1 DEF CoverInv, Fresh, Working
    <2>4. nodesLoaded' => Held' \subseteq Covered'
      BY <1>3, <1>c, <2>1, MachinesMade DEF CoverInv
    <2> QED BY <2>1, <2>2, <2>3, <2>4 DEF CoverInv, Machines, AddrsIn, BuildInventory, NamesIn, HostOf
  <1>4. ASSUME NEW s \in Saves, Ends(s) PROVE CoverInv'
    <2>1. /\ Working(s) /\ save'[s].pc = "Off"
          /\ \A t \in Saves \ {s} : save'[t] = save[t]
          /\ UNCHANGED <<nodes, nodesLoaded, timer, byUser, forgotten>>
      BY <1>t, <1>4, EndsCall DEF page, Working, NoSave
    <2>2. \A t \in Saves : Working(t)' => AddrsIn(save'[t].nodes) \subseteq Covered'
      BY <1>c, <2>1 DEF CoverInv, Working
    <2>4. nodesLoaded' => Held' \subseteq Covered'
      BY <1>4, <1>c, <2>1, MachinesMade DEF CoverInv
    <2>5. CASE Fresh(s) \/ inv' = inv
      <3>1. \A t \in Saves : Fresh(t)' => inv' = inv /\ Fresh(t) /\ save'[t] = save[t]
        BY <2>1, <2>5 DEF SaveInv, AloneIsAlone, Fresh, Working
      <3>2. \A t \in Saves : Fresh(t)' =>
              Machines(inv') \subseteq save'[t].may \cup Range(BuildInventory(save'[t].nodes).hosts)
        BY <3>1 DEF CoverInv
      <3> QED BY <2>1, <2>2, <2>4, <3>2 DEF CoverInv, Machines, AddrsIn, BuildInventory, NamesIn, HostOf
    <2>6. CASE ~Fresh(s)
      <3>1. \A t \in Saves : ~Fresh(t)'
        BY <2>1 DEF SaveInv, AloneIsAlone, Fresh, Working
      <3> QED BY <2>1, <2>2, <2>4, <3>1 DEF CoverInv, Machines, AddrsIn, BuildInventory, NamesIn, HostOf
    <2> QED BY <2>5, <2>6
  <1>5. ASSUME NEW s \in Saves, Writes(s) PROVE CoverInv'
    <2>1. /\ Working(s) /\ UNCHANGED <<nodes, nodesLoaded, timer, byUser, forgotten>>
          /\ \A t \in Saves \ {s} : /\ save'[t].pc = save[t].pc /\ save'[t].nodes = save[t].nodes
                                    /\ save'[t].alone = save[t].alone
      BY <1>t, <1>5, WritesCall DEF page, Working
    <2>2. Working(s)' => /\ save[s].pc = "Write" /\ save'[s].nodes = save[s].nodes
                         /\ save'[s].alone = save[s].alone /\ inv' = save[s].obj
      BY <1>t, <1>5, WritesCall DEF Working
    <2>3. \A t \in Saves : Working(t)' => AddrsIn(save'[t].nodes) \subseteq Covered'
      BY <1>c, <2>1, <2>2 DEF CoverInv, Working
    <2>4. nodesLoaded' => Held' \subseteq Covered'
      BY <1>5, <1>c, <2>1, MachinesMade DEF CoverInv
    <2>5. \A t \in Saves \ {s} : ~Fresh(t)'
      BY <2>1 DEF SaveInv, AloneIsAlone, Fresh, Working
    <2>6. Fresh(s)' => Machines(inv') \subseteq Range(BuildInventory(save'[s].nodes).hosts)
      <3> SUFFICES ASSUME Fresh(s)' PROVE Machines(inv') \subseteq Range(BuildInventory(save'[s].nodes).hosts)
        OBVIOUS
      <3>1. Fresh(s) /\ save[s].pc = "Write"
        BY <2>1, <2>2 DEF Fresh
      <3>2. inv' = BuildInventory(save[s].nodes)
        BY <2>2, <3>1 DEF Fresh, SaveInv, AloneIsTrue
      <3> QED BY <2>2, <3>2 DEF Machines, Fresh
    <2>7. \A t \in Saves : Fresh(t)' =>
            Machines(inv') \subseteq save'[t].may \cup Range(BuildInventory(save'[t].nodes).hosts)
      BY <2>5, <2>6
    <2> QED BY <2>1, <2>3, <2>4, <2>7
            DEF CoverInv, Machines, AddrsIn, BuildInventory, NamesIn, HostOf
  <1> QED BY <1>1, <1>2, <1>3, <1>4, <1>5, SaveCases DEF Next

\* Only a write of the server takes machines from the inventory, and if its save
\* met no other one only those it may.
LEMMA LossStep ==
  ASSUME TypeInv, SaveInv, CoverInv, [Next]_vars, Removed # {}
  PROVE  \E s \in Saves : /\ save[s].pc \in {"Write", "Stamp"} /\ save'[s].pc # save[s].pc
                          /\ save[s].alone => Removed \subseteq save[s].may
  <1>t. TypeOK /\ ServerThere
    BY DEF TypeInv
  <1>1. inv' # inv /\ inv # None
    BY DEF Removed, Machines
  <1>2. PICK s \in Saves : Save(s)
    BY <1>1, PageStep DEF Next
  <1>3. ~(FireTimer(s) \/ GoNextSaves(s))
    BY <1>1 DEF FireTimer, GoNextSaves, server
  <1>4. ~GoesOn(s) /\ ~Ends(s)
    BY <1>1, <1>t, MovesOn, EndsCall DEF server
  <1>5. Writes(s)
    BY <1>2, <1>3, <1>4, SaveCases
  <1>6. save[s].pc \in {"Write", "Stamp"} /\ save'[s].pc # save[s].pc /\ inv' = save[s].obj
    BY <1>5, <1>t, WritesCall
  <1>7. ASSUME save[s].alone PROVE Removed \subseteq save[s].may
    <2>1. Fresh(s)
      BY <1>6, <1>7 DEF Fresh, Working
    <2>2. save[s].pc = "Write" /\ inv' = BuildInventory(save[s].nodes)
      BY <1>1, <1>6, <2>1 DEF SaveInv, AloneIsTrue
    <2>3. Machines(inv) \subseteq save[s].may \cup Range(BuildInventory(save[s].nodes).hosts)
      BY <2>1 DEF CoverInv
    <2>4. inv' # None
      BY <1>5, <1>6, <1>t, WritesCall, NodeTableAssumption DEF NodeTableAssumption
    <2>5. Machines(inv') = Range(BuildInventory(save[s].nodes).hosts)
      BY <2>2, <2>4 DEF Machines
    <2> QED BY <2>3, <2>5 DEF Removed, Machines
  <1> QED BY <1>6, <1>7

\* LossHasCause: a machine that the user keeps leaves the inventory only by the
\* merge patch of a save, and then because the page had forgotten it or because
\* saves met, for any lists and inventories.
THEOREM LossHasCauseHolds == Spec => LossHasCause
  <1>1. Init => SaveInv /\ CoverInv
    BY DEF Init, SaveInv, AloneIsAlone, AloneIsTrue, LastSaveWins, CoverInv, Fresh, Working, NoSave
  <1>2. TypeInv /\ SaveInv /\ CoverInv /\ [Next]_vars => (SaveInv /\ CoverInv)'
    BY SaveInvKept, CoverInvKept
  <1>3. TypeInv /\ SaveInv /\ CoverInv /\ [Next]_vars =>
          [Removed # {} =>
             \E s \in Saves : /\ save[s].pc \in {"Write", "Stamp"} /\ save'[s].pc # save[s].pc
                              /\ save[s].alone => Removed \subseteq save[s].may]_vars
    BY LossStep
  <1> QED BY <1>1, <1>2, <1>3, TypeInvAlways, PTL DEF Spec, LossHasCause

-----------------------------------------------------------------------------
\* The fields of the form, of FormCalls.

\* What one step of the loops of getDeep and setDeep makes of w.
ItemOf(w, key) == IF IsObject(w) /\ key \in DOMAIN w.sub THEN w.sub[key] ELSE Undefined

\* The values that getDeep and setDeep find down the path, and those that setDeep makes.
Gets(cur, path, d) == \A k \in 1 .. d : cur[k] = ItemOf(cur[k - 1], path[k])
Ways(old, path, d) == \A k \in 1 .. d : old[k] = Child(old[k - 1], path[k])
Makes(made, old, path, n) ==
  \A k \in 1 .. n : made[k] = Object(With(Spread(old[n - k]), path[n - k + 1], made[k - 1]))

\* q goes with p for d keys; no key of it is the index of a character.
Together(p, q, d) == \A i \in 1 .. d : q[i] = p[i]
NoIndex(q, d) == \A i \in 1 .. d : q[i] # "0"

PathStep(kind, w, key, old) ==
  IF kind = "get" THEN ItemOf(w, key)
  ELSE IF kind = "way" THEN Child(w, key) ELSE Object(With(Spread(old), key, w))

Walks(f, n, kind, v, keys, olds) ==
  f[0] = v /\ \A k \in 1 .. n : f[k] = PathStep(kind, f[k - 1], keys[k], olds[k])

\* There is a function that goes these steps, whatever the values are.
LEMMA WalksExists ==
  ASSUME NEW n \in Nat, NEW kind, NEW v, NEW keys, NEW olds
  PROVE  \E f : f = [k \in 0 .. n |-> f[k]] /\ Walks(f, n, kind, v, keys, olds)
  <1> DEFINE Upto(m) == \E f : f = [k \in 0 .. m |-> f[k]] /\ Walks(f, m, kind, v, keys, olds)
             S == {m \in 0 .. n : Upto(m)}
  <1>1. 0 \in S
    <2> DEFINE f == [k \in 0 .. 0 |-> v]
    <2>1. f = [k \in 0 .. 0 |-> f[k]] /\ Walks(f, 0, kind, v, keys, olds)
      BY DEF Walks
    <2> HIDE DEF f
    <2> QED BY <2>1
  <1>2. \A m \in 1 .. n : m - 1 \in S => m \in S
    <2> SUFFICES ASSUME NEW m \in 1 .. n, m - 1 \in S PROVE m \in S
      OBVIOUS
    <2>1. PICK f : /\ f[0] = v
                   /\ \A k \in 1 .. m - 1 : f[k] = PathStep(kind, f[k - 1], keys[k], olds[k])
      BY Zenon DEF Walks
    <2> DEFINE g == [k \in 0 .. m |-> IF k = m THEN PathStep(kind, f[m - 1], keys[m], olds[m]) ELSE f[k]]
    <2>2. g[0] = v
      BY <2>1
    <2>3. ASSUME NEW k \in 1 .. m PROVE g[k] = PathStep(kind, g[k - 1], keys[k], olds[k])
      <3>1. k - 1 \in 0 .. m /\ k - 1 # m /\ k \in 0 .. m
        OBVIOUS
      <3>2. g[k - 1] = f[k - 1]
        BY <3>1
      <3>3. CASE k = m
        BY <3>1, <3>2, <3>3
      <3>4. CASE k # m
        <4>1. k \in 1 .. m - 1
          BY <3>4
        <4> QED BY <2>1, <3>1, <3>2, <3>4, <4>1
      <3> QED BY <3>3, <3>4
    <2>4. g = [k \in 0 .. m |-> g[k]]
      OBVIOUS
    <2> HIDE DEF g
    <2>5. Walks(g, m, kind, v, keys, olds)
      BY <2>2, <2>3 DEF Walks
    <2>6. Upto(m)
      BY <2>4, <2>5
    <2> QED BY <2>6
  <1> HIDE DEF S
  <1>3. 0 .. n \subseteq S
    BY <1>1, <1>2, InductionUpTo
  <1>4. n \in S
    BY <1>3
  <1> QED BY <1>4 DEF S

\* getDeep goes down the path, key by key.
LEMMA GetSteps ==
  ASSUME NEW v, NEW path, Len(path) \in Nat
  PROVE  \E cur : /\ cur[0] = v /\ GetDeep(v, path) = cur[Len(path)]
                  /\ Gets(cur, path, Len(path))
  <1> DEFINE n == Len(path)
             Eq(f) == f = [i \in 0 .. n |-> IF i = 0 THEN v
                             ELSE IF IsObject(f[i - 1]) /\ path[i] \in DOMAIN f[i - 1].sub
                                  THEN f[i - 1].sub[path[i]] ELSE Undefined]
             cur == CHOOSE f : Eq(f)
  <1>1. GetDeep(v, path) = cur[n]
    BY DEF GetDeep
  <1>2. PICK f : f = [k \in 0 .. n |-> f[k]] /\ Walks(f, n, "get", v, path, path)
    BY WalksExists
  <1>3. f[0] = v /\ \A k \in 1 .. n : f[k] = ItemOf(f[k - 1], path[k])
    BY <1>2 DEF PathStep, Walks
  <1>4. \A k \in 0 .. n : k = 0 \/ (k \in 1 .. n /\ k # 0)
    OBVIOUS
  <1> HIDE DEF n
  <1>5. [k \in 0 .. n |-> f[k]] = [i \in 0 .. n |-> IF i = 0 THEN v
                             ELSE IF IsObject(f[i - 1]) /\ path[i] \in DOMAIN f[i - 1].sub
                                  THEN f[i - 1].sub[path[i]] ELSE Undefined]
    BY <1>2, <1>3, <1>4, Zenon DEF ItemOf
  <1>6. Eq(f)
    BY <1>2, <1>5
  <1>7. Eq(cur)
    BY <1>6, Zenon
  <1> HIDE DEF cur
  <1>8. n \in Nat
    BY DEF n
  <1>9. cur[0] = v
    BY <1>7, <1>8
  <1>10. ASSUME NEW k \in 1 .. n PROVE cur[k] = ItemOf(cur[k - 1], path[k])
    <2>1. k \in 0 .. n /\ k # 0
      BY <1>8
    <2> QED BY <1>7, <2>1 DEF ItemOf
  <1>11. Gets(cur, path, n)
    BY <1>10 DEF Gets
  <1> QED BY <1>1, <1>9, <1>11 DEF n

\* What is on the way is found by the same walk, missing objects being empty ones.
LEMMA WaySteps ==
  ASSUME NEW v, NEW path, Len(path) \in Nat
  PROVE  OnTheWay(v, path)[0] = v /\ Ways(OnTheWay(v, path), path, Len(path))
  <1> DEFINE n == Len(path)
             Eq(f) == f = [i \in 0 .. n |-> IF i = 0 THEN v ELSE Child(f[i - 1], path[i])]
             old == CHOOSE f : Eq(f)
  <1>1. OnTheWay(v, path) = old
    BY DEF OnTheWay
  <1>2. PICK f : f = [k \in 0 .. n |-> f[k]] /\ Walks(f, n, "way", v, path, path)
    BY WalksExists
  <1>3. f[0] = v /\ \A k \in 1 .. n : f[k] = Child(f[k - 1], path[k])
    BY <1>2 DEF PathStep, Walks
  <1>4. \A k \in 0 .. n : k = 0 \/ (k \in 1 .. n /\ k # 0)
    OBVIOUS
  <1> HIDE DEF n
  <1>5. [k \in 0 .. n |-> f[k]] = [i \in 0 .. n |-> IF i = 0 THEN v ELSE Child(f[i - 1], path[i])]
    BY <1>3, <1>4, Zenon
  <1>6. Eq(f)
    BY <1>2, <1>5
  <1>7. Eq(old)
    BY <1>6, Zenon
  <1> HIDE DEF old
  <1>8. n \in Nat
    BY DEF n
  <1>9. old[0] = v
    BY <1>7, <1>8
  <1>10. ASSUME NEW k \in 1 .. n PROVE old[k] = Child(old[k - 1], path[k])
    <2>1. k \in 0 .. n /\ k # 0
      BY <1>8
    <2> QED BY <1>7, <2>1
  <1> QED BY <1>1, <1>9, <1>10 DEF n, Ways

\* setDeep makes the objects from the innermost one outwards, each from what was there.
LEMMA SetSteps ==
  ASSUME NEW v, NEW path, Len(path) \in Nat, NEW new
  PROVE  \E made :
           /\ made[0] = new /\ SetDeep(v, path, new) = made[Len(path)]
           /\ Makes(made, OnTheWay(v, path), path, Len(path))
  <1> DEFINE n == Len(path)
             old == OnTheWay(v, path)
             Eq(f) == f = [i \in 0 .. n |-> IF i = 0 THEN new
                             ELSE Object(With(Spread(old[n - i]), path[n - i + 1], f[i - 1]))]
             made == CHOOSE f : Eq(f)
             keys == [k \in 1 .. n |-> path[n - k + 1]]
             olds == [k \in 1 .. n |-> old[n - k]]
  <1>1. SetDeep(v, path, new) = made[n]
    BY DEF SetDeep
  <1>2. PICK f : f = [k \in 0 .. n |-> f[k]] /\ Walks(f, n, "set", new, keys, olds)
    BY WalksExists
  <1>3. f[0] = new /\ \A k \in 1 .. n : f[k] = Object(With(Spread(old[n - k]), path[n - k + 1], f[k - 1]))
    <2> HIDE DEF old, n
    <2> QED BY <1>2 DEF PathStep, Walks
  <1>4. \A k \in 0 .. n : k = 0 \/ (k \in 1 .. n /\ k # 0)
    OBVIOUS
  <1> HIDE DEF n, old
  <1>5. [k \in 0 .. n |-> f[k]] = [i \in 0 .. n |-> IF i = 0 THEN new
                             ELSE Object(With(Spread(old[n - i]), path[n - i + 1], f[i - 1]))]
    BY <1>3, <1>4, Zenon
  <1>6. Eq(f)
    BY <1>2, <1>5
  <1>7. Eq(made)
    BY <1>6, Zenon
  <1> HIDE DEF made
  <1>8. n \in Nat
    BY DEF n
  <1>9. made[0] = new
    BY <1>7, <1>8
  <1>10. ASSUME NEW k \in 1 .. n
         PROVE  made[k] = Object(With(Spread(old[n - k]), path[n - k + 1], made[k - 1]))
    <2>1. k \in 0 .. n /\ k # 0
      BY <1>8
    <2> QED BY <1>7, <2>1
  <1>11. Makes(made, old, path, n)
    BY <1>10 DEF Makes
  <1> QED BY <1>1, <1>9, <1>11 DEF n, old

\* The item of an object that was made: the one that was set, or what was there.
LEMMA ItemOfMade ==
  ASSUME NEW w, NEW key, NEW new
  PROVE  /\ ItemOf(Object(With(Spread(w), key, new)), key) = new
         /\ \A k : k # key /\ k # "0" => ItemOf(Object(With(Spread(w), key, new)), k) = ItemOf(w, k)
  <1> DEFINE sub == With(Spread(w), key, new)
  <1>1. DOMAIN sub = DOMAIN Spread(w) \cup {key}
    BY DEF With
  <1>2. sub[key] = new /\ \A k \in DOMAIN Spread(w) : k # key => sub[k] = Spread(w)[k]
    BY DEF With
  <1>3. Object(sub).sub = sub /\ IsObject(Object(sub))
    BY DEF Object, IsObject
  <1>4. ASSUME NEW k, k # "0"
        PROVE  ItemOf(w, k) = IF k \in DOMAIN Spread(w) THEN Spread(w)[k] ELSE Undefined
    <2>1. CASE IsObject(w)
      BY <2>1 DEF Spread, ItemOf
    <2>2. CASE ~ IsObject(w)
      <3>1. Spread(w) = << >> \/ Spread(w) = [x \in {"0"} |-> w]
        BY <2>2 DEF Spread
      <3>2. DOMAIN << >> = {} /\ DOMAIN [x \in {"0"} |-> w] = {"0"}
        OBVIOUS
      <3>3. k \notin DOMAIN Spread(w)
        BY <1>4, <3>1, <3>2
      <3> QED BY <2>2, <3>3 DEF ItemOf
    <2> QED BY <2>1, <2>2
  <1> HIDE DEF sub
  <1>5. ASSUME NEW k PROVE ItemOf(Object(sub), k) = IF k \in DOMAIN sub THEN sub[k] ELSE Undefined
    BY <1>3 DEF ItemOf
  <1> QED BY <1>1, <1>2, <1>4, <1>5 DEF sub

\* Going down a path through what was made for it, as far as both go together, meets the
\* objects that were made.
LEMMA AlongMade ==
  ASSUME NEW n \in Nat, NEW d \in 0 .. n, NEW p, NEW q, Together(p, q, d),
         NEW old, NEW made, NEW cur, cur[0] = made[n], Makes(made, old, p, n), Gets(cur, q, d)
  PROVE  \A k \in 0 .. d : cur[k] = made[n - k]
  <1> DEFINE T == {k \in 0 .. d : cur[k] = made[n - k]}
  <1>1. 0 \in T
    OBVIOUS
  <1>2. \A k \in 1 .. d : k - 1 \in T => k \in T
    <2> SUFFICES ASSUME NEW k \in 1 .. d, k - 1 \in T PROVE k \in T
      OBVIOUS
    <2>1. /\ n - (k - 1) \in 1 .. n /\ n - (n - (k - 1)) + 1 = k
          /\ n - (k - 1) - 1 = n - k
      OBVIOUS
    <2>2. made[n - (k - 1)] = Object(With(Spread(old[n - (n - (k - 1))]), p[k], made[n - k]))
      BY <2>1 DEF Makes
    <2>3. cur[k] = ItemOf(made[n - (k - 1)], p[k])
      BY DEF Gets, Together
    <2>4. cur[k] = made[n - k]
      BY <2>2, <2>3, ItemOfMade
    <2> QED BY <2>4
  <1>3. d \in Nat
    OBVIOUS
  <1> HIDE DEF T
  <1>4. 0 .. d \subseteq T
    BY <1>1, <1>2, <1>3, InductionUpTo
  <1> QED BY <1>4 DEF T

\* The field that is set has the new value.
LEMMA EditSets ==
  ASSUME NEW v, NEW path, Len(path) \in Nat, NEW new
  PROVE  GetDeep(SetDeep(v, path, new), path) = new
  <1> DEFINE n == Len(path)
             old == OnTheWay(v, path)
             out == SetDeep(v, path, new)
  <1>1. PICK made : /\ made[0] = new /\ out = made[n]
                    /\ Makes(made, old, path, n)
    BY SetSteps
  <1>2. PICK cur : cur[0] = out /\ GetDeep(out, path) = cur[n] /\ Gets(cur, path, n)
    BY GetSteps
  <1>3. n \in Nat
    OBVIOUS
  <1> HIDE DEF n, old, out
  <1>4. n \in 0 .. n /\ cur[0] = made[n] /\ Together(path, path, n)
    BY <1>1, <1>2, <1>3 DEF Together
  <1>5. \A k \in 0 .. n : cur[k] = made[n - k]
    BY <1>1, <1>2, <1>3, <1>4, AlongMade
  <1>6. n - n = 0
    BY <1>3
  <1> QED BY <1>1, <1>2, <1>4, <1>5, <1>6 DEF out

\* Two paths, none of which leads to the other, part at some key.
LEMMA PathsPart ==
  ASSUME NEW p \in Seq(STRING), NEW q \in Seq(STRING), ~ IsPrefixOf(p, q), ~ IsPrefixOf(q, p)
  PROVE  \E d : /\ d \in 1 .. Len(p) /\ d \in 1 .. Len(q) /\ p[d] # q[d]
                /\ \A i \in 1 .. d - 1 : p[i] = q[i]
  <1> DEFINE T == {d \in 1 .. Len(p) : d <= Len(q) /\ p[d] # q[d]}
  <1>1. ASSUME NEW a \in Seq(STRING), NEW b \in Seq(STRING), Len(a) <= Len(b),
               \A i \in 1 .. Len(a) : a[i] = b[i]
        PROVE  IsPrefixOf(a, b)
    <2> DEFINE c == SubSeq(b, 1, Len(a))
    <2>0. Len(a) \in Nat /\ Len(b) \in Nat
      OBVIOUS
    <2>1. c = a
      <3>1. c \in Seq(STRING) /\ Len(c) = Len(a)
        BY <1>1, <2>0
      <3>2. \A i \in 1 .. Len(a) : c[i] = a[i]
        BY <1>1, <2>0
      <3> HIDE DEF c
      <3> QED BY <3>1, <3>2
    <2> QED BY <1>1, <2>1 DEF IsPrefixOf
  <1>2. T # {}
    <2> SUFFICES ASSUME T = {} PROVE FALSE
      OBVIOUS
    <2>1. \A i \in 1 .. Len(p) : i <= Len(q) => p[i] = q[i]
      OBVIOUS
    <2>2. CASE Len(p) <= Len(q)
      BY <1>1, <2>1, <2>2
    <2>3. CASE ~ (Len(p) <= Len(q))
      <3>1. Len(q) <= Len(p) /\ \A i \in 1 .. Len(q) : q[i] = p[i]
        BY <2>1, <2>3
      <3> QED BY <1>1, <3>1
    <2> QED BY <2>2, <2>3
  <1>3. PICK d \in T : \A e \in T : d <= e
    <2>1. T \in SUBSET Nat
      OBVIOUS
    <2> QED BY <1>2, <2>1, LeastNumber
  <1>4. d \in 1 .. Len(p) /\ d \in 1 .. Len(q) /\ p[d] # q[d]
    OBVIOUS
  <1>5. ASSUME NEW i \in 1 .. d - 1 PROVE p[i] = q[i]
    <2>1. i \in 1 .. Len(p) /\ i <= Len(q) /\ ~ (d <= i)
      BY <1>4
    <2>2. i \notin T
      BY <1>3, <2>1
    <2> QED BY <2>1, <2>2
  <1> QED BY <1>4, <1>5

\* What is on the way is what is there, or an empty object where there is nothing.
LEMMA WayIsThere ==
  ASSUME NEW d \in Nat, NEW q, NoIndex(q, d),
         NEW old, NEW cur, old[0] = cur[0], Ways(old, q, d), Gets(cur, q, d)
  PROVE  \A k \in 0 .. d : \A key : key # "0" => ItemOf(old[k], key) = ItemOf(cur[k], key)
  <1> DEFINE Same(k) == old[k] = cur[k] \/ (cur[k] = Undefined /\ old[k] = Object(<< >>))
             T == {k \in 0 .. d : Same(k)}
  <1>1. ASSUME NEW w, NEW key, key # "0"
        PROVE  \/ Child(w, key) = ItemOf(w, key)
               \/ ItemOf(w, key) = Undefined /\ Child(w, key) = Object(<< >>)
    <2>1. CASE IsObject(w)
      BY <2>1 DEF Child, Spread, ItemOf
    <2>2. CASE ~ IsObject(w)
      <3>1. Spread(w) = << >> \/ Spread(w) = [x \in {"0"} |-> w]
        BY <2>2 DEF Spread
      <3>2. DOMAIN << >> = {} /\ DOMAIN [x \in {"0"} |-> w] = {"0"}
        OBVIOUS
      <3>3. key \notin DOMAIN Spread(w)
        BY <1>1, <3>1, <3>2
      <3> QED BY <2>2, <3>3 DEF ItemOf, Child
    <2> QED BY <2>1, <2>2
  <1>2. ASSUME NEW key
        PROVE  /\ ItemOf(Undefined, key) = Undefined /\ ItemOf(Object(<< >>), key) = Undefined
               /\ Child(Object(<< >>), key) = Object(<< >>)
    <2>1. ~ IsObject(Undefined) /\ IsObject(Object(<< >>)) /\ Object(<< >>).sub = << >>
      BY DEF IsObject, Undefined, Leaf, Object
    <2>2. Spread(Object(<< >>)) = << >> /\ DOMAIN << >> = {}
      BY <2>1 DEF Spread
    <2> QED BY <2>1, <2>2 DEF ItemOf, Child
  <1>3. 0 \in T
    OBVIOUS
  <1>4. \A k \in 1 .. d : k - 1 \in T => k \in T
    <2> SUFFICES ASSUME NEW k \in 1 .. d, Same(k - 1) PROVE Same(k)
      <3> HIDE DEF Same
      <3> QED OBVIOUS
    <2>1. q[k] # "0" /\ old[k] = Child(old[k - 1], q[k]) /\ cur[k] = ItemOf(cur[k - 1], q[k])
      BY DEF Ways, Gets, NoIndex
    <2>2. CASE old[k - 1] = cur[k - 1]
      BY <1>1, <2>1, <2>2
    <2>3. CASE cur[k - 1] = Undefined /\ old[k - 1] = Object(<< >>)
      BY <1>2, <2>1, <2>3
    <2> QED BY <2>2, <2>3
  <1> HIDE DEF T
  <1>5. 0 .. d \subseteq T
    BY <1>3, <1>4, InductionUpTo
  <1>6. \A k \in 0 .. d : Same(k)
    BY <1>5 DEF T
  <1> QED BY <1>2, <1>6

\* A field whose path parts at key d from the path that is set does not change.
LEMMA EditKeepsFrom ==
  ASSUME NEW v, NEW p, NEW q, NEW new, Len(p) \in Nat, Len(q) \in Nat,
         \A i \in 1 .. Len(q) : q[i] # "0",
         NEW d \in 1 .. Len(p), d \in 1 .. Len(q), p[d] # q[d], \A i \in 1 .. d - 1 : p[i] = q[i]
  PROVE  GetDeep(SetDeep(v, p, new), q) = GetDeep(v, q)
  <1> DEFINE n == Len(p)
             m == Len(q)
             old == OnTheWay(v, p)
             out == SetDeep(v, p, new)
  <1>0. n \in Nat /\ m \in Nat /\ \A i \in 1 .. m : q[i] # "0"
    OBVIOUS
  <1>1. d \in 1 .. n /\ d \in 1 .. m /\ p[d] # q[d] /\ \A i \in 1 .. d - 1 : p[i] = q[i]
    OBVIOUS
  <1>2. PICK made : made[0] = new /\ out = made[n] /\ Makes(made, old, p, n)
    BY SetSteps
  <1>3. PICK now : now[0] = out /\ GetDeep(out, q) = now[m] /\ Gets(now, q, m)
    BY GetSteps
  <1>4. PICK was : was[0] = v /\ GetDeep(v, q) = was[m] /\ Gets(was, q, m)
    BY GetSteps
  <1>5. old[0] = v /\ Ways(old, p, n)
    BY WaySteps
  <1> HIDE DEF n, m, old, out
  <1> DEFINE c == d - 1
  <1>6. c \in 0 .. n /\ c \in Nat /\ (\A i \in 1 .. c : i \in 1 .. n /\ i \in 1 .. m)
    BY <1>0, <1>1
  <1>7. (\A i \in 1 .. c : q[i] = p[i]) /\ (\A i \in 1 .. c : q[i] # "0")
    BY <1>0, <1>1, <1>6
  <1>8. Gets(now, q, c) /\ Gets(was, q, c)
    BY <1>3, <1>4, <1>6 DEF Gets
  <1>9. Ways(old, q, c)
    BY <1>5, <1>6, <1>7 DEF Ways
  <1>10. now[d] = was[d]
    <2>1. /\ d \in 1 .. n /\ d \in 1 .. m /\ n - c \in 1 .. n /\ n - c - 1 = n - d
          /\ n - (n - c) = c /\ n - (n - c) + 1 = d /\ c \in 0 .. c /\ d - 1 = c
      BY <1>0, <1>1, <1>6
    <2>0. c \in 0 .. n /\ Together(p, q, c) /\ NoIndex(q, c)
      BY <1>6, <1>7 DEF Together, NoIndex
    <2>a. now[0] = made[n] /\ old[0] = was[0]
      BY <1>2, <1>3, <1>4, <1>5
    <2> HIDE DEF c
    <2>b. \A k \in 0 .. c : now[k] = made[n - k]
      BY <1>0, <1>2, <1>8, <2>0, <2>a, AlongMade
    <2>2. now[c] = made[n - c]
      BY <2>1, <2>b
    <2>3. made[n - c] = Object(With(Spread(old[c]), p[d], made[n - d]))
      BY <1>2, <2>1 DEF Makes
    <2>4. ItemOf(now[c], q[d]) = ItemOf(old[c], q[d])
      BY <1>0, <1>1, <2>1, <2>2, <2>3, ItemOfMade
    <2>5. \A k \in 0 .. c : \A key : key # "0" => ItemOf(old[k], key) = ItemOf(was[k], key)
      BY <1>6, <1>8, <1>9, <2>0, <2>a, WayIsThere
    <2>6. ItemOf(old[c], q[d]) = ItemOf(was[c], q[d])
      BY <1>0, <2>1, <2>5
    <2>7. now[d] = ItemOf(now[c], q[d]) /\ was[d] = ItemOf(was[c], q[d])
      BY <1>3, <1>4, <2>1 DEF Gets
    <2> QED BY <2>4, <2>6, <2>7
  <1> DEFINE T == {k \in 0 .. m : k < d \/ now[k] = was[k]}
  <1>11. 0 \in T
    BY <1>0, <1>1
  <1>12. \A k \in 1 .. m : k - 1 \in T => k \in T
    <2> SUFFICES ASSUME NEW k \in 1 .. m, k - 1 \in T PROVE k \in T
      OBVIOUS
    <2>1. k \in 0 .. m /\ (k < d \/ k = d \/ ~ (k - 1 < d))
      BY <1>0, <1>1
    <2>2. now[k] = ItemOf(now[k - 1], q[k]) /\ was[k] = ItemOf(was[k - 1], q[k])
      BY <1>3, <1>4 DEF Gets
    <2>3. CASE k < d
      BY <2>1, <2>3
    <2>4. CASE k = d
      BY <1>10, <2>1, <2>4
    <2>5. CASE ~ (k - 1 < d)
      <3>1. now[k - 1] = was[k - 1]
        BY <2>5
      <3> QED BY <2>1, <2>2, <3>1
    <2> QED BY <2>1, <2>3, <2>4, <2>5
  <1> HIDE DEF T
  <1>13. 0 .. m \subseteq T
    BY <1>0, <1>11, <1>12, InductionUpTo
  <1>14. now[m] = was[m]
    BY <1>0, <1>1, <1>13 DEF T
  <1> QED BY <1>3, <1>4, <1>14 DEF out

\* No other field changes, whatever is missing on the way to the one that is set.
LEMMA EditKeeps ==
  ASSUME NEW v, NEW p \in Seq(STRING), NEW q \in Seq(STRING), NEW new,
         \A i \in DOMAIN q : q[i] # "0", ~ IsPrefixOf(p, q), ~ IsPrefixOf(q, p)
  PROVE  GetDeep(SetDeep(v, p, new), q) = GetDeep(v, q)
  <1>1. Len(p) \in Nat /\ Len(q) \in Nat /\ \A i \in 1 .. Len(q) : q[i] # "0"
    OBVIOUS
  <1>2. PICK d : d \in 1 .. Len(p) /\ d \in 1 .. Len(q) /\ p[d] # q[d] /\ \A i \in 1 .. d - 1 : p[i] = q[i]
    BY PathsPart
  <1> QED BY <1>1, <1>2, EditKeepsFrom, ZenonT(40)

-----------------------------------------------------------------------------
\* The list of playbooks, of FormCalls.

Descending(s) == \A i, j \in DOMAIN s : i <= j => s[i].time >= s[j].time

\* The sort puts a playbook in its place: the list stays one from new to old.
LEMMA InsertIs ==
  ASSUME NEW s \in Seq(Playbook), NEW pb \in Playbook
  PROVE  /\ Insert(s, pb) \in Seq(Playbook) /\ Len(Insert(s, pb)) = Len(s) + 1
         /\ Descending(s) => Descending(Insert(s, pb))
         /\ Range(Insert(s, pb)) = Range(s) \cup {pb}
  <1> DEFINE n == Len(s)
             older == {i \in DOMAIN s : s[i].time < pb.time}
             at == IF older = {} THEN n + 1 ELSE Min(older)
             ins == Insert(s, pb)
  <1>1. n \in Nat /\ DOMAIN s = 1 .. n /\ (\A i \in 1 .. n : s[i] \in Playbook)
    OBVIOUS
  <1>2. /\ at \in 1 .. n + 1
        /\ at <= n => s[at].time < pb.time
        /\ \A i \in 1 .. n : i < at => ~ (s[i].time < pb.time)
    <2>1. CASE older = {}
      <3>1. at = n + 1
        BY <2>1
      <3>2. \A i \in 1 .. n : ~ (s[i].time < pb.time)
        BY <1>1, <2>1
      <3> HIDE DEF at
      <3> QED BY <1>1, <3>1, <3>2
    <2>2. CASE older # {}
      <3>1. \E x \in older : \A y \in older : x <= y
        <4>1. older \in SUBSET Nat
          BY <1>1
        <4> QED BY <2>2, <4>1, LeastNumber
      <3>2. at \in older /\ \A y \in older : at <= y
        BY <2>2, <3>1 DEF Min
      <3>3. at \in 1 .. n /\ s[at].time < pb.time
        BY <1>1, <3>2
      <3>4. ASSUME NEW i \in 1 .. n, i < at PROVE ~ (s[i].time < pb.time)
        <4>1. i \notin older
          <5> HIDE DEF at, older
          <5> QED BY <3>2, <3>3, <3>4
        <4> QED BY <1>1, <4>1
      <3> HIDE DEF at, older
      <3> QED BY <1>1, <3>3, <3>4
    <2> QED BY <2>1, <2>2
  <1>3. ins = [i \in 1 .. n + 1 |-> IF i < at THEN s[i] ELSE IF i = at THEN pb ELSE s[i - 1]]
    BY DEF Insert
  <1> HIDE DEF n, older, at, ins
  <1>4. DOMAIN ins = 1 .. n + 1 /\ ins \in Seq(Playbook) /\ Len(ins) = n + 1
    <2>1. ASSUME NEW i \in 1 .. n + 1
          PROVE  (IF i < at THEN s[i] ELSE IF i = at THEN pb ELSE s[i - 1]) \in Playbook
      <3>1. i < at => i \in 1 .. n
        BY <1>1, <1>2
      <3>2. ~ (i < at) /\ i # at => i - 1 \in 1 .. n
        BY <1>1, <1>2
      <3> QED BY <1>1, <3>1, <3>2
    <2>2. ins \in [1 .. n + 1 -> Playbook]
      BY <1>3, <2>1
    <2> QED BY <1>1, <2>2
  <1>5. /\ \A i \in 1 .. n + 1 : i < at => i \in 1 .. n /\ ins[i] = s[i]
        /\ ins[at] = pb
        /\ \A i \in 1 .. n + 1 : i > at => i - 1 \in 1 .. n /\ ins[i] = s[i - 1]
    BY <1>1, <1>2, <1>3
  <1>t. pb.time \in Nat /\ \A i \in 1 .. n : s[i].time \in Nat
    BY <1>1 DEF Playbook
  <1>6. ASSUME Descending(s), NEW i \in DOMAIN ins, NEW j \in DOMAIN ins, i <= j
        PROVE  ins[i].time >= ins[j].time
    <2>1. i \in 1 .. n + 1 /\ j \in 1 .. n + 1 /\ at \in Nat /\ i \in Nat /\ j \in Nat
      BY <1>1, <1>2, <1>4
    <2>2. \A x, y \in 1 .. n : x <= y => s[x].time >= s[y].time
      BY <1>1, <1>6 DEF Descending
    <2>3. CASE j < at
      <3>1. i < at
        BY <1>6, <2>1, <2>3
      <3> QED BY <1>5, <1>6, <2>1, <2>2, <2>3, <3>1
    <2>4. CASE j = at
      <3>1. CASE i = at
        BY <1>5, <1>t, <2>4, <3>1
      <3>2. CASE i < at
        BY <1>2, <1>5, <1>t, <2>1, <2>4, <3>2
      <3> QED BY <1>6, <2>1, <2>4, <3>1, <3>2
    <2>5. CASE j > at
      <3>1. ins[j] = s[j - 1] /\ j - 1 \in 1 .. n
        BY <1>5, <2>1, <2>5
      <3>2. CASE i < at
        <4>1. ins[i] = s[i] /\ i \in 1 .. n /\ i <= j - 1
          BY <1>5, <2>1, <2>5, <3>2
        <4> QED BY <2>2, <3>1, <4>1
      <3>3. CASE i = at
        <4>1. at \in 1 .. n /\ at <= j - 1 /\ at <= n
          BY <1>1, <1>2, <2>1, <2>5
        <4>2. s[at].time >= s[j - 1].time /\ s[at].time < pb.time
          BY <1>2, <2>2, <3>1, <4>1
        <4> QED BY <1>5, <1>t, <3>1, <3>3, <4>1, <4>2
      <3>4. CASE i > at
        <4>1. ins[i] = s[i - 1] /\ i - 1 \in 1 .. n /\ i - 1 <= j - 1
          BY <1>5, <1>6, <2>1, <3>4
        <4> QED BY <2>2, <3>1, <4>1
      <3> QED BY <2>1, <3>2, <3>3, <3>4
    <2> QED BY <2>1, <2>3, <2>4, <2>5
  <1>7. Range(ins) = Range(s) \cup {pb}
    <2>1. ASSUME NEW x \in Range(ins) PROVE x \in Range(s) \cup {pb}
      <3>1. PICK i \in 1 .. n + 1 : x = ins[i]
        BY <1>4, <2>1 DEF Range
      <3>2. i < at \/ i = at \/ i > at
        BY <1>1, <1>2
      <3> QED BY <1>1, <1>5, <3>1, <3>2 DEF Range
    <2>2. pb \in Range(ins)
      BY <1>2, <1>4, <1>5 DEF Range
    <2>3. ASSUME NEW x \in Range(s) PROVE x \in Range(ins)
      <3>1. PICK i \in 1 .. n : x = s[i]
        BY <1>1, <2>3 DEF Range
      <3>2. CASE i < at
        <4>1. i \in 1 .. n + 1 /\ ins[i] = x
          BY <1>1, <1>5, <3>1, <3>2
        <4> QED BY <1>4, <4>1 DEF Range
      <3>3. CASE ~ (i < at)
        <4>1. i + 1 \in 1 .. n + 1 /\ i + 1 > at /\ i + 1 - 1 = i
          BY <1>1, <1>2, <3>3
        <4>2. ins[i + 1] = x
          BY <1>5, <3>1, <4>1
        <4> QED BY <1>4, <4>1, <4>2 DEF Range
      <3> QED BY <3>2, <3>3
    <2> QED BY <2>1, <2>2, <2>3
  <1>8. Descending(s) => Descending(ins)
    BY <1>6 DEF Descending
  <1> QED BY <1>4, <1>7, <1>8 DEF ins, n

\* The sorted list has the playbooks of the list, from new to old.
LEMMA NewestIs ==
  ASSUME NEW list \in Seq(Playbook)
  PROVE  /\ Newest(list) \in Seq(Playbook) /\ Len(Newest(list)) = Len(list)
         /\ Descending(Newest(list)) /\ Range(Newest(list)) = Range(list)
  <1> DEFINE n == Len(list)
             G == [k \in 1 .. n |-> [v \in Seq(Playbook) |-> Insert(v, list[k])]]
             Eq(f) == f = [k \in 0 .. n |-> IF k = 0 THEN << >> ELSE Insert(f[k - 1], list[k])]
             sorted == CHOOSE f : Eq(f)
  <1>1. n \in Nat /\ << >> \in Seq(Playbook) /\ DOMAIN list = 1 .. n /\ \A k \in 1 .. n : list[k] \in Playbook
    OBVIOUS
  <1>2. \A k \in 1 .. n, v \in Seq(Playbook) :
          G[k][v] \in Seq(Playbook) /\ G[k][v] = Insert(v, list[k])
    BY <1>1, InsertIs
  <1>3. Newest(list) = sorted[n]
    BY DEF Newest
  <1> HIDE DEF n, G
  <1>4. PICK f : f = [k \in 0 .. n |-> f[k]] /\ Follows(f, G, << >>, n)
    BY <1>1, FollowsExists
  <1>5. \A k \in 0 .. n : f[k] \in Seq(Playbook)
    BY <1>1, <1>2, <1>4, FollowsType
  <1>6. \A k \in 0 .. n : f[k] = IF k = 0 THEN << >> ELSE Insert(f[k - 1], list[k])
    <2>1. f[0] = << >>
      BY <1>4 DEF Follows
    <2>2. ASSUME NEW k \in 1 .. n PROVE f[k] = Insert(f[k - 1], list[k])
      <3>1. k - 1 \in 0 .. n
        BY <1>1
      <3> QED BY <1>2, <1>4, <1>5, <3>1 DEF Follows
    <2> QED BY <1>1, <2>1, <2>2
  <1>7. Eq(f)
    BY <1>4, <1>6
  <1>8. Eq(sorted)
    BY <1>7
  <1> HIDE DEF sorted
  <1> DEFINE Upto(k) == {list[j] : j \in 1 .. k}
             T == {k \in 0 .. n : /\ sorted[k] \in Seq(Playbook) /\ Len(sorted[k]) = k
                                  /\ Descending(sorted[k]) /\ Range(sorted[k]) = Upto(k)}
  <1>9. 0 \in T
    <2>1. sorted[0] = << >> /\ 0 \in 0 .. n
      BY <1>1, <1>8
    <2>2. Descending(<< >>)
      BY DEF Descending
    <2>3. Range(<< >>) = {} /\ Upto(0) = {} /\ Len(<< >>) = 0
      BY DEF Range
    <2> HIDE DEF Upto
    <2> QED BY <1>1, <2>1, <2>2, <2>3
  <1>10. \A k \in 1 .. n : k - 1 \in T => k \in T
    <2> SUFFICES ASSUME NEW k \in 1 .. n, k - 1 \in T PROVE k \in T
      OBVIOUS
    <2>1. k \in 0 .. n /\ k # 0 /\ k - 1 + 1 = k
      BY <1>1
    <2>2. sorted[k] = Insert(sorted[k - 1], list[k])
      BY <1>8, <2>1
    <2>3. Upto(k) = Upto(k - 1) \cup {list[k]}
      BY <1>1
    <2> HIDE DEF Upto
    <2>4. /\ sorted[k - 1] \in Seq(Playbook) /\ Len(sorted[k - 1]) = k - 1
          /\ Descending(sorted[k - 1]) /\ Range(sorted[k - 1]) = Upto(k - 1)
      OBVIOUS
    <2> HIDE DEF T
    <2>5. /\ sorted[k] \in Seq(Playbook) /\ Len(sorted[k]) = k - 1 + 1
          /\ Descending(sorted[k]) /\ Range(sorted[k]) = Upto(k - 1) \cup {list[k]}
      BY <1>1, <2>2, <2>4, InsertIs
    <2> QED BY <2>1, <2>3, <2>5 DEF T
  <1> HIDE DEF T
  <1>11. 0 .. n \subseteq T
    BY <1>1, <1>9, <1>10, InductionUpTo
  <1>12. n \in T
    BY <1>1, <1>11
  <1>13. Upto(n) = Range(list)
    BY <1>1 DEF Range
  <1> QED BY <1>3, <1>12, <1>13 DEF T, n

\* The list that is shown is made one playbook at a time.
LEMMA ShownSteps ==
  ASSUME NEW list \in Seq(Playbook)
  PROVE  /\ ShownOf(list)[0] = << >>
         /\ \A k \in 1 .. Len(list) : ShownOf(list)[k] = AddNew(ShownOf(list)[k - 1], list[k])
  <1> DEFINE n == Len(list)
             G == [k \in 1 .. n |-> [v \in Seq(Playbook) |-> AddNew(v, list[k])]]
             Eq(f) == f = [k \in 0 .. n |-> IF k = 0 THEN << >> ELSE AddNew(f[k - 1], list[k])]
             shown == CHOOSE f : Eq(f)
  <1>1. n \in Nat /\ << >> \in Seq(Playbook) /\ \A k \in 1 .. n : list[k] \in Playbook
    OBVIOUS
  <1>2. \A k \in 1 .. n, v \in Seq(Playbook) :
          G[k][v] \in Seq(Playbook) /\ G[k][v] = AddNew(v, list[k])
    BY <1>1 DEF AddNew
  <1>3. ShownOf(list) = shown
    BY DEF ShownOf
  <1> HIDE DEF n, G
  <1>4. PICK f : f = [k \in 0 .. n |-> f[k]] /\ Follows(f, G, << >>, n)
    BY <1>1, FollowsExists
  <1>5. \A k \in 0 .. n : f[k] \in Seq(Playbook)
    BY <1>1, <1>2, <1>4, FollowsType
  <1>6. \A k \in 0 .. n : f[k] = IF k = 0 THEN << >> ELSE AddNew(f[k - 1], list[k])
    <2>1. f[0] = << >>
      BY <1>4 DEF Follows
    <2>2. ASSUME NEW k \in 1 .. n PROVE f[k] = AddNew(f[k - 1], list[k])
      <3>1. k - 1 \in 0 .. n
        BY <1>1
      <3> QED BY <1>2, <1>4, <1>5, <3>1 DEF Follows
    <2> QED BY <1>1, <2>1, <2>2
  <1>7. Eq(f)
    BY <1>4, <1>6
  <1>8. Eq(shown)
    BY <1>7
  <1> HIDE DEF shown
  <1>9. shown[0] = << >>
    BY <1>1, <1>8
  <1>10. ASSUME NEW k \in 1 .. n PROVE shown[k] = AddNew(shown[k - 1], list[k])
    <2>1. k \in 0 .. n /\ k # 0
      BY <1>1
    <2> QED BY <1>8, <2>1
  <1> QED BY <1>3, <1>9, <1>10 DEF n

\* What is shown when the first k of the sorted list L have been looked at: playbooks of
\* types of their own, each the newest of its type, and a type is missing only when the list
\* is full of newer ones.
Picked(s, L, k) ==
  /\ s \in Seq(Playbook) /\ Len(s) <= MaxShown
  /\ \A i, j \in DOMAIN s : TypeOf(s[i]) = TypeOf(s[j]) => i = j
  /\ \A i \in DOMAIN s :
       /\ \E m \in 1 .. k : s[i] = L[m]
       /\ \A j \in DOMAIN L : TypeOf(L[j]) = TypeOf(s[i]) => L[j].time <= s[i].time
  /\ \A m \in 1 .. k :
       \/ \E i \in DOMAIN s : TypeOf(s[i]) = TypeOf(L[m])
       \/ Len(s) = MaxShown /\ \A i \in DOMAIN s : s[i].time >= L[m].time

LEMMA PickNext ==
  ASSUME NEW L \in Seq(Playbook), Descending(L), NEW k \in 1 .. Len(L), NEW s, Picked(s, L, k - 1)
  PROVE  Picked(AddNew(s, L[k]), L, k)
  <1> DEFINE n == Len(L)
             pb == L[k]
             t == AddNew(s, pb)
  <1>0. MaxShown \in Nat
    BY FormCallsAssumption
  <1>1. /\ n \in Nat /\ DOMAIN L = 1 .. n /\ k \in 1 .. n /\ pb \in Playbook
        /\ \A i \in 1 .. n : L[i] \in Playbook /\ L[i].time \in Nat
        /\ \A i, j \in 1 .. n : i <= j => L[i].time >= L[j].time
    <2>1. n \in Nat /\ DOMAIN L = 1 .. n /\ k \in 1 .. n /\ \A i \in 1 .. n : L[i] \in Playbook
      OBVIOUS
    <2>2. \A x \in Playbook : x.time \in Nat
      BY DEF Playbook
    <2>3. \A i, j \in 1 .. n : i <= j => L[i].time >= L[j].time
      BY <2>1 DEF Descending
    <2> HIDE DEF n
    <2> QED BY <2>1, <2>2, <2>3
  <1>2. /\ s \in Seq(Playbook) /\ Len(s) <= MaxShown
        /\ \A i, j \in DOMAIN s : TypeOf(s[i]) = TypeOf(s[j]) => i = j
        /\ \A i \in DOMAIN s :
             /\ \E m \in 1 .. k - 1 : s[i] = L[m]
             /\ \A j \in 1 .. n : TypeOf(L[j]) = TypeOf(s[i]) => L[j].time <= s[i].time
        /\ \A m \in 1 .. k - 1 :
             \/ \E i \in DOMAIN s : TypeOf(s[i]) = TypeOf(L[m])
             \/ Len(s) = MaxShown /\ \A i \in DOMAIN s : s[i].time >= L[m].time
    BY <1>1 DEF Picked
  <1>3. Len(s) \in Nat /\ DOMAIN s = 1 .. Len(s)
    BY <1>2
  <1>k. 1 .. k - 1 \subseteq 1 .. k /\ 1 .. k \subseteq 1 .. n /\ \A m \in 1 .. k : m \in 1 .. k - 1 \/ m = k
    BY <1>1
  <1>4. CASE Len(s) = MaxShown \/ \E i \in DOMAIN s : TypeOf(s[i]) = TypeOf(pb)
    <2>1. t = s
      BY <1>4 DEF AddNew
    <2>2. ASSUME NEW i \in DOMAIN s PROVE s[i].time >= pb.time
      <3>1. PICK m \in 1 .. k - 1 : s[i] = L[m]
        BY <1>2
      <3>2. m \in 1 .. n /\ m <= k
        BY <1>1
      <3> QED BY <1>1, <3>1, <3>2
    <2>3. ASSUME NEW i \in DOMAIN s
          PROVE  /\ \E m \in 1 .. k : s[i] = L[m]
                 /\ \A j \in 1 .. n : TypeOf(L[j]) = TypeOf(s[i]) => L[j].time <= s[i].time
      BY <1>2, <1>k
    <2>4. ASSUME NEW m \in 1 .. k
          PROVE  \/ \E i \in DOMAIN s : TypeOf(s[i]) = TypeOf(L[m])
                 \/ Len(s) = MaxShown /\ \A i \in DOMAIN s : s[i].time >= L[m].time
      <3>1. CASE m \in 1 .. k - 1
        BY <1>2, <3>1
      <3>2. CASE m = k
        BY <1>4, <2>2, <3>2
      <3> QED BY <1>k, <3>1, <3>2
    <2> HIDE DEF t
    <2>5. Picked(s, L, k)
      BY <1>1, <1>2, <2>3, <2>4 DEF Picked
    <2> QED BY <2>1, <2>5 DEF t
  <1>5. CASE Len(s) # MaxShown /\ ~ \E i \in DOMAIN s : TypeOf(s[i]) = TypeOf(pb)
    <2> DEFINE l == Len(s)
    <2>1. t = Append(s, pb)
      BY <1>5 DEF AddNew
    <2> HIDE DEF pb
    <2>2. /\ t \in Seq(Playbook) /\ Len(t) = l + 1 /\ DOMAIN t = 1 .. l + 1
          /\ t[l + 1] = pb /\ \A i \in 1 .. l : t[i] = s[i]
      BY <1>1, <1>2, <2>1
    <2> HIDE DEF t
    <2>3. l \in Nat /\ (\A i \in 1 .. l + 1 : i \in 1 .. l \/ i = l + 1) /\ l + 1 \in 1 .. l + 1
      BY <1>3
    <2>l. 1 .. l \subseteq 1 .. l + 1
      BY <1>3
    <2>4. Len(t) <= MaxShown
      BY <1>0, <1>2, <1>5, <2>2, <2>3
    <2>5. ASSUME NEW i \in 1 .. l PROVE TypeOf(s[i]) # TypeOf(pb)
      BY <1>3, <1>5
    <2> HIDE DEF l
    <2>6. \A i, j \in 1 .. l + 1 : TypeOf(t[i]) = TypeOf(t[j]) => i = j
      BY <1>2, <1>3, <2>2, <2>3, <2>5 DEF l
    <2>7. ASSUME NEW j \in 1 .. n, TypeOf(L[j]) = TypeOf(pb) PROVE L[j].time <= pb.time
      <3>1. j \notin 1 .. k - 1
        BY <1>2, <1>5, <2>7
      <3>2. k <= j
        BY <1>1, <3>1
      <3>3. L[k].time >= L[j].time /\ L[k].time \in Nat /\ L[j].time \in Nat
        BY <1>1, <3>2
      <3> QED BY <3>3 DEF pb
    <2>8. ASSUME NEW i \in 1 .. l + 1
          PROVE  /\ \E m \in 1 .. k : t[i] = L[m]
                 /\ \A j \in 1 .. n : TypeOf(L[j]) = TypeOf(t[i]) => L[j].time <= t[i].time
      <3>1. CASE i \in 1 .. l
        <4>1. t[i] = s[i] /\ i \in DOMAIN s
          BY <1>3, <2>2, <3>1 DEF l
        <4> QED BY <1>2, <1>k, <4>1
      <3>2. CASE i = l + 1
        <4>1. t[i] = pb /\ k \in 1 .. k
          BY <1>1, <2>2, <3>2
        <4> QED BY <2>7, <4>1 DEF pb
      <3> QED BY <2>3, <3>1, <3>2
    <2>9. ASSUME NEW m \in 1 .. k PROVE \E i \in 1 .. l + 1 : TypeOf(t[i]) = TypeOf(L[m])
      <3>1. CASE m \in 1 .. k - 1
        <4>1. PICK i \in DOMAIN s : TypeOf(s[i]) = TypeOf(L[m])
          BY <1>2, <1>5, <3>1
        <4>2. i \in 1 .. l /\ t[i] = s[i]
          BY <1>3, <2>2 DEF l
        <4> QED BY <2>l, <4>1, <4>2
      <3>2. CASE m = k
        BY <2>2, <2>3, <3>2 DEF pb
      <3> QED BY <1>k, <3>1, <3>2
    <2>10. Picked(t, L, k)
      BY <1>1, <2>2, <2>4, <2>6, <2>8, <2>9 DEF Picked
    <2> QED BY <2>10 DEF t, pb
  <1> QED BY <1>4, <1>5

\* So it is for the whole list.
LEMMA RecentPicked ==
  ASSUME NEW list \in Seq(Playbook)
  PROVE  Picked(Recent(list), Newest(list), Len(list))
  <1> DEFINE L == Newest(list)
             n == Len(list)
             shown == ShownOf(L)
             T == {k \in 0 .. n : Picked(shown[k], L, k)}
  <1>1. L \in Seq(Playbook) /\ Len(L) = n /\ n \in Nat /\ Descending(L)
    BY NewestIs
  <1>2. shown[0] = << >> /\ \A k \in 1 .. n : shown[k] = AddNew(shown[k - 1], L[k])
    <2> HIDE DEF L, n
    <2> QED BY <1>1, ShownSteps
  <1>3. Recent(list) = shown[n]
    BY DEF Recent
  <1> HIDE DEF L, n, shown
  <1>4. 0 \in T
    <2>1. Picked(<< >>, L, 0)
      BY FormCallsAssumption DEF Picked
    <2> QED BY <1>1, <1>2, <2>1
  <1>5. \A k \in 1 .. n : k - 1 \in T => k \in T
    <2> SUFFICES ASSUME NEW k \in 1 .. n, k - 1 \in T PROVE k \in T
      OBVIOUS
    <2>1. Picked(shown[k - 1], L, k - 1) /\ k \in 0 .. n
      BY <1>1
    <2> HIDE DEF T
    <2>2. Picked(AddNew(shown[k - 1], L[k]), L, k)
      BY <1>1, <2>1, PickNext
    <2> QED BY <1>2, <2>1, <2>2 DEF T
  <1> HIDE DEF T
  <1>6. 0 .. n \subseteq T
    BY <1>1, <1>4, <1>5, InductionUpTo
  <1>7. Picked(shown[n], L, n)
    BY <1>1, <1>6 DEF T
  <1> QED BY <1>3, <1>7 DEF L, n

\* Elements of types of their own are as many as there are places.
LEMMA AsMany ==
  ASSUME NEW s \in Seq(Playbook), \A i, j \in DOMAIN s : TypeOf(s[i]) = TypeOf(s[j]) => i = j
  PROVE  Cardinality(Range(s)) = Len(s)
  <1> DEFINE n == Len(s)
  <1>1. n \in Nat /\ DOMAIN s = 1 .. n /\ s \in [1 .. n -> Range(s)]
    BY DEF Range
  <1>2. \A i, j \in 1 .. n : s[i] = s[j] => i = j
    BY <1>1
  <1>3. \A x \in Range(s) : \E i \in 1 .. n : s[i] = x
    BY <1>1 DEF Range
  <1> HIDE DEF n
  <1>4. s \in Bijection(1 .. n, Range(s))
    BY <1>1, <1>2, <1>3 DEF Bijection, Injection, Surjection, IsInjective
  <1>5. ExistsBijection(1 .. n, Range(s))
    BY <1>4 DEF ExistsBijection
  <1> QED BY <1>1, <1>5, FS_CountingElements DEF n

\* A call is answered with what its function returns.
Given ==
  /\ call \in EditCalls \cup RecentCalls
  /\ \/ answer = [op |-> "none"]
     \/ /\ call.op = "edit"
        /\ answer = [op |-> "edit", out |-> SetDeep(call.value, call.path, call.new)]
     \/ call.op = "recent" /\ answer = [op |-> "recent", out |-> Recent(call.list)]

LEMMA GivenAlways == FormCallsSpec => []Given
  <1>1. CallInit(EditCalls \cup RecentCalls) => Given
    BY DEF CallInit, Given
  <1>2. Given /\ [FormNext]_callVars => Given'
    <2> SUFFICES ASSUME Given, [FormNext]_callVars PROVE Given'
      OBVIOUS
    <2>1. CASE EditField
      BY <2>1 DEF EditField, CallStep, Given
    <2>2. CASE ListRecent
      BY <2>2 DEF ListRecent, CallStep, Given
    <2>3. CASE UNCHANGED callVars
      BY <2>3 DEF callVars, Given
    <2> QED BY <2>1, <2>2, <2>3 DEF FormNext
  <1> QED BY <1>1, <1>2, PTL DEF FormCallsSpec

\* An edit of a field (setDeep) changes this field and no other one, for every value of the
\* form and every path: also where objects are missing on the way, and where a text or
\* a number is in their place.
THEOREM FieldAlwaysEdits == FormCallsSpec => []FieldEdits
  <1>1. ASSUME Given PROVE FieldEdits
    <2> SUFFICES ASSUME answer.op = "edit"
                 PROVE  /\ GetDeep(answer.out, call.path) = call.new
                        /\ \A path \in Paths :
                             ~IsPrefixOf(path, call.path) /\ ~IsPrefixOf(call.path, path) =>
                               GetDeep(answer.out, path) = GetDeep(call.value, path)
      BY DEF FieldEdits
    <2>1. call.op = "edit" /\ answer.out = SetDeep(call.value, call.path, call.new)
      BY <1>1 DEF Given
    <2>2. call \in EditCalls
      BY <1>1, <2>1 DEF Given, EditCalls, RecentCalls
    <2>3. call.path \in Paths /\ call.path \in Seq(STRING) /\ Len(call.path) \in Nat
      BY <2>2, FormCallsAssumption DEF EditCalls
    <2>4. GetDeep(answer.out, call.path) = call.new
      BY <2>1, <2>3, EditSets
    <2>5. ASSUME NEW path \in Paths, ~IsPrefixOf(path, call.path), ~IsPrefixOf(call.path, path)
          PROVE  GetDeep(answer.out, path) = GetDeep(call.value, path)
      <3>1. path \in Seq(STRING) /\ \A i \in DOMAIN path : path[i] # "0"
        BY FormCallsAssumption
      <3> QED BY <2>1, <2>3, <2>5, <3>1, EditKeeps
    <2> QED BY <2>4, <2>5
  <1> QED BY <1>1, GivenAlways, PTL

\* RecentPlaybooks shows the newest playbook of each type, and misses a type only when it
\* shows as many as it may, all at least as new.  This for every list of playbooks and every
\* MaxShown.
THEOREM RecentIsAlwaysLatest == FormCallsSpec => []RecentIsLatest
  <1>1. ASSUME Given PROVE RecentIsLatest
    <2> DEFINE list == call.list
               out == answer.out
               L == Newest(list)
    <2> SUFFICES ASSUME answer.op = "recent"
                 PROVE  /\ \A i \in DOMAIN out, j \in DOMAIN list :
                             TypeOf(list[j]) = TypeOf(out[i]) => list[j].time <= out[i].time
                        /\ \A j \in DOMAIN list :
                             \/ \E i \in DOMAIN out : TypeOf(out[i]) = TypeOf(list[j])
                             \/ /\ Cardinality(Range(out)) = MaxShown
                                /\ \A i \in DOMAIN out : out[i].time >= list[j].time
      BY DEF RecentIsLatest
    <2>1. call.op = "recent" /\ out = Recent(list)
      BY <1>1 DEF Given
    <2>2. call \in RecentCalls
      BY <1>1, <2>1 DEF Given, EditCalls, RecentCalls
    <2>3. list \in Seq(Playbook)
      BY <2>2, FormCallsAssumption DEF RecentCalls
    <2> HIDE DEF list, out
    <2>4. L \in Seq(Playbook) /\ Len(L) = Len(list) /\ Range(L) = Range(list)
      BY <2>3, NewestIs
    <2>5. Picked(out, L, Len(list))
      BY <2>1, <2>3, RecentPicked
    <2> HIDE DEF L
    <2>6. ASSUME NEW j \in DOMAIN list PROVE \E m \in 1 .. Len(list) : m \in DOMAIN L /\ L[m] = list[j]
      <3>1. list[j] \in Range(L)
        BY <2>4 DEF Range
      <3>2. DOMAIN L = 1 .. Len(list)
        BY <2>4
      <3> QED BY <3>1, <3>2 DEF Range
    <2>7. ASSUME NEW i \in DOMAIN out, NEW j \in DOMAIN list, TypeOf(list[j]) = TypeOf(out[i])
          PROVE  list[j].time <= out[i].time
      BY <2>5, <2>6, <2>7 DEF Picked
    <2>8. Cardinality(Range(out)) = Len(out)
      BY <2>5, AsMany DEF Picked
    <2>9. ASSUME NEW j \in DOMAIN list
          PROVE  \/ \E i \in DOMAIN out : TypeOf(out[i]) = TypeOf(list[j])
                 \/ /\ Cardinality(Range(out)) = MaxShown
                    /\ \A i \in DOMAIN out : out[i].time >= list[j].time
      <3>1. PICK m \in 1 .. Len(list) : L[m] = list[j]
        BY <2>6
      <3>2. \/ \E i \in DOMAIN out : TypeOf(out[i]) = TypeOf(L[m])
            \/ Len(out) = MaxShown /\ \A i \in DOMAIN out : out[i].time >= L[m].time
        BY <2>5 DEF Picked
      <3> QED BY <2>8, <3>1, <3>2
    <2> QED BY <2>7, <2>9
  <1> QED BY <1>1, GivenAlways, PTL
=============================================================================
