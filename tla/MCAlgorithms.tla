----------------------------- MODULE MCAlgorithms ----------------------------
(* The pure algorithms, on all small inputs: what cuts hosts into batches    *)
(* (GroupHostBySerial) and selects tasks (JoinTag, IsEnabled) for a play;    *)
(* what the installer does with the values of its form, with the roles of    *)
(* nodes and with the list of playbooks.  The calls are the initial states,  *)
(* one step answers them.                                                    *)
EXTENDS PlayCalls, NodeCalls, FormCalls, FormTrees

CONSTANTS MaxHosts, MaxEntries, Numbers, Percents, m1, m2, m3

\* Numbers that may be written, also senseless ones.
MCNumbers == {-1, 0, 1, 2, 3}

Entry == {e \in SerialEntry(Numbers \cup Percents) :
            IF e.percent THEN e.n \in Percents ELSE e.n \in Numbers}

MCHostLists == {[i \in 1..n |-> i] : n \in 1..MaxHosts}
MCSerialLists == UNION {[1..k -> Entry] : k \in 0..MaxEntries}

MCKeyOrder == <<"k", "l">>
MCNameOrder == <<"n3", "n2", "n1">>

\* Leaves of every type, and texts that look like another.
Leaves == {Leaf("boolean", "true"), Leaf("number", "12"), Leaf("null", "null"),
           Leaf("array", "a,b")}
            \cup {Leaf("string", x) : x \in {"", "a", "a#b", "#b", "'a'", "true", "null", "12"}}
FewLeaves == {Leaf("string", "a"), Leaf("string", ""), Leaf("number", "12")}
ObjectsOf(values) ==
    {Object(sub) : sub \in UNION {[keys -> values] : keys \in SUBSET Range(KeyOrder)}}

\* Objects of leaves and of objects of leaves.
Trees(leaves) == ObjectsOf(leaves \cup ObjectsOf(leaves))

\* Schemas of fields and of groups of fields, with and without defaults.
GroupsOf(defaults, fields) ==
    {Group(d, sub) : d \in defaults, sub \in UNION {[keys -> fields] : keys \in SUBSET Range(KeyOrder)}}
Fields == {Field(d) : d \in {Leaf("string", "a"), Leaf("boolean", "true"), Object(<< >>), Undefined}}
Groups == GroupsOf({Undefined, Object(<< >>), Object([k \in {"k"} |-> Leaf("string", "b")])}, Fields)
Schemas == GroupsOf({Undefined}, Fields \cup Groups)

Keys == Range(KeyOrder)
MCPaths == {<<k>> : k \in Keys} \cup {<<k, l>> : k \in Keys, l \in Keys}
MCForms == Trees(FewLeaves)
MCNewValues == {Leaf("string", "new")}

YamlCalls == [op : {"yaml"}, value : Trees(Leaves)]
DefaultCalls == [op : {"defaults"}, schema : Schemas]
MCPlaybookLists ==
    UNION {[1..n -> [base : {"p", "q"}, last : {"suffix", "word", "none"}, time : 1..2]]
             : n \in 0..3}

\* Nodes with their own names and addresses.
MCNodeLists ==
    {ns \in UNION {[1..n -> Node] : n \in 0..3} :
       \A i, j \in DOMAIN ns : i # j => ns[i].name # ns[j].name /\ ns[i].addr # ns[j].addr}

Init == CallInit(SerialCalls \cup TagCalls \cup YamlCalls \cup EditCalls \cup DefaultCalls
                   \cup RecentCalls \cup NodeListCalls)

\* The form to the YAML mode and back.
SwitchMode == CallStep("yaml", ParseYaml(JsonToYaml(call.value, 0)))

\* The form of a cluster that was not configured yet.
TakeDefaults == CallStep("defaults", ExtractDefaults(call.schema))

Next == PlayNext \/ FormNext \/ SaveAndLoad \/ SwitchMode \/ TakeDefaults

Spec == Init /\ [][Next]_callVars

-----------------------------------------------------------------------------
(* the form *)

\* What the YAML of the form tells exactly: not arrays, and of the strings those
\* that neither are empty, quoted or cut by a comment nor look like another type.
Faithful(leaf) == leaf.type # "array" /\ (leaf.type = "string" => leaf.text = "a")

\* Switching to YAML and changing anything there changes no other value that is
\* faithful, and every other one: a password with a # or of digits is not the
\* same afterwards.  The objects stay as they are.
YamlKeeps ==
    answer.op = "yaml" =>
      \A path \in Paths :
        LET was == GetDeep(call.value, path) is == GetDeep(answer.out, path) IN
        IF was = Undefined THEN is = Undefined
        ELSE IF IsObject(was) THEN IsObject(is) /\ DOMAIN is.sub = DOMAIN was.sub
        ELSE is = was <=> Faithful(was)

\* What the form shows of a schema that was never saved is what is saved: no
\* default is only shown.  A group without a default in its fields is saved as its
\* own default says, also if that is empty; nothing else that is saved is empty.
DefaultsSaved ==
    answer.op = "defaults" =>
      \A path \in Paths :
        LET at    == SchemaAt(call.schema, path)
            saved == GetDeep(answer.out, path)
        IN  IF ~at.group THEN FieldValue(call.schema, answer.out, path) = saved
            ELSE IF \A k \in DOMAIN at.properties : at.properties[k].default = Undefined
                   THEN saved = at.default
            ELSE ~IsEmpty(saved)
=============================================================================
