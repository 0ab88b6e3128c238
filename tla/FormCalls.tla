------------------------------ MODULE FormCalls ------------------------------
(* An edit of one field of the form (onFieldChange), and the list of recent  *)
(* playbooks, each called on its own.                                        *)
EXTENDS FormData, PureCalls

CONSTANTS
    Forms,      \* the values a form may have
    Paths,      \* the paths of fields, sequences of keys
    NewValues,  \* what a field may be set to
    PlaybookLists

\* No key of a schema is the index of a character.
ASSUME FormCallsAssumption ==
    /\ Paths \subseteq Seq(STRING)
    /\ \A path \in Paths : \A i \in DOMAIN path : path[i] # "0"
    /\ PlaybookLists \subseteq Seq(Playbook)
    /\ MaxShown \in Nat \ {0}

EditCalls == [op : {"edit"}, value : Forms, path : Paths, new : NewValues]
RecentCalls == [op : {"recent"}, list : PlaybookLists]

EditField == CallStep("edit", SetDeep(call.value, call.path, call.new))
ListRecent == CallStep("recent", Recent(call.list))

FormNext == EditField \/ ListRecent

FormCallsSpec == CallInit(EditCalls \cup RecentCalls) /\ [][FormNext]_callVars

-----------------------------------------------------------------------------
IsPrefixOf(p, q) == Len(p) <= Len(q) /\ SubSeq(q, 1, Len(p)) = p

\* An edit changes the field it is about and no other one, whatever is missing
\* on the way to it.
FieldEdits ==
    answer.op = "edit" =>
      /\ GetDeep(answer.out, call.path) = call.new
      /\ \A path \in Paths :
           ~IsPrefixOf(path, call.path) /\ ~IsPrefixOf(call.path, path) =>
             GetDeep(answer.out, path) = GetDeep(call.value, path)

\* The list has the newest of each type, and misses a type only for as many
\* newer ones.
RecentIsLatest ==
    answer.op = "recent" =>
      /\ \A i \in DOMAIN answer.out, j \in DOMAIN call.list :
           TypeOf(call.list[j]) = TypeOf(answer.out[i]) => call.list[j].time <= answer.out[i].time
      /\ \A j \in DOMAIN call.list :
           \/ \E i \in DOMAIN answer.out : TypeOf(answer.out[i]) = TypeOf(call.list[j])
           \/ /\ Cardinality(Range(answer.out)) = MaxShown
              /\ \A i \in DOMAIN answer.out : answer.out[i].time >= call.list[j].time
=============================================================================
