-------------------------------- MODULE Tags --------------------------------
(***************************************************************************)
(* api/project/v1/taggable.go: which tasks --tags and --skip-tags select,  *)
(* and how tags are inherited.  A list of tags is a set here: the code     *)
(* only asks whether it contains a tag, and whether it is empty.           *)
(***************************************************************************)

\* The special tags.
AlwaysTag == "always"
NeverTag == "never"
AllTag == "all"
TaggedTag == "tagged"

isdisjoint(a, b) == a \cap b = {}

\* Whether --tags only selects a task with tags t.
Selected(t, only) ==
    \/ only = {}
    \/ AlwaysTag \in t
    \/ AllTag \in only /\ NeverTag \notin t
    \/ TaggedTag \in only /\ NeverTag \notin t
    \/ ~ isdisjoint(only, t)

\* Whether --skip-tags skip takes it out again.
Skipped(t, skip) ==
    \/ AllTag \in skip /\ ~ (AlwaysTag \in t /\ AlwaysTag \in skip)
    \/ ~ isdisjoint(skip, t)
    \/ TaggedTag \in skip

IsEnabled(t, only, skip) == Selected(t, only) /\ ~ Skipped(t, skip)

\* Mutant: the tags of the parent are lost.
JoinTagChildOnly(child, parent) == child

JoinTag(child, parent) == child \cup parent
=============================================================================
