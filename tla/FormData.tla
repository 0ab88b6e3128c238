------------------------------ MODULE FormData ------------------------------
(***************************************************************************)
(* How the installer keeps the values of its form: a field is read and     *)
(* edited (getDeep and setDeep of components/schema-form.jsx).  And which  *)
(* playbooks are listed (RecentPlaybooks of app.jsx).                      *)
(*                                                                         *)
(* A value is an object, a function from keys, or a leaf: its type and the *)
(* text that a template literal makes of it.                               *)
(***************************************************************************)
EXTENDS Naturals, Sequences, FiniteSetsExt, Functions

CONSTANT MaxShown      \* how many playbooks are listed

Leaf(t, x) == [type |-> t, text |-> x, sub |-> << >>]
Object(sub) == [type |-> "object", text |-> "", sub |-> sub]
Undefined == Leaf("undefined", "")
IsObject(v) == v.type = "object"

-----------------------------------------------------------------------------
\* Fields.

\* The loop over the path; what is not there has nothing in it.
GetDeep(v, path) ==
  LET cur[i \in 0 .. Len(path)] ==
        IF i = 0 THEN v
        ELSE IF IsObject(cur[i - 1]) /\ path[i] \in DOMAIN cur[i - 1].sub
             THEN cur[i - 1].sub[path[i]] ELSE Undefined
  IN  cur[Len(path)]

\* What {...v} copies: of a text, its characters.
Spread(v) == IF IsObject(v) THEN v.sub
             ELSE IF v.type = "string" /\ v.text # "" THEN [k \in {"0"} |-> v] ELSE << >>

\* obj?.[key] || {}
Child(v, key) == IF key \in DOMAIN Spread(v) THEN Spread(v)[key] ELSE Object(<< >>)

With(sub, key, new) == [k \in DOMAIN sub \cup {key} |-> IF k = key THEN new ELSE sub[k]]

\* What is there already, at each depth of the path.
OnTheWay(v, path) ==
  LET old[i \in 0 .. Len(path)] == IF i = 0 THEN v ELSE Child(old[i - 1], path[i])
  IN  old

\* Mutant: the other keys of the innermost object are not copied.
SetDeepDrops(v, path, new) ==
  LET n   == Len(path)
      old == OnTheWay(v, path)
      made[i \in 0 .. n] ==
        IF i = 0 THEN new
        ELSE Object(With(IF i = 1 THEN << >> ELSE Spread(old[n - i]), path[n - i + 1], made[i - 1]))
  IN  made[n]

\* The objects on the way are copied, with the innermost i keys of the path set;
\* one that is not there is made, also in the place of a leaf.
SetDeep(v, path, new) ==
  LET n   == Len(path)
      old == OnTheWay(v, path)
      made[i \in 0 .. n] ==
        IF i = 0 THEN new
        ELSE Object(With(Spread(old[n - i]), path[n - i + 1], made[i - 1]))
  IN  made[n]

-----------------------------------------------------------------------------
\* The list of playbooks, each a name and a time.  The name has a last word, the
\* suffix of generateName, any other of four to six characters, or none such.

Playbook == [base : STRING, last : {"suffix", "word", "none"}, time : Nat]

TypeOf(pb) == IF pb.last \in {"suffix", "word"} THEN <<pb.base>> ELSE <<pb.base, pb.last>>

\* Array.prototype.sort: pb goes behind those that are not older.
Insert(sorted, pb) ==
  LET older == {i \in DOMAIN sorted : sorted[i].time < pb.time}
      at    == IF older = {} THEN Len(sorted) + 1 ELSE Min(older)
  IN  [i \in 1 .. Len(sorted) + 1 |->
         IF i < at THEN sorted[i] ELSE IF i = at THEN pb ELSE sorted[i - 1]]

\* The list, newest first.
Newest(list) ==
  LET sorted[k \in 0 .. Len(list)] == IF k = 0 THEN << >> ELSE Insert(sorted[k - 1], list[k])
  IN  sorted[Len(list)]

AddNew(shown, pb) ==
  IF Len(shown) = MaxShown \/ \E i \in DOMAIN shown : TypeOf(shown[i]) = TypeOf(pb) THEN shown
  ELSE Append(shown, pb)

\* The list when those up to k have been looked at.
ShownOf(list) ==
  LET shown[k \in 0 .. Len(list)] == IF k = 0 THEN << >> ELSE AddNew(shown[k - 1], list[k])
  IN  shown

\* Mutant: only so many are looked at.
RecentOfFirst(list) == ShownOf(Newest(list))[IF Len(list) < MaxShown THEN Len(list) ELSE MaxShown]

\* The newest of each type, newest first, up to MaxShown.
Recent(list) == ShownOf(Newest(list))[Len(list)]
=============================================================================
