------------------------------ MODULE FormTrees ------------------------------
(***************************************************************************)
(* What the installer does with all values of a form at once: the YAML it  *)
(* shows and reads back (jsonToYaml of components/cluster-form.jsx and     *)
(* parseYaml of components/yaml-utils.jsx), and the defaults of a schema.  *)
(* The texts of leaves are samples.                                        *)
(***************************************************************************)
EXTENDS FormData, SequencesExt

CONSTANT KeyOrder     \* the keys, in the order they are inserted

KeysOf(v) == SelectSeq(KeyOrder, LAMBDA k : k \in DOMAIN v.sub)

-----------------------------------------------------------------------------
\* YAML: a sequence of lines, each an indentation, a key and what follows it.

RECURSIVE JsonToYaml(_, _)
JsonToYaml(v, indent) ==
  FoldRight(LAMBDA k, lines :
              <<[indent |-> indent, key |-> k, val |-> v.sub[k].text]>>
                \o (IF IsObject(v.sub[k]) THEN JsonToYaml(v.sub[k], indent + 1) ELSE << >>)
                \o lines,
            KeysOf(v), << >>)

\* What is before the first # of a line.
Uncommented == [x \in {"a#b"} |-> "a"] @@ [x \in {"#b"} |-> ""]
Uncomment(text) == IF text \in DOMAIN Uncommented THEN Uncommented[text] ELSE text

\* parseScalar: quotes go; true, false, null and numbers are no texts any more.
Unquoted == [x \in {"'a'"} |-> "a"]
ParseScalar(text) ==
  CASE text \in DOMAIN Unquoted    -> Leaf("string", Unquoted[text])
    [] text \in {"true", "false"}  -> Leaf("boolean", text)
    [] text = "null"               -> Leaf("null", text)
    [] text = "12"                 -> Leaf("number", text)
    [] OTHER                       -> Leaf("string", text)

\* Mutant: a line as deep as the last object is taken to be in it.
OpenKeeps(stack, indent) == SelectSeq(stack, LAMBDA s : s.indent <= indent)

\* The objects that a line with this indentation may be in, the innermost last.
Open(stack, indent) == SelectSeq(stack, LAMBDA s : s.indent < indent)

\* One line after the other; a line without a value opens an object.
\* The object a line is in is there, so that setting its path is parent[key] = ...
ParseYaml(lines) ==
  LET ReadLine(state, line) ==
        LET stack == Open(state.stack, line.indent)
            path  == (IF stack = << >> THEN << >> ELSE Last(stack).path) \o <<line.key>>
            text  == Uncomment(line.val)
        IN  IF text = ""
              THEN [root |-> SetDeep(state.root, path, Object(<< >>)),
                    stack |-> Append(stack, [indent |-> line.indent, path |-> path])]
              ELSE [root |-> SetDeep(state.root, path, ParseScalar(text)), stack |-> stack]
  IN  FoldLeft(ReadLine, [root |-> Object(<< >>), stack |-> << >>], lines).root

-----------------------------------------------------------------------------
\* Schemas: a field has a default, or Undefined; a group has fields, and may have
\* a default of its own.  (A default of null ends in an error, and is left out.)

Field(default) == [group |-> FALSE, default |-> default, properties |-> << >>]
Group(default, fields) == [group |-> TRUE, default |-> default, properties |-> fields]

\* Nothing is left of an object: Object.keys(v).length is 0.
IsEmpty(v) == IsObject(v) /\ DOMAIN v.sub = {}

\* Mutant: only fields of the schema itself have defaults.
ExtractDefaultsShallow(schema) ==
  LET sub == schema.properties
  IN  Object([k \in {k \in DOMAIN sub : sub[k].default # Undefined} |-> sub[k].default])

\* A group whose fields leave nothing is as its own default says, as a field is
\* whose default is empty; what has none is left out.
RECURSIVE ExtractDefaults(_)
ExtractDefaults(schema) ==
  IF ~schema.group THEN schema.default
  ELSE LET sub  == schema.properties
           all  == [k \in DOMAIN sub |->
                      LET v == ExtractDefaults(sub[k]) IN IF IsEmpty(v) THEN sub[k].default ELSE v]
       IN  Object([k \in {k \in DOMAIN all : all[k] # Undefined} |-> all[k]])

\* The field or group at a path; where the schema has none, one without a default.
SchemaAt(schema, path) ==
  FoldLeft(LAMBDA s, k : IF k \in DOMAIN s.properties THEN s.properties[k] ELSE Field(Undefined),
           schema, path)

\* What a field shows: its value, or its default.
FieldValue(schema, values, path) ==
  LET raw == GetDeep(values, path)
  IN  IF raw # Undefined THEN raw ELSE SchemaAt(schema, path).default
=============================================================================
