----------------------------- MODULE MCNodeScan -----------------------------
\* Port p is the usual one.  Machine a is open to the server's id_rsa there, b
\* to another of its keys for the user that is typed and, on port q, in an
\* inventory; l is the server itself.  The entries of the text overlap.
EXTENDS NodeScan, TLC

CONSTANTS a, b, l, p, q, typed

MCAccepts == [m \in Ip \X Port |-> IF m = <<a, p>> THEN {typed} ELSE {}]
MCServerKeys == [m \in Ip \X Port |-> CASE m = <<a, p>> -> {Default}
                                         [] m = <<b, p>> -> {typed}
                                         [] OTHER -> {}]
MCScanKey == {<<a, p>>}
MCKnown == {<<b, q>>}
MCBlock == [e1 |-> {a, b}, e2 |-> {b, l}]
MCTexts == {<<"e1">>, <<"e1", "e2">>}
=============================================================================
