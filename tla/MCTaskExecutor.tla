--------------------------- MODULE MCTaskExecutor ---------------------------
(* Two hosts, each given no loop, an empty loop, one or two items. *)
EXTENDS TaskExecutor

CONSTANTS h1, h2, a, b

MCHosts == {h1, h2}
MCHostList == <<h1, h2>>
MCDuplicates == <<h1, h1>>
MCItems == {a, b}
MCLoops == {<<NoItem>>, << >>, <<a, b>>}
MCOneItem == {<<a>>}
=============================================================================
