------------------------ MODULE MCPlaybookController ------------------------
(* One playbook and as many pods as two disturbances can bring about. *)
EXTENDS PlaybookController
=============================================================================
