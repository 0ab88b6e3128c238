------------------------------ MODULE RunView ------------------------------
(***************************************************************************)
(* What a page that shows a playbook promises, apart from how it learns    *)
(* it: a view that nobody disturbed shows phases that the playbook really  *)
(* had, in their order.  Two things disturb a view: the user aborts the    *)
(* playbook, or the page starts to show another playbook in the same view. *)
(* Then only this is left: it shows a phase that one of the playbooks had, *)
(* or the "Failed" of the abort.                                           *)
(***************************************************************************)
EXTENDS Naturals

CONSTANT N                       \* playbooks are numbered as they are created

Playbooks == 1 .. N
Phases == {"Pending", "Running", "Succeeded", "Failed"}
Final == {"Succeeded", "Failed"}

Rank(q) == IF q \in Final THEN 2 ELSE IF q = "Running" THEN 1 ELSE 0

VARIABLES run,                   \* the phase of each playbook in the API server, or "None"
          name,                  \* the playbook that is shown, 0 for none
          phase,                 \* the phase that is shown
          mode                   \* "closed", "live", "aborted" or "mixed"

vars == <<run, name, phase, mode>>

\* Playbook p has, or had, phase q.
Had(p, q) == run[p] # "None" /\ (q = run[p] \/ Rank(q) < Rank(run[p]))

Init == /\ run = [p \in Playbooks |-> "None"]
        /\ name = 0
        /\ phase = "Pending"
        /\ mode = "closed"

Run(p) == /\ \/ run[p] = "None" /\ run' = [run EXCEPT ![p] = "Pending"]
             \/ run[p] = "Pending" /\ run' = [run EXCEPT ![p] = "Running"]
             \/ /\ run[p] = "Running"
                /\ \E q \in Final : run' = [run EXCEPT ![p] = q]
          /\ UNCHANGED <<name, phase, mode>>

Open(p) == /\ mode = "closed" /\ run[p] # "None"
           /\ name' = p /\ phase' = "Pending" /\ mode' = "live"
           /\ UNCHANGED run

Close == /\ mode' = "closed" /\ name' = 0 /\ phase' = "Pending"
         /\ UNCHANGED run

\* An undisturbed view only goes forward.
Look == /\ mode = "live"
        /\ phase' \in {q \in Phases : Had(name, q) /\ Rank(phase) <= Rank(q)}
        /\ UNCHANGED <<run, name, mode>>

Abort == /\ mode # "closed"
         /\ phase' = "Failed"
         /\ mode' = IF mode = "live" THEN "aborted" ELSE mode
         /\ UNCHANGED <<run, name>>

\* A look from before the abort comes late.
LookBack == /\ mode = "aborted"
            /\ phase' \in {q \in Phases : Had(name, q)}
            /\ UNCHANGED <<run, name, mode>>

Replace(p) == /\ mode # "closed" /\ run[p] # "None"
              /\ name' = p /\ mode' = "mixed"
              /\ UNCHANGED <<run, phase>>

LookMixed == /\ mode = "mixed"
             /\ phase' \in {q \in Phases : \E p \in Playbooks : Had(p, q)}
             /\ UNCHANGED <<run, name, mode>>

Next == \/ \E p \in Playbooks : Run(p) \/ Open(p) \/ Replace(p)
        \/ Close \/ Look \/ Abort \/ LookBack \/ LookMixed

Spec == Init /\ [][Next]_vars
=============================================================================
