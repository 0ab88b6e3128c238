--------------------------- MODULE TaskLifecycle ---------------------------
(***************************************************************************)
(* What a client of the API server may see of the status of one Task: the  *)
(* promise of api/core/v1alpha1/task_types.go (IsComplete, IsSucceed,      *)
(* IsFailed).  A task is created Pending; each attempt is announced by     *)
(* Running before it has a result; a failed attempt is retried at most     *)
(* Spec.Retries times; a result that IsComplete never changes.  The next   *)
(* task of the playbook may be created at any time, whatever was last      *)
(* saved of this one.                                                      *)
(***************************************************************************)
EXTENDS Naturals

CONSTANT MaxRetries

ASSUME LifecycleAssumption == MaxRetries \in Nat

VARIABLES spec,   \* the immutable part of Task.Spec: retries, ignore, register
          stored  \* Task.Status as persisted: phase, restart (RestartCount)

lvars == <<spec, stored>>

TaskSpec == [retries : 0..MaxRetries, ignore : BOOLEAN, register : BOOLEAN]

Phase == {"None", "Pending", "Running", "Success", "Ignored", "Failed"}

Status == [phase : Phase, restart : 0..MaxRetries]

IsSucceed(st) == st.phase \in {"Success", "Ignored"}

IsFailed(sp, st) == st.phase = "Failed" /\ sp.retries <= st.restart

IsComplete(sp, st) == IsSucceed(st) \/ IsFailed(sp, st)

LInit == /\ spec \in TaskSpec
         /\ stored = [phase |-> "None", restart |-> 0]

LCreate == /\ spec' \in TaskSpec
           /\ stored' = [phase |-> "Pending", restart |-> 0]

LStart == /\ stored.phase = "Pending"
          /\ stored' = [stored EXCEPT !.phase = "Running"]
          /\ UNCHANGED spec

LRetry == /\ stored.phase = "Failed"
          /\ stored.restart < spec.retries
          /\ stored' = [phase |-> "Running", restart |-> stored.restart + 1]
          /\ UNCHANGED spec

LFinish == /\ stored.phase = "Running"
           /\ \E p \in {"Success", IF spec.ignore THEN "Ignored" ELSE "Failed"} :
                stored' = [stored EXCEPT !.phase = p]
           /\ UNCHANGED spec

LNext == LCreate \/ LStart \/ LRetry \/ LFinish

LSpec == LInit /\ [][LNext]_lvars
=============================================================================
