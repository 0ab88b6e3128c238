------------------------------ MODULE PureCalls ------------------------------
(* A pure function as a state machine: the calls are the initial states, one *)
(* step answers them.  Properties relate the answer to the call.             *)
VARIABLES call, answer

callVars == <<call, answer>>

CallInit(calls) == call \in calls /\ answer = [op |-> "none"]

CallStep(op, out) ==
    /\ answer.op = "none" /\ call.op = op
    /\ answer' = [op |-> op, out |-> out]
    /\ UNCHANGED call
=============================================================================
