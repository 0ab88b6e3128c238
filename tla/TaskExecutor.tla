---------------------------- MODULE TaskExecutor ----------------------------
(***************************************************************************)
(* pkg/executor/task_executor.go: one task after the other of a playbook,  *)
(* each run on all its hosts at once (a goroutine per entry of Spec.Hosts),*)
(* item by item on each host, and again while a host failed and retries    *)
(* are left.  Every call of the API client and every access to the         *)
(* variable store may fail.  The entries of Spec.Hosts are the slots of    *)
(* HostResults; two slots may carry the same host name.                    *)
(***************************************************************************)
EXTENDS Sequences, TaskLifecycle

CONSTANTS
    Hosts,         \* host names of the inventory
    HostList,      \* Task.Spec.Hosts
    Items,         \* items of loops
    NoItem,        \* Go's nil: no loop is set, or the item variable is reset
    Loops,         \* what dealLoop may return on a host
    MaxTasks,      \* bound: tasks executed
    VariableMayFail \* whether Get and Merge of the variable store can fail

ASSUME HostsAssumption == HostList \in Seq(Hosts)
ASSUME LoopsAssumption == Loops \subseteq Seq(Items \cup {NoItem})
ASSUME BoundsAssumption == MaxTasks \in Nat /\ VariableMayFail \in BOOLEAN

VARIABLES
    epc,      \* control point of taskExecutor.Exec
    task,     \* e.task.Status in memory: phase, restart
    result,   \* HostResults: whether slot i has no result yet, or an Error or not
    pc,       \* control point of the goroutine of slot i (execTaskHost)
    todo,     \* items left for slot i, the current one first
    seen,     \* variables.item as executeModule fetched it for slot i
    execErr,  \* resErr of execTaskHost: Get or dealLoop failed
    itemErr,  \* whether a LoopResult of slot i has an Error
    item,     \* runtime variable "item" of a host, in the variable store
    reg,      \* runtime variable Spec.Register of a host: its "error" entries
    verdict,  \* what the last Exec returned
    stats,    \* Playbook.Status.Statistics
    returned  \* how many Execs of created tasks returned what

evars == <<epc, task, verdict, stats, returned>>
hvars == <<result, pc, todo, seen, execErr, itemErr, item, reg>>
vars  == <<spec, stored, evars, hvars>>

Slot == DOMAIN HostList
Host(i) == HostList[i]
Item == Items \cup {NoItem}

Outcome == {"ok", "run_failed", "api_error"}
Verdict == Outcome \cup {"none"}

HostPc == {"exit", "get", "item", "vars", "module", "reset", "register"}

TypeOK ==
    /\ spec \in TaskSpec
    /\ stored \in Status
    /\ task \in Status
    /\ epc \in {"idle", "loop", "run", "save", "return"}
    /\ result \in [Slot -> {"none", "ok", "error"}]
    /\ pc \in [Slot -> HostPc]
    /\ todo \in [Slot -> Seq(Item)]
    /\ seen \in [Slot -> Item]
    /\ execErr \in [Slot -> BOOLEAN]
    /\ itemErr \in [Slot -> BOOLEAN]
    /\ item \in [Hosts -> Item]
    /\ reg \in [Hosts -> {"unset", "ok", "error"}]
    /\ verdict \in Verdict
    /\ stats \in [total : Nat, success : Nat, ignored : Nat, failed : Nat]
    /\ returned \in [Outcome -> Nat]

Init ==
    /\ LInit
    /\ epc = "idle"
    /\ task = [phase |-> "None", restart |-> 0]
    /\ result = [i \in Slot |-> "none"]
    /\ pc = [i \in Slot |-> "exit"]
    /\ todo = [i \in Slot |-> << >>]
    /\ seen = [i \in Slot |-> NoItem]
    /\ execErr = [i \in Slot |-> FALSE]
    /\ itemErr = [i \in Slot |-> FALSE]
    /\ item = [h \in Hosts |-> NoItem]
    /\ reg = [h \in Hosts |-> "unset"]
    /\ verdict = "none"
    /\ stats = [total |-> 0, success |-> 0, ignored |-> 0, failed |-> 0]
    /\ returned = [v \in Outcome |-> 0]

-----------------------------------------------------------------------------
(* taskExecutor.Exec and runTaskLoop *)

\* client.Create: the server sets the phase to Pending (PrepareForCreate).
Create ==
    /\ epc = "idle"
    /\ stats.total < MaxTasks
    /\ spec' \in TaskSpec
    /\ task' = [phase |-> "Pending", restart |-> 0]
    /\ stored' = task'
    /\ epc' = "loop"
    /\ verdict' = "none"
    /\ UNCHANGED <<stats, returned, hvars>>

\* client.Create failed: Exec returns before its deferred bookkeeping.
CreateFails ==
    /\ epc = "idle"
    /\ stats.total < MaxTasks
    /\ verdict' = "api_error"
    /\ UNCHANGED <<spec, stored, epc, task, stats, returned, hvars>>

\* Mutant: the retry is not counted.
AnnouncedUncounted == [phase |-> "Running", restart |-> task.restart]

\* The status the loop sets before it runs the task.
Announced ==
    [phase |-> "Running",
     restart |-> IF task.phase = "Failed" THEN task.restart + 1 ELSE task.restart]

\* The status patch is saved and execTask starts a goroutine per host.
StartAttempt ==
    /\ epc = "loop"
    /\ ~ IsComplete(spec, task)
    /\ task' = Announced
    /\ stored' = task'
    /\ result' = [i \in Slot |-> "none"]
    /\ pc' = [i \in Slot |-> "get"]
    /\ execErr' = [i \in Slot |-> FALSE]
    /\ itemErr' = [i \in Slot |-> FALSE]
    /\ epc' = "run"
    /\ UNCHANGED <<spec, todo, seen, item, reg, verdict, stats, returned>>

StartAttemptFails ==
    /\ epc = "loop"
    /\ ~ IsComplete(spec, task)
    /\ task' = Announced
    /\ verdict' = "api_error"
    /\ epc' = "return"
    /\ UNCHANGED <<spec, stored, stats, returned, hvars>>

\* Mutant: one goroutine that is done is enough.
SomeDone == \E i \in Slot : pc[i] = "exit"

\* wg.Wait returns.
AllDone == \A i \in Slot : pc[i] = "exit"

\* Mutants: the last host decides; ignore_errors is not looked at.
LastHostPhase ==
    IF result[Len(HostList)] # "error" THEN "Success"
    ELSE IF spec.ignore THEN "Ignored" ELSE "Failed"
NeverIgnoredPhase ==
    IF \A i \in Slot : result[i] # "error" THEN "Success" ELSE "Failed"

\* The first Error among the HostResults decides.
ResultPhase ==
    IF \A i \in Slot : result[i] # "error" THEN "Success"
    ELSE IF spec.ignore THEN "Ignored" ELSE "Failed"

\* The end of execTask: the results of the hosts give the phase.
Collect ==
    /\ epc = "run"
    /\ AllDone
    /\ task' = [task EXCEPT !.phase = ResultPhase]
    /\ epc' = "save"
    /\ UNCHANGED <<spec, stored, verdict, stats, returned, hvars>>

\* Mutant: the patch is computed against the status it is to save.
EmptyPatch == stored

SavePatch == task

Save ==
    /\ epc = "save"
    /\ stored' = SavePatch
    /\ epc' = "loop"
    /\ UNCHANGED <<spec, task, verdict, stats, returned, hvars>>

SaveFails ==
    /\ epc = "save"
    /\ verdict' = "api_error"
    /\ epc' = "return"
    /\ UNCHANGED <<spec, stored, task, stats, returned, hvars>>

\* runTaskLoop ends; Exec turns IsFailed into an error.
LeaveLoop ==
    /\ epc = "loop"
    /\ IsComplete(spec, task)
    /\ verdict' = IF IsFailed(spec, task) THEN "run_failed" ELSE "ok"
    /\ epc' = "return"
    /\ UNCHANGED <<spec, stored, task, stats, returned, hvars>>

\* The deferred function of Exec counts the task by its phase in memory.
Counted ==
    [total   |-> stats.total + 1,
     success |-> stats.success + (IF task.phase = "Success" THEN 1 ELSE 0),
     ignored |-> stats.ignored + (IF task.phase = "Ignored" THEN 1 ELSE 0),
     failed  |-> stats.failed  + (IF task.phase = "Failed" THEN 1 ELSE 0)]

Return ==
    /\ epc = "return"
    /\ stats' = Counted
    /\ returned' = [returned EXCEPT ![verdict] = @ + 1]
    /\ epc' = "idle"
    /\ UNCHANGED <<spec, stored, task, verdict, hvars>>

-----------------------------------------------------------------------------
(* execTaskHost, executeModule and dealRegister, on slot i *)

\* Where a goroutine goes when its items left are l.
NextItem(l) == IF l = << >> THEN "register" ELSE "item"

\* Get the variables of the host and evaluate the loop on them.
GetLoop(i) ==
    /\ pc[i] = "get"
    /\ \E l \in Loops :
         /\ todo' = [todo EXCEPT ![i] = l]
         /\ pc' = [pc EXCEPT ![i] = NextItem(l)]
    /\ UNCHANGED <<spec, stored, evars, result, seen, execErr, itemErr, item, reg>>

GetLoopFails(i) ==
    /\ pc[i] = "get"
    /\ VariableMayFail
    /\ execErr' = [execErr EXCEPT ![i] = TRUE]
    /\ todo' = [todo EXCEPT ![i] = << >>]
    /\ pc' = [pc EXCEPT ![i] = "register"]
    /\ UNCHANGED <<spec, stored, evars, result, seen, itemErr, item, reg>>

\* Mutant: the item is merged into every host of the task.
EveryHost(i) == Hosts

\* The hosts whose runtime variables a merge of slot i changes.
MergeHosts(i) == {Host(i)}

\* The item variables after slot i merged x into them; a nil item is no merge.
MergeItem(i, x) ==
    IF Head(todo[i]) = NoItem THEN item
    ELSE [h \in Hosts |-> IF h \in MergeHosts(i) THEN x ELSE item[h]]

\* Merge the item, if there is one, into the runtime variables of the host.
SetItem(i) ==
    /\ pc[i] = "item"
    /\ item' = MergeItem(i, Head(todo[i]))
    /\ pc' = [pc EXCEPT ![i] = "vars"]
    /\ UNCHANGED <<spec, stored, evars, result, todo, seen, execErr, itemErr, reg>>

\* The merge failed: executeModule returns before it defers the reset.
SetItemFails(i) ==
    /\ pc[i] = "item"
    /\ VariableMayFail
    /\ Head(todo[i]) # NoItem
    /\ itemErr' = [itemErr EXCEPT ![i] = TRUE]
    /\ todo' = [todo EXCEPT ![i] = Tail(@)]
    /\ pc' = [pc EXCEPT ![i] = NextItem(Tail(todo[i]))]
    /\ UNCHANGED <<spec, stored, evars, result, seen, execErr, item, reg>>

\* Get all variables again, then when: run the module, skip it, or fail.
GetVars(i) ==
    /\ pc[i] = "vars"
    /\ \/ /\ seen' = [seen EXCEPT ![i] = item[Host(i)]]
          /\ pc' = [pc EXCEPT ![i] = "module"]
          /\ UNCHANGED itemErr
       \/ /\ pc' = [pc EXCEPT ![i] = "reset"]   \* when is false
          /\ UNCHANGED <<seen, itemErr>>
       \/ /\ pc' = [pc EXCEPT ![i] = "reset"]   \* Get failed, or when is ill-formed
          /\ itemErr' = [itemErr EXCEPT ![i] = TRUE]
          /\ UNCHANGED seen
    /\ UNCHANGED <<spec, stored, evars, result, todo, execErr, item, reg>>

\* The module returns, and failed_when is evaluated on what GetVars fetched.
RunModule(i) ==
    /\ pc[i] = "module"
    /\ \E ok \in BOOLEAN : itemErr' = [itemErr EXCEPT ![i] = @ \/ ~ ok]
    /\ pc' = [pc EXCEPT ![i] = "reset"]
    /\ UNCHANGED <<spec, stored, evars, result, todo, seen, execErr, item, reg>>

ResetValue(i) == NoItem

\* The deferred reset of the item, and the LoopResult is appended.
ResetItem(i) ==
    /\ pc[i] = "reset"
    /\ item' = MergeItem(i, ResetValue(i))
    /\ todo' = [todo EXCEPT ![i] = Tail(@)]
    /\ pc' = [pc EXCEPT ![i] = NextItem(Tail(todo[i]))]
    /\ UNCHANGED <<spec, stored, evars, result, seen, execErr, itemErr, reg>>

\* The merge of the reset failed: its error is the result of the item.
ResetItemFails(i) ==
    /\ pc[i] = "reset"
    /\ VariableMayFail
    /\ Head(todo[i]) # NoItem
    /\ itemErr' = [itemErr EXCEPT ![i] = TRUE]
    /\ todo' = [todo EXCEPT ![i] = Tail(@)]
    /\ pc' = [pc EXCEPT ![i] = NextItem(Tail(todo[i]))]
    /\ UNCHANGED <<spec, stored, evars, result, seen, execErr, item, reg>>

ExecutorError(i) == execErr[i]

Registers(i) == spec.register
HostFailed(i) == execErr[i] \/ itemErr[i]

\* dealRegister, then the HostResult of the slot is written.
Register(i) ==
    /\ pc[i] = "register"
    /\ reg' = IF Registers(i)
              THEN [reg EXCEPT ![Host(i)] = IF itemErr[i] THEN "error" ELSE "ok"]
              ELSE reg
    /\ result' = [result EXCEPT ![i] = IF HostFailed(i) THEN "error" ELSE "ok"]
    /\ pc' = [pc EXCEPT ![i] = "exit"]
    /\ UNCHANGED <<spec, stored, evars, todo, seen, execErr, itemErr, item>>

RegisterFails(i) ==
    /\ pc[i] = "register"
    /\ VariableMayFail
    /\ Registers(i)
    /\ result' = [result EXCEPT ![i] = "error"]
    /\ pc' = [pc EXCEPT ![i] = "exit"]
    /\ UNCHANGED <<spec, stored, evars, todo, seen, execErr, itemErr, item, reg>>

-----------------------------------------------------------------------------
ExecStep ==
    \/ Create \/ CreateFails
    \/ StartAttempt \/ StartAttemptFails
    \/ Collect
    \/ Save \/ SaveFails
    \/ LeaveLoop \/ Return

\* Every step of a goroutine but the one in which a module returns.
OwnStep(i) ==
    \/ GetLoop(i) \/ GetLoopFails(i)
    \/ SetItem(i) \/ SetItemFails(i)
    \/ GetVars(i)
    \/ ResetItem(i) \/ ResetItemFails(i)
    \/ Register(i) \/ RegisterFails(i)

Next == ExecStep \/ \E i \in Slot : OwnStep(i) \/ RunModule(i)

Spec == Init /\ [][Next]_vars

\* The process is scheduled and its calls return.
Scheduled ==
    /\ WF_vars(ExecStep)
    /\ \A i \in Slot : WF_vars(OwnStep(i))

\* Modules are other programs: that they return is an assumption of its own.
ModulesReturn == \A i \in Slot : WF_vars(RunModule(i))

FairSpec == Spec /\ Scheduled /\ ModulesReturn

-----------------------------------------------------------------------------
(* Properties *)

\* No verdict before the hosts: a saved or computed result of an attempt means
\* that every goroutine of execTask has ended and left its HostResult (wg.Wait).
Barrier ==
    epc \in {"save", "idle", "return", "loop"} =>
        \A i \in Slot : pc[i] = "exit" /\ (epc = "save" => result[i] # "none")

\* What Exec returns agrees with the last results of the hosts: "ok" means that
\* no host failed or errors are ignored; a failed run means that a host failed
\* in the last attempt, errors count, and all retries are used up.
VerdictSound ==
    /\ verdict = "ok" =>
         spec.ignore \/ \A i \in Slot : result[i] = "ok"
    /\ verdict = "run_failed" =>
         /\ ~ spec.ignore
         /\ task.restart = spec.retries
         /\ \E i \in Slot : result[i] = "error"

\* When Exec returns without an API error, the status in the API server is the
\* one Exec decided on: no task is left Running behind a playbook that goes on.
SavedVerdict ==
    verdict \in {"ok", "run_failed"} =>
        stored = task /\ IsComplete(spec, stored)

\* Retries are bounded: a task is never announced more than retries + 1 times,
\* and memory never runs ahead of what was saved by more than one attempt.
RetryBound ==
    /\ task.restart <= spec.retries
    /\ stored.restart <= task.restart
    /\ task.restart <= stored.restart + 1

\* The statistics of the playbook agree with what its Execs returned, though the
\* one counts phases in memory and the other errors: nothing is counted twice,
\* and only an API error can leave a task out of success, ignored and failed.
StatsBalance ==
    LET sum == stats.success + stats.ignored + stats.failed IN
    /\ stats.total = returned["ok"] + returned["run_failed"] + returned["api_error"]
    /\ sum <= stats.total
    /\ stats.total <= sum + returned["api_error"]
    /\ returned["ok"] <= stats.success + stats.ignored
    /\ returned["run_failed"] <= stats.failed

\* A module of a host runs with the loop item it was started for, and without
\* one when the task has no loop: goroutines of other hosts, earlier items and
\* earlier tasks do not leak into it (executeModule sets and resets "item").
ItemIsolation ==
    \A i \in Slot : pc[i] = "module" => seen[i] = Head(todo[i])

\* When the results are saved, a host whose registered variable carries an error
\* has failed: no error is registered that the verdict does not know, not even
\* one of an earlier attempt or task (dealRegister).  The converse does not hold:
\* when Merge fails, the result of an earlier attempt stays in the variable.
RegisteredErrorFails ==
    epc = "save" /\ spec.register =>
        \A i \in Slot :
            reg[Host(i)] = "error" => result[i] = "error"

\* Every task that is created is decided: Exec returns.
TaskReturns == epc = "loop" ~> epc = "idle"

\* What the status of the task shows implements the lifecycle of a Task.
Lifecycle == LSpec
=============================================================================
