------------------------- MODULE TaskExecutorProofs -------------------------
(***************************************************************************)
(* Theorems about TaskExecutor, for every inventory, host list, loop and   *)
(* number of retries.                                                      *)
(***************************************************************************)
EXTENDS TaskExecutor, TLAPS

\* A goroutine that works on an item has one.
LoopShape ==
    \A i \in Slot :
        pc[i] \in {"item", "vars", "module", "reset"} => todo[i] # << >>

\* The phase in memory agrees with the results of the hosts.
PhaseFits ==
    /\ task.phase = "Success" => \A i \in Slot : result[i] = "ok"
    /\ task.phase = "Ignored" => spec.ignore
    /\ task.phase = "Failed"  => ~ spec.ignore /\ \E i \in Slot : result[i] = "error"

\* What holds of the status at each control point of Exec.
StatusFits ==
    /\ epc = "loop" => /\ stored = task
                       /\ task.phase \notin {"None", "Running"}
                       /\ verdict = "none"
    /\ epc = "run"  => /\ stored = task
                       /\ task.phase = "Running"
                       /\ verdict = "none"
    /\ epc = "save" => /\ stored = [task EXCEPT !.phase = "Running"]
                       /\ task.phase \in {"Success", "Failed", "Ignored"}
                       /\ verdict = "none"
    /\ epc = "return" => verdict # "none"

\* What an Exec that returns, or has returned, decided.
VerdictFits ==
    /\ verdict = "ok" => stored = task /\ IsSucceed(task)
    /\ verdict = "run_failed" => stored = task /\ IsFailed(spec, task)

ExecInv == /\ Barrier
           /\ PhaseFits
           /\ StatusFits
           /\ VerdictFits
           /\ RetryBound

-----------------------------------------------------------------------------
(* Lemmas *)

\* The slots of a task, and the host of each.
LEMMA SlotHost == /\ HostList \in [Slot -> Hosts]
                  /\ Slot = 1..Len(HostList)
  BY HostsAssumption DEF Slot

\* The tail and the head of the items left, for every sequence of items.
LEMMA HeadTail ==
  ASSUME NEW l \in Seq(Item), l # << >>
  PROVE  Head(l) \in Item /\ Tail(l) \in Seq(Item)
  OBVIOUS

\* After an item there is another one, or the results are registered.
LEMMA NextItemFacts ==
  ASSUME NEW l
  PROVE  /\ NextItem(l) \in {"item", "register"}
         /\ NextItem(l) = "item" => l # << >>
  BY DEF NextItem

-----------------------------------------------------------------------------
(* Type correctness *)

\* Every variable keeps its type; a goroutine that is in its loop has an item
\* left, so that Head and Tail apply; Exec returns something.
Typed == TypeOK /\ LoopShape /\ (epc = "return" => verdict # "none")

LEMMA TypedInit == Init => Typed
  BY LifecycleAssumption, SlotHost
  DEF Init, LInit, Typed, TypeOK, LoopShape, Status, Phase, TaskSpec, Item,
      HostPc, Verdict, Outcome

LEMMA TypedStep == Typed /\ [Next]_vars => Typed'
<1> SUFFICES ASSUME Typed, [Next]_vars PROVE Typed'
  OBVIOUS
<1> USE LifecycleAssumption, SlotHost, NextItemFacts
<1> USE DEF Typed, TypeOK, LoopShape, HostPc, Verdict, Outcome, evars, hvars
<1>1. CASE Create
  BY <1>1 DEF Create, TaskSpec, Status, Phase
<1>2. CASE CreateFails
  BY <1>2 DEF CreateFails
<1>3. CASE StartAttempt
  <2>1. task' \in Status
    BY <1>3 DEF StartAttempt, Announced, IsComplete, IsFailed, Status, Phase, TaskSpec
  <2> QED BY <1>3, <2>1 DEF StartAttempt
<1>4. CASE StartAttemptFails
  <2>1. task' \in Status
    BY <1>4 DEF StartAttemptFails, Announced, IsComplete, IsFailed, Status, Phase, TaskSpec
  <2> QED BY <1>4, <2>1 DEF StartAttemptFails
<1>5. CASE Collect
  BY <1>5 DEF Collect, ResultPhase, Status, Phase
<1>6. CASE Save
  BY <1>6 DEF Save, SavePatch
<1>7. CASE SaveFails
  BY <1>7 DEF SaveFails
<1>8. CASE LeaveLoop
  BY <1>8 DEF LeaveLoop
<1>9. CASE Return
  <2>1. stats' \in [total : Nat, success : Nat, ignored : Nat, failed : Nat]
    <3>1. /\ stats.total + 1 \in Nat
          /\ stats.success + (IF task.phase = "Success" THEN 1 ELSE 0) \in Nat
          /\ stats.ignored + (IF task.phase = "Ignored" THEN 1 ELSE 0) \in Nat
          /\ stats.failed + (IF task.phase = "Failed" THEN 1 ELSE 0) \in Nat
      BY SMTT(30)
    <3> QED BY <1>9, <3>1 DEF Return, Counted
  <2>2. returned' \in [Outcome -> Nat]
    BY <1>9 DEF Return, Outcome
  <2> QED BY <1>9, <2>1, <2>2 DEF Return
<1>10. ASSUME NEW i \in Slot, OwnStep(i) \/ RunModule(i) PROVE Typed'
  <2>1. CASE GetLoop(i)
    <3> PICK l \in Loops : /\ todo' = [todo EXCEPT ![i] = l]
                           /\ pc' = [pc EXCEPT ![i] = NextItem(l)]
      BY <2>1 DEF GetLoop
    <3>1. l \in Seq(Item)
      BY LoopsAssumption DEF Item
    <3> QED BY <2>1, <3>1 DEF GetLoop
  <2>2. CASE GetLoopFails(i)
    BY <2>2 DEF GetLoopFails
  <2>3. CASE SetItem(i)
    <3>1. Head(todo[i]) \in Item
      BY <2>3, HeadTail DEF SetItem
    <3>2. item' \in [Hosts -> Item]
      BY <2>3, <3>1 DEF SetItem, MergeItem
    <3> QED BY <2>3, <3>2 DEF SetItem
  <2>4. CASE SetItemFails(i)
    <3>1. Tail(todo[i]) \in Seq(Item)
      BY <2>4, HeadTail DEF SetItemFails
    <3> QED BY <2>4, <3>1 DEF SetItemFails
  <2>5. CASE GetVars(i)
    <3>1. item[Host(i)] \in Item
      BY DEF Host
    <3> QED BY ZenonT(40), <2>5, <3>1 DEF GetVars
  <2>6. CASE ResetItem(i)
    <3>1. Tail(todo[i]) \in Seq(Item)
      BY <2>6, HeadTail DEF ResetItem
    <3>2. item' \in [Hosts -> Item]
      BY <2>6 DEF ResetItem, MergeItem, ResetValue, Item
    <3> QED BY <2>6, <3>1, <3>2 DEF ResetItem
  <2>7. CASE ResetItemFails(i)
    <3>1. Tail(todo[i]) \in Seq(Item)
      BY <2>7, HeadTail DEF ResetItemFails
    <3> QED BY <2>7, <3>1 DEF ResetItemFails
  <2>8. CASE Register(i)
    BY <2>8 DEF Register, Host, HostFailed
  <2>9. CASE RegisterFails(i)
    BY <2>9 DEF RegisterFails
  <2>10. CASE RunModule(i)
    BY <2>10 DEF RunModule
  <2> QED
    BY <1>10, <2>1, <2>2, <2>3, <2>4, <2>5, <2>6, <2>7, <2>8, <2>9, <2>10 DEF OwnStep
<1>11. CASE UNCHANGED vars
  BY <1>11 DEF vars
<1> QED
  BY <1>1, <1>2, <1>3, <1>4, <1>5, <1>6, <1>7, <1>8, <1>9, <1>10, <1>11
  DEF Next, ExecStep

\* Type correctness of the executor.
THEOREM TypeCorrect == Spec => []TypeOK
<1>1. Typed => TypeOK
  BY DEF Typed
<1> QED BY TypedInit, TypedStep, <1>1, PTL DEF Spec

-----------------------------------------------------------------------------
(* The verdict of Exec *)

LEMMA ExecInit == Init => ExecInv
  BY LifecycleAssumption
  DEF Init, LInit, ExecInv, Barrier, PhaseFits, StatusFits, VerdictFits,
      RetryBound, TaskSpec

\* A goroutine only runs while execTask waits for it, and leaves the status alone.
LEMMA HostStepExec ==
  ASSUME Typed, ExecInv, NEW i \in Slot, OwnStep(i) \/ RunModule(i)
  PROVE  ExecInv'
<1> USE DEF Typed, TypeOK, ExecInv
<1>1. pc[i] # "exit"
  BY DEF OwnStep, RunModule, GetLoop, GetLoopFails, SetItem, SetItemFails, GetVars,
         ResetItem, ResetItemFails, Register, RegisterFails
<1>2. epc = "run"
  BY <1>1 DEF Barrier
<1>3. UNCHANGED <<spec, stored, epc, task, verdict>>
  BY DEF evars, OwnStep, RunModule, GetLoop, GetLoopFails, SetItem, SetItemFails,
         GetVars, ResetItem, ResetItemFails, Register, RegisterFails
<1>4. task.phase = "Running"
  BY <1>2 DEF StatusFits
<1> QED
  BY <1>2, <1>3, <1>4 DEF Barrier, PhaseFits, StatusFits, VerdictFits, RetryBound

\* A slot has ended only with a result.
Ended == \A i \in Slot : epc = "run" /\ pc[i] = "exit" => result[i] # "none"

LEMMA EndedInit == Init => Ended
  BY DEF Init, Ended

LEMMA EndedStep == Typed /\ Ended /\ [Next]_vars => Ended'
<1> SUFFICES ASSUME Typed, Ended, [Next]_vars PROVE Ended'
  OBVIOUS
<1> USE DEF Typed, TypeOK, Ended, evars, hvars
<1>1. CASE ExecStep
  BY <1>1 DEF ExecStep, Create, CreateFails, StartAttempt, StartAttemptFails,
              Collect, Save, SaveFails, LeaveLoop, Return
<1>2. ASSUME NEW i \in Slot, OwnStep(i) \/ RunModule(i) PROVE Ended'
  <2>1. CASE Register(i)
    BY <2>1 DEF Register
  <2>2. CASE RegisterFails(i)
    BY <2>2 DEF RegisterFails
  <2>3. ASSUME ~ Register(i), ~ RegisterFails(i)
        PROVE  /\ pc' = [pc EXCEPT ![i] = pc'[i]]
               /\ pc'[i] # "exit"
               /\ UNCHANGED <<result, epc>>
    BY ZenonT(40), <1>2, <2>3, NextItemFacts
    DEF OwnStep, RunModule, GetLoop, GetLoopFails, SetItem, SetItemFails, GetVars,
        ResetItem, ResetItemFails
  <2> QED BY <2>1, <2>2, <2>3
<1>3. CASE UNCHANGED vars
  BY <1>3 DEF vars
<1> QED BY <1>1, <1>2, <1>3 DEF Next

LEMMA ExecStepInv == Typed /\ Ended /\ ExecInv /\ [Next]_vars => ExecInv'
<1> SUFFICES ASSUME Typed, Ended, ExecInv, [Next]_vars PROVE ExecInv'
  OBVIOUS
<1> USE LifecycleAssumption
<1> USE DEF Typed, TypeOK, ExecInv, hvars, Verdict, Outcome, TaskSpec, Status, Phase,
            Barrier, PhaseFits, StatusFits, VerdictFits, RetryBound
<1>1. CASE Create
  BY <1>1 DEF Create
<1>2. CASE CreateFails
  BY <1>2 DEF CreateFails
<1>3. CASE StartAttempt
  BY <1>3 DEF StartAttempt, Announced, IsComplete, IsFailed
<1>4. CASE StartAttemptFails
  BY <1>4 DEF StartAttemptFails, Announced, IsComplete, IsFailed
<1>5. CASE Collect
  <2>1. \A i \in Slot : pc[i] = "exit" /\ result[i] \in {"ok", "error"}
    BY <1>5 DEF Collect, AllDone, Ended
  <2>2. /\ task' = [task EXCEPT !.phase = ResultPhase]
        /\ epc' = "save"
        /\ UNCHANGED <<spec, stored, verdict, result, pc>>
    BY <1>5 DEF Collect
  <2>3. PhaseFits'
    BY <2>1, <2>2 DEF ResultPhase
  <2>4. StatusFits' /\ VerdictFits' /\ RetryBound'
    <3>1. ResultPhase \in {"Success", "Failed", "Ignored"}
      BY DEF ResultPhase
    <3>2. epc = "run"
      BY <1>5 DEF Collect
    <3>3. stored = task /\ task.phase = "Running" /\ verdict = "none"
      BY <3>2
    <3>4. task' \in Status /\ task'.phase = ResultPhase /\ task'.restart = task.restart
      BY <2>2, <3>1
    <3>5. [task' EXCEPT !.phase = "Running"] = task
      BY <2>2, <3>3
    <3> QED BY <2>2, <3>1, <3>3, <3>4, <3>5
  <2> QED BY <2>1, <2>2, <2>3, <2>4
<1>6. CASE Save
  BY <1>6 DEF Save, SavePatch
<1>7. CASE SaveFails
  BY <1>7 DEF SaveFails
<1>8. CASE LeaveLoop
  BY <1>8 DEF LeaveLoop, IsComplete
<1>9. CASE Return
  BY <1>9 DEF Return
<1>10. ASSUME NEW i \in Slot, OwnStep(i) \/ RunModule(i) PROVE ExecInv'
  BY <1>10, HostStepExec
<1>11. CASE UNCHANGED vars
  BY <1>11 DEF vars, evars
<1> QED
  BY <1>1, <1>2, <1>3, <1>4, <1>5, <1>6, <1>7, <1>8, <1>9, <1>10, <1>11
  DEF Next, ExecStep

LEMMA ExecInvariant == Spec => [](Typed /\ Ended /\ ExecInv)
<1>1. Init => Typed /\ Ended /\ ExecInv
  BY TypedInit, EndedInit, ExecInit
<1>2. Typed /\ Ended /\ ExecInv /\ [Next]_vars => (Typed /\ Ended /\ ExecInv)'
  BY TypedStep, EndedStep, ExecStepInv
<1> QED BY <1>1, <1>2, PTL DEF Spec

\* No result of a task is computed or saved before every host has ended.
THEOREM BarrierHolds == Spec => []Barrier
<1>1. ExecInv => Barrier
  BY DEF ExecInv
<1> QED BY <1>1, ExecInvariant, PTL

\* What Exec returns agrees with the results of the hosts and with the retries.
THEOREM VerdictIsSound == Spec => []VerdictSound
<1>1. Typed /\ ExecInv => VerdictSound
  BY DEF Typed, TypeOK, ExecInv, VerdictSound, VerdictFits, PhaseFits, RetryBound,
         IsSucceed, IsFailed, Status, TaskSpec
<1> QED BY <1>1, ExecInvariant, PTL

\* A verdict that is not an API error is the one the API server has.
THEOREM VerdictIsSaved == Spec => []SavedVerdict
<1>1. ExecInv => SavedVerdict
  BY DEF ExecInv, SavedVerdict, VerdictFits, IsComplete
<1> QED BY <1>1, ExecInvariant, PTL

\* RestartCount never exceeds Retries, in memory and in the API server.
THEOREM RetriesAreBounded == Spec => []RetryBound
<1>1. ExecInv => RetryBound
  BY DEF ExecInv
<1> QED BY <1>1, ExecInvariant, PTL

-----------------------------------------------------------------------------
(* Statistics *)

LEMMA StatsStep ==
  Typed /\ ExecInv /\ StatsBalance /\ [Next]_vars => StatsBalance'
<1> SUFFICES ASSUME Typed, ExecInv, StatsBalance, [Next]_vars PROVE StatsBalance'
  OBVIOUS
<1>a. /\ stats.total \in Nat /\ stats.success \in Nat
      /\ stats.ignored \in Nat /\ stats.failed \in Nat
      /\ \A o \in Outcome : returned[o] \in Nat
  BY DEF Typed, TypeOK
<1>1. CASE Return
  <2>1. stats' = Counted /\ returned' = [returned EXCEPT ![verdict] = @ + 1]
    BY <1>1 DEF Return
  <2>2. verdict \in Outcome
    BY <1>1 DEF Return, Verdict, Typed, TypeOK
  <2>3. CASE verdict = "ok"
    <3>1. task.phase \in {"Success", "Ignored"}
      BY <2>3 DEF ExecInv, VerdictFits, IsSucceed
    <3>2. /\ stats'.total = stats.total + 1 /\ stats'.failed = stats.failed
          /\ \/ stats'.success = stats.success + 1 /\ stats'.ignored = stats.ignored
             \/ stats'.success = stats.success /\ stats'.ignored = stats.ignored + 1
      BY <1>a, <2>1, <3>1 DEF Counted
    <3>3. /\ returned'["ok"] = returned["ok"] + 1
          /\ returned'["run_failed"] = returned["run_failed"]
          /\ returned'["api_error"] = returned["api_error"]
      BY <2>1, <2>3 DEF Outcome, Typed, TypeOK
    <3> QED BY <1>a, <3>2, <3>3 DEF Outcome, StatsBalance
  <2>4. CASE verdict = "run_failed"
    <3>1. task.phase = "Failed"
      BY <2>4 DEF ExecInv, VerdictFits, IsFailed
    <3>2. /\ stats'.total = stats.total + 1 /\ stats'.failed = stats.failed + 1
          /\ stats'.success = stats.success /\ stats'.ignored = stats.ignored
      BY <1>a, <2>1, <3>1 DEF Counted
    <3>3. /\ returned'["ok"] = returned["ok"]
          /\ returned'["run_failed"] = returned["run_failed"] + 1
          /\ returned'["api_error"] = returned["api_error"]
      BY <2>1, <2>4 DEF Outcome, Typed, TypeOK
    <3> QED BY <1>a, <3>2, <3>3 DEF Outcome, StatsBalance
  <2>5. CASE verdict = "api_error"
    <3>1. /\ stats'.total = stats.total + 1
          /\ stats'.failed \in {stats.failed, stats.failed + 1}
          /\ stats'.success \in {stats.success, stats.success + 1}
          /\ stats'.ignored \in {stats.ignored, stats.ignored + 1}
          /\ \/ stats'.success = stats.success /\ stats'.ignored = stats.ignored
             \/ stats'.failed = stats.failed /\ stats'.ignored = stats.ignored
             \/ stats'.success = stats.success /\ stats'.failed = stats.failed
      BY <1>a, <2>1 DEF Counted
    <3>2. /\ returned'["ok"] = returned["ok"]
          /\ returned'["run_failed"] = returned["run_failed"]
          /\ returned'["api_error"] = returned["api_error"] + 1
      BY <2>1, <2>5 DEF Outcome, Typed, TypeOK
    <3> QED BY <1>a, <3>1, <3>2 DEF Outcome, StatsBalance
  <2> QED BY <2>2, <2>3, <2>4, <2>5 DEF Outcome
<1>2. CASE UNCHANGED <<stats, returned>>
  BY <1>2 DEF StatsBalance
<1>3. Return \/ UNCHANGED <<stats, returned>>
  BY DEF Next, ExecStep, OwnStep, vars, evars, hvars, Create, CreateFails,
         StartAttempt, StartAttemptFails, Collect, Save, SaveFails, LeaveLoop,
         GetLoop, GetLoopFails, SetItem, SetItemFails, GetVars, RunModule, ResetItem,
         ResetItemFails, Register, RegisterFails
<1> QED BY <1>1, <1>2, <1>3

\* Status.Statistics balances with what the Execs of the playbook returned.
THEOREM StatisticsBalance == Spec => []StatsBalance
<1>1. Init => StatsBalance
  BY DEF Init, StatsBalance, Outcome
<1> QED BY <1>1, StatsStep, ExecInvariant, PTL DEF Spec

-----------------------------------------------------------------------------
(* The loop item *)

\* No host is listed twice.
DistinctHosts == \A i, j \in Slot : Host(i) = Host(j) => i = j

\* The item variable of a host belongs to the goroutine of its only slot.
ItemInv ==
    \A i \in Slot :
        /\ pc[i] \in {"exit", "get", "item", "register"} => item[Host(i)] = NoItem
        /\ pc[i] \in {"vars", "module", "reset"} => item[Host(i)] = Head(todo[i])
        /\ pc[i] = "module" => seen[i] = Head(todo[i])

LEMMA ItemInit == Init => ItemInv
  BY SlotHost DEF Init, ItemInv, Host

LEMMA ItemStep ==
  ASSUME DistinctHosts, ~ VariableMayFail
  PROVE  Typed /\ ExecInv /\ ItemInv /\ [Next]_vars => ItemInv'
<1> SUFFICES ASSUME Typed, ExecInv, ItemInv, [Next]_vars PROVE ItemInv'
  OBVIOUS
<1> USE SlotHost, NextItemFacts
<1> USE DEF Typed, TypeOK, ItemInv
<1>1. CASE StartAttempt
  <2>1. \A i \in Slot : pc[i] = "exit"
    BY <1>1 DEF StartAttempt, ExecInv, Barrier
  <2> QED BY <1>1, <2>1 DEF StartAttempt
<1>2. CASE UNCHANGED hvars
  BY <1>2 DEF hvars
<1>3. ASSUME NEW i \in Slot, OwnStep(i) \/ RunModule(i) PROVE ItemInv'
  <2>1. \A j \in Slot : j # i => Host(j) \notin MergeHosts(i)
    BY DEF MergeHosts, DistinctHosts
  <2>2. CASE GetLoop(i)
    BY <2>2 DEF GetLoop
  <2>3. CASE SetItem(i)
    <3>1. CASE Head(todo[i]) = NoItem
      BY <2>3, <3>1 DEF SetItem, MergeItem
    <3>2. CASE Head(todo[i]) # NoItem
      <4>1. /\ item'[Host(i)] = Head(todo[i])
            /\ \A j \in Slot : j # i => item'[Host(j)] = item[Host(j)]
        BY <2>1, <2>3, <3>2 DEF SetItem, MergeItem, MergeHosts, Host
      <4> QED BY ZenonT(40), <2>3, <4>1 DEF SetItem
    <3> QED BY <3>1, <3>2
  <2>4. CASE GetVars(i)
    BY <2>4 DEF GetVars
  <2>5. CASE RunModule(i)
    BY <2>5 DEF RunModule
  <2>6. CASE ResetItem(i)
    <3>1. CASE Head(todo[i]) = NoItem
      BY <2>6, <3>1 DEF ResetItem, MergeItem
    <3>2. CASE Head(todo[i]) # NoItem
      <4>1. /\ item'[Host(i)] = NoItem
            /\ \A j \in Slot : j # i => item'[Host(j)] = item[Host(j)]
        BY <2>1, <2>6, <3>2 DEF ResetItem, MergeItem, MergeHosts, ResetValue, Host
      <4> QED BY ZenonT(40), <2>6, <4>1 DEF ResetItem
    <3> QED BY <3>1, <3>2
  <2>7. CASE Register(i)
    BY <2>7 DEF Register
  <2> QED
    BY <1>3, <2>2, <2>3, <2>4, <2>5, <2>6, <2>7
    DEF OwnStep, GetLoopFails, SetItemFails, ResetItemFails, RegisterFails
<1>4. StartAttempt \/ UNCHANGED hvars \/ \E i \in Slot : OwnStep(i) \/ RunModule(i)
  BY DEF Next, ExecStep, vars, Create, CreateFails, StartAttemptFails, Collect, Save,
         SaveFails, LeaveLoop, Return
<1> QED BY <1>1, <1>2, <1>3, <1>4

\* On distinct hosts, and while the variable store works, a module only ever
\* sees the loop item it runs for.
THEOREM ItemsAreIsolated ==
  ASSUME DistinctHosts, ~ VariableMayFail
  PROVE  Spec => []ItemIsolation
<1>1. ItemInv => ItemIsolation
  BY DEF ItemInv, ItemIsolation
<1>2. Typed /\ ExecInv /\ ItemInv /\ [Next]_vars => ItemInv'
  BY ItemStep
<1> QED BY <1>1, <1>2, ItemInit, ExecInvariant, PTL DEF Spec

-----------------------------------------------------------------------------
(* The registered variable *)

\* A slot that has ended has overwritten what its host had registered, or failed.
RegisterInv ==
    epc \in {"run", "save"} /\ spec.register =>
        \A i \in Slot :
            pc[i] = "exit" /\ reg[Host(i)] = "error" => result[i] = "error"

LEMMA RegisterStep ==
  ASSUME DistinctHosts
  PROVE  Typed /\ RegisterInv /\ [Next]_vars => RegisterInv'
<1> SUFFICES ASSUME Typed, RegisterInv, [Next]_vars PROVE RegisterInv'
  OBVIOUS
<1> USE SlotHost, NextItemFacts
<1> USE DEF Typed, TypeOK, RegisterInv
<1>1. CASE StartAttempt
  BY <1>1 DEF StartAttempt
<1>2. CASE Collect
  BY <1>2 DEF Collect, hvars
<1>3. CASE Create \/ CreateFails \/ StartAttemptFails \/ Save \/ SaveFails \/ LeaveLoop \/ Return
  BY <1>3 DEF Create, CreateFails, StartAttemptFails, Save, SaveFails, LeaveLoop, Return
<1>4. ASSUME NEW i \in Slot, OwnStep(i) \/ RunModule(i) PROVE RegisterInv'
  <2>1. UNCHANGED <<epc, spec>>
    BY <1>4 DEF evars, OwnStep, RunModule, GetLoop, GetLoopFails, SetItem, SetItemFails, GetVars,
         ResetItem, ResetItemFails, Register, RegisterFails
  <2>2. \A j \in Slot : j # i => Host(j) # Host(i)
    BY DEF DistinctHosts
  <2>3. CASE Register(i)
    <3>1. /\ pc' = [pc EXCEPT ![i] = "exit"]
          /\ result' = [result EXCEPT ![i] = IF HostFailed(i) THEN "error" ELSE "ok"]
          /\ spec.register =>
               reg' = [reg EXCEPT ![Host(i)] = IF itemErr[i] THEN "error" ELSE "ok"]
      BY <2>3 DEF Register, Registers
    <3>2. spec.register /\ reg'[Host(i)] = "error" => result'[i] = "error"
      BY <3>1 DEF HostFailed, Host
    <3>3. spec.register => \A j \in Slot : j # i => reg'[Host(j)] = reg[Host(j)]
      BY ZenonT(40), <2>2, <3>1 DEF Host
    <3> QED BY <2>1, <3>1, <3>2, <3>3 DEF Host
  <2>4. CASE RegisterFails(i)
    BY <2>1, <2>4 DEF RegisterFails, Host
  <2>5. ASSUME ~ Register(i), ~ RegisterFails(i)
        PROVE  /\ pc' = [pc EXCEPT ![i] = pc'[i]] /\ pc'[i] # "exit"
               /\ UNCHANGED <<result, reg>>
    BY ZenonT(40), <1>4, <2>5
    DEF OwnStep, RunModule, GetLoop, GetLoopFails, SetItem, SetItemFails, GetVars,
        ResetItem, ResetItemFails
  <2> QED BY <2>1, <2>3, <2>4, <2>5 DEF Host
<1>5. CASE UNCHANGED vars
  BY <1>5 DEF vars, evars, hvars, Host
<1> QED BY <1>1, <1>2, <1>3, <1>4, <1>5 DEF Next, ExecStep

\* RegisteredErrorFails: on distinct hosts, a host whose registered variable
\* carries an error has failed, whatever calls fail and whatever earlier tasks
\* and attempts registered.
THEOREM RegisteredErrorsFail ==
  ASSUME DistinctHosts
  PROVE  Spec => []RegisteredErrorFails
<1>1. Init => RegisterInv
  BY DEF Init, RegisterInv
<1>2. Typed /\ RegisterInv /\ [Next]_vars => RegisterInv'
  BY RegisterStep
<1>3. ExecInv /\ RegisterInv => RegisteredErrorFails
  BY DEF ExecInv, Barrier, RegisterInv, RegisteredErrorFails
<1> QED BY <1>1, <1>2, <1>3, ExecInvariant, PTL DEF Spec

-----------------------------------------------------------------------------
(* The executor implements the lifecycle of a task *)

LEMMA LifecycleStep == Typed /\ Ended /\ ExecInv /\ [Next]_vars => [LNext]_lvars
<1> SUFFICES ASSUME Typed, ExecInv, [Next]_vars PROVE [LNext]_lvars
  OBVIOUS
<1> USE DEF Typed, TypeOK, Status, Phase
<1>1. CASE Create
  BY <1>1 DEF Create, LNext, LCreate
<1>2. CASE StartAttempt
  <2>1. stored = task /\ task.phase \notin {"None", "Running"} /\ UNCHANGED spec
    BY <1>2 DEF StartAttempt, ExecInv, StatusFits
  <2>2. CASE task.phase = "Failed"
    <3>1. task.restart < spec.retries
      BY <1>2, <2>2 DEF StartAttempt, IsComplete, IsFailed, TaskSpec
    <3>2. stored' = [phase |-> "Running", restart |-> stored.restart + 1]
      BY <1>2, <2>1, <2>2 DEF StartAttempt, Announced
    <3> QED BY <2>1, <2>2, <3>1, <3>2 DEF LNext, LRetry
  <2>3. CASE task.phase # "Failed"
    <3>1. stored.phase = "Pending"
      BY <1>2, <2>1, <2>3 DEF StartAttempt, IsComplete, IsSucceed
    <3>2. stored' = [stored EXCEPT !.phase = "Running"]
      BY <1>2, <2>1, <2>3 DEF StartAttempt, Announced
    <3> QED BY <2>1, <3>1, <3>2 DEF LNext, LStart
  <2> QED BY <2>2, <2>3
<1>3. CASE Save
  <2>1. /\ stored = [task EXCEPT !.phase = "Running"]
        /\ task.phase \in {"Success", "Failed", "Ignored"}
        /\ stored' = task /\ UNCHANGED spec
    BY <1>3 DEF Save, SavePatch, ExecInv, StatusFits
  <2>2. task = [stored EXCEPT !.phase = task.phase]
    BY <2>1
  <2>3. task.phase \in {"Success", IF spec.ignore THEN "Ignored" ELSE "Failed"}
    BY <2>1 DEF ExecInv, PhaseFits
  <2> QED BY <2>1, <2>2, <2>3 DEF LNext, LFinish
<1>4. Create \/ StartAttempt \/ Save \/ UNCHANGED lvars
  BY DEF Next, ExecStep, OwnStep, lvars, vars, CreateFails, StartAttemptFails,
         Collect, SaveFails, LeaveLoop, Return, GetLoop, GetLoopFails, SetItem,
         SetItemFails, GetVars, RunModule, ResetItem, ResetItemFails, Register,
         RegisterFails
<1> QED BY <1>1, <1>2, <1>3, <1>4

\* What the API server shows of a task implements TaskLifecycle.
THEOREM ImplementsLifecycle == Spec => Lifecycle
<1>1. Init => LInit
  BY DEF Init
<1>2. Typed /\ Ended /\ ExecInv /\ [Next]_vars => [LNext]_lvars
  BY LifecycleStep
<1> QED BY <1>1, <1>2, ExecInvariant, PTL DEF Spec, Lifecycle, LSpec

-----------------------------------------------------------------------------
(* Every step of an Exec brings its end nearer *)

\* How far Exec is from its end: three stations (run, save, loop) for the attempt
\* that goes on and for every retry left, then the return.
Rank ==
    LET left == 3 * (spec.retries - task.restart) IN
    CASE epc = "idle"   -> 0
      [] epc = "return" -> 1
      [] epc = "run"    -> left + 4
      [] epc = "save"   -> left + 3
      [] epc = "loop"   -> IF IsComplete(spec, task) THEN 2
                           ELSE IF task.phase = "Failed" THEN left + 2
                           ELSE left + 5

\* The control points left to a goroutine that knows its items.
Left(i) ==
    LET items == 4 * Len(todo[i]) IN
    CASE pc[i] = "exit"     -> 0
      [] pc[i] = "register" -> 1
      [] pc[i] = "item"     -> items + 1
      [] pc[i] = "vars"     -> items
      [] pc[i] = "module"   -> items - 1
      [] pc[i] = "reset"    -> items - 2

\* A goroutine learns its items, or has fewer control points left.
Nearer(i) ==
    /\ pc'[i] # "get"
    /\ pc[i] # "get" => Left(i)' < Left(i)

\* A step of Exec, or one of a goroutine while Exec and the others stand still.
Advances ==
    \/ Rank' < Rank
    \/ /\ Rank' = Rank
       /\ \E i \in Slot : /\ Nearer(i)
                          /\ \A j \in Slot \ {i} :
                               pc'[j] = pc[j] /\ todo'[j] = todo[j]

\* Both measures are natural numbers: nothing comes nearer forever.
LEMMA Measures ==
  ASSUME Typed, ExecInv
  PROVE  Rank \in Nat /\ \A i \in Slot : pc[i] # "get" => Left(i) \in Nat
<1>1. spec.retries - task.restart \in Nat
  BY LifecycleAssumption
  DEF Typed, TypeOK, ExecInv, RetryBound, TaskSpec, Status
<1>2. Rank \in Nat
  <2>1. epc \in {"idle", "loop", "run", "save", "return"}
    BY DEF Typed, TypeOK
  <2> QED BY <1>1, <2>1 DEF Rank
<1>3. ASSUME NEW i \in Slot, pc[i] # "get" PROVE Left(i) \in Nat
  <2>1. pc[i] \in HostPc /\ Len(todo[i]) \in Nat
    BY DEF Typed, TypeOK
  <2>2. pc[i] \in {"item", "vars", "module", "reset"} => Len(todo[i]) > 0
    BY DEF Typed, TypeOK, LoopShape
  <2> QED BY <1>3, <2>1, <2>2 DEF Left, HostPc
<1> QED BY <1>2, <1>3

\* A step of Exec goes to the next station; only a retry goes back to the first,
\* and it is paid for by RestartCount.
LEMMA ExecAdvances ==
  ASSUME Typed, Ended, ExecInv, ExecStep, epc # "idle"
  PROVE  Rank' < Rank
<1> DEFINE left == spec.retries - task.restart
<1>1. /\ spec.retries \in Nat /\ task.restart \in Nat
      /\ left \in Nat
  BY LifecycleAssumption
  DEF Typed, TypeOK, ExecInv, RetryBound, TaskSpec, Status
<1>2. CASE StartAttempt
  <2>1. /\ epc = "loop" /\ ~ IsComplete(spec, task)
        /\ epc' = "run" /\ task'.restart = Announced.restart /\ spec' = spec
    BY <1>2 DEF StartAttempt
  <2>2. Rank = IF task.phase = "Failed" THEN 3 * left + 2 ELSE 3 * left + 5
    BY <2>1 DEF Rank
  <2>3. Rank' = 3 * (spec.retries - Announced.restart) + 4
    BY <2>1 DEF Rank
  <2> QED BY <1>1, <2>2, <2>3 DEF Announced
<1>3. CASE StartAttemptFails
  <2>1. /\ epc = "loop" /\ ~ IsComplete(spec, task) /\ epc' = "return"
    BY <1>3 DEF StartAttemptFails
  <2>2. Rank' = 1 /\ Rank > 1
    BY <1>1, <2>1 DEF Rank
  <2> QED BY <2>2, Measures
<1>4. CASE Collect
  BY <1>1, <1>4 DEF Collect, Rank, Typed, TypeOK, Status
<1>5. CASE Save
  <2>1. epc = "save" /\ epc' = "loop" /\ UNCHANGED <<spec, task>>
    BY <1>5 DEF Save
  <2>2. task.phase \in {"Success", "Failed", "Ignored"}
    BY <2>1 DEF ExecInv, StatusFits
  <2>3. IsComplete(spec, task) \/ task.phase = "Failed"
    BY <2>2 DEF IsComplete, IsSucceed
  <2>4. Rank = 3 * left + 3 /\ Rank' \in {2, 3 * left + 2}
    BY <2>1, <2>3 DEF Rank, IsComplete, IsFailed, IsSucceed
  <2> QED BY <1>1, <2>4
<1>6. CASE SaveFails
  BY <1>1, <1>6 DEF SaveFails, Rank
<1>7. CASE LeaveLoop
  BY <1>7 DEF LeaveLoop, Rank
<1>8. CASE Return
  BY <1>8 DEF Return, Rank
<1> QED
  BY <1>2, <1>3, <1>4, <1>5, <1>6, <1>7, <1>8 DEF ExecStep, Create, CreateFails

\* A step of a goroutine goes on to its next control point or to its next item.
LEMMA HostAdvances ==
  ASSUME Typed, NEW i \in Slot, OwnStep(i) \/ RunModule(i)
  PROVE  /\ Nearer(i)
         /\ \A j \in Slot \ {i} : pc'[j] = pc[j] /\ todo'[j] = todo[j]
         /\ Rank' = Rank
<1> DEFINE n == Len(todo[i])
<1>1. /\ pc \in [Slot -> HostPc] /\ todo \in [Slot -> Seq(Item)]
      /\ todo[i] \in Seq(Item) /\ n \in Nat
  BY DEF Typed, TypeOK
<1>2. todo[i] # << >> => /\ n > 0
                         /\ Tail(todo[i]) \in Seq(Item)
                         /\ Len(Tail(todo[i])) = n - 1
  BY <1>1
<1>3. pc[i] \in {"item", "vars", "module", "reset"} => todo[i] # << >>
  BY DEF Typed, LoopShape
<1>4. UNCHANGED <<spec, epc, task>>
  BY DEF OwnStep, evars, GetLoop, GetLoopFails, SetItem, SetItemFails, GetVars,
         RunModule, ResetItem, ResetItemFails, Register, RegisterFails
<1>5. Rank' = Rank
  BY <1>4 DEF Rank, IsComplete, IsFailed, IsSucceed
<1>6. CASE GetLoop(i) \/ GetLoopFails(i)
  <2>1. /\ pc[i] = "get" /\ pc'[i] # "get"
        /\ \A j \in Slot \ {i} : pc'[j] = pc[j] /\ todo'[j] = todo[j]
    BY <1>1, <1>6 DEF GetLoop, GetLoopFails, NextItem
  <2> QED BY <1>5, <2>1 DEF Nearer
<1>7. CASE SetItemFails(i) \/ ResetItem(i) \/ ResetItemFails(i)
  <2>1. /\ pc[i] \in {"item", "reset"}
        /\ todo' = [todo EXCEPT ![i] = Tail(todo[i])]
        /\ pc' = [pc EXCEPT ![i] = NextItem(Tail(todo[i]))]
    BY <1>7 DEF SetItemFails, ResetItem, ResetItemFails
  <2>2. /\ todo'[i] = Tail(todo[i]) /\ pc'[i] \in {"item", "register"}
        /\ \A j \in Slot \ {i} : pc'[j] = pc[j] /\ todo'[j] = todo[j]
    BY <1>1, <2>1, NextItemFacts
  <2>3. n > 0 /\ Len(todo'[i]) = n - 1
    BY <1>2, <1>3, <2>1, <2>2
  <2>4. Left(i) \in {4 * n + 1, 4 * n - 2} /\ Left(i)' \in {4 * (n - 1) + 1, 1}
    BY <2>1, <2>2, <2>3 DEF Left
  <2>5. Left(i)' < Left(i)
    BY <1>1, <2>3, <2>4
  <2> QED BY <1>5, <2>2, <2>5 DEF Nearer
<1>8. CASE SetItem(i) \/ GetVars(i) \/ RunModule(i)
  <2>1. /\ todo' = todo
        /\ pc' = [pc EXCEPT ![i] = pc'[i]]
        /\ \/ pc[i] = "item" /\ pc'[i] = "vars"
           \/ pc[i] = "vars" /\ pc'[i] \in {"module", "reset"}
           \/ pc[i] = "module" /\ pc'[i] = "reset"
    BY <1>1, <1>8 DEF SetItem, GetVars, RunModule
  <2>2. Left(i)' < Left(i)
    BY <1>1, <2>1 DEF Left
  <2> QED BY <1>1, <1>5, <2>1, <2>2 DEF Nearer
<1>9. CASE Register(i) \/ RegisterFails(i)
  <2>1. /\ pc[i] = "register" /\ pc'[i] = "exit" /\ todo' = todo
        /\ \A j \in Slot \ {i} : pc'[j] = pc[j]
    BY <1>1, <1>9 DEF Register, RegisterFails
  <2>2. Left(i)' < Left(i)
    BY <2>1 DEF Left
  <2> QED BY <1>5, <2>1, <2>2 DEF Nearer
<1> QED BY <1>6, <1>7, <1>8, <1>9 DEF OwnStep

\* While Exec runs, no step goes in circles: each lowers the rank of Exec, or
\* leaves it and brings one goroutine nearer to its end.  A retry that was not
\* counted, or an item that was not taken off, would break it.  It is what makes
\* TaskReturns true once the scheduler and the modules do their part.
THEOREM TaskAdvances == Spec => [][epc # "idle" => Advances]_vars
<1>1. Typed /\ Ended /\ ExecInv /\ [Next]_vars => [epc # "idle" => Advances]_vars
  <2> SUFFICES ASSUME Typed, Ended, ExecInv, Next, epc # "idle" PROVE Advances
    OBVIOUS
  <2>1. CASE ExecStep
    BY <2>1, ExecAdvances DEF Advances
  <2>2. ASSUME NEW i \in Slot, OwnStep(i) \/ RunModule(i) PROVE Advances
    BY <2>2, HostAdvances DEF Advances
  <2> QED BY <2>1, <2>2 DEF Next
<1> QED BY <1>1, ExecInvariant, PTL DEF Spec
=============================================================================
