# Verification of KubeKey

KubeKey runs *playbooks*: Ansible-like YAML programs that are executed on the hosts of
an inventory.  It runs as a command, as a controller manager in a cluster (one executor
pod per playbook), and as a web server that runs playbooks in its own process over an
API server made of files; an installer in the browser (`web-installer/`) configures a
cluster and follows its installation.  This directory holds TLA+ models of its Go code
(`pkg/`, `api/`) and of the installer (`web-installer/*.jsx`), the configurations that
check them with TLC on small instances, and proofs that TLAPS checks for every instance.

    tlc -config Playbook.cfg MCPlaybookExecutor.tla    # one run
    tlc -config Wizard.cfg MCInstallWizard.tla
    tlapm TaskExecutorProofs.tla                       # the proofs of one module

`PROJECT.json` lists components, runs, the source lines of every definition (`map`),
the mutants that show that each property can fail, findings, hazards and theorems.

## Inventory

| Component | State | Operations | What is hard | What makes it correct |
|---|---|---|---|---|
| Playbook executor (`pkg/executor/{playbook,block,role}_executor.go`) | plays, batches and blocks left; `Playbook.Status` | run plays, batches, roles, blocks with rescue/always; sync the status | which errors propagate and which must not; inheritance through three executors; cancellation | always sections run, rescue runs iff main failed, no failure is lost, no host is left out |
| Task executor (`pkg/executor/task_executor.go`) | `Task.Status`, host results, the host's variables `item` and register | run a task on all hosts in parallel, item by item, retry, register, count | goroutines that share variables; API and store failing at every call; retries | the verdict agrees with the last results and with what is saved; no item leaks; retries are bounded |
| Serial batches, tags (`pkg/converter/converter.go`, `api/project/v1/taggable.go`) | none (pure) | `GroupHostBySerial`, `IsEnabled`, `JoinTag` | rounding, clamping, special tags | batches partition the hosts; without special tags a block decides for all that is in it |
| Playbook controller (`pkg/controllers/core`) | Playbook, its pods, finalizer, work queue, two caches | reconcile: pending, running, deletion | stale caches that lag independently, patches without versions, crashes, lost answers | one executor, a verdict with a cause, phases only go forward, a final phase, deletion ends |
| Web manager (`pkg/web/handler`) | `playbookManager`: the cancel functions of the runs | POST, DELETE, run, stop | requests, runs and a map shared between goroutines; users that leave; restarts | the map tells what runs; a stopped run leaves nothing but the task in hand; unique labels |
| Local file storage (`pkg/proxy/internal/file_storage.go`) | a YAML file per object, a revision counter | Create, GuaranteedUpdate, Get, GetList, Delete | no locks: system calls interleave; writes in two steps; kills | exclusive creation, no lost or resurrected objects |
| Install progress (`InstallStep`, `PlaybookLogModal`, `watchPlaybook`, `streamPlaybookLog`) | phase, log, dialog; a polling loop and a log stream | mount, poll, abort, another playbook | answers that get lost, come late, or belong to another playbook | what is shown is real, only goes forward and reaches the end; an abort lasts |
| Node table and inventory (`App`, `NodeSettings`, `ManualAddModal`, `EditNodeModal`; `pkg/web/handler/inventory.go`) | the list of nodes, a debounce timer, a dialog, calls under way; the Inventory | restore, refresh, add, edit, delete, save in three calls, the last of which reads the inventory twice more | overlapping saves, lists of an earlier render, row numbers, failing calls | groups name hosts that are there; the last save wins; no host is lost without a cause |
| Node scan (`NodeScanModal`, `pkg/web/handler/resources.go`) | results, selection, port, credential, statuses | scan, select, verify, add | selection, credential and list change while a call is under way | ok is earned by a check of the machine; the stored credential was checked; nothing is added twice |
| Install wizard and cluster form (`App.goNext`, `ClusterForm`, `InstallPreview`, `schemas-store.jsx`) | step, form, localStorage, config.json, what was installed | next, back, side bar, edit, autosave, preview, install | three stores of one configuration, late answers, moves while goNext works | one goNext; what is installed is what was shown; the button comes back |
| Form data (`jsonToYaml`, `parseYaml`, `setDeep`, `extractDefaults`, `RecentPlaybooks`) | none (pure) | YAML and back, edit, defaults, list of playbooks | values that look like others | an edit changes one field; YAML keeps what it can tell |
| File watcher (`pkg/proxy/internal/watcher.go`) | event channels, deletion markers | watch, stop | bounded channels, several watchers of one marker, shutdown | every event arrives, in order; a stopped watch ends |
| Local API server (`pkg/proxy`) | routes | dispatch, admission | little of its own: a wrapper around `k8s.io/apiserver` | |
| Variables (`pkg/variable`) | remote and runtime variables per host, their files | Get, Merge | copy under lock, host-by-host sync, crash in a write | Merge is all or nothing; a restart reads what was written |
| Cluster API provider (`pkg/controllers/infrastructure`) | KKCluster, KKMachine, Inventory | assign hosts, add and delete nodes | three controllers write the same objects | one machine per host, exclusive groups |
| Playbook webhook (`pkg/controllers/core/playbook_webhook.go`) | service account, binding | admit | two admissions at once | |
| Project loader, modules, connectors, templates, commands | none that matters to control | | I/O, data | |

How they interact: an **executor** walks the plays; for each task it runs a **task
executor**, which stores a `Task` through the API client, reads and merges **variables**
and calls modules over connectors.  Its last act is a status patch.  In a cluster the
**controller** creates the pod in which the executor runs, and executor and controller
both write the playbook's status.  In the web server a goroutine runs the executor, and
the API client talks to the **local API server**, whose registry calls the **file
storage**; handlers and runs share the map of cancel functions.  In the browser the
**wizard** shows the **form**, the **node table** and the **progress** page; form and
table save by themselves, next to what goNext saves, to localStorage and to the web
server, whose playbooks the progress page polls.

## Modules

| Module | Models | Used by |
|---|---|---|
| `TaskLifecycle` | abstract: what a client may see of the status of one Task (`task_types.go`) | refined by `TaskExecutor` |
| `TaskExecutor` | `task_executor.go` | `MCTaskExecutor`, `TaskExecutorProofs` |
| `TaskExecutorProofs` | theorems about `TaskExecutor` | |
| `HostSerial` | `GroupHostBySerial` | `PlaybookExecutor`, `PlayCalls` |
| `Tags` | `IsEnabled`, `JoinTag` | `PlaybookExecutor`, `PlayCalls` |
| `PureCalls` | a pure function as a state machine: a call is an initial state, one step answers it | `PlayCalls`, `NodeCalls`, `FormCalls` |
| `PlayCalls` | calls of `GroupHostBySerial`, and of `JoinTag` and `IsEnabled` | `MCAlgorithms`, `PlaybookExecutorProofs` |
| `PlaybookExecutor` | `playbook_executor.go`, `block_executor.go`, `role_executor.go` | `MCPlaybookExecutor`, `PlaybookExecutorProofs` |
| `PlaybookExecutorProofs` | theorems about `PlaybookExecutor`, `PlayCalls`, `HostSerial` and `Tags` | |
| `PlaybookController` | `playbook_controller.go` and what surrounds it: API server, two caches, work queue, pods | `MCPlaybookController`, `PlaybookControllerProofs` |
| `PlaybookControllerProofs` | theorems about `PlaybookController` | |
| `FileStorage` | `file_storage.go` as system calls of concurrent requests | `WebManager` |
| `WebManager` | `executor.go` and `playbook.go` of the web handlers, over `FileStorage` | `MCWebManager`, `WebManagerProofs` |
| `WebManagerProofs` | theorems about `WebManager` and `FileStorage` | |
| `RunView` | abstract: what a page that follows a playbook promises | refined by `InstallProgress` |
| `InstallProgress` | `InstallStep`, `PlaybookLogModal`, `watchPlaybook`, `streamPlaybookLog` and the server they see | `MCInstallProgress`, `InstallProgressProofs` |
| `InstallProgressProofs` | theorems about `InstallProgress` | |
| `Inventory` | `buildInventory`, `inventoryHostsToNodes`, the merge patch and ListHosts of the inventory handler | `NodeTable`, `NodeCalls` |
| `NodeTable` | the list of nodes and its saves | `MCNodeTable`, `NodeTableProofs` |
| `NodeCalls` | a list of nodes that is saved and loaded again | `MCAlgorithms`, `NodeTableProofs` |
| `NodeTableProofs` | theorems about `NodeTable`, `Inventory`, `NodeCalls` and `FormCalls` | |
| `NodeScan` | `NodeScanModal`, and what `ListIP` and `PreCheckHost` answer it | `MCNodeScan`, `NodeScanProofs` |
| `NodeScanProofs` | theorems about `NodeScan` | |
| `InstallWizard` | the steps, goNext, the form, its stores, the preview | `MCInstallWizard`, `InstallWizardProofs` |
| `InstallWizardProofs` | theorems about `InstallWizard` | |
| `FormData` | reading and editing a field of the form, the list of playbooks | `FormTrees`, `FormCalls` |
| `FormTrees` | YAML of the form and back, defaults of a schema (recursive operators) | `MCAlgorithms` |
| `FormCalls` | calls of the edit and of the list of playbooks | `MCAlgorithms`, `NodeTableProofs` |
| `MCAlgorithms` | all the calls above, YAML and defaults, on all small inputs | |

### TaskExecutor

`epc` is the control point of `Exec`, `pc[i]` that of the goroutine of entry *i* of
`Spec.Hosts`; `task` is the status in memory and `stored` the one in the API server;
`item` and `reg` are the host's variables `item` and `Spec.Register` in the shared store.
`StartAttempt` announces an attempt and starts the goroutines, `Collect` is `wg.Wait`
and the computation of the phase, `Save` the status patch, `LeaveLoop` and `Return` the
ends.  In a goroutine `GetLoop`, `SetItem`, `GetVars`, `RunModule`, `ResetItem` and
`Register` follow `execTaskHost` and `executeModule`.  Each call has a twin in which it
fails.  A module is external: it succeeds or fails.  `when`, `failed_when` and the
templates of the arguments are in that choice, too; the contents of results are data.
`returned` counts what Execs returned; the theorem `StatisticsBalance` is about it.

### PlaybookExecutor

A project is a constant tree of roles, blocks and tasks.  `stack` holds the active lists
of `blockExecutor.Exec`, innermost first, each with what it inherited (`Env`: hosts,
tags, when, ignore_errors); `log` is a history of what was entered, run and failed, and
every property is about it.  A task is one step (its inside is `TaskExecutor`): it runs,
fails, is ignored, is skipped, or is aborted by a failing store, API server or cancelled
context.  `holds` is the valuation of the conditions, chosen at the start.  A panic ends
in `"crashed"`.

### PlaybookController

`pb` and `pods` are in the API server, `cpb` and `cpods` in the caches; `SyncPlaybook`
and each `SyncPod` happen on their own.  `rc`, `base`, `work` and `err` are the local
variables of one Reconcile (there is one worker): `Get`, then `AddFinalizer`,
`ReconcileDelete` or `ReconcileNormal` (with `Create`/`CreateFails`), then the deferred
`Patch`/`PatchFails`.  A patch is a merge patch of the difference of two copies and
carries no version, as in the code.  `StartExec` and `EndExec` are the `kk playbook`
process in the pod, whose `syncStatus` patch may be lost.  One incarnation of one
playbook is modelled; deleting a pod is immediate (no grace period).  `settled` is a
history: no disturbance so far made a reconcile request of its own.

### FileStorage and WebManager

A request of client `c` is a series of system calls: `at[c]` is the next one.  A write
is `Truncate` and `Fill`; between them the file is `"empty"` (which decodes to an object
without a name, no labels and version 0).  Two writers at once may leave it `"garbled"`.
A deletion renames the file under the feet of a writer (`linked`).  The registry of
`k8s.io/apiserver` above is external: it reads an object before it deletes it, and takes
version 0 for NotFound in an update.  In `WebManager`, `Poster(p)`, `Runner(p)` and
`Deleter(d)` are the clients; `manager` is the map of cancel functions and `writing` the
goroutine that is changing it, which a reader without the lock may overtake (`Lookup`)
or be killed by (`MapRace`).  `Kill` ends the process between any two steps.  The
files of tasks are written by their run alone, and read and removed by a deletion: `tasks`
are those that are there, `torn` those that are truncated.  `SendTask` is the creation of
the task in hand and `SendStatus` a patch of its status; `ReadTask`, `OpenTask` and
`FillTask` are the system calls of both.  DeleteAllOf lists the names (`ListTasks`), then
reads file after file (`ListTask`), then removes them (`DeleteTask`, one step: nobody else
removes the file, so that all that counts of it is the renaming).  The
variables under "history" only record who met whom and what was being written at a stop,
and no guard reads them.

### InstallProgress

`run`, `gone` and `requested` are the server; `kind` tells which of the two pages is
mounted, and `name`, `phase`, `log`, `dialog` are its state.  The loop of `watchPlaybook`
for playbook *p* is `poll[p]`: `SendPoll` (the loop head, where the signal is looked at),
`AnswerPoll` at the server, `DeliverPoll` (`onUpdate`) or `LosePoll` (the catch).  The
`AbortController` does not reach a request that is under way, so that an answer may be
delivered after the effect was cleaned up, or after an abort.  `SetPlaybook` is App
setting another playbook: a mounted `InstallStep` keeps its state and gets a new loop.
`handleAbort` is `HandleAbort`, `HandleDelete` at the server, and `AbortDone` or
`AbortFails`.  `aborted`, `switched` and `late` are history.  `RunView` is the abstract
view: live, it only goes forward; after an abort or a change of the playbook it promises
less, and `Mode` says which it is.

### Inventory and NodeTable

`Inventory` holds the pure translations: list of nodes to inventory, merge patch (hosts
are merged, lists of groups replaced), ListHosts, and its items back to nodes.
`NodeTable` has the state of App (`nodes`, `nodesLoaded`, `timer`), the dialog that asks
for deletion with the rows it was opened with, `add` (the modal that waits for the host
check, with the list its render closed over), the two loads and any number of saves.  A
save is `Post` (createInventory, which keeps what exists), `Get` (getInventory, for the
hosts to remove) and patchInventory.  The last one is a series of steps at the server,
between which other saves may take theirs: the handler reads the inventory, merges and
validates (`Patch`); the storage reads it again and makes there the changes that the
handler found against what it had read (`Merge`, with `ApplyChanges`: hosts one by one,
lists of groups as a whole); it writes the outcome, whatever was written meanwhile
(`Write`); and when the host check has ended the same happens for its annotation
(`Check`, `Stamp`).  `obj` is the inventory the server holds for a save.  Calls may fail
before the server has written (`FailGet`, `FailCall`), at the host check, or by a lost
answer.  The creation is one step and a file is read or written in one: what comes of
truncated files is in `FileStorage`; here it would be a failed call.  `FireTimer` starts
the debounced save, `GoNextSaves` that of goNext, which does not wait for the restoration.
`byUser`, `forgotten`, `unsaved`, `crossed` and the fields `alone`, `may` and `met` of a
save are history, for the properties only.

### NodeScan

One scan (`HandleScan`, then `AnswerScan` per entry of the text, or `FailScan`) and one
verification (`HandleVerify`, then `AnswerVerify` or `FailVerify`) may be under way while
the user selects, searches, goes back, edits the credential or closes; the port is edited
where a scan is started.  What a verification asked for travels with it (`verify`);
statuses are merged into those of the moment.  The world is constant: `Accepts` are the
credentials that a machine and port lets in by their secret, `ServerKeys` those whose user
it lets in with a key of the server, `ScanKey` where id_rsa opens the server's own user,
`Local` the addresses of the server, `Known` what the inventories have.  `Finds` and
`Answer` are what ListIP says of them: an address of the server is authorized without a
check, others if id_rsa opens them, and added is a matter of address and port.  `Opens` is
what checkSSHConnect tries: the secret, and every key in the server's .ssh unless the
secret is one.  `tried` (address, port and credential of the checks that a status may rest
on), `scanned` and `changed` are history.

### InstallWizard

The values of the form are the number of the edit that made them.  `next[c]` is a call of
goNext and what it waits for: `NodesSaved`/`NodesFail`, `ConfigSaved`, `ConfigAnswered` at
the first step, `AskCreate`, `Create`/`InstallFails` at the second.  goNext advances from
the step that is shown when it ends (`Advance`), not from the one it began at.  The form is
`Loading` until the schemas are there (`FormLoads`), its `timer` autosaves to `local` and
the server, and getSchemaConfig (`gets`) may answer when the form is gone.  The server
keeps the configuration as a text that no page understands, and without one answers with
an object that is none of the schemas: `Garbage`, which `DeliverGet` writes to
localStorage.  `SelectStep` is the side bar, `Reload` the browser's.  `want`, `late` and
`jumped` are history.

### FormData, FormTrees and the calls

A value is an object (a function from keys) or a leaf with a type and a text.  YAML is a
sequence of lines with indentation, key and text; which texts a comment cuts, quotes
surround or the parser takes for another type is listed on samples.  A schema is a field or
a group, either with a default of its own or none.

The pure algorithms have no state of their own.  `PureCalls` gives them one: `call` is what
was asked, `answer` what came back, and a property relates the two.  `PlayCalls`,
`NodeCalls` and `FormCalls` are specifications of that form over constant sets of inputs,
so that what TLC checks on small sets is proved for all.  What needs RECURSIVE operators
(`FormTrees`) is apart from them, in `MCAlgorithms` only.

## Runs

| Run | Shows | Bounds |
|---|---|---|
| `TaskExecutor_attempts` | `Barrier`, `VerdictSound`, `SavedVerdict`, `ItemIsolation`, refinement of `TaskLifecycle` | two hosts, each without a loop, with an empty one or two items; two retries; two tasks in a row (the second starts on what the first left) |
| `TaskExecutor_faults` | with a failing variable store: `RegisteredErrorFails`, `TaskReturns` | two hosts, one item, one retry |
| `Algorithms` | `BatchesPartition`, `SubtreeSelection`, `YamlKeeps`, `FieldEdits`, `DefaultsSaved`, `RecentIsLatest`, `RolesReturn` | all lists of up to five hosts and three entries of serial (numbers -1 to 3, 30 %, 60 %, 100 %); all sets over two user tags and the special ones; all values of two keys and depth two over twelve sample leaves (three for edits); schemas of two fields or groups of two fields, each with or without a default; lists of up to three playbooks and three nodes |
| `Playbook` | `AlwaysRuns`, `RescueIffFailed`, `EscapeFails`, `HostsCovered` | one project with a role dependency, a block in a block, conditions and tags at several levels; six plays with two batches, no hosts, uneven batches, unfit and zero entries of serial, run_once |
| `Controller` | `OnePodUndisturbed`, `VerdictHasCause`, `Settles`, `DeletionEnds` | two pods, one disturbance (failing call, restart, lost pod or report, stray request); crashes of pods and lag of the caches are unbounded |
| `Web` | `MapTellsRuns`, `StoppedLeavesNothing`, `LabelClashes` | two POST requests (two names and one label, in either order, or one name), one DELETE request, one task per run |
| `Progress` | `ShownIsReal`, `AbortLasts`, `EndIsShown`, refinement of `RunView` | two playbooks, one deletion, one line of log each; lost and late answers are unbounded |
| `Nodes` | `GroupsResolve`, `LastSaveWins`, `LossHasCause` | two machines, three host names, two saves at a time, up to two nodes when one is added, two operations of the user, two failing calls |
| `Nodes_wipe` | **violation** of `HostsKept` | the same, no operation of the user, one failing call |
| `Scan` | `OkIsEarned`, `CredentialsHold`, `AddedAreNew` | three machines (one of them the server), two ports, two credentials, two entries that overlap, two scans, two changes of credential, port or list |
| `Wizard` | `OneNext`, `InstallPageHasInstall`, `ConfigIsInstalled`, `PreviewIsSent`, `NextReturns` | one edit, two moves of the user (back, side bar, reload), two calls of goNext and two of getSchemaConfig at a time, one installation, one failing call |
| `Wizard_precheck` | **violation** of `PrecheckStops` | the same |

Why the bounds are enough for the cases that matter: two hosts are the least that share
the barrier and the verdict, and two tasks the least between which something can leak;
two retries distinguish first, middle and last attempts.  Two batches are the least in
which a failure must stop what comes later, a block in a block the least in which an
inner rescue or always can hide an outer failure.  Two pods are the least that can be
one too many, and a single disturbance already gives every counterexample the project
reports.  Two requests for creation and one for deletion are the least for a name that
is used again, and for every pair of system calls of two of their goroutines.  Two
playbooks are the least that a page can mix up; two saves the least that overlap, and
two machines the least of which one is lost and one stays; the moves, the edit and the
fault of the wizard suffice for a goNext that ends on another step than it began at, for
a form that is gone when its answers come, and for two stores that differ.  What grows
with the number of hosts, retries, pods, disturbances, playbooks, nodes, saves, machines
or credentials is proved, not only checked, where the section on proofs says so.

`CHECK_DEADLOCK FALSE` is set where the system may stop: all tasks of `MaxTasks` run, a
playbook settled, all requests answered, all inputs of a pure algorithm tried, all moves
that a bound allows made, the modal closed.

The type invariants (`TypeOK`) are proved for every component that has a state, and left
out of the configurations, which keep to what could be wrong.

### Disagreements found by runs

* `Nodes_wipe`: when the list of nodes cannot be restored at the start, the empty list is
  taken for the truth and the autosave removes every host of the inventory.  The user does
  nothing in this run, so that this is the only way.  A refresh guards against it.  A click
  on Next before the list is restored does the same; `LossHasCause` says which other ways
  there are to lose a host.
* `Wizard_precheck`: the page means to keep the user on the form when the checks of the
  configuration fail (422), but the error that `request` throws has no status, so that
  goNext goes on to the preview.

### Liveness and fairness

* `TaskReturns`: the process is scheduled and its calls return (weak fairness of `Exec`
  and of each goroutine); that modules return is a separate assumption
  (`ModulesReturn`), for the code sets no deadline on them.
* `Settles`, `DeletionEnds`: the worker runs, informers catch up, delayed retries fire,
  owned pods of a deleted playbook are collected and containers run to an end.  Nothing
  that disturbs is fair: crashes, restarts, lost pods, deletions by users.
  Both properties except playbooks with two pods, which nobody reports on.
* `EndIsShown`: timers fire, requests end, answers are delivered (weak fairness), and a
  server that is asked again and again answers some time (strong fairness of
  `AnswerPoll`); `watchPlaybook` asks every interval for ever, whatever fails.  Users are
  not fair.
* `NextReturns`: every call of goNext comes to an end, well or not, and the promise of the
  schemas does (weak fairness of `Goes` and `LoadSchemas`).
* `Nodes_wipe` and `Wizard_precheck` are checked under the fairness of timers and calls,
  so that their counterexamples are complete behaviours.  `Web`, `Scan` and `Nodes` have
  safety properties only.

## Proofs

### Task executor

`TaskExecutorProofs` proves about `TaskExecutor`, for every inventory, host list, set of
loops and number of retries:

| Theorem | Statement |
|---|---|
| `TypeCorrect` | `Spec => []TypeOK` |
| `BarrierHolds` | `Spec => []Barrier` |
| `VerdictIsSound` | `Spec => []VerdictSound` |
| `VerdictIsSaved` | `Spec => []SavedVerdict` |
| `RetriesAreBounded` | `Spec => []RetryBound` |
| `StatisticsBalance` | `Spec => []StatsBalance` |
| `ItemsAreIsolated` | `[]ItemIsolation` for a store that does not fail and hosts listed once |
| `RegisteredErrorsFail` | `[]RegisteredErrorFails` for hosts listed once |
| `ImplementsLifecycle` | `Spec => Lifecycle` (refinement of `TaskLifecycle`) |
| `TaskAdvances` | while `Exec` runs every step lowers its `Rank`, or leaves it and brings one goroutine nearer to its end |

`RetryBound`, `StatsBalance` and the measure of `TaskAdvances` are theorems only, without a
run.

Assumptions: those the modules declare for their constants (`HostsAssumption`,
`LoopsAssumption`, `BoundsAssumption`, `LifecycleAssumption`), which the runs evaluate,
for `RegisteredErrorsFail` that no host is listed twice, and for `ItemsAreIsolated` also that
the variable store does not fail: TLC refutes `ItemIsolation` with
`HostList <- MCDuplicates`, and when the reset of an item fails.

The argument.  `Typed` adds to the types that a goroutine with an item in hand has one
left (`LoopShape`).  `Ended` says that during an attempt a goroutine that has ended has
left a result; without it `Barrier` is not inductive, since `Collect` only waits for the
goroutines.  `ExecInv` conjoins `Barrier` and `RetryBound` with what holds at each
control point (`StatusFits`: in the loop memory and store agree, in `save` the store is
one phase behind), with what the phase says of the results (`PhaseFits`) and with what a
verdict says of the status (`VerdictFits`).  `VerdictSound` and `SavedVerdict` follow from
it, and the refinement proof uses `StatusFits` to map each save to a step of the
lifecycle.  `StatsBalance` is inductive given what `ExecInv` says of verdict and phase at `Return`.
`ItemInv` says that the store's `item` of a host is the head of what its goroutine has
left, between set and reset; it is inductive because distinct goroutines have distinct
hosts.  `RegisterInv` is `RegisteredErrorFails` for goroutines that have ended, while others
still run: what an earlier task registered counts only until a goroutine has
overwritten it or failed to, and a failure to is a failure of the host.

`TaskAdvances` is the part of `TaskReturns` that is no matter of fairness.  `Rank` counts the
stations of `Exec` that are left (three per attempt, by the retries that `RetryBound` bounds,
and the return), `Left` the control points of a goroutine that knows its items; both are
natural numbers (`Measures`).  A retry that was not counted, or an item that was not taken
off, would break it.

### Playbook controller

`PlaybookControllerProofs` proves about `PlaybookController`, for every number of pods and
of disturbances (`BoundsAssumption` is all it assumes):

| Theorem | Statement |
|---|---|
| `TypeCorrect` | `Spec => []TypeOK` |
| `PhaseForwardHolds` | `Spec => PhaseForward` |
| `PodsAfterRunningHolds` | `Spec => []PodsAfterRunning` |
| `VerdictHasCauseHolds` | `Spec => []VerdictHasCause` |
| `OnePodUndisturbedHolds` | `Spec => []OnePodUndisturbed` |
| `NothingForgottenHolds` | `Spec => []NothingForgotten`: with nothing queued, no retry waiting and the caches up to date, the playbook is over, or an executor works on it, or it has two pods |

The argument.  Patches carry no version, so that everything hangs on how far a copy may
be behind when it is written back.  `PhasesLag` gives the bound: what Reconcile read is
behind the cache, the cache behind the API server, and the API server at most one phase
ahead of each; and once a pod was created all three know `Running`, so that the final phase,
which needs a pod, cannot be met by a patch from `Pending`.  With `WorkFits` (Reconcile
is at most one phase ahead of what it read) and `PodsLag` (the cache knows only pods
that were created) it is inductive, and gives `PhaseForward` and `PodsAfterRunning`.
`CauseInv` says of every copy of the phase what `VerdictHasCause` says of the one in the
API server, and of the phase of a pod how its executor ended.

A second pod takes a reconcile request that is handled while the cache shows no pod but a
playbook that wants one (`Wants`).  `SinglePod` says that there is none: such a request
comes from an event of the playbook, and `NoNews` shows that the cache, once there is a
pod, has nothing to learn of a playbook that still wants one; or from a retry, and without
disturbances an error occurs in deletions only.  That a playbook being deleted, or gone,
wants no pod in any copy is `DeletionInv`: deletion reaches the copies from newest to
oldest, and the finalizer keeps the playbook until Reconcile has read of its deletion.
TLC checked the four parts as invariants, with two disturbances, before they were proved.

`NothingForgotten` is what `Settles` and `DeletionEnds` rest on: no wake-up is lost.
`WakeInv` strengthens it by what holds while Reconcile is at work: as long as nothing is
queued it works on what the cache has, and if that is still true and it has nothing to
write, all is at rest (`NothingReported`, `DeleteRests`, `NormalRests`).  Everything else
leaves an event behind: a pod that changes cannot become what the cache has already
(`PodNews`, from `PodsLag`), nor a playbook that is patched (`PatchNews`), nor one that the
user deletes (`DeletionNews`); and an error leaves a retry.  TLC checked `WakeInv` with the
bounds of `Controller` first.  `PhaseForward`, `PodsAfterRunning` and `NothingForgotten` are
theorems only, without a run.

### Install progress

`InstallProgressProofs` proves about `InstallProgress`, for every number of playbooks,
deletions and lines (`NAssumption`, `LinesAssumption`):

| Theorem | Statement |
|---|---|
| `TypeCorrect` | `Spec => []TypeOK` |
| `ShownIsRealHolds` | `Spec => []ShownIsReal` |
| `AbortLastsHolds` | `Spec => []AbortLasts` |
| `ImplementsViewHolds` | `Spec => ImplementsView` (refinement of `RunView`) |

The argument.  What is shown comes from answers, so `AnswersReal` says that every answer
on its way is a phase its playbook had; `OneLoop` that until App sets another playbook
only the loop and the stream of the mounted one are alive; `InOrder` that an answer on its
way is not behind what an undisturbed page shows, since there is one request at a
time and the server only goes forward.  `Aborts` says that an abort under way has
sent its request, so that a deletion that succeeded was one of this playbook.  `Closed`
and `Named` tie the state of the view to what is mounted.  `IInv` conjoins these with
`TypeOK` and the properties; each action has a lemma of its own.  For the refinement, each
kind of step maps to one of `RunView` or to a stutter: polls to `Look`, `LookBack` or
`LookMixed` depending on the mode.

### Node table

`NodeTableProofs` proves about `NodeTable` and `Inventory`, for every list of names,
machines, number of saves and of faults (`NodeTableAssumption`, and `InventoryAssumption`:
names have an order), and about the calls of `NodeCalls` and `FormCalls`, for any inputs:

| Theorem | Statement |
|---|---|
| `TypeCorrect` | `Spec => []TypeOK` |
| `GroupsResolveHolds` | `[]GroupsResolve`, if the initial inventories resolve (`MCInitialInv` does): unless the server wrote from an inventory that another save had replaced |
| `LastSaveWinsHolds` | `Spec => []LastSaveWins` |
| `LossHasCauseHolds` | `Spec => LossHasCause` |
| `RolesComeBack` | a list of nodes with names of their own comes back from the inventory with its machines, names and roles, but that masters are both when there is no worker |
| `RolesAlwaysReturn` | `NodeCallsSpec => []RolesReturn` |
| `FieldAlwaysEdits` | `FormCallsSpec => []FieldEdits` |
| `RecentIsAlwaysLatest` | `FormCallsSpec => []RecentIsLatest` |

The argument.  What each call of a save does to the others and to the server is summed up
once (`NextCall`, `MovesOn`, `EndsCall`, `WritesCall`).  For the groups: what
`buildInventory` makes resolves (`BuildResolves`), and a merge patch cannot remove a host
that it names, whatever was there before and whatever list is patched in (`MergeResolves`).
`GroupsInv` says of what the server holds for a save that no write of another one came
since (`met`): what it read is still there, so that the changes make of it what the handler
validated, and what it will write resolves.  So that invariant needs to know nothing of
the page.  The other two follow the saves that meet no other one (`Fresh`): `AloneIsAlone`
says that there is none next to such a save, `AloneIsTrue` that it carries the list of the
page, that what it will remove is what the inventory has beyond that list, and that what
the server writes for it is the list (`PatchIsList`).  For `LossHasCause`, `CoverInv`
says that whatever a save carries, and whatever the inventory has, or the server holds for
any save, once the list was restored (`Held`), is in the list or was given up by the user
or by the page; and that a save that is alone takes from the inventory only what it may.
`RolesComeBack` rests on the lemma `FilterElements`; `RolesAlwaysReturn` is that theorem of
whatever list is saved and loaded.

For the form (values of any depth, paths of any length, keys of any names but the indices of
characters): a walk along a path is a recursive function, for reading from its first key on
and for `SetDeep` from its last key back.  `AlongMade` and `EditSets` say that the edit leaves its value at
the end of the path, `PathsPart` that two paths of which none is a prefix of the other have a
first key in which they differ, and `EditKeeps` that from there the edit is not seen.  A
path that ends in the middle of a text, or passes through it, is the reason why the keys are
no indices: `{...v}` of a text copies its characters.  For the list of playbooks `Picked`
says what is shown when so many of the sorted list have been looked at: playbooks of types
of their own, each the newest of its type, and a type is missing only when the list is full
of newer ones (`PickNext`).
`NodeCallsAssumption` and `FormCallsAssumption` say what the inputs are: nodes with names of
their own, none of them `localhost`, and sequences.

### Node scan

`NodeScanProofs` proves about `NodeScan`, for all machines, ports, credentials, keys, texts and
bounds (`ScanAssumption`):

| Theorem | Statement |
|---|---|
| `TypeCorrect` | `Spec => []TypeOK` |
| `OkIsEarnedHolds` | `Spec => []OkIsEarned` |
| `CredentialsHoldAlways` | `Spec => CredentialsHold` |
| `AddedAreNewAlways` | `Spec => AddedAreNew` |

The argument.  `OkIsEarned` is not inductive: `VerifyEarned` adds that a verification under
way is a check of what it asked for and that what it did not ask for is earned already,
`FoundTrue` that the server opens what the results call authorized, with the port of the
scan that is shown (`AuthorizedOpens`, from what `ScanAssumption` says of id_rsa: it is one
of the keys), `SelectedEarned` that the results do not change under a selection, so that
what was authorized when it was confirmed still is when a verification leaves it out, and
`CallsOK` the types of calls under way.  The two action properties are about one action,
`HandleAuthConfirm`.  `CredentialsHold` follows from `OkIsEarned`, which names a check of
that machine; `AddedAreNew` needs that a scan finds the machines that an inventory has with
its port as added (`KnownAreAdded`), and that what is selected was not in the list when the
selection was confirmed (`SelectedAreNew`).

### Install wizard

`InstallWizardProofs` proves about `InstallWizard`, for any number of calls, edits, moves and
faults (`WizardAssumption`):

| Theorem | Statement |
|---|---|
| `TypeCorrect` | `Spec => []TypeOK` |
| `OneNextHolds` | `Spec => []OneNext` |
| `InstallPageHasInstallHolds` | `Spec => []InstallPageHasInstall` |
| `ConfigIsInstalledAlways` | `Spec => ConfigIsInstalled` |
| `PreviewIsSentAlways` | `Spec => PreviewIsSent` |
| `NextAdvances` | while goNext is at work every step leaves it as it is, ends it or brings it nearer to its end, and none starts it anew |

The argument.  `OneNext` is inductive.  What is installed is what was typed because of where
the value is while goNext works: `WantKept` says that it is in the form and in what
clusterSaveRef would save until the nodes are saved, and in localStorage from then on,
when the form that could write there again is on its way out; `SaveRefTrue` that what
clusterSaveRef would save is what the form shows.  `PreviewTrue` says the same of the
preview and localStorage, but for what goNext of the first step stored since.  All of it
holds because goNext of the first step finds the user there (`StepsInOrder`), unless the
side bar was used.  `NextAdvances` is the part of `NextReturns` that is no matter of
fairness: `Ahead` counts the calls of the API that goNext can still make, and with `OneNext`
the one at work cannot be replaced by another.

### Playbook executor

`PlaybookExecutorProofs` proves about `PlaybookExecutor`, for every project (`TreeAssumption`,
`ForestAssumption`), every list of plays (`PlaysAssumption`), all conditions, tags, faults
and cancellations, and about the calls of `PlayCalls`, for all hosts, entries of serial and
tags (`PlayCallsAssumption`):

| Theorem | Statement |
|---|---|
| `TypeCorrect` | `Spec => []TypeOK` |
| `EscapeFailsHolds` | `Spec => []EscapeFails` |
| `RescueIffFailedHolds` | `Spec => []RescueIffFailed` |
| `AlwaysRunsHolds` | `Spec => []AlwaysRuns` |
| `HostsCoveredHolds` | `Spec => []HostsCovered` |
| `SelectionHolds` | `Spec => []Selective`: a task runs only if its tags and those of all it is in are asked for, nothing it is in is skipped, and all conditions on the way to it hold |
| `SerialCuts` | whenever `GroupHostBySerial` returns batches, they cut the hosts from the first to the last, in order, each once |
| `BatchesAlwaysPartition` | `PlayCallsSpec => []BatchesPartition`: and none of them is empty, and each has the size that was asked for |
| `SubtreeSelected` | `PlayCallsSpec => []SubtreeSelection`: a block that is skipped, or whose tags are asked for, decides for all tasks in it that `always` and `never` do not concern |

`Selective` is stated in the proofs only; no run has it as a property.  Project and plays
are not bounded: `TreeAssumption` says what the fields of a node hold, that a block has a
main section (`block_executor.go` takes an entry for a block because of it) and that roles
have neither rescue nor always; `ForestAssumption` that a node is in one section or in a
play, since an entry that is used twice is loaded twice.  The tree may even be infinite or
go in circles: nothing here needs that it ends.

The argument.  Six kinds of steps are left of all actions on the stack (`Forward`, `Fails`,
`Enters`, `Rescues`, `Cleans`, `Returns`; `ExecSteps`), and each invariant is proved for
those.  `Typed` and `Path` say what the stack is: a path in the project, on which a frame
executes its own list, which its node's section tells.  With it a frame that ends knows
where its failure goes, by what `FailedSections` says of its node (`FailsIn`).  `Heard`
says of every failure in the history and of every section it ends that the consequence has
come, or that a frame on the stack still carries it; `Caused` is the converse: a frame
that failed, and every rescue, has a failure in the history that ends its section.
`EscapeFails` and `RescueIffFailed` are these two when the stack is empty.  `Cleaned` says
of a block that was entered that it is being executed, with nothing outside of it since
(`Open`), or that its always section was started (`Closed`).  `Inherited` says that what an
executor passes on is what it is in, no more and no less.  `Covering` adds up the hosts in
the history and those of the batches left; that they are the hosts of the play when it
starts is `SerialCuts`, and that batches never get lost after it is a step by step
argument about `Covered`.

For the batches of `PlayCalls`, `BatchesFit` computes from `Sizes` where each batch begins and
how long it is, by cases of the entry it takes its size from (one of its own, or the last
one), and `FlattenedCuts` that batches that cut the hosts are the hosts when they are put
together.

Some notions of the models are recursive functions: `Enclosing` and `FailedSections`, the
sums and batches of `HostSerial`, `Covered`, `Filter` of `Inventory`, `GetDeep`, `SetDeep` and
`Recent` of `FormData`.  A recursive
function is a CHOOSE, so that a fact about it needs that there is such a function.  For
numbers and sequences `FollowsExists` shows it, by induction over numbers; for the two
over the tree, which may have no end, `LeastSolution` shows it by taking the smallest sets
that are closed under the equation.  Induction is had from `NatLessThanWellFounded` and
`WFMin`, which speak of sets and not of operators (`LeastNumber`, `InductionUpTo`).

### Web manager

`WebManagerProofs` proves about `WebManager`, for any POST and DELETE requests
(`WebAssumption`) and any order of the system calls of the file storage:

| Theorem | Statement |
|---|---|
| `TypeCorrect` | `Spec => []TypeOK` |
| `MapTellsRunsHolds` | `Spec => []MapTellsRuns` |
| `LabelClashesHolds` | `Spec => []LabelClashes` |
| `StoppedLeavesNothingHolds` | `Spec => []StoppedLeavesNothing` |

The argument.  What any system call does is summed up once (`CallEffect`, `StepMoves`), so
that the invariants only distinguish reading, opening, filling and removing a file.
`Base` says that requests and runs of one name which could disturb each other know of it
(`met`, `alive`), and with that gives `MapTellsRuns`.  `Calls` says which system call each
goroutine can be at, on which file and with which object.  `Race` is about a playbook
without a rival and whose file was not removed: nobody else writes into its file, its own
run writes nothing but it, opens the file only as long as it is there, and fills it when it
is empty.  `Listing` says what a request that lists the playbooks has found, or will find,
of an earlier one with its label; it gives `LabelClashes`.  `Stopped` follows a deletion:
what was removed does not come back while its run cannot write any more, and the one
deletion of that name takes all its tasks but the one that was being written at the stop
(`Cleared`); a truncated file, which the list misses, can be no other (`TornOwn`,
`InFlight`).

Proof attempts corrected two properties, whose cases the run's two requests and one
deletion cannot reach: `LabelClashes` left out runs of one name that write over each other
while a third request has their label, and `StoppedLeavesNothing` two DELETE requests for one
name, of which one is answered before the other one has deleted the tasks (`OnlyDelete`).

### What stays with TLC

* Liveness (`TaskReturns`, `Settles`, `DeletionEnds`, `EndIsShown`, `NextReturns`) and
  anything with ENABLED, which the prover does not handle.
  What they rest on is proved: that nothing goes in circles (`TaskAdvances` for `TaskReturns`,
  `NextAdvances` for `NextReturns`), that nothing is forgotten (`NothingForgottenHolds` for
  `Settles` and `DeletionEnds`), and for `EndIsShown` that a loop of polls that has ended has
  shown the end (`ShownIsRealHolds`).
* `YamlKeeps` and `DefaultsSaved`: `JsonToYaml`, `ParseYaml` and `ExtractDefaults` recur over
  values of any depth.  They are RECURSIVE operators, and what they compute would need an
  induction over data, which the prover cannot instantiate.

Every other property of a passing run is a theorem.

## Disagreements seen without a run

The first ones are stated by a definition that TLC refutes when it is added to the
configuration named; the others were seen while modelling and need no more than one look
at the code.

* `OnePod` (`Controller.cfg`): a request that is handled before the cache shows the new pod
  makes a second executor pod, since pods are looked up in the cache and created under a
  generated name (`playbook_controller.go:206`); line 143 says "should only one pod for
  playbook", and from then on both are ignored.
* `FinalizerGuards` (`Controller.cfg`): an empty pod list from the cache lets the finalizer
  go while an executor works (`playbook_controller.go:183`); `playbook_types.go:29` says
  "will be removed after the Playbook is completed".
* `ReasonIsTerminal` (`Controller.cfg`): a transient error leaves `FailureReason` on a
  playbook that then succeeds (`playbook_controller.go:107`); `playbook_types.go` speaks of
  a terminal problem.
* `DeleteStops` (`Web.cfg`): a DELETE that comes before the run is registered is answered ok
  and the run goes on without its playbook (`executor.go:107`, against `playbook.go:256`).
* `DeletesAllTasks` (`Web.cfg`): the status patch of a task that is under way when its run
  is stopped brings the task back after DeleteAllOf, or hides it from the list
  (`task_executor.go:130`, `file_storage.go:552`); `playbook.go:256` says "deletes all related
  tasks".  `StoppedLeavesNothing` says that it can be no other task.
* `GroupsAlwaysResolve` (`Nodes.cfg`): of two saves that overlap one takes n2 away, the
  other one adds n3 and writes the groups with n2, from an inventory it had read before
  (`inventory.go:82` and `:160`, without lock or resource version).  A group then names a
  host that is gone; `GroupsResolve` says that this takes a write from an inventory which
  another save had replaced.
* `TypedOpens` (`Scan.cfg`): a wrong password is verified if any key in the server's .ssh
  opens the machine (`resources.go:651`), and stored; a run tries the password and id_rsa
  only (`ssh_connector.go:129`).  `resources.go:727` says "check input ssh information".
* `SerialArrayGroups` (`Algorithms.cfg`): with entries of `serial` left over, a batch is
  empty or the slice bounds panic (`converter.go:127`, against `002-playbook.md:42`).
* `IgnoreErrorsCovers` (`Playbook.cfg` with `IgnoreNodes`, `IgnoreTree` and `IgnorePlays` of
  `MCPlaybookExecutor`, no cancellation and no faults): `ignore_errors` of a play, role or
  block reaches no task (`converter.go:53`, against `002-playbook.md:44`).
* `SpecialTagsObeyed` (`Algorithms.cfg`): with `--skip-tags all` or `tagged` a task tagged
  `always` is skipped, the test of the special case being inverted (`taggable.go:60`), and
  so it is with `--skip-tags always`; a task tagged `never` runs when no tags are asked for
  (`taggable.go:42`).  `docs/en/framework/002-playbook.md:40` says that `always` always
  executes and `never` never does.  `SubtreeSelection` is silent about them.
* `ItemIsolation` (`TaskExecutor_attempts.cfg` with `HostList <- MCDuplicates`): host lists
  are not deduplicated (`variable_get.go:42`), and a host that is listed twice runs modules
  with items of its other goroutine.
* `AbortSticks` (`Progress.cfg`): a poll that was answered before an abort shows Running
  again after it; `AbortLasts` says that this is the only way.

* `taggable.go:48`: `--tags tagged` selects untagged tasks.
* `task_executor.go:113`: `runTaskLoop` has no deadline, though its comment says "until it
  completes or times out".
* `role_executor.go:50`: `run_once` of a role is ignored (`003-role.md:25`).
* `web/handler/playbook.go:53`: the schema label "must be unique among playbooks" is
  checked by a list before the creation: two requests at once both pass, and a list that
  comes upon a playbook whose status is being written does not see it.
  `LabelClashes` says that these are the only ways.
* `file_storage.go:189`: Create "fails if key already exists" by a stat before the write;
  two creators of one name may both pass it.  `file_storage.go:97`: "incrementing it
  atomically", but the file is written outside the lock.
* A kill of the web server in the middle of a write leaves an empty file.  The object has
  no name then, so the web server can never delete it, nor create another one.
* A restart of the web server, or a failure before `Exec`, leaves a playbook Pending for
  ever.  A user who leaves during DELETE, or a second DELETE, leaves tasks behind.
* `watcher.go:246`: the bookmark that ends the initial events can overtake them;
  `watcher.go:285`: `Stop` keeps `run` from closing the result channel; a watch of all
  namespaces sees no file events, one of a namespace gets no initial ones.
* `inventory_controller.go:423`: every machine without a provider gets the first host;
  line 214: control-plane and worker groups "should be mutually exclusive" and need not
  be.  `kkcluster_controller.go:208`: the pruning of groups changes a copy.
* `api.jsx:60` and `cluster-form.jsx:29`: getSchemaConfig answers with a text, so that a
  saved configuration is never restored from the server, and without one with an object
  that ends up in localStorage in its place.
* `cluster-form.jsx:226` and `yaml-utils.jsx:4`: what the form writes as YAML it does not
  read back: arrays, empty texts, texts with a `#`, quotes or the look of a number;
  `YamlKeeps` says that nothing else changes.
* `modals.jsx:500`: nodes are stored with the credential the form has now, which may have
  been edited after the verification (`CredentialsHold` says when not).
* `node-settings.jsx:29`: the rows to delete are numbers; a list that is restored or
  refreshed under the open dialog has other machines there.
* `app.jsx:259`: of two nodes with one host name only the later one reaches the inventory.
* `variable.go:219`: a Merge that reports an error may have merged some hosts;
  `source/file.go:72`: variables read back after a restart go into a nil map.

## Plan

Done: the task executor with its lifecycle and proofs; the playbook executor over the
two pure algorithms; the controller with its proofs; the web manager over the file
storage; the installer: progress, node table over the inventory handler, scan, wizard,
form data; and the proofs above.  Left, in this order:

1. **FileWatcher**: the incoming and the result channel, file events, deletion markers,
   several watchers, `Stop`.  Abstract specification: the sequence of events of a key that
   a consumer may see; composed with `FileStorage`, which then gets the revision counter
   and the markers.
2. **VariableStore**: `Merge` with its copy, host-by-host synchronisation, failing writes,
   crash and restart; refinement of an atomic store; composed with `TaskExecutor`'s use.
3. **InventoryController, KKCluster, KKMachine**: the assignment of hosts to machines,
   playbooks of an owner seen through a stale cache, add-node and delete-node playbooks,
   two controllers writing one Inventory.
4. The **webhook** (two admissions at once); the host check playbook that the **inventory
   handler** starts on a PATCH (so far: it may find host names, `checked`); the check for
   **import cycles** (`pkg/utils/graph.go`) against a reference definition.
5. Proofs: every safety property of a run is a theorem, but the two of `FormTrees`.  Left are
   the refinements of the modules above.

## Not modelled

* Templates, YAML conversion, gathering of facts, modules, connectors: data and I/O.  To
  the models a module succeeds or fails, a template renders or not.
* The local API server's routing and admission: a wrapper around a library.
* Log files and variable directories of playbooks (DELETE also removes those of a
  successor of the same name), pages of lists, directories of the store.
* The project loader: what it loads is the constant `Tree` of `PlaybookExecutor`.
* Of the installer: toasts, tweaks, icons and layout; the highlighting of the YAML editor;
  the contents of the built-in schema (`fallback-schema.jsx`, a constant of which
  `InstallWizard` knows that it names no playbook); `api/client.js`, which no page loads.
  Architectures and the status a connection check shows are data of a node, and so are
  ports, but for the scan.  The inventories of the server do not change during a scan.
  Two tabs of the installer at once are not modelled.
* Commands, options, documentation, build files.
