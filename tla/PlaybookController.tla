------------------------- MODULE PlaybookController -------------------------
(***************************************************************************)
(* pkg/controllers/core/playbook_controller.go: how the controller manager *)
(* moves one Playbook from creation to its end and through its deletion.   *)
(* It reads playbook and pods from two informer caches that lag behind the *)
(* API server, each on its own, and writes with merge patches that carry   *)
(* no resource version.  The playbook itself runs in an executor pod,      *)
(* which writes the final phase (playbookExecutor.syncStatus).             *)
(***************************************************************************)
EXTENDS Naturals, FiniteSets

CONSTANTS
    MaxPods,         \* bound: pods created
    MaxDisturbances  \* bound: failing calls, restarts, lost pods, stray requests

ASSUME BoundsAssumption == MaxPods \in Nat /\ MaxDisturbances \in Nat

\* The pods, numbered as they are created.
Pods == 1 .. MaxPods

VARIABLES
    pb,      \* the Playbook in the API server
    pods,    \* the pods it owns, in the API server
    exec,    \* how far the executor of a pod is, and how it ended:
             \* "late" is killed after it got through
    old,     \* the phase and reason the executor read
    cpb,     \* the playbook in the controller's cache
    cpods,   \* the pods in the controller's cache
    queued,  \* whether the work queue holds the playbook
    retry,   \* whether a rate limited retry of it is waiting
    rc,      \* control point of Reconcile
    base,    \* the playbook as Reconcile read it
    work,    \* the playbook as Reconcile changed it
    err,     \* retErr of Reconcile
    left,    \* disturbances left
    settled  \* whether all so far were of a kind that leaves one pod alone

api   == <<pb, pods, exec, old>>
cache == <<cpb, cpods>>
queue == <<queued, retry>>
rvars == <<rc, base, work, err>>
bounds == <<left, settled>>
vars  == <<api, cache, queue, rvars, bounds>>

\* "None" is the empty string of the code.
Phase == {"None", "Pending", "Running", "Failed", "Succeeded"}
Reason == {"None", "unknown", "pod", "task"}
Playbook == [live : BOOLEAN, deleting : BOOLEAN, finalizer : BOOLEAN,
             phase : Phase, reason : Reason]
PodState == {"none", "active", "Succeeded", "Failed", "gone"}

Final(phase) == phase \in {"Failed", "Succeeded"}

\* A playbook that does not exist.
Gone == [live |-> FALSE, deleting |-> FALSE, finalizer |-> FALSE,
         phase |-> "None", reason |-> "None"]

\* What an executor that has not started, or has ended, knows of the status.
Unread == [phase |-> "None", reason |-> "None"]

Meta == {"finalizer"}
Status == {"phase", "reason"}

\* A merge patch: the fields fs that differ between from and to are written.
MergePatch(object, from, to, fs) ==
    [f \in DOMAIN object |->
        IF f \in fs /\ from[f] # to[f] THEN to[f] ELSE object[f]]

\* The API server lets a deleted object go with its last finalizer.
Collected(object) ==
    IF object.deleting /\ ~ object.finalizer THEN Gone ELSE object

\* A disturbance; benign if it makes no reconcile request of its own.
Disturb(benign) ==
    /\ left > 0
    /\ left' = left - 1
    /\ settled' = (settled /\ benign)

Exists(p) == pods[p] \notin {"none", "gone"}
\* What GetObjectListFromOwner and List find.
Listed == {p \in Pods : cpods[p] \notin {"none", "gone"}}

TypeOK ==
    /\ pb \in Playbook /\ cpb \in Playbook /\ base \in Playbook /\ work \in Playbook
    /\ pods \in [Pods -> PodState] /\ cpods \in [Pods -> PodState]
    /\ exec \in [Pods -> {"wait", "run", "ok", "failed", "late"}]
    /\ old \in [Pods -> [phase : Phase, reason : Reason]]
    /\ queued \in BOOLEAN /\ retry \in BOOLEAN /\ err \in BOOLEAN
    /\ rc \in {"idle", "act", "defer"}
    /\ left \in Nat /\ settled \in BOOLEAN
    /\ rc # "idle" => base.live /\ work.live
    /\ pb.deleting => pb.live /\ pb.finalizer

Init ==
    /\ pb = [Gone EXCEPT !.live = TRUE]
    /\ cpb = Gone
    /\ pods = [p \in Pods |-> "none"]
    /\ cpods = [p \in Pods |-> "none"]
    /\ exec = [p \in Pods |-> "wait"]
    /\ old = [p \in Pods |-> Unread]
    /\ queued = FALSE
    /\ retry = FALSE
    /\ rc = "idle"
    /\ base = Gone
    /\ work = Gone
    /\ err = FALSE
    /\ left = MaxDisturbances
    /\ settled = TRUE

-----------------------------------------------------------------------------
(* Reconcile *)

Found == cpb.live

\* The worker takes the request and gets the playbook from the cache.
Get ==
    /\ rc = "idle"
    /\ queued
    /\ queued' = FALSE
    /\ IF Found
       THEN rc' = "act" /\ base' = cpb /\ work' = cpb
       ELSE UNCHANGED <<rc, base, work>>
    /\ err' = FALSE
    /\ UNCHANGED <<api, cache, retry, bounds>>

AddFinalizer ==
    /\ rc = "act"
    /\ ~ work.deleting
    /\ ~ work.finalizer
    /\ work' = [work EXCEPT !.finalizer = TRUE]
    /\ rc' = "defer"
    /\ UNCHANGED <<api, cache, queue, base, err, bounds>>

\* Mutant: the finalizer stays until the phase is final.
ReleasedWhenDone == Listed = {} /\ Final(work.phase)

\* When reconcileDelete removes the finalizer.
Released == Listed = {}

\* reconcileDelete: the pods of a completed playbook are deleted one after the
\* other; a pod that is gone already, or a failing call, ends that early.
ReconcileDelete ==
    /\ rc = "act"
    /\ work.deleting
    /\ LET doomed == IF Final(work.phase) THEN Listed ELSE {} IN
       \E done \in SUBSET {p \in doomed : Exists(p)} :
         /\ \/ done = doomed /\ UNCHANGED bounds
            \/ (\E p \in doomed \ done : ~ Exists(p)) /\ UNCHANGED bounds
            \/ done # doomed /\ Disturb(FALSE)
         /\ err' = (done # doomed)
         /\ pods' = [p \in Pods |-> IF p \in done THEN "gone" ELSE pods[p]]
    /\ work' = [work EXCEPT !.finalizer = @ /\ ~ Released]
    /\ rc' = "defer"
    /\ UNCHANGED <<pb, exec, old, cache, queue, base>>

Normal == rc = "act" /\ ~ work.deleting /\ work.finalizer

\* reconcileNormal
NextPhase ==
    IF work.phase = "None" THEN "Pending"
    ELSE IF work.phase = "Pending" THEN "Running"
    ELSE work.phase

ReconcileNormal ==
    /\ Normal
    /\ work.phase = "Running" => Listed # {}
    /\ work' = [work EXCEPT !.phase = NextPhase]
    /\ rc' = "defer"
    /\ UNCHANGED <<api, cache, queue, base, err, bounds>>

\* Mutant: pods that exist are not looked for.
CreatesUnchecked == Normal /\ work.phase = "Running"

\* dealRunningPlaybook finds no pod.
Creates == Normal /\ work.phase = "Running" /\ Listed = {}

\* GenerateName gives the pod a name of its own.
CreatePod ==
    \E p \in Pods :
        /\ pods[p] = "none"
        /\ \A q \in 1 .. p - 1 : pods[q] # "none"
        /\ pods' = [pods EXCEPT ![p] = "active"]

Create ==
    /\ Creates
    /\ CreatePod
    /\ rc' = "defer"
    /\ UNCHANGED <<pb, exec, old, cache, queue, base, work, err, bounds>>

\* The call returns an error; the pod may have been created all the same.
CreateFails ==
    /\ Creates
    /\ Disturb(FALSE)
    /\ \/ UNCHANGED pods
       \/ CreatePod
    /\ err' = TRUE
    /\ rc' = "defer"
    /\ UNCHANGED <<pb, exec, old, cache, queue, base, work>>

\* Mutant: no pod means that the pod failed.
PodPhaseOrFailed(listed) ==
    IF listed = {} THEN {"Failed"} ELSE {cpods[p] : p \in listed}

\* The phase of the pod, if there is one pod.
PodPhase(listed) == {cpods[p] : p \in {q \in listed : listed = {q}}}

\* reconcileStatus
Reported(w) ==
    IF Final(w.phase) THEN w
    ELSE IF "Failed" \in PodPhase(Listed)
         THEN [w EXCEPT !.phase = "Failed", !.reason = "pod"]
    ELSE IF "Succeeded" \in PodPhase(Listed)
         THEN [w EXCEPT !.phase = "Succeeded"]
    ELSE w

\* The playbook as the deferred function wants it: an error leaves its reason,
\* then the pod its phase.
Wanted ==
    Reported(IF err /\ work.reason = "None" THEN [work EXCEPT !.reason = "unknown"]
             ELSE work)

\* Mutant: errors are dropped instead of being retried.
DroppedRetry(failed) == retry

\* An error puts the request back with a delay.
Requeued(failed) == retry \/ failed

EndReconcile == rc' = "idle" /\ base' = Gone /\ work' = Gone /\ err' = FALSE

\* helper.Patch writes what Reconcile changed.
Patched(object) == MergePatch(object, base, Wanted, Meta \cup Status)

Patch ==
    /\ rc = "defer"
    /\ IF pb.live
       THEN pb' = Collected(Patched(pb)) /\ retry' = Requeued(err)
       ELSE UNCHANGED pb /\ retry' = Requeued(err \/ base # Wanted)
    /\ EndReconcile
    /\ UNCHANGED <<pods, exec, old, cache, queued, bounds>>

\* The patches of metadata and status are two calls; each may fail, before or
\* after the API server did it.
PatchFails ==
    /\ rc = "defer"
    /\ base # Wanted
    /\ pb.live
    /\ Disturb(FALSE)
    /\ \E parts \in SUBSET {Meta, Status} :
         pb' = Collected(MergePatch(pb, base, Wanted, UNION parts))
    /\ retry' = Requeued(TRUE)
    /\ EndReconcile
    /\ UNCHANGED <<pods, exec, old, cache, queued>>

-----------------------------------------------------------------------------
(* The informers and the work queue of controller-runtime *)

\* An event of the playbook.
SyncPlaybook ==
    /\ cpb # pb
    /\ cpb' = pb
    /\ queued' = TRUE
    /\ UNCHANGED <<api, cpods, retry, rvars, bounds>>

\* An event of a pod is mapped to its owner, if the cache still has it.
SyncPod(p) ==
    /\ cpods[p] # pods[p]
    /\ cpods' = [cpods EXCEPT ![p] = pods[p]]
    /\ queued' = (queued \/ cpb.live)
    /\ UNCHANGED <<api, cpb, retry, rvars, bounds>>

Retry ==
    /\ retry
    /\ retry' = FALSE
    /\ queued' = TRUE
    /\ UNCHANGED <<api, cache, rvars, bounds>>

\* An edit of other fields of the playbook, or the resync of the informer.
Stray ==
    /\ cpb.live
    /\ ~ queued
    /\ Disturb(FALSE)
    /\ queued' = TRUE
    /\ UNCHANGED <<api, cache, retry, rvars>>

\* The manager is started again: it lists what there is and queues it.
Restart ==
    /\ Disturb(TRUE)
    /\ cpb' = pb
    /\ cpods' = pods
    /\ queued' = pb.live
    /\ retry' = FALSE
    /\ EndReconcile
    /\ UNCHANGED api

-----------------------------------------------------------------------------
(* The user, the garbage collector and the executor pods *)

UserDeletes ==
    /\ pb.live
    /\ ~ pb.deleting
    /\ pb' = Collected([pb EXCEPT !.deleting = TRUE])
    /\ UNCHANGED <<pods, exec, old, cache, queue, rvars, bounds>>

\* Pods follow their owner.
CollectPod(p) ==
    /\ ~ pb.live
    /\ Exists(p)
    /\ pods' = [pods EXCEPT ![p] = "gone"]
    /\ UNCHANGED <<pb, exec, old, cache, queue, rvars, bounds>>

\* A drained node, or somebody who cleans up.
LosePod(p) ==
    /\ Exists(p)
    /\ Disturb(FALSE)
    /\ pods' = [pods EXCEPT ![p] = "gone"]
    /\ UNCHANGED <<pb, exec, old, cache, queue, rvars>>

\* kk playbook gets the playbook and starts playbookExecutor.Exec.
StartExec(p) ==
    /\ pods[p] = "active"
    /\ exec[p] = "wait"
    /\ pb.live
    /\ exec' = [exec EXCEPT ![p] = "run"]
    /\ old' = [old EXCEPT ![p] = [phase |-> pb.phase, reason |-> pb.reason]]
    /\ UNCHANGED <<pb, pods, cache, queue, rvars, bounds>>

\* syncStatus sets the phase, and the reason of a failure.
Verdict(p, ok) ==
    IF ok THEN [old[p] EXCEPT !.phase = "Succeeded"]
    ELSE [phase |-> "Failed", reason |-> "task"]

\* Exec returns: its status patch is sent, or fails, which is only logged.
EndExec(p) ==
    /\ pods[p] = "active"
    /\ exec[p] = "run"
    /\ \E ok \in BOOLEAN :
         /\ exec' = [exec EXCEPT ![p] = IF ok THEN "ok" ELSE "failed"]
         /\ \/ /\ pb' = IF pb.live
                        THEN MergePatch(pb, old[p], Verdict(p, ok), Status) ELSE pb
               /\ UNCHANGED bounds
            \/ UNCHANGED pb /\ Disturb(TRUE)
    /\ old' = [old EXCEPT ![p] = Unread]
    /\ UNCHANGED <<pods, cache, queue, rvars>>

ExitPod(p) ==
    /\ pods[p] = "active"
    /\ exec[p] \in {"ok", "failed"}
    /\ pods' = [pods EXCEPT ![p] = IF exec[p] = "ok" THEN "Succeeded" ELSE "Failed"]
    /\ UNCHANGED <<pb, exec, old, cache, queue, rvars, bounds>>

\* The container is killed, at whatever point; after "failed" it stays that.
CrashPod(p) ==
    /\ pods[p] = "active"
    /\ pods' = [pods EXCEPT ![p] = "Failed"]
    /\ exec' = [exec EXCEPT ![p] = IF @ = "ok" THEN "late" ELSE "failed"]
    /\ old' = [old EXCEPT ![p] = Unread]
    /\ UNCHANGED <<pb, cache, queue, rvars, bounds>>

-----------------------------------------------------------------------------
Reconcile ==
    \/ Get \/ AddFinalizer \/ ReconcileDelete
    \/ ReconcileNormal \/ Create \/ CreateFails
    \/ Patch \/ PatchFails

PodStep(p) == StartExec(p) \/ EndExec(p) \/ ExitPod(p)

Next ==
    \/ Reconcile
    \/ SyncPlaybook \/ Retry \/ Stray \/ Restart
    \/ UserDeletes
    \/ \E p \in Pods :
         SyncPod(p) \/ CollectPod(p) \/ LosePod(p) \/ PodStep(p) \/ CrashPod(p)

Spec == Init /\ [][Next]_vars

\* The manager runs, its informers catch up, pods run to their end.
Fairness ==
    /\ WF_vars(Reconcile) /\ WF_vars(SyncPlaybook) /\ WF_vars(Retry)
    /\ \A p \in Pods :
         WF_vars(SyncPod(p)) /\ WF_vars(CollectPod(p)) /\ WF_vars(PodStep(p))

FairSpec == Spec /\ Fairness

-----------------------------------------------------------------------------
(* Properties *)

\* "should only one pod for playbook" (reconcileStatus): two executors never
\* work on the hosts of one playbook.
OnePod == Cardinality({p \in Pods : Exists(p)}) <= 1

\* The caches may lag as far as they like: as long as no call failed, no pod was
\* deleted from outside and no request came from elsewhere there is one pod at
\* most, though pods crash, do not report and the manager is restarted.
OnePodUndisturbed == settled => OnePod

\* The final phase says what happened: Succeeded that an executor got through
\* the playbook, Failed that one did not, or that its container was killed.
VerdictHasCause ==
    /\ pb.phase = "Succeeded" => \E p \in Pods : exec[p] \in {"ok", "late"}
    /\ pb.phase = "Failed" => \E p \in Pods : exec[p] \in {"failed", "late"}

Rank(phase) ==
    IF phase = "None" THEN 0
    ELSE IF phase = "Pending" THEN 1
    ELSE IF phase = "Running" THEN 2
    ELSE 3

\* Merge patches computed from stale copies never set the phase back, and the
\* phases come one after the other, by two writers that know nothing of each other.
PhaseForward ==
    [][pb.live /\ pb'.live =>
         Rank(pb'.phase) \in {Rank(pb.phase), Rank(pb.phase) + 1}]_vars

\* A pod is there only for a playbook that has been announced as Running.
PodsAfterRunning ==
    \A p \in Pods : Exists(p) /\ pb.live => Rank(pb.phase) >= 2

\* What the controller leaves alone: a playbook that is over, or one that an
\* executor works on, or has two pods.
AtRest ==
    \/ Final(pb.phase) /\ ~ pb.deleting
    \/ \E p \in Pods : pods[p] = "active"
    \/ ~ OnePod

\* No wake-up is lost: when nothing is queued or waits for its retry, and the
\* caches have caught up, then there is nothing to do.  (The worker forgets a
\* request when it takes it; what Reconcile leaves undone comes back as the
\* event of what it changed, or as the retry of its error.)
NothingForgotten ==
    pb.live /\ rc = "idle" /\ ~ queued /\ ~ retry /\ cpb = pb /\ cpods = pods => AtRest

\* Whatever is lost, killed or restarted, a playbook gets its final phase,
\* unless it has two pods (then nobody reports what becomes of them).
Settles == pb.live ~> Final(pb.phase) \/ ~ pb.live \/ pb.deleting \/ ~ OnePod

\* A deleted playbook goes away, after its executor at the latest.
DeletionEnds == pb.deleting ~> ~ pb.live \/ ~ OnePod

\* playbook_types.go: the finalizer is removed after the playbook is completed;
\* at least no executor is at work then.
FinalizerGuards ==
    [][pb.finalizer /\ ~ pb'.finalizer =>
         \A p \in Pods : pods[p] # "active"]_vars

\* playbook_types.go: the reason is set in the event of a terminal problem.
ReasonIsTerminal == pb.reason # "None" => pb.phase = "Failed"
=============================================================================
