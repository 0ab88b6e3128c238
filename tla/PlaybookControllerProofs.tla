---------------------- MODULE PlaybookControllerProofs ----------------------
(***************************************************************************)
(* Theorems about PlaybookController, for every number of pods and of      *)
(* disturbances.                                                           *)
(***************************************************************************)
EXTENDS PlaybookController, FiniteSetTheorems, TLAPS

-----------------------------------------------------------------------------
(* The inductive invariant, in four parts *)

\* Reconcile works on a copy of what it read: one phase ahead at most, and the
\* finalizer goes only from what is being deleted.
WorkFits ==
    /\ rc = "act" => work = base /\ ~ err
    /\ rc = "defer" =>
         /\ work.deleting = base.deleting
         /\ work.reason = base.reason
         /\ base.finalizer /\ ~ work.finalizer => base.deleting
         /\ work.phase # base.phase =>
              /\ base.finalizer
              /\ work.phase \in {"Pending", "Running"}
              /\ Rank(work.phase) = Rank(base.phase) + 1

\* The cache knows only pods that have been created, and knows no end of a pod
\* before it is there.
PodLags(p) ==
    /\ cpods[p] # "none" => pods[p] # "none"
    /\ cpods[p] = "gone" => pods[p] = "gone"
    /\ cpods[p] \in {"Succeeded", "Failed"} => pods[p] # "active"

PodsLag == \A p \in Pods : PodLags(p)

\* base is read from the cache and the cache follows the API server, where the
\* phase is one step ahead at most; all three know Running once there is a pod.
PhasesLag ==
    pb.live =>
        /\ Rank(cpb.phase) <= Rank(pb.phase)
        /\ Rank(pb.phase) <= Rank(cpb.phase) + 1
        /\ rc # "idle" => /\ Rank(base.phase) <= Rank(cpb.phase)
                          /\ Rank(pb.phase) <= Rank(base.phase) + 1
        /\ \A p \in Pods :
              /\ Rank(old[p].phase) <= Rank(pb.phase)
              /\ pods[p] # "none" => /\ Rank(cpb.phase) >= 2
                                     /\ rc # "idle" => Rank(base.phase) >= 2

PhaseInv == TypeOK /\ WorkFits /\ PodsLag /\ PhasesLag

\* A phase has its cause if it is final.
Caused(phase) ==
    /\ phase = "Succeeded" => \E p \in Pods : exec[p] \in {"ok", "late"}
    /\ phase = "Failed" => \E p \in Pods : exec[p] \in {"failed", "late"}

\* The phase of a pod tells how its executor ended.
PodCause(p) ==
    /\ exec[p] = "late" => pods[p] \in {"Failed", "gone"}
    /\ "Succeeded" \in {pods[p], cpods[p]} => exec[p] = "ok"
    /\ "Failed" \in {pods[p], cpods[p]} => exec[p] \in {"failed", "late"}

\* Every copy of the phase has its cause, and so has that of a pod.
CauseInv ==
    /\ Caused(pb.phase) /\ Caused(cpb.phase) /\ Caused(base.phase) /\ Caused(work.phase)
    /\ \A p \in Pods : PodCause(p)

Deleted(object) == object.deleting \/ ~ object.live

\* What a playbook has to be like for Reconcile to create a pod.
Wants(object) == ~ Deleted(object) /\ object.finalizer /\ object.phase = "Running"

\* The finalizer is there before the phases; it reaches the copies, and so does
\* the deletion, from newest to oldest.
DeletionInv ==
    /\ \A object \in {pb, cpb} : /\ object.live \/ object = Gone
                                 /\ Rank(object.phase) >= 1 => object.finalizer
    /\ cpb.deleting => Deleted(pb)
    /\ base.deleting => Deleted(cpb) /\ Deleted(pb)
    /\ pb.live => /\ cpb.finalizer => pb.finalizer
                  /\ base.finalizer => pb.finalizer
    /\ ~ pb.live => ~ Wants(cpb) /\ ~ Wants(base)

Created == {p \in Pods : pods[p] # "none"}

\* While nothing disturbs: when there is a pod that the cache does not show,
\* nothing makes Reconcile look again at a playbook that wants one.
SinglePod ==
    /\ \A p, q \in Created : p = q
    /\ err => base.deleting
    /\ \A object \in {pb, cpb} :
         ~ Deleted(object) /\ ~ Final(object.phase) => object.reason = "None"
    /\ retry => Deleted(pb) /\ ~ Wants(cpb)
    /\ (\E p \in Pods : pods[p] = "gone") =>
         Deleted(pb) /\ ~ Wants(cpb) /\ ~ Wants(base)
    /\ Listed = {} /\ Created # {} => /\ rc = "act" => ~ Wants(base)
                                      /\ queued => ~ Wants(cpb)
    /\ Listed = {} /\ queued /\ rc = "act" => ~ (Wants(base) /\ Wants(cpb))

SettledInv == settled => SinglePod

-----------------------------------------------------------------------------
(* Lemmas *)

\* Patch and PatchFails send the fields of these.
PatchFields == {{}, Meta, Status, Meta \cup Status}

LEMMA PlaybookFields ==
  ASSUME NEW o \in Playbook
  PROVE  /\ o.live \in BOOLEAN /\ o.deleting \in BOOLEAN /\ o.finalizer \in BOOLEAN
         /\ o.phase \in Phase /\ o.reason \in Reason
         /\ DOMAIN o = {"live", "deleting", "finalizer", "phase", "reason"}
  BY DEF Playbook

\* Field by field, what a merge patch makes of a playbook.
LEMMA MergeFields ==
  ASSUME NEW o \in Playbook, NEW from, NEW to, NEW fs \in PatchFields,
         fs \cap Meta # {} => to.finalizer \in BOOLEAN,
         fs \cap Status # {} => to.phase \in Phase /\ to.reason \in Reason
  PROVE  LET m == MergePatch(o, from, to, fs) IN
         /\ m \in Playbook
         /\ m.live = o.live
         /\ m.deleting = o.deleting
         /\ m.finalizer = IF fs \cap Meta # {} /\ from.finalizer # to.finalizer
                          THEN to.finalizer ELSE o.finalizer
         /\ m.phase = IF fs \cap Status # {} /\ from.phase # to.phase
                      THEN to.phase ELSE o.phase
         /\ m.reason = IF fs \cap Status # {} /\ from.reason # to.reason
                       THEN to.reason ELSE o.reason
<1> DEFINE m == MergePatch(o, from, to, fs)
<1>1. /\ DOMAIN m = {"live", "deleting", "finalizer", "phase", "reason"}
      /\ m = [f \in {"live", "deleting", "finalizer", "phase", "reason"} |-> m[f]]
      /\ \A f \in DOMAIN m : m[f] = IF f \in fs /\ from[f] # to[f] THEN to[f] ELSE o[f]
  BY PlaybookFields DEF MergePatch
<1> HIDE DEF m
<1>2. /\ fs \cap Meta # {} <=> "finalizer" \in fs
      /\ fs \cap Status # {} <=> "phase" \in fs
      /\ fs \cap Status # {} <=> "reason" \in fs
      /\ "live" \notin fs /\ "deleting" \notin fs
  BY DEF PatchFields, Meta, Status
<1>3. /\ m.live = o.live
      /\ m.deleting = o.deleting
      /\ m.finalizer = IF fs \cap Meta # {} /\ from.finalizer # to.finalizer
                       THEN to.finalizer ELSE o.finalizer
      /\ m.phase = IF fs \cap Status # {} /\ from.phase # to.phase
                   THEN to.phase ELSE o.phase
      /\ m.reason = IF fs \cap Status # {} /\ from.reason # to.reason
                    THEN to.reason ELSE o.reason
  BY <1>1, <1>2
<1>4. m \in Playbook
  BY <1>1, <1>3, PlaybookFields DEF Playbook
<1> QED BY <1>3, <1>4 DEF m

\* What Reconcile wants differs from its copy by the phase of a pod, and by the
\* reason of that or of an error.
LEMMA WantedFacts ==
  ASSUME TypeOK
  PROVE  /\ Wanted.finalizer = work.finalizer
         /\ Wanted.phase \in Phase /\ Wanted.reason \in Reason
         /\ Wanted.phase # work.phase =>
              \E p \in Listed : cpods[p] = Wanted.phase /\ Final(Wanted.phase)
         /\ Wanted.reason # work.reason =>
              err \/ (Wanted.phase = "Failed" /\ work.phase # "Failed")
<1> DEFINE w == IF err /\ work.reason = "None" THEN [work EXCEPT !.reason = "unknown"]
                ELSE work
<1>1. /\ w \in Playbook
      /\ w.finalizer = work.finalizer /\ w.phase = work.phase
      /\ w.reason # work.reason => err
  BY DEF TypeOK, Playbook, Reason
<1>2. Wanted = Reported(w)
  BY DEF Wanted
<1> HIDE DEF w
<1>3. CASE Final(w.phase)
  BY <1>1, <1>2, <1>3, PlaybookFields DEF Reported
<1>4. CASE ~ Final(w.phase) /\ "Failed" \in PodPhase(Listed)
  <2>1. Wanted = [w EXCEPT !.phase = "Failed", !.reason = "pod"]
    BY <1>2, <1>4 DEF Reported
  <2>2. /\ Wanted.finalizer = w.finalizer
        /\ Wanted.phase = "Failed" /\ Wanted.reason = "pod"
    BY <1>1, <2>1 DEF Playbook
  <2>3. \E p \in Listed : cpods[p] = "Failed"
    BY <1>4 DEF PodPhase
  <2> QED BY <1>1, <1>4, <2>2, <2>3 DEF Final, Phase, Reason
<1>5. CASE ~ Final(w.phase) /\ "Failed" \notin PodPhase(Listed)
                            /\ "Succeeded" \in PodPhase(Listed)
  <2>1. Wanted = [w EXCEPT !.phase = "Succeeded"]
    BY <1>2, <1>5 DEF Reported
  <2>2. /\ Wanted.finalizer = w.finalizer
        /\ Wanted.phase = "Succeeded" /\ Wanted.reason = w.reason
    BY <1>1, <2>1 DEF Playbook
  <2>3. \E p \in Listed : cpods[p] = "Succeeded"
    BY <1>5 DEF PodPhase
  <2>4. w.reason \in Reason
    BY <1>1, PlaybookFields
  <2> QED BY <1>1, <1>5, <2>2, <2>3, <2>4 DEF Final, Phase
<1>6. CASE ~ Final(w.phase) /\ "Failed" \notin PodPhase(Listed)
                            /\ "Succeeded" \notin PodPhase(Listed)
  <2>1. Wanted = w
    BY <1>2, <1>6 DEF Reported
  <2> QED BY <1>1, <2>1, PlaybookFields
<1> QED BY <1>3, <1>4, <1>5, <1>6

\* What a patch of Reconcile does to the playbook, whether it fails or not.
LEMMA PatchEffect ==
  ASSUME TypeOK, Patch \/ PatchFails, pb.live
  PROVE  \E m \in Playbook :
           /\ pb' = Collected(m)
           /\ m.live /\ m.deleting = pb.deleting
           /\ m.finalizer # pb.finalizer =>
                m.finalizer = work.finalizer /\ base.finalizer # work.finalizer
           /\ m.phase # pb.phase =>
                m.phase = Wanted.phase /\ base.phase # Wanted.phase
           /\ m.reason # pb.reason =>
                /\ base.reason # Wanted.reason
                /\ base.phase # Wanted.phase => m.phase = Wanted.phase
<1>1. PICK fs \in PatchFields : pb' = Collected(MergePatch(pb, base, Wanted, fs))
  <2>1. CASE Patch
    BY <2>1 DEF Patch, Patched, PatchFields
  <2>2. CASE PatchFails
    <3>1. PICK parts \in SUBSET {Meta, Status} :
            pb' = Collected(MergePatch(pb, base, Wanted, UNION parts))
      BY <2>2 DEF PatchFails
    <3>2. UNION parts \in PatchFields
      <4>1. parts \in {{}, {Meta}, {Status}, {Meta, Status}}
        BY <3>1
      <4> QED BY <4>1 DEF PatchFields
    <3> QED BY <3>1, <3>2
  <2> QED BY <2>1, <2>2
<1> DEFINE m == MergePatch(pb, base, Wanted, fs)
<1>2. work.finalizer \in BOOLEAN
  BY PlaybookFields DEF TypeOK
<1>3. /\ m \in Playbook
      /\ m.live = pb.live
      /\ m.deleting = pb.deleting
      /\ m.finalizer = IF fs \cap Meta # {} /\ base.finalizer # Wanted.finalizer
                       THEN Wanted.finalizer ELSE pb.finalizer
      /\ m.phase = IF fs \cap Status # {} /\ base.phase # Wanted.phase
                   THEN Wanted.phase ELSE pb.phase
      /\ m.reason = IF fs \cap Status # {} /\ base.reason # Wanted.reason
                    THEN Wanted.reason ELSE pb.reason
  <2>1. /\ Wanted.finalizer \in BOOLEAN
        /\ Wanted.phase \in Phase /\ Wanted.reason \in Reason
    BY <1>2, WantedFacts
  <2>2. pb \in Playbook
    BY DEF TypeOK
  <2>3. /\ fs \cap Meta # {} => Wanted.finalizer \in BOOLEAN
        /\ fs \cap Status # {} => Wanted.phase \in Phase /\ Wanted.reason \in Reason
    BY <2>1
  <2> HIDE DEF m
  <2>4. m = MergePatch(pb, base, Wanted, fs)
    BY DEF m
  <2>5. m \in Playbook
    BY <2>2, <2>3, <2>4, MergeFields
  <2>6. m.live = pb.live
    BY <2>2, <2>3, <2>4, MergeFields
  <2>7. m.deleting = pb.deleting
    BY <2>2, <2>3, <2>4, MergeFields
  <2>8. m.finalizer = IF fs \cap Meta # {} /\ base.finalizer # Wanted.finalizer
                      THEN Wanted.finalizer ELSE pb.finalizer
    BY <2>2, <2>3, <2>4, MergeFields
  <2>9. m.phase = IF fs \cap Status # {} /\ base.phase # Wanted.phase
                  THEN Wanted.phase ELSE pb.phase
    BY <2>2, <2>3, <2>4, MergeFields
  <2>10. m.reason = IF fs \cap Status # {} /\ base.reason # Wanted.reason
                   THEN Wanted.reason ELSE pb.reason
    BY <2>2, <2>3, <2>4, MergeFields
  <2> QED BY <2>5, <2>6, <2>7, <2>8, <2>9, <2>10
<1> QED BY <1>1, <1>3, WantedFacts

\* What the status patch of an executor that ends does to the playbook.
LEMMA EndEffect ==
  ASSUME TypeOK, NEW p \in Pods, EndExec(p)
  PROVE  \E ok \in BOOLEAN :
           /\ exec' = [exec EXCEPT ![p] = IF ok THEN "ok" ELSE "failed"]
           /\ pb' \in Playbook
           /\ pb'.live = pb.live
           /\ pb'.deleting = pb.deleting
           /\ pb'.finalizer = pb.finalizer
           /\ pb'.phase # pb.phase => pb'.phase = IF ok THEN "Succeeded" ELSE "Failed"
           /\ pb'.reason # pb.reason => \/ pb'.phase = "Failed"
                                        \/ pb.live /\ old[p].phase = "Failed"
<1>1. PICK ok \in BOOLEAN :
        /\ exec' = [exec EXCEPT ![p] = IF ok THEN "ok" ELSE "failed"]
        /\ pb' = pb \/ (pb.live /\ pb' = MergePatch(pb, old[p], Verdict(p, ok), Status))
  BY DEF EndExec
<1>2. pb \in Playbook /\ old[p] \in [phase : Phase, reason : Reason]
  BY DEF TypeOK
<1>3. CASE pb' = pb
  BY <1>1, <1>2, <1>3
<1>4. CASE pb.live /\ pb' = MergePatch(pb, old[p], Verdict(p, ok), Status)
  <2>1. /\ Verdict(p, ok).phase = IF ok THEN "Succeeded" ELSE "Failed"
        /\ ok => Verdict(p, ok).reason = old[p].reason
        /\ Verdict(p, ok).reason \in Reason
    BY <1>2 DEF Verdict, Reason
  <2> DEFINE v == Verdict(p, ok)
  <2>2. Status \in PatchFields /\ Status \cap Meta = {} /\ Status \cap Status # {}
    BY DEF PatchFields, Status, Meta
  <2>3. v.phase \in Phase
    BY <2>1 DEF Phase
  <2>4. pb' = MergePatch(pb, old[p], v, Status)
    BY <1>4
  <2> HIDE DEF v
  <2>5. pb' \in Playbook
    BY <1>2, <2>1, <2>2, <2>3, <2>4, MergeFields DEF v
  <2>6. pb'.live = pb.live
    BY <1>2, <2>1, <2>2, <2>3, <2>4, MergeFields DEF v
  <2>7. pb'.deleting = pb.deleting
    BY <1>2, <2>1, <2>2, <2>3, <2>4, MergeFields DEF v
  <2>8. pb'.finalizer = pb.finalizer
    BY <1>2, <2>1, <2>2, <2>3, <2>4, MergeFields DEF v
  <2>9. pb'.phase = IF old[p].phase # v.phase THEN v.phase ELSE pb.phase
    BY <1>2, <2>1, <2>2, <2>3, <2>4, MergeFields DEF v
  <2>10. pb'.reason = IF old[p].reason # v.reason THEN v.reason ELSE pb.reason
    BY <1>2, <2>1, <2>2, <2>3, <2>4, MergeFields DEF v
  <2> QED BY <1>1, <1>4, <2>1, <2>5, <2>6, <2>7, <2>8, <2>9, <2>10 DEF v
<1> QED BY <1>1, <1>3, <1>4

LEMMA DisturbFacts ==
  ASSUME TypeOK, NEW benign \in BOOLEAN, Disturb(benign)
  PROVE  /\ left' \in Nat
         /\ settled' \in BOOLEAN
         /\ settled' => settled /\ benign
<1>1. left' \in Nat
  BY DEF TypeOK, Disturb
<1>2. settled' \in BOOLEAN
  BY DEF Disturb
<1>3. settled' => settled /\ benign
  BY DEF Disturb
<1> QED BY <1>1, <1>2, <1>3

LEMMA GoneFacts == /\ Gone \in Playbook
                   /\ ~ Gone.live /\ ~ Gone.deleting /\ ~ Gone.finalizer
                   /\ Gone.phase = "None" /\ Gone.reason = "None"
                   /\ Unread \in [phase : Phase, reason : Reason]
                   /\ Unread.phase = "None"
  BY DEF Gone, Unread, Playbook, Phase, Reason

-----------------------------------------------------------------------------
(* Type correctness *)

LEMMA TypeInit == Init => TypeOK
<1> SUFFICES ASSUME Init PROVE TypeOK
  OBVIOUS
<1>1. pb \in Playbook /\ ~ pb.deleting
  BY GoneFacts DEF Init, Playbook
<1> QED BY <1>1, GoneFacts, BoundsAssumption DEF Init, TypeOK, PodState

LEMMA TypeStep == TypeOK /\ [Next]_vars => TypeOK'
<1> SUFFICES ASSUME TypeOK, [Next]_vars PROVE TypeOK'
  OBVIOUS
<1> USE DEF TypeOK, api, cache, queue, rvars, bounds
<1>1. CASE Get
  BY <1>1 DEF Get, Found
<1>2. CASE AddFinalizer
  <2>1. [work EXCEPT !.finalizer = TRUE] \in Playbook
    BY DEF Playbook
  <2>2. [work EXCEPT !.finalizer = TRUE].live = work.live
    BY PlaybookFields
  <2> QED BY <1>2, <2>1, <2>2 DEF AddFinalizer
<1>3. CASE ReconcileDelete
  <2>1. work' \in Playbook /\ work'.live
    <3>1. (work.finalizer /\ ~ Released) \in BOOLEAN
      OBVIOUS
    <3>2. work' = [work EXCEPT !.finalizer = work.finalizer /\ ~ Released]
      BY <1>3 DEF ReconcileDelete
    <3> QED BY <1>3, <3>1, <3>2 DEF ReconcileDelete, Playbook
  <2>2. pods' \in [Pods -> PodState]
    BY <1>3 DEF ReconcileDelete, PodState
  <2>3. left' \in Nat /\ settled' \in BOOLEAN
    BY <1>3, DisturbFacts DEF ReconcileDelete
  <2>4. err' \in BOOLEAN
    BY <1>3 DEF ReconcileDelete
  <2> QED BY <1>3, <2>1, <2>2, <2>3, <2>4 DEF ReconcileDelete
<1>4. CASE ReconcileNormal
  <2>1. NextPhase \in Phase
    BY PlaybookFields DEF NextPhase, Phase
  <2> QED BY <1>4, <2>1 DEF ReconcileNormal, Normal, Playbook
<1>5. CASE Create
  BY <1>5 DEF Create, Creates, Normal, CreatePod, PodState
<1>6. CASE CreateFails
  BY <1>6 DEF CreateFails, Creates, Normal, CreatePod, PodState, Disturb
<1>7. CASE Patch \/ PatchFails
  <2>1. pb' \in Playbook /\ (pb'.deleting => pb'.live /\ pb'.finalizer)
    <3>1. CASE pb.live
      <4>1. PICK m \in Playbook : /\ pb' = Collected(m)
                                  /\ m.live
        BY <1>7, <3>1, PatchEffect
      <4> QED BY <4>1, GoneFacts, PlaybookFields DEF Collected
    <3>2. CASE ~ pb.live
      BY <1>7, <3>2 DEF Patch, PatchFails
    <3> QED BY <3>1, <3>2
  <2>2. /\ rc' = "idle" /\ base' = Gone /\ work' = Gone /\ err' = FALSE
    BY <1>7 DEF Patch, PatchFails, EndReconcile
  <2>3. retry' \in BOOLEAN
    BY <1>7 DEF Patch, PatchFails, Requeued
  <2>4. left' \in Nat /\ settled' \in BOOLEAN
    BY <1>7, DisturbFacts DEF Patch, PatchFails
  <2> QED BY <1>7, <2>1, <2>2, <2>3, <2>4, GoneFacts DEF Patch, PatchFails
<1>8. CASE SyncPlaybook
  BY <1>8 DEF SyncPlaybook
<1>9. CASE Retry
  BY <1>9 DEF Retry
<1>10. CASE Stray
  BY <1>10 DEF Stray, Disturb
<1>11. CASE Restart
  <2>1. left' \in Nat /\ settled' \in BOOLEAN
    BY <1>11, DisturbFacts DEF Restart
  <2> QED BY <1>11, <2>1, GoneFacts, PlaybookFields DEF Restart, EndReconcile
<1>12. CASE UserDeletes
  <2>1. [pb EXCEPT !.deleting = TRUE] \in Playbook
    BY DEF Playbook
  <2>2. pb' \in Playbook /\ (pb'.deleting => pb'.live /\ pb'.finalizer)
    BY <1>12, <2>1, GoneFacts DEF UserDeletes, Collected, Playbook
  <2> QED BY <1>12, <2>2 DEF UserDeletes
<1>13. ASSUME NEW p \in Pods,
              SyncPod(p) \/ CollectPod(p) \/ LosePod(p) \/ PodStep(p) \/ CrashPod(p)
       PROVE  TypeOK'
  <2>1. CASE SyncPod(p)
    BY <2>1, PlaybookFields DEF SyncPod
  <2>2. CASE CollectPod(p)
    BY <2>2 DEF CollectPod, PodState
  <2>3. CASE LosePod(p)
    BY <2>3 DEF LosePod, PodState, Disturb
  <2>4. CASE StartExec(p)
    <3>1. [phase |-> pb.phase, reason |-> pb.reason] \in [phase : Phase, reason : Reason]
      BY PlaybookFields
    <3> QED BY <2>4, <3>1 DEF StartExec
  <2>5. CASE EndExec(p)
    <3>1. /\ exec' \in [Pods -> {"wait", "run", "ok", "failed", "late"}]
          /\ pb' \in Playbook /\ (pb'.deleting => pb'.live /\ pb'.finalizer)
      BY <2>5, EndEffect
    <3>2. left' \in Nat /\ settled' \in BOOLEAN
      BY <2>5 DEF EndExec, Disturb
    <3> QED BY <2>5, <3>1, <3>2, GoneFacts DEF EndExec
  <2>6. CASE ExitPod(p)
    BY <2>6 DEF ExitPod, PodState
  <2>7. CASE CrashPod(p)
    BY <2>7, GoneFacts DEF CrashPod, PodState
  <2> QED BY <1>13, <2>1, <2>2, <2>3, <2>4, <2>5, <2>6, <2>7 DEF PodStep
<1>14. CASE UNCHANGED vars
  BY <1>14 DEF vars
<1> QED BY <1>1, <1>2, <1>3, <1>4, <1>5, <1>6, <1>7, <1>8, <1>9, <1>10, <1>11,
           <1>12, <1>13, <1>14 DEF Next, Reconcile

\* Types: an object the code handles is one it has read, and a playbook that is
\* being deleted is there only as long as it has its finalizer.
THEOREM TypeCorrect == Spec => []TypeOK
  BY TypeInit, TypeStep, PTL DEF Spec

-----------------------------------------------------------------------------
(* The order of the phases *)

LEMMA RankFacts ==
  ASSUME NEW phase \in Phase
  PROVE  /\ Rank(phase) \in 0 .. 3
         /\ Rank(phase) = 0 <=> phase = "None"
         /\ Rank(phase) = 1 <=> phase = "Pending"
         /\ Rank(phase) = 2 <=> phase = "Running"
         /\ Rank(phase) = 3 <=> Final(phase)
<1>1. CASE phase = "None"
  BY <1>1 DEF Rank, Final
<1>2. CASE phase = "Pending"
  BY <1>2 DEF Rank, Final
<1>3. CASE phase = "Running"
  BY <1>3 DEF Rank, Final
<1>4. CASE Final(phase)
  BY <1>4 DEF Rank, Final
<1> QED BY <1>1, <1>2, <1>3, <1>4 DEF Phase, Final

LEMMA WorkStep == TypeOK /\ WorkFits /\ [Next]_vars => WorkFits'
<1> SUFFICES ASSUME TypeOK, WorkFits, [Next]_vars PROVE WorkFits'
  OBVIOUS
<1> USE DEF WorkFits, rvars
<1>0. work \in Playbook
  BY DEF TypeOK
<1>1. CASE Get
  BY <1>1 DEF Get
<1>2. CASE AddFinalizer
  <2>1. /\ work' = [work EXCEPT !.finalizer = TRUE]
        /\ work = base /\ base' = base /\ rc' = "defer"
    BY <1>2 DEF AddFinalizer
  <2>2. /\ work'.deleting = work.deleting /\ work'.reason = work.reason
        /\ work'.phase = work.phase /\ work'.finalizer
    BY <1>0, <2>1 DEF Playbook
  <2> QED BY <2>1, <2>2
<1>3. CASE ReconcileDelete
  <2>1. /\ work' = [work EXCEPT !.finalizer = work.finalizer /\ ~ Released]
        /\ work = base /\ base' = base /\ rc' = "defer"
        /\ work.deleting
    BY <1>3 DEF ReconcileDelete
  <2>2. /\ work'.deleting = work.deleting /\ work'.reason = work.reason
        /\ work'.phase = work.phase
    BY <1>0, <2>1 DEF Playbook
  <2> QED BY <2>1, <2>2
<1>4. CASE ReconcileNormal
  <2>1. /\ work' = [work EXCEPT !.phase = NextPhase]
        /\ work = base /\ base' = base /\ rc' = "defer"
        /\ work.finalizer
    BY <1>4 DEF ReconcileNormal, Normal
  <2>2. /\ work'.deleting = work.deleting /\ work'.reason = work.reason
        /\ work'.finalizer = work.finalizer /\ work'.phase = NextPhase
    BY <1>0, <2>1 DEF Playbook
  <2>3. NextPhase # work.phase =>
          /\ NextPhase \in {"Pending", "Running"}
          /\ Rank(NextPhase) = Rank(work.phase) + 1
    <3>1. CASE work.phase = "None"
      BY <3>1, RankFacts DEF NextPhase, Phase
    <3>2. CASE work.phase = "Pending"
      BY <3>2, RankFacts DEF NextPhase, Phase
    <3>3. CASE work.phase \notin {"None", "Pending"}
      BY <3>3 DEF NextPhase
    <3> QED BY <3>1, <3>2, <3>3
  <2> QED BY <2>1, <2>2, <2>3
<1>5. CASE Create
  BY <1>5 DEF Create, Creates, Normal
<1>6. CASE CreateFails
  BY <1>6 DEF CreateFails, Creates, Normal
<1>7. CASE Patch \/ PatchFails
  BY <1>7 DEF Patch, PatchFails, EndReconcile
<1>8. CASE Restart
  BY <1>8 DEF Restart, EndReconcile
<1>9. CASE UNCHANGED rvars
  BY <1>9
<1>10. ASSUME NEW p \in Pods,
              SyncPod(p) \/ CollectPod(p) \/ LosePod(p) \/ PodStep(p) \/ CrashPod(p)
       PROVE  UNCHANGED rvars
  BY <1>10 DEF SyncPod, CollectPod, LosePod, PodStep, CrashPod, StartExec, EndExec, ExitPod
<1>11. SyncPlaybook \/ Retry \/ Stray \/ UserDeletes \/ UNCHANGED vars => UNCHANGED rvars
  BY DEF SyncPlaybook, Retry, Stray, UserDeletes, vars
<1> QED BY <1>1, <1>2, <1>3, <1>4, <1>5, <1>6, <1>7, <1>8, <1>9, <1>10, <1>11
        DEF Next, Reconcile

LEMMA PodsLagStep == TypeOK /\ PodsLag /\ [Next]_vars => PodsLag'
<1> SUFFICES ASSUME TypeOK, PodsLag, [Next]_vars, NEW q \in Pods
             PROVE  PodLags(q)'
  BY DEF PodsLag
<1>0. PodLags(q)
  BY DEF PodsLag
<1> USE <1>0 DEF PodLags, TypeOK
<1>1. pods' = pods /\ cpods' = cpods => PodLags(q)'
  OBVIOUS
<1>2. CASE ReconcileDelete
  BY <1>2 DEF ReconcileDelete, Exists, cache
<1>3. CASE Create \/ CreateFails
  <2>1. pods' = pods \/ CreatePod
    BY <1>3 DEF Create, CreateFails
  <2>2. cpods' = cpods
    BY <1>3 DEF Create, CreateFails, cache
  <2> QED BY <1>1, <2>1, <2>2 DEF CreatePod
<1>4. CASE Restart
  BY <1>4 DEF Restart, api
<1>5. ASSUME NEW p \in Pods,
              SyncPod(p) \/ CollectPod(p) \/ LosePod(p) \/ PodStep(p) \/ CrashPod(p)
       PROVE  PodLags(q)'
  <2>1. CASE SyncPod(p)
    BY <2>1 DEF SyncPod, api
  <2>2. CASE CollectPod(p) \/ LosePod(p)
    BY <2>2 DEF CollectPod, LosePod, Exists, cache
  <2>3. CASE StartExec(p) \/ EndExec(p)
    BY <1>1, <2>3 DEF StartExec, EndExec, cache
  <2>4. CASE ExitPod(p) \/ CrashPod(p)
    BY <2>4 DEF ExitPod, CrashPod, cache
  <2> QED BY <1>5, <2>1, <2>2, <2>3, <2>4 DEF PodStep
<1>6. CASE \/ Get \/ AddFinalizer \/ ReconcileNormal \/ Patch \/ PatchFails
           \/ SyncPlaybook \/ Retry \/ Stray \/ UserDeletes \/ UNCHANGED vars
  BY <1>1, <1>6 DEF Get, AddFinalizer, ReconcileNormal, Patch, PatchFails, SyncPlaybook, Retry,
         Stray, UserDeletes, api, cache, vars
<1> HIDE DEF PodLags, TypeOK
<1> QED BY <1>1, <1>2, <1>3, <1>4, <1>5, <1>6 DEF Next, Reconcile

\* A step keeps the copies of the phase in order, and does not set it back.
PhasesKept == /\ PhasesLag'
              /\ pb.live /\ pb'.live =>
                   Rank(pb'.phase) \in {Rank(pb.phase), Rank(pb.phase) + 1}

LEMMA PhasesStep == PhaseInv /\ [Next]_vars => PhasesKept
<1> SUFFICES ASSUME PhaseInv, [Next]_vars PROVE PhasesKept
  OBVIOUS
<1>0. /\ TypeOK /\ WorkFits /\ PodsLag /\ PhasesLag
      /\ pb.phase \in Phase /\ cpb.phase \in Phase /\ base.phase \in Phase
      /\ work.phase \in Phase
      /\ \A p \in Pods : old[p].phase \in Phase
      /\ Rank(pb.phase) \in 0 .. 3 /\ Rank(cpb.phase) \in 0 .. 3
      /\ Rank(base.phase) \in 0 .. 3
      /\ \A p \in Pods : Rank(old[p].phase) \in 0 .. 3
  BY PlaybookFields, RankFacts DEF PhaseInv, TypeOK
<1>1. ASSUME UNCHANGED <<pb, cpb>>,
             rc' # "idle" => rc # "idle" /\ base' = base,
             \A p \in Pods : /\ pods'[p] # "none" => pods[p] # "none"
                             /\ old'[p] = old[p] \/ old'[p] = Unread
      PROVE  PhasesKept
  <2>1. \A p \in Pods : /\ Rank(old'[p].phase) \in 0 .. 3
                       /\ Rank(old'[p].phase) <= Rank(old[p].phase)
    BY <1>0, <1>1, GoneFacts, RankFacts
  <2> QED BY <1>0, <1>1, <2>1 DEF PhasesLag, PhasesKept
<1>2. CASE Get
  <2>1. UNCHANGED <<pb, cpb, pods, old>>
        /\ (rc' # "idle" => base' = cpb \/ (rc # "idle" /\ base' = base))
    BY <1>2 DEF Get, api, cache
  <2> QED BY <1>0, <2>1 DEF PhasesLag, PhasesKept
<1>3. CASE AddFinalizer \/ ReconcileNormal \/ ReconcileDelete
  <2>1. UNCHANGED <<pb, cpb, base, old>> /\ rc # "idle"
    BY <1>3 DEF AddFinalizer, ReconcileNormal, ReconcileDelete, Normal, api, cache
  <2>2. \A p \in Pods : pods'[p] # "none" => pods[p] # "none"
    BY <1>3 DEF AddFinalizer, ReconcileNormal, ReconcileDelete, Exists, api
  <2> QED BY <1>1, <2>1, <2>2
<1>4. CASE Create \/ CreateFails
  <2>1. UNCHANGED <<pb, cpb, base, old>> /\ rc # "idle" /\ base.phase = "Running"
    BY <1>0, <1>4 DEF Create, CreateFails, Creates, Normal, WorkFits, cache
  <2>2. Rank(base.phase) = 2
    BY <1>0, <2>1, RankFacts
  <2> QED BY <1>0, <2>1, <2>2 DEF PhasesLag, PhasesKept
<1>5. CASE Patch \/ PatchFails
  <2>1. UNCHANGED <<cpb, pods, old>> /\ rc' = "idle" /\ rc = "defer"
    BY <1>5 DEF Patch, PatchFails, EndReconcile, cache
  <2>2. CASE pb.live
    <3>1. PICK m \in Playbook : /\ pb' = Collected(m)
                                /\ m.phase # pb.phase =>
                                     m.phase = Wanted.phase /\ base.phase # Wanted.phase
      BY <1>0, <1>5, <2>2, PatchEffect
    <3>2. pb'.live => pb' = m
      BY <3>1, GoneFacts DEF Collected
    <3>3. m.phase # pb.phase =>
            /\ Rank(m.phase) >= Rank(pb.phase)
            /\ Rank(m.phase) <= Rank(pb.phase) + 1
            /\ Rank(m.phase) <= Rank(cpb.phase) + 1
      <4>1. CASE Wanted.phase = work.phase
        BY <1>0, <2>1, <2>2, <3>1, <4>1 DEF WorkFits, PhasesLag
      <4>2. CASE Wanted.phase # work.phase
        <5>1. PICK p \in Listed : Final(Wanted.phase)
          BY <1>0, <4>2, WantedFacts
        <5>2. p \in Pods /\ pods[p] # "none"
          BY <1>0, <5>1 DEF Listed, PodsLag, PodLags
        <5>3. Rank(cpb.phase) >= 2 /\ Rank(base.phase) >= 2
          BY <1>0, <2>1, <2>2, <5>2 DEF PhasesLag, PhasesKept
        <5>4. Rank(Wanted.phase) = 3
          BY <1>0, <5>1, WantedFacts, RankFacts
        <5> QED BY <1>0, <2>1, <2>2, <3>1, <5>3, <5>4 DEF PhasesLag, PhasesKept
      <4> QED BY <4>1, <4>2
    <3>4. m.phase \in Phase /\ Rank(m.phase) \in 0 .. 3
      BY PlaybookFields, RankFacts
    <3>5. /\ Rank(m.phase) >= Rank(pb.phase)
          /\ Rank(m.phase) <= Rank(pb.phase) + 1
          /\ Rank(m.phase) <= Rank(cpb.phase) + 1
      BY <1>0, <2>2, <3>3 DEF PhasesLag, PhasesKept
    <3> QED BY <1>0, <2>1, <2>2, <3>2, <3>4, <3>5 DEF PhasesLag, PhasesKept
  <2>3. CASE ~ pb.live
    <3>1. pb' = pb
      BY <1>5, <2>3 DEF Patch, PatchFails
    <3> QED BY <2>3, <3>1 DEF PhasesLag, PhasesKept
  <2> QED BY <2>2, <2>3
<1>6. CASE SyncPlaybook
  <2>1. UNCHANGED <<pb, pods, old, base, rc>> /\ cpb' = pb
    BY <1>6 DEF SyncPlaybook, api, rvars
  <2> QED BY <1>0, <2>1 DEF PhasesLag, PhasesKept
<1>7. CASE Restart
  <2>1. UNCHANGED <<pb, pods, old>> /\ cpb' = pb /\ rc' = "idle"
    BY <1>7 DEF Restart, api, EndReconcile
  <2> QED BY <1>0, <2>1 DEF PhasesLag, PhasesKept
<1>8. CASE UserDeletes
  <2>1. UNCHANGED <<cpb, pods, old, base, rc>>
    BY <1>8 DEF UserDeletes, cache, rvars
  <2>2. pb.live /\ (pb'.live => pb'.phase = pb.phase)
    BY <1>0, <1>8, GoneFacts DEF UserDeletes, Collected, TypeOK, Playbook
  <2> QED BY <1>0, <2>1, <2>2 DEF PhasesLag, PhasesKept
<1>9. CASE Retry \/ Stray \/ UNCHANGED vars
  <2>1. UNCHANGED <<pb, cpb, pods, old, base, rc>>
    BY <1>9 DEF Retry, Stray, vars, api, cache, rvars
  <2> QED BY <1>1, <2>1
<1>10. ASSUME NEW p \in Pods,
              SyncPod(p) \/ CollectPod(p) \/ LosePod(p) \/ PodStep(p) \/ CrashPod(p)
       PROVE  PhasesKept
  <2>1. CASE StartExec(p)
    <3>1. UNCHANGED <<pb, cpb, pods, base, rc>>
      BY <2>1 DEF StartExec, cache, rvars
    <3>2. \A q \in Pods : old'[q].phase = old[q].phase \/ old'[q].phase = pb.phase
      BY <1>0, <2>1 DEF StartExec, TypeOK
    <3> QED BY <1>0, <3>1, <3>2 DEF PhasesLag, PhasesKept
  <2>2. CASE EndExec(p)
    <3>1. UNCHANGED <<cpb, pods, base, rc>> /\ pods[p] = "active"
      BY <2>2 DEF EndExec, cache, rvars
    <3>2. \A q \in Pods : old'[q] = old[q] \/ old'[q] = Unread
      BY <1>0, <2>2 DEF EndExec, TypeOK
    <3>3. \A q \in Pods : /\ Rank(old'[q].phase) \in 0 .. 3
                         /\ Rank(old'[q].phase) <= Rank(old[q].phase)
      BY <1>0, <3>2, GoneFacts, RankFacts
    <3>4. /\ pb'.live = pb.live
          /\ pb'.phase \in {pb.phase, "Succeeded", "Failed"}
      BY <1>0, <2>2, EndEffect
    <3>5. pb'.phase = pb.phase \/ Rank(pb'.phase) = 3
      BY <3>4, RankFacts DEF Phase, Final
    <3>6. pb.live => /\ Rank(cpb.phase) >= 2 /\ Rank(pb.phase) >= 2
                     /\ rc # "idle" => Rank(base.phase) >= 2
      BY <1>0, <3>1 DEF PhasesLag, PhasesKept
    <3> QED BY <1>0, <3>1, <3>3, <3>4, <3>5, <3>6 DEF PhasesLag, PhasesKept
  <2>3. CASE SyncPod(p) \/ CollectPod(p) \/ LosePod(p) \/ ExitPod(p) \/ CrashPod(p)
    <3>1. UNCHANGED <<pb, cpb, base, rc>>
      BY <2>3 DEF SyncPod, CollectPod, LosePod, ExitPod, CrashPod, api, cache, rvars
    <3>2. \A q \in Pods : pods'[q] # "none" => pods[q] # "none"
      BY <1>0, <2>3 DEF SyncPod, CollectPod, LosePod, ExitPod, CrashPod, Exists, api, TypeOK
    <3>3. \A q \in Pods : old'[q] = old[q] \/ old'[q] = Unread
      BY <1>0, <2>3 DEF SyncPod, CollectPod, LosePod, ExitPod, CrashPod, api, TypeOK
    <3> QED BY <1>1, <3>1, <3>2, <3>3
  <2> QED BY <1>10, <2>1, <2>2, <2>3 DEF PodStep
<1> QED BY <1>2, <1>3, <1>4, <1>5, <1>6, <1>7, <1>8, <1>9, <1>10 DEF Next, Reconcile

LEMMA PhaseInit == Init => PhaseInv
<1> SUFFICES ASSUME Init PROVE PhaseInv
  OBVIOUS
<1>1. /\ pb.phase = "None" /\ cpb.phase = "None"
      /\ rc = "idle"
      /\ \A p \in Pods : pods[p] = "none" /\ cpods[p] = "none" /\ old[p].phase = "None"
  BY GoneFacts DEF Init
<1>2. Rank("None") = 0
  BY DEF Rank
<1>3. WorkFits /\ PodsLag /\ PhasesLag
  BY <1>1, <1>2 DEF WorkFits, PodsLag, PodLags, PhasesLag
<1> QED BY <1>3, TypeInit DEF PhaseInv

LEMMA PhaseStep == PhaseInv /\ [Next]_vars => PhaseInv'
  BY TypeStep, WorkStep, PodsLagStep, PhasesStep DEF PhaseInv, PhasesKept

LEMMA PhaseInvariant == Spec => []PhaseInv
  BY PhaseInit, PhaseStep, PTL DEF Spec

\* The merge patches of the controller and of the executors never set the phase
\* back and skip none, however far the caches lag, whatever fails and however
\* many pods there are.
THEOREM PhaseForwardHolds == Spec => PhaseForward
<1>1. PhaseInv /\ [Next]_vars =>
        [pb.live /\ pb'.live =>
           Rank(pb'.phase) \in {Rank(pb.phase), Rank(pb.phase) + 1}]_vars
  BY PhasesStep DEF PhasesKept
<1> QED BY <1>1, PhaseInvariant, PTL DEF Spec, PhaseForward

\* A pod is created only after Running has reached the API server.
THEOREM PodsAfterRunningHolds == Spec => []PodsAfterRunning
<1>1. PhaseInv => PodsAfterRunning
  <2> SUFFICES ASSUME PhaseInv, NEW p \in Pods, Exists(p), pb.live
               PROVE  Rank(pb.phase) >= 2
    BY DEF PodsAfterRunning
  <2>1. Rank(pb.phase) \in 0 .. 3 /\ Rank(cpb.phase) \in 0 .. 3
    BY PlaybookFields, RankFacts DEF PhaseInv, TypeOK
  <2> QED BY <2>1 DEF PhaseInv, PhasesLag, Exists
<1> QED BY <1>1, PhaseInvariant, PTL

-----------------------------------------------------------------------------
(* The cause of the final phase *)

LEMMA CauseInit == Init => CauseInv
  BY GoneFacts DEF Init, CauseInv, Caused, PodCause

\* An executor that has ended well, or not, keeps that.
EndKept(p) == /\ exec[p] \in {"ok", "late"} => exec'[p] \in {"ok", "late"}
              /\ exec[p] \in {"failed", "late"} => exec'[p] \in {"failed", "late"}

LEMMA PodCauseStep ==
  PhaseInv /\ CauseInv /\ [Next]_vars => \A p \in Pods : PodCause(p)' /\ EndKept(p)
<1> SUFFICES ASSUME PhaseInv, CauseInv, [Next]_vars, NEW q \in Pods
             PROVE  PodCause(q)' /\ EndKept(q)
  OBVIOUS
<1>0. TypeOK /\ PodCause(q) /\ PodLags(q)
  BY DEF CauseInv, PhaseInv, PodsLag
<1> USE <1>0 DEF PodCause, EndKept
<1>1. ASSUME UNCHANGED <<exec, cpods>>,
             pods'[q] # pods[q] => pods'[q] \in {"active", "gone"},
             pods'[q] = "active" => pods[q] \in {"none", "active"}
      PROVE  PodCause(q)' /\ EndKept(q)
  BY <1>1 DEF TypeOK, PodLags, PodState
<1>2. CASE ReconcileDelete
  BY <1>1, <1>2 DEF ReconcileDelete, cache
<1>3. CASE Create \/ CreateFails
  <2>1. UNCHANGED <<exec, cpods>> /\ (pods' = pods \/ CreatePod)
    BY <1>3 DEF Create, CreateFails, cache
  <2> QED BY <1>1, <2>1 DEF CreatePod, TypeOK
<1>4. CASE Restart
  BY <1>4 DEF Restart, api
<1>5. ASSUME NEW p \in Pods,
             SyncPod(p) \/ CollectPod(p) \/ LosePod(p) \/ PodStep(p) \/ CrashPod(p)
      PROVE  PodCause(q)' /\ EndKept(q)
  <2>1. CASE SyncPod(p)
    BY <2>1 DEF SyncPod, api, TypeOK
  <2>2. CASE CollectPod(p) \/ LosePod(p)
    <3>1. /\ UNCHANGED <<exec, cpods>>
          /\ pods'[q] = pods[q] \/ pods'[q] = "gone"
      BY <2>2 DEF CollectPod, LosePod, cache, TypeOK
    <3> QED BY <1>1, <3>1
  <2>3. CASE StartExec(p)
    BY <2>3 DEF StartExec, cache, TypeOK
  <2>4. CASE EndExec(p)
    <3>1. \E end \in {"ok", "failed"} : exec' = [exec EXCEPT ![p] = end]
      BY <2>4, EndEffect
    <3> QED BY <2>4, <3>1 DEF EndExec, cache, TypeOK, PodLags
  <2>5. CASE ExitPod(p)
    BY <2>5 DEF ExitPod, cache, TypeOK
  <2>6. CASE CrashPod(p)
    BY <2>6 DEF CrashPod, cache, TypeOK, PodLags
  <2> QED BY <1>5, <2>1, <2>2, <2>3, <2>4, <2>5, <2>6 DEF PodStep
<1>6. CASE \/ Get \/ AddFinalizer \/ ReconcileNormal \/ Patch \/ PatchFails
           \/ SyncPlaybook \/ Retry \/ Stray \/ UserDeletes \/ UNCHANGED vars
  <2>1. UNCHANGED <<exec, pods, cpods>>
    BY <1>6 DEF Get, AddFinalizer, ReconcileNormal, Patch, PatchFails, SyncPlaybook,
                Retry, Stray, UserDeletes, api, cache, vars
  <2> QED BY <1>1, <2>1
<1> HIDE DEF PodCause, EndKept
<1> QED BY <1>2, <1>3, <1>4, <1>5, <1>6 DEF Next, Reconcile

\* Caused(phase), of a phase of this state or the next, by the executors of the next.
CausedNow(phase) ==
    /\ phase = "Succeeded" => \E p \in Pods : exec'[p] \in {"ok", "late"}
    /\ phase = "Failed" => \E p \in Pods : exec'[p] \in {"failed", "late"}

LEMMA CauseStep == PhaseInv /\ CauseInv /\ [Next]_vars => CauseInv'
<1> SUFFICES ASSUME PhaseInv, CauseInv, [Next]_vars PROVE CauseInv'
  OBVIOUS
<1>0. /\ TypeOK /\ WorkFits
      /\ pb \in Playbook /\ work \in Playbook
  BY DEF PhaseInv, TypeOK
<1>1. \A p \in Pods : PodCause(p)' /\ EndKept(p)
  BY PodCauseStep
<1>2. \A phase : Caused(phase) => CausedNow(phase)
  BY <1>1 DEF Caused, CausedNow, EndKept
<1>3. /\ CausedNow(pb.phase) /\ CausedNow(cpb.phase)
      /\ CausedNow(base.phase) /\ CausedNow(work.phase)
      /\ CausedNow("None") /\ CausedNow("Pending") /\ CausedNow("Running")
  BY <1>2 DEF CauseInv, CausedNow
<1>4. (\/ Patch \/ PatchFails) => CausedNow(Wanted.phase)
  <2> SUFFICES ASSUME Patch \/ PatchFails, Wanted.phase # work.phase
               PROVE  CausedNow(Wanted.phase)
    BY <1>3
  <2>1. PICK p \in Listed : cpods[p] = Wanted.phase
    BY <1>0, WantedFacts
  <2>2. p \in Pods /\ PodCause(p) /\ EndKept(p)
    BY <1>1, <2>1 DEF Listed, CauseInv
  <2> QED BY <2>1, <2>2 DEF PodCause, EndKept, CausedNow
<1>5. CausedNow(pb'.phase)
  <2>1. CASE Patch \/ PatchFails
    <3>1. CASE pb.live
      <4>1. PICK m \in Playbook : /\ pb' = Collected(m)
                                  /\ m.phase # pb.phase => m.phase = Wanted.phase
        BY <1>0, <2>1, <3>1, PatchEffect
      <4>2. pb'.phase \in {pb.phase, Wanted.phase, "None"}
        BY <4>1, GoneFacts DEF Collected
      <4> QED BY <1>3, <1>4, <2>1, <4>2
    <3>2. CASE ~ pb.live
      BY <1>3, <2>1, <3>2 DEF Patch, PatchFails
    <3> QED BY <3>1, <3>2
  <2>2. CASE UserDeletes
    <3>1. pb'.phase \in {pb.phase, "None"}
      BY <1>0, <2>2, GoneFacts DEF UserDeletes, Collected, Playbook
    <3> QED BY <1>3, <3>1
  <2>3. ASSUME NEW p \in Pods,
               SyncPod(p) \/ CollectPod(p) \/ LosePod(p) \/ PodStep(p) \/ CrashPod(p)
        PROVE  CausedNow(pb'.phase)
    <3>1. CASE EndExec(p)
      <4>1. PICK ok \in BOOLEAN :
              /\ exec' = [exec EXCEPT ![p] = IF ok THEN "ok" ELSE "failed"]
              /\ pb'.phase # pb.phase => pb'.phase = IF ok THEN "Succeeded" ELSE "Failed"
        BY <1>0, <3>1, EndEffect
      <4>2. exec'[p] = IF ok THEN "ok" ELSE "failed"
        BY <1>0, <4>1 DEF TypeOK
      <4>3. CASE pb'.phase = pb.phase
        BY <1>3, <4>3
      <4>4. CASE pb'.phase = IF ok THEN "Succeeded" ELSE "Failed"
        BY <4>2, <4>4 DEF CausedNow
      <4> QED BY <4>1, <4>3, <4>4
    <3>2. CASE \/ SyncPod(p) \/ CollectPod(p) \/ LosePod(p) \/ StartExec(p)
               \/ ExitPod(p) \/ CrashPod(p)
      BY <1>3, <3>2 DEF SyncPod, CollectPod, LosePod, StartExec, ExitPod, CrashPod, api
    <3> QED BY <2>3, <3>1, <3>2 DEF PodStep
  <2>4. CASE \/ Get \/ AddFinalizer \/ ReconcileDelete \/ ReconcileNormal \/ Create
             \/ CreateFails \/ SyncPlaybook \/ Retry \/ Stray \/ Restart \/ UNCHANGED vars
    <3>1. pb' = pb
      BY <2>4 DEF Get, AddFinalizer, ReconcileDelete, ReconcileNormal, Create,
                  CreateFails, SyncPlaybook, Retry, Stray, Restart, api, vars
    <3> QED BY <1>3, <3>1
  <2> QED BY <2>1, <2>2, <2>3, <2>4 DEF Next, Reconcile
<1>6. cpb' = cpb \/ cpb' = pb
  <2>1. SyncPlaybook \/ Restart => cpb' = pb
    BY DEF SyncPlaybook, Restart
  <2>2. ASSUME NEW p \in Pods,
               SyncPod(p) \/ CollectPod(p) \/ LosePod(p) \/ PodStep(p) \/ CrashPod(p)
        PROVE  cpb' = cpb
    BY <2>2 DEF SyncPod, CollectPod, LosePod, PodStep, StartExec, EndExec, ExitPod,
                CrashPod, cache
  <2>3. Reconcile \/ Retry \/ Stray \/ UserDeletes \/ UNCHANGED vars => cpb' = cpb
    BY DEF Reconcile, Get, AddFinalizer, ReconcileDelete, ReconcileNormal, Create,
           CreateFails, Patch, PatchFails, Retry, Stray, UserDeletes, cache, vars
  <2> QED BY <2>1, <2>2, <2>3 DEF Next
<1>7. CausedNow(base'.phase) /\ CausedNow(work'.phase)
  <2>1. CASE Get
    BY <1>3, <2>1 DEF Get
  <2>2. CASE AddFinalizer \/ ReconcileDelete \/ ReconcileNormal
    <3>1. base' = base
      BY <2>2 DEF AddFinalizer, ReconcileDelete, ReconcileNormal
    <3>2. work'.phase \in {work.phase, "Pending", "Running"}
      BY <1>0, <2>2 DEF AddFinalizer, ReconcileDelete, ReconcileNormal, NextPhase, Playbook
    <3> QED BY <1>3, <3>1, <3>2
  <2>3. CASE Patch \/ PatchFails \/ Restart
    BY <1>3, <2>3, GoneFacts DEF Patch, PatchFails, Restart, EndReconcile
  <2>4. ASSUME NEW p \in Pods,
               SyncPod(p) \/ CollectPod(p) \/ LosePod(p) \/ PodStep(p) \/ CrashPod(p)
        PROVE  base' = base /\ work' = work
    BY <2>4 DEF SyncPod, CollectPod, LosePod, PodStep, StartExec, EndExec, ExitPod,
                CrashPod, rvars
  <2>5. Create \/ CreateFails \/ SyncPlaybook \/ Retry \/ Stray \/ UserDeletes \/ UNCHANGED vars
          => base' = base /\ work' = work
    BY DEF Create, CreateFails, SyncPlaybook, Retry, Stray, UserDeletes, rvars, vars
  <2> QED BY <1>3, <2>1, <2>2, <2>3, <2>4, <2>5 DEF Next, Reconcile
<1>8. CausedNow(cpb'.phase)
  BY <1>3, <1>6
<1> QED BY <1>1, <1>5, <1>7, <1>8 DEF CauseInv, Caused, CausedNow

\* The final phase of a playbook is that of an executor which ended so, though
\* two writers that know nothing of each other may set it.
THEOREM VerdictHasCauseHolds == Spec => []VerdictHasCause
<1>1. Init => PhaseInv /\ CauseInv
  BY PhaseInit, CauseInit
<1>2. PhaseInv /\ CauseInv /\ [Next]_vars => PhaseInv' /\ CauseInv'
  BY PhaseStep, CauseStep
<1>3. CauseInv => VerdictHasCause
  BY DEF CauseInv, Caused, VerdictHasCause
<1> QED BY <1>1, <1>2, <1>3, PTL DEF Spec

-----------------------------------------------------------------------------
(* Deletion *)

LEMMA DeletionInit == Init => DeletionInv
<1> SUFFICES ASSUME Init PROVE DeletionInv
  OBVIOUS
<1>1. pb.live /\ ~ pb.deleting /\ pb.phase = "None"
  BY GoneFacts DEF Init, Gone
<1>2. Rank("None") = 0
  BY DEF Rank
<1> QED BY <1>1, <1>2, GoneFacts DEF Init, DeletionInv

\* The pods and the executors do not touch what Reconcile reads, apart from the
\* status patch of an executor.
LEMMA PodStepFrame ==
  ASSUME NEW p \in Pods,
         SyncPod(p) \/ CollectPod(p) \/ LosePod(p) \/ PodStep(p) \/ CrashPod(p)
  PROVE  UNCHANGED <<cpb, rc, base, work, err, retry>> /\ (EndExec(p) \/ pb' = pb)
BY DEF SyncPod, CollectPod, LosePod, PodStep, StartExec, EndExec, ExitPod, CrashPod,
       api, cache, queue, rvars

\* Whether a patch of Reconcile ends the deletion, and what it keeps otherwise.
LEMMA PatchDeletion ==
  ASSUME PhaseInv, DeletionInv, Patch \/ PatchFails
  PROVE  /\ pb'.live \/ pb' = Gone
         /\ pb'.live => /\ pb.live
                        /\ pb.deleting => pb'.deleting
                        /\ pb.finalizer => pb'.finalizer
                        /\ Rank(pb'.phase) >= 1 => pb'.finalizer
         /\ pb.live /\ ~ pb'.live => base.deleting
<1>1. CASE ~ pb.live
  BY <1>1, GoneFacts DEF Patch, PatchFails, DeletionInv
<1>2. CASE pb.live
  <2>0. /\ TypeOK /\ WorkFits /\ rc = "defer"
        /\ pb \in Playbook /\ pb.phase \in Phase
    BY PlaybookFields DEF Patch, PatchFails, PhaseInv, TypeOK
  <2>1. PICK m \in Playbook :
          /\ pb' = Collected(m)
          /\ m.live /\ m.deleting = pb.deleting
          /\ m.finalizer # pb.finalizer =>
               m.finalizer = work.finalizer /\ base.finalizer # work.finalizer
          /\ m.phase # pb.phase =>
               m.phase = Wanted.phase /\ base.phase # Wanted.phase
    BY <1>2, <2>0, PatchEffect
  <2>2. CASE pb' = m
    <3>1. ~ (m.deleting /\ ~ m.finalizer)
      BY <1>2, <2>1, <2>2, GoneFacts DEF Collected
    <3>2. pb.finalizer => m.finalizer
      <4> SUFFICES ASSUME pb.finalizer, ~ m.finalizer PROVE FALSE
        OBVIOUS
      <4>1. base.finalizer /\ ~ work.finalizer
        BY <2>0, <2>1, PlaybookFields DEF TypeOK
      <4>2. base.deleting
        BY <2>0, <4>1 DEF WorkFits
      <4>3. pb.deleting
        BY <1>2, <4>2 DEF DeletionInv, Deleted
      <4> QED BY <2>1, <3>1, <4>3
    <3>3. m.phase # pb.phase => pb.finalizer
      <4>1. CASE Wanted.phase = work.phase
        BY <1>2, <2>0, <2>1, <4>1 DEF WorkFits, DeletionInv
      <4>2. CASE Wanted.phase # work.phase
        <5>1. PICK p \in Listed : Final(Wanted.phase)
          BY <2>0, <4>2, WantedFacts
        <5>2. p \in Pods /\ pods[p] # "none"
          BY <5>1 DEF PhaseInv, Listed, PodsLag, PodLags
        <5>3. Rank(cpb.phase) >= 2
          BY <1>2, <5>2 DEF PhaseInv, PhasesLag
        <5>4. cpb.finalizer
          BY <2>0, <5>3, PlaybookFields, RankFacts DEF DeletionInv, TypeOK
        <5> QED BY <1>2, <5>4 DEF DeletionInv
      <4> QED BY <4>1, <4>2
    <3>4. Rank(m.phase) >= 1 => m.finalizer
      BY <3>2, <3>3 DEF DeletionInv
    <3> QED BY <1>2, <2>1, <2>2, <3>2, <3>4
  <2>3. CASE pb' # m
    <3>1. pb' = Gone /\ m.deleting /\ ~ m.finalizer
      BY <2>1, <2>3 DEF Collected
    <3>2. pb.finalizer
      BY <2>0, <2>1, <3>1 DEF TypeOK
    <3>3. base.finalizer /\ ~ work.finalizer
      BY <2>0, <2>1, <3>1, <3>2, PlaybookFields DEF TypeOK
    <3> QED BY <2>0, <3>1, <3>3, GoneFacts DEF WorkFits
  <2> QED BY <2>2, <2>3
<1> QED BY <1>1, <1>2

LEMMA DeletionStep == PhaseInv /\ DeletionInv /\ [Next]_vars => DeletionInv'
<1> SUFFICES ASSUME PhaseInv, DeletionInv, [Next]_vars PROVE DeletionInv'
  OBVIOUS
<1>0. /\ TypeOK /\ pb \in Playbook
      /\ rc = "act" => work = base
  BY DEF PhaseInv, TypeOK, WorkFits
<1>1. ASSUME UNCHANGED <<pb, cpb>>, base' \in {base, cpb}
      PROVE  DeletionInv'
  BY <1>1 DEF DeletionInv, Deleted, Wants
<1>2. ASSUME UNCHANGED pb, cpb' = pb, base' \in {base, Gone}
      PROVE  DeletionInv'
  BY <1>2, GoneFacts DEF DeletionInv, Deleted, Wants
<1>3. ASSUME UNCHANGED cpb, base' \in {base, Gone},
             pb'.live \/ pb' = Gone,
             pb'.live => /\ pb.live
                         /\ pb.deleting => pb'.deleting
                         /\ pb.finalizer => pb'.finalizer
                         /\ Rank(pb'.phase) >= 1 => pb'.finalizer,
             ~ pb'.live => ~ Wants(cpb) /\ ~ Wants(base)
      PROVE  DeletionInv'
  <2>1. Rank(Gone.phase) = 0
    BY GoneFacts DEF Rank
  <2> QED BY <1>3, <2>1, GoneFacts DEF DeletionInv, Deleted, Wants
<1>4. CASE Get
  BY <1>1, <1>4 DEF Get, api, cache
<1>5. CASE Patch \/ PatchFails
  <2>1. UNCHANGED cpb /\ base' = Gone
    BY <1>5 DEF Patch, PatchFails, EndReconcile, cache
  <2>2. ~ pb'.live => ~ Wants(cpb) /\ ~ Wants(base)
    BY <1>5, PatchDeletion DEF DeletionInv, Deleted, Wants
  <2> QED BY <1>3, <1>5, <2>1, <2>2, PatchDeletion
<1>6. CASE SyncPlaybook
  BY <1>2, <1>6 DEF SyncPlaybook, api, rvars
<1>7. CASE Restart
  BY <1>2, <1>7 DEF Restart, EndReconcile, api
<1>8. CASE UserDeletes
  <2>1. UNCHANGED <<cpb, base>>
    BY <1>8 DEF UserDeletes, cache, rvars
  <2>2. CASE pb.finalizer
    <3>1. /\ pb'.live = pb.live /\ pb'.deleting
          /\ pb'.finalizer /\ pb.live
      BY <1>0, <1>8, <2>2 DEF UserDeletes, Collected, Playbook
    <3> QED BY <1>3, <2>1, <3>1
  <2>3. CASE ~ pb.finalizer
    <3>1. pb' = Gone
      BY <1>0, <1>8, <2>3 DEF UserDeletes, Collected, Playbook
    <3>2. ~ Wants(cpb) /\ ~ Wants(base)
      BY <1>8, <2>3 DEF UserDeletes, DeletionInv, Wants
    <3> QED BY <1>3, <2>1, <3>1, <3>2, GoneFacts
  <2> QED BY <2>2, <2>3
<1>9. ASSUME NEW p \in Pods,
             SyncPod(p) \/ CollectPod(p) \/ LosePod(p) \/ PodStep(p) \/ CrashPod(p)
      PROVE  DeletionInv'
  <2>1. CASE EndExec(p)
    <3>1. UNCHANGED <<cpb, base>>
      BY <1>9, PodStepFrame
    <3>2. /\ pb'.live = pb.live
          /\ pb'.deleting = pb.deleting
          /\ pb'.finalizer = pb.finalizer
          /\ pb'.phase # pb.phase => pb'.phase \in {"Succeeded", "Failed"}
      BY <1>0, <2>1, EndEffect
    <3>3. CASE pb.live
      <4>1. pods[p] = "active"
        BY <2>1 DEF EndExec
      <4>2. Rank(cpb.phase) >= 2
        BY <3>3, <4>1 DEF PhaseInv, PhasesLag
      <4>3. cpb.finalizer
        BY <1>0, <4>2, PlaybookFields, RankFacts DEF DeletionInv, TypeOK
      <4>4. pb.finalizer
        BY <3>3, <4>3 DEF DeletionInv
      <4> QED BY <1>3, <3>1, <3>2, <3>3, <4>4
    <3>4. CASE ~ pb.live
      BY <1>1, <2>1, <3>1, <3>4 DEF EndExec
    <3> QED BY <3>3, <3>4
  <2>2. CASE pb' = pb
    BY <1>1, <1>9, <2>2, PodStepFrame
  <2> QED BY <1>9, <2>1, <2>2, PodStepFrame
<1>10. CASE \/ AddFinalizer \/ ReconcileDelete \/ ReconcileNormal \/ Create
            \/ CreateFails \/ Retry \/ Stray \/ UNCHANGED vars
  <2>1. UNCHANGED <<pb, cpb, base>>
    BY <1>10 DEF AddFinalizer, ReconcileDelete, ReconcileNormal, Create, CreateFails,
                 Retry, Stray, api, cache, rvars, vars
  <2> QED BY <1>1, <2>1
<1> QED BY <1>4, <1>5, <1>6, <1>7, <1>8, <1>9, <1>10 DEF Next, Reconcile

-----------------------------------------------------------------------------
(* One pod *)

LEMMA SettledInit == Init => SettledInv
  BY GoneFacts DEF Init, SettledInv, SinglePod, Created, Deleted, Wants

\* Once there is a pod, or Reconcile is about to create one, the cache has
\* nothing to learn of a playbook that still wants a pod.
LEMMA NoNews ==
  ASSUME PhaseInv, DeletionInv, SinglePod, Wants(pb),
         Created # {} \/ (rc = "act" /\ Wants(base))
  PROVE  cpb = pb
<1>0. /\ TypeOK /\ pb.live /\ pb \in Playbook /\ cpb \in Playbook
      /\ pb.phase = "Running" /\ cpb.phase \in Phase
      /\ Rank(pb.phase) = 2 /\ Rank(cpb.phase) \in 0 .. 3
  BY PlaybookFields, RankFacts DEF PhaseInv, TypeOK, Wants, Deleted, Phase
<1>1. Rank(cpb.phase) >= 2
  <2>1. CASE Created # {}
    BY <1>0, <2>1 DEF PhaseInv, PhasesLag, Created
  <2>2. CASE rc = "act" /\ Wants(base)
    <3>1. Rank(base.phase) = 2
      BY <2>2, RankFacts DEF Wants, Phase
    <3> QED BY <1>0, <2>2, <3>1 DEF PhaseInv, PhasesLag
  <2> QED BY <2>1, <2>2
<1>2. cpb.phase = "Running"
  BY <1>0, <1>1, RankFacts DEF PhaseInv, PhasesLag
<1>3. cpb.live
  BY <1>2, GoneFacts DEF DeletionInv
<1>4. cpb.finalizer /\ ~ cpb.deleting
  BY <1>0, <1>1 DEF DeletionInv, Wants
<1>5. pb.finalizer /\ ~ pb.deleting
  BY DEF Wants, Deleted
<1>6. cpb.reason = "None" /\ pb.reason = "None"
  BY <1>0, <1>2, <1>3, <1>4, <1>5 DEF SinglePod, Deleted, Final
<1> QED BY <1>0, <1>2, <1>3, <1>4, <1>5, <1>6 DEF Playbook

\* While the phase is not final, nobody gives a reason to a playbook that stays.
LEMMA ReasonStep ==
  ASSUME PhaseInv, DeletionInv, SinglePod, [Next]_vars, pb' # pb,
         ~ Deleted(pb'), ~ Final(pb'.phase)
  PROVE  pb'.reason = "None"
<1>0. TypeOK /\ WorkFits /\ pb \in Playbook /\ pb.phase \in Phase /\ base.phase \in Phase
  BY PlaybookFields DEF PhaseInv, TypeOK
<1>1. CASE Patch \/ PatchFails
  <2>1. pb.live /\ rc = "defer"
    BY <1>1 DEF Patch, PatchFails
  <2>2. PICK m \in Playbook :
          /\ pb' = Collected(m)
          /\ m.live /\ m.deleting = pb.deleting
          /\ m.reason # pb.reason =>
               /\ base.reason # Wanted.reason
               /\ base.phase # Wanted.phase => m.phase = Wanted.phase
    BY <1>0, <1>1, <2>1, PatchEffect
  <2>3. pb' = m /\ ~ pb.deleting
    BY <2>2, GoneFacts DEF Collected, Deleted
  <2>4. ~ Final(pb.phase)
    <3>1. m.phase \in Phase
      BY PlaybookFields
    <3>2. Rank(m.phase) \in {Rank(pb.phase), Rank(pb.phase) + 1}
      BY <2>1, <2>2, <2>3, PhasesStep DEF PhasesKept
    <3> QED BY <1>0, <2>3, <3>1, <3>2, RankFacts
  <2>5. pb.reason = "None"
    BY <2>1, <2>3, <2>4 DEF SinglePod, Deleted
  <2>6. CASE m.reason # pb.reason
    <3>1. err \/ (Wanted.phase = "Failed" /\ work.phase # "Failed")
      BY <1>0, <2>1, <2>2, <2>6, WantedFacts DEF WorkFits
    <3>2. ~ err
      BY <2>1, <2>3 DEF SinglePod, DeletionInv, Deleted
    <3>3. base.phase # "Failed"
      <4>1. Rank("Pending") = 1 /\ Rank("Running") = 2 /\ Rank("Failed") = 3
        BY DEF Rank
      <4> QED BY <2>1, <3>1, <3>2, <4>1 DEF PhaseInv, WorkFits
    <3> QED BY <2>2, <2>3, <2>6, <3>1, <3>2, <3>3 DEF Final
  <2> QED BY <2>3, <2>5, <2>6
<1>2. CASE UserDeletes
  BY <1>0, <1>2, GoneFacts DEF UserDeletes, Collected, Deleted, Playbook
<1>3. ASSUME NEW p \in Pods,
             SyncPod(p) \/ CollectPod(p) \/ LosePod(p) \/ PodStep(p) \/ CrashPod(p)
      PROVE  pb'.reason = "None"
  <2>1. EndExec(p)
    BY <1>3, PodStepFrame
  <2>2. /\ pb'.live = pb.live
        /\ pb'.deleting = pb.deleting
        /\ pb'.phase # pb.phase => pb'.phase \in {"Succeeded", "Failed"}
        /\ pb'.reason # pb.reason => \/ pb'.phase = "Failed"
                                     \/ pb.live /\ old[p].phase = "Failed"
    BY <1>0, <2>1, EndEffect
  <2>3. pb'.phase = pb.phase /\ pb.live
    BY <2>2 DEF Final, Deleted
  <2>4. pb.reason = "None"
    BY <2>2, <2>3 DEF SinglePod, Deleted
  <2>5. old[p].phase # "Failed"
    <3>1. old[p].phase \in Phase /\ Rank(old[p].phase) <= Rank(pb.phase)
      BY <1>0, <2>3 DEF PhaseInv, PhasesLag, TypeOK
    <3>2. Rank(pb.phase) \in 0 .. 2
      BY <1>0, <2>3, RankFacts
    <3> QED BY <3>1, <3>2, RankFacts DEF Final
  <2> QED BY <2>2, <2>3, <2>4, <2>5 DEF Final
<1>4. CASE \/ Get \/ AddFinalizer \/ ReconcileDelete \/ ReconcileNormal \/ Create
           \/ CreateFails \/ SyncPlaybook \/ Retry \/ Stray \/ Restart \/ UNCHANGED vars
  BY <1>4 DEF Get, AddFinalizer, ReconcileDelete, ReconcileNormal, Create,
              CreateFails, SyncPlaybook, Retry, Stray, Restart, api, vars
<1> QED BY <1>1, <1>2, <1>3, <1>4 DEF Next, Reconcile

LEMMA SettledStep == PhaseInv /\ DeletionInv /\ SettledInv /\ [Next]_vars => SettledInv'
<1> SUFFICES ASSUME PhaseInv, DeletionInv, SettledInv, [Next]_vars, settled'
             PROVE  SinglePod'
  BY DEF SettledInv
<1>0. /\ TypeOK /\ ~ Wants(Gone)
      /\ rc = "act" => work = base
  BY GoneFacts DEF PhaseInv, WorkFits, Wants, Deleted
<1>1. SinglePod
  <2>1. Disturb(TRUE) \/ UNCHANGED bounds => settled
    BY <1>0, DisturbFacts DEF bounds
  <2>2. ~ Disturb(FALSE)
    BY <1>0, DisturbFacts
  <2>3. ASSUME NEW p \in Pods,
               SyncPod(p) \/ CollectPod(p) \/ LosePod(p) \/ PodStep(p) \/ CrashPod(p)
        PROVE  settled
    BY <2>1, <2>2, <2>3 DEF SyncPod, CollectPod, LosePod, PodStep, StartExec, EndExec,
                            ExitPod, CrashPod
  <2>4. Reconcile \/ SyncPlaybook \/ Retry \/ Stray \/ Restart \/ UserDeletes \/ UNCHANGED vars
          => settled
    BY <2>1, <2>2 DEF Reconcile, Get, AddFinalizer, ReconcileDelete, ReconcileNormal,
                      Create, CreateFails, Patch, PatchFails, SyncPlaybook, Retry, Stray,
                      Restart, UserDeletes, vars
  <2> QED BY <2>3, <2>4 DEF Next, SettledInv
<1>2. /\ ~ CreateFails /\ ~ PatchFails /\ ~ Stray
      /\ \A p \in Pods : ~ LosePod(p)
  BY <1>0, DisturbFacts DEF CreateFails, PatchFails, Stray, LosePod
<1>3. CASE Get
  <2>1. /\ UNCHANGED <<pb, cpb, pods, cpods, retry>>
        /\ queued /\ ~ queued' /\ ~ err'
        /\ base' \in {base, cpb}
        /\ rc' = "act" => base' = cpb
    BY <1>3 DEF Get, api, cache
  <2>2. Listed' = Listed /\ Created' = Created
    BY <2>1 DEF Listed, Created
  <2> QED BY <1>1, <2>1, <2>2 DEF SinglePod, Deleted, Wants
<1>4. CASE AddFinalizer \/ ReconcileNormal
  <2>1. /\ UNCHANGED <<pb, cpb, pods, cpods, retry, queued, err, base>>
        /\ rc' = "defer"
    BY <1>4 DEF AddFinalizer, ReconcileNormal, api, cache, queue
  <2>2. Listed' = Listed /\ Created' = Created
    BY <2>1 DEF Listed, Created
  <2> QED BY <1>1, <2>1, <2>2 DEF SinglePod, Deleted, Wants
<1>5. CASE ReconcileDelete
  <2>1. /\ UNCHANGED <<pb, cpb, cpods, retry, queued, base>>
        /\ rc' = "defer" /\ base.deleting
    BY <1>0, <1>5 DEF ReconcileDelete, cache, queue
  <2>2. \A p \in Pods : pods'[p] = "none" <=> pods[p] = "none"
    BY <1>0, <1>5 DEF ReconcileDelete, Exists, TypeOK
  <2>3. Listed' = Listed /\ Created' = Created
    BY <2>1, <2>2 DEF Listed, Created
  <2>4. Deleted(pb) /\ ~ Wants(cpb) /\ ~ Wants(base)
    BY <2>1 DEF DeletionInv, Wants, Deleted
  <2> QED BY <1>1, <2>1, <2>3, <2>4 DEF SinglePod, Deleted, Wants
<1>6. CASE Create
  <2>1. /\ UNCHANGED <<pb, cpb, cpods, retry, queued, err, base>>
        /\ rc = "act" /\ rc' = "defer" /\ Listed = {} /\ Wants(base)
    BY <1>0, <1>6 DEF Create, Creates, Normal, cache, queue, Wants, Deleted, TypeOK
  <2>2. Created = {} /\ (queued => ~ Wants(cpb))
    BY <1>1, <2>1 DEF SinglePod
  <2>3. PICK p \in Pods : pods' = [pods EXCEPT ![p] = "active"]
    BY <1>6 DEF Create, CreatePod
  <2>4. \A q \in Pods : q # p => pods'[q] = "none"
    BY <1>0, <2>2, <2>3 DEF Created, TypeOK
  <2>5. /\ \A q \in Created' : q = p
        /\ \A q \in Pods : pods'[q] # "gone"
    BY <1>0, <2>3, <2>4 DEF Created, TypeOK
  <2>6. Listed' = Listed
    BY <2>1 DEF Listed
  <2> QED BY <1>1, <2>1, <2>2, <2>5, <2>6 DEF SinglePod, Deleted, Wants
<1>7. CASE Patch
  <2>1. /\ UNCHANGED <<cpb, pods, cpods, queued>>
        /\ rc = "defer" /\ rc' = "idle" /\ base' = Gone /\ ~ err'
    BY <1>7 DEF Patch, EndReconcile, cache
  <2>2. Listed' = Listed /\ Created' = Created
    BY <2>1 DEF Listed, Created
  <2>3. Deleted(pb) => Deleted(pb')
    BY <1>7, GoneFacts, PatchDeletion DEF Deleted
  <2>4. retry' => Deleted(pb') /\ ~ Wants(cpb)
    <3>1. retry \/ err => Deleted(pb) /\ ~ Wants(cpb)
      BY <1>1 DEF SinglePod, DeletionInv, Deleted, Wants
    <3>2. CASE pb.live
      BY <1>7, <2>3, <3>1, <3>2 DEF Patch, Requeued
    <3>3. CASE ~ pb.live
      BY <2>3, <3>3 DEF DeletionInv, Deleted
    <3> QED BY <3>2, <3>3
  <2>5. ~ Deleted(pb') /\ ~ Final(pb'.phase) => pb'.reason = "None"
    BY <1>1, ReasonStep DEF SinglePod
  <2> QED BY <1>0, <1>1, <2>1, <2>2, <2>3, <2>4, <2>5 DEF SinglePod, Deleted, Wants
<1>8. CASE SyncPlaybook
  <2>1. /\ UNCHANGED <<pb, pods, cpods, retry, err, rc, base>>
        /\ cpb' = pb /\ cpb # pb /\ queued'
    BY <1>8 DEF SyncPlaybook, api, rvars
  <2>2. Listed' = Listed /\ Created' = Created
    BY <2>1 DEF Listed, Created
  <2>3. Created # {} \/ (rc = "act" /\ Wants(base)) => ~ Wants(pb)
    BY <1>1, <2>1, NoNews
  <2>4. Deleted(pb) => ~ Wants(pb)
    BY DEF Wants
  <2> QED BY <1>1, <2>1, <2>2, <2>3, <2>4 DEF SinglePod, Deleted, Wants
<1>9. CASE Retry
  <2>1. /\ UNCHANGED <<pb, cpb, pods, cpods, err, rc, base>>
        /\ retry /\ ~ retry'
    BY <1>9 DEF Retry, api, cache, rvars
  <2>2. Listed' = Listed /\ Created' = Created
    BY <2>1 DEF Listed, Created
  <2> QED BY <1>1, <2>1, <2>2 DEF SinglePod, Deleted, Wants
<1>10. CASE Restart
  <2>1. /\ UNCHANGED <<pb, pods>> /\ cpb' = pb /\ cpods' = pods
        /\ rc' = "idle" /\ base' = Gone /\ ~ err' /\ ~ retry'
    BY <1>10 DEF Restart, EndReconcile, api
  <2>2. Created' = Created /\ Listed' = {p \in Pods : pods[p] \notin {"none", "gone"}}
    BY <2>1 DEF Listed, Created
  <2>3. Deleted(pb) => ~ Wants(pb)
    BY DEF Wants
  <2>4. Listed' = {} /\ Created # {} => ~ Wants(pb)
    <3> SUFFICES ASSUME Listed' = {}, NEW p \in Created PROVE ~ Wants(pb)
      OBVIOUS
    <3>1. p \in Pods /\ pods[p] = "gone"
      BY <2>2 DEF Created
    <3> QED BY <1>1, <2>3, <3>1 DEF SinglePod
  <2> QED BY <1>0, <1>1, <2>1, <2>2, <2>3, <2>4 DEF SinglePod, Deleted, Wants
<1>11. CASE UserDeletes
  <2>1. UNCHANGED <<cpb, pods, cpods, retry, queued, err, rc, base>>
    BY <1>11 DEF UserDeletes, cache, queue, rvars
  <2>2. Listed' = Listed /\ Created' = Created
    BY <2>1 DEF Listed, Created
  <2>3. Deleted(pb')
    BY <1>0, <1>11, GoneFacts DEF UserDeletes, Collected, Deleted, TypeOK, Playbook
  <2> QED BY <1>1, <2>1, <2>2, <2>3 DEF SinglePod, Deleted, Wants
<1>12. ASSUME NEW p \in Pods,
              SyncPod(p) \/ CollectPod(p) \/ LosePod(p) \/ PodStep(p) \/ CrashPod(p)
       PROVE  SinglePod'
  <2>0. UNCHANGED <<cpb, rc, base, work, err, retry>>
    BY <1>12, PodStepFrame
  <2>1. CASE SyncPod(p)
    <3>1. /\ UNCHANGED <<pb, pods>>
          /\ cpods[p] # pods[p] /\ cpods'[p] = pods[p]
      BY <1>0, <2>1 DEF SyncPod, api, TypeOK
    <3>2. Created' = Created
      BY <3>1 DEF Created
    <3>3. CASE pods[p] = "gone"
      BY <1>1, <2>0, <3>1, <3>2, <3>3 DEF SinglePod, Deleted, Wants
    <3>4. CASE pods[p] # "gone"
      <4>1. p \in Listed'
        BY <3>1, <3>4 DEF Listed, PhaseInv, PodsLag, PodLags
      <4> QED BY <1>1, <2>0, <3>1, <3>2, <4>1 DEF SinglePod, Deleted, Wants
    <3> QED BY <3>3, <3>4
  <2>2. CASE CollectPod(p)
    <3>1. UNCHANGED <<pb, cpods, queued>> /\ ~ pb.live
      BY <2>2 DEF CollectPod, cache, queue
    <3>2. \A q \in Pods : pods'[q] = "none" <=> pods[q] = "none"
      BY <1>0, <2>2 DEF CollectPod, Exists, TypeOK
    <3>3. Listed' = Listed /\ Created' = Created
      BY <3>1, <3>2 DEF Listed, Created
    <3>4. Deleted(pb) /\ ~ Wants(cpb) /\ ~ Wants(base)
      BY <3>1 DEF DeletionInv, Deleted
    <3> QED BY <1>1, <2>0, <3>1, <3>3, <3>4 DEF SinglePod, Deleted, Wants
  <2>3. CASE PodStep(p) \/ CrashPod(p)
    <3>1. /\ UNCHANGED <<cpods, queued>>
          /\ \A q \in Pods : /\ pods'[q] = "none" <=> pods[q] = "none"
                             /\ pods'[q] = "gone" <=> pods[q] = "gone"
      BY <1>0, <2>3 DEF PodStep, StartExec, EndExec, ExitPod, CrashPod, cache, queue, TypeOK
    <3>2. Listed' = Listed /\ Created' = Created
      BY <3>1 DEF Listed, Created
    <3>3. ~ Deleted(pb') /\ ~ Final(pb'.phase) => pb'.reason = "None"
      BY <1>1, ReasonStep DEF SinglePod
    <3>4. Deleted(pb) => Deleted(pb')
      <4>1. EndExec(p) \/ pb' = pb
        BY <1>12, PodStepFrame
      <4>2. EndExec(p) => pb'.live = pb.live /\ pb'.deleting = pb.deleting
        BY <1>0, EndEffect
      <4> QED BY <4>1, <4>2 DEF Deleted
    <3> QED BY <1>1, <2>0, <3>1, <3>2, <3>3, <3>4 DEF SinglePod, Deleted, Wants
  <2> QED BY <1>2, <1>12, <2>1, <2>2, <2>3
<1>13. CASE UNCHANGED vars
  <2>1. UNCHANGED <<pb, cpb, pods, cpods, retry, queued, err, rc, base>>
    BY <1>13 DEF vars, api, cache, queue, rvars
  <2>2. Listed' = Listed /\ Created' = Created
    BY <2>1 DEF Listed, Created
  <2> QED BY <1>1, <2>1, <2>2 DEF SinglePod, Deleted, Wants
<1> QED BY <1>2, <1>3, <1>4, <1>5, <1>6, <1>7, <1>8, <1>9, <1>10, <1>11, <1>12, <1>13
        DEF Next, Reconcile

\* As long as no call has failed, no pod was deleted from outside and no request
\* came from elsewhere, a playbook has one pod at most, however far the caches lag
\* and however often the manager is restarted.
THEOREM OnePodUndisturbedHolds == Spec => []OnePodUndisturbed
<1> DEFINE Inv == PhaseInv /\ DeletionInv /\ SettledInv
<1>1. Init => Inv
  BY PhaseInit, DeletionInit, SettledInit
<1>2. Inv /\ [Next]_vars => Inv'
  BY PhaseStep, DeletionStep, SettledStep
<1>3. Inv => OnePodUndisturbed
  <2> SUFFICES ASSUME Inv, settled PROVE OnePod
    BY DEF OnePodUndisturbed
  <2> DEFINE Existing == {p \in Pods : Exists(p)}
  <2>1. \A p, q \in Existing : p = q
    BY DEF SettledInv, SinglePod, Created, Exists
  <2>2. Existing = {} \/ \E p : Existing = {p}
    BY <2>1
  <2>3. Cardinality(Existing) <= 1
    <3>1. CASE Existing = {}
      <4>1. Cardinality({}) = 0
        BY FS_EmptySet
      <4> QED BY <3>1, <4>1
    <3>2. CASE \E p : Existing = {p}
      <4>1. PICK p : Existing = {p}
        BY <3>2
      <4>2. Cardinality({p}) = 1
        BY FS_Singleton
      <4> QED BY <4>1, <4>2
    <3> QED BY <2>2, <3>1, <3>2
  <2> QED BY <2>3 DEF OnePod
<1> QED BY <1>1, <1>2, <1>3, PTL DEF Spec

-----------------------------------------------------------------------------
(* Nothing is forgotten *)

\* As long as nothing is queued, Reconcile works on what the cache has; and when
\* what it read was up to date and it asks for nothing, the playbook is at rest.
WakeInv ==
    /\ NothingForgotten
    /\ rc # "idle" /\ ~ queued => cpb = base
    /\ /\ rc = "defer" /\ ~ queued /\ ~ err
       /\ base.finalizer = Wanted.finalizer /\ base.phase = Wanted.phase
       /\ pb = base /\ cpods = pods
       => AtRest

\* Two pods that exist are more than one.
LEMMA TwoPods ==
  ASSUME NEW p \in Pods, NEW q \in Pods, p # q, Exists(p), Exists(q)
  PROVE  ~ OnePod
<1> DEFINE Existing == {r \in Pods : Exists(r)}
<1>1. IsFiniteSet(Existing)
  <2>1. IsFiniteSet(Pods)
    BY BoundsAssumption, FS_Interval DEF Pods
  <2> QED BY <2>1, FS_Subset
<1>2. Cardinality(Existing) \in Nat
  BY <1>1, FS_CardinalityType
<1>3. Cardinality(Existing) # 0
  BY <1>1, FS_EmptySet
<1>4. Cardinality(Existing) # 1
  <2> SUFFICES ASSUME Cardinality(Existing) = 1 PROVE FALSE
    OBVIOUS
  <2>1. PICK r : Existing = {r}
    BY <1>1, FS_Singleton
  <2> QED BY <2>1
<1> QED BY <1>2, <1>3, <1>4 DEF OnePod

\* When the cache has pods, and none of them has a phase to report, an executor
\* is at work or there are two pods.
LEMMA NothingReported ==
  ASSUME TypeOK, NEW w \in Playbook, ~ Final(w.phase), Listed # {},
         Reported(w).phase = w.phase, cpods = pods
  PROVE  AtRest
<1>1. PICK p \in Pods : p \in Listed
  BY DEF Listed
<1>2. cpods[p] \in {"active", "Succeeded", "Failed"} /\ Exists(p)
  BY <1>1 DEF Listed, Exists, TypeOK, PodState
<1>3. CASE cpods[p] = "active"
  BY <1>3 DEF AtRest
<1>4. CASE Listed = {p} /\ cpods[p] \in {"Succeeded", "Failed"}
  <2>1. PodPhase(Listed) = {cpods[p]}
    BY <1>4 DEF PodPhase
  <2>2. Reported(w).phase = cpods[p]
    BY <1>4, <2>1 DEF Reported, Playbook
  <2> QED BY <1>4, <2>2 DEF Final
<1>5. CASE Listed # {p}
  <2>1. PICK q \in Pods : q \in Listed /\ q # p
    BY <1>1, <1>5 DEF Listed
  <2>2. Exists(q)
    BY <2>1 DEF Listed, Exists
  <2> QED BY <1>2, <2>1, <2>2, TwoPods DEF AtRest
<1> QED BY <1>2, <1>3, <1>4, <1>5

\* What happens to a pod is news to the cache.
LEMMA PodNews ==
  ASSUME PhaseInv, [Next]_vars, cpods' = cpods, cpods' = pods'
  PROVE  pods' = pods
<1>0. TypeOK /\ PodsLag
  BY DEF PhaseInv
<1> USE <1>0 DEF TypeOK, PodsLag, PodLags
<1>1. CASE ReconcileDelete
  <2>1. PICK done \in SUBSET {p \in Pods : Exists(p)} :
          pods' = [p \in Pods |-> IF p \in done THEN "gone" ELSE pods[p]]
    BY <1>1 DEF ReconcileDelete, Listed
  <2>2. \A p \in done : pods[p] = "gone"
    BY <2>1
  <2> QED BY <2>1, <2>2 DEF Exists
<1>2. CASE Create \/ CreateFails
  <2>1. pods' = pods \/ CreatePod
    BY <1>2 DEF Create, CreateFails
  <2>2. ASSUME CreatePod PROVE FALSE
    <3>1. PICK p \in Pods : pods[p] = "none" /\ pods' = [pods EXCEPT ![p] = "active"]
      BY <2>2 DEF CreatePod
    <3>2. cpods[p] = "active"
      BY <3>1
    <3> QED BY <3>1, <3>2
  <2> QED BY <2>1, <2>2
<1>3. ASSUME NEW p \in Pods,
             SyncPod(p) \/ CollectPod(p) \/ LosePod(p) \/ PodStep(p) \/ CrashPod(p)
      PROVE  pods' = pods
  <2>1. CASE SyncPod(p)
    BY <2>1 DEF SyncPod, api
  <2>2. ASSUME CollectPod(p) \/ LosePod(p) PROVE FALSE
    <3>1. Exists(p) /\ pods' = [pods EXCEPT ![p] = "gone"]
      BY <2>2 DEF CollectPod, LosePod
    <3>2. cpods[p] = "gone"
      BY <3>1
    <3> QED BY <3>1, <3>2 DEF Exists
  <2>3. CASE StartExec(p) \/ EndExec(p)
    BY <2>3 DEF StartExec, EndExec
  <2>4. CASE ExitPod(p) \/ CrashPod(p)
    BY <2>4 DEF ExitPod, CrashPod
  <2> QED BY <1>3, <2>1, <2>2, <2>3, <2>4 DEF PodStep
<1>4. CASE \/ Get \/ AddFinalizer \/ ReconcileNormal \/ Patch \/ PatchFails
           \/ SyncPlaybook \/ Retry \/ Stray \/ Restart \/ UserDeletes \/ UNCHANGED vars
  BY <1>4 DEF Get, AddFinalizer, ReconcileNormal, Patch, PatchFails, SyncPlaybook, Retry,
         Stray, Restart, UserDeletes, api, vars
<1> QED BY <1>1, <1>2, <1>3, <1>4 DEF Next, Reconcile

\* So is a deletion that the user asks for.
LEMMA DeletionNews ==
  ASSUME TypeOK, UserDeletes, pb'.live
  PROVE  pb.live /\ ~ pb.deleting /\ pb'.deleting
<1>1. pb \in Playbook
  BY DEF TypeOK
<1> QED BY <1>1, GoneFacts DEF UserDeletes, Collected, Playbook

\* A patch that leaves the playbook as Reconcile read it has nothing to write.
LEMMA PatchNews ==
  ASSUME TypeOK, WorkFits, Patch, pb.live, pb'.live, pb' = base
  PROVE  /\ base.finalizer = Wanted.finalizer /\ base.phase = Wanted.phase
         /\ pb = base
<1> DEFINE m == MergePatch(pb, base, Wanted, Meta \cup Status)
<1>1. /\ Meta \cup Status \in PatchFields
      /\ (Meta \cup Status) \cap Meta # {} /\ (Meta \cup Status) \cap Status # {}
  BY DEF PatchFields, Meta, Status
<1>2. pb \in Playbook /\ base \in Playbook /\ work.finalizer \in BOOLEAN
  BY PlaybookFields DEF TypeOK
<1>3. /\ Wanted.finalizer \in BOOLEAN
      /\ Wanted.phase \in Phase /\ Wanted.reason \in Reason
  BY <1>2, WantedFacts
<1>4. /\ m \in Playbook /\ m.live = pb.live /\ m.deleting = pb.deleting
      /\ m.finalizer = IF base.finalizer # Wanted.finalizer THEN Wanted.finalizer
                       ELSE pb.finalizer
      /\ m.phase = IF base.phase # Wanted.phase THEN Wanted.phase ELSE pb.phase
      /\ m.reason = IF base.reason # Wanted.reason THEN Wanted.reason ELSE pb.reason
  <2> HIDE DEF m
  <2>1. m = MergePatch(pb, base, Wanted, Meta \cup Status)
    BY DEF m
  <2>2. m \in Playbook
    BY <1>1, <1>2, <1>3, <2>1, MergeFields
  <2>3. m.live = pb.live
    BY <1>1, <1>2, <1>3, <2>1, MergeFields
  <2>4. m.deleting = pb.deleting
    BY <1>1, <1>2, <1>3, <2>1, MergeFields
  <2>5. m.finalizer = IF base.finalizer # Wanted.finalizer THEN Wanted.finalizer
                      ELSE pb.finalizer
    BY <1>1, <1>2, <1>3, <2>1, MergeFields
  <2>6. m.phase = IF base.phase # Wanted.phase THEN Wanted.phase ELSE pb.phase
    BY <1>1, <1>2, <1>3, <2>1, MergeFields
  <2>7. m.reason = IF base.reason # Wanted.reason THEN Wanted.reason ELSE pb.reason
    BY <1>1, <1>2, <1>3, <2>1, MergeFields
  <2> QED BY <2>2, <2>3, <2>4, <2>5, <2>6, <2>7
<1> HIDE DEF m
<1>5. pb' = Collected(m)
  BY DEF Patch, Patched, m
<1>6. m = base
  BY <1>5, GoneFacts DEF Collected
<1>7. /\ base.finalizer = Wanted.finalizer /\ base.phase = Wanted.phase
      /\ base.reason = Wanted.reason
  BY <1>4, <1>6
<1>8. /\ pb.live = m.live /\ pb.deleting = m.deleting /\ pb.finalizer = m.finalizer
      /\ pb.phase = m.phase /\ pb.reason = m.reason
  BY <1>4, <1>7
<1>9. pb = m
  <2>1. \A o \in Playbook : o = [live |-> o.live, deleting |-> o.deleting,
                                 finalizer |-> o.finalizer, phase |-> o.phase,
                                 reason |-> o.reason]
    BY DEF Playbook
  <2> QED BY <1>2, <1>4, <1>8, <2>1
<1> QED BY <1>6, <1>7, <1>9

LEMMA WakeInit == Init => WakeInv
  BY GoneFacts DEF Init, WakeInv, NothingForgotten

\* A worker that stops has left something to be called for, or all at rest.
LEMMA IdleStep ==
  ASSUME PhaseInv, DeletionInv, WakeInv, [Next]_vars,
         pb'.live, rc' = "idle", ~ queued', ~ retry', cpb' = pb', cpods' = pods'
  PROVE  AtRest'
<1>0. TypeOK /\ WorkFits /\ queued \in BOOLEAN /\ retry \in BOOLEAN
  BY DEF PhaseInv, TypeOK
<1>1. ASSUME UNCHANGED <<pb, pods>>, AtRest PROVE AtRest'
  BY <1>1 DEF AtRest, OnePod, Exists
<1>2. CASE Get
  BY <1>2 DEF Get, Found, api, cache
<1>3. CASE Patch
  <2>1. /\ rc = "defer" /\ ~ queued
        /\ UNCHANGED <<pods, cpods, cpb>>
    BY <1>3 DEF Patch, cache
  <2>2. cpb = base
    BY <2>1 DEF WakeInv
  <2>3. pb.live
    BY <1>3 DEF Patch
  <2>4. ~ err
    BY <1>0, <1>3, <2>3 DEF Patch, Requeued
  <2>5. /\ base.finalizer = Wanted.finalizer /\ base.phase = Wanted.phase
        /\ pb = base
    BY <1>0, <1>3, <2>1, <2>2, <2>3, PatchNews
  <2>6. AtRest
    BY <2>1, <2>4, <2>5 DEF WakeInv
  <2> QED BY <1>1, <2>1, <2>2, <2>5, <2>6
<1>4. CASE UserDeletes
  <2>1. pb.live /\ ~ pb.deleting /\ pb'.deleting
    BY <1>0, <1>4, DeletionNews
  <2>2. cpb.deleting
    BY <1>4, <2>1 DEF UserDeletes, cache
  <2> QED BY <2>1, <2>2 DEF DeletionInv, Deleted
<1>5. ASSUME NEW p \in Pods, SyncPod(p) PROVE FALSE
  BY <1>0, <1>5 DEF SyncPod
<1>6. ASSUME NEW p \in Pods, EndExec(p) PROVE AtRest'
  BY <1>6 DEF EndExec, AtRest
<1>7. ASSUME NEW p \in Pods,
             CollectPod(p) \/ LosePod(p) \/ StartExec(p) \/ ExitPod(p) \/ CrashPod(p)
      PROVE  AtRest'
  <2>1. UNCHANGED <<pb, cpb, cpods, rc, queued, retry>>
    BY <1>7 DEF CollectPod, LosePod, StartExec, ExitPod, CrashPod, cache, queue, rvars
  <2>2. pods' = pods
    BY <2>1, PodNews
  <2>3. AtRest
    BY <2>1, <2>2 DEF WakeInv, NothingForgotten
  <2> QED BY <1>1, <2>1, <2>2, <2>3
<1>8. CASE UNCHANGED vars
  <2>1. UNCHANGED <<pb, pods, cpb, cpods, rc, queued, retry>>
    BY <1>8 DEF vars, api, cache, queue, rvars
  <2>2. AtRest
    BY <2>1 DEF WakeInv, NothingForgotten
  <2> QED BY <1>1, <2>1, <2>2
<1>9. CASE \/ AddFinalizer \/ ReconcileDelete \/ ReconcileNormal \/ Create \/ CreateFails
           \/ PatchFails \/ SyncPlaybook \/ Retry \/ Stray \/ Restart
  BY <1>9 DEF AddFinalizer, ReconcileDelete, ReconcileNormal, Create, CreateFails,
         PatchFails, Requeued, SyncPlaybook, Retry, Stray, Restart, api
<1> QED BY <1>2, <1>3, <1>4, <1>5, <1>6, <1>7, <1>8, <1>9 DEF Next, Reconcile, PodStep

\* Reconcile reads what the cache has; what the cache learns later is queued.
LEMMA BaseStep ==
  ASSUME PhaseInv, WakeInv, [Next]_vars, rc' # "idle", ~ queued'
  PROVE  cpb' = base'
<1>0. TypeOK /\ queued \in BOOLEAN
  BY DEF PhaseInv, TypeOK
<1>1. rc # "idle" /\ ~ queued => cpb = base
  BY DEF WakeInv
<1>2. CASE Get
  BY <1>2 DEF Get, cache
<1>3. CASE \/ AddFinalizer \/ ReconcileDelete \/ ReconcileNormal \/ Create \/ CreateFails
           \/ UserDeletes \/ UNCHANGED vars
  <2>1. UNCHANGED <<cpb, base, queued>>
    BY <1>3 DEF AddFinalizer, ReconcileDelete, ReconcileNormal, Create, CreateFails,
                UserDeletes, cache, queue, rvars, vars
  <2>2. rc # "idle"
    BY <1>3 DEF AddFinalizer, ReconcileDelete, ReconcileNormal, Normal, Create, Creates,
                CreateFails, UserDeletes, rvars, vars
  <2> QED BY <1>1, <2>1, <2>2
<1>4. CASE \/ Patch \/ PatchFails \/ SyncPlaybook \/ Retry \/ Stray \/ Restart
  BY <1>4 DEF Patch, PatchFails, SyncPlaybook, Retry, Stray, Restart, EndReconcile
<1>5. ASSUME NEW p \in Pods,
             SyncPod(p) \/ CollectPod(p) \/ LosePod(p) \/ PodStep(p) \/ CrashPod(p)
      PROVE  cpb' = base'
  <2>1. UNCHANGED <<cpb, base, rc>>
    BY <1>5, PodStepFrame
  <2>2. ~ queued
    BY <1>0, <1>5 DEF SyncPod, CollectPod, LosePod, PodStep, StartExec, EndExec, ExitPod,
                      CrashPod, queue
  <2> QED BY <1>1, <2>1, <2>2
<1> QED BY <1>2, <1>3, <1>4, <1>5 DEF Next, Reconcile

\* What reconcileDelete leaves at rest: pods of a playbook that is not completed.
LEMMA DeleteRests ==
  ASSUME PhaseInv, ReconcileDelete, [Next]_vars, ~ err',
         (base.finalizer = Wanted.finalizer)', (base.phase = Wanted.phase)',
         pb' = base', cpods' = pods'
  PROVE  AtRest'
<1>0. TypeOK /\ WorkFits /\ work \in Playbook
  BY DEF PhaseInv, TypeOK
<1>1. /\ rc = "act" /\ work.deleting /\ work = base
      /\ UNCHANGED <<pb, cpods, base>>
      /\ work' = [work EXCEPT !.finalizer = @ /\ ~ Released]
  BY <1>0 DEF ReconcileDelete, WorkFits, cache
<1>2. pods' = pods
  BY <1>1, PodNews
<1>3. work' \in Playbook /\ work'.phase = work.phase
      /\ work'.finalizer = (work.finalizer /\ ~ Released)
  BY <1>0, <1>1 DEF Playbook
<1>4. Wanted' = Reported(work')
  BY <1>1 DEF Wanted, Reported, PodPhase, Listed
<1>5. Reported(work').finalizer = work'.finalizer
  BY <1>3 DEF Reported, Playbook
<1>6. work.finalizer
  BY <1>0, <1>1 DEF TypeOK
<1>7. Listed # {}
  BY <1>1, <1>3, <1>4, <1>5, <1>6 DEF Released
<1>8. ~ Final(work.phase)
  <2> SUFFICES ASSUME Final(work.phase) PROVE FALSE
    OBVIOUS
  <2>1. pods' = [p \in Pods |-> IF p \in Listed THEN "gone" ELSE pods[p]]
    <3>1. PICK done \in SUBSET {p \in Listed : Exists(p)} :
            /\ err' = (done # Listed)
            /\ pods' = [p \in Pods |-> IF p \in done THEN "gone" ELSE pods[p]]
      BY DEF ReconcileDelete
    <3> QED BY <3>1
  <2>2. PICK p \in Listed : p \in Pods /\ cpods[p] # "gone"
    BY <1>7 DEF Listed
  <2>3. pods'[p] = "gone"
    BY <2>1, <2>2
  <2> QED BY <1>1, <2>2, <2>3
<1>9. AtRest
  BY <1>0, <1>1, <1>2, <1>3, <1>4, <1>7, <1>8, NothingReported
<1> QED BY <1>1, <1>2, <1>9 DEF AtRest, OnePod, Exists

\* And reconcileNormal: pods of a running playbook, or one that is completed.
LEMMA NormalRests ==
  ASSUME PhaseInv, ReconcileNormal, ~ err',
         (base.phase = Wanted.phase)', pb' = base', cpods' = pods'
  PROVE  AtRest'
<1>0. TypeOK /\ WorkFits /\ work \in Playbook /\ work.phase \in Phase
  BY PlaybookFields DEF PhaseInv, TypeOK
<1>1. /\ rc = "act" /\ ~ work.deleting /\ work = base
      /\ UNCHANGED <<pb, pods, cpods, base>>
      /\ work' = [work EXCEPT !.phase = NextPhase]
      /\ work.phase = "Running" => Listed # {}
  BY <1>0 DEF ReconcileNormal, Normal, WorkFits, api, cache
<1>2. NextPhase \in Phase
  BY <1>0 DEF NextPhase, Phase
<1>3. work' \in Playbook /\ work'.phase = NextPhase
  BY <1>0, <1>1, <1>2 DEF Playbook
<1>4. Wanted' = Reported(work')
  BY <1>1 DEF Wanted, Reported, PodPhase, Listed
<1>5. CASE Final(work.phase)
  <2>1. Final(pb'.phase) /\ ~ pb'.deleting
    BY <1>1, <1>5
  <2> QED BY <2>1 DEF AtRest
<1>6. CASE work.phase = "Running"
  <2>1. work'.phase = "Running" /\ ~ Final(work'.phase)
    BY <1>3, <1>6 DEF NextPhase, Final
  <2>2. Reported(work').phase = work'.phase
    BY <1>1, <1>4, <1>6, <2>1
  <2>3. AtRest
    BY <1>0, <1>1, <1>3, <1>6, <2>1, <2>2, NothingReported
  <2> QED BY <1>1, <2>3 DEF AtRest, OnePod, Exists
<1>7. CASE work.phase \in {"None", "Pending"}
  <2>1. /\ NextPhase \in {"Pending", "Running"} /\ NextPhase # work.phase
    BY <1>7 DEF NextPhase
  <2>2. Reported(work').phase \in {NextPhase, "Failed", "Succeeded"}
    BY <1>3 DEF Reported, Playbook
  <2>3. Reported(work').phase = work.phase
    BY <1>1, <1>4
  <2> QED BY <1>7, <2>1, <2>2, <2>3
<1> QED BY <1>0, <1>5, <1>6, <1>7 DEF Phase, Final

\* While Reconcile has what it read, and that is still true, it is at rest
\* unless it wants something.
LEMMA DeferStep ==
  ASSUME PhaseInv, DeletionInv, WakeInv, [Next]_vars,
         rc' = "defer", ~ queued', ~ err',
         (base.finalizer = Wanted.finalizer)', (base.phase = Wanted.phase)',
         pb' = base', cpods' = pods'
  PROVE  AtRest'
<1>0. /\ TypeOK /\ WorkFits /\ TypeOK'
      /\ queued \in BOOLEAN /\ err \in BOOLEAN
  BY TypeStep DEF PhaseInv, TypeOK
<1>1. ASSUME UNCHANGED <<pb, pods, cpods, base, work, err, rc, queued>> PROVE AtRest'
  <2>1. Wanted' = Wanted
    BY <1>1 DEF Wanted, Reported, PodPhase, Listed
  <2>2. AtRest
    BY <1>1, <2>1 DEF WakeInv
  <2> QED BY <1>1, <2>2 DEF AtRest, OnePod, Exists
<1>2. CASE AddFinalizer
  <2>1. /\ work' = [work EXCEPT !.finalizer = TRUE] /\ ~ work.finalizer
        /\ UNCHANGED <<base, cpods>> /\ work = base
    BY <1>0, <1>2 DEF AddFinalizer, WorkFits, cache
  <2>2. work' \in Playbook /\ work'.finalizer
    BY <1>0, <2>1 DEF TypeOK, Playbook
  <2>3. Wanted' = Reported(work')
    BY <2>1 DEF Wanted, Reported, PodPhase, Listed
  <2>4. Reported(work').finalizer = work'.finalizer
    BY <2>2 DEF Reported, Playbook
  <2> QED BY <2>1, <2>2, <2>3, <2>4
<1>3. CASE ReconcileDelete
  BY <1>3, DeleteRests
<1>4. CASE ReconcileNormal
  BY <1>4, NormalRests
<1>5. CASE Create
  <2>1. pods' = pods
    BY <1>5, PodNews DEF Create, cache
  <2>2. PICK p \in Pods : pods[p] = "none" /\ pods' = [pods EXCEPT ![p] = "active"]
    BY <1>5 DEF Create, CreatePod
  <2> QED BY <1>0, <2>1, <2>2 DEF TypeOK
<1>6. CASE UserDeletes
  <2>1. UNCHANGED <<cpb, base, rc, queued>>
    BY <1>6 DEF UserDeletes, cache, queue, rvars
  <2>2. pb'.live
    BY <1>0 DEF TypeOK
  <2>3. pb.live /\ ~ pb.deleting /\ pb'.deleting
    BY <1>0, <1>6, <2>2, DeletionNews
  <2> QED BY <2>1, <2>3 DEF DeletionInv, Deleted
<1>7. ASSUME NEW p \in Pods, SyncPod(p) PROVE FALSE
  <2>1. ~ queued /\ ~ cpb.live /\ rc = "defer"
    BY <1>0, <1>7 DEF SyncPod, rvars
  <2>2. cpb = base /\ base.live
    BY <1>0, <2>1 DEF WakeInv, TypeOK
  <2> QED BY <2>1, <2>2
<1>8. ASSUME NEW p \in Pods, EndExec(p) PROVE AtRest'
  BY <1>8 DEF EndExec, AtRest
<1>9. ASSUME NEW p \in Pods,
             CollectPod(p) \/ LosePod(p) \/ StartExec(p) \/ ExitPod(p) \/ CrashPod(p)
      PROVE  AtRest'
  <2>1. UNCHANGED <<pb, cpods, base, work, err, rc, queued>>
    BY <1>9 DEF CollectPod, LosePod, StartExec, ExitPod, CrashPod, cache, queue, rvars
  <2>2. pods' = pods
    BY <2>1, PodNews
  <2> QED BY <1>1, <2>1, <2>2
<1>10. CASE UNCHANGED vars
  BY <1>1, <1>10 DEF vars, api, cache, queue, rvars
<1>11. CASE \/ Get \/ CreateFails \/ Patch \/ PatchFails \/ SyncPlaybook \/ Retry
            \/ Stray \/ Restart
  BY <1>11 DEF Get, CreateFails, Patch, PatchFails, SyncPlaybook, Retry, Stray, Restart,
               EndReconcile
<1> QED BY <1>2, <1>3, <1>4, <1>5, <1>6, <1>7, <1>8, <1>9, <1>10, <1>11
        DEF Next, Reconcile, PodStep

LEMMA WakeStep == PhaseInv /\ DeletionInv /\ WakeInv /\ [Next]_vars => WakeInv'
<1> SUFFICES ASSUME PhaseInv, DeletionInv, WakeInv, [Next]_vars PROVE WakeInv'
  OBVIOUS
<1>1. NothingForgotten'
  BY IdleStep DEF NothingForgotten
<1>2. (rc # "idle" /\ ~ queued => cpb = base)'
  BY BaseStep
<1>3. (/\ rc = "defer" /\ ~ queued /\ ~ err
       /\ base.finalizer = Wanted.finalizer /\ base.phase = Wanted.phase
       /\ pb = base /\ cpods = pods
       => AtRest)'
  BY DeferStep
<1> QED BY <1>1, <1>2, <1>3 DEF WakeInv

\* When nothing is queued or waits for its retry, and the caches have caught up,
\* the playbook is over, or an executor works on it, or it has two pods: no step
\* of Reconcile, however it fails and whatever changes meanwhile, leaves a
\* playbook behind that nobody comes back to.  It is what Settles and
\* DeletionEnds rest on.
THEOREM NothingForgottenHolds == Spec => []NothingForgotten
<1> DEFINE Inv == PhaseInv /\ DeletionInv /\ WakeInv
<1>1. Init => Inv
  BY PhaseInit, DeletionInit, WakeInit
<1>2. Inv /\ [Next]_vars => Inv'
  BY PhaseStep, DeletionStep, WakeStep
<1>3. Inv => NothingForgotten
  BY DEF WakeInv
<1> QED BY <1>1, <1>2, <1>3, PTL DEF Spec
=============================================================================
