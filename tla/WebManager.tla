----------------------------- MODULE WebManager -----------------------------
(***************************************************************************)
(* pkg/web/handler: the web server creates playbooks, runs them in its own *)
(* process and deletes them.  Every request is a goroutine, every run of a *)
(* playbook another one; what they share is the map of cancel functions    *)
(* (playbookManager) and the files of the local API server (FileStorage).  *)
(***************************************************************************)
EXTENDS FileStorage

CONSTANTS
    Post,      \* POST requests, each with a playbook of its own: its UID
    Label, NoLabel, \* values of the schema label; a request without one
    Requests,  \* the combinations of POST requests that may come
    Deletes,   \* DELETE requests
    Target,    \* the names in the DELETE requests
    MaxTasks   \* bound: tasks of a playbook

Poster(p) == <<"post", p>>
Runner(p) == <<"run", p>>
Deleter(d) == <<"delete", d>>

ASSUME WebAssumption ==
    /\ Post \subseteq Nat \ {0} /\ Post # {} /\ Uid = Post
    /\ NoLabel \notin Label
    /\ Requests \subseteq [Post -> [name : Key, label : Label \cup {NoLabel},
                           tasks : 0..MaxTasks]]
    /\ Target \in [Deletes -> Key]
    /\ Client = {Poster(p) : p \in Post} \cup {Runner(p) : p \in Post}
                \cup {Deleter(d) : d \in Deletes}
    /\ Mark = {"Succeeded", "Failed"}
    /\ MaxTasks \in Nat

NoPost == 0

VARIABLES
    request,   \* the playbook in a POST request: name, label, tasks it makes
    post,      \* control point of PlaybookHandler.Post
    run,       \* control point of the goroutine that runs the playbook
    cancelled, \* whether its context is cancelled
    verdict,   \* what Exec ended with
    made,      \* tasks it has created
    tasks,     \* tasks of a playbook that have a file
    torn,      \* those whose file is truncated and not filled yet
    manager,   \* playbookManager: whose cancel function is under a key
    writing,   \* the run that has the lock and is changing the map, or NoPost
    delete,    \* control point of PlaybookHandler.Delete
    got,       \* the playbook it has read
    unread,    \* files of tasks it has still to read for its list
    doomed,    \* tasks it has still to delete
    met,       \* history: pairs of POST requests that were handled at once
    alive,     \* history: pairs of a playbook and one of its name that still ran
    blind,     \* history: POST requests whose list read an empty file
    removed,   \* history: playbooks whose file was removed
    intime,    \* history: runs that were cancelled before they patched their phase
    inflight   \* history: the tasks they were then writing

NameOf(p) == request[p].name
LabelOf(p) == request[p].label

pvars == <<request, post>>
taskvars == <<tasks, torn>>
runvars == <<run, cancelled, verdict, made, taskvars>>
mapvars == <<manager, writing>>
delvars == <<delete, got, unread, doomed>>
stops == <<intime, inflight>>
history == <<met, alive, blind, removed, stops>>
wvars == <<fvars, pvars, runvars, mapvars, delvars, history>>

RunPc == {"none", "register", "new", "exec", "read", "open", "fill", "sync", "patch",
          "deregister", "ended"}

TypeOK ==
    /\ FTypeOK
    /\ request \in Requests
    /\ post \in [Post -> {"new", "list", "create", "done"}]
    /\ run \in [Post -> RunPc]
    /\ cancelled \in [Post -> BOOLEAN]
    /\ verdict \in [Post -> Mark \cup {"none"}]
    /\ made \in [Post -> 0..MaxTasks]
    /\ tasks \in [Post -> SUBSET (1..MaxTasks)]
    /\ torn \in [Post -> SUBSET (1..MaxTasks)]
    /\ manager \in [Key -> Post \cup {NoPost}]
    /\ writing \in Post \cup {NoPost}
    /\ delete \in [Deletes -> {"new", "get", "delete", "tasks", "ok", "error"}]
    /\ got \in [Deletes -> Post \cup {NoPost}]
    /\ unread \in [Deletes -> SUBSET (1..MaxTasks)]
    /\ doomed \in [Deletes -> SUBSET (1..MaxTasks)]
    /\ inflight \in [Post -> SUBSET (1..MaxTasks)]
    /\ \A p \in Post : run[p] = "none" => tasks[p] = {} /\ ~ cancelled[p]
    /\ writing # NoPost => run[writing] \in {"register", "deregister"}

Init ==
    /\ FInit
    /\ request \in Requests
    /\ post = [p \in Post |-> "new"]
    /\ run = [p \in Post |-> "none"]
    /\ cancelled = [p \in Post |-> FALSE]
    /\ verdict = [p \in Post |-> "none"]
    /\ made = [p \in Post |-> 0]
    /\ tasks = [p \in Post |-> {}] /\ torn = [p \in Post |-> {}]
    /\ manager = [k \in Key |-> NoPost]
    /\ writing = NoPost
    /\ delete = [d \in Deletes |-> "new"]
    /\ got = [d \in Deletes |-> NoPost]
    /\ unread = [d \in Deletes |-> {}] /\ doomed = [d \in Deletes |-> {}]
    /\ met = {} /\ alive = {} /\ blind = {} /\ removed = {}
    /\ intime = {} /\ inflight = [p \in Post |-> {}]

-----------------------------------------------------------------------------
(* PlaybookHandler.Post *)

PostGoes(p, s) == post' = [post EXCEPT ![p] = s]

\* The requests are numbered in the order in which they arrive.
Arrives(p) == post[p] = "new" /\ \A q \in Post : q < p => post[q] # "new"

\* A goroutine runs playbook p.
Works(p) == run[p] \notin {"none", "ended"}

\* p and the requests that are handled at the same time.
Meets(p) == {{p, q} : q \in {r \in Post : post[r] \in {"list", "create"}}}

\* The request arrives: with a schema label, the others that have it are listed.
PostList(p) ==
    /\ Arrives(p)
    /\ LabelOf(p) # NoLabel
    /\ SendList(Poster(p))
    /\ PostGoes(p, "list")
    /\ met' = met \cup Meets(p)
    /\ UNCHANGED <<request, runvars, mapvars, delvars, alive, blind, removed, stops>>

\* Mutant: what the list found is not looked at.
ConflictIgnored(p) == FALSE

\* A playbook with the same label was listed.
Conflict(p) == copy[Poster(p)].is = "data"

\* A conflict, or the list failed.
PostRefused(p) ==
    /\ post[p] = "list"
    /\ \/ at[Poster(p)] = "ok" /\ Conflict(p) /\ Receive(Poster(p), "ok")
       \/ Receive(Poster(p), "error")
    /\ PostGoes(p, "done")
    /\ UNCHANGED <<request, runvars, mapvars, delvars, history>>

\* The request has no label, or one that no playbook was found to have.
PostCreate(p) ==
    /\ \/ Arrives(p) /\ LabelOf(p) = NoLabel /\ met' = met \cup Meets(p)
       \/ post[p] = "list" /\ at[Poster(p)] = "ok" /\ ~ Conflict(p) /\ UNCHANGED met
    /\ SendCreate(Poster(p), NameOf(p), p)
    /\ PostGoes(p, "create")
    /\ alive' = alive \cup {{p, q} : q \in {r \in Post : NameOf(r) = NameOf(p) /\ Works(r)}}
    /\ UNCHANGED <<request, runvars, mapvars, delvars, blind, removed, stops>>

\* The playbook is created, and a goroutine runs it; when its log file cannot be
\* opened it is never run.
PostCreated(p) ==
    /\ post[p] = "create"
    /\ Receive(Poster(p), "ok")
    /\ PostGoes(p, "done")
    /\ \E s \in {"register", "ended"} : run' = [run EXCEPT ![p] = s]
    /\ UNCHANGED <<request, cancelled, verdict, made, taskvars, mapvars, delvars, history>>

PostFails(p) ==
    /\ post[p] = "create"
    /\ \E a \in {"exists", "error"} : Receive(Poster(p), a)
    /\ PostGoes(p, "done")
    /\ UNCHANGED <<request, runvars, mapvars, delvars, history>>
-----------------------------------------------------------------------------
(* manager.executor *)

RunGoes(p, s) == run' = [run EXCEPT ![p] = s]

\* addPlaybook and deletePlaybook take the lock and change the map; a reader that
\* does not take the lock may come in between.
Lock(p) ==
    /\ run[p] \in {"register", "deregister"}
    /\ writing = NoPost
    /\ writing' = p
    /\ UNCHANGED <<fvars, pvars, runvars, manager, delvars, history>>

Unlock == writing' = NoPost

\* What the writer makes of the map.
Written(p) ==
    [manager EXCEPT ![NameOf(p)] = IF run[p] = "register" THEN p ELSE NoPost]

AddPlaybook(p) ==
    /\ run[p] = "register"
    /\ writing = p
    /\ manager' = Written(p)
    /\ Unlock
    /\ RunGoes(p, "new")
    /\ UNCHANGED <<fvars, pvars, cancelled, verdict, made, taskvars, delvars, history>>

\* Mutant: a run without an executor returns at once.
AfterNewLeaks == {"exec", "ended"}

\* Where NewPlaybookExecutor leads to: it is nil when the variables fail.
AfterNew == {"exec", "deregister"}

\* With a cancelled context the inventory cannot be read.
NewExecutor(p) ==
    /\ run[p] = "new"
    /\ \E s \in AfterNew : (cancelled[p] => s # "exec") /\ RunGoes(p, s)
    /\ UNCHANGED <<fvars, pvars, cancelled, verdict, made, taskvars, mapvars, delvars, history>>

\* The calls of Exec: with a cancelled context none is sent; one that was sent
\* before goes on.  Exec is then what decides, also whether a call has failed.
MayCall(p) == run[p] = "exec" /\ ~ cancelled[p]

\* client.Create of a task, with a name that is generated: no file is in its way.
SendTask(p) ==
    /\ MayCall(p)
    /\ made[p] < request[p].tasks
    /\ made' = [made EXCEPT ![p] = @ + 1]
    /\ RunGoes(p, "open")
    /\ UNCHANGED <<fvars, pvars, cancelled, verdict, taskvars, mapvars, delvars, history>>

\* runTaskLoop patches the status of the task, as often as it is tried,
SendStatus(p) ==
    /\ MayCall(p)
    /\ made[p] > 0
    /\ RunGoes(p, "read")
    /\ UNCHANGED <<fvars, pvars, cancelled, verdict, made, taskvars, mapvars, delvars, history>>

\* which reads its file (GuaranteedUpdate); one that is gone is not written,
ReadTask(p) ==
    /\ run[p] = "read"
    /\ RunGoes(p, IF made[p] \in tasks[p] THEN "open" ELSE "exec")
    /\ UNCHANGED <<fvars, pvars, cancelled, verdict, made, taskvars, mapvars, delvars, history>>

\* and writes it: the file is opened and truncated, or made, whatever happened to it
\* since it was read,
OpenTask(p) ==
    /\ run[p] = "open"
    /\ tasks' = [tasks EXCEPT ![p] = @ \cup {made[p]}]
    /\ torn' = [torn EXCEPT ![p] = @ \cup {made[p]}]
    /\ RunGoes(p, "fill")
    /\ UNCHANGED <<fvars, pvars, cancelled, verdict, made, mapvars, delvars, history>>

\* then filled; one that was removed meanwhile is filled under its other name.
FillTask(p) ==
    /\ run[p] = "fill"
    /\ torn' = [torn EXCEPT ![p] = @ \ {made[p]}]
    /\ RunGoes(p, "exec")
    /\ UNCHANGED <<fvars, pvars, cancelled, verdict, made, tasks, mapvars, delvars, history>>

\* Exec returns: a task failed, or all are done.
ExecEnds(p) ==
    /\ run[p] = "exec"
    /\ \E v \in {"Failed"} \cup (IF made[p] = request[p].tasks THEN {"Succeeded"} ELSE {}) :
         verdict' = [verdict EXCEPT ![p] = v]
    /\ RunGoes(p, "sync")
    /\ UNCHANGED <<fvars, pvars, cancelled, made, taskvars, mapvars, delvars, history>>

\* Mutant: the patch does not depend on the context of the run.
SendsAnyway(p) == TRUE

\* A call with a cancelled context is not made.
Sends(p) == ~ cancelled[p]

\* syncStatus: the phase is patched, by name.
SyncStatus(p) ==
    /\ run[p] = "sync"
    /\ IF Sends(p)
       THEN SendPatch(Runner(p), NameOf(p), verdict[p]) /\ RunGoes(p, "patch")
       ELSE RunGoes(p, "deregister") /\ UNCHANGED fvars
    /\ UNCHANGED <<pvars, cancelled, verdict, made, taskvars, mapvars, delvars, history>>

\* The answer is only logged.
Synced(p) ==
    /\ run[p] = "patch"
    /\ \E a \in Answer : Receive(Runner(p), a)
    /\ RunGoes(p, "deregister")
    /\ UNCHANGED <<pvars, cancelled, verdict, made, taskvars, mapvars, delvars, history>>

DeletePlaybook(p) ==
    /\ run[p] = "deregister"
    /\ writing = p
    /\ manager' = Written(p)
    /\ Unlock
    /\ RunGoes(p, "ended")
    /\ UNCHANGED <<fvars, pvars, cancelled, verdict, made, taskvars, delvars, history>>
-----------------------------------------------------------------------------
(* PlaybookHandler.Delete *)

DeleteGoes(d, s) == delete' = [delete EXCEPT ![d] = s]

DeleteGet(d) ==
    /\ delete[d] = "new"
    /\ SendGet(Deleter(d), Target[d])
    /\ DeleteGoes(d, "get")
    /\ UNCHANGED <<pvars, runvars, mapvars, got, unread, doomed, history>>

\* NotFound is a success, now or when the playbook is to be deleted; a playbook
\* without a name cannot be deleted.
DeleteMissing(d) ==
    /\ delete[d] \in {"get", "delete"}
    /\ \/ Receive(Deleter(d), "notfound") /\ DeleteGoes(d, "ok")
       \/ Receive(Deleter(d), "error") /\ DeleteGoes(d, "error")
       \/ /\ delete[d] = "get"
          /\ copy[Deleter(d)].is = "empty"
          /\ Receive(Deleter(d), "ok")
          /\ DeleteGoes(d, "error")
    /\ UNCHANGED <<pvars, runvars, mapvars, got, unread, doomed, history>>

\* What the reader without the lock may find under the key.
Lookup(k) ==
    {manager[k]} \cup (IF writing = NoPost THEN {} ELSE {Written(writing)[k]})

\* A run that has not sent the patch of its phase yet is stopped in time.
InTime(p) == run[p] \notin {"patch", "deregister", "ended"}

\* The task a run is writing, or is to write.
Writing == {"read", "open", "fill"}
UnderWay(p) == IF run[p] \in Writing THEN {made[p]} ELSE {}

\* stopPlaybook, then the Delete call.
Stop(d) ==
    /\ delete[d] = "get"
    /\ at[Deleter(d)] = "ok"
    /\ copy[Deleter(d)].is = "data"
    /\ got' = [got EXCEPT ![d] = copy[Deleter(d)].uid]
    /\ \E p \in Lookup(key[Deleter(d)]) :
         IF p # NoPost
         THEN /\ cancelled' = [cancelled EXCEPT ![p] = TRUE]
              /\ intime' = IF InTime(p) THEN intime \cup {p} ELSE intime
              /\ inflight' = [inflight EXCEPT ![p] = @ \cup UnderWay(p)]
         ELSE UNCHANGED <<cancelled, stops>>
    /\ SendDelete(Deleter(d), key[Deleter(d)])
    /\ DeleteGoes(d, "delete")
    /\ UNCHANGED <<pvars, run, verdict, made, taskvars, mapvars, unread, doomed,
                   met, alive, blind, removed>>

\* The playbook is deleted; its files go, and DeleteAllOf lists its tasks: the
\* names first,
ListTasks(d) ==
    /\ delete[d] = "delete"
    /\ Receive(Deleter(d), "ok")
    /\ unread' = [unread EXCEPT ![d] = tasks[got[d]]]
    /\ DeleteGoes(d, "tasks")
    /\ UNCHANGED <<pvars, runvars, mapvars, got, doomed, history>>

\* then file after file: a truncated one is of no playbook, one that is gone fails
\* the list (as any other task may that goes at that time, see Disconnect).
ListTask(d) ==
    /\ delete[d] = "tasks"
    /\ \E t \in unread[d] :
         /\ unread' = [unread EXCEPT ![d] = @ \ {t}]
         /\ IF t \in tasks[got[d]] THEN UNCHANGED delete ELSE DeleteGoes(d, "error")
         /\ doomed' = [doomed EXCEPT ![d] = @ \cup (IF t \in torn[got[d]] THEN {} ELSE {t})]
    /\ UNCHANGED <<fvars, pvars, runvars, mapvars, got, history>>

\* Then they are deleted one after the other, whatever is in their files by now.
DeleteTask(d) ==
    /\ delete[d] = "tasks"
    /\ unread[d] = {}
    /\ \E t \in doomed[d] :
         /\ tasks' = [tasks EXCEPT ![got[d]] = @ \ {t}]
         /\ torn' = [torn EXCEPT ![got[d]] = @ \ {t}]
         /\ doomed' = [doomed EXCEPT ![d] = @ \ {t}]
    /\ UNCHANGED <<fvars, pvars, run, cancelled, verdict, made, mapvars, delete, got, unread, history>>

DeleteDone(d) ==
    /\ delete[d] = "tasks"
    /\ unread[d] = {} /\ doomed[d] = {}
    /\ DeleteGoes(d, "ok")
    /\ UNCHANGED <<fvars, pvars, runvars, mapvars, got, unread, doomed, history>>

\* The calls are made with the context of the request: when the user leaves, the
\* next one fails.  A list or a deletion of tasks also fails for files of others.
Disconnect(d) ==
    /\ \/ delete[d] = "tasks" /\ UNCHANGED fvars
       \/ delete[d] \in {"get", "delete"} /\ \E a \in Answer : Receive(Deleter(d), a)
    /\ DeleteGoes(d, "error")
    /\ UNCHANGED <<pvars, runvars, mapvars, got, unread, doomed, history>>

-----------------------------------------------------------------------------
\* A system call of the local API server.
Serve(c) ==
    /\ SystemCall(c, {u \in Post : \E p \in Post : c = Poster(p) /\ LabelOf(p) = LabelOf(u)})
    /\ removed' = removed \cup {file[k].uid : k \in {l \in Key :
                      file[l].is = "data" /\ file'[l].is = "none"}}
    /\ blind' = blind \cup {p \in Post : /\ c = Poster(p) /\ at[c] = "readfiles"
                                         /\ \E k \in todo[c] \ todo'[c] : file[k].is = "empty"}
    /\ UNCHANGED <<pvars, runvars, mapvars, delvars, met, alive, stops>>

\* What is left of the web server when its process ends: nothing resumes a run.
Crashed ==
    /\ FCrash
    /\ post' = [p \in Post |-> IF post[p] = "new" THEN "new" ELSE "done"]
    /\ run' = [p \in Post |-> IF run[p] = "none" THEN "none" ELSE "ended"]
    /\ delete' = [d \in Deletes |-> IF delete[d] \in {"new", "ok"} THEN delete[d] ELSE "error"]
    /\ manager' = [k \in Key |-> NoPost]
    /\ writing' = NoPost
    /\ unread' = [d \in Deletes |-> {}] /\ doomed' = [d \in Deletes |-> {}]
    /\ UNCHANGED <<request, cancelled, verdict, made, taskvars, got, history>>

\* The Go runtime ends a process that reads a map while it is written.
MapRace(d) ==
    /\ delete[d] = "get"
    /\ at[Deleter(d)] = "ok"
    /\ writing # NoPost
    /\ Crashed

Kill == Crashed

PostStep(p) ==
    PostList(p) \/ PostRefused(p) \/ PostCreate(p) \/ PostCreated(p) \/ PostFails(p)

RunStep(p) ==
    \/ Lock(p) \/ AddPlaybook(p) \/ NewExecutor(p)
    \/ SendTask(p) \/ SendStatus(p) \/ ReadTask(p) \/ OpenTask(p) \/ FillTask(p)
    \/ ExecEnds(p)
    \/ SyncStatus(p) \/ Synced(p) \/ DeletePlaybook(p)

DeleteStep(d) ==
    \/ DeleteGet(d) \/ DeleteMissing(d) \/ Stop(d)
    \/ ListTasks(d) \/ ListTask(d) \/ DeleteTask(d) \/ DeleteDone(d)

Next ==
    \/ \E p \in Post : PostStep(p) \/ RunStep(p)
    \/ \E d \in Deletes : DeleteStep(d) \/ Disconnect(d) \/ MapRace(d)
    \/ \E c \in Client : Serve(c)
    \/ Kill

Spec == Init /\ [][Next]_wvars

-----------------------------------------------------------------------------
(* Properties *)

Holds(k, p) == file[k].is = "data" /\ file[k].uid = p

\* Playbooks of the same name whose requests or runs were about at the same time.
Rivals(p) == {q \in Post \ {p} : NameOf(q) = NameOf(p) /\ {p, q} \in met \cup alive}

\* playbookManager knows the runs that can be stopped and no others: an entry
\* belongs to a run that has not ended, and a run that works has its entry,
\* unless another run of the same name got in.
MapTellsRuns ==
    /\ \A k \in Key : manager[k] # NoPost =>
         /\ NameOf(manager[k]) = k
         /\ run[manager[k]] \notin {"none", "register", "ended"}
    /\ \A p \in Post :
         run[p] \notin {"none", "register", "ended"} /\ Rivals(p) = {} =>
             manager[NameOf(p)] = p

\* No other DELETE request is for the same name: one of two may be answered while
\* the other one has still to delete the tasks.
OnlyDelete(d) == \A e \in Deletes : Target[e] = Target[d] => e = d

\* A run that was stopped before it patched its phase leaves nothing behind: a
\* deleted playbook does not come back, and when the deletion is through no task is
\* left or created but the one that was being written when the run was stopped: its
\* patch may bring it back, or keep the list from seeing it.  (Unless the name was
\* used again.)
StoppedLeavesNothing ==
    \A p \in {q \in intime : Rivals(q) = {}} :
        /\ p \in removed => \A k \in Key : ~ Holds(k, p)
        /\ \A d \in Deletes :
             OnlyDelete(d) /\ delete[d] = "ok" /\ got[d] = p /\ p \in removed =>
                 tasks[p] \subseteq inflight[p]

\* playbook.go, Delete: "deletes all related tasks".
DeletesAllTasks ==
    \A d \in Deletes : delete[d] = "ok" /\ got[d] \in intime => tasks[got[d]] = {}

\* Post checks that a schema label is unique before it creates the playbook; two
\* playbooks can only share one when their requests were handled at once, when one
\* was deleted and came back, when the list came upon the file of a playbook
\* whose status was being written (or whose writer was killed), or when runs of
\* one name write over each other.
LabelClashes ==
    \A k, l \in Key :
        LET p == file[k].uid  q == file[l].uid IN
        Holds(k, p) /\ Holds(l, q) /\ p # q /\ LabelOf(p) = LabelOf(q) /\ LabelOf(p) # NoLabel
        => \/ {p, q} \in met \/ {p, q} \cap (removed \cup blind) # {}
           \/ Rivals(p) \cup Rivals(q) # {}

\* playbook.go, Delete: "It stops the playbook execution if running".
DeleteStops ==
    \A d \in Deletes : delete[d] = "ok" /\ got[d] # NoPost =>
        cancelled[got[d]] \/ run[got[d]] \in {"none", "ended"}
=============================================================================
