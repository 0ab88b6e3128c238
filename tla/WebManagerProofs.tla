-------------------------- MODULE WebManagerProofs --------------------------
(***************************************************************************)
(* Theorems about WebManager: what the map of cancel functions tells, what *)
(* a deletion leaves and which playbooks share a schema label, for any     *)
(* number of POST and DELETE requests, any names and any order of the      *)
(* system calls of the local API server.                                   *)
(***************************************************************************)
EXTENDS WebManager, TLAPS

\* Groups of variables that groups of variables are made of.
USE DEF taskvars, stops

-----------------------------------------------------------------------------
(* Clients, requests and the steps of the API server *)

\* Every goroutine is a client of its own.
LEMMA Clients ==
  /\ \A p \in Post : Poster(p) \in Client /\ Runner(p) \in Client
  /\ \A d \in Deletes : Deleter(d) \in Client
  /\ \A p, q : Poster(p) # Runner(q) /\ Poster(p) # Deleter(q) /\ Runner(p) # Deleter(q)
  /\ \A p, q : Poster(p) = Poster(q) => p = q
  /\ \A p, q : Runner(p) = Runner(q) => p = q
  /\ \A p, q : Deleter(p) = Deleter(q) => p = q
  /\ \A c \in Client : \/ \E p \in Post : c = Poster(p) \/ c = Runner(p)
                       \/ \E d \in Deletes : c = Deleter(d)
  BY WebAssumption DEF WebAssumption, Poster, Runner, Deleter

\* What the constants are.
LEMMA Constants ==
  /\ Uid = Post /\ Post # {} /\ Post \subseteq Nat /\ NoPost \notin Post /\ NoUid \in Post
  /\ NoLabel \notin Label /\ MaxTasks \in Nat
  /\ \A d \in Deletes : Target[d] \in Key
  /\ \A r \in Requests, p \in Post :
       r[p].name \in Key /\ r[p].tasks \in 0 .. MaxTasks /\ r[p].label \in Label \cup {NoLabel}
  BY WebAssumption DEF WebAssumption, NoPost, NoUid

LEMMA FileTypes ==
  /\ NoFile \in File /\ EmptyFile \in File /\ GarbledFile \in File
  /\ \A u \in Post : Data(u) \in File
  /\ \A m \in Mark : [Data(NoUid) EXCEPT !.marks = {m}] \in File
  /\ NoFile.is = "none" /\ EmptyFile.is = "empty" /\ GarbledFile.is = "garbled"
  /\ \A u : Data(u).is = "data" /\ Data(u).uid = u
  BY Constants DEF NoFile, EmptyFile, GarbledFile, Data, File

\* The system calls a request starts with.
First == {"stat", "update", "get", "find", "readdir"}

\* What a step is for the API server.
FileStep ==
  \/ UNCHANGED fvars
  \/ \E c \in Client, a \in First, k \in Key, o \in File : Send(c, a, k, o)
  \/ \E c \in Client, a \in Answer : Receive(c, a)
  \/ \E c \in Client : \E matching : SystemCall(c, matching)
  \/ FCrash

LEMMA SystemCallType ==
  ASSUME FTypeOK, NEW c \in Client, NEW matching, SystemCall(c, matching)
  PROVE  FTypeOK'
  <1> USE FileTypes DEF FTypeOK, At, Answer, Goes, Read
  <1>0. Here(c) \in File
    BY DEF Here
  <1>1. CASE Stat(c)
    BY <1>1 DEF Stat
  <1>2. CASE Update(c)
    <2>1. Updated(c) \in File
      BY <1>0 DEF Updated, File
    <2>2. copy' \in [Client -> File]
      BY <1>2, <2>1 DEF Update
    <2>3. at' \in [Client -> At]
      BY <1>0, <1>2 DEF Update, File
    <2> QED BY <1>2, <2>2, <2>3 DEF Update
  <1>3. CASE Truncate(c)
    BY <1>3 DEF Truncate
  <1>4. CASE Fill(c)
    BY <1>4 DEF Fill
  <1>5. CASE ReadBack(c)
    BY <1>0, <1>5 DEF ReadBack, File
  <1>6. CASE Get(c)
    BY <1>0, <1>6 DEF Get, File
  <1>7. CASE ReadDir(c)
    BY <1>7 DEF ReadDir
  <1>8. CASE ReadFiles(c, matching)
    BY <1>8 DEF ReadFiles
  <1>9. CASE Find(c)
    BY <1>0, <1>9 DEF Find, File
  <1>10. CASE Check(c)
    BY <1>0, <1>10 DEF Check, File
  <1>11. CASE Rename(c)
    BY <1>11 DEF Rename
  <1> QED BY <1>1, <1>2, <1>3, <1>4, <1>5, <1>6, <1>7, <1>8, <1>9, <1>10, <1>11 DEF SystemCall

LEMMA FileType == FTypeOK /\ FileStep => FTypeOK'
  <1> SUFFICES ASSUME FTypeOK, FileStep PROVE FTypeOK'
    OBVIOUS
  <1>1. CASE UNCHANGED fvars
    BY <1>1 DEF fvars, FTypeOK
  <1>2. ASSUME NEW c \in Client, NEW a \in First, NEW k \in Key, NEW o \in File, Send(c, a, k, o)
        PROVE  FTypeOK'
    BY <1>2 DEF Send, First, FTypeOK, At
  <1>3. ASSUME NEW c \in Client, NEW a \in Answer, Receive(c, a) PROVE FTypeOK'
    BY <1>3, FileTypes DEF Receive, FTypeOK, At
  <1>4. CASE FCrash
    BY <1>4, FileTypes DEF FCrash, FTypeOK, At
  <1> QED BY <1>1, <1>2, <1>3, <1>4, SystemCallType DEF FileStep

-----------------------------------------------------------------------------
(* The types of the state *)

\* The types of what is not in the API server.
WTypeOK ==
    /\ request \in Requests
    /\ post \in [Post -> {"new", "list", "create", "done"}]
    /\ run \in [Post -> RunPc]
    /\ cancelled \in [Post -> BOOLEAN]
    /\ verdict \in [Post -> Mark \cup {"none"}]
    /\ made \in [Post -> 0..MaxTasks]
    /\ tasks \in [Post -> SUBSET (1..MaxTasks)]
    /\ torn \in [Post -> SUBSET (1..MaxTasks)]
    /\ manager \in [Key -> Post \cup {NoPost}]
    /\ writing \in Post \cup {NoPost}
    /\ delete \in [Deletes -> {"new", "get", "delete", "tasks", "ok", "error"}]
    /\ got \in [Deletes -> Post \cup {NoPost}]
    /\ unread \in [Deletes -> SUBSET (1..MaxTasks)]
    /\ doomed \in [Deletes -> SUBSET (1..MaxTasks)]
    /\ inflight \in [Post -> SUBSET (1..MaxTasks)]
    /\ \A p \in Post : run[p] = "none" => tasks[p] = {} /\ ~ cancelled[p]
    /\ writing # NoPost => run[writing] \in {"register", "deregister"}

\* A run works only when its request is done; what it writes is a task it has made,
\* and it ends Exec with a verdict.
Prepared ==
    \A p \in Post : /\ post[p] \in {"new", "list", "create"} => run[p] = "none"
                    /\ run[p] \in Writing => made[p] \in 1..MaxTasks
                    /\ run[p] = "sync" => verdict[p] # "none"

\* A deletion that has begun has read a playbook.
HasGot ==
    \A d \in Deletes : /\ delete[d] \in {"new", "get"} => got[d] = NoPost
                       /\ delete[d] \in {"delete", "tasks"} => got[d] \in Post

\* An entry of the map belongs to a run of that name that has not ended.
Entries ==
    \A k \in Key : manager[k] # NoPost =>
        /\ NameOf(manager[k]) = k
        /\ run[manager[k]] \notin {"none", "register", "ended"}

WTyped == WTypeOK /\ Prepared /\ HasGot /\ Entries
Typed == FTypeOK /\ WTyped

LEMMA TypeIs == TypeOK <=> FTypeOK /\ WTypeOK
  BY DEF TypeOK, WTypeOK

\* What a run may be found under a key of the map.
LEMMA LookupFinds ==
  ASSUME WTyped, NEW k \in Key, NEW p \in Lookup(k), p # NoPost
  PROVE  p \in Post /\ NameOf(p) = k /\ run[p] \notin {"none", "ended"}
  <1>1. CASE p = manager[k]
    BY <1>1 DEF WTyped, WTypeOK, Entries
  <1>2. CASE p # manager[k]
    <2>1. writing # NoPost /\ p = Written(writing)[k]
      BY <1>2 DEF Lookup
    <2>2. writing \in Post /\ run[writing] \in {"register", "deregister"}
      BY <2>1 DEF WTyped, WTypeOK
    <2>3. k = NameOf(writing) /\ p = writing
      BY <1>2, <2>1 DEF Written, WTyped, WTypeOK
    <2> QED BY <2>2, <2>3
  <1> QED BY <1>1, <1>2

LEMMA PostTypes ==
  ASSUME WTyped, NEW p \in Post, PostStep(p)
  PROVE  WTyped'
  <1> USE DEF WTyped, WTypeOK, Prepared, HasGot, Entries, NameOf, PostGoes,
              Writing, runvars, mapvars, delvars, history
  <1>1. CASE PostList(p)
    BY <1>1 DEF PostList, Arrives
  <1>2. CASE PostRefused(p)
    BY <1>2 DEF PostRefused
  <1>3. CASE PostCreate(p)
    BY <1>3 DEF PostCreate, Arrives
  <1>4. CASE PostCreated(p)
    <2>1. PICK s \in {"register", "ended"} : run' = [run EXCEPT ![p] = s]
      BY <1>4 DEF PostCreated
    <2>2. run[p] = "none"
      BY <1>4 DEF PostCreated
    <2> QED BY <1>4, <2>1, <2>2 DEF PostCreated, RunPc
  <1>5. CASE PostFails(p)
    BY <1>5 DEF PostFails
  <1> QED BY <1>1, <1>2, <1>3, <1>4, <1>5 DEF PostStep

LEMMA RunTypes ==
  ASSUME WTyped, NEW p \in Post, RunStep(p)
  PROVE  WTyped'
  <1> USE Constants DEF WTyped, WTypeOK, Prepared, HasGot, Entries, NameOf, RunGoes,
              Writing, pvars, runvars, mapvars, delvars, history, RunPc
  <1>n. request[p].name \in Key /\ request[p].tasks \in 0 .. MaxTasks
    OBVIOUS
  <1>1. CASE Lock(p)
    BY <1>1 DEF Lock
  <1>2. CASE AddPlaybook(p)
    <2>1. manager' = [manager EXCEPT ![NameOf(p)] = p]
      BY <1>2 DEF AddPlaybook, Written
    <2> QED BY <1>2, <1>n, <2>1 DEF AddPlaybook, Unlock
  <1>3. CASE NewExecutor(p)
    BY <1>3 DEF NewExecutor, AfterNew
  <1>4. CASE SendTask(p)
    <2>1. made[p] + 1 \in 1 .. MaxTasks
      BY <1>4, <1>n DEF SendTask, MayCall
    <2>2. made' = [made EXCEPT ![p] = made[p] + 1]
      BY <1>4 DEF SendTask
    <2> QED BY <1>4, <2>1, <2>2 DEF SendTask, MayCall
  <1>5. CASE SendStatus(p)
    <2>1. made[p] \in 1 .. MaxTasks
      BY <1>5 DEF SendStatus
    <2> QED BY <1>5, <2>1 DEF SendStatus, MayCall
  <1>10. CASE ReadTask(p)
    <2>1. PICK s \in {"open", "exec"} : run' = [run EXCEPT ![p] = s]
      BY <1>10 DEF ReadTask
    <2> QED BY <1>10, <2>1 DEF ReadTask
  <1>11. CASE OpenTask(p)
    <2>1. made[p] \in 1 .. MaxTasks
      BY <1>11 DEF OpenTask
    <2> QED BY <1>11, <2>1 DEF OpenTask
  <1>12. CASE FillTask(p)
    <2>1. torn' \in [Post -> SUBSET (1..MaxTasks)]
      BY <1>12 DEF FillTask
    <2> QED BY <1>12, <2>1 DEF FillTask
  <1>6. CASE ExecEnds(p)
    <2>1. PICK v \in Mark : verdict' = [verdict EXCEPT ![p] = v]
      BY <1>6, WebAssumption DEF ExecEnds, WebAssumption
    <2>2. "none" \notin Mark
      BY WebAssumption DEF WebAssumption
    <2> QED BY <1>6, <2>1, <2>2 DEF ExecEnds
  <1>7. CASE SyncStatus(p)
    <2>1. PICK s \in {"patch", "deregister"} : run' = [run EXCEPT ![p] = s]
      BY <1>7 DEF SyncStatus
    <2>2. run[p] = "sync" /\ UNCHANGED <<pvars, cancelled, verdict, made, taskvars, mapvars, delvars, history>>
      BY <1>7 DEF SyncStatus
    <2> QED BY <2>1, <2>2
  <1>8. CASE Synced(p)
    BY <1>8 DEF Synced
  <1>9. CASE DeletePlaybook(p)
    <2>1. manager' = [manager EXCEPT ![NameOf(p)] = NoPost]
      BY <1>9 DEF DeletePlaybook, Written
    <2> QED BY <1>9, <1>n, <2>1 DEF DeletePlaybook, Unlock
  <1> QED BY <1>1, <1>2, <1>3, <1>4, <1>5, <1>6, <1>7, <1>8, <1>9, <1>10, <1>11, <1>12 DEF RunStep

\* A deletion cancels a run that is there.
LEMMA StopTypes ==
  ASSUME Typed, NEW d \in Deletes, Stop(d)
  PROVE  /\ cancelled' \in [Post -> BOOLEAN]
         /\ inflight' \in [Post -> SUBSET (1..MaxTasks)]
         /\ \A q \in Post : run[q] = "none" => ~ cancelled'[q]
  <1>1. copy[Deleter(d)].uid \in Post /\ key[Deleter(d)] \in Key
    BY Clients, Constants DEF Typed, FTypeOK, File
  <1>2. PICK p \in Lookup(key[Deleter(d)]) :
          IF p # NoPost
          THEN /\ cancelled' = [cancelled EXCEPT ![p] = TRUE]
               /\ inflight' = [inflight EXCEPT ![p] = @ \cup UnderWay(p)]
          ELSE UNCHANGED <<cancelled, inflight>>
    BY DEF Stop
  <1>3. p # NoPost => p \in Post /\ run[p] # "none"
    BY <1>1, LookupFinds DEF Typed
  <1>4. /\ cancelled \in [Post -> BOOLEAN] /\ \A q \in Post : run[q] = "none" => ~ cancelled[q]
        /\ inflight \in [Post -> SUBSET (1..MaxTasks)]
        /\ \A q \in Post : UnderWay(q) \subseteq 1..MaxTasks
    BY DEF Typed, WTyped, WTypeOK, Prepared, UnderWay
  <1> QED BY <1>2, <1>3, <1>4

LEMMA DeleteTypes ==
  ASSUME Typed, NEW d \in Deletes, DeleteStep(d) \/ Disconnect(d)
  PROVE  WTyped'
  <1> USE DEF Typed, WTyped, WTypeOK, Prepared, HasGot, Entries, NameOf, DeleteGoes,
              Writing, pvars, runvars, mapvars, delvars, history
  <1>1. CASE DeleteGet(d)
    BY <1>1 DEF DeleteGet
  <1>2. CASE DeleteMissing(d)
    <2>1. PICK s \in {"ok", "error"} : delete' = [delete EXCEPT ![d] = s]
      BY <1>2 DEF DeleteMissing
    <2> QED BY <1>2, <2>1 DEF DeleteMissing
  <1>3. CASE Stop(d)
    <2>1. copy[Deleter(d)].uid \in Post /\ key[Deleter(d)] \in Key
      BY Clients, Constants DEF FTypeOK, File
    <2>2. /\ cancelled' \in [Post -> BOOLEAN]
          /\ inflight' \in [Post -> SUBSET (1..MaxTasks)]
          /\ \A q \in Post : run[q] = "none" => ~ cancelled'[q]
      BY <1>3, StopTypes
    <2> QED BY <1>3, <2>1, <2>2 DEF Stop
  <1>4. CASE ListTasks(d)
    BY <1>4 DEF ListTasks
  <1>5. CASE DeleteTask(d)
    BY <1>5 DEF DeleteTask
  <1>6. CASE DeleteDone(d)
    BY <1>6 DEF DeleteDone
  <1>7. CASE Disconnect(d)
    BY <1>7 DEF Disconnect
  <1>8. CASE ListTask(d)
    BY <1>8 DEF ListTask
  <1> QED BY <1>1, <1>2, <1>3, <1>4, <1>5, <1>6, <1>7, <1>8 DEF DeleteStep

LEMMA CrashTypes == WTyped /\ Crashed => WTyped'
  BY DEF Crashed, WTyped, WTypeOK, Prepared, HasGot, Entries, NameOf, RunPc, Writing, history

\* Every step is a step of the API server, and calls it with keys, objects and
\* answers.
LEMMA StepFile ==
  ASSUME Typed, [Next]_wvars
  PROVE  FileStep
  <1> USE DEF FileStep
  <1>1. ASSUME NEW p \in Post, PostStep(p) PROVE FileStep
    <2>1. NameOf(p) \in Key /\ key[Poster(p)] \in Key
      BY Constants, Clients DEF NameOf, Typed, FTypeOK, WTyped, WTypeOK
    <2>2. CASE PostList(p)
      BY <2>1, <2>2, Clients, FileTypes DEF PostList, SendList, First
    <2>3. CASE PostCreate(p)
      BY <2>1, <2>3, Clients, FileTypes DEF PostCreate, SendCreate, First
    <2>4. CASE PostRefused(p) \/ PostCreated(p) \/ PostFails(p)
      BY <2>4, Clients DEF PostRefused, PostCreated, PostFails, Answer
    <2> QED BY <1>1, <2>2, <2>3, <2>4 DEF PostStep
  <1>2. ASSUME NEW p \in Post, RunStep(p) PROVE FileStep
    <2>1. CASE SyncStatus(p) /\ ~ UNCHANGED fvars
      <3>1. NameOf(p) \in Key /\ verdict[p] \in Mark
        BY <2>1, Constants DEF SyncStatus, NameOf, Typed, WTyped, WTypeOK, Prepared
      <3>2. SendPatch(Runner(p), NameOf(p), verdict[p])
        BY <2>1 DEF SyncStatus
      <3> QED BY <3>1, <3>2, Clients, FileTypes DEF SendPatch, First
    <2>2. CASE Synced(p)
      BY <2>2, Clients DEF Synced
    <2>3. CASE ~ Synced(p) /\ (UNCHANGED fvars \/ ~ SyncStatus(p))
      BY <1>2, <2>3 DEF RunStep, Lock, AddPlaybook, NewExecutor, SendTask, SendStatus, ReadTask, OpenTask,
           FillTask, ExecEnds,
           DeletePlaybook
    <2> QED BY <2>1, <2>2, <2>3
  <1>3. ASSUME NEW d \in Deletes, DeleteStep(d) \/ Disconnect(d) PROVE FileStep
    <2>1. Target[d] \in Key /\ key[Deleter(d)] \in Key
      BY Constants, Clients DEF Typed, FTypeOK
    <2>2. CASE DeleteGet(d)
      BY <2>1, <2>2, Clients, FileTypes DEF DeleteGet, SendGet, First
    <2>3. CASE Stop(d)
      BY <2>1, <2>3, Clients, FileTypes DEF Stop, SendDelete, First
    <2>4. CASE DeleteMissing(d) \/ ListTasks(d)
      BY <2>4, Clients DEF DeleteMissing, ListTasks, Answer
    <2>5. CASE Disconnect(d)
      BY <2>5, Clients DEF Disconnect
    <2>6. CASE ListTask(d) \/ DeleteTask(d) \/ DeleteDone(d)
      BY <2>6 DEF ListTask, DeleteTask, DeleteDone
    <2> QED BY <1>3, <2>2, <2>3, <2>4, <2>5, <2>6 DEF DeleteStep
  <1>4. ASSUME NEW c \in Client, Serve(c) PROVE FileStep
    BY <1>4 DEF Serve
  <1>5. CASE Crashed
    BY <1>5 DEF Crashed
  <1>6. CASE UNCHANGED wvars
    BY <1>6 DEF wvars
  <1> QED BY <1>1, <1>2, <1>3, <1>4, <1>5, <1>6 DEF Next, MapRace, Kill

LEMMA TypedStep == Typed /\ [Next]_wvars => Typed'
  <1> SUFFICES ASSUME Typed, [Next]_wvars PROVE Typed'
    OBVIOUS
  <1>1. FTypeOK'
    BY StepFile, FileType DEF Typed
  <1>2. ASSUME \/ UNCHANGED wvars
             \/ \E c \in Client : Serve(c)
        PROVE UNCHANGED <<pvars, runvars, mapvars, delvars, inflight>>
    BY <1>2 DEF wvars, Serve, history
  <1>3. UNCHANGED <<pvars, runvars, mapvars, delvars, inflight>> => WTyped'
    BY DEF pvars, runvars, mapvars, delvars, Writing, Typed, WTyped, WTypeOK, Prepared, HasGot, Entries,
         NameOf
  <1>4. WTyped'
    BY <1>2, <1>3, PostTypes, RunTypes, DeleteTypes, CrashTypes DEF Next, MapRace, Kill, Typed, WTyped
  <1> QED BY <1>1, <1>4 DEF Typed

LEMMA TypedInit == Init => Typed
  <1> SUFFICES ASSUME Init PROVE Typed
    OBVIOUS
  <1>1. \E k : k \in Key
    BY Constants DEF Init
  <1>2. FTypeOK
    BY <1>1, FileTypes DEF Init, FInit, FTypeOK, At
  <1>3. WTyped
    BY Constants DEF Init, WTyped, WTypeOK, Prepared, HasGot, Entries, RunPc, Writing
  <1> QED BY <1>2, <1>3 DEF Typed

\* Files, requests, runs and the manager keep their types, however many requests
\* there are and wherever the web server is killed.
THEOREM TypeCorrect == Spec => []TypeOK
  <1>1. Typed => TypeOK
    BY TypeIs DEF Typed, WTyped
  <1> QED BY TypedInit, TypedStep, <1>1, PTL DEF Spec

-----------------------------------------------------------------------------
(* The map of cancel functions *)

\* Requests that are handled at once have met.
AtOnce ==
    \A p, q \in Post : p # q /\ post[p] \in {"list", "create"} /\ post[q] \in {"list", "create"}
        => {p, q} \in met

\* A playbook that is being created has seen the runs of its name that work.
CreatedAlive ==
    \A p, q \in Post : p # q /\ NameOf(p) = NameOf(q) /\ post[p] = "create" /\ Works(q)
        => {p, q} \in met \cup alive

\* Two runs of a name that work have met, or one has seen the other.
RunAlive ==
    \A p, q \in Post : p # q /\ NameOf(p) = NameOf(q) /\ Works(p) /\ Works(q)
        => {p, q} \in met \cup alive

\* A run that works has its entry, unless another run of its name got in.
HasEntry ==
    \A p \in Post : run[p] \notin {"none", "register", "ended"} /\ Rivals(p) = {} =>
        manager[NameOf(p)] = p

\* A request finds the earlier ones that it has not met done.
InOrder ==
    \A p, q \in Post : q < p /\ {p, q} \notin met /\ post[p] # "new" => post[q] = "done"

Base == AtOnce /\ CreatedAlive /\ RunAlive /\ HasEntry /\ InOrder

LEMMA Pairs == \A p, q : {p, q} = {q, p}
  OBVIOUS

LEMMA RivalIs ==
  /\ \A p, q \in Post : p # q /\ NameOf(p) = NameOf(q) /\ {p, q} \in met \cup alive
        => q \in Rivals(p) /\ p \in Rivals(q)
  /\ \A p : Rivals(p) \subseteq Post
  BY Pairs DEF Rivals

\* A step forgets no rival.
LEMMA RivalsStay ==
  ASSUME Typed, [Next]_wvars
  PROVE  /\ met \subseteq met' /\ alive \subseteq alive' /\ removed \subseteq removed'
         /\ intime \subseteq intime' /\ blind \subseteq blind'
         /\ request' = request
         /\ \A p \in Post : Rivals(p) \subseteq Rivals(p)'
  <1>1. ASSUME NEW p \in Post, PostStep(p)
        PROVE  /\ met \subseteq met' /\ alive \subseteq alive' /\ request' = request
               /\ removed' = removed /\ blind' = blind /\ intime' = intime
    BY <1>1 DEF PostStep, PostList, PostRefused, PostCreate, PostCreated, PostFails, history
  <1>2. ASSUME NEW p \in Post, RunStep(p)
        PROVE  UNCHANGED <<history, request>>
    BY <1>2 DEF RunStep, Lock, AddPlaybook, NewExecutor, SendTask, SendStatus, ReadTask, OpenTask,
           FillTask, ExecEnds, SyncStatus,
         Synced, DeletePlaybook, history, pvars
  <1>3. ASSUME NEW d \in Deletes, DeleteStep(d) \/ Disconnect(d)
        PROVE  UNCHANGED <<met, alive, removed, blind, request>> /\ intime \subseteq intime'
    <2>1. CASE Stop(d)
      <3>1. PICK p : intime' = intime \/ intime' = intime \cup {p}
        BY <2>1 DEF Stop
      <3> QED BY <2>1, <3>1 DEF Stop, pvars
    <2>2. CASE ~ Stop(d)
      BY <1>3, <2>2 DEF DeleteStep, DeleteGet, DeleteMissing, ListTasks, ListTask, DeleteTask, DeleteDone,
           Disconnect, history, pvars
    <2> QED BY <2>1, <2>2
  <1>4. ASSUME NEW c \in Client, Serve(c)
        PROVE  UNCHANGED <<met, alive, intime, request>> /\ removed \subseteq removed' /\ blind \subseteq blind'
    BY <1>4 DEF Serve, pvars
  <1>5. CASE Crashed
    BY <1>5 DEF Crashed, history, Rivals, NameOf
  <1>6. CASE UNCHANGED wvars
    BY <1>6 DEF wvars, history, pvars, Rivals, NameOf
  <1>7. /\ met \subseteq met' /\ alive \subseteq alive' /\ removed \subseteq removed'
        /\ intime \subseteq intime' /\ blind \subseteq blind' /\ request' = request
    BY <1>1, <1>2, <1>3, <1>4, <1>5, <1>6 DEF Next, MapRace, Kill, history, pvars
  <1> QED BY <1>7 DEF Rivals, NameOf

\* What a step that leaves the requests alone does to them.
LEMMA BaseSame ==
  ASSUME Base, UNCHANGED <<pvars, met, alive, manager>>,
         \A p \in Post : (Works(p)' => Works(p))
                         /\ (run'[p] \notin {"none", "register", "ended"}
                               => run[p] \notin {"none", "register", "ended"})
  PROVE  Base'
  BY DEF Base, AtOnce, CreatedAlive, RunAlive, HasEntry, InOrder, Rivals, NameOf, pvars, Works

LEMMA BasePost ==
  ASSUME Typed, Base, NEW p \in Post, PostStep(p), request' = request,
         \A q \in Post : Rivals(q) \subseteq Rivals(q)'
  PROVE  Base'
  <1> USE Pairs DEF Base, Typed, WTyped, WTypeOK, NameOf, PostGoes, Works
  <1>1. CASE PostRefused(p) \/ PostFails(p)
    <2>1. post[p] \in {"list", "create"} /\ post' = [post EXCEPT ![p] = "done"]
          /\ UNCHANGED <<request, run, met, alive, manager>>
      BY <1>1 DEF PostRefused, PostFails, runvars, history, mapvars
    <2>2. \A q \in Post : post'[q] # post[q] => q = p /\ post'[q] = "done"
      BY <2>1
    <2>3. AtOnce' /\ CreatedAlive' /\ RunAlive'
      BY <2>1, <2>2 DEF AtOnce, CreatedAlive, RunAlive
    <2>4. HasEntry'
      <3>1. \A q \in Post : Rivals(q)' = Rivals(q)
        BY <2>1 DEF Rivals
      <3> QED BY <2>1, <3>1 DEF HasEntry
    <2>5. InOrder'
      BY <2>1, <2>2 DEF InOrder
    <2> QED BY <2>3, <2>4, <2>5
  <1>2. CASE PostCreated(p)
    <2>1. PICK s \in {"register", "ended"} : run' = [run EXCEPT ![p] = s]
      BY <1>2 DEF PostCreated
    <2>2. post[p] = "create" /\ post' = [post EXCEPT ![p] = "done"]
          /\ UNCHANGED <<request, met, alive, manager>>
      BY <1>2 DEF PostCreated, history, mapvars
    <2>3. AtOnce' /\ InOrder'
      BY <2>2 DEF AtOnce, InOrder
    <2>4. CreatedAlive'
      BY <2>1, <2>2 DEF CreatedAlive, AtOnce
    <2>5. RunAlive'
      BY <2>1, <2>2 DEF CreatedAlive, RunAlive
    <2>6. \A q \in Post : run'[q] \notin {"none", "register", "ended"} => run'[q] = run[q]
      BY <2>1
    <2>7. HasEntry'
      <3>1. \A q \in Post : Rivals(q)' = Rivals(q)
        BY <2>2 DEF Rivals
      <3> QED BY <2>2, <2>6, <3>1 DEF HasEntry
    <2> QED BY <2>3, <2>4, <2>5, <2>7
  <1>3. CASE PostList(p) \/ PostCreate(p)
    <2>0. UNCHANGED <<request, run, manager>> /\ alive \subseteq alive' /\ met \subseteq met'
      BY <1>3 DEF PostList, PostCreate, runvars, mapvars
    <2>1. HasEntry'
      BY <2>0 DEF HasEntry
    <2>2. RunAlive'
      BY <2>0 DEF RunAlive
    <2>3. ASSUME Arrives(p), met' = met \cup Meets(p) PROVE AtOnce' /\ InOrder'
      <3>1. PICK s \in {"list", "create"} : post' = [post EXCEPT ![p] = s]
        BY <1>3 DEF PostList, PostCreate
      <3>2. \A q \in Post : post[q] \in {"list", "create"} => {p, q} \in met'
        BY <2>3 DEF Meets
      <3>3. AtOnce'
        BY <2>0, <3>1, <3>2 DEF AtOnce
      <3>4. \A q \in Post : q < p => post[q] # "new"
        BY <2>3 DEF Arrives
      <3>5. post[p] = "new"
        BY <2>3 DEF Arrives
      <3>6. \A a, b \in Post : b < a => a # b
        BY Constants
      <3>7. InOrder'
        BY <2>0, <3>1, <3>2, <3>4, <3>5, <3>6 DEF InOrder
      <3> QED BY <3>3, <3>7
    <2>4. ASSUME post[p] = "list", met' = met, PostCreate(p) PROVE AtOnce' /\ InOrder'
      BY <2>4 DEF AtOnce, InOrder, PostCreate
    <2>5. AtOnce' /\ InOrder'
      BY <1>3, <2>3, <2>4 DEF PostList, PostCreate
    <2>6. CASE PostList(p)
      <3>1. post' = [post EXCEPT ![p] = "list"]
        BY <2>6 DEF PostList
      <3>2. \A q \in Post : post'[q] = "create" => post[q] = "create"
        BY <3>1
      <3>3. CreatedAlive'
        BY <2>0, <3>2 DEF CreatedAlive
      <3> QED BY <2>1, <2>2, <2>5, <3>3
    <2>7. CASE PostCreate(p)
      <3>1. \A q \in Post : NameOf(q) = NameOf(p) /\ Works(q) => {p, q} \in alive'
        BY <2>7 DEF PostCreate
      <3>2. post' = [post EXCEPT ![p] = "create"]
        BY <2>7 DEF PostCreate
      <3>3. \A q \in Post : q # p /\ post'[q] = "create" => post[q] = "create"
        BY <3>2
      <3>4. CreatedAlive'
        BY <2>0, <3>1, <3>3 DEF CreatedAlive
      <3> QED BY <2>1, <2>2, <2>5, <3>4
    <2> QED BY <1>3, <2>1, <2>2, <2>5, <2>6, <2>7
  <1> QED BY <1>1, <1>2, <1>3 DEF PostStep

LEMMA BaseRun ==
  ASSUME Typed, Base, NEW p \in Post, RunStep(p)
  PROVE  Base'
  <1> USE DEF Typed, WTyped, WTypeOK, RunGoes, history, mapvars
  <1>1. CASE AddPlaybook(p) \/ DeletePlaybook(p)
    <2>1. PICK m \in {p, NoPost}, s \in {"new", "ended"} :
            /\ manager' = [manager EXCEPT ![NameOf(p)] = m]
            /\ run' = [run EXCEPT ![p] = s]
            /\ s = "new" => m = p
            /\ run[p] \in {"register", "deregister"}
      BY <1>1 DEF AddPlaybook, DeletePlaybook, Written
    <2>2. UNCHANGED <<pvars, met, alive>>
      BY <1>1 DEF AddPlaybook, DeletePlaybook
    <2>3. Works(p) /\ \A q \in Post : Works(q)' => Works(q)
      BY <2>1 DEF Works
    <2>4. ASSUME NEW q \in Post, run'[q] \notin {"none", "register", "ended"}, Rivals(q)' = {}
          PROVE  manager'[NameOf(q)] = q
      <3>1. NameOf(q) \in Key /\ NameOf(p) \in Key
        BY Constants DEF NameOf
      <3>2. CASE q = p
        BY <2>1, <2>4, <3>1, <3>2
      <3>3. CASE q # p
        <4>1. run[q] \notin {"none", "register", "ended"} /\ Works(q)
          BY <2>1, <2>4, <3>3 DEF Works
        <4>2. Rivals(q) = {}
          BY <2>2, <2>4 DEF Rivals, NameOf, pvars
        <4>3. NameOf(p) # NameOf(q)
          BY <2>3, <3>3, <4>1, <4>2, RivalIs DEF Base, RunAlive
        <4> QED BY <2>1, <3>1, <4>1, <4>2, <4>3 DEF Base, HasEntry
      <3> QED BY <3>2, <3>3
    <2>5. HasEntry'
      BY <2>2, <2>4 DEF HasEntry, NameOf, pvars
    <2> QED BY <2>2, <2>3, <2>5 DEF Base, AtOnce, CreatedAlive, RunAlive, InOrder, NameOf, pvars
  <1>2. CASE Lock(p)
    BY <1>2, BaseSame DEF Lock, runvars, Works
  <1>3. CASE NewExecutor(p)
    BY <1>3, BaseSame DEF NewExecutor, AfterNew, Works
  <1>4. CASE \/ SendTask(p) \/ SendStatus(p) \/ ReadTask(p) \/ OpenTask(p) \/ FillTask(p)
             \/ ExecEnds(p) \/ Synced(p)
    BY <1>4, BaseSame DEF SendTask, SendStatus, MayCall, ReadTask, OpenTask, FillTask, ExecEnds, Synced, Works
  <1>5. CASE SyncStatus(p)
    <2>1. PICK s \in {"patch", "deregister"} : run' = [run EXCEPT ![p] = s]
      BY <1>5 DEF SyncStatus
    <2>2. run[p] = "sync" /\ UNCHANGED <<pvars, met, alive, manager>>
      BY <1>5 DEF SyncStatus
    <2> QED BY <2>1, <2>2, BaseSame DEF Works
  <1> QED BY <1>1, <1>2, <1>3, <1>4, <1>5 DEF RunStep

LEMMA BaseStep ==
  ASSUME Typed, Base, [Next]_wvars
  PROVE  Base'
  <1>1. ASSUME NEW d \in Deletes, DeleteStep(d) \/ Disconnect(d)
        PROVE  UNCHANGED <<pvars, run, met, alive, manager>>
    <2>1. CASE Stop(d)
      BY <2>1 DEF Stop, mapvars
    <2>2. CASE ~ Stop(d)
      BY <1>1, <2>2 DEF DeleteStep, DeleteGet, DeleteMissing, ListTasks, ListTask, DeleteTask, DeleteDone,
           Disconnect, history, runvars, mapvars
    <2> QED BY <2>1, <2>2
  <1>2. ASSUME NEW c \in Client, Serve(c)
        PROVE  UNCHANGED <<pvars, run, met, alive, manager>>
    BY <1>2 DEF Serve, runvars, mapvars
  <1>3. CASE UNCHANGED wvars
    BY <1>3, BaseSame DEF wvars, history, runvars, mapvars, Works
  <1>4. CASE Crashed
    <2>1. \A p \in Post : ~ Works(p)' /\ post'[p] \in {"new", "done"} /\ (post'[p] = "new" <=> post[p] = "new")
      BY <1>4 DEF Crashed, Works, Typed, WTyped, WTypeOK
    <2>2. UNCHANGED <<request, met, alive>>
      BY <1>4 DEF Crashed, history
    <2> QED BY <2>1, <2>2 DEF Base, AtOnce, CreatedAlive, RunAlive, HasEntry, InOrder, Works
  <1>5. UNCHANGED <<pvars, run, met, alive, manager>> => Base'
    BY BaseSame DEF Works
  <1> QED BY <1>1, <1>2, <1>3, <1>4, <1>5, BasePost, BaseRun, RivalsStay DEF Next, MapRace, Kill

LEMMA BaseInit == Init => Base
  BY DEF Init, Base, AtOnce, CreatedAlive, RunAlive, HasEntry, InOrder, Works

\* playbookManager knows exactly the runs that can be stopped, for any number of
\* POST and DELETE requests: executor adds the entry before the run works and
\* removes it after.
THEOREM MapTellsRunsHolds == Spec => []MapTellsRuns
  <1>1. Init => Typed /\ Base
    BY TypedInit, BaseInit
  <1>2. Typed /\ Base /\ [Next]_wvars => (Typed /\ Base)'
    BY TypedStep, BaseStep
  <1>3. Typed /\ Base => MapTellsRuns
    BY DEF Typed, WTyped, Entries, Base, HasEntry, MapTellsRuns
  <1> QED BY <1>1, <1>2, <1>3, PTL DEF Spec

-----------------------------------------------------------------------------
(* What the steps do to the clients of the API server *)

\* Client c alone is concerned.
Only(c) ==
    /\ \A e \in Client \ {c} :
         at'[e] = at[e] /\ key'[e] = key[e] /\ copy'[e] = copy[e] /\ todo'[e] = todo[e]

\* The files, and who has one open, do not change.
SameFiles == UNCHANGED <<file, linked>>

\* The system calls, by what matters to the invariants.
Reads(c) ==
    /\ SameFiles
    /\ \/ at[c] = "stat" /\ copy' = copy
          /\ at'[c] \in {"exists", "truncate"} /\ (at'[c] = "truncate" => Here(c).is = "none")
       \/ at[c] = "update" /\ at'[c] \in {"truncate"} \cup Answer
          /\ (at'[c] = "truncate" =>
                Here(c).is = "data" /\ copy'[c].is = "data" /\ copy'[c].uid = Here(c).uid)
       \/ at[c] \in {"readback", "get"} /\ at'[c] \in Answer /\ copy'[c] = Here(c)
       \/ at[c] \in {"readdir", "readfiles"} /\ at'[c] \in {"readfiles", "ok", "error"}
       \/ at[c] = "find" /\ at'[c] \in {"check"} \cup Answer
       \/ at[c] = "check" /\ at'[c] \in {"rename"} \cup Answer

Opens(c) ==
    /\ at[c] = "truncate" /\ at'[c] = "fill"
    /\ file' = [file EXCEPT ![key[c]] = EmptyFile]
    /\ linked' = [linked EXCEPT ![c] = TRUE]
    /\ copy' = copy

Fills(c) ==
    /\ at[c] = "fill" /\ at'[c] = "readback"
    /\ linked' = [linked EXCEPT ![c] = FALSE]
    /\ copy' = copy
    /\ \/ ~ linked[c] /\ file' = file
       \/ linked[c] /\ file' = [file EXCEPT ![key[c]] = copy[c]]
       \/ linked[c] /\ Here(c).is = "data" /\ file' = [file EXCEPT ![key[c]] = GarbledFile]

Removes(c) ==
    /\ at[c] = "rename" /\ at'[c] \in {"ok", "notfound"}
    /\ file' = [file EXCEPT ![key[c]] = NoFile]
    /\ linked' = [e \in Client |-> linked[e] /\ key[e] # key[c]]
    /\ copy' = copy
    /\ (Here(c).is = "data" => at'[c] = "ok")

LEMMA CallEffect ==
  ASSUME FTypeOK, NEW c \in Client, NEW matching, SystemCall(c, matching)
  PROVE  /\ key' = key /\ Only(c)
         /\ Reads(c) \/ Opens(c) \/ Fills(c) \/ Removes(c)
  <1> USE DEF FTypeOK, Only, SameFiles, Goes, Read, Answer
  <1>0. Here(c) \in File
    BY DEF Here
  <1>1. CASE Stat(c)
    BY <1>1 DEF Stat, Reads, KeyExists
  <1>2. CASE Update(c)
    <2>0. Here(c).is \in {"none", "empty", "garbled", "data"}
      BY <1>0 DEF File
    <2>1. Updated(c).is = Here(c).is /\ Updated(c).uid = Here(c).uid
      BY <1>0 DEF Updated, File
    <2>2. Only(c)
      BY <1>2 DEF Update
    <2>3. at'[c] = IF Here(c).is = "empty" THEN "notfound" ELSE Read(c, "truncate", "ok")
      BY <1>2 DEF Update
    <2>4. Here(c).is = "data" => copy'[c] = Updated(c)
      BY <1>2 DEF Update
    <2>5. at'[c] \in {"truncate"} \cup Answer /\ (at'[c] = "truncate" => Here(c).is = "data")
      BY <2>0, <2>3
    <2> QED BY <1>2, <2>1, <2>2, <2>4, <2>5 DEF Update, Reads
  <1>3. CASE Truncate(c)
    BY <1>3 DEF Truncate, Opens
  <1>4. CASE Fill(c)
    BY <1>4 DEF Fill, Fills
  <1>5. CASE ReadBack(c)
    BY <1>0, <1>5 DEF ReadBack, File, Reads
  <1>6. CASE Get(c)
    BY <1>0, <1>6 DEF Get, File, Reads
  <1>7. CASE ReadDir(c)
    BY <1>7 DEF ReadDir, Reads
  <1>8. CASE ReadFiles(c, matching)
    BY <1>8 DEF ReadFiles, Reads
  <1>9. CASE Find(c)
    BY <1>0, <1>9 DEF Find, File, Reads
  <1>10. CASE Check(c)
    BY <1>0, <1>10 DEF Check, File, Reads
  <1>11. CASE Rename(c)
    BY <1>11 DEF Rename, Removes
  <1> QED BY <1>1, <1>2, <1>3, <1>4, <1>5, <1>6, <1>7, <1>8, <1>9, <1>10, <1>11 DEF SystemCall

\* A step of PlaybookHandler.Post.
PostMoves(p) ==
    LET c == Poster(p) IN
    /\ SameFiles /\ todo' = todo /\ Only(c)
    /\ UNCHANGED <<request, cancelled, made, taskvars, delvars, removed, stops, blind>>
    /\ \A q \in Post \ {p} : post'[q] = post[q] /\ run'[q] = run[q]
    /\ \/ /\ post[p] = "new" /\ post'[p] = "list" /\ run' = run
          /\ at'[c] = "readdir" /\ copy'[c] = NoFile
       \/ /\ post[p] \in {"list", "create"} /\ post'[p] = "done" /\ at[c] \in Answer /\ at'[c] = "idle"
          /\ run' = run
       \/ /\ post[p] = "create" /\ post'[p] = "done" /\ at[c] = "ok" /\ at'[c] = "idle"
          /\ run'[p] \in {"register", "ended"}
       \/ /\ post'[p] = "create" /\ run' = run
          /\ at'[c] = "stat" /\ key'[c] = NameOf(p) /\ copy'[c] = Data(p)
          /\ \/ post[p] = "new" /\ LabelOf(p) = NoLabel
             \/ post[p] = "list" /\ at[c] = "ok" /\ copy[c].is # "data"

LEMMA PostMove ==
  ASSUME Typed, NEW p \in Post, PostStep(p)
  PROVE  PostMoves(p)
  <1> USE DEF Typed, FTypeOK, WTyped, WTypeOK, PostGoes, Only, SameFiles, PostMoves, Answer,
              runvars, mapvars, delvars, history
  <1>0. Poster(p) \in Client
    BY Clients
  <1>1. CASE PostList(p)
    BY <1>0, <1>1 DEF PostList, SendList, Send, Arrives
  <1>2. CASE PostRefused(p)
    <2>1. PICK a \in Answer : Receive(Poster(p), a)
      BY <1>2 DEF PostRefused
    <2> QED BY <1>0, <1>2, <2>1 DEF PostRefused, Receive
  <1>3. CASE PostCreate(p)
    BY <1>0, <1>3 DEF PostCreate, SendCreate, Send, Conflict, Arrives
  <1>4. CASE PostCreated(p)
    <2>1. PICK s \in {"register", "ended"} : run' = [run EXCEPT ![p] = s]
      BY <1>4 DEF PostCreated
    <2> QED BY <1>0, <1>4, <2>1 DEF PostCreated, Receive
  <1>5. CASE PostFails(p)
    <2>1. PICK a \in Answer : Receive(Poster(p), a)
      BY <1>5 DEF PostFails
    <2> QED BY <1>0, <1>5, <2>1 DEF PostFails, Receive
  <1> QED BY <1>1, <1>2, <1>3, <1>4, <1>5 DEF PostStep

\* What a run does to its tasks: it opens the file of the one it writes, fills it, or
\* neither.
TaskMoves(p) ==
    \/ /\ UNCHANGED taskvars /\ run[p] # "fill" /\ run'[p] # "fill"
       /\ \/ run'[p] \notin Writing
          \/ run[p] = "read" /\ made' = made
          \/ run[p] = "exec" /\ ~ cancelled[p]
    \/ /\ run[p] = "open" /\ run'[p] = "fill" /\ made' = made
       /\ tasks' = [tasks EXCEPT ![p] = @ \cup {made[p]}]
       /\ torn' = [torn EXCEPT ![p] = @ \cup {made[p]}]
    \/ /\ run[p] = "fill" /\ run'[p] = "exec" /\ tasks' = tasks
       /\ torn' = [torn EXCEPT ![p] = @ \ {made[p]}]

\* A step of a run.
RunMoves(p) ==
    LET c == Runner(p) IN
    /\ SameFiles /\ todo' = todo /\ Only(c)
    /\ UNCHANGED <<pvars, cancelled, delvars, history>>
    /\ \A q \in Post \ {p} : run'[q] = run[q] /\ made'[q] = made[q]
    /\ TaskMoves(p)
    /\ \/ /\ UNCHANGED fvars /\ run[p] # "patch" /\ run'[p] # "patch"
          /\ Works(p) /\ run'[p] # "none"
          /\ run'[p] \in {"register", "new", "exec", "sync"} \cup Writing =>
               run[p] \in {"register", "new", "exec", "sync"} \cup Writing
       \/ /\ run[p] = "sync" /\ run'[p] = "patch" /\ ~ cancelled[p]
          /\ at'[c] = "update" /\ key'[c] = NameOf(p)
       \/ /\ run[p] = "patch" /\ run'[p] = "deregister" /\ at[c] \in Answer /\ at'[c] = "idle"

LEMMA RunMove ==
  ASSUME Typed, NEW p \in Post, RunStep(p)
  PROVE  RunMoves(p)
  <1> USE DEF Typed, FTypeOK, WTyped, WTypeOK, RunGoes, Only, SameFiles, RunMoves, TaskMoves, Writing,
              runvars, mapvars, fvars, Works
  <1>0. Runner(p) \in Client
    BY Clients
  <1>1. CASE Lock(p)
    BY <1>1 DEF Lock
  <1>2. CASE AddPlaybook(p) \/ DeletePlaybook(p)
    BY <1>2 DEF AddPlaybook, DeletePlaybook
  <1>3. CASE NewExecutor(p)
    BY <1>3 DEF NewExecutor, AfterNew
  <1>4. CASE SendTask(p) \/ SendStatus(p) \/ ExecEnds(p)
    BY <1>4 DEF SendTask, SendStatus, MayCall, ExecEnds
  <1>5. CASE ReadTask(p)
    BY <1>5 DEF ReadTask
  <1>8. CASE OpenTask(p) \/ FillTask(p)
    BY <1>8 DEF OpenTask, FillTask
  <1>6. CASE SyncStatus(p)
    <2>1. CASE Sends(p)
      BY <1>0, <1>6, <2>1 DEF SyncStatus, Sends, SendPatch, Send
    <2>2. CASE ~ Sends(p)
      BY <1>6, <2>2 DEF SyncStatus
    <2> QED BY <2>1, <2>2
  <1>7. CASE Synced(p)
    <2>1. PICK a \in Answer : Receive(Runner(p), a)
      BY <1>7 DEF Synced
    <2> QED BY <1>0, <1>7, <2>1 DEF Synced, Receive
  <1> QED BY <1>1, <1>2, <1>3, <1>4, <1>5, <1>6, <1>7, <1>8 DEF RunStep

\* A step of PlaybookHandler.Delete that does not stop a run.
DeleteMoves(d) ==
    LET c == Deleter(d) IN
    /\ SameFiles /\ todo' = todo /\ Only(c)
    /\ UNCHANGED <<pvars, run, made, met, alive, blind, removed>>
    /\ \A e \in Deletes \ {d} : 
         /\ delete'[e] = delete[e] /\ got'[e] = got[e]
         /\ unread'[e] = unread[e] /\ doomed'[e] = doomed[e]
    /\ \/ /\ delete[d] = "new" /\ delete'[d] = "get" /\ at'[c] = "get" /\ key'[c] = Target[d]
          /\ UNCHANGED <<got, unread, doomed, cancelled, stops, taskvars>>
       \/ /\ delete[d] \in {"get", "delete"} /\ at[c] \in Answer
          /\ \/ delete'[d] = "error"
             \/ delete'[d] = "ok" /\ at[c] = "notfound"
          /\ at'[c] = "idle"
          /\ UNCHANGED <<got, unread, doomed, cancelled, stops, taskvars>>
       \/ /\ delete[d] = "delete" /\ at[c] = "ok" /\ delete'[d] = "tasks" /\ at'[c] = "idle"
          /\ unread'[d] = tasks[got[d]]
          /\ UNCHANGED <<got, doomed, cancelled, stops, taskvars>>
       \/ /\ delete[d] = "tasks" /\ at' = at
          /\ UNCHANGED <<got, cancelled, stops, key, copy, taskvars>>
          /\ \E t \in unread[d] :
               /\ unread'[d] = unread[d] \ {t}
               /\ \/ t \in tasks[got[d]] /\ delete' = delete
                  \/ delete'[d] = "error"
               /\ doomed'[d] = doomed[d] \cup (IF t \in torn[got[d]] THEN {} ELSE {t})
       \/ /\ delete[d] = "tasks" /\ at' = at /\ delete' = delete
          /\ UNCHANGED <<got, unread, cancelled, stops, key, copy>>
          /\ \E t \in doomed[d] : /\ tasks' = [tasks EXCEPT ![got[d]] = @ \ {t}]
                                  /\ torn' = [torn EXCEPT ![got[d]] = @ \ {t}]
                                  /\ doomed'[d] = doomed[d] \ {t}
       \/ /\ delete[d] = "tasks" /\ at' = at
          /\ UNCHANGED <<got, unread, doomed, cancelled, stops, key, copy, taskvars>>
          /\ \/ delete'[d] = "error"
             \/ delete'[d] = "ok" /\ unread[d] = {} /\ doomed[d] = {}
       \/ /\ delete[d] = "get" /\ at[c] = "ok" /\ delete'[d] = "delete"
          /\ copy[c].is = "data" /\ got'[d] = copy[c].uid
          /\ at'[c] = "find" /\ key'[c] = key[c]
          /\ UNCHANGED <<unread, doomed, taskvars>>
          /\ \/ UNCHANGED <<cancelled, stops>>
             \/ \E p \in Post : /\ NameOf(p) = key[c]
                                /\ cancelled' = [cancelled EXCEPT ![p] = TRUE]
                                /\ inflight' = [inflight EXCEPT ![p] = @ \cup UnderWay(p)]
                                /\ \/ intime' = intime
                                   \/ InTime(p) /\ intime' = intime \cup {p}

LEMMA DeleteMove ==
  ASSUME Typed, NEW d \in Deletes, DeleteStep(d) \/ Disconnect(d)
  PROVE  DeleteMoves(d)
  <1> USE DEF Typed, FTypeOK, WTyped, WTypeOK, DeleteGoes, Only, SameFiles, DeleteMoves, Answer,
              pvars, runvars, mapvars, delvars, history, fvars
  <1>0. Deleter(d) \in Client
    BY Clients
  <1>1. CASE DeleteGet(d)
    BY <1>0, <1>1 DEF DeleteGet, SendGet, Send
  <1>2. CASE DeleteMissing(d)
    <2>1. PICK a \in Answer, s \in {"ok", "error"} :
            Receive(Deleter(d), a) /\ DeleteGoes(d, s) /\ (s = "ok" => a = "notfound")
      BY <1>2 DEF DeleteMissing
    <2> QED BY <1>0, <1>2, <2>1 DEF DeleteMissing, Receive
  <1>3. CASE Stop(d)
    <2>1. copy[Deleter(d)].uid \in Post /\ key[Deleter(d)] \in Key
      BY Clients, Constants DEF File
    <2>2. PICK p \in Lookup(key[Deleter(d)]) :
            IF p # NoPost
            THEN /\ cancelled' = [cancelled EXCEPT ![p] = TRUE]
                 /\ intime' = IF InTime(p) THEN intime \cup {p} ELSE intime
                 /\ inflight' = [inflight EXCEPT ![p] = @ \cup UnderWay(p)]
            ELSE UNCHANGED <<cancelled, stops>>
      BY <1>3 DEF Stop
    <2>3. p # NoPost => p \in Post /\ NameOf(p) = key[Deleter(d)]
      BY <2>1, LookupFinds
    <2>4. \/ UNCHANGED <<cancelled, stops>>
          \/ \E q \in Post : /\ NameOf(q) = key[Deleter(d)]
                             /\ cancelled' = [cancelled EXCEPT ![q] = TRUE]
                             /\ inflight' = [inflight EXCEPT ![q] = @ \cup UnderWay(q)]
                             /\ \/ intime' = intime
                                \/ InTime(q) /\ intime' = intime \cup {q}
      BY <2>2, <2>3
    <2> QED BY <1>0, <1>3, <2>1, <2>4 DEF Stop, SendDelete, Send
  <1>4. CASE ListTasks(d)
    BY <1>0, <1>4 DEF ListTasks, Receive
  <1>5. CASE DeleteTask(d)
    BY <1>5 DEF DeleteTask
  <1>6. CASE DeleteDone(d)
    BY <1>6 DEF DeleteDone
  <1>7. CASE Disconnect(d)
    <2>1. CASE delete[d] = "tasks" /\ UNCHANGED fvars
      BY <1>7, <2>1 DEF Disconnect
    <2>2. CASE delete[d] \in {"get", "delete"} /\ \E a \in Answer : Receive(Deleter(d), a)
      BY <1>0, <1>7, <2>2 DEF Disconnect, Receive
    <2> QED BY <1>7, <2>1, <2>2 DEF Disconnect
  <1>8. CASE ListTask(d)
    BY <1>8 DEF ListTask
  <1> QED BY <1>1, <1>2, <1>3, <1>4, <1>5, <1>6, <1>7, <1>8 DEF DeleteStep

\* A system call.
ServeMoves(c) ==
    /\ Serve(c)
    /\ key' = key /\ Only(c)
    /\ Reads(c) \/ Opens(c) \/ Fills(c) \/ Removes(c)
    /\ UNCHANGED <<pvars, runvars, mapvars, delvars, met, alive, stops>>
    /\ removed' = removed \cup {file[k].uid : k \in {l \in Key :
                      file[l].is = "data" /\ file'[l].is = "none"}}

Moves ==
    \/ \E p \in Post : PostMoves(p) \/ RunMoves(p)
    \/ \E d \in Deletes : DeleteMoves(d)
    \/ \E c \in Client : ServeMoves(c)
    \/ Crashed
    \/ UNCHANGED wvars

LEMMA StepMoves == Typed /\ [Next]_wvars => Moves
  <1>1. ASSUME Typed, NEW c \in Client, Serve(c) PROVE ServeMoves(c)
    BY <1>1, CallEffect DEF Serve, ServeMoves, Typed
  <1> QED BY <1>1, PostMove, RunMove, DeleteMove DEF Next, MapRace, Kill, Moves

-----------------------------------------------------------------------------
(* The requests that are under way *)

\* The file of the playbook has been opened for the first time, or will never be.
Begun(p) ==
    \/ post[p] = "done"
    \/ post[p] = "create" /\ at[Poster(p)] \notin {"stat", "truncate"}

\* What PlaybookHandler.Post waits for.
PostCall(p) ==
    /\ post[p] \in {"new", "done"} => at[Poster(p)] = "idle"
    /\ post[p] = "list" => at[Poster(p)] \in {"readdir", "readfiles", "ok", "error"}
    /\ post[p] = "create" =>
         /\ at[Poster(p)] \in {"stat", "truncate", "fill", "readback"} \cup Answer
         /\ key[Poster(p)] = NameOf(p)
         /\ at[Poster(p)] \in {"stat", "truncate", "fill"} => copy[Poster(p)] = Data(p)

PostCalls == \A p \in Post : PostCall(p)

\* What a run waits for: it writes what it has read under its name.
RunCall(p) ==
    /\ run[p] # "patch" => at[Runner(p)] = "idle"
    /\ run[p] = "patch" =>
         /\ at[Runner(p)] \in {"update", "truncate", "fill", "readback"} \cup Answer
         /\ key[Runner(p)] = NameOf(p)
    /\ at[Runner(p)] \in {"truncate", "fill"} =>
         /\ copy[Runner(p)].is = "data"
         /\ NameOf(copy[Runner(p)].uid) = NameOf(p)
         /\ Begun(copy[Runner(p)].uid)

RunCalls == \A p \in Post : RunCall(p)

\* What PlaybookHandler.Delete waits for, and what it has read.
DeleteCall(d) ==
    /\ delete[d] \notin {"get", "delete"} => at[Deleter(d)] = "idle"
    /\ delete[d] = "get" => at[Deleter(d)] \in {"get"} \cup Answer
    /\ delete[d] = "get" /\ at[Deleter(d)] = "ok" /\ copy[Deleter(d)].is = "data" =>
         NameOf(copy[Deleter(d)].uid) = Target[d]
    /\ delete[d] = "delete" => at[Deleter(d)] \in {"find", "check", "rename"} \cup Answer
    /\ delete[d] \in {"get", "delete"} => key[Deleter(d)] = Target[d]
    /\ got[d] # NoPost => NameOf(got[d]) = Target[d]

DeleteCalls == \A d \in Deletes : DeleteCall(d)

\* A file holds a playbook of its name, once that was created.
FilesBegun ==
    \A k \in Key : file[k].is = "data" => NameOf(file[k].uid) = k /\ Begun(file[k].uid)

\* Who has a file open is about to fill it.
Linked == \A c \in Client : linked[c] => at[c] = "fill"

Calls == PostCalls /\ RunCalls /\ DeleteCalls /\ FilesBegun /\ Linked

\* The client of a system call.
LEMMA ServedIs ==
  ASSUME Typed, Calls, NEW c \in Client, ServeMoves(c)
  PROVE  \/ \E p \in Post : c = Poster(p) /\ post[p] \in {"list", "create"}
         \/ \E p \in Post : c = Runner(p) /\ run[p] = "patch"
         \/ \E d \in Deletes : c = Deleter(d) /\ delete[d] \in {"get", "delete"}
  <1>1. at[c] # "idle"
    BY DEF ServeMoves, Reads, Opens, Fills, Removes
  <1>2. ASSUME NEW p \in Post, c = Poster(p) PROVE post[p] \in {"list", "create"}
    BY <1>1, <1>2 DEF Calls, PostCalls, PostCall, Typed, WTyped, WTypeOK
  <1>3. ASSUME NEW p \in Post, c = Runner(p) PROVE run[p] = "patch"
    BY <1>1, <1>3 DEF Calls, RunCalls, RunCall
  <1>4. ASSUME NEW d \in Deletes, c = Deleter(d) PROVE delete[d] \in {"get", "delete"}
    BY <1>1, <1>4 DEF Calls, DeleteCalls, DeleteCall
  <1> QED BY <1>2, <1>3, <1>4, Clients

\* The client is as it was.
Idle(c) == at'[c] = at[c] /\ key'[c] = key[c] /\ copy'[c] = copy[c] /\ todo'[c] = todo[c]

\* A step concerns one goroutine, unless the process ends.
LEMMA Others ==
  ASSUME Typed, Calls, Moves, ~ Crashed
  PROVE  /\ \A p \in Post :
              \/ PostMoves(p)
              \/ post'[p] = post[p] /\ ServeMoves(Poster(p))
              \/ post'[p] = post[p] /\ Idle(Poster(p))
         /\ \A p \in Post :
              \/ RunMoves(p)
              \/ run'[p] = run[p] /\ ServeMoves(Runner(p))
              \/ run'[p] = run[p] /\ Idle(Runner(p))
              \/ PostMoves(p) /\ Idle(Runner(p))
         /\ \A d \in Deletes :
              \/ DeleteMoves(d)
              \/ delete'[d] = delete[d] /\ got'[d] = got[d] /\ ServeMoves(Deleter(d))
              \/ delete'[d] = delete[d] /\ got'[d] = got[d] /\ Idle(Deleter(d))
  <1> DEFINE P(p) == \/ PostMoves(p)
                     \/ post'[p] = post[p] /\ ServeMoves(Poster(p))
                     \/ post'[p] = post[p] /\ Idle(Poster(p))
  <1> DEFINE R(p) == \/ RunMoves(p)
                     \/ run'[p] = run[p] /\ ServeMoves(Runner(p))
                     \/ run'[p] = run[p] /\ Idle(Runner(p))
                     \/ PostMoves(p) /\ Idle(Runner(p))
  <1> DEFINE D(d) == \/ DeleteMoves(d)
                     \/ delete'[d] = delete[d] /\ got'[d] = got[d] /\ ServeMoves(Deleter(d))
                     \/ delete'[d] = delete[d] /\ got'[d] = got[d] /\ Idle(Deleter(d))
  <1>1. ASSUME NEW c \in Client, Only(c), NEW e \in Client, e # c PROVE Idle(e)
    BY <1>1 DEF Only, Idle
  <1>2. ASSUME NEW p \in Post, PostMoves(p)
        PROVE  (\A q \in Post : P(q) /\ R(q)) /\ (\A d \in Deletes : D(d))
    <2>1. /\ Only(Poster(p)) /\ \A q \in Post \ {p} : post'[q] = post[q] /\ run'[q] = run[q]
          /\ delete' = delete /\ got' = got
      BY <1>2 DEF PostMoves, delvars
    <2>2. ASSUME NEW q \in Post PROVE P(q)
      BY <1>1, <1>2, <2>1, Clients
    <2>3. ASSUME NEW q \in Post PROVE R(q)
      BY <1>1, <1>2, <2>1, Clients
    <2>4. ASSUME NEW d \in Deletes PROVE D(d)
      BY <1>1, <1>2, <2>1, Clients
    <2> QED BY <2>2, <2>3, <2>4
  <1>3. ASSUME NEW p \in Post, RunMoves(p)
        PROVE  (\A q \in Post : P(q) /\ R(q)) /\ (\A d \in Deletes : D(d))
    <2>1. /\ Only(Runner(p)) /\ post' = post /\ \A q \in Post \ {p} : run'[q] = run[q]
          /\ delete' = delete /\ got' = got
      BY <1>3 DEF RunMoves, delvars, pvars
    <2>2. ASSUME NEW q \in Post PROVE P(q)
      BY <1>1, <1>3, <2>1, Clients
    <2>3. ASSUME NEW q \in Post PROVE R(q)
      BY <1>1, <1>3, <2>1, Clients
    <2>4. ASSUME NEW d \in Deletes PROVE D(d)
      BY <1>1, <1>3, <2>1, Clients
    <2> QED BY <2>2, <2>3, <2>4
  <1>4. ASSUME NEW f \in Deletes, DeleteMoves(f)
        PROVE  (\A q \in Post : P(q) /\ R(q)) /\ (\A d \in Deletes : D(d))
    <2>1. /\ Only(Deleter(f)) /\ post' = post /\ run' = run
          /\ \A d \in Deletes \ {f} : delete'[d] = delete[d] /\ got'[d] = got[d]
      BY <1>4 DEF DeleteMoves, pvars
    <2>2. ASSUME NEW q \in Post PROVE P(q)
      BY <1>1, <1>4, <2>1, Clients
    <2>3. ASSUME NEW q \in Post PROVE R(q)
      <3>1. Runner(q) \in Client /\ Deleter(f) \in Client /\ Runner(q) # Deleter(f)
        BY Clients
      <3>2. Idle(Runner(q))
        BY <1>1, <2>1, <3>1
      <3> QED BY <2>1, <3>2
    <2>4. ASSUME NEW d \in Deletes PROVE D(d)
      BY <1>1, <1>4, <2>1, Clients
    <2> QED BY <2>2, <2>3, <2>4
  <1>5. ASSUME NEW c \in Client, ServeMoves(c)
        PROVE  (\A q \in Post : P(q) /\ R(q)) /\ (\A d \in Deletes : D(d))
    <2>1. Only(c) /\ post' = post /\ run' = run /\ delete' = delete /\ got' = got
      BY <1>5 DEF ServeMoves, pvars, runvars, delvars
    <2> QED BY <1>1, <1>5, <2>1, Clients
  <1>6. CASE UNCHANGED wvars
    BY <1>6 DEF wvars, pvars, runvars, delvars, fvars, Idle
  <1> QED BY <1>2, <1>3, <1>4, <1>5, <1>6 DEF Moves

LEMMA PostCallsStep ==
  ASSUME Typed, Calls, [Next]_wvars
  PROVE  PostCalls'
  <1>n. Moves /\ \A p : NameOf(p)' = NameOf(p)
    BY RivalsStay, StepMoves DEF NameOf
  <1>1. CASE Crashed
    BY <1>1, Clients DEF Crashed, FCrash, PostCalls, PostCall
  <1>2. ASSUME ~ Crashed, NEW p \in Post PROVE PostCall(p)'
    <2>0. PostCall(p) /\ post[p] \in {"new", "list", "create", "done"}
      BY DEF Calls, PostCalls, Typed, WTyped, WTypeOK
    <2>1. CASE PostMoves(p)
      BY <1>n, <2>0, <2>1 DEF PostMoves, PostCall
    <2>2. CASE post'[p] = post[p] /\ Idle(Poster(p))
      BY <1>n, <2>0, <2>2 DEF Idle, PostCall
    <2>3. CASE post'[p] = post[p] /\ ServeMoves(Poster(p))
      <3>1. key' = key /\ (Reads(Poster(p)) \/ Opens(Poster(p)) \/ Fills(Poster(p)) \/ Removes(Poster(p)))
        BY <2>3 DEF ServeMoves
      <3> QED BY <1>n, <2>0, <2>3, <3>1 DEF PostCall, Reads, Opens, Fills, Removes, Answer
    <2> QED BY <1>2, <1>n, <2>1, <2>2, <2>3, Others
  <1> QED BY <1>1, <1>2 DEF PostCalls

LEMMA BegunStays ==
  ASSUME Typed, Calls, [Next]_wvars, NEW u \in Post, Begun(u)
  PROVE  Begun(u)'
  <1>1. CASE Crashed
    BY <1>1 DEF Crashed, Begun
  <1>2. CASE ~ Crashed
    <2>0. PostCall(u)
      BY DEF Calls, PostCalls
    <2>1. CASE PostMoves(u)
      BY <2>0, <2>1 DEF PostMoves, Begun, PostCall
    <2>2. CASE post'[u] = post[u] /\ Idle(Poster(u))
      BY <2>2 DEF Idle, Begun
    <2>3. CASE post'[u] = post[u] /\ ServeMoves(Poster(u))
      BY <2>0, <2>3 DEF Begun, PostCall, ServeMoves, Reads, Opens, Fills, Removes, Answer
    <2> QED BY <1>2, <2>1, <2>2, <2>3, Others, StepMoves
  <1> QED BY <1>1, <1>2

\* The names and labels do not change, and what has begun stays so.
LEMMA Same ==
  ASSUME Typed, Calls, [Next]_wvars
  PROVE  /\ \A u : NameOf(u)' = NameOf(u) /\ LabelOf(u)' = LabelOf(u)
         /\ \A u \in Post : Begun(u) => Begun(u)'
         /\ Moves
  BY RivalsStay, StepMoves, BegunStays DEF NameOf, LabelOf

\* What is under the key of a client.
LEMMA HereIs ==
  ASSUME Typed, Calls, NEW c \in Client, Here(c).is = "data"
  PROVE  Here(c).uid \in Post /\ NameOf(Here(c).uid) = key[c] /\ Begun(Here(c).uid)
  BY Constants DEF Here, Typed, FTypeOK, File, Calls, FilesBegun

LEMMA RunCallsStep ==
  ASSUME Typed, Calls, [Next]_wvars
  PROVE  RunCalls'
  <1>1. CASE Crashed
    BY <1>1, Clients DEF Crashed, FCrash, RunCalls, RunCall, Typed, WTyped, WTypeOK
  <1>2. ASSUME ~ Crashed, NEW p \in Post PROVE RunCall(p)'
    <2> DEFINE c == Runner(p)
    <2>0. RunCall(p) /\ c \in Client /\ copy[c].uid \in Post
      BY Clients, Constants DEF Calls, RunCalls, Typed, FTypeOK, File
    <2> HIDE DEF c
    <2>1. ASSUME Idle(c), run'[p] = "patch" <=> run[p] = "patch" PROVE RunCall(p)'
      BY <2>0, <2>1, Same DEF Idle, RunCall, c
    <2>2. CASE RunMoves(p)
      <3>1. CASE UNCHANGED fvars /\ run[p] # "patch" /\ run'[p] # "patch"
        BY <2>1, <3>1 DEF fvars, Idle
      <3>2. CASE run[p] = "sync" /\ run'[p] = "patch" /\ at'[c] = "update" /\ key'[c] = NameOf(p)
        BY <3>2, Same DEF RunCall, c
      <3>3. CASE run[p] = "patch" /\ run'[p] = "deregister" /\ at'[c] = "idle"
        BY <3>3 DEF RunCall, c
      <3> QED BY <2>2, <3>1, <3>2, <3>3 DEF RunMoves, c
    <2>3. CASE PostMoves(p) /\ Idle(c)
      BY <2>1, <2>3 DEF PostMoves, Typed, WTyped, Prepared
    <2>4. CASE run'[p] = run[p] /\ ServeMoves(c)
      <3>1. key' = key /\ (Reads(c) \/ Opens(c) \/ Fills(c) \/ Removes(c))
        BY <2>4 DEF ServeMoves
      <3>2. run[p] = "patch"
        BY <2>0, <3>1 DEF RunCall, Reads, Opens, Fills, Removes, c
      <3>3. key[c] = NameOf(p) /\ at[c] \in {"update", "truncate", "fill", "readback"} \cup Answer
        BY <2>0, <3>2 DEF RunCall, c
      <3>4. at'[c] \in {"truncate", "fill", "readback"} \cup Answer
        BY <3>1, <3>3 DEF Reads, Opens, Fills, Removes, Answer
      <3>5. at'[c] \in {"truncate", "fill"} =>
              \/ Here(c).is = "data" /\ copy'[c].is = "data" /\ copy'[c].uid = Here(c).uid
              \/ at[c] \in {"truncate", "fill"} /\ copy'[c] = copy[c]
        BY <3>1, <3>3 DEF Reads, Opens, Fills, Removes, Answer
      <3>6. ASSUME at'[c] \in {"truncate", "fill"}
            PROVE  \E u \in Post : /\ copy'[c].is = "data" /\ copy'[c].uid = u
                                   /\ NameOf(u) = NameOf(p) /\ Begun(u)
        BY <2>0, <3>3, <3>5, <3>6, HereIs DEF RunCall, c
      <3>7. at'[c] \in {"truncate", "fill"} =>
              (copy[c].is = "data" /\ NameOf(copy[c].uid) = NameOf(p) /\ Begun(copy[c].uid))'
        BY <3>6, Same
      <3> QED BY <2>4, <3>1, <3>2, <3>3, <3>4, <3>7, Same DEF RunCall, c
    <2> QED BY <1>2, <2>1, <2>2, <2>3, <2>4, Others, StepMoves DEF c
  <1> QED BY <1>1, <1>2 DEF RunCalls

LEMMA DeleteCallsStep ==
  ASSUME Typed, Calls, [Next]_wvars
  PROVE  DeleteCalls'
  <1>1. CASE Crashed
    BY <1>1, Clients, Same DEF Crashed, FCrash, DeleteCalls, DeleteCall, Typed, WTyped, WTypeOK, Calls
  <1>2. ASSUME ~ Crashed, NEW d \in Deletes PROVE DeleteCall(d)'
    <2> DEFINE c == Deleter(d)
    <2>0. DeleteCall(d) /\ c \in Client
      BY Clients DEF Calls, DeleteCalls
    <2> HIDE DEF c
    <2>1. CASE DeleteMoves(d)
      <3>1. got'[d] # NoPost => NameOf(got'[d]) = Target[d]
        BY <2>0, <2>1 DEF DeleteMoves, DeleteCall
      <3>2. \/ delete'[d] = "get" /\ at'[c] = "get" /\ key'[c] = Target[d]
            \/ delete'[d] \in {"tasks", "ok", "error"} /\ at'[c] = "idle"
            \/ delete'[d] = "delete" /\ at'[c] = "find" /\ key'[c] = Target[d]
        BY <2>0, <2>1 DEF DeleteMoves, DeleteCall, c
      <3> QED BY <3>1, <3>2, Same DEF DeleteCall, c
    <2>2. CASE delete'[d] = delete[d] /\ got'[d] = got[d] /\ Idle(c)
      BY <2>0, <2>2, Same DEF Idle, DeleteCall, c
    <2>3. CASE delete'[d] = delete[d] /\ got'[d] = got[d] /\ ServeMoves(c)
      <3>1. key' = key /\ (Reads(c) \/ Opens(c) \/ Fills(c) \/ Removes(c))
        BY <2>3 DEF ServeMoves
      <3>2. CASE delete[d] = "get"
        <4>1. at'[c] \in Answer /\ copy'[c] = Here(c) /\ key[c] = Target[d]
          BY <2>0, <3>1, <3>2 DEF DeleteCall, Reads, Opens, Fills, Removes, Answer, c
        <4>2. copy'[c].is = "data" => NameOf(copy'[c].uid) = Target[d]
          BY <2>0, <4>1, HereIs
        <4> QED BY <2>0, <2>3, <3>1, <3>2, <4>1, <4>2, Same DEF DeleteCall, c
      <3>3. CASE delete[d] = "delete"
        BY <2>0, <2>3, <3>1, <3>3, Same DEF DeleteCall, Reads, Opens, Fills, Removes, Answer, c
      <3>4. delete[d] \in {"get", "delete"}
        BY <2>0, <3>1 DEF DeleteCall, Reads, Opens, Fills, Removes, c
      <3> QED BY <3>2, <3>3, <3>4
    <2> QED BY <1>2, <2>1, <2>2, <2>3, Others, StepMoves DEF c
  <1> QED BY <1>1, <1>2 DEF DeleteCalls

LEMMA LinkedStep ==
  ASSUME Typed, Calls, Moves
  PROVE  Linked'
  <1> USE DEF Calls, Linked
  <1>1. ASSUME NEW c \in Client, Only(c), SameFiles, at[c] # "fill" PROVE Linked'
    BY <1>1 DEF Only, SameFiles
  <1>2. ASSUME NEW p \in Post, PostMoves(p) PROVE Linked'
    <2>1. PostCall(p)
      BY DEF PostCalls
    <2>2. at[Poster(p)] # "fill"
      BY <1>2, <2>1 DEF PostMoves, PostCall, Answer
    <2> QED BY <1>1, <1>2, <2>2, Clients DEF PostMoves
  <1>3. ASSUME NEW p \in Post, RunMoves(p) PROVE Linked'
    <2>1. at[Runner(p)] # "fill" \/ UNCHANGED fvars
      BY <1>3 DEF RunMoves, RunCalls, RunCall, Answer
    <2> QED BY <1>1, <1>3, <2>1, Clients DEF RunMoves, fvars
  <1>4. ASSUME NEW d \in Deletes, DeleteMoves(d) PROVE Linked'
    <2>1. at[Deleter(d)] # "fill"
      BY DEF DeleteCalls, DeleteCall, Answer
    <2> QED BY <1>1, <1>4, <2>1, Clients DEF DeleteMoves
  <1>5. ASSUME NEW c \in Client, ServeMoves(c) PROVE Linked'
    <2>0. Only(c) /\ linked \in [Client -> BOOLEAN]
      BY <1>5 DEF ServeMoves, Typed, FTypeOK
    <2>1. CASE Reads(c)
      <3>1. at[c] # "fill" /\ SameFiles
        BY <2>1 DEF Reads
      <3> QED BY <1>1, <2>0, <3>1
    <2>2. CASE Opens(c)
      BY <2>0, <2>2 DEF Only, Opens
    <2>3. CASE Fills(c)
      BY <2>0, <2>3 DEF Only, Fills
    <2>4. CASE Removes(c)
      BY <2>0, <2>4 DEF Only, Removes
    <2> QED BY <1>5, <2>1, <2>2, <2>3, <2>4 DEF ServeMoves
  <1>6. CASE Crashed
    BY <1>6 DEF Crashed, FCrash
  <1>7. CASE UNCHANGED wvars
    BY <1>7 DEF wvars, fvars
  <1> QED BY <1>2, <1>3, <1>4, <1>5, <1>6, <1>7 DEF Moves

\* Only a system call changes a file.
LEMMA FileSame == Moves /\ file' # file => \E c \in Client : ServeMoves(c)
  <1>1. \A p \in Post : PostMoves(p) \/ RunMoves(p) => file' = file
    BY DEF PostMoves, RunMoves, SameFiles
  <1>2. \A d \in Deletes : DeleteMoves(d) => file' = file
    BY DEF DeleteMoves, SameFiles
  <1>3. Crashed \/ UNCHANGED wvars => file' = file
    BY DEF Crashed, FCrash, wvars, fvars
  <1> QED BY <1>1, <1>2, <1>3 DEF Moves

\* Who is to write a file is a request that creates it, or a run that has read it.
LEMMA Writers ==
  ASSUME Typed, Calls, NEW c \in Client, at[c] \in {"truncate", "fill"}
  PROVE  /\ copy[c].is = "data" /\ copy[c].uid \in Post
         /\ \/ \E p \in Post : /\ c = Poster(p) /\ post[p] = "create" /\ key[c] = NameOf(p)
                               /\ copy[c] = Data(p)
            \/ \E p \in Post : /\ c = Runner(p) /\ run[p] = "patch" /\ key[c] = NameOf(p)
                               /\ NameOf(copy[c].uid) = NameOf(p) /\ Begun(copy[c].uid)
  <1>1. copy[c].uid \in Post
    BY Constants DEF Typed, FTypeOK, File
  <1>2. CASE \E p \in Post : c = Poster(p)
    <2>1. PICK p \in Post : c = Poster(p)
      BY <1>2
    <2>2. PostCall(p) /\ post[p] \in {"new", "list", "create", "done"}
      BY DEF Calls, PostCalls, Typed, WTyped, WTypeOK
    <2>3. post[p] = "create" /\ key[c] = NameOf(p) /\ copy[c] = Data(p)
      BY <2>1, <2>2 DEF PostCall
    <2> QED BY <1>1, <2>1, <2>3, FileTypes
  <1>3. CASE \E p \in Post : c = Runner(p)
    <2>1. PICK p \in Post : c = Runner(p)
      BY <1>3
    <2>2. RunCall(p)
      BY DEF Calls, RunCalls
    <2> QED BY <1>1, <2>1, <2>2 DEF RunCall
  <1>4. CASE \E d \in Deletes : c = Deleter(d)
    <2>1. PICK d \in Deletes : c = Deleter(d)
      BY <1>4
    <2>2. DeleteCall(d)
      BY DEF Calls, DeleteCalls
    <2> QED BY <2>1, <2>2 DEF DeleteCall, Answer
  <1> QED BY <1>2, <1>3, <1>4, Clients

LEMMA FilesBegunStep ==
  ASSUME Typed, Calls, [Next]_wvars
  PROVE  FilesBegun'
  <1> SUFFICES ASSUME NEW k \in Key, file'[k].is = "data"
               PROVE  \E u \in Post : file'[k].uid = u /\ NameOf(u) = k /\ Begun(u)'
    BY Same DEF FilesBegun
  <1>1. CASE file'[k] = file[k]
    BY <1>1, Same, Constants DEF Typed, FTypeOK, File, Calls, FilesBegun
  <1>2. CASE file'[k] # file[k]
    <2>1. PICK c \in Client : ServeMoves(c)
      BY <1>2, Same, FileSame
    <2>2. Opens(c) \/ Fills(c) \/ Removes(c)
      BY <1>2, <2>1 DEF ServeMoves, Reads, SameFiles
    <2>3. key[c] \in Key /\ file \in [Key -> File]
      BY DEF Typed, FTypeOK
    <2>4. Fills(c) /\ k = key[c] /\ file'[k] = copy[c]
      BY <1>2, <2>2, <2>3, FileTypes DEF Opens, Fills, Removes
    <2>5. copy[c].uid \in Post /\ NameOf(copy[c].uid) = k /\ Begun(copy[c].uid)
      <3>1. CASE \E p \in Post : /\ c = Poster(p) /\ post[p] = "create" /\ key[c] = NameOf(p)
                                 /\ copy[c] = Data(p)
        BY <2>4, <3>1, FileTypes DEF Begun, Fills
      <3>2. CASE ~ \E p \in Post : /\ c = Poster(p) /\ post[p] = "create" /\ key[c] = NameOf(p)
                                   /\ copy[c] = Data(p)
        BY <2>4, <3>2, Writers DEF Fills
      <3> QED BY <3>1, <3>2
    <2> QED BY <2>4, <2>5, Same
  <1> QED BY <1>1, <1>2

LEMMA CallsStep == Typed /\ Calls /\ [Next]_wvars => Calls'
  BY PostCallsStep, RunCallsStep, DeleteCallsStep, FilesBegunStep, LinkedStep, StepMoves DEF Calls

LEMMA CallsInit == Init => Calls
  <1> SUFFICES ASSUME Init PROVE Calls
    OBVIOUS
  <1> USE Clients DEF Init, FInit
  <1>1. PostCalls
    BY DEF PostCalls, PostCall
  <1>2. RunCalls
    BY DEF RunCalls, RunCall
  <1>3. DeleteCalls
    BY DEF DeleteCalls, DeleteCall
  <1>4. FilesBegun /\ Linked
    BY FileTypes DEF FilesBegun, Linked
  <1> QED BY <1>1, <1>2, <1>3, <1>4 DEF Calls

-----------------------------------------------------------------------------
(* Who writes the file of a playbook *)

\* Client c will write its copy into the file of its key.
Pend(c) == at[c] = "truncate" \/ (at[c] = "fill" /\ linked[c])

\* Playbook p is in a file, or on its way into one.
Lives(p) ==
    \/ \E k \in Key : Holds(k, p)
    \/ \E c \in Client : Pend(c) /\ copy[c].uid = p

\* No other playbook of its name was about when p was, and its file was not removed.
Good(p) == Rivals(p) = {} /\ p \notin removed

\* The request or the run of playbook p may write into the file of its name.
Active(p) ==
    \/ Works(p)
    \/ post[p] = "create" /\ at[Poster(p)] \in {"truncate", "fill", "readback", "ok"}

\* Nobody else writes into the file of a playbook that lives,
Alone ==
    \A p, q \in Post : p # q /\ NameOf(p) = NameOf(q) /\ Good(p) /\ Lives(p) => ~ Active(q)

\* its own run writes nothing but the playbook,
PatchesOwn ==
    \A p \in Post : Good(p) /\ Lives(p) /\ Pend(Runner(p)) => copy[Runner(p)].uid = p

\* opens the file as long as the playbook is in it,
OpensOwn ==
    \A p \in Post : Good(p) /\ at[Runner(p)] = "truncate" /\ copy[Runner(p)].uid = p
        => Holds(NameOf(p), p)

\* and fills it when it is empty.
FillsEmpty ==
    \A p \in Post : \A c \in {Poster(p), Runner(p)} :
        Good(p) /\ at[c] = "fill" /\ linked[c] /\ copy[c].uid = p => file[NameOf(p)].is = "empty"

Race == Alone /\ PatchesOwn /\ OpensOwn /\ FillsEmpty

\* How a client comes to write.
LEMMA PendStep ==
  ASSUME Typed, Calls, [Next]_wvars, NEW c \in Client, Pend(c)'
  PROVE  \/ Pend(c) /\ Idle(c)
         \/ Pend(c) /\ Opens(c) /\ ServeMoves(c)
         \/ /\ ServeMoves(c) /\ Reads(c) /\ at'[c] = "truncate" /\ file' = file
            /\ \/ at[c] = "stat" /\ Here(c).is = "none" /\ copy' = copy
               \/ at[c] = "update" /\ Here(c).is = "data" /\ copy'[c].uid = Here(c).uid
  <1>0. Moves /\ linked \in [Client -> BOOLEAN]
    BY StepMoves DEF Typed, FTypeOK
  <1>1. at'[c] \in {"truncate", "fill"} /\ (at'[c] = "fill" => linked'[c])
    BY DEF Pend
  <1>2. ~ Crashed
    BY <1>1 DEF Crashed, FCrash
  <1>3. ASSUME NEW e \in Client, Only(e), SameFiles, e # c PROVE Pend(c) /\ Idle(c)
    BY <1>1, <1>3 DEF Only, SameFiles, Idle, Pend
  <1>4. ASSUME UNCHANGED fvars PROVE Pend(c) /\ Idle(c)
    BY <1>1, <1>4 DEF fvars, Idle, Pend
  <1>5. ASSUME NEW p \in Post, PostMoves(p) PROVE Pend(c) /\ Idle(c)
    BY <1>1, <1>3, <1>5, Clients DEF PostMoves
  <1>6. ASSUME NEW p \in Post, RunMoves(p) PROVE Pend(c) /\ Idle(c)
    BY <1>1, <1>3, <1>4, <1>6, Clients DEF RunMoves
  <1>7. ASSUME NEW d \in Deletes, DeleteMoves(d) PROVE Pend(c) /\ Idle(c)
    <2>1. CASE c # Deleter(d)
      BY <1>3, <1>7, <2>1, Clients DEF DeleteMoves
    <2>2. CASE c = Deleter(d)
      <3>1. DeleteCall(d) /\ DeleteCall(d)'
        BY CallsStep DEF Calls, DeleteCalls
      <3> QED BY <1>1, <2>2, <3>1 DEF DeleteCall, Answer
    <2> QED BY <2>1, <2>2
  <1>8. ASSUME NEW e \in Client, ServeMoves(e), e # c PROVE Pend(c) /\ Idle(c)
    <2>1. linked'[c] => linked[c]
      BY <1>0, <1>8 DEF ServeMoves, Reads, SameFiles, Opens, Fills, Removes
    <2> QED BY <1>1, <1>8, <2>1 DEF ServeMoves, Only, Idle, Pend
  <1>9. ASSUME ServeMoves(c), Opens(c) PROVE Pend(c)
    BY <1>9 DEF Opens, Pend
  <1>10. ASSUME ServeMoves(c), ~ Opens(c) PROVE Reads(c) /\ at'[c] = "truncate"
    BY <1>1, <1>10 DEF ServeMoves, Reads, Fills, Removes, Answer
  <1>11. ASSUME ServeMoves(c), Reads(c), at'[c] = "truncate"
         PROVE  /\ file' = file
                /\ \/ at[c] = "stat" /\ Here(c).is = "none" /\ copy' = copy
                   \/ at[c] = "update" /\ Here(c).is = "data" /\ copy'[c].uid = Here(c).uid
    BY <1>11 DEF Reads, SameFiles, Answer
  <1> QED BY <1>0, <1>2, <1>4, <1>5, <1>6, <1>7, <1>8, <1>9, <1>10, <1>11 DEF Moves, wvars

\* Who asks whether a file is there is the request that creates it.
LEMMA Stats ==
  ASSUME Typed, Calls, NEW c \in Client, at[c] = "stat"
  PROVE  \E p \in Post : c = Poster(p) /\ post[p] = "create" /\ key[c] = NameOf(p) /\ copy[c] = Data(p)
  <1>1. ASSUME NEW p \in Post, c = Poster(p)
        PROVE  post[p] = "create" /\ key[c] = NameOf(p) /\ copy[c] = Data(p)
    <2>1. PostCall(p) /\ post[p] \in {"new", "list", "create", "done"}
      BY DEF Calls, PostCalls, Typed, WTyped, WTypeOK
    <2> QED BY <1>1, <2>1 DEF PostCall
  <1>2. ASSUME NEW p \in Post, c = Runner(p) PROVE FALSE
    <2>1. RunCall(p)
      BY DEF Calls, RunCalls
    <2> QED BY <1>2, <2>1 DEF RunCall, Answer
  <1>3. ASSUME NEW d \in Deletes, c = Deleter(d) PROVE FALSE
    <2>1. DeleteCall(d)
      BY DEF Calls, DeleteCalls
    <2> QED BY <1>3, <2>1 DEF DeleteCall, Answer
  <1> QED BY <1>1, <1>2, <1>3, Clients

\* How a file changes.
LEMMA FileChange ==
  ASSUME Typed, Calls, [Next]_wvars, NEW k \in Key, file'[k] # file[k]
  PROVE  \E c \in Client :
           /\ ServeMoves(c) /\ key[c] = k
           /\ \/ Opens(c) /\ file'[k] = EmptyFile
              \/ Fills(c) /\ linked[c] /\ (file'[k] = copy[c] \/ (file[k].is = "data" /\ file'[k] = GarbledFile))
              \/ Removes(c) /\ file'[k] = NoFile
  <1>1. PICK c \in Client : ServeMoves(c)
    BY Same, FileSame
  <1>2. Opens(c) \/ Fills(c) \/ Removes(c)
    BY <1>1 DEF ServeMoves, Reads, SameFiles
  <1>3. file \in [Key -> File]
    BY DEF Typed, FTypeOK
  <1>4. key[c] = k
    BY <1>2, <1>3 DEF Opens, Fills, Removes
  <1>5. CASE Opens(c)
    BY <1>1, <1>3, <1>4, <1>5 DEF Opens
  <1>6. CASE Fills(c)
    BY <1>1, <1>3, <1>4, <1>6 DEF Fills, Here
  <1>7. CASE Removes(c)
    BY <1>1, <1>3, <1>4, <1>7 DEF Removes
  <1> QED BY <1>2, <1>5, <1>6, <1>7

\* A playbook comes to live when it is found that its file is not there.
Comes(p) ==
    /\ post[p] = "create" /\ at[Poster(p)] = "stat" /\ file[NameOf(p)].is = "none"
    /\ UNCHANGED file

LEMMA LivesStep ==
  ASSUME Typed, Calls, [Next]_wvars, NEW p \in Post, Lives(p)'
  PROVE  Lives(p) \/ Comes(p)
  <1>1. ASSUME NEW k \in Key, Holds(k, p)' PROVE Lives(p)
    <2>1. CASE file'[k] = file[k]
      BY <1>1, <2>1 DEF Holds, Lives
    <2>2. CASE file'[k] # file[k]
      <3>1. PICK c \in Client :
              /\ ServeMoves(c) /\ key[c] = k
              /\ \/ Opens(c) /\ file'[k] = EmptyFile
                 \/ Fills(c) /\ linked[c] /\ (file'[k] = copy[c] \/ (file[k].is = "data" /\ file'[k] = GarbledFile))
                 \/ Removes(c) /\ file'[k] = NoFile
        BY <2>2, FileChange
      <3>2. Fills(c) /\ linked[c] /\ file'[k] = copy[c]
        BY <1>1, <3>1, FileTypes DEF Holds
      <3> QED BY <1>1, <3>2 DEF Holds, Lives, Pend, Fills
    <2> QED BY <2>1, <2>2
  <1>2. ASSUME NEW c \in Client, Pend(c)', copy'[c].uid = p PROVE Lives(p) \/ Comes(p)
    <2>1. CASE Pend(c) /\ (Idle(c) \/ Opens(c))
      BY <1>2, <2>1 DEF Idle, Opens, Lives
    <2>2. CASE /\ ServeMoves(c) /\ Reads(c) /\ at'[c] = "truncate" /\ file' = file
               /\ at[c] = "stat" /\ Here(c).is = "none" /\ copy' = copy
      <3>1. PICK q \in Post : c = Poster(q) /\ post[q] = "create" /\ key[c] = NameOf(q) /\ copy[c] = Data(q)
        BY <2>2, Stats
      <3>2. q = p
        BY <1>2, <2>2, <3>1, FileTypes
      <3> QED BY <2>2, <3>1, <3>2 DEF Comes, Here
    <2>3. CASE Here(c).is = "data" /\ copy'[c].uid = Here(c).uid
      BY <1>2, <2>3 DEF Lives, Holds, Here, Typed, FTypeOK
    <2> QED BY <1>2, <2>1, <2>2, <2>3, PendStep
  <1> QED BY <1>1, <1>2 DEF Lives

LEMMA ActiveStep ==
  ASSUME Typed, Calls, [Next]_wvars, NEW p \in Post, Active(p)'
  PROVE  Active(p) \/ Comes(p)
  <1>0. Moves /\ PostCall(p) /\ post[p] \in {"new", "list", "create", "done"}
    BY StepMoves DEF Calls, PostCalls, Typed, WTyped, WTypeOK
  <1>1. CASE Crashed
    BY <1>1 DEF Crashed, Active, Works
  <1>2. CASE ~ Crashed /\ Works(p)'
    <2>1. CASE run'[p] = run[p]
      BY <1>2, <2>1 DEF Works, Active
    <2>2. CASE RunMoves(p)
      BY <2>2 DEF RunMoves, Active, Works
    <2>3. CASE PostMoves(p) /\ run'[p] # run[p]
      BY <2>3 DEF PostMoves, Active
    <2> QED BY <1>0, <1>2, <2>1, <2>2, <2>3, Others
  <1>3. CASE ~ Crashed /\ post'[p] = "create" /\ at'[Poster(p)] \in {"truncate", "fill", "readback", "ok"}
    <2>1. CASE PostMoves(p)
      BY <1>3, <2>1 DEF PostMoves
    <2>2. CASE post'[p] = post[p] /\ Idle(Poster(p))
      BY <1>3, <2>2 DEF Idle, Active
    <2>3. CASE post'[p] = post[p] /\ ServeMoves(Poster(p))
      <3>1. at[Poster(p)] \in {"stat", "truncate", "fill", "readback"} \cup Answer /\ key[Poster(p)] = NameOf(p)
        BY <1>0, <1>3, <2>3 DEF PostCall
      <3>2. CASE at[Poster(p)] = "stat"
        BY <1>3, <2>3, <3>1, <3>2 DEF ServeMoves, Reads, SameFiles, Opens, Fills, Removes, Comes, Here
      <3>3. CASE at[Poster(p)] # "stat"
        BY <1>3, <2>3, <3>1, <3>3 DEF ServeMoves, Reads, Opens, Fills, Removes, Answer, Active
      <3> QED BY <3>2, <3>3
    <2> QED BY <1>0, <1>3, <2>1, <2>2, <2>3, Others
  <1> QED BY <1>1, <1>2, <1>3 DEF Active

\* A playbook that lives was created, or is about to open its file.
LEMMA LivesBegun ==
  ASSUME Typed, Calls, NEW p \in Post, Lives(p)
  PROVE  Begun(p) \/ (post[p] = "create" /\ at[Poster(p)] = "truncate")
  <1>1. ASSUME NEW k \in Key, Holds(k, p) PROVE Begun(p)
    BY <1>1 DEF Holds, Calls, FilesBegun
  <1>2. ASSUME NEW c \in Client, Pend(c), copy[c].uid = p
        PROVE  Begun(p) \/ (post[p] = "create" /\ at[Poster(p)] = "truncate")
    BY <1>2, Writers, FileTypes DEF Pend, Begun
  <1> QED BY <1>1, <1>2 DEF Lives

LEMMA BegunLives ==
  ASSUME Typed, Calls, [Next]_wvars, NEW p \in Post, Begun(p), Lives(p)'
  PROVE  Lives(p)
  BY LivesStep DEF Begun, Comes

LEMMA GoodWas ==
  ASSUME Typed, [Next]_wvars, NEW p \in Post, Good(p)'
  PROVE  Good(p)
  BY RivalsStay DEF Good

\* Requests for a name that are handled at once are rivals, and so are a request
\* that creates a playbook and a run that works.
LEMMA NoRival ==
  ASSUME Typed, Base, NEW p \in Post, NEW q \in Post, p # q, NameOf(p) = NameOf(q), Rivals(p) = {}
  PROVE  /\ ~ (post[p] = "create" /\ post[q] = "create")
         /\ ~ (post[p] = "create" /\ Works(q))
         /\ ~ (Works(p) /\ post[q] = "create")
         /\ ~ (Works(p) /\ Works(q))
  <1>1. {p, q} \notin met \cup alive /\ {q, p} \notin met \cup alive
    BY Pairs DEF Rivals
  <1> QED BY <1>1 DEF Base, AtOnce, CreatedAlive, RunAlive

\* A request and the run of its playbook do not write at once.
LEMMA NotBoth ==
  ASSUME Typed, Calls, NEW p \in Post
  PROVE  /\ at[Poster(p)] = "idle" \/ at[Runner(p)] = "idle"
         /\ at[Runner(p)] # "idle" => run[p] = "patch" /\ post[p] = "done"
         /\ at[Poster(p)] \in {"truncate", "fill"} => post[p] = "create"
  <1>1. PostCall(p) /\ RunCall(p) /\ post[p] \in {"new", "list", "create", "done"}
    BY DEF Calls, PostCalls, RunCalls, Typed, WTyped, WTypeOK
  <1> QED BY <1>1 DEF PostCall, RunCall, Typed, WTyped, Prepared

\* Who writes into the file of a playbook that lives.
LEMMA OwnWriter ==
  ASSUME Typed, Calls, Race, NEW p \in Post, Good(p), Lives(p),
         NEW c \in Client, at[c] \in {"truncate", "fill"}, key[c] = NameOf(p)
  PROVE  c \in {Poster(p), Runner(p)}
  <1>1. ASSUME NEW q \in Post, c = Poster(q), post[q] = "create", key[c] = NameOf(q), q # p PROVE FALSE
    BY <1>1 DEF Race, Alone, Active
  <1>2. ASSUME NEW q \in Post, c = Runner(q), run[q] = "patch", key[c] = NameOf(q), q # p PROVE FALSE
    BY <1>2 DEF Race, Alone, Active, Works
  <1> QED BY <1>1, <1>2, Writers

\* A playbook that lives is in the file of its name, or somebody fills it.
LEMMA Settled ==
  ASSUME Typed, Calls, Race, NEW p \in Post, Good(p), Lives(p), at[Poster(p)] # "truncate"
  PROVE  Holds(NameOf(p), p) \/ file[NameOf(p)].is = "empty"
  <1>1. ASSUME NEW k \in Key, Holds(k, p) PROVE Holds(NameOf(p), p)
    BY <1>1 DEF Holds, Calls, FilesBegun
  <1>2. ASSUME NEW c \in Client, Pend(c), copy[c].uid = p
        PROVE  Holds(NameOf(p), p) \/ file[NameOf(p)].is = "empty"
    <2>1. at[c] \in {"truncate", "fill"} /\ key[c] = NameOf(p)
      BY <1>2, Writers, FileTypes DEF Pend
    <2>2. c \in {Poster(p), Runner(p)}
      BY <2>1, OwnWriter
    <2> QED BY <1>2, <2>2 DEF Pend, Race, OpensOwn, FillsEmpty
  <1> QED BY <1>1, <1>2 DEF Lives

LEMMA AloneStep ==
  ASSUME Typed, Calls, Base, Race, [Next]_wvars
  PROVE  Alone'
  <1> SUFFICES ASSUME NEW p \in Post, NEW q \in Post, p # q, NameOf(p) = NameOf(q),
                      Good(p)', Lives(p)', Active(q)'
               PROVE  FALSE
    BY Same DEF Alone
  <1>1. Good(p) /\ Rivals(p) = {}
    BY GoodWas DEF Good
  <1>2. CASE Lives(p)
    <2>1. Comes(q)
      BY <1>1, <1>2, ActiveStep DEF Race, Alone
    <2>2. at[Poster(p)] # "truncate"
      BY <1>1, <2>1, NoRival, NotBoth DEF Comes
    <2> QED BY <1>1, <1>2, <2>1, <2>2, Settled DEF Comes, Holds
  <1>3. CASE Comes(p)
    <2>1. Active(q) \/ Comes(q)
      BY ActiveStep
    <2> QED BY <1>1, <1>3, <2>1, NoRival DEF Comes, Active
  <1> QED BY <1>2, <1>3, LivesStep

LEMMA PatchesOwnStep ==
  ASSUME Typed, Calls, Base, Race, [Next]_wvars
  PROVE  PatchesOwn'
  <1> SUFFICES ASSUME NEW p \in Post, Good(p)', Lives(p)', Pend(Runner(p))'
               PROVE  copy'[Runner(p)].uid = p
    BY DEF PatchesOwn
  <1> DEFINE c == Runner(p)
  <1>0. c \in Client /\ Good(p)
    BY Clients, GoodWas
  <1>1. at[c] # "idle"
    BY <1>0, PendStep DEF Pend, Opens
  <1>2. run[p] = "patch" /\ post[p] = "done" /\ at[Poster(p)] = "idle"
    BY <1>1, NotBoth
  <1>3. Lives(p)
    BY <1>2, BegunLives DEF Begun
  <1>4. key[c] = NameOf(p)
    BY <1>2 DEF Calls, RunCalls, RunCall
  <1>5. CASE Pend(c) /\ (Idle(c) \/ Opens(c))
    BY <1>0, <1>3, <1>5 DEF Idle, Opens, Race, PatchesOwn
  <1>6. CASE Here(c).is = "data" /\ copy'[c].uid = Here(c).uid
    <2>1. Holds(NameOf(p), p)
      BY <1>0, <1>2, <1>3, <1>4, <1>6, Settled DEF Here
    <2> QED BY <1>4, <1>6, <2>1 DEF Here, Holds
  <1>7. at[c] # "stat"
    BY <1>2 DEF Calls, RunCalls, RunCall, Answer
  <1> QED BY <1>0, <1>5, <1>6, <1>7, PendStep

LEMMA OpensOwnStep ==
  ASSUME Typed, Calls, Base, Race, [Next]_wvars
  PROVE  OpensOwn'
  <1> SUFFICES ASSUME NEW p \in Post, Good(p)', at'[Runner(p)] = "truncate", copy'[Runner(p)].uid = p
               PROVE  Holds(NameOf(p), p)'
    BY Same DEF OpensOwn
  <1> DEFINE c == Runner(p)
  <1>0. c \in Client /\ Good(p) /\ Pend(c)' /\ NameOf(p) \in Key
    BY Clients, GoodWas, Constants DEF Pend, NameOf, Typed, WTyped, WTypeOK
  <1>1. at[c] # "idle"
    BY <1>0, PendStep DEF Pend, Opens
  <1>2. run[p] = "patch" /\ post[p] = "done" /\ at[Poster(p)] = "idle"
    BY <1>1, NotBoth
  <1>4. key[c] = NameOf(p)
    BY <1>2 DEF Calls, RunCalls, RunCall
  <1>5. CASE Pend(c) /\ Idle(c)
    <2>1. at[c] = "truncate" /\ copy[c].uid = p
      BY <1>5 DEF Idle
    <2>2. Holds(NameOf(p), p)
      BY <1>0, <2>1 DEF Race, OpensOwn
    <2>3. Lives(p)
      BY <1>0, <2>2 DEF Lives
    <2>4. CASE file'[NameOf(p)] # file[NameOf(p)]
      <3>1. PICK e \in Client :
              /\ ServeMoves(e) /\ key[e] = NameOf(p)
              /\ \/ Opens(e)
                 \/ Fills(e)
                 \/ Removes(e) /\ file'[NameOf(p)] = NoFile
        BY <1>0, <2>4, FileChange
      <3>2. CASE Opens(e) \/ Fills(e)
        <4>1. e \in {Poster(p), Runner(p)}
          BY <1>0, <2>3, <3>1, <3>2, OwnWriter DEF Opens, Fills
        <4>2. e = c
          BY <1>2, <3>2, <4>1 DEF Opens, Fills
        <4> QED BY <1>5, <3>2, <4>2 DEF Opens, Fills, Idle
      <3>3. CASE Removes(e) /\ file'[NameOf(p)] = NoFile
        <4>1. p \in removed'
          BY <1>0, <2>2, <3>1, <3>3, FileTypes DEF ServeMoves, Holds
        <4> QED BY <4>1 DEF Good
      <3> QED BY <3>1, <3>2, <3>3
    <2> QED BY <2>2, <2>4, Same DEF Holds
  <1>6. CASE at[c] = "update" /\ Here(c).is = "data" /\ copy'[c].uid = Here(c).uid /\ file' = file
    BY <1>4, <1>6, Same DEF Here, Holds
  <1>7. at[c] # "stat"
    BY <1>2 DEF Calls, RunCalls, RunCall, Answer
  <1>8. ~ Opens(c)
    BY DEF Opens
  <1> QED BY <1>0, <1>5, <1>6, <1>7, <1>8, PendStep

LEMMA FillsEmptyStep ==
  ASSUME Typed, Calls, Base, Race, [Next]_wvars
  PROVE  FillsEmpty'
  <1> SUFFICES ASSUME NEW p \in Post, NEW c \in {Poster(p), Runner(p)}, Good(p)', at'[c] = "fill",
                      linked'[c], copy'[c].uid = p
               PROVE  file'[NameOf(p)].is = "empty"
    BY Same DEF FillsEmpty
  <1>0. c \in Client /\ Good(p) /\ Pend(c)' /\ NameOf(p) \in Key /\ file \in [Key -> File]
        /\ linked \in [Client -> BOOLEAN]
    BY Clients, GoodWas, Constants DEF Pend, NameOf, Typed, WTyped, WTypeOK, FTypeOK
  <1>1. Pend(c) /\ (Idle(c) \/ Opens(c))
    BY <1>0, PendStep
  <1>2. copy[c].uid = p /\ Lives(p) /\ at[c] \in {"truncate", "fill"}
    BY <1>0, <1>1 DEF Idle, Opens, Lives, Pend
  <1>3. key[c] = NameOf(p)
    BY <1>0, <1>2, Writers, FileTypes
  <1>4. CASE Opens(c)
    BY <1>0, <1>3, <1>4, FileTypes DEF Opens
  <1>5. CASE Idle(c)
    <2>1. at[c] = "fill" /\ linked[c]
      BY <1>1, <1>5 DEF Idle, Pend
    <2>2. file[NameOf(p)].is = "empty"
      BY <1>0, <1>2, <2>1 DEF Race, FillsEmpty
    <2>3. CASE file'[NameOf(p)] # file[NameOf(p)]
      <3>1. PICK e \in Client :
              /\ ServeMoves(e) /\ key[e] = NameOf(p)
              /\ Opens(e) \/ Fills(e) \/ Removes(e)
        BY <1>0, <2>3, FileChange
      <3>2. CASE Opens(e) \/ Fills(e)
        <4>1. e \in {Poster(p), Runner(p)}
          BY <1>0, <1>2, <3>1, <3>2, OwnWriter DEF Opens, Fills
        <4>2. e = c
          BY <1>2, <3>2, <4>1, NotBoth DEF Opens, Fills
        <4> QED BY <1>5, <3>2, <4>2 DEF Opens, Fills, Idle
      <3>3. CASE Removes(e)
        BY <1>0, <1>3, <3>1, <3>3 DEF Removes
      <3> QED BY <3>1, <3>2, <3>3
    <2> QED BY <2>2, <2>3
  <1> QED BY <1>1, <1>4, <1>5

LEMMA RaceStep == Typed /\ Calls /\ Base /\ Race /\ [Next]_wvars => Race'
  BY AloneStep, PatchesOwnStep, OpensOwnStep, FillsEmptyStep DEF Race

LEMMA RaceInit == Init => Race
  <1> SUFFICES ASSUME Init PROVE Race
    OBVIOUS
  <1>1. \A c \in Client : at[c] = "idle"
    BY DEF Init, FInit
  <1>2. \A p \in Post : ~ Active(p)
    BY DEF Init, Active, Works
  <1> QED BY <1>1, <1>2, Clients DEF Race, Alone, PatchesOwn, OpensOwn, FillsEmpty, Pend

-----------------------------------------------------------------------------
(* The list that looks for a schema label *)

\* What a request p that lists the playbooks knows of an earlier one with its label.
Found(p, q) ==
    /\ post[p] = "list" /\ at[Poster(p)] = "readfiles" =>
         NameOf(q) \in todo[Poster(p)] \/ copy[Poster(p)].is = "data"
    /\ post[p] = "list" /\ at[Poster(p)] = "ok" => copy[Poster(p)].is = "data"
    /\ post[p] # "create"
    /\ post[p] = "done" => ~ Lives(p)

\* The earlier playbook lives, and the list can see it.
Seen(p, q) ==
    /\ q < p /\ LabelOf(p) = LabelOf(q) /\ LabelOf(p) # NoLabel /\ {p, q} \notin met
    /\ Good(q) /\ p \notin blind /\ Lives(q)

Listing == \A p, q \in Post : Seen(p, q) => Found(p, q)

LEMMA ListingServe ==
  ASSUME Typed, Calls, Base, Race, [Next]_wvars,
         NEW p \in Post, NEW q \in Post, Seen(p, q), Found(p, q), post[q] = "done",
         post[p] = "list", post'[p] = "list", Serve(Poster(p)), p \notin blind'
  PROVE  Found(p, q)'
  <1> DEFINE c == Poster(p)
  <1>0. /\ c \in Client /\ at[c] \in {"readdir", "readfiles", "ok", "error"}
        /\ at \in [Client -> At] /\ copy \in [Client -> File] /\ todo \in [Client -> SUBSET Key]
        /\ NameOf(q) \in Key
    BY Clients, Constants DEF Calls, PostCalls, PostCall, Typed, WTyped, WTypeOK, FTypeOK, NameOf
  <1>1. Holds(NameOf(q), q) \/ file[NameOf(q)].is = "empty"
    <2>1. at[Poster(q)] = "idle"
      BY DEF Calls, PostCalls, PostCall
    <2> QED BY <2>1, Settled DEF Seen
  <1>2. PICK matching : SystemCall(c, matching) /\ matching = {u \in Post : \E r \in Post : c = Poster(r) /\ LabelOf(r) = LabelOf(u)}
    BY DEF Serve
  <1>3. q \in matching
    BY <1>2 DEF Seen
  <1>4. CASE ReadDir(c)
    <2>1. NameOf(q) \in todo'[c]
      BY <1>0, <1>1, <1>4 DEF ReadDir, Holds
    <2>2. at'[c] = "readfiles"
      BY <1>0, <1>4, <2>1 DEF ReadDir, Goes
    <2> QED BY <2>1, <2>2, Same DEF Found
  <1>5. CASE ReadFiles(c, matching)
    <2>1. PICK k \in todo[c] :
            LET fails == file[k].is \in {"none", "garbled"} IN
            /\ todo' = [todo EXCEPT ![c] = IF fails THEN {} ELSE @ \ {k}]
            /\ copy' = [copy EXCEPT ![c] =
                          IF file[k].is = "data" /\ file[k].uid \in matching THEN file[k] ELSE @]
            /\ Goes(c, CASE fails -> "error"
                         [] ~ fails /\ todo'[c] = {} -> "ok"
                         [] OTHER -> "readfiles")
      BY <1>5 DEF ReadFiles
    <2>2. CASE file[k].is \in {"none", "garbled"}
      <3>1. at'[c] = "error"
        BY <1>0, <2>1, <2>2 DEF Goes
      <3> QED BY <3>1 DEF Found
    <2>3. CASE file[k].is \notin {"none", "garbled"}
      <3>1. /\ todo'[c] = todo[c] \ {k}
            /\ copy[c].is = "data" => copy'[c].is = "data"
            /\ at'[c] = IF todo'[c] = {} THEN "ok" ELSE "readfiles"
        BY <1>0, <2>1, <2>3 DEF Goes
      <3>2. CASE copy[c].is = "data"
        BY <3>1, <3>2 DEF Found
      <3>3. CASE k = NameOf(q)
        <4>1. at[c] = "readfiles"
          BY <1>5 DEF ReadFiles
        <4>2. CASE file[k].is = "empty"
          <5>1. k \in todo[c] \ todo'[c]
            BY <2>1, <3>1
          <5>2. p \in blind'
            BY <4>1, <4>2, <5>1 DEF Serve
          <5> QED BY <5>2
        <4>3. CASE Holds(k, q)
          <5>1. copy'[c] = file[k]
            BY <1>0, <1>3, <2>1, <4>3 DEF Holds
          <5> QED BY <4>3, <5>1 DEF Found, Holds
        <4> QED BY <1>1, <3>3, <4>2, <4>3
      <3>4. CASE copy[c].is # "data" /\ k # NameOf(q)
        <4>1. NameOf(q) \in todo[c]
          BY <1>5, <3>4 DEF Found, ReadFiles
        <4>2. NameOf(q) \in todo'[c] /\ at'[c] = "readfiles"
          BY <3>1, <3>4, <4>1
        <4> QED BY <4>2, Same DEF Found
      <3> QED BY <3>2, <3>3, <3>4
    <2> QED BY <2>2, <2>3
  <1> QED BY <1>0, <1>2, <1>4, <1>5 DEF SystemCall, Stat, Update, Truncate, Fill, ReadBack, Get, Find,
            Check, Rename

LEMMA ListingStep ==
  ASSUME Typed, Calls, Base, Race, Listing, [Next]_wvars
  PROVE  Listing'
  <1> SUFFICES ASSUME NEW p \in Post, NEW q \in Post, Seen(p, q)' PROVE Found(p, q)'
    BY DEF Listing
  <1>0. /\ q < p /\ LabelOf(p) = LabelOf(q) /\ LabelOf(p) # NoLabel /\ {p, q} \notin met
        /\ Good(q) /\ p \notin blind /\ p \notin blind' /\ Lives(q)'
    BY GoodWas, RivalsStay, Same DEF Seen
  <1>1. Moves /\ post[p] \in {"new", "list", "create", "done"}
    BY StepMoves DEF Typed, WTyped, WTypeOK
  <1>2. CASE post[p] = "new"
    <2>1. CASE Crashed
      BY <1>2, <2>1 DEF Crashed, Found
    <2>2. CASE PostMoves(p)
      BY <1>0, <1>2, <2>2 DEF PostMoves, Found
    <2>3. CASE post'[p] = post[p]
      BY <1>2, <2>3 DEF Found
    <2> QED BY <1>1, <2>1, <2>2, <2>3, Others
  <1>3. CASE post[p] # "new"
    <2>1. post[q] = "done"
      BY <1>0, <1>3 DEF Base, InOrder
    <2>2. Lives(q)
      BY <1>0, <2>1, BegunLives DEF Begun
    <2>3. Seen(p, q) /\ Found(p, q)
      BY <1>0, <2>2 DEF Seen, Listing
    <2>4. post[p] \in {"list", "done"} /\ ~ Lives(p)
      BY <1>1, <1>3, <2>3, LivesBegun DEF Found, Begun
    <2>5. ~ Lives(p)'
      BY <2>4, LivesStep DEF Comes
    <2>6. CASE Crashed
      BY <2>4, <2>5, <2>6 DEF Crashed, Found
    <2>7. CASE PostMoves(p)
      BY <2>3, <2>4, <2>5, <2>7 DEF PostMoves, Found
    <2>8. CASE post'[p] = post[p] /\ Idle(Poster(p))
      BY <2>3, <2>5, <2>8, Same DEF Idle, Found
    <2>9. CASE post'[p] = post[p] /\ ServeMoves(Poster(p))
      <3>1. CASE post[p] = "list"
        BY <1>0, <2>1, <2>3, <2>9, <3>1, ListingServe DEF ServeMoves
      <3>2. CASE post[p] = "done"
        BY <2>5, <2>9, <3>2 DEF Found
      <3> QED BY <2>4, <3>1, <3>2
    <2> QED BY <1>1, <2>6, <2>7, <2>8, <2>9, Others
  <1> QED BY <1>2, <1>3

LEMMA ListingClashes ==
  ASSUME Typed, Calls, Base, Race, Listing
  PROVE  LabelClashes
  <1>1. ASSUME NEW p \in Post, NEW q \in Post, q < p, Lives(p), Lives(q), LabelOf(p) = LabelOf(q),
               LabelOf(p) # NoLabel, {p, q} \notin met, {p, q} \cap (removed \cup blind) = {},
               Rivals(p) \cup Rivals(q) = {}
        PROVE  FALSE
    <2>1. Seen(p, q)
      BY <1>1 DEF Seen, Good
    <2>2. Found(p, q)
      BY <2>1 DEF Listing
    <2>3. post[p] = "done" \/ post[p] = "create"
      BY <1>1, LivesBegun DEF Begun
    <2> QED BY <1>1, <2>2, <2>3 DEF Found
  <1>2. SUFFICES ASSUME NEW k \in Key, NEW l \in Key, NEW p, NEW q, Holds(k, p), Holds(l, q), p # q,
                        LabelOf(p) = LabelOf(q), LabelOf(p) # NoLabel, {p, q} \notin met,
                        {p, q} \cap (removed \cup blind) = {}, Rivals(p) \cup Rivals(q) = {}
                 PROVE  FALSE
    BY DEF LabelClashes, Holds
  <1>3. p \in Post /\ q \in Post
    BY <1>2, Constants DEF Holds, Typed, FTypeOK, File
  <1>4. Lives(p) /\ Lives(q)
    BY <1>2 DEF Lives
  <1>5. p < q \/ q < p
    BY <1>2, <1>3, Constants
  <1>6. {q, p} = {p, q} /\ Rivals(q) \cup Rivals(p) = {}
    BY <1>2, Pairs
  <1> QED BY <1>1, <1>2, <1>3, <1>4, <1>5, <1>6

\* What holds of the files, the requests and the runs together.
Files == Typed /\ Base /\ Calls /\ Race

LEMMA FilesInit == Init => Files
  BY TypedInit, BaseInit, CallsInit, RaceInit DEF Files

LEMMA FilesStep == Files /\ [Next]_wvars => Files'
  BY TypedStep, BaseStep, CallsStep, RaceStep DEF Files

LEMMA ListingInit == Init => Listing
  <1> SUFFICES ASSUME Init PROVE Listing
    OBVIOUS
  <1>1. \A p \in Post : post[p] = "new"
    BY DEF Init
  <1> QED BY <1>1 DEF Listing, Found

\* Two playbooks share a schema label only for the causes that are named: the check
\* of Post and the creation after it are not one step, and lists can be blind.
THEOREM LabelClashesHolds == Spec => []LabelClashes
  <1>1. Files /\ Listing /\ [Next]_wvars => (Files /\ Listing)'
    BY FilesStep, ListingStep DEF Files
  <1>2. Files /\ Listing => LabelClashes
    BY ListingClashes DEF Files
  <1> QED BY FilesInit, ListingInit, <1>1, <1>2, PTL DEF Spec

-----------------------------------------------------------------------------
(* What a deletion leaves *)

\* A run that has not sent its last patch.
Early == {"none", "register", "new", "exec", "sync"} \cup Writing

\* A playbook whose file was removed had been created.
RemovedBegun == \A p \in removed : p \in Post /\ Begun(p)

\* A run that was stopped in time sends nothing any more.
InTimeStops == \A p \in intime : p \in Post /\ cancelled[p] /\ run[p] # "patch"

\* A playbook that was removed before its run wrote its status does not come back, as
\* long as the run does not write it.
StaysRemoved ==
    \A p \in removed : Rivals(p) = {} /\ (p \in intime \/ run[p] \in Early) => ~ Lives(p)

\* The only deletion of a name has removed the file.
RemovedBy ==
    \A d \in Deletes, p \in removed : OnlyDelete(d) /\ NameOf(p) = Target[d] =>
        \/ delete[d] \in {"tasks", "ok", "error"}
        \/ delete[d] = "delete" /\ at[Deleter(d)] = "ok"

\* Only the task that its run is writing is truncated, unless the process ended.
TornOwn ==
    \A p \in Post : run[p] # "ended" => torn[p] \subseteq (IF run[p] = "fill" THEN {made[p]} ELSE {})

\* What a run that was stopped in time still writes was being written then.
InFlight ==
    \A p \in intime : torn[p] \subseteq inflight[p] /\ UnderWay(p) \subseteq inflight[p]

\* It deletes all tasks of such a run, but those.
Cleared(d) ==
    OnlyDelete(d) /\ got[d] \in intime =>
        /\ delete[d] = "tasks" => tasks[got[d]] \subseteq unread[d] \cup doomed[d] \cup inflight[got[d]]
        /\ delete[d] = "ok" /\ got[d] \in removed => tasks[got[d]] \subseteq inflight[got[d]]

Stopped ==
    /\ RemovedBegun /\ InTimeStops /\ StaysRemoved /\ RemovedBy
    /\ TornOwn /\ InFlight /\ \A d \in Deletes : Cleared(d)

\* Who changes a run and its tasks.
LEMMA TaskFiles ==
  ASSUME Files, [Next]_wvars, NEW p \in Post
  PROVE  \/ RunMoves(p)
         \/ /\ UNCHANGED <<made, taskvars>>
            /\ \/ run[p] = "none" /\ run'[p] \in {"none", "register", "ended"}
               \/ run'[p] = "ended"
         \/ /\ made'[p] = made[p] /\ run'[p] = run[p]
            /\ torn'[p] \subseteq torn[p] /\ tasks'[p] \subseteq tasks[p]
  <1> USE DEF Files, Typed, WTyped, WTypeOK
  <1>1. ASSUME NEW q \in Post, PostMoves(q)
        PROVE  /\ UNCHANGED <<made, taskvars>>
               /\ run'[p] = run[p] \/ (run[p] = "none" /\ run'[p] \in {"register", "ended"})
    BY <1>1 DEF PostMoves, Prepared
  <1>2. ASSUME NEW q \in Post \ {p}, RunMoves(q)
        PROVE  made'[p] = made[p] /\ run'[p] = run[p] /\ torn'[p] = torn[p] /\ tasks'[p] = tasks[p]
    BY <1>2 DEF RunMoves, TaskMoves
  <1>3. ASSUME NEW d \in Deletes, DeleteMoves(d)
        PROVE  made' = made /\ run' = run /\ torn'[p] \subseteq torn[p] /\ tasks'[p] \subseteq tasks[p]
    <2>1. made' = made /\ run' = run
      BY <1>3 DEF DeleteMoves
    <2>2. \/ UNCHANGED taskvars
          \/ \E t : /\ tasks' = [tasks EXCEPT ![got[d]] = @ \ {t}]
                    /\ torn' = [torn EXCEPT ![got[d]] = @ \ {t}]
      BY <1>3 DEF DeleteMoves
    <2> QED BY <2>1, <2>2
  <1>4. CASE Crashed
    BY <1>4 DEF Crashed
  <1>5. CASE UNCHANGED wvars \/ \E c \in Client : ServeMoves(c)
    BY <1>5 DEF wvars, runvars, ServeMoves
  <1> QED BY <1>1, <1>2, <1>3, <1>4, <1>5, StepMoves DEF Moves

LEMMA InFlightGrows ==
  ASSUME Files, [Next]_wvars, NEW p \in Post
  PROVE  inflight[p] \subseteq inflight'[p]
  <1> USE DEF Files
  <1>1. \A q \in Post : PostMoves(q) \/ RunMoves(q) => inflight' = inflight
    BY DEF PostMoves, RunMoves, history
  <1>2. ASSUME NEW d \in Deletes, DeleteMoves(d) PROVE inflight[p] \subseteq inflight'[p]
    <2>1. \/ inflight' = inflight
          \/ \E q \in Post : inflight' = [inflight EXCEPT ![q] = @ \cup UnderWay(q)]
      BY <1>2 DEF DeleteMoves
    <2> QED BY <2>1 DEF Typed, WTyped, WTypeOK
  <1>3. Crashed \/ UNCHANGED wvars \/ (\E c \in Client : ServeMoves(c)) => inflight' = inflight
    BY DEF Crashed, wvars, history, ServeMoves
  <1> QED BY <1>1, <1>2, <1>3, StepMoves DEF Moves

LEMMA TornOwnStep == Files /\ Stopped /\ [Next]_wvars => TornOwn'
  <1> SUFFICES ASSUME Files, Stopped, [Next]_wvars, NEW p \in Post, run'[p] # "ended"
               PROVE  torn'[p] \subseteq (IF run'[p] = "fill" THEN {made'[p]} ELSE {})
    BY DEF TornOwn
  <1>1. run[p] # "ended" => torn[p] \subseteq (IF run[p] = "fill" THEN {made[p]} ELSE {})
    BY DEF Stopped, TornOwn
  <1>2. CASE RunMoves(p)
    <2>1. run[p] # "ended" /\ TaskMoves(p)
      BY <1>2 DEF RunMoves, Works
    <2> QED BY <1>1, <2>1 DEF TaskMoves, Files, Typed, WTyped, WTypeOK
  <1>3. CASE ~ RunMoves(p)
    BY <1>1, <1>3, TaskFiles
  <1> QED BY <1>2, <1>3

\* How a file is removed.
LEMMA Removal ==
  ASSUME Files, [Next]_wvars, NEW p \in removed', p \notin removed
  PROVE  \E d \in Deletes :
           /\ delete[d] = "delete" /\ Target[d] = NameOf(p)
           /\ ServeMoves(Deleter(d)) /\ Removes(Deleter(d)) /\ at'[Deleter(d)] = "ok"
           /\ key[Deleter(d)] = NameOf(p) /\ NameOf(p) \in Key /\ Holds(NameOf(p), p)
           /\ p \in Post /\ Begun(p)
  <1> USE DEF Files
  <1>1. PICK c \in Client : ServeMoves(c)
    <2>1. removed' # removed
      OBVIOUS
    <2>2. \A q \in Post : PostMoves(q) \/ RunMoves(q) => removed' = removed
      BY DEF PostMoves, RunMoves, history
    <2>3. \A d \in Deletes : DeleteMoves(d) => removed' = removed
      BY DEF DeleteMoves
    <2>4. Crashed \/ UNCHANGED wvars => removed' = removed
      BY DEF Crashed, history, wvars
    <2> QED BY <2>1, <2>2, <2>3, <2>4, StepMoves DEF Moves
  <1>2. PICK k \in Key : file[k].is = "data" /\ file'[k].is = "none" /\ p = file[k].uid
    BY <1>1 DEF ServeMoves
  <1>3. PICK e \in Client :
          /\ ServeMoves(e) /\ key[e] = k
          /\ \/ Opens(e) /\ file'[k] = EmptyFile
             \/ Fills(e) /\ linked[e] /\ (file'[k] = copy[e] \/ (file[k].is = "data" /\ file'[k] = GarbledFile))
             \/ Removes(e) /\ file'[k] = NoFile
    BY <1>2, FileChange
  <1>4. Removes(e)
    BY <1>2, <1>3, FileTypes, Writers DEF Fills
  <1>5. NameOf(p) = k /\ Begun(p) /\ p \in Post
    BY <1>2, Constants DEF Calls, FilesBegun, Typed, FTypeOK, File
  <1>6. \E d \in Deletes : e = Deleter(d) /\ delete[d] = "delete" /\ key[e] = Target[d]
    <2>1. at[e] = "rename"
      BY <1>4 DEF Removes
    <2>2. ASSUME NEW q \in Post, e = Poster(q) PROVE FALSE
      <3>1. PostCall(q) /\ post[q] \in {"new", "list", "create", "done"}
        BY DEF Calls, PostCalls, Typed, WTyped, WTypeOK
      <3> QED BY <2>1, <2>2, <3>1 DEF PostCall, Answer
    <2>3. ASSUME NEW q \in Post, e = Runner(q) PROVE FALSE
      <3>1. RunCall(q)
        BY DEF Calls, RunCalls
      <3> QED BY <2>1, <2>3, <3>1 DEF RunCall, Answer
    <2>4. ASSUME NEW d \in Deletes, e = Deleter(d) PROVE delete[d] = "delete" /\ key[e] = Target[d]
      <3>1. DeleteCall(d)
        BY DEF Calls, DeleteCalls
      <3> QED BY <2>1, <2>4, <3>1 DEF DeleteCall, Answer
    <2> QED BY <2>2, <2>3, <2>4, Clients
  <1>7. at'[e] = "ok"
    BY <1>2, <1>3, <1>4 DEF Removes, Here
  <1> QED BY <1>2, <1>3, <1>4, <1>5, <1>6, <1>7 DEF Holds

LEMMA RemovedBegunStep == Files /\ Stopped /\ [Next]_wvars => RemovedBegun'
  <1> SUFFICES ASSUME Files, Stopped, [Next]_wvars, NEW p \in removed'
               PROVE  p \in Post /\ Begun(p)'
    BY DEF RemovedBegun
  <1>1. p \in Post /\ Begun(p)
    BY Removal DEF Stopped, RemovedBegun
  <1> QED BY <1>1, BegunStays DEF Files

\* How a run comes to be stopped in time.
LEMMA Stopping ==
  ASSUME Files, [Next]_wvars, NEW p \in intime', p \notin intime
  PROVE  /\ p \in Post /\ cancelled'[p] /\ run' = run /\ InTime(p) /\ removed' = removed
         /\ made' = made /\ taskvars' = taskvars /\ inflight'[p] = inflight[p] \cup UnderWay(p)
         /\ \E d \in Deletes : DeleteMoves(d) /\ delete[d] = "get" /\ Target[d] = NameOf(p)
  <1> USE DEF Files
  <1>1. PICK d \in Deletes : DeleteMoves(d)
    <2>1. \A q \in Post : PostMoves(q) \/ RunMoves(q) => intime' = intime
      BY DEF PostMoves, RunMoves, history
    <2>2. \A c \in Client : ServeMoves(c) => intime' = intime
      BY DEF ServeMoves
    <2>3. Crashed \/ UNCHANGED wvars => intime' = intime
      BY DEF Crashed, history, wvars
    <2> QED BY <2>1, <2>2, <2>3, StepMoves DEF Moves
  <1>2. /\ delete[d] = "get"
        /\ taskvars' = taskvars
        /\ \E q \in Post : /\ NameOf(q) = key[Deleter(d)]
                           /\ cancelled' = [cancelled EXCEPT ![q] = TRUE]
                           /\ inflight' = [inflight EXCEPT ![q] = @ \cup UnderWay(q)]
                           /\ \/ intime' = intime
                              \/ InTime(q) /\ intime' = intime \cup {q}
    BY <1>1 DEF DeleteMoves
  <1>3. PICK q \in Post : /\ NameOf(q) = key[Deleter(d)]
                          /\ cancelled' = [cancelled EXCEPT ![q] = TRUE]
                          /\ inflight' = [inflight EXCEPT ![q] = @ \cup UnderWay(q)]
                          /\ \/ intime' = intime
                             \/ InTime(q) /\ intime' = intime \cup {q}
    BY <1>2
  <1>4. q = p /\ InTime(p)
    BY <1>3
  <1>5. cancelled \in [Post -> BOOLEAN] /\ inflight \in [Post -> SUBSET (1..MaxTasks)]
    BY DEF Typed, WTyped, WTypeOK
  <1>6. key[Deleter(d)] = Target[d]
    BY <1>2 DEF Calls, DeleteCalls, DeleteCall
  <1>7. /\ p \in Post /\ cancelled'[p] /\ InTime(p) /\ inflight'[p] = inflight[p] \cup UnderWay(p)
        /\ Target[d] = NameOf(p)
    BY <1>3, <1>4, <1>5, <1>6
  <1>8. UNCHANGED <<run, removed, made>>
    BY <1>1 DEF DeleteMoves
  <1> QED BY <1>1, <1>2, <1>7, <1>8

LEMMA InTimeStopsStep == Files /\ Stopped /\ [Next]_wvars => InTimeStops'
  <1> SUFFICES ASSUME Files, Stopped, [Next]_wvars, NEW p \in intime'
               PROVE  p \in Post /\ cancelled'[p] /\ run'[p] # "patch"
    BY DEF InTimeStops
  <1>1. CASE p \notin intime
    BY <1>1, Stopping DEF InTime
  <1>2. CASE p \in intime
    <2>0. p \in Post /\ cancelled[p] /\ run[p] # "patch"
      BY <1>2 DEF Stopped, InTimeStops
    <2>1. cancelled'[p]
      <3>1. \A q \in Post : PostMoves(q) \/ RunMoves(q) => cancelled' = cancelled
        BY DEF PostMoves, RunMoves
      <3>2. ASSUME NEW d \in Deletes, DeleteMoves(d) PROVE cancelled'[p]
        <4>1. \/ cancelled' = cancelled
              \/ \E q \in Post : cancelled' = [cancelled EXCEPT ![q] = TRUE]
          BY <3>2 DEF DeleteMoves
        <4> QED BY <2>0, <4>1 DEF Files, Typed, WTyped, WTypeOK
      <3>3. Crashed \/ UNCHANGED wvars \/ (\E c \in Client : ServeMoves(c)) => cancelled' = cancelled
        BY DEF Crashed, wvars, runvars, ServeMoves
      <3> QED BY <2>0, <3>1, <3>2, <3>3, StepMoves DEF Moves, Files
    <2>2. run'[p] # "patch"
      <3>1. CASE Crashed
        BY <2>0, <3>1 DEF Crashed
      <3>2. CASE RunMoves(p)
        BY <2>0, <3>2 DEF RunMoves
      <3>3. CASE PostMoves(p)
        BY <2>0, <3>3 DEF PostMoves
      <3> QED BY <2>0, <3>1, <3>2, <3>3, StepMoves, Others DEF Files
    <2> QED BY <2>0, <2>1, <2>2
  <1> QED BY <1>1, <1>2

LEMMA InFlightStep == Files /\ Stopped /\ [Next]_wvars => InFlight'
  <1> SUFFICES ASSUME Files, Stopped, [Next]_wvars, NEW p \in intime'
               PROVE  torn'[p] \cup UnderWay(p)' \subseteq inflight'[p]
    BY DEF InFlight
  <1>1. CASE p \notin intime
    <2>1. /\ p \in Post /\ run' = run /\ InTime(p) /\ made' = made /\ torn' = torn
          /\ inflight'[p] = inflight[p] \cup UnderWay(p)
      BY <1>1, Stopping
    <2>2. torn[p] \subseteq UnderWay(p)
      BY <2>1 DEF Stopped, TornOwn, InTime, UnderWay, Writing
    <2> QED BY <2>1, <2>2 DEF UnderWay
  <1>2. CASE p \in intime
    <2>1. p \in Post /\ cancelled[p] /\ torn[p] \cup UnderWay(p) \subseteq inflight[p]
      BY <1>2 DEF Stopped, InTimeStops, InFlight
    <2>2. inflight[p] \subseteq inflight'[p]
      BY <2>1, InFlightGrows
    <2>3. torn'[p] \cup UnderWay(p)' \subseteq torn[p] \cup UnderWay(p)
      <3>1. CASE RunMoves(p)
        <4>1. TaskMoves(p)
          BY <3>1 DEF RunMoves
        <4> QED BY <2>1, <4>1 DEF TaskMoves, UnderWay, Writing, Files, Typed, WTyped, WTypeOK
      <3>2. CASE ~ RunMoves(p)
        BY <2>1, <3>2, TaskFiles DEF UnderWay, Writing
      <3> QED BY <3>1, <3>2
    <2> QED BY <2>1, <2>2, <2>3
  <1> QED BY <1>1, <1>2

LEMMA StaysRemovedStep == Files /\ Stopped /\ [Next]_wvars => StaysRemoved'
  <1> SUFFICES ASSUME Files, Stopped, [Next]_wvars, NEW p \in removed', Rivals(p)' = {},
                      p \in intime' \/ run'[p] \in Early, Lives(p)'
               PROVE  FALSE
    BY DEF StaysRemoved
  <1> USE DEF Files
  <1>0. p \in Post /\ Begun(p)
    BY Removal DEF Stopped, RemovedBegun
  <1>1. Rivals(p) = {} /\ Lives(p)
    BY <1>0, RivalsStay, BegunLives
  <1>2. CASE p \in removed
    <2>1. run'[p] \in Early => run[p] \in Early
      <3>1. CASE Crashed
        BY <1>0, <3>1 DEF Crashed, Early, Writing
      <3>2. CASE RunMoves(p)
        BY <3>2 DEF RunMoves, Early, Writing
      <3>3. CASE PostMoves(p)
        BY <1>0, <3>3 DEF PostMoves, Early, Writing, Typed, WTyped, Prepared
      <3> QED BY <1>0, <3>1, <3>2, <3>3, StepMoves, Others
    <2>2. p \in intime' => p \in intime \/ run[p] \in Early
      BY <1>0, Stopping DEF InTime, Early, Writing, Typed, WTyped, WTypeOK, RunPc
    <2> QED BY <1>1, <1>2, <2>1, <2>2 DEF Stopped, StaysRemoved
  <1>3. CASE p \notin removed
    <2>1. PICK d \in Deletes :
            /\ ServeMoves(Deleter(d)) /\ Removes(Deleter(d))
            /\ key[Deleter(d)] = NameOf(p) /\ NameOf(p) \in Key /\ Holds(NameOf(p), p)
      BY <1>3, Removal
    <2>2. Good(p)
      BY <1>1, <1>3 DEF Good
    <2>3. file'[NameOf(p)] = NoFile /\ file'[NameOf(p)] # file[NameOf(p)]
      BY <2>1, FileTypes DEF Removes, Typed, FTypeOK, Holds
    <2>4. ASSUME NEW k \in Key, Holds(k, p)' PROVE FALSE
      <3>1. NameOf(p)' = k
        BY <2>4, CallsStep DEF Calls, FilesBegun, Holds
      <3> QED BY <2>3, <2>4, <3>1, Same, FileTypes DEF Holds
    <2>5. ASSUME NEW e \in Client, Pend(e)', copy'[e].uid = p PROVE FALSE
      <3>1. ~ Opens(e)
        <4>1. ASSUME Opens(e) PROVE FALSE
          <5>1. file'[NameOf(p)] \in {file[NameOf(p)], EmptyFile}
            BY <2>1, <4>1 DEF Opens, Typed, FTypeOK
          <5> QED BY <2>3, <5>1, FileTypes
        <4> QED BY <4>1
      <3>2. Pend(e) /\ Idle(e)
        BY <2>3, <2>5, <3>1, PendStep
      <3>3. copy[e].uid = p /\ at[e] \in {"truncate", "fill"}
        BY <2>5, <3>2 DEF Idle, Pend
      <3>4. key[e] = NameOf(p)
        BY <3>3, Writers, FileTypes
      <3>5. ~ linked'[e]
        BY <2>1, <3>4 DEF Removes
      <3>6. at[e] = "truncate"
        BY <2>5, <3>2, <3>3, <3>5 DEF Pend, Idle
      <3>7. e \in {Poster(p), Runner(p)}
        BY <1>0, <1>1, <2>2, <3>3, <3>4, OwnWriter
      <3>8. e # Poster(p)
        BY <1>0, <3>6, NotBoth DEF Begun
      <3>9. run[p] = "patch"
        BY <1>0, <3>6, <3>7, <3>8, NotBoth
      <3>10. run' = run /\ intime' = intime
        BY <2>1 DEF ServeMoves, runvars
      <3> QED BY <3>9, <3>10 DEF Early, Writing, Stopped, InTimeStops
    <2> QED BY <2>4, <2>5 DEF Lives
  <1> QED BY <1>2, <1>3

LEMMA RemovedByStep == Files /\ Stopped /\ [Next]_wvars => RemovedBy'
  <1> SUFFICES ASSUME Files, Stopped, [Next]_wvars, NEW d \in Deletes, NEW p \in removed',
                      OnlyDelete(d), NameOf(p) = Target[d]
               PROVE  \/ delete'[d] \in {"tasks", "ok", "error"}
                      \/ delete'[d] = "delete" /\ at'[Deleter(d)] = "ok"
    BY Same DEF RemovedBy, OnlyDelete, Files
  <1> USE DEF Files
  <1>1. CASE p \in removed
    <2>0. DeleteCall(d)
      BY DEF Calls, DeleteCalls
    <2>1. \/ delete[d] \in {"tasks", "ok", "error"} /\ at[Deleter(d)] = "idle"
          \/ delete[d] = "delete" /\ at[Deleter(d)] = "ok"
      BY <1>1, <2>0 DEF Stopped, RemovedBy, DeleteCall
    <2>2. CASE Crashed
      BY <2>1, <2>2 DEF Crashed
    <2>3. CASE DeleteMoves(d)
      BY <2>1, <2>3 DEF DeleteMoves
    <2>4. CASE delete'[d] = delete[d] /\ ServeMoves(Deleter(d))
      BY <2>1, <2>4 DEF ServeMoves, Reads, Opens, Fills, Removes
    <2>5. CASE delete'[d] = delete[d] /\ Idle(Deleter(d))
      BY <2>1, <2>5 DEF Idle
    <2> QED BY <2>2, <2>3, <2>4, <2>5, StepMoves, Others
  <1>2. CASE p \notin removed
    <2>1. PICK e \in Deletes :
            /\ delete[e] = "delete" /\ Target[e] = NameOf(p)
            /\ ServeMoves(Deleter(e)) /\ at'[Deleter(e)] = "ok"
      BY <1>2, Removal
    <2>2. e = d
      BY <2>1 DEF OnlyDelete
    <2> QED BY <2>1, <2>2 DEF ServeMoves, delvars
  <1> QED BY <1>1, <1>2

LEMMA ClearedStep ==
  ASSUME Files, Stopped, [Next]_wvars, NEW d \in Deletes
  PROVE  Cleared(d)'
  <1> DEFINE Remains == tasks'[got'[d]] \ inflight'[got'[d]]
  <1> SUFFICES ASSUME OnlyDelete(d), got'[d] \in intime'
               PROVE  /\ delete'[d] = "tasks" => Remains \subseteq unread'[d] \cup doomed'[d]
                      /\ delete'[d] = "ok" /\ got'[d] \in removed' => Remains = {}
    BY DEF Cleared, OnlyDelete
  <1> USE DEF Files
  <1>0. Cleared(d) /\ DeleteCall(d) /\ \A e \in Deletes : Target[e] = Target[d] => e = d
    BY DEF Stopped, Calls, DeleteCalls, OnlyDelete
  <1>n. NoPost \notin intime /\ NoPost \notin intime'
    BY InTimeStopsStep, Constants DEF Stopped, InTimeStops
  <1>1. CASE Crashed
    BY <1>0, <1>1 DEF Crashed, history, Cleared
  <1>2. CASE UNCHANGED wvars
    BY <1>0, <1>2 DEF wvars, history, delvars, runvars, Cleared
  <1>3. ASSUME NEW p \in Post, PostMoves(p)
        PROVE  /\ delete'[d] = "tasks" => Remains \subseteq unread'[d] \cup doomed'[d]
               /\ delete'[d] = "ok" /\ got'[d] \in removed' => Remains = {}
    BY <1>0, <1>3 DEF PostMoves, delvars, Cleared
  <1>4. ASSUME NEW p \in Post, RunMoves(p)
        PROVE  /\ delete'[d] = "tasks" => Remains \subseteq unread'[d] \cup doomed'[d]
               /\ delete'[d] = "ok" /\ got'[d] \in removed' => Remains = {}
    <2>1. UNCHANGED <<delvars, history>>
      BY <1>4 DEF RunMoves
    <2>2. got[d] \in Post /\ UnderWay(got[d]) \subseteq inflight[got[d]]
      BY <2>1 DEF Stopped, InTimeStops, InFlight, delvars, history
    <2>3. tasks'[got[d]] \subseteq tasks[got[d]] \cup UnderWay(got[d])
      <3>1. TaskMoves(p) /\ tasks \in [Post -> SUBSET (1..MaxTasks)]
        BY <1>4 DEF RunMoves, Typed, WTyped, WTypeOK
      <3> QED BY <2>2, <3>1 DEF TaskMoves, UnderWay, Writing
    <2> QED BY <1>0, <2>1, <2>2, <2>3 DEF delvars, history, Cleared
  <1>5. ASSUME NEW c \in Client, ServeMoves(c)
        PROVE  /\ delete'[d] = "tasks" => Remains \subseteq unread'[d] \cup doomed'[d]
               /\ delete'[d] = "ok" /\ got'[d] \in removed' => Remains = {}
    <2>1. UNCHANGED <<delete, got, unread, doomed, tasks, stops>>
      BY <1>5 DEF ServeMoves, delvars, runvars
    <2>2. NameOf(got[d]) = Target[d]
      BY <1>0, <1>n, <2>1 DEF DeleteCall
    <2>3. delete[d] = "ok" /\ got[d] \in removed' => got[d] \in removed
      BY <1>0, <2>2, Removal
    <2> QED BY <1>0, <2>1, <2>3 DEF Cleared
  <1>6. ASSUME NEW e \in Deletes, DeleteMoves(e), e # d
        PROVE  /\ delete'[d] = "tasks" => Remains \subseteq unread'[d] \cup doomed'[d]
               /\ delete'[d] = "ok" /\ got'[d] \in removed' => Remains = {}
    <2>1. /\ delete'[d] = delete[d] /\ got'[d] = got[d] /\ removed' = removed
          /\ unread'[d] = unread[d] /\ doomed'[d] = doomed[d]
          /\ tasks' = tasks \/ (delete[e] = "tasks" /\ \E t : tasks' = [tasks EXCEPT ![got[e]] = @ \ {t}])
      BY <1>6 DEF DeleteMoves
    <2>2. NameOf(got[d]) = Target[d] /\ got[d] \in Post
      <3>1. got[d] # NoPost
        BY <1>n, <2>1
      <3> QED BY <1>0, <3>1 DEF DeleteCall, Typed, WTyped, WTypeOK
    <2>3. got[d] \in intime
      <3>1. ASSUME got[d] \notin intime PROVE FALSE
        <4>1. PICK f \in Deletes : DeleteMoves(f) /\ delete[f] = "get" /\ Target[f] = NameOf(got[d])
          BY <2>1, <3>1, Stopping
        <4>2. f = d
          BY <1>0, <2>2, <4>1
        <4>3. got[d] = NoPost
          BY <4>1, <4>2 DEF Typed, WTyped, HasGot
        <4> QED BY <1>n, <2>1, <4>3
      <3> QED BY <3>1
    <2>4. tasks'[got[d]] = tasks[got[d]]
      <3>1. ASSUME delete[e] = "tasks", NEW t, tasks' = [tasks EXCEPT ![got[e]] = @ \ {t}]
            PROVE  tasks'[got[d]] = tasks[got[d]]
        <4>1. got[e] \in Post
          BY <3>1 DEF Typed, WTyped, HasGot
        <4>2. NameOf(got[e]) = Target[e]
          BY <4>1, Constants DEF Calls, DeleteCalls, DeleteCall
        <4>3. got[e] # got[d]
          BY <1>0, <1>6, <2>2, <4>2
        <4> QED BY <2>2, <3>1, <4>1, <4>3 DEF Typed, WTyped, WTypeOK
      <3> QED BY <2>1, <3>1
    <2>5. inflight[got[d]] \subseteq inflight'[got[d]]
      BY <2>2, InFlightGrows
    <2> QED BY <1>0, <2>1, <2>3, <2>4, <2>5 DEF Cleared
  <1>7. CASE DeleteMoves(d)
    <2>0. removed' = removed /\ tasks \in [Post -> SUBSET (1..MaxTasks)]
      BY <1>7 DEF DeleteMoves, Typed, WTyped, WTypeOK
    <2>1. CASE delete'[d] \notin {"tasks", "ok"}
      BY <2>1
    <2>2. CASE delete[d] \in {"get", "delete"} /\ delete'[d] = "ok"
      <3>1. at[Deleter(d)] = "notfound" /\ got'[d] = got[d]
        BY <1>7, <2>2 DEF DeleteMoves
      <3>2. delete[d] = "delete"
        BY <1>n, <2>2, <3>1 DEF Typed, WTyped, HasGot
      <3>3. got[d] \in Post /\ NameOf(got[d]) = Target[d]
        BY <1>0, <3>2, Constants DEF Typed, WTyped, HasGot, DeleteCall
      <3>4. got[d] \notin removed
        BY <3>1, <3>2, <3>3 DEF Stopped, RemovedBy
      <3> QED BY <2>0, <2>2, <3>1, <3>4
    <2>3. CASE delete[d] = "delete" /\ delete'[d] = "tasks"
      BY <1>7, <2>3 DEF DeleteMoves
    <2>4. CASE delete[d] = "tasks"
      <3>1. got' = got /\ stops' = stops /\ got[d] \in Post
        BY <1>7, <2>4 DEF DeleteMoves, Typed, WTyped, HasGot
      <3>2. /\ tasks[got[d]] \subseteq unread[d] \cup doomed[d] \cup inflight[got[d]]
            /\ torn[got[d]] \subseteq inflight[got[d]]
        BY <1>0, <2>4, <3>1 DEF Cleared, Stopped, InFlight
      <3>3. CASE \E t \in doomed[d] : /\ tasks' = [tasks EXCEPT ![got[d]] = @ \ {t}]
                                      /\ unread' = unread /\ doomed'[d] = doomed[d] \ {t}
                                      /\ delete' = delete
        BY <2>0, <2>4, <3>1, <3>2, <3>3
      <3>4. CASE \E t \in unread[d] :
                   /\ unread'[d] = unread[d] \ {t}
                   /\ (t \in tasks[got[d]] /\ delete' = delete) \/ delete'[d] = "error"
                   /\ doomed'[d] = doomed[d] \cup (IF t \in torn[got[d]] THEN {} ELSE {t})
                   /\ tasks' = tasks
        BY <2>4, <3>1, <3>2, <3>4
      <3>5. CASE /\ tasks' = tasks /\ delete'[d] # "tasks"
                 /\ delete'[d] = "ok" => unread[d] = {} /\ doomed[d] = {}
        BY <3>1, <3>2, <3>5
      <3> QED BY <1>7, <2>4, <3>3, <3>4, <3>5 DEF DeleteMoves
    <2> QED BY <1>7, <2>1, <2>2, <2>3, <2>4 DEF DeleteMoves
  <1> QED BY <1>1, <1>2, <1>3, <1>4, <1>5, <1>6, <1>7, StepMoves DEF Moves

LEMMA StoppedInit == Init => Stopped
  BY DEF Init, Stopped, RemovedBegun, InTimeStops, StaysRemoved, RemovedBy, TornOwn, InFlight, Cleared

\* A run that is stopped in time leaves nothing behind: its playbook does not come
\* back with a patch, and Delete leaves no task of it but the one it was writing.
THEOREM StoppedLeavesNothingHolds == Spec => []StoppedLeavesNothing
  <1>1. Files /\ Stopped /\ [Next]_wvars => (Files /\ Stopped)'
    BY FilesStep, RemovedBegunStep, InTimeStopsStep, StaysRemovedStep, RemovedByStep, TornOwnStep,
       InFlightStep, ClearedStep
    DEF Stopped
  <1>2. Files /\ Stopped => StoppedLeavesNothing
    <2> SUFFICES ASSUME Stopped, NEW p \in intime, Rivals(p) = {}, p \in removed
                 PROVE  /\ \A k \in Key : ~ Holds(k, p)
                        /\ \A d \in Deletes : OnlyDelete(d) /\ delete[d] = "ok" /\ got[d] = p =>
                                               tasks[p] \subseteq inflight[p]
      BY DEF StoppedLeavesNothing
    <2>1. \A k \in Key : ~ Holds(k, p)
      BY DEF Stopped, StaysRemoved, Lives
    <2>2. \A d \in Deletes : OnlyDelete(d) /\ delete[d] = "ok" /\ got[d] = p =>
                                               tasks[p] \subseteq inflight[p]
      BY DEF Stopped, Cleared
    <2> QED BY <2>1, <2>2
  <1> QED BY FilesInit, StoppedInit, <1>1, <1>2, PTL DEF Spec
=============================================================================
