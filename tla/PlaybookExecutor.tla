-------------------------- MODULE PlaybookExecutor --------------------------
(***************************************************************************)
(* pkg/executor: how the plays of a playbook are executed - batch after    *)
(* batch of hosts, and in a batch a tree of roles, blocks and tasks.  The  *)
(* recursion of blockExecutor.Exec, dealBlock and roleExecutor.Exec is a   *)
(* stack of frames, one for each list of blocks being executed.  A task is *)
(* one step here: TaskExecutor is what happens inside it.                  *)
(***************************************************************************)
EXTENDS HostSerial, Tags, FiniteSets

CONSTANTS
    Node,    \* the tasks, blocks, include_tasks and roles where they are used
    Tree,    \* what each node is: a NodeRecord
    Plays,   \* the plays after all imports: a sequence of PlayRecord
    OnlyTags, SkipTags,  \* Playbook.Spec.Tags and SkipTags
    Conds,   \* the conditions used in when
    MayCancel, \* whether the context of the run can be cancelled
    FaultsHappen \* whether the API server and the variable store can fail

Ignore == {"unset", "yes", "no"}

NodeRecord ==
    [kind : {"task", "block", "include", "role"},
     main : Seq(Node),    \* block, or the dependencies and blocks of a role
     rescue : Seq(Node), always : Seq(Node),
     tags : SUBSET STRING, when : SUBSET Conds,
     ignore : Ignore, runOnce : BOOLEAN]

PlayRecord ==
    [hosts : SUBSET Seq(STRING), \* what dealHosts may find
     gather : BOOLEAN, serial : Seq(SerialEntry(Int)), runOnce : BOOLEAN,
     ignore : Ignore, tags : SUBSET STRING,
     pre : Seq(Node), roles : Seq(Node), tasks : Seq(Node), post : Seq(Node)]

ASSUME TreeAssumption ==
    /\ Tree \in [Node -> NodeRecord]
    /\ \A n \in Node : /\ Tree[n].kind = "block" => Tree[n].main # << >>
                       /\ Tree[n].kind = "role" => Tree[n].rescue = << >> /\ Tree[n].always = << >>

ASSUME PlaysAssumption == Plays \in Seq(PlayRecord)

\* execBatchHosts executes in play order.
PlayOrder(p) == p.pre \o p.roles \o p.tasks \o p.post

-----------------------------------------------------------------------------
(* The shape of the project, for the properties.  A section is a block or    *)
(* role and one of its lists; the lists of a play are the section Root.      *)

Root == <<"none", "play">>

SectionList(b, s) ==
    CASE s = "main" -> Tree[b].main
      [] s = "rescue" -> Tree[b].rescue
      [] s = "always" -> Tree[b].always

Sections == Node \X {"main", "rescue", "always"}

Members == [S \in Sections |-> {SectionList(S[1], S[2])[i] : i \in DOMAIN SectionList(S[1], S[2])}]

\* The section that lists n; none when a play does.
SectionOf == [n \in Node |-> {S \in Sections : n \in Members[S]}]

\* The blocks and roles that n is in, and n itself.
Enclosing ==
    LET up[n \in Node] == {n} \cup UNION {up[S[1]] : S \in SectionOf[n]}
    IN [n \in Node |-> up[n]]

\* The sections a failure of n ends: it goes up until a rescue takes it.
FailedSections ==
    LET fails[n \in Node] ==
          IF SectionOf[n] = {} THEN {Root}
          ELSE UNION {{S} \cup (IF S[2] = "main" /\ Tree[S[1]].rescue # << >>
                                THEN {} ELSE fails[S[1]]) : S \in SectionOf[n]}
    IN [n \in Node |-> fails[n]]

\* A node is in one section or in a play: a role that is used twice is two nodes.
ASSUME ForestAssumption ==
    /\ \A n \in Node : \A S, T \in SectionOf[n] : S = T
    /\ \A i \in DOMAIN Plays :
         LET list == PlayOrder(Plays[i])
         IN \A k \in DOMAIN list : SectionOf[list[k]] = {}

-----------------------------------------------------------------------------
VARIABLES
    pc,      \* control point of playbookExecutor.Exec
    play,    \* index of the play
    hosts,   \* what dealHosts found for it
    batches, \* batches of the play left
    batch,   \* number of the batch: counts all batches of the playbook
    stack,   \* frames of the executors that are active, innermost first
    phase,   \* Playbook.Status.Phase in memory
    stored,  \* Playbook.Status.Phase in the API server
    cancelled, \* the context has been cancelled
    holds,   \* the conditions that are true (on every host, during the run)
    log      \* history: what was started and what failed

vars == <<pc, play, hosts, batches, batch, stack, phase, stored, cancelled, holds, log>>

\* What blocks inherit: dealRunOnce, dealIgnoreErrors, dealTags, dealWhen.
Env(h, i, t, w) == [hosts |-> h, ignore |-> i, tags |-> t, when |-> w]

\* roleExecutor does not look at run_once.
Inherit(env, n) ==
    Env(IF Tree[n].runOnce /\ Tree[n].kind # "role" THEN SubSeq(env.hosts, 1, 1) ELSE env.hosts,
        IF Tree[n].ignore = "unset" THEN env.ignore ELSE Tree[n].ignore,
        JoinTag(Tree[n].tags, env.tags),
        env.when \cup Tree[n].when)

\* One active list of blocks: todo is what is left of it; failed, that it ended
\* early; errs, the errors of dealBlock before its always section.
Frame(sec, n, list, env, errs) ==
    [sec |-> sec, node |-> n, todo |-> list, env |-> env, failed |-> FALSE, errs |-> errs]

Top == stack[1]
Rest == Tail(stack)

\* The list of the innermost frame goes on, or ends with an error.
Advance(s) == <<[s[1] EXCEPT !.todo = Tail(@)]>> \o Tail(s)

Abort(s) == <<[s[1] EXCEPT !.todo = << >>, !.failed = TRUE]>> \o Tail(s)

Ended(s, err) == IF err THEN Abort(s) ELSE Advance(s)

Event(what, n, h) == [what |-> what, node |-> n, play |-> play, batch |-> batch, hosts |-> h]

Init ==
    /\ pc = "load" /\ play = 1 /\ hosts = << >> /\ batches = << >> /\ batch = 0
    /\ stack = << >> /\ phase = "Running" /\ stored = "Running"
    /\ cancelled = FALSE /\ holds \in SUBSET Conds /\ log = << >>

Finish(p) == phase' = p /\ pc' = "sync"

-----------------------------------------------------------------------------
(* playbookExecutor *)

\* project.New and MarshalPlaybook.
Load ==
    /\ pc = "load"
    /\ \/ pc' = "play" /\ UNCHANGED phase
       \/ Finish("Failed")
    /\ UNCHANGED <<play, hosts, batches, batch, stack, stored, cancelled, holds, log>>

NextPlay == pc' = "play" /\ play' = play + 1

SkipPlay == NextPlay

\* dealHosts: a play without hosts is skipped.
DealHosts ==
    /\ pc = "play"
    /\ play <= Len(Plays)
    /\ \E h \in Plays[play].hosts :
         \/ /\ h = << >>
            /\ SkipPlay
            /\ UNCHANGED <<hosts, log>>
         \/ /\ h # << >>
            /\ hosts' = h
            /\ pc' = IF Plays[play].gather THEN "gather" ELSE "serial"
            /\ log' = Append(log, Event("play", "none", h))
            /\ UNCHANGED play
    /\ UNCHANGED <<batches, batch, stack, phase, stored, cancelled, holds>>

\* dealGatherFacts: the setup task on all hosts of the play.
GatherFacts ==
    /\ pc = "gather"
    /\ \/ ~ cancelled /\ pc' = "serial" /\ UNCHANGED phase
       \/ Finish("Failed")
    /\ UNCHANGED <<play, hosts, batches, batch, stack, stored, cancelled, holds, log>>

\* dealSerial and dealRunOnce; a panic takes the process down.
DealSerial ==
    /\ pc = "serial"
    /\ LET g == GroupHostBySerial(hosts, Plays[play].serial)
       IN CASE g.kind = "ok" ->
                 /\ batches' = IF Plays[play].runOnce THEN <<<<hosts[1]>>>> ELSE g.batches
                 /\ pc' = "batch" /\ UNCHANGED phase
            [] g.kind = "error" -> Finish("Failed") /\ UNCHANGED batches
            [] g.kind = "panic" -> pc' = "crashed" /\ UNCHANGED <<batches, phase>>
    /\ UNCHANGED <<play, hosts, batch, stack, stored, cancelled, holds, log>>

\* The next batch: its play variables are merged, its blocks are started.
StartBatch ==
    /\ pc = "batch"
    /\ batches # << >>
    /\ batches' = Tail(batches)
    /\ batch' = batch + 1
    /\ \/ /\ Head(batches) = << >>            \* "host is empty"
          /\ Finish("Failed")
          /\ UNCHANGED <<stack, log>>
       \/ /\ FaultsHappen
          /\ Finish("Failed")
          /\ UNCHANGED <<stack, log>>
       \/ /\ Head(batches) # << >>
          /\ stack' = <<Frame("play", "none", PlayOrder(Plays[play]),
                              Env(Head(batches), Plays[play].ignore, Plays[play].tags, {}), FALSE)>>
          /\ log' = Append(log, [Event("batch", "none", Head(batches)) EXCEPT !.batch = @ + 1])
          /\ pc' = "exec" /\ UNCHANGED phase
    /\ UNCHANGED <<play, hosts, stored, cancelled, holds>>

EndPlay ==
    /\ pc = "batch"
    /\ batches = << >>
    /\ NextPlay
    /\ UNCHANGED <<hosts, batches, batch, stack, phase, stored, cancelled, holds, log>>

EndPlaybook ==
    /\ pc = "play"
    /\ play > Len(Plays)
    /\ Finish("Succeeded")
    /\ UNCHANGED <<play, hosts, batches, batch, stack, stored, cancelled, holds, log>>

\* syncStatus: one patch, whose error is only logged.
SyncStatus ==
    /\ pc = "sync"
    /\ pc' = "done"
    /\ \/ ~ cancelled /\ stored' = phase
       \/ (cancelled \/ FaultsHappen) /\ UNCHANGED stored
    /\ UNCHANGED <<play, hosts, batches, batch, stack, phase, cancelled, holds, log>>

-----------------------------------------------------------------------------
(* blockExecutor and roleExecutor: the next block of the innermost list *)

Working == pc = "exec" /\ Top.todo # << >>
This == Head(Top.todo)
ThisEnv == Inherit(Top.env, This)

Unchanged == UNCHANGED <<play, hosts, batches, batch, phase, stored, cancelled, holds>>

\* Merge of the variables of the block or role failed.
MergeFails ==
    /\ Working
    /\ FaultsHappen
    /\ stack' = Abort(stack)
    /\ log' = Append(log, Event("aborted", This, << >>))
    /\ pc' = pc
    /\ Unchanged

\* dealBlock starts its main section; roleExecutor.Exec its dependencies.
Enter ==
    /\ Working
    /\ Tree[This].kind \in {"block", "role"}
    /\ stack' = <<Frame(IF Tree[This].kind = "role" THEN "role" ELSE "main",
                        This, Tree[This].main, ThisEnv, FALSE)>> \o Advance(stack)
    /\ log' = Append(log, Event("main", This, ThisEnv.hosts))
    /\ pc' = pc
    /\ Unchanged

\* An include_tasks whose file holds no blocks.
SkipInclude ==
    /\ Working
    /\ Tree[This].kind = "include"
    /\ stack' = Advance(stack)
    /\ pc' = pc
    /\ UNCHANGED log
    /\ Unchanged

Enabled == IsEnabled(ThisEnv.tags, OnlyTags, SkipTags)

SkipTask ==
    /\ Working
    /\ Tree[This].kind = "task"
    /\ ~ Enabled
    /\ stack' = Advance(stack)
    /\ pc' = pc
    /\ UNCHANGED log
    /\ Unchanged

\* MarshalBlock takes ignore_errors from the task itself.
Ignores(n) == Tree[n].ignore = "yes"

\* A task all of whose hosts skip it, because a condition does not hold.
TaskSkipped ==
    /\ Working
    /\ Tree[This].kind = "task"
    /\ Enabled
    /\ ~ cancelled
    /\ ~ (ThisEnv.when \subseteq holds)
    /\ stack' = Advance(stack)
    /\ pc' = pc
    /\ UNCHANGED log
    /\ Unchanged

\* A task that runs and succeeds, or fails and is ignored.
TaskRuns ==
    /\ Working
    /\ Tree[This].kind = "task"
    /\ Enabled
    /\ ~ cancelled
    /\ ThisEnv.when \subseteq holds
    /\ \E r \in {"ran", "failed"} :
         /\ stack' = Ended(stack, r = "failed" /\ ~ Ignores(This))
         /\ log' = Append(log, Event(IF r = "failed" /\ Ignores(This) THEN "ignored" ELSE r,
                                     This, ThisEnv.hosts))
    /\ pc' = pc
    /\ Unchanged

\* No module, or an API call of the task executor fails: ignore_errors is no help.
TaskAborted ==
    /\ Working
    /\ Tree[This].kind = "task"
    /\ Enabled
    /\ cancelled \/ FaultsHappen
    /\ stack' = Abort(stack)
    /\ log' = Append(log, Event("aborted", This, << >>))
    /\ pc' = pc
    /\ Unchanged

-----------------------------------------------------------------------------
(* The end of a list of blocks *)

\* Mutant: always is only run after success.
AlwaysUnlessError(f, errs, rest) ==
    IF Tree[f.node].always = << >> \/ errs
    THEN IF errs THEN Abort(rest) ELSE rest
    ELSE <<Frame("always", f.node, Tree[f.node].always, f.env, errs)>> \o rest

\* dealBlock after its main section, or its rescue section.
Always(f, errs, rest) ==
    IF Tree[f.node].always = << >>
    THEN IF errs THEN Abort(rest) ELSE rest
    ELSE <<Frame("always", f.node, Tree[f.node].always, f.env, errs)>> \o rest

\* Mutant: a rescue does not clear the error of the main section.
AfterMainKeepsError(f, rest) ==
    IF f.failed /\ Tree[f.node].rescue # << >>
    THEN <<[Frame("rescue", f.node, Tree[f.node].rescue, f.env, FALSE) EXCEPT !.errs = TRUE]>> \o rest
    ELSE Always(f, f.failed, rest)

\* Mutant: a rescue section is a part of the block like the others.
AfterMainRescuesAll(f, rest) ==
    IF Tree[f.node].rescue # << >>
    THEN <<Frame("rescue", f.node, Tree[f.node].rescue, f.env, FALSE)>> \o rest
    ELSE Always(f, f.failed, rest)

\* dealBlock after its main section: rescue what failed, or keep the error.
AfterMain(f, rest) ==
    IF f.failed /\ Tree[f.node].rescue # << >>
    THEN <<Frame("rescue", f.node, Tree[f.node].rescue, f.env, FALSE)>> \o rest
    ELSE Always(f, f.failed, rest)

\* What a list that ended leads to, in the executor that called Exec on it.
AfterList(f, rest) ==
    CASE f.sec = "main"   -> AfterMain(f, rest)
      [] f.sec = "rescue" -> Always(f, f.errs \/ f.failed, rest)
      [] f.sec = "always" -> IF f.errs \/ f.failed THEN Abort(rest) ELSE rest
      [] f.sec = "role"   -> IF f.failed THEN Abort(rest) ELSE rest

\* A section that was started because another one ended.
Started(s) ==
    IF s # << >> /\ s[1].sec \in {"rescue", "always"} /\ Len(s) = Len(stack)
    THEN <<Event(s[1].sec, s[1].node, s[1].env.hosts)>> ELSE << >>

EndList ==
    /\ pc = "exec"
    /\ Top.todo = << >>
    /\ Top.sec # "play"
    /\ stack' = AfterList(Top, Rest)
    /\ log' = log \o Started(stack')
    /\ pc' = pc
    /\ Unchanged

\* execBatchHosts is through with a batch.
EndBatch ==
    /\ pc = "exec"
    /\ Top.todo = << >>
    /\ Top.sec = "play"
    /\ stack' = << >>
    /\ IF Top.failed THEN Finish("Failed") ELSE pc' = "batch" /\ UNCHANGED phase
    /\ UNCHANGED <<play, hosts, batches, batch, stored, cancelled, holds, log>>

\* The context is cancelled: stopPlaybook, or a signal.
Cancel ==
    /\ MayCancel
    /\ ~ cancelled
    /\ pc \notin {"done", "crashed"}
    /\ cancelled' = TRUE
    /\ UNCHANGED <<pc, play, hosts, batches, batch, stack, phase, stored, holds, log>>

-----------------------------------------------------------------------------
Terminated == pc \in {"done", "crashed"} /\ UNCHANGED vars

Step ==
    \/ Load \/ DealHosts \/ GatherFacts \/ DealSerial \/ StartBatch \/ EndPlay
    \/ EndPlaybook \/ SyncStatus
    \/ MergeFails \/ Enter \/ SkipInclude \/ SkipTask \/ TaskSkipped \/ TaskRuns
    \/ TaskAborted \/ EndList \/ EndBatch

Next == Step \/ Cancel \/ Terminated

Spec == Init /\ [][Next]_vars

-----------------------------------------------------------------------------
Failure(e) == e.what \in {"failed", "aborted"}

-----------------------------------------------------------------------------
(* Properties *)

TypeOK ==
    /\ pc \in {"load", "play", "gather", "serial", "batch", "exec", "sync", "done", "crashed"}
    /\ play \in 1..(Len(Plays) + 1)
    /\ phase \in {"Running", "Succeeded", "Failed"}
    /\ stored \in {"Running", phase}
    /\ (pc = "exec") = (stack # << >>)
    /\ \A i \in DOMAIN stack :
         /\ stack[i].sec = "play" <=> i = Len(stack)
         /\ stack[i].failed => stack[i].todo = << >>
         /\ stack[i].env.hosts # << >>

\* The always section of a block that was entered has run when the playbook ends:
\* after everything else of the block and before anything outside of it.
AlwaysRuns ==
    pc = "sync" =>
        \A i \in DOMAIN log :
            LET b == log[i].node IN
            log[i].what = "main" /\ Tree[b].always # << >> =>
                \E j \in i + 1 .. Len(log) :
                    /\ log[j].what = "always" /\ log[j].node = b /\ log[j].batch = log[i].batch
                    /\ \A k \in i + 1 .. j - 1 :
                         log[k].what # "batch" /\ b \in Enclosing[log[k].node]

\* The rescue section of a block runs if and only if its main section failed.
RescueIffFailed ==
    pc = "sync" =>
        \A i \in DOMAIN log :
            LET b == log[i].node IN
            log[i].what = "main" /\ Tree[b].kind = "block" =>
                ((\E j \in DOMAIN log : log[j].what = "rescue" /\ log[j].node = b
                                         /\ log[j].batch = log[i].batch)
                 <=> /\ Tree[b].rescue # << >>
                     /\ \E k \in DOMAIN log : /\ Failure(log[k])
                                              /\ log[k].batch = log[i].batch
                                              /\ <<b, "main">> \in FailedSections[log[k].node])

\* A failure that nothing rescues ends the playbook as Failed: no later batch of
\* hosts is touched and the phase is never Succeeded; and a batch fails for no
\* other reason.
EscapeFails ==
    /\ \A i \in DOMAIN log :
         Failure(log[i]) /\ Root \in FailedSections[log[i].node] =>
            batch = log[i].batch /\ phase # "Succeeded"
    /\ pc = "exec" /\ Top.sec = "play" /\ Top.failed =>
         \E i \in DOMAIN log : /\ Failure(log[i]) /\ log[i].batch = batch
                              /\ Root \in FailedSections[log[i].node]

\* The hosts of the batches of play p in the history l, one batch after the other.
Covered(l, p) ==
    LET all[k \in 0..Len(l)] ==
          IF k = 0 THEN << >>
          ELSE IF l[k].play = p /\ l[k].what = "batch" THEN all[k - 1] \o l[k].hosts
          ELSE all[k - 1]
    IN all[Len(l)]

\* A play is through only when it has run on every one of its hosts, each once
\* and in order: if the batches are done, they are the hosts (with run_once,
\* the first host).
HostsCovered ==
    pc = "batch" /\ batches = << >> =>
        Covered(log, play) = IF Plays[play].runOnce THEN <<hosts[1]>> ELSE hosts

\* 002-playbook.md: ignore_errors of a play ignores the failures of the tasks in
\* it (so do blocks and roles), unless something inside says otherwise.
IgnoreErrorsCovers ==
    \A i \in DOMAIN log : log[i].what = "failed" =>
        LET n == log[i].node IN
        ~ (Plays[log[i].play].ignore = "yes" /\ \A m \in Enclosing[n] : Tree[m].ignore # "no")
=============================================================================
