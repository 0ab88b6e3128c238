------------------------- MODULE MCPlaybookExecutor -------------------------
(* A project with a role that depends on another one, nested blocks with     *)
(* rescue and always sections, include_tasks, and conditions and tags at     *)
(* several levels; six plays.                                               *)
EXTENDS PlaybookExecutor, TLC

T == [kind |-> "task", main |-> << >>, rescue |-> << >>, always |-> << >>,
      tags |-> {}, when |-> {}, ignore |-> "unset", runOnce |-> FALSE]
B(main, rescue, always) ==
    [T EXCEPT !.kind = "block", !.main = main, !.rescue = rescue, !.always = always]
R(main) == [T EXCEPT !.kind = "role", !.main = main]

P == [hosts |-> {<<"h1", "h2">>}, gather |-> FALSE, serial |-> << >>, runOnce |-> FALSE,
      ignore |-> "unset", tags |-> {}, pre |-> << >>, roles |-> << >>, tasks |-> << >>,
      post |-> << >>]

One == [percent |-> FALSE, n |-> 1]
Two == [percent |-> FALSE, n |-> 2]
Zero == [percent |-> FALSE, n |-> 0]

ProjectTree ==
       "pre"   :> T
    @@ "role"  :> [R(<<"dep", "outer">>) EXCEPT !.when = {"c1"}, !.tags = {"net"}]
    @@ "dep"   :> R(<<"depTask", "slowTask">>)
    @@ "depTask" :> T
    @@ "slowTask" :> [T EXCEPT !.tags = {"slow"}]
    @@ "outer" :> [B(<<"inner", "next">>, <<"fix">>, <<"clean">>) EXCEPT !.when = {"c2"}]
    @@ "inner" :> B(<<"try">>, << >>, <<"innerClean">>)
    @@ "try" :> T @@ "next" :> T @@ "fix" :> T @@ "clean" :> T @@ "innerClean" :> T
    @@ "inc"   :> [T EXCEPT !.kind = "include"]
    @@ "last"  :> [T EXCEPT !.runOnce = TRUE]
    @@ "post"  :> [T EXCEPT !.tags = {"always"}]
    @@ "neverTask" :> [T EXCEPT !.tags = {"never"}]
    @@ "second" :> T @@ "third" :> [T EXCEPT !.ignore = "yes"]
ProjectNodes == DOMAIN ProjectTree

\* Two batches of one host; no host; batches of two and one; then entries of serial that do
\* not suit the hosts, one that is zero, and run_once.
ProjectPlays ==
    <<[P EXCEPT !.serial = <<One>>, !.tags = {"etcd"}, !.pre = <<"pre">>, !.roles = <<"role">>,
                !.tasks = <<"inc", "last">>, !.post = <<"neverTask", "post">>],
      [P EXCEPT !.hosts = {<< >>}, !.tasks = <<"second">>],
      [P EXCEPT !.hosts = {<<"h1", "h2", "h3">>}, !.gather = TRUE, !.serial = <<Two>>,
                !.tasks = <<"second">>],
      [P EXCEPT !.hosts = {<<"h1">>, <<"h1", "h2">>, << >>}, !.serial = <<Two, One>>,
                !.tasks = <<"second">>],
      [P EXCEPT !.hosts = {<<"h1">>, << >>}, !.serial = <<Zero>>, !.tasks = <<"second">>],
      [P EXCEPT !.runOnce = TRUE, !.tasks = <<"third">>]>>
ProjectOnly == {"etcd", "net", "all"}
ProjectSkip == {"slow"}

\* ignore_errors on a play, with a task in it and one in a block.
IgnoreTree == "task1" :> T @@ "block" :> B(<<"task2">>, << >>, << >>) @@ "task2" :> T
IgnoreNodes == DOMAIN IgnoreTree
IgnorePlays == <<[P EXCEPT !.ignore = "yes", !.tasks = <<"task1", "block">>]>>
=============================================================================
