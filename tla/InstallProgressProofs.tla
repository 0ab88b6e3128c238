----------------------- MODULE InstallProgressProofs -----------------------
(***************************************************************************)
(* What a page that follows a playbook shows, for any number of playbooks  *)
(* and any order of polls, answers, aborts and changes of the page.        *)
(***************************************************************************)
EXTENDS InstallProgress, TLAPS

\* Nothing is left of a view that is closed.
Closed ==
  kind = "None" => /\ name = 0 /\ phase = "Pending" /\ log = << >> /\ ~dialog
                   /\ \A p \in Playbooks : poll[p] = "Off" /\ stream[p] = "Off"
                   /\ aborting = {} /\ aborted = {} /\ ~switched /\ ~late

\* A view shows a playbook that was created, InstallStep the one of App.
Named ==
  /\ playbook # 0 => run[playbook] # "None"
  /\ kind # "None" => name \in Playbooks /\ run[name] # "None"
  /\ kind = "step" => name = playbook
  /\ dialog => kind = "step"

\* A loop polls a playbook that was created, and an answer on its way is a
\* phase that the playbook had when it was asked.
AnswersReal == \A p \in Playbooks :
                 /\ poll[p] # "Off" => run[p] # "None"
                 /\ poll[p] \in Phases => View!Had(p, poll[p])

\* As long as App set no other playbook there is one loop and one stream.
OneLoop == ~switched => \A p \in Playbooks : p # name => poll[p] = "Off" /\ stream[p] = "Off"

\* The loop of an undisturbed view is behind the playbook and ahead of the page.
InOrder ==
  (kind # "None" /\ ~switched /\ aborted = {}) =>
    /\ View!Had(name, phase)
    /\ poll[name] \in Phases => View!Rank(phase) <= View!Rank(poll[name])
    /\ poll[name] = "Off" => phase = run[name] /\ phase \in Final

\* The log of a view that got no other playbook.
OwnLog == ~switched => log \in Seq({name})

\* A handleAbort waits for a deletion that is requested or done.
Aborts == /\ aborting \subseteq requested \cup gone
          /\ AbortLasts

IInv == /\ TypeOK /\ Closed /\ Named /\ AnswersReal /\ OneLoop /\ InOrder /\ OwnLog
        /\ Aborts


LEMMA SubmitStep ==
  ASSUME IInv, NEW p \in Playbooks, Submit(p)
  PROVE  IInv'
<1>1. TypeOK'
  BY NAssumption DEF IInv, TypeOK, Playbooks, Phases, Final, Polls, Submit, server, view,
       history
<1>2. Closed'
  BY NAssumption DEF IInv, Closed, Named, TypeOK, Playbooks, Phases, Final, Polls, Submit,
       server, view, history
<1>3. Named'
  BY NAssumption DEF IInv, TypeOK, Closed, Named, Playbooks, Phases, Final, Polls, Submit,
       server, view, history
<1>4. AnswersReal'
  BY NAssumption DEF IInv, TypeOK, Named, AnswersReal, View!Had, View!Rank, View!Final,
       Playbooks, Phases, Final, Polls, Submit, server, view, history
<1>5. OneLoop'
  BY NAssumption DEF IInv, TypeOK, Closed, Named, OneLoop, Playbooks, Phases, Final, Polls,
       Submit, server, view, history
<1>6. InOrder'
  BY NAssumption DEF IInv, TypeOK, Closed, Named, AnswersReal, OneLoop, InOrder, AbortLasts,
       View!Had, View!Rank, View!Final, Playbooks, Phases, Final, Polls, Submit, server,
       view, history
<1>7. OwnLog'
  BY NAssumption DEF IInv, TypeOK, Closed, Named, OneLoop, OwnLog, Playbooks, Phases, Final,
       Polls, Submit, server, view, history
<1>8. Aborts'
  BY NAssumption DEF IInv, TypeOK, Closed, Named, OneLoop, Aborts, AbortLasts, Playbooks,
       Phases, Final, Polls, Submit, server, view, history
<1> QED BY <1>1, <1>2, <1>3, <1>4, <1>5, <1>6, <1>7, <1>8 DEF IInv

LEMMA StartStep ==
  ASSUME IInv, NEW p \in Playbooks, Start(p)
  PROVE  IInv'
<1>1. TypeOK'
  BY NAssumption DEF IInv, TypeOK, Playbooks, Phases, Final, Polls, Start, server, view,
       history
<1>2. Closed'
  BY NAssumption DEF IInv, Closed, Named, TypeOK, Playbooks, Phases, Final, Polls, Start,
       server, view, history
<1>3. Named'
  BY NAssumption DEF IInv, TypeOK, Closed, Named, Playbooks, Phases, Final, Polls, Start,
       server, view, history
<1>4. AnswersReal'
  <2>1. ASSUME NEW q \in Playbooks
        PROVE  /\ run'[q] # run[q] => run[q] = "Pending" /\ run'[q] = "Running"
               /\ poll'[q] = poll[q] /\ run[q] \in Phases \cup {"None"}
    BY DEF IInv, TypeOK, Start, view
  <2>2. ASSUME NEW q \in Playbooks, NEW r \in Phases, View!Had(q, r)
        PROVE  View!Had(q, r)'
    BY <2>1, <2>2 DEF View!Had, View!Rank, View!Final, Phases
  <2> QED BY <2>1, <2>2 DEF IInv, AnswersReal
<1>5. OneLoop'
  BY NAssumption DEF IInv, TypeOK, Closed, Named, OneLoop, Playbooks, Phases, Final, Polls,
       Start, server, view, history
<1>6. InOrder'
  BY NAssumption DEF IInv, TypeOK, Closed, Named, AnswersReal, OneLoop, InOrder, AbortLasts,
       View!Had, View!Rank, View!Final, Playbooks, Phases, Final, Polls, Start, server,
       view, history
<1>7. OwnLog'
  BY NAssumption DEF IInv, TypeOK, Closed, Named, OneLoop, OwnLog, Playbooks, Phases, Final,
       Polls, Start, server, view, history
<1>8. Aborts'
  BY NAssumption DEF IInv, TypeOK, Closed, Named, OneLoop, Aborts, AbortLasts, Playbooks,
       Phases, Final, Polls, Start, server, view, history
<1> QED BY <1>1, <1>2, <1>3, <1>4, <1>5, <1>6, <1>7, <1>8 DEF IInv

LEMMA EndStep ==
  ASSUME IInv, NEW p \in Playbooks, End(p)
  PROVE  IInv'
<1>1. TypeOK'
  BY NAssumption DEF IInv, TypeOK, Playbooks, Phases, Final, Polls, End, server, view,
       history
<1>2. Closed'
  BY NAssumption DEF IInv, Closed, Named, TypeOK, Playbooks, Phases, Final, Polls, End,
       server, view, history
<1>3. Named'
  BY NAssumption DEF IInv, TypeOK, Closed, Named, Playbooks, Phases, Final, Polls, End,
       server, view, history
<1>4. AnswersReal'
  BY NAssumption DEF IInv, TypeOK, Named, AnswersReal, View!Had, View!Rank, View!Final,
       Playbooks, Phases, Final, Polls, End, server, view, history
<1>5. OneLoop'
  BY NAssumption DEF IInv, TypeOK, Closed, Named, OneLoop, Playbooks, Phases, Final, Polls,
       End, server, view, history
<1>6. InOrder'
  BY NAssumption DEF IInv, TypeOK, Closed, Named, AnswersReal, OneLoop, InOrder, AbortLasts,
       View!Had, View!Rank, View!Final, Playbooks, Phases, Final, Polls, End, server, view,
       history
<1>7. OwnLog'
  BY NAssumption DEF IInv, TypeOK, Closed, Named, OneLoop, OwnLog, Playbooks, Phases, Final,
       Polls, End, server, view, history
<1>8. Aborts'
  BY NAssumption DEF IInv, TypeOK, Closed, Named, OneLoop, Aborts, AbortLasts, Playbooks,
       Phases, Final, Polls, End, server, view, history
<1> QED BY <1>1, <1>2, <1>3, <1>4, <1>5, <1>6, <1>7, <1>8 DEF IInv

LEMMA HandleDeleteStep ==
  ASSUME IInv, NEW p \in Playbooks, HandleDelete(p)
  PROVE  IInv'
<1>1. TypeOK'
  BY NAssumption DEF IInv, TypeOK, Playbooks, Phases, Final, Polls, HandleDelete, server,
       view, history
<1>2. Closed'
  BY NAssumption DEF IInv, Closed, Named, TypeOK, Playbooks, Phases, Final, Polls,
       HandleDelete, server, view, history
<1>3. Named'
  BY NAssumption DEF IInv, TypeOK, Closed, Named, Playbooks, Phases, Final, Polls,
       HandleDelete, server, view, history
<1>4. AnswersReal'
  BY NAssumption DEF IInv, TypeOK, Named, AnswersReal, View!Had, View!Rank, View!Final,
       Playbooks, Phases, Final, Polls, HandleDelete, server, view, history
<1>5. OneLoop'
  BY NAssumption DEF IInv, TypeOK, Closed, Named, OneLoop, Playbooks, Phases, Final, Polls,
       HandleDelete, server, view, history
<1>6. InOrder'
  BY NAssumption DEF IInv, TypeOK, Closed, Named, AnswersReal, OneLoop, InOrder, AbortLasts,
       View!Had, View!Rank, View!Final, Playbooks, Phases, Final, Polls, HandleDelete,
       server, view, history
<1>7. OwnLog'
  BY NAssumption DEF IInv, TypeOK, Closed, Named, OneLoop, OwnLog, Playbooks, Phases, Final,
       Polls, HandleDelete, server, view, history
<1>8. Aborts'
  BY NAssumption DEF IInv, TypeOK, Closed, Named, OneLoop, Aborts, AbortLasts, Playbooks,
       Phases, Final, Polls, HandleDelete, server, view, history
<1> QED BY <1>1, <1>2, <1>3, <1>4, <1>5, <1>6, <1>7, <1>8 DEF IInv

LEMMA MountStepStep ==
  ASSUME IInv, MountStep
  PROVE  IInv'
<1>1. TypeOK'
  BY NAssumption DEF IInv, TypeOK, Playbooks, Phases, Final, Polls, MountStep, MountAs,
       StartEffect, FirstPhase, server, view, history
<1>2. Closed'
  BY NAssumption DEF IInv, Closed, Named, TypeOK, Playbooks, Phases, Final, Polls,
       MountStep, MountAs, StartEffect, FirstPhase, server, view, history
<1>3. Named'
  BY NAssumption DEF IInv, TypeOK, Closed, Named, Playbooks, Phases, Final, Polls,
       MountStep, MountAs, StartEffect, FirstPhase, server, view, history
<1>4. AnswersReal'
  BY NAssumption DEF IInv, TypeOK, Named, AnswersReal, View!Had, View!Rank, View!Final,
       Playbooks, Phases, Final, Polls, MountStep, MountAs, StartEffect, FirstPhase, server,
       view, history
<1>5. OneLoop'
  BY NAssumption DEF IInv, TypeOK, Closed, Named, OneLoop, Playbooks, Phases, Final, Polls,
       MountStep, MountAs, StartEffect, FirstPhase, server, view, history
<1>6. InOrder'
  BY NAssumption DEF IInv, TypeOK, Closed, Named, AnswersReal, OneLoop, InOrder, AbortLasts,
       View!Had, View!Rank, View!Final, Playbooks, Phases, Final, Polls, MountStep, MountAs,
       StartEffect, FirstPhase, server, view, history
<1>7. OwnLog'
  BY NAssumption DEF IInv, TypeOK, Closed, Named, OneLoop, OwnLog, Playbooks, Phases, Final,
       Polls, MountStep, MountAs, StartEffect, FirstPhase, server, view, history
<1>8. Aborts'
  BY NAssumption DEF IInv, TypeOK, Closed, Named, OneLoop, Aborts, AbortLasts, Playbooks,
       Phases, Final, Polls, MountStep, MountAs, StartEffect, FirstPhase, server, view,
       history
<1> QED BY <1>1, <1>2, <1>3, <1>4, <1>5, <1>6, <1>7, <1>8 DEF IInv

LEMMA MountModalStep ==
  ASSUME IInv, NEW p \in Playbooks, MountModal(p)
  PROVE  IInv'
<1>1. TypeOK'
  BY NAssumption DEF IInv, TypeOK, Playbooks, Phases, Final, Polls, MountModal, MountAs,
       StartEffect, FirstPhase, server, view, history
<1>2. Closed'
  BY NAssumption DEF IInv, Closed, Named, TypeOK, Playbooks, Phases, Final, Polls,
       MountModal, MountAs, StartEffect, FirstPhase, server, view, history
<1>3. Named'
  BY NAssumption DEF IInv, TypeOK, Closed, Named, Playbooks, Phases, Final, Polls,
       MountModal, MountAs, StartEffect, FirstPhase, server, view, history
<1>4. AnswersReal'
  BY NAssumption DEF IInv, TypeOK, Named, AnswersReal, View!Had, View!Rank, View!Final,
       Playbooks, Phases, Final, Polls, MountModal, MountAs, StartEffect, FirstPhase,
       server, view, history
<1>5. OneLoop'
  BY NAssumption DEF IInv, TypeOK, Closed, Named, OneLoop, Playbooks, Phases, Final, Polls,
       MountModal, MountAs, StartEffect, FirstPhase, server, view, history
<1>6. InOrder'
  BY NAssumption DEF IInv, TypeOK, Closed, Named, AnswersReal, OneLoop, InOrder, AbortLasts,
       View!Had, View!Rank, View!Final, Playbooks, Phases, Final, Polls, MountModal,
       MountAs, StartEffect, FirstPhase, server, view, history
<1>7. OwnLog'
  BY NAssumption DEF IInv, TypeOK, Closed, Named, OneLoop, OwnLog, Playbooks, Phases, Final,
       Polls, MountModal, MountAs, StartEffect, FirstPhase, server, view, history
<1>8. Aborts'
  BY NAssumption DEF IInv, TypeOK, Closed, Named, OneLoop, Aborts, AbortLasts, Playbooks,
       Phases, Final, Polls, MountModal, MountAs, StartEffect, FirstPhase, server, view,
       history
<1> QED BY <1>1, <1>2, <1>3, <1>4, <1>5, <1>6, <1>7, <1>8 DEF IInv

LEMMA UnmountStep ==
  ASSUME IInv, Unmount
  PROVE  IInv'
<1>1. TypeOK'
  <2>1. log' \in Seq(Playbooks)
    BY DEF Unmount
  <2>2. poll' \in [Playbooks -> Polls] /\ stream' \in [Playbooks -> {"Off", "Open"}]
    BY DEF Unmount, Polls
  <2>3. name' \in 0 .. N /\ phase' \in Phases
    BY NAssumption DEF Unmount, FirstPhase, Phases
  <2> QED BY <2>1, <2>2, <2>3 DEF IInv, TypeOK, Unmount, server
<1>2. Closed'
  BY NAssumption DEF IInv, Closed, Named, TypeOK, Playbooks, Phases, Final, Polls, Unmount,
       FirstPhase, server, view, history
<1>3. Named'
  BY NAssumption DEF IInv, TypeOK, Closed, Named, Playbooks, Phases, Final, Polls, Unmount,
       FirstPhase, server, view, history
<1>4. AnswersReal'
  BY NAssumption DEF IInv, TypeOK, Named, AnswersReal, View!Had, View!Rank, View!Final,
       Playbooks, Phases, Final, Polls, Unmount, FirstPhase, server, view, history
<1>5. OneLoop'
  BY NAssumption DEF IInv, TypeOK, Closed, Named, OneLoop, Playbooks, Phases, Final, Polls,
       Unmount, FirstPhase, server, view, history
<1>6. InOrder'
  BY NAssumption DEF IInv, TypeOK, Closed, Named, AnswersReal, OneLoop, InOrder, AbortLasts,
       View!Had, View!Rank, View!Final, Playbooks, Phases, Final, Polls, Unmount,
       FirstPhase, server, view, history
<1>7. OwnLog'
  BY NAssumption DEF IInv, TypeOK, Closed, Named, OneLoop, OwnLog, Playbooks, Phases, Final,
       Polls, Unmount, FirstPhase, server, view, history
<1>8. Aborts'
  BY NAssumption DEF IInv, TypeOK, Closed, Named, OneLoop, Aborts, AbortLasts, Playbooks,
       Phases, Final, Polls, Unmount, FirstPhase, server, view, history
<1> QED BY <1>1, <1>2, <1>3, <1>4, <1>5, <1>6, <1>7, <1>8 DEF IInv

LEMMA SetPlaybookStep ==
  ASSUME IInv, SetPlaybook
  PROVE  IInv'
<1>1. TypeOK'
  <2>1. poll' \in [Playbooks -> Polls] /\ stream' \in [Playbooks -> {"Off", "Open"}]
    BY NAssumption DEF IInv, TypeOK, Polls, SetPlaybook, StartEffect, view
  <2>2. playbook' \in 0 .. N /\ name' \in 0 .. N
    BY NAssumption DEF IInv, TypeOK, SetPlaybook, view
  <2> QED BY <2>1, <2>2 DEF IInv, TypeOK, SetPlaybook, server, view, history
<1>2. Closed'
  BY NAssumption DEF IInv, Closed, Named, TypeOK, Playbooks, Phases, Final, Polls,
       SetPlaybook, StartEffect, server, view, history
<1>3. Named'
  BY NAssumption DEF IInv, TypeOK, Closed, Named, Playbooks, Phases, Final, Polls,
       SetPlaybook, StartEffect, server, view, history
<1>4. AnswersReal'
  BY NAssumption DEF IInv, TypeOK, Named, AnswersReal, View!Had, View!Rank, View!Final,
       Playbooks, Phases, Final, Polls, SetPlaybook, StartEffect, server, view, history
<1>5. OneLoop'
  BY NAssumption DEF IInv, TypeOK, Closed, Named, OneLoop, Playbooks, Phases, Final, Polls,
       SetPlaybook, StartEffect, server, view, history
<1>6. InOrder'
  BY NAssumption DEF IInv, TypeOK, Closed, Named, AnswersReal, OneLoop, InOrder, AbortLasts,
       View!Had, View!Rank, View!Final, Playbooks, Phases, Final, Polls, SetPlaybook,
       StartEffect, server, view, history
<1>7. OwnLog'
  BY NAssumption DEF IInv, TypeOK, Closed, Named, OneLoop, OwnLog, Playbooks, Phases, Final,
       Polls, SetPlaybook, StartEffect, server, view, history
<1>8. Aborts'
  BY NAssumption DEF IInv, TypeOK, Closed, Named, OneLoop, Aborts, AbortLasts, Playbooks,
       Phases, Final, Polls, SetPlaybook, StartEffect, server, view, history
<1> QED BY <1>1, <1>2, <1>3, <1>4, <1>5, <1>6, <1>7, <1>8 DEF IInv

LEMMA SendPollStep ==
  ASSUME IInv, NEW p \in Playbooks, SendPoll(p)
  PROVE  IInv'
<1>1. TypeOK'
  BY NAssumption DEF IInv, TypeOK, Playbooks, Phases, Final, Polls, SendPoll, Signalled,
       server, view, history
<1>2. Closed'
  BY NAssumption DEF IInv, Closed, Named, TypeOK, Playbooks, Phases, Final, Polls, SendPoll,
       Signalled, server, view, history
<1>3. Named'
  BY NAssumption DEF IInv, TypeOK, Closed, Named, Playbooks, Phases, Final, Polls, SendPoll,
       Signalled, server, view, history
<1>4. AnswersReal'
  BY NAssumption DEF IInv, TypeOK, Named, AnswersReal, View!Had, View!Rank, View!Final,
       Playbooks, Phases, Final, Polls, SendPoll, Signalled, server, view, history
<1>5. OneLoop'
  BY NAssumption DEF IInv, TypeOK, Closed, Named, OneLoop, Playbooks, Phases, Final, Polls,
       SendPoll, Signalled, server, view, history
<1>6. InOrder'
  BY NAssumption DEF IInv, TypeOK, Closed, Named, AnswersReal, OneLoop, InOrder, AbortLasts,
       View!Had, View!Rank, View!Final, Playbooks, Phases, Final, Polls, SendPoll,
       Signalled, server, view, history
<1>7. OwnLog'
  BY NAssumption DEF IInv, TypeOK, Closed, Named, OneLoop, OwnLog, Playbooks, Phases, Final,
       Polls, SendPoll, Signalled, server, view, history
<1>8. Aborts'
  BY NAssumption DEF IInv, TypeOK, Closed, Named, OneLoop, Aborts, AbortLasts, Playbooks,
       Phases, Final, Polls, SendPoll, Signalled, server, view, history
<1> QED BY <1>1, <1>2, <1>3, <1>4, <1>5, <1>6, <1>7, <1>8 DEF IInv

LEMMA AnswerPollStep ==
  ASSUME IInv, NEW p \in Playbooks, AnswerPoll(p)
  PROVE  IInv'
<1>1. TypeOK'
  <2>1. run[p] \in Phases
    BY DEF IInv, TypeOK, Playbooks, Phases, Final, Polls, AnswersReal, AnswerPoll
  <2> QED BY <2>1 DEF IInv, TypeOK, Polls, AnswerPoll, server, history
<1>2. Closed'
  BY NAssumption DEF IInv, Closed, Named, TypeOK, Playbooks, Phases, Final, Polls,
       AnswerPoll, server, view, history
<1>3. Named'
  BY NAssumption DEF IInv, TypeOK, Closed, Named, Playbooks, Phases, Final, Polls,
       AnswerPoll, server, view, history
<1>4. AnswersReal'
  BY NAssumption DEF IInv, TypeOK, Named, AnswersReal, View!Had, View!Rank, View!Final,
       Playbooks, Phases, Final, Polls, AnswerPoll, server, view, history
<1>5. OneLoop'
  BY NAssumption DEF IInv, TypeOK, Closed, Named, OneLoop, Playbooks, Phases, Final, Polls,
       AnswerPoll, server, view, history
<1>6. InOrder'
  BY NAssumption DEF IInv, TypeOK, Closed, Named, AnswersReal, OneLoop, InOrder, AbortLasts,
       View!Had, View!Rank, View!Final, Playbooks, Phases, Final, Polls, AnswerPoll, server,
       view, history
<1>7. OwnLog'
  BY NAssumption DEF IInv, TypeOK, Closed, Named, OneLoop, OwnLog, Playbooks, Phases, Final,
       Polls, AnswerPoll, server, view, history
<1>8. Aborts'
  BY NAssumption DEF IInv, TypeOK, Closed, Named, OneLoop, Aborts, AbortLasts, Playbooks,
       Phases, Final, Polls, AnswerPoll, server, view, history
<1> QED BY <1>1, <1>2, <1>3, <1>4, <1>5, <1>6, <1>7, <1>8 DEF IInv

LEMMA LosePollStep ==
  ASSUME IInv, NEW p \in Playbooks, LosePoll(p)
  PROVE  IInv'
<1>1. TypeOK'
  BY NAssumption DEF IInv, TypeOK, Playbooks, Phases, Final, Polls, LosePoll, Signalled,
       server, view, history
<1>2. Closed'
  BY NAssumption DEF IInv, Closed, Named, TypeOK, Playbooks, Phases, Final, Polls, LosePoll,
       Signalled, server, view, history
<1>3. Named'
  BY NAssumption DEF IInv, TypeOK, Closed, Named, Playbooks, Phases, Final, Polls, LosePoll,
       Signalled, server, view, history
<1>4. AnswersReal'
  BY NAssumption DEF IInv, TypeOK, Named, AnswersReal, View!Had, View!Rank, View!Final,
       Playbooks, Phases, Final, Polls, LosePoll, Signalled, server, view, history
<1>5. OneLoop'
  BY NAssumption DEF IInv, TypeOK, Closed, Named, OneLoop, Playbooks, Phases, Final, Polls,
       LosePoll, Signalled, server, view, history
<1>6. InOrder'
  BY NAssumption DEF IInv, TypeOK, Closed, Named, AnswersReal, OneLoop, InOrder, AbortLasts,
       View!Had, View!Rank, View!Final, Playbooks, Phases, Final, Polls, LosePoll,
       Signalled, server, view, history
<1>7. OwnLog'
  BY NAssumption DEF IInv, TypeOK, Closed, Named, OneLoop, OwnLog, Playbooks, Phases, Final,
       Polls, LosePoll, Signalled, server, view, history
<1>8. Aborts'
  BY NAssumption DEF IInv, TypeOK, Closed, Named, OneLoop, Aborts, AbortLasts, Playbooks,
       Phases, Final, Polls, LosePoll, Signalled, server, view, history
<1> QED BY <1>1, <1>2, <1>3, <1>4, <1>5, <1>6, <1>7, <1>8 DEF IInv

LEMMA DeliverPollStep ==
  ASSUME IInv, NEW p \in Playbooks, DeliverPoll(p)
  PROVE  IInv'
<1>1. TypeOK'
  BY NAssumption DEF IInv, TypeOK, Playbooks, Phases, Final, Polls, DeliverPoll,
       AfterAnswer, server, view, history
<1>2. Closed'
  BY NAssumption DEF IInv, Closed, Named, TypeOK, Playbooks, Phases, Final, Polls,
       DeliverPoll, AfterAnswer, server, view, history
<1>3. Named'
  BY NAssumption DEF IInv, TypeOK, Closed, Named, Playbooks, Phases, Final, Polls,
       DeliverPoll, AfterAnswer, server, view, history
<1>4. AnswersReal'
  BY NAssumption DEF IInv, TypeOK, Named, AnswersReal, View!Had, View!Rank, View!Final,
       Playbooks, Phases, Final, Polls, DeliverPoll, AfterAnswer, server, view, history
<1>5. OneLoop'
  BY NAssumption DEF IInv, TypeOK, Closed, Named, OneLoop, Playbooks, Phases, Final, Polls,
       DeliverPoll, AfterAnswer, server, view, history
<1>6. InOrder'
  BY NAssumption DEF IInv, TypeOK, Closed, Named, AnswersReal, OneLoop, InOrder, AbortLasts,
       View!Had, View!Rank, View!Final, Playbooks, Phases, Final, Polls, DeliverPoll,
       AfterAnswer, server, view, history
<1>7. OwnLog'
  BY NAssumption DEF IInv, TypeOK, Closed, Named, OneLoop, OwnLog, Playbooks, Phases, Final,
       Polls, DeliverPoll, AfterAnswer, server, view, history
<1>8. Aborts'
  BY NAssumption DEF IInv, TypeOK, Closed, Named, OneLoop, Aborts, AbortLasts, Playbooks,
       Phases, Final, Polls, DeliverPoll, AfterAnswer, server, view, history
<1> QED BY <1>1, <1>2, <1>3, <1>4, <1>5, <1>6, <1>7, <1>8 DEF IInv

LEMMA ReadChunkStep ==
  ASSUME IInv, NEW p \in Playbooks, ReadChunk(p)
  PROVE  IInv'
<1>1. TypeOK'
  BY NAssumption DEF IInv, TypeOK, Playbooks, Phases, Final, Polls, ReadChunk, server, view,
       history
<1>2. Closed'
  BY NAssumption DEF IInv, Closed, Named, TypeOK, Playbooks, Phases, Final, Polls,
       ReadChunk, server, view, history
<1>3. Named'
  BY NAssumption DEF IInv, TypeOK, Closed, Named, Playbooks, Phases, Final, Polls,
       ReadChunk, server, view, history
<1>4. AnswersReal'
  BY NAssumption DEF IInv, TypeOK, Named, AnswersReal, View!Had, View!Rank, View!Final,
       Playbooks, Phases, Final, Polls, ReadChunk, server, view, history
<1>5. OneLoop'
  BY NAssumption DEF IInv, TypeOK, Closed, Named, OneLoop, Playbooks, Phases, Final, Polls,
       ReadChunk, server, view, history
<1>6. InOrder'
  BY NAssumption DEF IInv, TypeOK, Closed, Named, AnswersReal, OneLoop, InOrder, AbortLasts,
       View!Had, View!Rank, View!Final, Playbooks, Phases, Final, Polls, ReadChunk, server,
       view, history
<1>7. OwnLog'
  BY NAssumption DEF IInv, TypeOK, Closed, Named, OneLoop, OwnLog, Playbooks, Phases, Final,
       Polls, ReadChunk, server, view, history
<1>8. Aborts'
  BY NAssumption DEF IInv, TypeOK, Closed, Named, OneLoop, Aborts, AbortLasts, Playbooks,
       Phases, Final, Polls, ReadChunk, server, view, history
<1> QED BY <1>1, <1>2, <1>3, <1>4, <1>5, <1>6, <1>7, <1>8 DEF IInv

LEMMA BreakStreamStep ==
  ASSUME IInv, NEW p \in Playbooks, BreakStream(p)
  PROVE  IInv'
<1>1. TypeOK'
  BY NAssumption DEF IInv, TypeOK, Playbooks, Phases, Final, Polls, BreakStream, server,
       view, history
<1>2. Closed'
  BY NAssumption DEF IInv, Closed, Named, TypeOK, Playbooks, Phases, Final, Polls,
       BreakStream, server, view, history
<1>3. Named'
  BY NAssumption DEF IInv, TypeOK, Closed, Named, Playbooks, Phases, Final, Polls,
       BreakStream, server, view, history
<1>4. AnswersReal'
  BY NAssumption DEF IInv, TypeOK, Named, AnswersReal, View!Had, View!Rank, View!Final,
       Playbooks, Phases, Final, Polls, BreakStream, server, view, history
<1>5. OneLoop'
  BY NAssumption DEF IInv, TypeOK, Closed, Named, OneLoop, Playbooks, Phases, Final, Polls,
       BreakStream, server, view, history
<1>6. InOrder'
  BY NAssumption DEF IInv, TypeOK, Closed, Named, AnswersReal, OneLoop, InOrder, AbortLasts,
       View!Had, View!Rank, View!Final, Playbooks, Phases, Final, Polls, BreakStream,
       server, view, history
<1>7. OwnLog'
  BY NAssumption DEF IInv, TypeOK, Closed, Named, OneLoop, OwnLog, Playbooks, Phases, Final,
       Polls, BreakStream, server, view, history
<1>8. Aborts'
  BY NAssumption DEF IInv, TypeOK, Closed, Named, OneLoop, Aborts, AbortLasts, Playbooks,
       Phases, Final, Polls, BreakStream, server, view, history
<1> QED BY <1>1, <1>2, <1>3, <1>4, <1>5, <1>6, <1>7, <1>8 DEF IInv

LEMMA OpenDialogStep ==
  ASSUME IInv, OpenDialog
  PROVE  IInv'
<1>1. TypeOK'
  BY NAssumption DEF IInv, TypeOK, Playbooks, Phases, Final, Polls, OpenDialog, CanAbort,
       server, view, history
<1>2. Closed'
  BY NAssumption DEF IInv, Closed, Named, TypeOK, Playbooks, Phases, Final, Polls,
       OpenDialog, CanAbort, server, view, history
<1>3. Named'
  BY NAssumption DEF IInv, TypeOK, Closed, Named, Playbooks, Phases, Final, Polls,
       OpenDialog, CanAbort, server, view, history
<1>4. AnswersReal'
  BY NAssumption DEF IInv, TypeOK, Named, AnswersReal, View!Had, View!Rank, View!Final,
       Playbooks, Phases, Final, Polls, OpenDialog, CanAbort, server, view, history
<1>5. OneLoop'
  BY NAssumption DEF IInv, TypeOK, Closed, Named, OneLoop, Playbooks, Phases, Final, Polls,
       OpenDialog, CanAbort, server, view, history
<1>6. InOrder'
  BY NAssumption DEF IInv, TypeOK, Closed, Named, AnswersReal, OneLoop, InOrder, AbortLasts,
       View!Had, View!Rank, View!Final, Playbooks, Phases, Final, Polls, OpenDialog,
       CanAbort, server, view, history
<1>7. OwnLog'
  BY NAssumption DEF IInv, TypeOK, Closed, Named, OneLoop, OwnLog, Playbooks, Phases, Final,
       Polls, OpenDialog, CanAbort, server, view, history
<1>8. Aborts'
  BY NAssumption DEF IInv, TypeOK, Closed, Named, OneLoop, Aborts, AbortLasts, Playbooks,
       Phases, Final, Polls, OpenDialog, CanAbort, server, view, history
<1> QED BY <1>1, <1>2, <1>3, <1>4, <1>5, <1>6, <1>7, <1>8 DEF IInv

LEMMA CancelStep ==
  ASSUME IInv, Cancel
  PROVE  IInv'
<1>1. TypeOK'
  BY NAssumption DEF IInv, TypeOK, Playbooks, Phases, Final, Polls, Cancel, server, view,
       history
<1>2. Closed'
  BY NAssumption DEF IInv, Closed, Named, TypeOK, Playbooks, Phases, Final, Polls, Cancel,
       server, view, history
<1>3. Named'
  BY NAssumption DEF IInv, TypeOK, Closed, Named, Playbooks, Phases, Final, Polls, Cancel,
       server, view, history
<1>4. AnswersReal'
  BY NAssumption DEF IInv, TypeOK, Named, AnswersReal, View!Had, View!Rank, View!Final,
       Playbooks, Phases, Final, Polls, Cancel, server, view, history
<1>5. OneLoop'
  BY NAssumption DEF IInv, TypeOK, Closed, Named, OneLoop, Playbooks, Phases, Final, Polls,
       Cancel, server, view, history
<1>6. InOrder'
  BY NAssumption DEF IInv, TypeOK, Closed, Named, AnswersReal, OneLoop, InOrder, AbortLasts,
       View!Had, View!Rank, View!Final, Playbooks, Phases, Final, Polls, Cancel, server,
       view, history
<1>7. OwnLog'
  BY NAssumption DEF IInv, TypeOK, Closed, Named, OneLoop, OwnLog, Playbooks, Phases, Final,
       Polls, Cancel, server, view, history
<1>8. Aborts'
  BY NAssumption DEF IInv, TypeOK, Closed, Named, OneLoop, Aborts, AbortLasts, Playbooks,
       Phases, Final, Polls, Cancel, server, view, history
<1> QED BY <1>1, <1>2, <1>3, <1>4, <1>5, <1>6, <1>7, <1>8 DEF IInv

LEMMA HandleAbortStep ==
  ASSUME IInv, HandleAbort
  PROVE  IInv'
<1>1. TypeOK'
  BY DEF IInv, TypeOK, Playbooks, Phases, Final, Polls, Named, HandleAbort, history
<1>2. Closed'
  BY NAssumption DEF IInv, Closed, Named, TypeOK, Playbooks, Phases, Final, Polls,
       HandleAbort, server, view, history
<1>3. Named'
  BY NAssumption DEF IInv, TypeOK, Closed, Named, Playbooks, Phases, Final, Polls,
       HandleAbort, server, view, history
<1>4. AnswersReal'
  BY NAssumption DEF IInv, TypeOK, Named, AnswersReal, View!Had, View!Rank, View!Final,
       Playbooks, Phases, Final, Polls, HandleAbort, server, view, history
<1>5. OneLoop'
  BY NAssumption DEF IInv, TypeOK, Closed, Named, OneLoop, Playbooks, Phases, Final, Polls,
       HandleAbort, server, view, history
<1>6. InOrder'
  BY NAssumption DEF IInv, TypeOK, Closed, Named, AnswersReal, OneLoop, InOrder, AbortLasts,
       View!Had, View!Rank, View!Final, Playbooks, Phases, Final, Polls, HandleAbort,
       server, view, history
<1>7. OwnLog'
  BY NAssumption DEF IInv, TypeOK, Closed, Named, OneLoop, OwnLog, Playbooks, Phases, Final,
       Polls, HandleAbort, server, view, history
<1>8. Aborts'
  BY NAssumption DEF IInv, TypeOK, Closed, Named, OneLoop, Aborts, AbortLasts, Playbooks,
       Phases, Final, Polls, HandleAbort, server, view, history
<1> QED BY <1>1, <1>2, <1>3, <1>4, <1>5, <1>6, <1>7, <1>8 DEF IInv

LEMMA AbortDoneStep ==
  ASSUME IInv, NEW p \in Playbooks, AbortDone(p)
  PROVE  IInv'
<1>1. TypeOK'
  BY NAssumption DEF IInv, TypeOK, Playbooks, Phases, Final, Polls, AbortDone, AfterAbort,
       server, view, history
<1>2. Closed'
  BY NAssumption DEF IInv, Closed, Named, TypeOK, Playbooks, Phases, Final, Polls,
       AbortDone, AfterAbort, server, view, history
<1>3. Named'
  BY NAssumption DEF IInv, TypeOK, Closed, Named, Playbooks, Phases, Final, Polls,
       AbortDone, AfterAbort, server, view, history
<1>4. AnswersReal'
  BY NAssumption DEF IInv, TypeOK, Named, AnswersReal, View!Had, View!Rank, View!Final,
       Playbooks, Phases, Final, Polls, AbortDone, AfterAbort, server, view, history
<1>5. OneLoop'
  BY NAssumption DEF IInv, TypeOK, Closed, Named, OneLoop, Playbooks, Phases, Final, Polls,
       AbortDone, AfterAbort, server, view, history
<1>6. InOrder'
  BY NAssumption DEF IInv, TypeOK, Closed, Named, AnswersReal, OneLoop, InOrder, AbortLasts,
       View!Had, View!Rank, View!Final, Playbooks, Phases, Final, Polls, AbortDone,
       AfterAbort, server, view, history
<1>7. OwnLog'
  BY NAssumption DEF IInv, TypeOK, Closed, Named, OneLoop, OwnLog, Playbooks, Phases, Final,
       Polls, AbortDone, AfterAbort, server, view, history
<1>8. Aborts'
  BY NAssumption DEF IInv, TypeOK, Closed, Named, OneLoop, Aborts, AbortLasts, Playbooks,
       Phases, Final, Polls, AbortDone, AfterAbort, server, view, history
<1> QED BY <1>1, <1>2, <1>3, <1>4, <1>5, <1>6, <1>7, <1>8 DEF IInv

LEMMA AbortFailsStep ==
  ASSUME IInv, NEW p \in Playbooks, AbortFails(p)
  PROVE  IInv'
<1>1. TypeOK'
  BY NAssumption DEF IInv, TypeOK, Playbooks, Phases, Final, Polls, AbortFails, server,
       view, history
<1>2. Closed'
  BY NAssumption DEF IInv, Closed, Named, TypeOK, Playbooks, Phases, Final, Polls,
       AbortFails, server, view, history
<1>3. Named'
  BY NAssumption DEF IInv, TypeOK, Closed, Named, Playbooks, Phases, Final, Polls,
       AbortFails, server, view, history
<1>4. AnswersReal'
  BY NAssumption DEF IInv, TypeOK, Named, AnswersReal, View!Had, View!Rank, View!Final,
       Playbooks, Phases, Final, Polls, AbortFails, server, view, history
<1>5. OneLoop'
  BY NAssumption DEF IInv, TypeOK, Closed, Named, OneLoop, Playbooks, Phases, Final, Polls,
       AbortFails, server, view, history
<1>6. InOrder'
  BY NAssumption DEF IInv, TypeOK, Closed, Named, AnswersReal, OneLoop, InOrder, AbortLasts,
       View!Had, View!Rank, View!Final, Playbooks, Phases, Final, Polls, AbortFails, server,
       view, history
<1>7. OwnLog'
  BY NAssumption DEF IInv, TypeOK, Closed, Named, OneLoop, OwnLog, Playbooks, Phases, Final,
       Polls, AbortFails, server, view, history
<1>8. Aborts'
  BY NAssumption DEF IInv, TypeOK, Closed, Named, OneLoop, Aborts, AbortLasts, Playbooks,
       Phases, Final, Polls, AbortFails, server, view, history
<1> QED BY <1>1, <1>2, <1>3, <1>4, <1>5, <1>6, <1>7, <1>8 DEF IInv

LEMMA InitHolds == Init => IInv
<1> SUFFICES ASSUME Init PROVE IInv
  OBVIOUS
<1>1. run \in [Playbooks -> Phases \cup {"None"}] /\ poll \in [Playbooks -> Polls]
  BY DEF Init, Polls
<1>2. stream \in [Playbooks -> {"Off", "Open"}] /\ log \in Seq(Playbooks)
  BY DEF Init
<1>3. playbook \in 0 .. N /\ name \in 0 .. N /\ phase \in Phases
  BY NAssumption DEF Init, Phases
<1>4. TypeOK
  BY <1>1, <1>2, <1>3 DEF Init, TypeOK
<1>5. Closed /\ Named /\ OneLoop /\ InOrder /\ Aborts
  BY DEF Init, Closed, Named, OneLoop, InOrder, Aborts, AbortLasts
<1>6. AnswersReal
  BY DEF Init, AnswersReal, Phases
<1>7. OwnLog
  BY DEF Init, OwnLog
<1> QED BY <1>4, <1>5, <1>6, <1>7 DEF IInv

LEMMA NextKeeps ==
  ASSUME IInv, [Next]_vars
  PROVE  IInv'
<1>1. CASE Server
  BY <1>1, SubmitStep, StartStep, EndStep, HandleDeleteStep DEF Server
<1>2. CASE Watch
  BY <1>2, SendPollStep, AnswerPollStep, LosePollStep, DeliverPollStep DEF Watch
<1>3. CASE Stream
  BY <1>3, ReadChunkStep, BreakStreamStep DEF Stream
<1>4. CASE User
  BY <1>4, MountStepStep, UnmountStep, SetPlaybookStep, OpenDialogStep, CancelStep,
     HandleAbortStep, MountModalStep, AbortDoneStep, AbortFailsStep DEF User
<1>5. CASE UNCHANGED vars
  BY <1>5 DEF vars, server, view, history, IInv, TypeOK, Closed, Named, AnswersReal, OneLoop,
       InOrder, OwnLog, Aborts, AbortLasts, View!Had, View!Rank, View!Final
<1> QED BY <1>1, <1>2, <1>3, <1>4, <1>5 DEF Next

\* The inductive invariant.
THEOREM Invariance == Spec => []IInv
<1>1. Init => IInv
  BY InitHolds
<1>2. IInv /\ [Next]_vars => IInv'
  BY NextKeeps
<1> QED BY <1>1, <1>2, PTL DEF Spec

\* TypeOK: every variable of the page and the server keeps its type.
THEOREM TypeCorrect == Spec => []TypeOK
<1>1. IInv => TypeOK
  BY DEF IInv
<1> QED BY <1>1, Invariance, PTL

\* ShownIsReal: a page that nobody disturbed shows a phase the playbook had,
\* and the final one when its loop has ended, though answers come late.
THEOREM ShownIsRealHolds == Spec => []ShownIsReal
<1>1. IInv => ShownIsReal
  BY DEF IInv, InOrder, OwnLog, ShownIsReal
<1> QED BY <1>1, Invariance, PTL

\* AbortLasts: what handleAbort leaves on the page, for any number of polls
\* that are under way.
THEOREM AbortLastsHolds == Spec => []AbortLasts
<1>1. IInv => AbortLasts
  BY DEF IInv, Aborts
<1> QED BY <1>1, Invariance, PTL

-----------------------------------------------------------------------------
\* The refinement: every step of a page is a step of the view or a stutter.

LEMMA ServerImplements ==
  ASSUME IInv, Server
  PROVE  [View!Next]_View!vars
<1> PICK p \in Playbooks : Submit(p) \/ Start(p) \/ End(p) \/ HandleDelete(p)
  BY DEF Server
<1>1. CASE Submit(p) \/ Start(p) \/ End(p)
  <2>1. View!Run(p)
    BY <1>1 DEF Submit, Start, End, View!Run, Mode, view, history, Final, View!Final
  <2> QED BY <2>1 DEF View!Next, View!Playbooks, Playbooks
<1>2. CASE HandleDelete(p)
  BY <1>2 DEF HandleDelete, View!vars, Mode, view, history
<1> QED BY <1>1, <1>2

LEMMA WatchImplements ==
  ASSUME IInv, Watch
  PROVE  [View!Next]_View!vars
<1> PICK p \in Playbooks : SendPoll(p) \/ AnswerPoll(p) \/ LosePoll(p) \/ DeliverPoll(p)
  BY DEF Watch
<1>1. CASE SendPoll(p) \/ AnswerPoll(p) \/ LosePoll(p)
  BY <1>1 DEF SendPoll, AnswerPoll, LosePoll, View!vars, Mode, server, history
<1>2. CASE DeliverPoll(p)
  <2>1. /\ phase' = poll[p] /\ phase' \in Phases /\ View!Had(p, phase')
        /\ UNCHANGED <<run, name, kind, aborted, switched>>
    BY <1>2 DEF DeliverPoll, IInv, AnswersReal, server
  <2>2. kind # "None"
    BY <1>2 DEF DeliverPoll, IInv, Closed, Phases
  <2>3. ~switched => p = name
    BY <1>2 DEF DeliverPoll, IInv, OneLoop, Phases
  <2>4. CASE switched
    <3>1. Mode = "mixed" /\ Mode' = Mode
      BY <2>1, <2>2, <2>4 DEF Mode
    <3>2. View!LookMixed
      BY <2>1, <3>1 DEF View!LookMixed, View!Phases, View!Playbooks, Phases, Playbooks
    <3> QED BY <3>2 DEF View!Next
  <2>5. CASE ~switched /\ aborted # {}
    <3>1. Mode = "aborted" /\ Mode' = Mode
      BY <2>1, <2>2, <2>5 DEF Mode
    <3>2. View!LookBack
      BY <2>1, <2>3, <2>5, <3>1 DEF View!LookBack, View!Phases, Phases
    <3> QED BY <3>2 DEF View!Next
  <2>6. CASE ~switched /\ aborted = {}
    <3>1. Mode = "live" /\ Mode' = Mode
      BY <2>1, <2>2, <2>6 DEF Mode
    <3>2. View!Rank(phase) <= View!Rank(phase')
      BY <2>1, <2>2, <2>3, <2>6 DEF IInv, InOrder
    <3>3. View!Look
      BY <2>1, <2>3, <2>6, <3>1, <3>2 DEF View!Look, View!Phases, Phases
    <3> QED BY <3>3 DEF View!Next
  <2> QED BY <2>4, <2>5, <2>6
<1> QED BY <1>1, <1>2

LEMMA StreamImplements ==
  ASSUME IInv, Stream
  PROVE  [View!Next]_View!vars
  BY DEF Stream, ReadChunk, BreakStream, View!vars, Mode, server, history

LEMMA UserImplements ==
  ASSUME IInv, User
  PROVE  [View!Next]_View!vars
<1>1. CASE MountStep
  <2>1. View!Open(playbook) /\ playbook \in View!Playbooks
    BY <1>1, NAssumption DEF MountStep, MountAs, StartEffect, FirstPhase, View!Open, Mode, IInv,
         TypeOK, Named, Closed, server, history, View!Playbooks
  <2> QED BY <2>1 DEF View!Next
<1>2. ASSUME NEW p \in Playbooks, MountModal(p)
      PROVE  View!Next
  <2>1. View!Open(p)
    BY <1>2 DEF MountModal, MountAs, StartEffect, FirstPhase, View!Open, Mode, IInv, Closed,
         server, history
  <2> QED BY <2>1 DEF View!Next, View!Playbooks, Playbooks
<1>3. CASE Unmount
  <2>1. View!Close
    BY <1>3 DEF Unmount, FirstPhase, View!Close, Mode, server
  <2> QED BY <2>1 DEF View!Next
<1>4. CASE SetPlaybook /\ kind = "step"
  <2>1. View!Replace(playbook + 1)
    BY <1>4 DEF SetPlaybook, StartEffect, View!Replace, Mode, server
  <2>2. playbook + 1 \in View!Playbooks
    BY <1>4, NAssumption DEF SetPlaybook, View!Playbooks, IInv, TypeOK
  <2> QED BY <2>1, <2>2 DEF View!Next
<1>5. CASE SetPlaybook /\ kind # "step"
  BY <1>5 DEF SetPlaybook, View!vars, Mode, server, view, history
<1>6. CASE OpenDialog \/ Cancel \/ HandleAbort
  BY <1>6 DEF OpenDialog, Cancel, HandleAbort, View!vars, Mode, server, history
<1>7. ASSUME NEW p \in Playbooks, AbortDone(p)
      PROVE  View!Next
  <2>1. View!Abort
    BY <1>7 DEF AbortDone, AfterAbort, View!Abort, Mode, IInv, Closed, server
  <2> QED BY <2>1 DEF View!Next
<1>8. ASSUME NEW p \in Playbooks, AbortFails(p)
      PROVE  UNCHANGED View!vars
  BY <1>8 DEF AbortFails, View!vars, Mode, history
<1> QED BY <1>1, <1>2, <1>3, <1>4, <1>5, <1>6, <1>7, <1>8 DEF User

\* ImplementsView: polling, with answers that come late and in any order, is a
\* view that only goes forward as long as nobody disturbs it.
THEOREM ImplementsViewHolds == Spec => ImplementsView
<1>1. Init => View!Init
  BY DEF Init, View!Init, Mode, Playbooks, View!Playbooks
<1>2. IInv /\ [Next]_vars => [View!Next]_View!vars
  <2>1. CASE UNCHANGED vars
    BY <2>1 DEF vars, server, view, history, View!vars, Mode
  <2> QED BY <2>1, ServerImplements, WatchImplements, StreamImplements, UserImplements DEF Next
<1> QED BY <1>1, <1>2, Invariance, PTL DEF Spec, View!Spec, ImplementsView
=============================================================================
