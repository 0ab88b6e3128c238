-------------------------- MODULE InstallProgress --------------------------
(***************************************************************************)
(* The pages that follow a playbook: InstallStep (the third step of the    *)
(* wizard) and PlaybookLogModal of src/web-installer/app.jsx, over         *)
(* watchPlaybook and streamPlaybookLog of components/api.jsx, and the      *)
(* server as they see it.  Both mount one effect that polls the phase and  *)
(* streams the log; only InstallStep has a button that aborts, and only    *)
(* InstallStep stays mounted when App sets another playbook.               *)
(*                                                                         *)
(* A poll is a request, an answer and its delivery, each a step: the       *)
(* effect's AbortController stops the loop at its head and the stream, but *)
(* does not reach a getPlaybook that is under way.                         *)
(***************************************************************************)
EXTENDS Naturals, Sequences, FiniteSets

CONSTANTS N,                     \* bound: playbooks, numbered as they are created
          MaxDeleted,            \* bound: playbooks that are aborted
          MaxLines               \* bound: lines of one log that are shown

ASSUME NAssumption == N \in Nat
ASSUME LinesAssumption == MaxLines \in Nat

Playbooks == 1 .. N
Phases == {"Pending", "Running", "Succeeded", "Failed"}
Final == {"Succeeded", "Failed"}

VARIABLES
  \* the server
  run,         \* run[p]: the phase of p, "None" before it is created
  gone,        \* the playbooks that were deleted
  requested,   \* DELETE requests the server has not handled yet
  \* App
  playbook,    \* what App set last, 0 for null
  \* the mounted view
  kind,        \* "None", "step" (InstallStep) or "modal" (PlaybookLogModal)
  name, phase, log, dialog,
  poll,        \* poll[p]: where the loop of watchPlaybook is for p
  stream,      \* stream[p]: where streamPlaybookLog is for p
  aborting,    \* the playbooks with a handleAbort that awaits deletePlaybook
  \* history of the mounted view; no guard reads it
  aborted,     \* the playbooks whose handleAbort succeeded
  switched,    \* App set another playbook
  late         \* the answer of a poll was delivered after an abort

server == <<run, gone, requested>>
history == <<aborted, switched, late>>
view == <<kind, name, phase, log, dialog, poll, stream, aborting, history>>
vars == <<server, playbook, view>>

\* "Due": at the loop head; "Sent": the request is under way; a phase: that
\* answer is on its way back.
Polls == {"Off", "Due", "Sent"} \cup Phases

TypeOK ==
  /\ run \in [Playbooks -> Phases \cup {"None"}]
  /\ gone \subseteq Playbooks /\ requested \subseteq Playbooks
  /\ playbook \in 0 .. N
  /\ kind \in {"None", "step", "modal"}
  /\ name \in 0 .. N /\ phase \in Phases /\ log \in Seq(Playbooks)
  /\ dialog \in BOOLEAN
  /\ poll \in [Playbooks -> Polls]
  /\ stream \in [Playbooks -> {"Off", "Open"}]
  /\ aborting \subseteq Playbooks /\ aborted \subseteq Playbooks
  /\ switched \in BOOLEAN /\ late \in BOOLEAN

Init ==
  /\ run = [p \in Playbooks |-> "None"]
  /\ gone = {} /\ requested = {} /\ playbook = 0
  /\ kind = "None" /\ name = 0 /\ phase = "Pending" /\ log = << >>
  /\ dialog = FALSE
  /\ poll = [p \in Playbooks |-> "Off"] /\ stream = [p \in Playbooks |-> "Off"]
  /\ aborting = {} /\ aborted = {} /\ switched = FALSE /\ late = FALSE

-----------------------------------------------------------------------------
\* The server, as far as the pages see it.

\* createPlaybook of App's goNext is handled.
Submit(p) == /\ run[p] = "None"
             /\ \A q \in Playbooks : q < p => run[q] # "None"
             /\ run' = [run EXCEPT ![p] = "Pending"]
             /\ UNCHANGED <<gone, requested, playbook, view>>

Start(p) == /\ run[p] = "Pending" /\ p \notin gone
            /\ run' = [run EXCEPT ![p] = "Running"]
            /\ UNCHANGED <<gone, requested, playbook, view>>

End(p) == /\ run[p] = "Running" /\ p \notin gone
          /\ \E q \in Final : run' = [run EXCEPT ![p] = q]
          /\ UNCHANGED <<gone, requested, playbook, view>>

\* DELETE stops the run and removes the playbook and its log file; a playbook
\* that is gone already is success, too.
HandleDelete(p) == /\ p \in requested
                   /\ requested' = requested \ {p}
                   /\ gone' = gone \cup {p}
                   /\ UNCHANGED <<run, playbook, view>>

-----------------------------------------------------------------------------
\* Mounting, and what App does to a mounted view.

\* Mutant: the page starts with what it expects.
FirstPhaseRunning == "Running"

FirstPhase == "Pending"

\* The body of the effect: one loop of watchPlaybook, one streamPlaybookLog.
StartEffect(p) == /\ poll' = [poll EXCEPT ![p] = "Sent"]
                  /\ stream' = [q \in Playbooks |-> IF q = p THEN "Open" ELSE "Off"]

MountAs(k, p) == /\ kind = "None"
                 /\ kind' = k /\ name' = p /\ phase' = FirstPhase
                 /\ StartEffect(p)
                 /\ UNCHANGED <<server, playbook, log, dialog, aborting, history>>

MountStep == playbook # 0 /\ MountAs("step", playbook)

\* RecentPlaybooks opens the log of any playbook the server has listed.
MountModal(p) == run[p] # "None" /\ MountAs("modal", p)

\* The view is closed, or App goes to another step.  What its loops and calls
\* still deliver goes to a component that is not there any more.
Unmount == /\ kind # "None"
           /\ kind' = "None" /\ name' = 0 /\ phase' = FirstPhase /\ log' = << >>
           /\ dialog' = FALSE
           /\ poll' = [p \in Playbooks |-> "Off"]
           /\ stream' = [p \in Playbooks |-> "Off"]
           /\ aborting' = {} /\ aborted' = {} /\ switched' = FALSE /\ late' = FALSE
           /\ UNCHANGED <<server, playbook>>

\* goNext got its answer: App sets the new playbook.  An InstallStep that is
\* mounted gets another name: its effect is cleaned up and starts again, its
\* state stays.
SetPlaybook ==
  /\ playbook < N /\ run[playbook + 1] # "None"
  /\ playbook' = playbook + 1
  /\ IF kind = "step"
       THEN /\ name' = playbook + 1 /\ switched' = TRUE
            /\ StartEffect(playbook + 1)
            /\ UNCHANGED <<kind, phase, log, dialog, aborting, aborted, late>>
       ELSE UNCHANGED view
  /\ UNCHANGED server

-----------------------------------------------------------------------------
\* watchPlaybook

\* signal.aborted of the loop of p: its effect was cleaned up.
Signalled(p) == name # p

SendPoll(p) == /\ poll[p] = "Due"
               /\ poll' = [poll EXCEPT ![p] = IF Signalled(p) THEN "Off" ELSE "Sent"]
               /\ UNCHANGED <<server, playbook, kind, name, phase, log, dialog, stream,
                              aborting, history>>

AnswerPoll(p) == /\ poll[p] = "Sent" /\ p \notin gone
                 /\ poll' = [poll EXCEPT ![p] = run[p]]
                 /\ UNCHANGED <<server, playbook, kind, name, phase, log, dialog, stream,
                                aborting, history>>

\* Mutant: an error ends the loop.
LosePollEnds(p) == /\ poll[p] = "Sent"
                   /\ poll' = [poll EXCEPT ![p] = "Off"]
                   /\ UNCHANGED <<server, playbook, kind, name, phase, log, dialog, stream,
                                  aborting, history>>

\* The network fails, or the server, which it does for a playbook that is gone:
\* the catch of the loop.  An answer without a phase, from a file that is being
\* written, has the same effect.
LosePoll(p) == /\ poll[p] = "Sent"
               /\ poll' = [poll EXCEPT ![p] = IF Signalled(p) THEN "Off" ELSE "Due"]
               /\ UNCHANGED <<server, playbook, kind, name, phase, log, dialog, stream,
                              aborting, history>>

\* Mutant: the loop ends as soon as the playbook runs.
AfterAnswerStops(q) == IF q = "Pending" THEN "Due" ELSE "Off"

AfterAnswer(q) == IF q \in Final THEN "Off" ELSE "Due"

\* onUpdate: the signal is not looked at before it.
DeliverPoll(p) == /\ poll[p] \in Phases
                  /\ phase' = poll[p]
                  /\ poll' = [poll EXCEPT ![p] = AfterAnswer(poll[p])]
                  /\ late' = (late \/ aborted # {})
                  /\ UNCHANGED <<server, playbook, kind, name, log, dialog, stream, aborting,
                                 aborted, switched>>

-----------------------------------------------------------------------------
\* streamPlaybookLog

LinesOf(p) == Len(SelectSeq(log, LAMBDA q : q = p))

\* The server finds the playbook and its log file, which the goroutine of the
\* run opens before it starts.
ReadChunk(p) == /\ stream[p] = "Open" /\ LinesOf(p) < MaxLines
                /\ LinesOf(p) = 0 => run[p] # "Pending" /\ p \notin gone
                /\ log' = Append(log, p)
                /\ UNCHANGED <<server, playbook, kind, name, phase, dialog, poll, stream,
                               aborting, history>>

\* The connection breaks, or the server answers with an error, which it does
\* for a playbook that is gone and when it is asked before the log file is
\* there.  Nothing asks again.
BreakStream(p) == /\ stream[p] # "Off"
                  /\ stream' = [stream EXCEPT ![p] = "Off"]
                  /\ UNCHANGED <<server, playbook, kind, name, phase, log, dialog, poll,
                                 aborting, history>>

-----------------------------------------------------------------------------
\* The abort button of InstallStep

CanAbort == kind = "step" /\ phase = "Running"

OpenDialog == /\ CanAbort /\ ~dialog
              /\ dialog' = TRUE
              /\ UNCHANGED <<server, playbook, kind, name, phase, log, poll, stream, aborting,
                             history>>

Cancel == /\ dialog
          /\ dialog' = FALSE
          /\ UNCHANGED <<server, playbook, kind, name, phase, log, poll, stream, aborting,
                         history>>

\* Bounds: one handleAbort per playbook at a time, and MaxDeleted playbooks.
HandleAbort == /\ dialog /\ name \notin aborting
               /\ Cardinality(gone \cup requested \cup {name}) <= MaxDeleted
               /\ dialog' = FALSE
               /\ requested' = requested \cup {name}
               /\ aborting' = aborting \cup {name}
               /\ UNCHANGED <<run, gone, playbook, kind, name, phase, log, poll,
                              stream, history>>

\* Mutant: handleAbort leaves the phase to the polls.
AfterAbortForgotten == phase

AfterAbort == "Failed"

\* deletePlaybook returns.
AbortDone(p) == /\ p \in aborting /\ p \notin requested
                /\ aborting' = aborting \ {p}
                /\ phase' = AfterAbort
                /\ aborted' = aborted \cup {p}
                /\ UNCHANGED <<server, playbook, kind, name, log, dialog, poll, stream,
                               switched, late>>

\* deletePlaybook throws: the request is lost, or only its answer.
AbortFails(p) == /\ p \in aborting
                 /\ aborting' = aborting \ {p}
                 /\ requested' \in {requested, requested \ {p}}
                 /\ UNCHANGED <<run, gone, playbook, kind, name, phase, log,
                                dialog, poll, stream, history>>

-----------------------------------------------------------------------------
Server == \E p \in Playbooks : \/ Submit(p) \/ Start(p)
                               \/ End(p) \/ HandleDelete(p)
Watch == \E p \in Playbooks : \/ SendPoll(p) \/ AnswerPoll(p) \/ LosePoll(p)
                              \/ DeliverPoll(p)
Stream == \E p \in Playbooks : ReadChunk(p) \/ BreakStream(p)
User == \/ MountStep \/ Unmount \/ SetPlaybook \/ OpenDialog \/ Cancel \/ HandleAbort
        \/ \E p \in Playbooks : MountModal(p) \/ AbortDone(p) \/ AbortFails(p)

Next == Server \/ Watch \/ Stream \/ User

\* Timers and promises run, every request comes to an end, and a server that
\* is asked again and again answers.
Fairness == \A p \in Playbooks : /\ WF_vars(SendPoll(p)) /\ WF_vars(LosePoll(p))
                                 /\ SF_vars(AnswerPoll(p))
                                 /\ WF_vars(DeliverPoll(p))

Spec == Init /\ [][Next]_vars
FairSpec == Spec /\ Fairness

-----------------------------------------------------------------------------
\* What a view promises, whatever the polls do.
Mode == IF kind = "None" THEN "closed"
        ELSE IF switched THEN "mixed"
        ELSE IF aborted # {} THEN "aborted" ELSE "live"

View == INSTANCE RunView WITH mode <- Mode

\* Polling with answers that come late implements a view that goes forward
\* through phases the playbook really had, as long as it is undisturbed.
ImplementsView == View!Spec

\* "Succeeded" offers the next step and "Running" the abort: on a page that
\* nobody disturbed the phase is one the playbook had, and when the loop has
\* ended it is the final one; the log is that of the playbook.
ShownIsReal ==
  (kind # "None" /\ ~switched /\ aborted = {}) =>
    /\ View!Had(name, phase)
    /\ poll[name] = "Off" => phase = run[name] /\ phase \in Final
    /\ log \in Seq({name})

\* A deletion that succeeded was one of the playbook on the page, and after it
\* the page says Failed, though watchPlaybook goes on: only a poll that was
\* answered before the deletion can take that back.
AbortLasts ==
  ~switched =>
    /\ aborted \subseteq gone \cap {name} /\ aborting \subseteq {name}
    /\ (aborted # {} /\ ~late) => phase = "Failed"

\* Unless it is closed, or gets another playbook, or the playbook is deleted,
\* a page sooner or later shows how the playbook ended.  (After a change of
\* the playbook the loop of the old one may have the last word.)
EndIsShown ==
  \A p \in Playbooks :
    (name = p /\ ~switched /\ run[p] \in Final)
      ~> (name # p \/ switched \/ p \in gone \/ phase = run[p])

\* What the confirmation of the abort says: it ends the installation.
AbortSticks == (aborted # {} /\ ~switched) => phase = "Failed"
=============================================================================
