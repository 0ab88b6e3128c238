--------------------------- MODULE InstallWizard ---------------------------
(***************************************************************************)
(* The steps of the installer: App of src/web-installer/app.jsx with the   *)
(* configuration form (components/cluster-form.jsx), the shared schemas    *)
(* (components/schemas-store.jsx), the preview (install-preview.jsx), what *)
(* localStorage keeps for them, and what of it the API server gets.        *)
(*                                                                         *)
(* The values of the form are a number: the one of the edit that made them *)
(* what they are, 0 for the defaults.  A component is there while its step *)
(* is shown; the answers to its calls come when they come.                 *)
(***************************************************************************)
EXTENDS Naturals, Sequences

CONSTANTS
  None,
  Garbage,              \* what is no configuration: the answer of the API server
                        \* when it has none
  MaxCalls, MaxGets,    \* bounds: calls of goNext and of getSchemaConfig at a time
  MaxEdits, MaxMoves, MaxInstalls, MaxFaults      \* bounds

ASSUME WizardAssumption == /\ {MaxCalls, MaxGets, MaxEdits, MaxMoves, MaxInstalls, MaxFaults}
                                \subseteq Nat
                           /\ None \notin Nat /\ Garbage \notin Nat /\ Garbage # None

Calls == 1 .. MaxCalls
Gets == 1 .. MaxGets
Values == 0 .. MaxEdits
Configs == Values \cup {None, Garbage}

VARIABLES
  \* App
  step, installing,
  playbook,             \* the playbook the page installs, an index of created, or None
  next,                 \* next[c]: a call of goNext: what it waits for, and the
                        \* configuration that it sends
  \* ClusterForm
  form,                 \* [loading, values, timer], or None when it is not there
  saveRef,              \* valuesMap of the saveConfig that clusterSaveRef holds
  gets,                 \* gets[g]: a call of getSchemaConfig; `own' if the form that
                        \* made it is still there
  cancelled,            \* effects of forms that are gone, waiting for the schemas
  \* the other components and the browser
  preview,              \* InstallPreview: "gone", "loading" or "shown", and what it shows
  schemas,              \* the promise of loadSchemas: "None", "Real" or "Fallback"
  local,                \* localStorage.kkSchemaConfig
  \* the API server
  file,                 \* config.json is there
  posting,              \* saveSchemaConfig of the autosave is under way
  created,              \* the configurations of the install playbooks
  \* bounds
  edits, moves, faults,
  \* history; no guard reads it
  want,                 \* what the form showed at Next, while nothing came in between
  late,                 \* localStorage changed after the preview read it
  jumped                \* the side bar was used

app == <<step, installing, playbook>>
browser == <<schemas, local>>
server == <<file, posting>>
bounds == <<edits, moves, faults>>
history == <<want, late, jumped>>
vars == <<app, next, form, saveRef, gets, cancelled, preview, browser, server, created,
          bounds, history>>

\* A new call takes the first place that is free.
FirstFree(calls, no, c) == calls[c] = no /\ \A d \in DOMAIN calls : d < c => calls[d] # no

\* How saveSchemaConfig of goNext may end: well, with 422 as the checks of the
\* configuration failed, or otherwise.
Replies == {"Saved", "PrecheckFailed", "SaveFailed"}

NoCall == [pc |-> "Off", cfg |-> None]
NoGet == [at |-> "Off", own |-> FALSE]
Loading == [loading |-> TRUE, values |-> 0, timer |-> FALSE]
NoForm == [loading |-> FALSE, values |-> 0, timer |-> FALSE]
NoPreview(at) == [at |-> at, cfg |-> None]
FormLoaded == step = 0 /\ ~form.loading

TypeOK ==
  /\ step \in 0 .. 3 /\ installing \in BOOLEAN
  /\ playbook = None \/ playbook \in DOMAIN created
  /\ next \in [Calls -> [pc : {"Off", "SaveNodes", "SaveConfig", "SaveNodesAgain", "Create"} \cup Replies,
                         cfg : Configs]]
  /\ form \in [loading : BOOLEAN, values : Values, timer : BOOLEAN]
  /\ saveRef \in Values \cup {None}
  /\ gets \in [Gets -> [at : {"Off", "Asked", "Garbage"}, own : BOOLEAN]]
  /\ preview \in [at : {"gone", "loading", "shown"}, cfg : Configs]
  /\ schemas \in {"None", "Real", "Fallback"}
  /\ local \in Configs /\ created \in Seq(Configs)
  /\ file \in BOOLEAN /\ posting \in BOOLEAN

Init ==
  /\ step = 0 /\ installing = FALSE /\ playbook = None
  /\ next = [c \in Calls |-> NoCall]
  /\ form = Loading /\ saveRef = None /\ gets = [g \in Gets |-> NoGet] /\ cancelled = 0
  /\ preview = NoPreview("gone") /\ schemas = "None"
  /\ local \in {None, 0} /\ file \in BOOLEAN /\ posting = FALSE /\ created = << >>
  /\ edits = 0 /\ moves = 0 /\ faults = 0
  /\ want = None /\ late = FALSE /\ jumped = FALSE

-----------------------------------------------------------------------------
\* Showing a step.

Moves == moves < MaxMoves /\ moves' = moves + 1 /\ UNCHANGED <<edits, faults>>
Fails == faults < MaxFaults /\ faults' = faults + 1 /\ UNCHANGED <<edits, moves>>

\* The form comes with step 0 and goes with it: its timer is cleared, its
\* effect cancelled, and its calls go on without it.
ShowForm(s) ==
  /\ form' = IF s # 0 THEN NoForm ELSE IF step # 0 THEN Loading ELSE form
  /\ saveRef' = IF s = 0 /\ step # 0 THEN None ELSE saveRef
  /\ cancelled' = IF s # 0 /\ step = 0 /\ form.loading THEN cancelled + 1 ELSE cancelled
  /\ gets' = IF s # 0 THEN [g \in Gets |-> [gets[g] EXCEPT !.own = FALSE]] ELSE gets

ShowPreview(s) ==
  preview' = IF s # 1 THEN NoPreview("gone")
             ELSE IF step # 1 THEN NoPreview("loading") ELSE preview

SetStep(s) == step' = s /\ ShowForm(s) /\ ShowPreview(s)

\* A click on the side bar, whatever is going on.
SelectStep(s) ==
  /\ Moves /\ s # step
  /\ SetStep(s)
  /\ want' = None /\ jumped' = TRUE
  /\ UNCHANGED <<installing, playbook, next, browser, server, created, late>>

\* It is offered while goNext waits, too.
GoPrev ==
  /\ Moves /\ step \in {1, 3}
  /\ SetStep(step - 1)
  /\ want' = None
  /\ UNCHANGED <<installing, playbook, next, browser, server, created, late, jumped>>

\* InstallStep says that the installation is over.
OnDone ==
  /\ step = 2 /\ playbook # None
  /\ SetStep(3)
  /\ UNCHANGED <<installing, playbook, next, browser, server, created, bounds, history>>

-----------------------------------------------------------------------------
\* The schemas and the form.

\* loadSchemas answers once for all; when the server fails, with the schema of
\* the page, which names no playbook.
LoadSchemas ==
  /\ schemas = "None"
  /\ \/ schemas' = "Real" /\ UNCHANGED bounds
     \/ schemas' = "Fallback" /\ Fails
  /\ UNCHANGED <<app, next, form, saveRef, gets, cancelled, preview, local, server, created,
                 history>>

\* The effect of the form: what localStorage has is shown, or the defaults; and
\* getSchemaConfig is called.
FormLoads(g) ==
  /\ step = 0 /\ form.loading /\ schemas # "None"
  /\ LET values == IF local \in Values THEN local ELSE 0
     IN  form' = [loading |-> FALSE, values |-> values, timer |-> TRUE] /\ saveRef' = values
  /\ FirstFree(gets, NoGet, g) /\ gets' = [gets EXCEPT ![g] = [at |-> "Asked", own |-> TRUE]]
  /\ UNCHANGED <<app, next, cancelled, preview, browser, server, created, bounds, history>>

\* The effect of a form that is gone calls it all the same.
CancelledLoads(g) ==
  /\ cancelled > 0 /\ schemas # "None"
  /\ cancelled' = cancelled - 1
  /\ FirstFree(gets, NoGet, g) /\ gets' = [gets EXCEPT ![g] = [at |-> "Asked", own |-> FALSE]]
  /\ UNCHANGED <<app, next, form, saveRef, preview, browser, server, created, bounds, history>>

\* config.json comes as a text, which nothing looks at; without it there is an
\* object, which is none of the schemas.
AnswerGet(g) ==
  /\ gets[g].at = "Asked"
  /\ gets' = [gets EXCEPT ![g] = IF file THEN NoGet ELSE [@ EXCEPT !.at = "Garbage"]]
  /\ UNCHANGED <<app, next, form, saveRef, cancelled, preview, browser, server, created,
                 bounds, history>>

\* Any object goes to localStorage.  The form keeps its values, as a new map.
DeliverGet(g) ==
  /\ gets[g].at = "Garbage"
  /\ local' = Garbage
  /\ form' = IF gets[g].own THEN [form EXCEPT !.timer = TRUE] ELSE form
  /\ gets' = [gets EXCEPT ![g] = NoGet]
  /\ want' = None /\ late' = TRUE
  /\ UNCHANGED <<app, next, saveRef, cancelled, preview, schemas, server, created, bounds, jumped>>

\* onFieldChange and onYamlChange.  An edit during the save of goNext is not
\* part of it.
Edit ==
  /\ FormLoaded
  /\ edits < MaxEdits /\ edits' = edits + 1
  /\ form' = [form EXCEPT !.values = edits + 1, !.timer = TRUE]
  /\ saveRef' = edits + 1
  /\ want' = IF want # None /\ \A c \in Calls : next[c].pc \notin {"SaveConfig"} \cup Replies THEN edits + 1
             ELSE None
  /\ UNCHANGED <<app, next, gets, cancelled, preview, browser, server, created, moves, faults,
                 late, jumped>>

\* The timer of the autosave.
FireTimer ==
  /\ FormLoaded /\ form.timer
  /\ form' = [form EXCEPT !.timer = FALSE]
  /\ local' = form.values /\ posting' = TRUE
  /\ UNCHANGED <<app, next, saveRef, gets, cancelled, preview, schemas, file, created, bounds,
                 history>>

\* saveSchemaConfig writes config.json, also when the checks fail.
AutosaveEnds ==
  /\ posting /\ posting' = FALSE
  /\ \/ file' = TRUE /\ UNCHANGED bounds
     \/ Fails /\ UNCHANGED file
  /\ UNCHANGED <<app, next, form, saveRef, gets, cancelled, preview, browser, created, history>>

\* InstallPreview asks the server first, finds no schema in its answer, and
\* shows what localStorage has by then.
PreviewLoads ==
  /\ step = 1 /\ preview.at = "loading" /\ schemas # "None"
  /\ preview' = [at |-> "shown", cfg |-> local] /\ late' = FALSE
  /\ UNCHANGED <<app, next, form, saveRef, gets, cancelled, browser, server, created, bounds,
                 want, jumped>>

-----------------------------------------------------------------------------
\* goNext.

\* Next is offered at the first two steps, unless goNext is at work.  A form that
\* clusterValidateRef refuses leaves everything as it is.
GoNext(c) ==
  /\ step \in {0, 1} /\ ~installing
  /\ FirstFree(next, NoCall, c) /\ (step = 1 => Len(created) < MaxInstalls)
  /\ installing' = TRUE
  /\ next' = [next EXCEPT ![c].pc = IF step = 0 THEN "SaveNodes" ELSE "SaveNodesAgain"]
  /\ want' = IF step = 1 THEN want ELSE IF FormLoaded THEN form.values ELSE None
  /\ UNCHANGED <<step, playbook, form, saveRef, gets, cancelled, preview, browser, server,
                 created, bounds, late, jumped>>

\* Mutant: an error leaves the button disabled.
ReturnsOnlyWell(c) ==
  /\ next' = [next EXCEPT ![c] = NoCall]
  /\ installing' = (next[c].pc = "SaveNodesAgain")

\* finally
Returns(c) == installing' = FALSE /\ next' = [next EXCEPT ![c] = NoCall]

\* The step after the one that is shown now.
Advance(c) ==
  /\ Returns(c) /\ SetStep(IF step = 3 THEN 3 ELSE step + 1)
  /\ UNCHANGED <<playbook, schemas, posting, created, late, jumped>>

\* Mutant: the values of the render before.
SavesStale == IF saveRef \in Values /\ saveRef > 0 THEN saveRef - 1 ELSE saveRef

\* clusterSaveRef.current(): values, or None while the form is loading.
Saves == saveRef

\* Mutant: Next is enabled again once the nodes are saved.
NodesSavedEnables(c) ==
  /\ next[c].pc = "SaveNodes"
  /\ IF Saves = None
       THEN Advance(c) /\ UNCHANGED <<local, file, bounds, want>>
       ELSE /\ local' = Saves
            /\ next' = [next EXCEPT ![c].pc = "SaveConfig"] /\ installing' = FALSE
            /\ UNCHANGED <<step, playbook, form, saveRef, gets, cancelled, preview, schemas,
                           server, created, bounds, history>>

\* The nodes are saved; the configuration is next: localStorage at once, then
\* the server.
NodesSaved(c) ==
  /\ next[c].pc = "SaveNodes"
  /\ IF Saves = None
       THEN Advance(c) /\ UNCHANGED <<local, file, bounds, want>>
       ELSE /\ local' = Saves
            /\ next' = [next EXCEPT ![c].pc = "SaveConfig"]
            /\ UNCHANGED <<app, form, saveRef, gets, cancelled, preview, schemas, server,
                           created, bounds, history>>

\* If they cannot be saved, goNext goes on without saving the configuration.
NodesFail(c) ==
  /\ Fails
  /\ next[c].pc = "SaveNodes"
  /\ Advance(c)
  /\ want' = None
  /\ UNCHANGED <<local, file>>

\* config.json is written also when the checks fail.
ConfigSaved(c) ==
  /\ next[c].pc = "SaveConfig"
  /\ \/ /\ \E reply \in {"Saved", "PrecheckFailed"} : next' = [next EXCEPT ![c].pc = reply]
        /\ file' = TRUE /\ UNCHANGED bounds
     \/ /\ next' = [next EXCEPT ![c].pc = "SaveFailed"]
        /\ Fails /\ UNCHANGED file
  /\ UNCHANGED <<app, form, saveRef, gets, cancelled, preview, browser, posting, created, history>>

\* request throws an Error that has a message, but no status.
StatusOf(reply) == None

\* goNext stays only on an error with the status 422.
ConfigAnswered(c) ==
  /\ next[c].pc \in Replies
  /\ Returns(c)
  /\ SetStep(IF next[c].pc # "Saved" /\ StatusOf(next[c].pc) = 422 THEN step
             ELSE IF step = 3 THEN 3 ELSE step + 1)
  /\ UNCHANGED <<playbook, browser, server, created, bounds, history>>

\* Mutant: what the form had last, whatever was saved.
ConfigToSendRef == saveRef

\* The first schema's configuration of localStorage.
ConfigToSend == local

NothingInstalled ==
  UNCHANGED <<step, playbook, form, saveRef, gets, cancelled, preview, browser, server, created,
              history>>

\* With the schemas loaded, the playbook is asked for; the fallback has none.
AskCreate(c) ==
  /\ next[c].pc = "SaveNodesAgain" /\ schemas # "None"
  /\ IF schemas = "Real"
       THEN next' = [next EXCEPT ![c] = [pc |-> "Create", cfg |-> ConfigToSend]]
            /\ UNCHANGED installing
       ELSE Returns(c)
  /\ NothingInstalled /\ UNCHANGED bounds

\* Mutant: no return after the error.
InstallFailsAdvances(c) ==
  /\ Fails
  /\ next[c].pc \in {"SaveNodesAgain", "Create"}
  /\ Returns(c) /\ SetStep(IF step = 3 THEN 3 ELSE step + 1)
  /\ UNCHANGED <<playbook, browser, server, created, history>>

\* A call of saveNodesToInventory or createPlaybook fails: an error is shown.
InstallFails(c) ==
  /\ Fails
  /\ next[c].pc \in {"SaveNodesAgain", "Create"}
  /\ Returns(c) /\ NothingInstalled

\* The server creates the playbook; its answer shows it, or gets lost.
Create(c) ==
  /\ next[c].pc = "Create"
  /\ created' = Append(created, next[c].cfg)
  /\ Returns(c)
  /\ \/ /\ playbook' = Len(created') /\ SetStep(2)
        /\ UNCHANGED bounds
     \/ /\ Fails
        /\ UNCHANGED <<playbook, step, form, saveRef, gets, cancelled, preview>>
  /\ UNCHANGED <<browser, server, history>>

\* The page is loaded anew; what the server got it goes on with.
Reload ==
  /\ Moves
  /\ step' = 0 /\ installing' = FALSE /\ playbook' = None
  /\ next' = [c \in Calls |-> NoCall]
  /\ form' = Loading /\ saveRef' = None /\ gets' = [g \in Gets |-> NoGet] /\ cancelled' = 0
  /\ preview' = NoPreview("gone") /\ schemas' = "None"
  /\ \/ UNCHANGED created
     \/ \E c \in Calls : /\ next[c].pc = "Create"
                         /\ created' = Append(created, next[c].cfg)
  /\ want' = None /\ late' = FALSE /\ jumped' = FALSE
  /\ UNCHANGED <<local, server>>

User == \/ GoPrev \/ OnDone \/ Edit \/ Reload
        \/ \E s \in 0 .. 3 : SelectStep(s)
        \/ \E c \in Calls : GoNext(c)

Component == \/ LoadSchemas \/ FireTimer \/ AutosaveEnds \/ PreviewLoads
             \/ \E g \in Gets : FormLoads(g) \/ CancelledLoads(g) \/ AnswerGet(g) \/ DeliverGet(g)

Goes(c) == \/ NodesSaved(c) \/ NodesFail(c) \/ ConfigSaved(c) \/ ConfigAnswered(c)
           \/ AskCreate(c) \/ InstallFails(c) \/ Create(c)

Next == User \/ Component \/ \E c \in Calls : Goes(c)

Spec == Init /\ [][Next]_vars

\* Calls come to an end.
FairSpec == Spec /\ WF_vars(LoadSchemas) /\ \A c \in Calls : WF_vars(Goes(c))

-----------------------------------------------------------------------------
\* Next is one at a time, so that no click starts a second installation while
\* the first one is being asked for.
OneNext == /\ \A c, d \in Calls : next[c] # NoCall /\ next[d] # NoCall => c = d
           /\ installing = \E c \in Calls : next[c] # NoCall

\* Next, the preview, Next: what is installed is what the form showed, and what
\* was typed until goNext saved it, however autosaves and answers come; what
\* can come in between is another move of the user, a failed save of the nodes,
\* an edit after the save, or an answer of getSchemaConfig.
ConfigIsInstalled ==
  [][\A c \in Calls : next'[c].pc = "Create" /\ next[c].pc # "Create" /\ want # None
       => next'[c].cfg = want]_vars

\* What is asked for is what the preview shows, unless getSchemaConfig of a
\* form answered after it.
PreviewIsSent ==
  [][\A c \in Calls : next'[c].pc = "Create" /\ next[c].pc # "Create"
       => preview.at # "shown" \/ late \/ next'[c].cfg = preview.cfg]_vars

\* The page of the installation without one: only by way of the side bar.
InstallPageHasInstall == step = 2 /\ playbook = None => jumped

\* What the page means to do: when the checks fail, the user stays to correct
\* the configuration.
PrecheckStops ==
  [][\A c \in Calls : next[c].pc = "PrecheckFailed" /\ next'[c] = NoCall
       => step' \in {step, 0}]_vars

\* goNext always comes to an end, and with it the button.
NextReturns == installing ~> ~installing
=============================================================================
