------------------------ MODULE InstallWizardProofs ------------------------
(***************************************************************************)
(* Proofs about InstallWizard, for any number of calls, edits, moves and   *)
(* faults.                                                                 *)
(*                                                                         *)
(* OneNext is inductive.  What is installed is what was typed because of   *)
(* where the value is while goNext works: in the form and its saveConfig   *)
(* until the nodes are saved, in localStorage from then on, and the form   *)
(* that could write there again is gone when the preview comes.            *)
(***************************************************************************)
EXTENDS InstallWizard, TLAPS

TypeInv == TypeOK /\ edits \in Nat

\* What goNext does for the first step, and from when the values are in
\* localStorage.
SavingStep0 == {"SaveNodes", "SaveConfig"} \cup Replies
Stored == {"SaveConfig"} \cup Replies

\* A call that was made at the first step finds the user there, and the pages
\* after the preview have an installation, unless the side bar was used.
StepsInOrder ==
  ~jumped => /\ playbook = None => step \in {0, 1}
             /\ \A c \in Calls : next[c].pc \in SavingStep0 => step = 0

\* Where what the form showed at Next is kept.
WantKept ==
  want # None =>
    /\ \A c \in Calls : next[c].pc = "SaveNodes" =>
                          FormLoaded /\ form.values = want /\ saveRef = want
    /\ \A c \in Calls : next[c].pc \in Stored => FormLoaded /\ form.values = want /\ local = want
    /\ (\A c \in Calls : next[c].pc \notin SavingStep0) => step # 0 /\ local = want

\* What clusterSaveRef would save is what the form shows.
SaveRefTrue == FormLoaded => saveRef = form.values

\* What the preview shows is what localStorage has, but for what goNext of the
\* first step stored since; it leaves the preview when it ends.
PreviewTrue ==
  preview.at = "shown" =>
    /\ step = 1
    /\ late \/ preview.cfg = local \/ \E c \in Calls : next[c].pc \in Stored

IInv == TypeInv /\ OneNext /\ StepsInOrder /\ SaveRefTrue /\ WantKept /\ PreviewTrue
-----------------------------------------------------------------------------
\* Types.

\* What comes and goes with a step has its type.
LEMMA SetStepType ==
  ASSUME TypeOK, NEW s \in 0 .. 3, SetStep(s)
  PROVE  /\ step' \in 0 .. 3
         /\ form' \in [loading : BOOLEAN, values : Values, timer : BOOLEAN]
         /\ saveRef' \in Values \cup {None}
         /\ gets' \in [Gets -> [at : {"Off", "Asked", "Garbage"}, own : BOOLEAN]]
         /\ preview' \in [at : {"gone", "loading", "shown"}, cfg : Configs]
  <1> USE DEF SetStep, TypeOK
  <1>1. 0 \in Values
    BY WizardAssumption DEF Values
  <1>2. /\ NoForm \in [loading : BOOLEAN, values : Values, timer : BOOLEAN]
        /\ Loading \in [loading : BOOLEAN, values : Values, timer : BOOLEAN]
    BY <1>1 DEF NoForm, Loading
  <1>3. form' \in [loading : BOOLEAN, values : Values, timer : BOOLEAN]
    BY <1>2 DEF ShowForm
  <1>4. saveRef' \in Values \cup {None}
    BY DEF ShowForm
  <1>5. gets' \in [Gets -> [at : {"Off", "Asked", "Garbage"}, own : BOOLEAN]]
    BY DEF ShowForm
  <1>6. preview' \in [at : {"gone", "loading", "shown"}, cfg : Configs]
    BY DEF ShowPreview, NoPreview, Configs
  <1> QED BY <1>3, <1>4, <1>5, <1>6

\* The next step is one.
LEMMA NextStep ==
  ASSUME TypeOK
  PROVE  (IF step = 3 THEN 3 ELSE step + 1) \in 0 .. 3
  BY DEF TypeOK

\* The page starts with typed state.
LEMMA InitType == Init => TypeInv
  <1> SUFFICES ASSUME Init PROVE TypeInv OBVIOUS
  <1>1. 0 \in Values
    BY WizardAssumption DEF Values
  <1>2. installing \in BOOLEAN
    BY DEF Init
  <1>3. posting \in BOOLEAN
    BY DEF Init
  <1>4. next \in [Calls -> [pc : {"Off", "SaveNodes", "SaveConfig", "SaveNodesAgain", "Create"} \cup Replies,
                            cfg : Configs]]
    BY DEF Init, NoCall, Configs
  <1>5. /\ form \in [loading : BOOLEAN, values : Values, timer : BOOLEAN]
        /\ gets \in [Gets -> [at : {"Off", "Asked", "Garbage"}, own : BOOLEAN]]
        /\ preview \in [at : {"gone", "loading", "shown"}, cfg : Configs]
    BY <1>1 DEF Init, Loading, NoGet, NoPreview, Configs
  <1>6. created \in Seq(Configs) /\ local \in Configs /\ file \in BOOLEAN
    BY <1>1 DEF Init, Configs
  <1> QED BY <1>2, <1>3, <1>4, <1>5, <1>6 DEF Init, TypeInv, TypeOK

\* The user's steps.
LEMMA UserType ==
  ASSUME TypeInv, User
  PROVE  TypeInv'
  <1> USE DEF TypeInv
  <1>1. CASE GoPrev
    <2>1. step - 1 \in 0 .. 3 /\ SetStep(step - 1)
      BY <1>1 DEF GoPrev
    <2>2. UNCHANGED <<installing, playbook, next, browser, server, created, edits>>
      BY <1>1 DEF GoPrev, Moves
    <2> QED BY <2>1, <2>2, SetStepType DEF TypeOK, browser, server
  <1>2. CASE OnDone
    <2>1. SetStep(3) /\ UNCHANGED <<installing, playbook, next, browser, server, created, edits>>
      BY <1>2 DEF OnDone, bounds
    <2> QED BY <2>1, SetStepType DEF TypeOK, browser, server
  <1>3. CASE Edit
    <2>1. edits + 1 \in Values
      BY <1>3, WizardAssumption DEF Edit, Values
    <2>2. form' \in [loading : BOOLEAN, values : Values, timer : BOOLEAN]
      BY <1>3, <2>1 DEF Edit, TypeOK
    <2> QED BY <1>3, <2>1, <2>2 DEF Edit, TypeOK, app, browser, server
  <1>4. CASE Reload
    <2>1. 0 \in Values
      BY WizardAssumption DEF Values
    <2>2. form' \in [loading : BOOLEAN, values : Values, timer : BOOLEAN]
      BY <1>4, <2>1 DEF Reload, Loading
    <2>3. created' \in Seq(Configs)
      <3>1. CASE UNCHANGED created
        BY <3>1 DEF TypeOK
      <3>2. ASSUME NEW c \in Calls, created' = Append(created, next[c].cfg)
            PROVE  created' \in Seq(Configs)
        <4>1. next[c].cfg \in Configs
          BY DEF TypeOK
        <4> QED BY <3>2, <4>1 DEF TypeOK
      <3> QED BY <1>4, <3>1, <3>2 DEF Reload
    <2>4. /\ gets' \in [Gets -> [at : {"Off", "Asked", "Garbage"}, own : BOOLEAN]]
          /\ preview' \in [at : {"gone", "loading", "shown"}, cfg : Configs]
      BY <1>4 DEF Reload, NoGet, NoPreview, Configs
    <2>5. next' \in [Calls -> [pc : {"Off", "SaveNodes", "SaveConfig", "SaveNodesAgain", "Create"} \cup Replies,
                               cfg : Configs]]
      BY <1>4 DEF Reload, NoCall, Configs
    <2>6. /\ step' = 0 /\ installing' = FALSE /\ playbook' = None /\ saveRef' = None
          /\ schemas' = "None" /\ UNCHANGED <<local, file, posting, edits>>
      BY <1>4 DEF Reload, Moves, server
    <2>7. installing' \in BOOLEAN
      BY <2>6
    <2> QED BY <2>2, <2>3, <2>4, <2>5, <2>6, <2>7 DEF TypeOK
  <1>5. ASSUME NEW s \in 0 .. 3, SelectStep(s) PROVE TypeInv'
    <2>1. SetStep(s) /\ UNCHANGED <<installing, playbook, next, browser, server, created, edits>>
      BY <1>5 DEF SelectStep, Moves
    <2> QED BY <2>1, SetStepType DEF TypeOK, browser, server
  <1>6. ASSUME NEW c \in Calls, GoNext(c) PROVE TypeInv'
    <2>1. next' \in [Calls -> [pc : {"Off", "SaveNodes", "SaveConfig", "SaveNodesAgain", "Create"} \cup Replies,
                               cfg : Configs]]
      BY <1>6 DEF GoNext, TypeOK
    <2> QED BY <1>6, <2>1 DEF GoNext, TypeOK, browser, server, bounds
  <1> QED BY <1>1, <1>2, <1>3, <1>4, <1>5, <1>6 DEF User

\* The steps of the components and of the server.
LEMMA ComponentType ==
  ASSUME TypeInv, Component
  PROVE  TypeInv'
  <1> USE DEF TypeInv
  <1>1. CASE LoadSchemas
    BY <1>1 DEF LoadSchemas, Fails, TypeOK, app, server, bounds
  <1>2. CASE FireTimer
    <2>1. form' \in [loading : BOOLEAN, values : Values, timer : BOOLEAN] /\ form.values \in Values
      BY <1>2 DEF FireTimer, TypeOK
    <2> QED BY <1>2, <2>1 DEF FireTimer, TypeOK, app, bounds, Configs
  <1>3. CASE AutosaveEnds
    BY <1>3 DEF AutosaveEnds, Fails, TypeOK, app, browser, bounds
  <1>4. CASE PreviewLoads
    <2>1. preview' \in [at : {"gone", "loading", "shown"}, cfg : Configs]
      BY <1>4 DEF PreviewLoads, TypeOK
    <2> QED BY <1>4, <2>1 DEF PreviewLoads, TypeOK, app, browser, server, bounds
  <1>5. ASSUME NEW g \in Gets, FormLoads(g) PROVE TypeInv'
    <2> DEFINE v == IF local \in Values THEN local ELSE 0
    <2>1. v \in Values
      BY WizardAssumption DEF Values
    <2>2. form' = [loading |-> FALSE, values |-> v, timer |-> TRUE] /\ saveRef' = v
      BY <1>5 DEF FormLoads
    <2> HIDE DEF v
    <2>3. form' \in [loading : BOOLEAN, values : Values, timer : BOOLEAN] /\ saveRef' \in Values
      BY <2>1, <2>2
    <2>4. gets' \in [Gets -> [at : {"Off", "Asked", "Garbage"}, own : BOOLEAN]]
      BY <1>5 DEF FormLoads, TypeOK
    <2> QED BY <1>5, <2>3, <2>4 DEF FormLoads, TypeOK, app, browser, server, bounds
  <1>6. ASSUME NEW g \in Gets, CancelledLoads(g) PROVE TypeInv'
    BY <1>6 DEF CancelledLoads, TypeOK, app, browser, server, bounds
  <1>7. ASSUME NEW g \in Gets, AnswerGet(g) PROVE TypeInv'
    BY <1>7 DEF AnswerGet, TypeOK, NoGet, app, browser, server, bounds
  <1>8. ASSUME NEW g \in Gets, DeliverGet(g) PROVE TypeInv'
    <2>1. form' \in [loading : BOOLEAN, values : Values, timer : BOOLEAN]
      BY <1>8 DEF DeliverGet, TypeOK
    <2> QED BY <1>8, <2>1 DEF DeliverGet, TypeOK, NoGet, app, server, bounds, Configs
  <1> QED BY <1>1, <1>2, <1>3, <1>4, <1>5, <1>6, <1>7, <1>8 DEF Component

\* goNext moves on by a step, whatever it showed.
LEMMA AdvanceType ==
  ASSUME TypeInv, NEW c \in Calls, Advance(c), local' \in Configs, file' \in BOOLEAN,
         UNCHANGED edits
  PROVE  TypeInv'
  <1>1. SetStep(IF step = 3 THEN 3 ELSE step + 1)
    BY DEF Advance
  <1>2. Returns(c) /\ UNCHANGED <<playbook, schemas, posting, created>>
    BY DEF Advance
  <1>3. next' \in [Calls -> [pc : {"Off", "SaveNodes", "SaveConfig", "SaveNodesAgain", "Create"} \cup Replies,
                             cfg : Configs]]
    BY <1>2 DEF Returns, TypeInv, TypeOK, NoCall, Configs
  <1> QED BY <1>1, <1>2, <1>3, NextStep, SetStepType DEF TypeInv, TypeOK, Returns

\* The steps of goNext.
LEMMA GoesType ==
  ASSUME TypeInv, NEW c \in Calls, Goes(c)
  PROVE  TypeInv'
  <1> USE DEF TypeInv
  <1> DEFINE T == [pc : {"Off", "SaveNodes", "SaveConfig", "SaveNodesAgain", "Create"} \cup Replies,
                   cfg : Configs]
  <1>1. CASE NodesSaved(c)
    <2>1. CASE Saves = None
      BY <1>1, <2>1, AdvanceType DEF NodesSaved, TypeOK, bounds
    <2>2. CASE Saves # None
      <3>1. next' \in [Calls -> T]
        BY <1>1, <2>2 DEF NodesSaved, TypeOK
      <3> QED BY <1>1, <2>2, <3>1 DEF NodesSaved, Saves, TypeOK, app, server, bounds, Configs
    <2> QED BY <2>1, <2>2
  <1>2. CASE NodesFail(c)
    BY <1>2, AdvanceType DEF NodesFail, Fails, TypeOK
  <1>3. CASE ConfigSaved(c)
    <2>1. PICK reply \in Replies : next' = [next EXCEPT ![c].pc = reply]
      BY <1>3 DEF ConfigSaved, Replies
    <2>2. next' \in [Calls -> T]
      BY <2>1 DEF TypeOK
    <2> QED BY ZenonT(40), <1>3, <2>2 DEF ConfigSaved, Fails, TypeOK, app, browser, bounds
  <1>4. CASE ConfigAnswered(c)
    <2> DEFINE s == IF next[c].pc # "Saved" /\ StatusOf(next[c].pc) = 422 THEN step
                    ELSE IF step = 3 THEN 3 ELSE step + 1
    <2>1. s \in 0 .. 3
      BY NextStep DEF TypeOK
    <2>2. SetStep(s) /\ Returns(c) /\ UNCHANGED <<playbook, browser, server, created, bounds>>
      BY <1>4 DEF ConfigAnswered
    <2>3. next' \in [Calls -> T]
      BY <2>2 DEF Returns, TypeOK, NoCall, Configs
    <2> HIDE DEF s
    <2> QED BY <2>1, <2>2, <2>3, SetStepType DEF TypeOK, Returns, browser, server, bounds
  <1>5. CASE AskCreate(c)
    <2>1. next' \in [Calls -> T]
      <3>1. [pc |-> "Create", cfg |-> local] \in T /\ NoCall \in T
        BY DEF TypeOK, NoCall, Configs
      <3>2. \/ next' = [next EXCEPT ![c] = [pc |-> "Create", cfg |-> local]]
            \/ next' = [next EXCEPT ![c] = NoCall]
        BY <1>5 DEF AskCreate, ConfigToSend, Returns
      <3> QED BY <3>1, <3>2 DEF TypeOK
    <2>2. installing' \in BOOLEAN
      BY <1>5 DEF AskCreate, Returns, TypeOK
    <2>3. UNCHANGED <<step, playbook, form, saveRef, gets, preview, browser, server, created, edits>>
      BY <1>5 DEF AskCreate, NothingInstalled, bounds
    <2> QED BY <2>1, <2>2, <2>3 DEF TypeOK, browser, server
  <1>6. CASE InstallFails(c)
    <2>1. next' \in [Calls -> T]
      BY <1>6 DEF InstallFails, Returns, TypeOK, NoCall, Configs
    <2> QED BY <1>6, <2>1 DEF InstallFails, NothingInstalled, Fails, Returns, TypeOK, browser, server
  <1>7. CASE Create(c)
    <2>1. next' \in [Calls -> T] /\ installing' = FALSE
      BY <1>7 DEF Create, Returns, TypeOK, NoCall, Configs
    <2>2. created' = Append(created, next[c].cfg) /\ next[c].cfg \in Configs
      BY <1>7 DEF Create, TypeOK
    <2>3. created' \in Seq(Configs) /\ Len(created') = Len(created) + 1
      BY <2>2 DEF TypeOK
    <2>4. DOMAIN created \subseteq DOMAIN created' /\ Len(created') \in DOMAIN created'
      <3>1. /\ Len(created) \in Nat /\ DOMAIN created = 1 .. Len(created)
            /\ DOMAIN created' = 1 .. Len(created')
        BY <2>3 DEF TypeOK
      <3> QED BY <2>3, <3>1
    <2>5. UNCHANGED <<browser, server, edits>>
      BY <1>7 DEF Create, Fails, bounds
    <2>6. CASE playbook' = Len(created') /\ SetStep(2)
      <3>1. installing' \in BOOLEAN
        BY <2>1
      <3>2. playbook' \in DOMAIN created'
        BY <2>4, <2>6
      <3> QED BY <2>1, <2>3, <2>5, <2>6, <3>1, <3>2, SetStepType DEF TypeOK, browser, server
    <2>7. CASE UNCHANGED <<playbook, step, form, saveRef, gets, cancelled, preview>>
      BY <2>1, <2>3, <2>4, <2>5, <2>7 DEF TypeOK, browser, server
    <2> QED BY <1>7, <2>6, <2>7 DEF Create
  <1> QED BY <1>1, <1>2, <1>3, <1>4, <1>5, <1>6, <1>7 DEF Goes

\* Every step keeps the types.
LEMMA TypeStep == TypeInv /\ [Next]_vars => TypeInv'
  <1> SUFFICES ASSUME TypeInv, [Next]_vars PROVE TypeInv' OBVIOUS
  <1>1. CASE UNCHANGED vars
    BY <1>1 DEF vars, app, browser, server, bounds, TypeInv, TypeOK
  <1> QED BY <1>1, UserType, ComponentType, GoesType DEF Next

\* The state of the installer has its type; in particular the page installs a
\* playbook that the server has.
THEOREM TypeCorrect == Spec => []TypeOK
  <1>1. TypeInv => TypeOK BY DEF TypeInv
  <1> QED BY <1>1, InitType, TypeStep, PTL DEF Spec

-----------------------------------------------------------------------------
\* goNext is one at a time.

\* A call that ends was the only one.
LEMMA ReturnsClear ==
  ASSUME TypeInv, OneNext, NEW c \in Calls, next[c] # NoCall, Returns(c)
  PROVE  (\A d \in Calls : next'[d] = NoCall) /\ OneNext'
  <1>1. \A d \in Calls : next'[d] = NoCall
    BY DEF Returns, OneNext, TypeInv, TypeOK
  <1>2. installing' = FALSE
    BY DEF Returns
  <1> QED BY <1>1, <1>2 DEF OneNext

\* A call that goes on stays the only one.
LEMMA GoesOn ==
  ASSUME TypeInv, OneNext, NEW c \in Calls, next[c] # NoCall,
         \A d \in Calls \ {c} : next'[d] = next[d], next'[c] # NoCall, UNCHANGED installing
  PROVE  OneNext'
  BY DEF OneNext

\* What a step of goNext is made for.
LEMMA GoesCalls ==
  ASSUME TypeInv, NEW c \in Calls, Goes(c)
  PROVE  /\ next[c] # NoCall
         /\ \/ Returns(c)
            \/ /\ \A d \in Calls \ {c} : next'[d] = next[d]
               /\ next'[c] # NoCall /\ UNCHANGED installing
  <1> USE DEF TypeInv, TypeOK, NoCall, Replies
  <1>1. CASE NodesSaved(c)
    BY <1>1 DEF NodesSaved, Advance, app
  <1>2. CASE NodesFail(c)
    BY <1>2 DEF NodesFail, Advance
  <1>3. CASE ConfigSaved(c)
    BY <1>3 DEF ConfigSaved, app
  <1>4. CASE ConfigAnswered(c)
    BY <1>4 DEF ConfigAnswered
  <1>5. CASE AskCreate(c)
    BY <1>5 DEF AskCreate
  <1>6. CASE InstallFails(c)
    BY <1>6 DEF InstallFails
  <1>7. CASE Create(c)
    BY <1>7 DEF Create
  <1> QED BY <1>1, <1>2, <1>3, <1>4, <1>5, <1>6, <1>7 DEF Goes

\* Next is offered when no call is at work, and starts one.
LEMMA GoNextOne ==
  ASSUME TypeInv, OneNext, NEW c \in Calls, GoNext(c)
  PROVE  /\ \A d \in Calls : next[d] = NoCall
         /\ \A d \in Calls \ {c} : next'[d] = NoCall
         /\ next'[c].pc = IF step = 0 THEN "SaveNodes" ELSE "SaveNodesAgain"
         /\ OneNext'
  <1>1. installing = FALSE /\ installing' = TRUE
    BY DEF GoNext, TypeInv, TypeOK
  <1>2. \A d \in Calls : next[d] = NoCall
    BY <1>1 DEF OneNext
  <1>3. /\ \A d \in Calls \ {c} : next'[d] = NoCall
        /\ next'[c].pc = IF step = 0 THEN "SaveNodes" ELSE "SaveNodesAgain"
    BY <1>2 DEF GoNext, TypeInv, TypeOK
  <1>4. next'[c] # NoCall
    BY <1>3 DEF NoCall
  <1> QED BY <1>1, <1>2, <1>3, <1>4 DEF OneNext

\* Everything else leaves the calls alone.
LEMMA OtherCalls ==
  ASSUME \/ GoPrev \/ OnDone \/ Edit \/ Component
         \/ \E s \in 0 .. 3 : SelectStep(s)
  PROVE  UNCHANGED <<next, installing>>
  BY DEF GoPrev, OnDone, Edit, Component, SelectStep, LoadSchemas, FireTimer, AutosaveEnds,
         PreviewLoads, FormLoads, CancelledLoads, AnswerGet, DeliverGet, app

\* No step makes two calls of it.
LEMMA OneNextStep == TypeInv /\ OneNext /\ [Next]_vars => OneNext'
  <1> SUFFICES ASSUME TypeInv, OneNext, [Next]_vars PROVE OneNext' OBVIOUS
  <1>1. CASE UNCHANGED <<next, installing>>
    BY <1>1 DEF OneNext
  <1>2. CASE Reload
    BY <1>2 DEF Reload, OneNext
  <1>3. ASSUME NEW c \in Calls, GoNext(c) PROVE OneNext'
    BY <1>3, GoNextOne
  <1>4. ASSUME NEW c \in Calls, Goes(c) PROVE OneNext'
    BY <1>4, GoesCalls, GoesOn, ReturnsClear
  <1>5. CASE UNCHANGED vars
    BY <1>1, <1>5 DEF vars, app
  <1> QED BY <1>1, <1>2, <1>3, <1>4, <1>5, OtherCalls DEF Next, User

-----------------------------------------------------------------------------
\* The steps in their order.

\* A call at work is the only one.
LEMMA Alone ==
  ASSUME OneNext, NEW c \in Calls, next[c] # NoCall
  PROVE  \A d \in Calls \ {c} : next[d] = NoCall
  BY DEF OneNext

\* How a call ends that was made at the first step.
LEMMA EndsStep0 ==
  ASSUME TypeInv, NEW c \in Calls, next[c].pc \in SavingStep0, Goes(c)
  PROVE  \/ /\ Returns(c) /\ UNCHANGED <<playbook, jumped, created>>
            /\ SetStep(IF step = 3 THEN 3 ELSE step + 1)
            /\ \/ want' = None
               \/ (next[c].pc \in Stored \/ saveRef = None) /\ UNCHANGED <<local, want>>
         \/ /\ \/ next[c].pc \in Stored /\ UNCHANGED local
               \/ next[c].pc = "SaveNodes" /\ local' = saveRef
            /\ next'[c].pc \in Stored /\ \A d \in Calls \ {c} : next'[d] = next[d]
            /\ UNCHANGED <<step, playbook, form, saveRef, preview, want, late, jumped>>
  <1> USE DEF SavingStep0, Stored, Replies, TypeInv, TypeOK
  <1>1. CASE NodesSaved(c)
    BY <1>1 DEF NodesSaved, Saves, Advance, app, history
  <1>2. CASE NodesFail(c)
    BY <1>2 DEF NodesFail, Advance
  <1>3. CASE ConfigSaved(c)
    BY <1>3 DEF ConfigSaved, app, browser, history
  <1>4. CASE ConfigAnswered(c)
    <2>1. StatusOf(next[c].pc) # 422
      BY WizardAssumption DEF StatusOf
    <2> QED BY <1>4, <2>1 DEF ConfigAnswered, browser, history
  <1>5. ~(AskCreate(c) \/ InstallFails(c) \/ Create(c))
    BY DEF AskCreate, InstallFails, Create
  <1> QED BY <1>1, <1>2, <1>3, <1>4, <1>5 DEF Goes

\* How a call ends that was made at the preview.
LEMMA EndsStep1 ==
  ASSUME TypeInv, NEW c \in Calls, next[c].pc \notin SavingStep0, Goes(c)
  PROVE  /\ UNCHANGED <<local, history>>
         /\ \/ /\ Returns(c) /\ playbook' = Len(created') /\ SetStep(2)
            \/ /\ UNCHANGED <<step, playbook, form, saveRef, gets, cancelled, preview>>
               /\ next'[c].pc \notin SavingStep0
               /\ \A d \in Calls \ {c} : next'[d] = next[d]
  <1> USE DEF SavingStep0, Replies, TypeInv, TypeOK
  <1>1. CASE AskCreate(c)
    BY <1>1 DEF AskCreate, NothingInstalled, Returns, NoCall, browser
  <1>2. CASE InstallFails(c)
    BY <1>2 DEF InstallFails, NothingInstalled, Returns, NoCall, browser
  <1>3. CASE Create(c)
    BY <1>3 DEF Create, Returns, NoCall, browser
  <1>4. ~(NodesSaved(c) \/ NodesFail(c) \/ ConfigSaved(c) \/ ConfigAnswered(c))
    BY DEF NodesSaved, NodesFail, ConfigSaved, ConfigAnswered
  <1> QED BY <1>1, <1>2, <1>3, <1>4 DEF Goes

\* The components show no other step.
LEMMA ComponentSteps ==
  ASSUME Component \/ Edit
  PROVE  UNCHANGED <<step, playbook, next, jumped>>
  BY DEF Component, Edit, LoadSchemas, FireTimer, AutosaveEnds, PreviewLoads, FormLoads,
         CancelledLoads, AnswerGet, DeliverGet, app, history

\* The pages come in their order unless the side bar is used.
LEMMA StepsInOrderStep == TypeInv /\ OneNext /\ StepsInOrder /\ [Next]_vars => StepsInOrder'
  <1> SUFFICES ASSUME TypeInv, OneNext, StepsInOrder, [Next]_vars PROVE StepsInOrder' OBVIOUS
  <1>n. NoCall.pc \notin SavingStep0
    BY DEF NoCall, SavingStep0, Replies
  <1>1. CASE UNCHANGED <<step, playbook, next, jumped>>
    BY <1>1 DEF StepsInOrder
  <1>2. CASE GoPrev
    <2>1. step' = step - 1 /\ step \in {1, 3} /\ UNCHANGED <<playbook, next, jumped>>
      BY <1>2 DEF GoPrev, SetStep
    <2> QED BY <2>1 DEF StepsInOrder
  <1>3. CASE OnDone
    <2>1. step = 2 /\ playbook # None /\ UNCHANGED <<playbook, next, jumped>>
      BY <1>3 DEF OnDone, history
    <2> QED BY <2>1 DEF StepsInOrder
  <1>4. CASE Reload
    BY <1>4 DEF Reload, StepsInOrder
  <1>5. CASE \E s \in 0 .. 3 : SelectStep(s)
    BY <1>5 DEF SelectStep, StepsInOrder
  <1>6. ASSUME NEW c \in Calls, GoNext(c) PROVE StepsInOrder'
    <2>1. UNCHANGED <<step, playbook, jumped>> /\ step \in {0, 1}
      BY <1>6 DEF GoNext
    <2>2. next'[c].pc \in SavingStep0 => step = 0
      BY <1>6, GoNextOne DEF SavingStep0, Replies
    <2> QED BY <1>6, <1>n, <2>1, <2>2, GoNextOne DEF StepsInOrder
  <1>7. ASSUME NEW c \in Calls, Goes(c) PROVE StepsInOrder'
    <2>1. next[c] # NoCall
      BY <1>7, GoesCalls
    <2>2. CASE next[c].pc \in SavingStep0
      <3>1. CASE /\ Returns(c) /\ UNCHANGED <<playbook, jumped>>
                 /\ SetStep(IF step = 3 THEN 3 ELSE step + 1)
        <4>1. \A d \in Calls : next'[d] = NoCall
          BY <2>1, <3>1, ReturnsClear
        <4>2. ~jumped => step' = 1
          BY <2>2, <3>1 DEF SetStep, StepsInOrder
        <4> QED BY <1>n, <3>1, <4>1, <4>2 DEF StepsInOrder
      <3>2. CASE /\ \A d \in Calls \ {c} : next'[d] = next[d]
                 /\ UNCHANGED <<step, playbook, jumped>>
        BY <2>2, <3>2 DEF StepsInOrder
      <3> QED BY <1>7, <2>2, <3>1, <3>2, EndsStep0
    <2>3. CASE next[c].pc \notin SavingStep0
      <3>1. CASE Returns(c) /\ playbook' = Len(created') /\ SetStep(2)
        <4>1. \A d \in Calls : next'[d] = NoCall
          BY <2>1, <3>1, ReturnsClear
        <4>2. created' \in Seq(Configs)
          BY <1>7, GoesType DEF TypeInv, TypeOK
        <4>3. playbook' # None
          BY <3>1, <4>2, WizardAssumption
        <4> QED BY <1>n, <4>1, <4>3 DEF StepsInOrder
      <3>2. CASE /\ UNCHANGED <<step, playbook>>
                 /\ next'[c].pc \notin SavingStep0
                 /\ \A d \in Calls \ {c} : next'[d] = next[d]
        BY <1>7, <2>3, <3>2, EndsStep1 DEF StepsInOrder, history
      <3> QED BY <1>7, <2>3, <3>1, <3>2, EndsStep1
    <2> QED BY <2>2, <2>3
  <1>8. CASE UNCHANGED vars
    BY <1>1, <1>8 DEF vars, app, history
  <1> QED BY <1>1, <1>2, <1>3, <1>4, <1>5, <1>6, <1>7, <1>8, ComponentSteps DEF Next, User

-----------------------------------------------------------------------------
\* From the form to the installation.

\* The saveConfig of the form is the one of its values.
LEMMA SaveRefStep == TypeInv /\ SaveRefTrue /\ [Next]_vars => SaveRefTrue'
  <1> SUFFICES ASSUME TypeInv, SaveRefTrue, [Next]_vars PROVE SaveRefTrue' OBVIOUS
  <1> USE DEF SaveRefTrue, FormLoaded
  <1>1. CASE UNCHANGED <<step, saveRef, form>>
    BY <1>1
  <1>2. ASSUME NEW s \in 0 .. 3, SetStep(s) PROVE SaveRefTrue'
    BY <1>2 DEF SetStep, ShowForm, Loading
  <1>3. CASE GoPrev
    <2>1. step - 1 \in 0 .. 3
      BY <1>3 DEF GoPrev
    <2> QED BY <1>2, <1>3, <2>1 DEF GoPrev
  <1>4. CASE OnDone
    BY <1>2, <1>4 DEF OnDone
  <1>5. CASE Edit
    BY <1>5 DEF Edit, app, TypeInv, TypeOK
  <1>6. CASE Reload
    BY <1>6 DEF Reload, Loading
  <1>7. CASE \E s \in 0 .. 3 : SelectStep(s)
    BY <1>2, <1>7 DEF SelectStep
  <1>8. CASE \E c \in Calls : GoNext(c)
    BY <1>8 DEF GoNext
  <1>9. CASE Component
    <2>1. CASE FireTimer
      BY <2>1 DEF FireTimer, app, TypeInv, TypeOK
    <2>2. ASSUME NEW g \in Gets, FormLoads(g) PROVE SaveRefTrue'
      BY <2>2 DEF FormLoads
    <2>3. ASSUME NEW g \in Gets, DeliverGet(g) PROVE SaveRefTrue'
      BY <2>3 DEF DeliverGet, app, TypeInv, TypeOK
    <2>4. ASSUME NEW g \in Gets, AnswerGet(g) \/ CancelledLoads(g) PROVE SaveRefTrue'
      BY <2>4 DEF AnswerGet, CancelledLoads, app
    <2> QED BY <1>9, <2>1, <2>2, <2>3, <2>4
            DEF Component, LoadSchemas, AutosaveEnds, PreviewLoads, app
  <1>10. ASSUME NEW c \in Calls, Goes(c) PROVE SaveRefTrue'
    <2>1. CASE next[c].pc \in SavingStep0
      BY <1>1, <1>2, <1>10, <2>1, EndsStep0, NextStep DEF TypeInv
    <2>2. CASE next[c].pc \notin SavingStep0
      BY <1>1, <1>2, <1>10, <2>2, EndsStep1
    <2> QED BY <2>1, <2>2
  <1>11. CASE UNCHANGED vars
    BY <1>11 DEF vars, app
  <1> QED BY <1>3, <1>4, <1>5, <1>6, <1>7, <1>8, <1>9, <1>10, <1>11 DEF Next, User

\* Moves of the user give up the claim on what is installed, but for the end of
\* an installation, which finds no call of the first step.
LEMMA UserWant ==
  ASSUME TypeInv, OneNext, SaveRefTrue, WantKept, User
  PROVE  WantKept'
  <1> USE DEF WantKept
  <1>1. CASE GoPrev \/ Reload \/ \E s \in 0 .. 3 : SelectStep(s)
    BY <1>1 DEF GoPrev, Reload, SelectStep
  <1>2. CASE OnDone
    <2>1. step = 2 /\ step' = 3 /\ UNCHANGED <<next, local, want>>
      BY <1>2 DEF OnDone, SetStep, browser, history
    <2>2. want # None => \A c \in Calls : next[c].pc \notin SavingStep0
      BY <2>1 DEF FormLoaded, SavingStep0, Stored, Replies
    <2> QED BY <2>1, <2>2 DEF SavingStep0, Stored, Replies
  <1>3. CASE Edit
    <2>1. /\ FormLoaded /\ UNCHANGED <<step, next, local>>
          /\ form'.values = edits + 1 /\ saveRef' = edits + 1 /\ ~form'.loading
          /\ want' # None => /\ want # None /\ want' = edits + 1
                             /\ \A c \in Calls : next[c].pc \notin Stored
      BY <1>3 DEF Edit, app, browser, FormLoaded, TypeInv, TypeOK, Stored
    <2>2. step = 0
      BY <2>1 DEF FormLoaded
    <2> SUFFICES ASSUME want' # None PROVE WantKept'
      OBVIOUS
    <2>3. ~\A c \in Calls : next[c].pc \notin SavingStep0
      BY <2>1, <2>2
    <2> QED BY <2>1, <2>2, <2>3 DEF FormLoaded
  <1>4. ASSUME NEW c \in Calls, GoNext(c) PROVE WantKept'
    <2> DEFINE pc == IF step = 0 THEN "SaveNodes" ELSE "SaveNodesAgain"
    <2>1. /\ \A d \in Calls : next[d] = NoCall
          /\ \A d \in Calls \ {c} : next'[d] = NoCall
          /\ next'[c].pc = pc
      BY <1>4, GoNextOne
    <2>2. NoCall.pc \notin SavingStep0 /\ Stored \subseteq SavingStep0
      BY DEF NoCall, SavingStep0, Stored, Replies
    <2>3. UNCHANGED <<step, form, saveRef, local>>
      BY <1>4 DEF GoNext, browser
    <2>4. CASE step = 0
      <3>1. want' # None => FormLoaded /\ want' = form.values
        BY <1>4, <2>4 DEF GoNext
      <3>2. next'[c].pc = "SaveNodes" /\ "SaveNodes" \in SavingStep0 /\ "SaveNodes" \notin Stored
        BY <2>1, <2>4 DEF SavingStep0, Stored, Replies
      <3> QED BY <2>1, <2>2, <2>3, <3>1, <3>2 DEF SaveRefTrue, FormLoaded
    <2>5. CASE step = 1
      <3>1. want' = want /\ next'[c].pc \notin SavingStep0
        BY <1>4, <2>1, <2>5 DEF GoNext, SavingStep0, Replies
      <3> QED BY <2>1, <2>2, <2>3, <3>1 DEF SavingStep0
    <2> QED BY <1>4, <2>4, <2>5 DEF GoNext
  <1> QED BY <1>1, <1>2, <1>3, <1>4 DEF User

\* An autosave saves what goNext saves; a form that loads was not there at Next.
LEMMA ComponentWant ==
  ASSUME TypeInv, WantKept, Component
  PROVE  WantKept'
  <1> USE DEF WantKept
  <1>1. CASE LoadSchemas \/ AutosaveEnds \/ PreviewLoads
    BY <1>1 DEF LoadSchemas, AutosaveEnds, PreviewLoads, FormLoaded, app, browser, history
  <1>2. CASE FireTimer
    <2>1. /\ FormLoaded /\ UNCHANGED <<step, next, saveRef, want>> /\ local' = form.values
          /\ form'.values = form.values /\ ~form'.loading
      BY <1>2 DEF FireTimer, FormLoaded, app, history, TypeInv, TypeOK
    <2>2. step = 0
      BY <2>1 DEF FormLoaded
    <2> QED BY <2>1, <2>2 DEF FormLoaded
  <1>3. ASSUME NEW g \in Gets, FormLoads(g) PROVE WantKept'
    <2>1. step = 0 /\ ~FormLoaded /\ UNCHANGED want
      BY <1>3 DEF FormLoads, FormLoaded, history
    <2>2. want = None
      BY <2>1 DEF SavingStep0, Stored
    <2> QED BY <2>1, <2>2
  <1>4. ASSUME NEW g \in Gets, CancelledLoads(g) \/ AnswerGet(g) PROVE WantKept'
    BY <1>4 DEF CancelledLoads, AnswerGet, FormLoaded, app, browser, history
  <1>5. ASSUME NEW g \in Gets, DeliverGet(g) PROVE WantKept'
    BY <1>5 DEF DeliverGet
  <1> QED BY <1>1, <1>2, <1>3, <1>4, <1>5 DEF Component

\* goNext stores the values before it leaves the form.
LEMMA GoesWant ==
  ASSUME TypeInv, OneNext, WantKept, NEW c \in Calls, Goes(c)
  PROVE  WantKept'
  <1> USE DEF WantKept
  <1>a. next[c] # NoCall /\ \A d \in Calls \ {c} : next[d] = NoCall
    BY GoesCalls, Alone
  <1>b. NoCall.pc \notin SavingStep0 /\ Stored \subseteq SavingStep0 /\ "SaveNodes" \in SavingStep0
    BY DEF NoCall, SavingStep0, Stored, Replies
  <1>c. Returns(c) => \A d \in Calls : next'[d] = NoCall
    BY <1>a, ReturnsClear
  <1>1. CASE next[c].pc \in SavingStep0
    <2>1. CASE /\ Returns(c) /\ SetStep(IF step = 3 THEN 3 ELSE step + 1)
               /\ \/ want' = None
                  \/ (next[c].pc \in Stored \/ saveRef = None) /\ UNCHANGED <<local, want>>
      <3> SUFFICES ASSUME want' # None PROVE WantKept'
        OBVIOUS
      <3>1. want # None /\ FormLoaded /\ local = want /\ UNCHANGED <<local, want>>
        BY <1>1, <2>1 DEF SavingStep0, Stored
      <3>2. step' = 1
        BY <2>1, <3>1 DEF SetStep, FormLoaded
      <3> QED BY <1>b, <1>c, <2>1, <3>1, <3>2
    <2>2. CASE /\ \/ next[c].pc \in Stored /\ UNCHANGED local
                  \/ next[c].pc = "SaveNodes" /\ local' = saveRef
               /\ next'[c].pc \in Stored /\ \A d \in Calls \ {c} : next'[d] = next[d]
               /\ UNCHANGED <<step, form, saveRef, want>>
      <3>1. "SaveNodes" \notin Stored
        BY DEF Stored, Replies
      <3> QED BY <1>a, <1>b, <2>2, <3>1 DEF FormLoaded
    <2> QED BY <1>1, <2>1, <2>2, EndsStep0
  <1>2. CASE next[c].pc \notin SavingStep0
    <2>1. UNCHANGED <<local, want>> /\ \A d \in Calls : next[d].pc \notin SavingStep0
      BY <1>a, <1>b, <1>2, EndsStep1 DEF history
    <2>2. CASE Returns(c) /\ SetStep(2)
      BY <1>b, <1>c, <2>1, <2>2 DEF SetStep
    <2>3. CASE /\ UNCHANGED step /\ next'[c].pc \notin SavingStep0
               /\ \A d \in Calls \ {c} : next'[d] = next[d]
      BY <1>a, <1>b, <2>1, <2>3
    <2> QED BY <1>2, <2>2, <2>3, EndsStep1
  <1> QED BY <1>1, <1>2

\* What the form showed at Next is kept.
LEMMA WantStep == TypeInv /\ OneNext /\ SaveRefTrue /\ WantKept /\ [Next]_vars => WantKept'
  <1> SUFFICES ASSUME TypeInv, OneNext, SaveRefTrue, WantKept, [Next]_vars PROVE WantKept' OBVIOUS
  <1>1. CASE UNCHANGED vars
    BY <1>1 DEF vars, app, browser, history, WantKept, FormLoaded
  <1> QED BY <1>1, UserWant, ComponentWant, GoesWant DEF Next

-----------------------------------------------------------------------------
\* What the preview shows.

\* A preview that is new on the page shows nothing yet.
LEMMA NewPreview ==
  ASSUME NEW s, SetStep(s), s # 1 \/ step # 1
  PROVE  preview'.at # "shown"
  BY DEF SetStep, ShowPreview, NoPreview

\* The user's steps change no configuration that the preview has read.
LEMMA UserPreview ==
  ASSUME TypeInv, OneNext, PreviewTrue, User
  PROVE  PreviewTrue'
  <1> USE DEF PreviewTrue
  <1>1. CASE GoPrev
    <2>1. SetStep(step - 1) /\ step - 1 # 1
      BY <1>1 DEF GoPrev
    <2> QED BY <2>1, NewPreview
  <1>2. CASE OnDone
    BY <1>2, NewPreview DEF OnDone
  <1>3. CASE Edit
    BY <1>3 DEF Edit, app, browser
  <1>4. CASE Reload
    BY <1>4 DEF Reload, NoPreview
  <1>5. ASSUME NEW s \in 0 .. 3, SelectStep(s) PROVE PreviewTrue'
    BY <1>5, NewPreview DEF SelectStep
  <1>6. ASSUME NEW c \in Calls, GoNext(c) PROVE PreviewTrue'
    <2>1. NoCall.pc \notin Stored
      BY DEF NoCall, Stored, Replies
    <2>2. UNCHANGED <<step, preview, local, late>>
      BY <1>6 DEF GoNext, browser
    <2> QED BY <1>6, <2>1, <2>2, GoNextOne
  <1> QED BY <1>1, <1>2, <1>3, <1>4, <1>5, <1>6 DEF User

\* Of the components only the answer of getSchemaConfig does, and that is late.
LEMMA ComponentPreview ==
  ASSUME PreviewTrue, Component
  PROVE  PreviewTrue'
  <1> USE DEF PreviewTrue
  <1>1. CASE LoadSchemas \/ AutosaveEnds
    BY <1>1 DEF LoadSchemas, AutosaveEnds, app, browser, history
  <1>2. CASE FireTimer
    BY <1>2 DEF FireTimer, FormLoaded, app
  <1>3. CASE PreviewLoads
    BY <1>3 DEF PreviewLoads, app, browser
  <1>4. ASSUME NEW g \in Gets, FormLoads(g) \/ CancelledLoads(g) \/ AnswerGet(g)
        PROVE  PreviewTrue'
    BY <1>4 DEF FormLoads, CancelledLoads, AnswerGet, app, browser, history
  <1>5. ASSUME NEW g \in Gets, DeliverGet(g) PROVE PreviewTrue'
    BY <1>5 DEF DeliverGet, app
  <1> QED BY <1>1, <1>2, <1>3, <1>4, <1>5 DEF Component

\* goNext of the first step leaves the preview with what it stored.
LEMMA GoesPreview ==
  ASSUME TypeInv, OneNext, PreviewTrue, NEW c \in Calls, Goes(c)
  PROVE  PreviewTrue'
  <1> USE DEF PreviewTrue
  <1>1. CASE next[c].pc \in SavingStep0
    <2>1. CASE SetStep(IF step = 3 THEN 3 ELSE step + 1)
      <3>1. (IF step = 3 THEN 3 ELSE step + 1) # 1 \/ step # 1
        OBVIOUS
      <3> QED BY <2>1, <3>1, NewPreview
    <2>2. CASE next'[c].pc \in Stored /\ UNCHANGED <<step, preview>>
      BY <2>2
    <2> QED BY <1>1, <2>1, <2>2, EndsStep0
  <1>2. CASE next[c].pc \notin SavingStep0
    <2>1. \A d \in Calls : next[d].pc \notin Stored
      <3>1. NoCall.pc \notin Stored /\ Stored \subseteq SavingStep0
        BY DEF NoCall, SavingStep0, Stored, Replies
      <3> QED BY <1>2, <3>1, GoesCalls, Alone
    <2>2. UNCHANGED <<local, late>>
      BY <1>2, EndsStep1 DEF history
    <2>3. CASE SetStep(2)
      BY <2>3, NewPreview
    <2>4. CASE UNCHANGED <<step, preview>>
      BY <2>1, <2>2, <2>4
    <2> QED BY <1>2, <2>3, <2>4, EndsStep1
  <1> QED BY <1>1, <1>2

\* What the preview shows stays true.
LEMMA PreviewStep == TypeInv /\ OneNext /\ PreviewTrue /\ [Next]_vars => PreviewTrue'
  <1> SUFFICES ASSUME TypeInv, OneNext, PreviewTrue, [Next]_vars PROVE PreviewTrue' OBVIOUS
  <1>1. CASE UNCHANGED vars
    BY <1>1 DEF vars, app, browser, history, PreviewTrue
  <1> QED BY <1>1, UserPreview, ComponentPreview, GoesPreview DEF Next

-----------------------------------------------------------------------------
\* The theorems.

\* The invariant holds when the page is loaded.
LEMMA InitInv == Init => IInv
  <1> SUFFICES ASSUME Init PROVE IInv OBVIOUS
  <1>1. \A c \in Calls : next[c] = NoCall
    BY DEF Init
  <1>2. OneNext
    BY <1>1 DEF Init, OneNext
  <1>3. StepsInOrder
    BY <1>1 DEF Init, StepsInOrder, NoCall, SavingStep0, Replies
  <1>4. SaveRefTrue /\ WantKept /\ PreviewTrue
    BY DEF Init, SaveRefTrue, FormLoaded, Loading, WantKept, PreviewTrue, NoPreview
  <1> QED BY <1>2, <1>3, <1>4, InitType DEF IInv

\* It holds throughout.
THEOREM Invariance == Spec => []IInv
  <1>1. IInv /\ [Next]_vars => IInv'
    BY TypeStep, OneNextStep, StepsInOrderStep, SaveRefStep, WantStep, PreviewStep DEF IInv
  <1> QED BY <1>1, InitInv, PTL DEF Spec

\* Whatever the user clicks and however calls fail, one goNext is at work at a
\* time, and the button is disabled exactly while it is (goNext, installing).
THEOREM OneNextHolds == Spec => []OneNext
  <1>1. IInv => OneNext BY DEF IInv
  <1> QED BY <1>1, Invariance, PTL

\* The page of the installation has a playbook unless the side bar was used:
\* an installation that fails leaves the user at the preview (goNext).
THEOREM InstallPageHasInstallHolds == Spec => []InstallPageHasInstall
  <1>1. IInv => InstallPageHasInstall
    BY DEF IInv, StepsInOrder, InstallPageHasInstall
  <1> QED BY <1>1, Invariance, PTL

\* The only step that asks for a playbook sends what localStorage has.
LEMMA AsksForLocal ==
  ASSUME IInv, [Next]_vars, NEW c \in Calls, next'[c].pc = "Create", next[c].pc # "Create"
  PROVE  next'[c].cfg = local /\ \A d \in Calls : next[d].pc \notin SavingStep0
  <1> USE DEF IInv, TypeInv, TypeOK
  <1>1. ~UNCHANGED next
    OBVIOUS
  <1>2. ~Reload
    BY DEF Reload, NoCall
  <1>3. \A d \in Calls : ~GoNext(d)
    BY GoNextOne DEF NoCall
  <1>4. PICK d \in Calls : Goes(d)
    BY <1>1, <1>2, <1>3, OtherCalls DEF Next, User, vars
  <1>5. next[d] # NoCall /\ \A e \in Calls \ {d} : next[e] = NoCall
    BY <1>4, GoesCalls, Alone
  <1>6. d = c
    <2> SUFFICES ASSUME d # c PROVE FALSE
      OBVIOUS
    <2>1. next'[c] = NoCall
      BY <1>4, <1>5, GoesCalls, ReturnsClear
    <2> QED BY <2>1 DEF NoCall
  <1>7. AskCreate(c) /\ next' = [next EXCEPT ![c] = [pc |-> "Create", cfg |-> ConfigToSend]]
    <2>1. CASE Returns(c)
      BY <2>1 DEF Returns, NoCall
    <2>2. CASE ~Returns(c)
      BY <1>4, <1>6, <2>2 DEF Goes, NodesSaved, NodesFail, ConfigSaved, ConfigAnswered, AskCreate,
                              InstallFails, Create, Advance, Replies
    <2> QED BY <2>1, <2>2
  <1>8. next[c].pc \notin SavingStep0 /\ NoCall.pc \notin SavingStep0
    BY <1>7 DEF AskCreate, SavingStep0, Replies, NoCall
  <1> QED BY <1>5, <1>6, <1>7, <1>8 DEF ConfigToSend

\* What is installed is what the form showed at Next and what was typed until
\* goNext saved it (cluster-form's saveConfig, the autosave, goNext).
THEOREM ConfigIsInstalledAlways == Spec => ConfigIsInstalled
  <1> DEFINE P == \A c \in Calls : next'[c].pc = "Create" /\ next[c].pc # "Create" /\ want # None
                                     => next'[c].cfg = want
  <1>1. IInv /\ [Next]_vars => [P]_vars
    <2> SUFFICES ASSUME IInv, [Next]_vars PROVE P OBVIOUS
    <2> QED BY AsksForLocal DEF IInv, WantKept
  <1> QED BY <1>1, Invariance, PTL DEF Spec, ConfigIsInstalled

\* What is installed is what the preview shows, unless getSchemaConfig of a
\* form answered after it (InstallPreview, goNext).
THEOREM PreviewIsSentAlways == Spec => PreviewIsSent
  <1> DEFINE P == \A c \in Calls : next'[c].pc = "Create" /\ next[c].pc # "Create"
                                     => preview.at # "shown" \/ late \/ next'[c].cfg = preview.cfg
  <1>1. IInv /\ [Next]_vars => [P]_vars
    <2> SUFFICES ASSUME IInv, [Next]_vars PROVE P OBVIOUS
    <2>1. Stored \subseteq SavingStep0
      BY DEF Stored, SavingStep0
    <2> QED BY <2>1, AsksForLocal DEF IInv, PreviewTrue
  <1> QED BY <1>1, Invariance, PTL DEF Spec, PreviewIsSent

-----------------------------------------------------------------------------
\* goNext does not go in circles.

\* The calls of the API that goNext can still make, and its return.
Ahead(c) ==
  CASE next[c].pc = "Off" -> 0
    [] next[c].pc \in Replies \cup {"Create"} -> 1
    [] next[c].pc \in {"SaveConfig", "SaveNodesAgain"} -> 2
    [] next[c].pc = "SaveNodes" -> 3

\* A call at work ends or comes nearer to its end, and no other one takes its
\* place.
Nearer(c) ==
  /\ next[c] # NoCall
  /\ next'[c] = NoCall \/ Ahead(c)' \in 1 .. Ahead(c) - 1
  /\ \A d \in Calls \ {c} : next'[d] = NoCall

\* A step of goNext goes to the next call of the API, or ends it.
LEMMA GoesNearer ==
  ASSUME TypeInv, NEW c \in Calls, Goes(c)
  PROVE  next'[c] = NoCall \/ Ahead(c)' \in 1 .. Ahead(c) - 1
  <1> USE DEF TypeInv, TypeOK, Replies
  <1>1. CASE Returns(c)
    BY <1>1 DEF Returns
  <1>2. CASE NodesSaved(c) /\ ~Returns(c)
    <2>1. next[c].pc = "SaveNodes" /\ next'[c].pc = "SaveConfig"
      BY <1>2 DEF NodesSaved, Advance
    <2> QED BY <2>1 DEF Ahead
  <1>3. CASE ConfigSaved(c)
    <2>1. next[c].pc = "SaveConfig" /\ next'[c].pc \in Replies
      BY <1>3 DEF ConfigSaved
    <2> QED BY <2>1 DEF Ahead
  <1>4. CASE AskCreate(c) /\ ~Returns(c)
    <2>1. next[c].pc = "SaveNodesAgain" /\ next'[c].pc = "Create"
      BY <1>4 DEF AskCreate
    <2> QED BY <2>1 DEF Ahead
  <1> QED
    BY <1>1, <1>2, <1>3, <1>4
    DEF Goes, NodesFail, Advance, ConfigAnswered, InstallFails, Create

\* While goNext is at work, a step of the page leaves it as it is, ends it or
\* brings it nearer to its end; no click starts it anew.  With calls of the API that end
\* this is what makes NextReturns true.
THEOREM NextAdvances ==
  Spec => [][installing => UNCHANGED <<next, installing>> \/ \E c \in Calls : Nearer(c)]_vars
  <1>1. IInv /\ [Next]_vars
        => [installing => UNCHANGED <<next, installing>> \/ \E c \in Calls : Nearer(c)]_vars
    <2> SUFFICES ASSUME IInv, Next, installing, ~UNCHANGED <<next, installing>>
                 PROVE  \E c \in Calls : Nearer(c)
      OBVIOUS
    <2> USE DEF IInv
    <2>1. PICK c \in Calls : next[c] # NoCall /\ \A d \in Calls \ {c} : next[d] = NoCall
      BY Alone DEF OneNext
    <2>2. CASE Reload
      <3>1. \A d \in Calls : next'[d] = NoCall
        BY <2>2 DEF Reload
      <3> QED BY <2>1, <3>1 DEF Nearer
    <2>3. ASSUME NEW d \in Calls, Goes(d) PROVE \E e \in Calls : Nearer(e)
      <3>1. next[d] # NoCall /\ d = c
        BY <2>1, <2>3, GoesCalls
      <3>2. \A e \in Calls \ {d} : next'[e] = NoCall
        BY <2>1, <2>3, <3>1, GoesCalls, ReturnsClear
      <3> QED BY <2>3, <3>1, <3>2, GoesNearer DEF Nearer
    <2>4. ASSUME NEW d \in Calls, GoNext(d) PROVE FALSE
      BY <2>4 DEF GoNext
    <2> QED BY <2>2, <2>3, <2>4, OtherCalls DEF Next, User
  <1> QED BY <1>1, Invariance, PTL DEF Spec
=============================================================================
