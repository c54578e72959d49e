--------------------------- MODULE TuiSessionProofs ---------------------------
(***************************************************************************)
(* Three properties of the interface, for any lists, heights, channel      *)
(* capacity and number of reports and commands.                            *)
(*                                                                         *)
(* At most one action is under way.  This is inductive together with the   *)
(* shape of the actions: an action is started only when none is waited     *)
(* for, and the answer that ends the waiting is the answer of the one      *)
(* action that is open.                                                    *)
(*                                                                         *)
(* What has been changed is seen.  The invariant says, while something is  *)
(* unseen, which answer on its way, or which action, has it still to show. *)
(*                                                                         *)
(* The selected item is on screen.  Its lines and those above it that are  *)
(* in the window are a finite set, no larger than the room there is.       *)
(***************************************************************************)
EXTENDS TuiSession, FiniteSetTheorems, TLAPS

Names   == {"install", "start", "stop", "restart", "reload", "autostart",
            "uninstall", "upgrade", "apply"}
Stages  == {"works", "done", "lingers", "over"}
Readers == {"waits", "holds", "gone"}
Action  == [name : Names, stage : Stages, buffered : Nat, left : Nat, reader : Readers]

\* What has been started is a sequence of actions.
ActionsOK == actions \in Seq(Action)

OneActionInv == ActionsOK /\ OneActionAtATime

\* An action is open from its start until Update has taken its answer.
IsOpen(as, i) == i \in DOMAIN as /\ as[i].stage # "over"

\* OneActionAtATime without the set of open actions: no action is open when none
\* is waited for, and otherwise just the one is.
OneIsOpen == /\ executing = "none" => \A i : ~IsOpen(actions, i)
             /\ executing # "none" =>
                    \E i : /\ IsOpen(actions, i) /\ actions[i].name = executing
                           /\ \A k : IsOpen(actions, k) => k = i

-------------------------------------------------------------------------------
\* The two forms of the property say the same.
LEMMA OneActionUnfolded == OneActionAtATime <=> OneIsOpen
<1>1. CASE executing = "none"
  BY <1>1 DEF OneActionAtATime, OneIsOpen, IsOpen
<1>2. CASE executing # "none"
  BY <1>2 DEF OneActionAtATime, OneIsOpen, IsOpen
<1>3. QED
  BY <1>1, <1>2

\* The reports an action is to make are a number.
LEMMA EventsIsNat == Events \in Nat
  BY SizesAssumption

\* In the beginning nothing has been started.
LEMMA InitInv == Init => OneActionInv
<1> SUFFICES ASSUME Init PROVE OneActionInv
  OBVIOUS
<1>1. actions = <<>> /\ executing = "none"
  BY DEF Init
<1>2. ActionsOK
  BY <1>1 DEF ActionsOK
<1>3. DOMAIN actions = {}
  BY <1>1
<1>4. OneActionAtATime
  BY <1>1, <1>3, OneActionUnfolded DEF OneIsOpen, IsOpen
<1> QED
  BY <1>2, <1>4 DEF OneActionInv

\* A step that leaves the actions and the waiting alone keeps the invariant.
LEMMA AloneInv ==
  ASSUME OneActionInv, UNCHANGED <<actions, executing>> PROVE OneActionInv'
  BY DEF OneActionInv, ActionsOK, OneActionAtATime

\* An action is started when none is waited for, so when none is open.
LEMMA StartInv ==
  ASSUME OneActionInv, executing = "none",
         NEW a \in Names, StartAction(a)
  PROVE  OneActionInv'
<1> DEFINE new == [name |-> a, stage |-> "works", buffered |-> 0,
                   left |-> IF a \in Reporting THEN Events ELSE 0,
                   reader |-> IF a = "apply" THEN "gone" ELSE "waits"]
<1>1. new \in Action
  <2>1. (IF a \in Reporting THEN Events ELSE 0) \in Nat
    BY EventsIsNat
  <2> QED
    BY <2>1 DEF Action, Stages, Readers
<1>2. actions' = Append(actions, new) /\ executing' = a /\ a # "none"
  BY DEF StartAction, Names
<1>3. actions \in Seq(Action) /\ \A i : ~IsOpen(actions, i)
  BY OneActionUnfolded DEF OneActionInv, ActionsOK, OneIsOpen
<1> HIDE DEF new
<1>4. ActionsOK'
  BY <1>1, <1>2, <1>3 DEF ActionsOK
<1>5. /\ Len(actions) \in Nat
      /\ DOMAIN actions = 1..Len(actions)
      /\ DOMAIN actions' = 1..(Len(actions) + 1)
      /\ actions'[Len(actions) + 1] = new
      /\ \A i \in 1..Len(actions) : actions'[i] = actions[i]
  BY <1>1, <1>2, <1>3
<1>6. new.stage = "works" /\ new.name = a
  BY DEF new
<1>7. IsOpen(actions', Len(actions) + 1)
  BY <1>5, <1>6 DEF IsOpen
<1>8. ASSUME NEW k, IsOpen(actions', k) PROVE k = Len(actions) + 1
  BY <1>3, <1>5, <1>8 DEF IsOpen
<1>9. OneIsOpen'
  BY <1>2, <1>5, <1>6, <1>7, <1>8 DEF OneIsOpen
<1>10. OneActionAtATime'
  BY <1>9, OneActionUnfolded, PTL
<1> QED
  BY <1>4, <1>10 DEF OneActionInv

\* A step within an action, which leaves its name and its being open or over,
\* keeps the invariant.
LEMMA WithinInv ==
  ASSUME OneActionInv, ActionsOK', UNCHANGED executing,
         DOMAIN actions' = DOMAIN actions,
         \A k \in DOMAIN actions : /\ actions'[k].name = actions[k].name
                                   /\ actions'[k].stage = "over" <=> actions[k].stage = "over"
  PROVE  OneActionInv'
<1>1. \A k : IsOpen(actions', k) <=> IsOpen(actions, k)
  BY DEF IsOpen
<1>2. \A k : IsOpen(actions, k) => actions'[k].name = actions[k].name
  BY DEF IsOpen
<1>3. OneIsOpen'
  BY <1>1, <1>2, OneActionUnfolded DEF OneActionInv, OneIsOpen
<1>4. OneActionAtATime'
  BY <1>3, OneActionUnfolded, PTL
<1> QED
  BY <1>4 DEF OneActionInv

\* Reports, the reader and the work itself stay within their action, which is over
\* only once Update has taken its answer.
LEMMA ActionChanges ==
  ASSUME ActionsOK, NEW i \in DOMAIN actions,
         Report(i) \/ Finish(i) \/ Read(i) \/ ShowProgress(i) \/ Linger(i)
  PROVE  \E new \in Action :
            /\ actions' = [actions EXCEPT ![i] = new] /\ UNCHANGED executing
            /\ new.name = actions[i].name
            /\ \/ new.stage = actions[i].stage
               \/ actions[i].stage # "over" /\ new.stage \in {"done", "lingers"}
<1>1. actions \in Seq(Action) /\ actions[i] \in Action
  BY DEF ActionsOK
<1> DEFINE Within(new) ==
             /\ actions' = [actions EXCEPT ![i] = new] /\ UNCHANGED executing
             /\ new.name = actions[i].name
             /\ \/ new.stage = actions[i].stage
                \/ actions[i].stage # "over" /\ new.stage \in {"done", "lingers"}
<1>2. ASSUME NEW new \in Action, Within(new)
      PROVE  \E n \in Action : Within(n)
  BY <1>2
<1>3. CASE Report(i)
  <2> DEFINE new == [actions[i] EXCEPT !.left = @ - 1, !.buffered = @ + 1]
  <2>1. actions' = [actions EXCEPT ![i] = new] /\ UNCHANGED executing
    BY <1>1, <1>3 DEF Report, screen
  <2>2. actions[i].left - 1 \in Nat /\ actions[i].buffered + 1 \in Nat
    BY <1>1, <1>3 DEF Report, Action
  <2>3. new \in Action /\ new.name = actions[i].name /\ new.stage = actions[i].stage
    BY <1>1, <2>2 DEF Action
  <2> HIDE DEF new
  <2> QED
    BY <1>2, <2>1, <2>3
<1>4. CASE Finish(i)
  <2> DEFINE new == [actions[i] EXCEPT !.stage = "done"]
  <2>1. actions' = [actions EXCEPT ![i] = new] /\ UNCHANGED executing
    BY <1>1, <1>4 DEF Finish, screen
  <2>2. /\ new \in Action /\ new.name = actions[i].name
        /\ new.stage = "done" /\ actions[i].stage # "over"
    BY <1>1, <1>4 DEF Finish, Action, Stages
  <2> HIDE DEF new
  <2> QED
    BY <1>2, <2>1, <2>2
<1>5. CASE Read(i)
  <2>1. PICK new \in Action : /\ actions' = [actions EXCEPT ![i] = new]
                              /\ new.name = actions[i].name
                              /\ new.stage = actions[i].stage
    <3>1. CASE /\ actions[i].buffered > 0
               /\ actions' = [actions EXCEPT ![i].buffered = @ - 1, ![i].reader = "holds"]
      <4> DEFINE new == [actions[i] EXCEPT !.buffered = @ - 1, !.reader = "holds"]
      <4>1. actions' = [actions EXCEPT ![i] = new]
        BY <1>1, <3>1
      <4>2. actions[i].buffered - 1 \in Nat
        BY <1>1, <3>1 DEF Action
      <4>3. new \in Action /\ new.name = actions[i].name /\ new.stage = actions[i].stage
        BY <1>1, <4>2 DEF Action, Readers
      <4> HIDE DEF new
      <4> QED
        BY <4>1, <4>3
    <3>2. CASE actions' = [actions EXCEPT ![i].reader = "gone"]
      <4> DEFINE new == [actions[i] EXCEPT !.reader = "gone"]
      <4>1. actions' = [actions EXCEPT ![i] = new]
        BY <1>1, <3>2
      <4>2. new \in Action /\ new.name = actions[i].name /\ new.stage = actions[i].stage
        BY <1>1 DEF Action, Readers
      <4> HIDE DEF new
      <4> QED
        BY <4>1, <4>2
    <3> QED
      BY <1>5, <3>1, <3>2 DEF Read
  <2>2. UNCHANGED executing
    BY <1>5 DEF Read, screen
  <2> QED
    BY <1>2, <2>1, <2>2
<1>6. CASE ShowProgress(i)
  <2> DEFINE new == [actions[i] EXCEPT !.reader = "waits"]
  <2>1. actions' = [actions EXCEPT ![i] = new] /\ UNCHANGED executing
    BY <1>1, <1>6 DEF ShowProgress, screen
  <2>2. new \in Action /\ new.name = actions[i].name /\ new.stage = actions[i].stage
    BY <1>1 DEF Action, Readers
  <2> HIDE DEF new
  <2> QED
    BY <1>2, <2>1, <2>2
<1>7. CASE Linger(i)
  <2> DEFINE new == [actions[i] EXCEPT !.stage = "lingers"]
  <2>1. actions' = [actions EXCEPT ![i] = new] /\ UNCHANGED executing
    BY <1>1, <1>7 DEF Linger, screen
  <2>2. /\ new \in Action /\ new.name = actions[i].name
        /\ new.stage = "lingers" /\ actions[i].stage # "over"
    BY <1>1, <1>7 DEF Linger, Action, Stages
  <2> HIDE DEF new
  <2> QED
    BY <1>2, <2>1, <2>2
<1> QED
  BY <1>3, <1>4, <1>5, <1>6, <1>7

\* None of them starts or ends an action.
LEMMA ActionStepInv ==
  ASSUME OneActionInv, NEW i \in DOMAIN actions,
         Report(i) \/ Finish(i) \/ Read(i) \/ ShowProgress(i) \/ Linger(i)
  PROVE  OneActionInv'
<1>1. actions \in Seq(Action)
  BY DEF OneActionInv, ActionsOK
<1>2. PICK new \in Action :
         /\ actions' = [actions EXCEPT ![i] = new] /\ UNCHANGED executing
         /\ new.name = actions[i].name
         /\ \/ new.stage = actions[i].stage
            \/ actions[i].stage # "over" /\ new.stage \in {"done", "lingers"}
  BY ActionChanges DEF OneActionInv
<1>3. ActionsOK' /\ DOMAIN actions' = DOMAIN actions
  BY <1>1, <1>2 DEF ActionsOK
<1>4. \A k \in DOMAIN actions : actions'[k] = IF k = i THEN new ELSE actions[k]
  BY <1>1, <1>2
<1> QED
  BY <1>2, <1>3, <1>4, WithinInv

\* The answer that ends the waiting is that of the open action: none is left.
LEMMA DoneInv ==
  ASSUME OneActionInv, NEW i \in DOMAIN actions, ActionDone(i) PROVE OneActionInv'
<1>1. actions \in Seq(Action) /\ actions[i] \in Action
  BY DEF OneActionInv, ActionsOK
<1> DEFINE new == [actions[i] EXCEPT !.stage = "over"]
<1>2. actions' = [actions EXCEPT ![i] = new] /\ executing' = "none"
  BY <1>1 DEF ActionDone
<1>3. new \in Action /\ new.stage = "over"
  BY <1>1 DEF Action, Stages
<1>4. IsOpen(actions, i)
  BY DEF ActionDone, IsOpen
<1> HIDE DEF new
<1>5. ActionsOK' /\ DOMAIN actions' = DOMAIN actions
  BY <1>1, <1>2, <1>3 DEF ActionsOK
<1>6. \A k : IsOpen(actions, k) => k = i
  BY <1>4, OneActionUnfolded DEF OneActionInv, OneIsOpen
<1>7. \A k : ~IsOpen(actions', k)
  BY <1>1, <1>2, <1>3, <1>5, <1>6 DEF IsOpen
<1>8. OneIsOpen'
  BY <1>2, <1>7 DEF OneIsOpen
<1>9. OneActionAtATime'
  BY <1>8, OneActionUnfolded, PTL
<1> QED
  BY <1>5, <1>9 DEF OneActionInv

\* A key starts an action, or leaves the actions and the waiting alone.
LEMMA KeyInv == ASSUME OneActionInv, Key PROVE OneActionInv'
<1>1. ASSUME NEW a \in {"install", "start", "stop", "restart", "reload", "autostart"},
             MenuAction(a)
      PROVE  OneActionInv'
  BY <1>1, StartInv DEF MenuAction, Listening, Names
<1>2. CASE ConfirmUninstall
  BY <1>2, StartInv DEF ConfirmUninstall, Listening, Names
<1>3. CASE ChooseVersion
  BY <1>3, StartInv DEF ChooseVersion, Listening, Names
<1>4. CASE ApplyConfig
  BY <1>4, StartInv DEF ApplyConfig, Listening, Names
<1>5. CASE Refresh \/ OpenConfig \/ OpenVersions \/ OpenSchedule \/ OpenConfirm \/ Leave
  BY <1>5, AloneInv
  DEF Refresh, OpenConfig, OpenVersions, OpenSchedule, OpenConfirm, Leave, screen
<1>6. CASE Select \/ ChooseSchedule \/ RefreshPreview \/ EditSource
  BY <1>6, AloneInv DEF Select, ChooseSchedule, RefreshPreview, EditSource, screen
<1> QED
  BY <1>1, <1>2, <1>3, <1>4, <1>5, <1>6 DEF Key

\* Every step keeps the invariant.
LEMMA NextInv == OneActionInv /\ [Next]_vars => OneActionInv'
<1> SUFFICES ASSUME OneActionInv, [Next]_vars PROVE OneActionInv'
  OBVIOUS
<1>1. CASE UNCHANGED vars
  BY <1>1, AloneInv DEF vars, screen
<1>2. CASE Key
  BY <1>2, KeyInv
<1>3. CASE Resize
  BY <1>3, AloneInv DEF Resize, screen
<1>4. CASE FetchStatus \/ FetchVersions \/ FetchPreview \/ ChangeSchedule \/ Edit
  BY <1>4, AloneInv
  DEF FetchStatus, FetchVersions, FetchPreview, ChangeSchedule, Edit, screen
<1>5. CASE ShowStatus \/ ShowVersions \/ ShowPreview \/ ScheduleDone \/ EditDone
  BY <1>5, AloneInv DEF ShowStatus, ShowVersions, ShowPreview, ScheduleDone, EditDone
<1>6. ASSUME NEW i \in DOMAIN actions, ActionStep(i) PROVE OneActionInv'
  BY <1>6, ActionStepInv, DoneInv DEF ActionStep
<1> QED
  BY <1>1, <1>2, <1>3, <1>4, <1>5, <1>6 DEF Next, JobStep

\* The interface has at most one action under way, and waits for it as long as it
\* is: an answer to something else, which may come at any time, does not end the
\* waiting (tui.go:369-371, 488-500).
THEOREM OneActionHolds == Spec => []OneActionAtATime
<1>1. OneActionInv => OneActionAtATime
  BY DEF OneActionInv
<1> QED
  BY <1>1, InitInv, NextInv, PTL DEF Spec

-------------------------------------------------------------------------------
\* What comes of it that a change is seen: an answer made after it, or a command
\* or action that will be followed by a refresh when Update takes its answer.
Informed(j) == \/ j.kind = "status" /\ (j.done = FALSE \/ j.at = changes)
               \/ j.kind = "schedule" /\ j.done = TRUE
Rendering(j) == \/ j.kind = "preview" /\ (j.done = FALSE \/ j.at = source)
                \/ j.kind = "edit" /\ j.done = TRUE

Fields == {"kind", "done", "at", "service", "list"}
JobsOK ==
    /\ IsABag(jobs)
    /\ \A j \in BagToSet(jobs) :
          /\ DOMAIN j = Fields
          /\ j.at \in Nat
          /\ j.kind = "status" => j.at <= changes
          /\ j.kind = "preview" => j.at <= source

CountersOK == /\ changes \in Nat /\ newest \in 0..changes
              /\ source \in Nat /\ rendered \in 0..source

\* A change that no status answer has known of has a refresh to come, a source that
\* no preview was made from a preview, and a preview that is awaited is on its way.
ChangesInv ==
    newest # changes =>
        \/ \E j \in BagToSet(jobs) : Informed(j)
        \/ \E i \in DOMAIN actions : actions[i].stage \in {"done", "lingers"}
SourceInv == rendered # source => \E j \in BagToSet(jobs) : Rendering(j)
LoadingInv == loading # FALSE => \E j \in BagToSet(jobs) : j.kind = "preview"

RefreshInv == /\ ActionsOK /\ JobsOK /\ CountersOK
              /\ ChangesInv /\ SourceInv /\ LoadingInv

\* The actions that are done stay so until Update takes their answer.
StillDone == \A i \in DOMAIN actions :
    /\ i \in DOMAIN actions'
    /\ actions[i].stage \in {"done", "lingers"} => actions'[i].stage \in {"done", "lingers"}

\* One more answer in the bag.
LEMMA OneMore ==
  ASSUME NEW B, IsABag(B), NEW x
  PROVE  /\ IsABag(B (+) SetToBag({x}))
         /\ BagToSet(B (+) SetToBag({x})) = BagToSet(B) \cup {x}
  BY DEF IsABag, BagToSet, SetToBag, (+)

\* One less: others may be of the same kind, and the same one more than once.
LEMMA OneLess ==
  ASSUME NEW B, IsABag(B), NEW x
  PROVE  /\ IsABag(B (-) SetToBag({x}))
         /\ BagToSet(B (-) SetToBag({x})) \subseteq BagToSet(B)
         /\ BagToSet(B) \ {x} \subseteq BagToSet(B (-) SetToBag({x}))
  BY DEF IsABag, BagToSet, SetToBag, (-)

\* A job that has just been started.
LEMMA NewJob ==
  ASSUME NEW kind
  PROVE  /\ DOMAIN Job(kind) = Fields
         /\ Job(kind).kind = kind /\ Job(kind).done = FALSE /\ Job(kind).at = 0
  BY DEF Job, Fields

\* In the beginning the first status answer is on its way.
LEMMA RefreshInit == Init => RefreshInv
<1> SUFFICES ASSUME Init PROVE RefreshInv
  OBVIOUS
<1>1. IsABag(jobs) /\ BagToSet(jobs) = {Job("status")}
  BY DEF Init, IsABag, BagToSet, SetToBag
<1>2. /\ changes = 0 /\ source = 0 /\ newest = 0 /\ rendered = 0 /\ loading = FALSE
      /\ actions = <<>>
  BY DEF Init
<1>3. JobsOK
  <2>1. DOMAIN Job("status") = Fields /\ Job("status").at = 0
    BY NewJob
  <2>2. \A j \in BagToSet(jobs) : DOMAIN j = Fields /\ j.at = 0
    BY <1>1, <2>1
  <2> QED
    BY <1>1, <1>2, <2>2 DEF JobsOK
<1>4. ActionsOK
  BY <1>2 DEF ActionsOK
<1> QED
  <2>1. CountersOK
    BY <1>2 DEF CountersOK
  <2>2. ChangesInv
    BY <1>2 DEF ChangesInv
  <2>3. SourceInv
    BY <1>2 DEF SourceInv
  <2>4. LoadingInv
    BY <1>2 DEF LoadingInv
  <2> QED
    BY <1>3, <1>4, <2>1, <2>2, <2>3, <2>4 DEF RefreshInv

\* What is asked for, of any kind but an answer that is already there, harms nothing.
LEMMA GoKeeps ==
  ASSUME RefreshInv, NEW kind, jobs' = Go(kind),
         UNCHANGED <<changes, source, newest, rendered>>,
         ActionsOK',
         loading' # FALSE => loading # FALSE \/ kind = "preview",
         kind = "status" \/ StillDone
  PROVE  RefreshInv'
<1>1. /\ IsABag(jobs') /\ BagToSet(jobs') = BagToSet(jobs) \cup {Job(kind)}
  BY OneMore DEF Go, RefreshInv, JobsOK
<1>2. CountersOK'
  BY DEF RefreshInv, CountersOK
<1>3. JobsOK'
  <2>1. changes \in Nat /\ source \in Nat
    BY DEF RefreshInv, CountersOK
  <2>2. DOMAIN Job(kind) = Fields /\ Job(kind).at = 0
    BY NewJob
  <2>3. \A j \in BagToSet(jobs)' : j \in BagToSet(jobs) \/ (DOMAIN j = Fields /\ j.at = 0)
    BY <1>1, <2>2
  <2> QED
    BY <1>1, <2>1, <2>3 DEF RefreshInv, JobsOK
<1>4. kind = "status" => Informed(Job(kind))'
  BY NewJob DEF Informed
<1>5. ChangesInv'
  BY <1>1, <1>4 DEF RefreshInv, ChangesInv, Informed, StillDone
<1>6. SourceInv' /\ LoadingInv'
  BY <1>1, NewJob DEF RefreshInv, SourceInv, LoadingInv, Rendering
<1> QED
  BY <1>2, <1>5, <1>6, <1>3 DEF RefreshInv

\* A step that asks for nothing and answers nothing.
LEMMA QuietKeeps ==
  ASSUME RefreshInv, UNCHANGED <<jobs, changes, source, newest, rendered, loading>>,
         ActionsOK', StillDone
  PROVE  RefreshInv'
  BY DEF RefreshInv, JobsOK, CountersOK, ChangesInv, SourceInv, LoadingInv, Informed, Rendering,
         StillDone

\* An answer is taken, or has come: one job goes, those in New come in its place.
\* Whatever the job promised has been kept, or is promised by one of these.
LEMMA AnswerKeeps ==
  ASSUME RefreshInv, UNCHANGED actions, CountersOK', changes <= changes', source <= source',
         NEW j, NEW New,
         IsABag(jobs'), New \subseteq BagToSet(jobs)', BagToSet(jobs) \ {j} \subseteq BagToSet(jobs)',
         BagToSet(jobs)' \subseteq BagToSet(jobs) \cup New,
         \A a \in New : /\ DOMAIN a = Fields /\ a.at \in Nat
                        /\ a.kind = "status" => a.at <= changes'
                        /\ a.kind = "preview" => a.at <= source',
         newest' # changes' => \/ \E a \in New : Informed(a)'
                               \/ (newest # changes /\ UNCHANGED changes /\ ~Informed(j)),
         rendered' # source' => \/ \E a \in New : Rendering(a)'
                                \/ (rendered # source /\ UNCHANGED source /\ ~Rendering(j)),
         loading' # FALSE => \/ \E a \in New : a.kind = "preview"
                             \/ (loading # FALSE /\ j.kind # "preview")
  PROVE  RefreshInv'
<1>1. /\ changes \in Nat /\ changes' \in Nat /\ source \in Nat /\ source' \in Nat
  BY DEF RefreshInv, CountersOK
<1>2. JobsOK'
  <2>1. ASSUME NEW k \in BagToSet(jobs)'
        PROVE  /\ DOMAIN k = Fields /\ k.at \in Nat
               /\ k.kind = "status" => k.at <= changes'
               /\ k.kind = "preview" => k.at <= source'
    BY <1>1, <2>1 DEF RefreshInv, JobsOK
  <2> QED
    BY <2>1 DEF JobsOK
<1>3. ChangesInv'
  <2>1. CASE \E a \in New : Informed(a)'
    BY <2>1 DEF ChangesInv
  <2>2. CASE newest' # changes' /\ (newest # changes /\ UNCHANGED changes /\ ~Informed(j))
    BY <2>2 DEF RefreshInv, ChangesInv, Informed
  <2> QED
    BY <2>1, <2>2 DEF ChangesInv
<1>4. SourceInv'
  <2>1. CASE \E a \in New : Rendering(a)'
    BY <2>1 DEF SourceInv
  <2>2. CASE rendered' # source' /\ (rendered # source /\ UNCHANGED source /\ ~Rendering(j))
    BY <2>2 DEF RefreshInv, SourceInv, Rendering
  <2> QED
    BY <2>1, <2>2 DEF SourceInv
<1>5. LoadingInv'
  BY DEF RefreshInv, LoadingInv
<1>6. ActionsOK'
  BY DEF RefreshInv, ActionsOK
<1> QED
  BY <1>2, <1>3, <1>4, <1>5, <1>6 DEF RefreshInv

\* A job is answered, or what it answered is taken and something follows it.
LEMMA ExchangeKeeps ==
  ASSUME RefreshInv, UNCHANGED actions, CountersOK', changes <= changes', source <= source',
         NEW j, NEW a, jobs' = (jobs (-) SetToBag({j})) (+) SetToBag({a}),
         DOMAIN a = Fields, a.at \in Nat,
         a.kind = "status" => a.at <= changes',
         a.kind = "preview" => a.at <= source',
         newest' # changes' =>
             Informed(a)' \/ (newest # changes /\ UNCHANGED changes /\ ~Informed(j)),
         rendered' # source' =>
             Rendering(a)' \/ (rendered # source /\ UNCHANGED source /\ ~Rendering(j)),
         loading' # FALSE => a.kind = "preview" \/ (loading # FALSE /\ j.kind # "preview")
  PROVE  RefreshInv'
<1>1. IsABag(jobs)
  BY DEF RefreshInv, JobsOK
<1> DEFINE B == jobs (-) SetToBag({j})
           New == {a}
<1>2. /\ IsABag(B) /\ BagToSet(B) \subseteq BagToSet(jobs)
      /\ BagToSet(jobs) \ {j} \subseteq BagToSet(B)
  BY <1>1, OneLess
<1> HIDE DEF B
<1>3. /\ IsABag(B (+) SetToBag({a}))
      /\ BagToSet(B (+) SetToBag({a})) = BagToSet(B) \cup {a}
  BY <1>2, OneMore
<1>4. /\ IsABag(jobs') /\ New \subseteq BagToSet(jobs)'
      /\ BagToSet(jobs) \ {j} \subseteq BagToSet(jobs)'
      /\ BagToSet(jobs)' \subseteq BagToSet(jobs) \cup New
  BY <1>2, <1>3 DEF B
<1>5. \A b \in New : /\ DOMAIN b = Fields /\ b.at \in Nat
                     /\ b.kind = "status" => b.at <= changes'
                     /\ b.kind = "preview" => b.at <= source'
  OBVIOUS
<1>6. /\ newest' # changes' => \/ \E b \in New : Informed(b)'
                               \/ (newest # changes /\ UNCHANGED changes /\ ~Informed(j))
      /\ rendered' # source' => \/ \E b \in New : Rendering(b)'
                                \/ (rendered # source /\ UNCHANGED source /\ ~Rendering(j))
      /\ loading' # FALSE => \/ \E b \in New : b.kind = "preview"
                             \/ (loading # FALSE /\ j.kind # "preview")
  OBVIOUS
<1> HIDE DEF New
<1> QED
  BY <1>4, <1>5, <1>6, AnswerKeeps

\* An answer is taken and nothing follows it.
LEMMA TakeKeeps ==
  ASSUME RefreshInv, UNCHANGED <<actions, changes, source>>, CountersOK',
         NEW j, jobs' = Take(j),
         newest' # changes => newest # changes /\ ~Informed(j),
         rendered' # source => rendered # source /\ ~Rendering(j),
         loading' # FALSE => (loading # FALSE /\ j.kind # "preview")
  PROVE  RefreshInv'
<1>1. IsABag(jobs)
  BY DEF RefreshInv, JobsOK
<1> DEFINE New == {}
<1>2. changes \in Nat /\ source \in Nat
  BY DEF RefreshInv, CountersOK
<1>3. changes <= changes' /\ source <= source'
  BY <1>2
<1>4. /\ IsABag(jobs') /\ New \subseteq BagToSet(jobs)'
      /\ BagToSet(jobs) \ {j} \subseteq BagToSet(jobs)'
      /\ BagToSet(jobs)' \subseteq BagToSet(jobs) \cup New
  BY <1>1, OneLess DEF Take
<1>5. \A a \in New : /\ DOMAIN a = Fields /\ a.at \in Nat
                     /\ a.kind = "status" => a.at <= changes'
                     /\ a.kind = "preview" => a.at <= source'
  OBVIOUS
<1> HIDE DEF New
<1> QED
  BY <1>3, <1>4, <1>5, AnswerKeeps

\* A goroutine answers: with what it has found, of the changes and the source as
\* they are then, or of a change that it has made.
LEMMA AnswerComes ==
  ASSUME RefreshInv, NEW j, NEW a, Answer(j, a), DOMAIN a = Fields,
         a.kind = j.kind, j.done = FALSE, a.done = TRUE, a.at \in Nat,
         j.kind = "status" => a.at = changes, j.kind = "preview" => a.at = source,
         UNCHANGED <<actions, newest, rendered, loading>>,
         \/ UNCHANGED changes
         \/ j.kind = "schedule" /\ changes' = changes + 1,
         \/ UNCHANGED source
         \/ j.kind = "edit" /\ source' = source + 1
  PROVE  RefreshInv'
<1>1. /\ changes \in Nat /\ source \in Nat /\ newest \in 0..changes /\ rendered \in 0..source
  BY DEF RefreshInv, CountersOK
<1>2. CountersOK' /\ changes <= changes' /\ source <= source'
  BY <1>1 DEF CountersOK
<1>3. jobs' = (jobs (-) SetToBag({j})) (+) SetToBag({a})
  BY DEF Answer
<1>4. /\ a.kind = "status" => a.at <= changes'
      /\ a.kind = "preview" => a.at <= source'
  BY <1>1
<1>5. newest' # changes' => \/ Informed(a)'
                            \/ newest # changes /\ UNCHANGED changes /\ ~Informed(j)
  BY DEF Informed
<1>6. rendered' # source' => \/ Rendering(a)'
                             \/ rendered # source /\ UNCHANGED source /\ ~Rendering(j)
  BY DEF Rendering
<1>7. loading' # FALSE => a.kind = "preview" \/ (loading # FALSE /\ j.kind # "preview")
  OBVIOUS
<1> QED
  BY <1>2, <1>3, <1>4, <1>5, <1>6, <1>7, ExchangeKeeps

\* Each of the goroutines that answer is one of those.
LEMMA FetchKeeps ==
  ASSUME RefreshInv, FetchStatus \/ FetchVersions \/ FetchPreview \/ ChangeSchedule \/ Edit
  PROVE  RefreshInv'
<1>1. changes \in Nat /\ source \in Nat
  BY DEF RefreshInv, CountersOK
<1>2. ASSUME NEW kind, NEW j \in Ready(kind, FALSE)
      PROVE  DOMAIN j = Fields /\ j.at \in Nat /\ j.kind = kind /\ j.done = FALSE
  BY <1>2 DEF Ready, RefreshInv, JobsOK
<1>3. CASE FetchStatus
  <2>1. PICK j \in Ready("status", FALSE), known \in {service, "error"} :
           /\ Answer(j, [j EXCEPT !.done = TRUE, !.at = changes, !.service = known])
           /\ UNCHANGED <<actions, newest, rendered, loading, changes, source>>
    BY <1>3 DEF FetchStatus, screen, world, seen
  <2>2. PICK a : a = [j EXCEPT !.done = TRUE, !.at = changes, !.service = known]
    OBVIOUS
  <2>3. DOMAIN a = Fields /\ a.kind = "status" /\ a.at = changes /\ a.done = TRUE
    BY <1>2, <2>2 DEF Fields
  <2>4. Answer(j, a)
    BY <2>1, <2>2
  <2>5. UNCHANGED <<actions, newest, rendered, loading, changes, source>>
    BY <2>1
  <2> QED
    BY <1>1, <1>2, <2>3, <2>4, <2>5, AnswerComes
<1>4. CASE FetchVersions
  <2>1. PICK j \in Ready("versions", FALSE), list \in Releases \union {<<>>} :
           /\ Answer(j, [j EXCEPT !.done = TRUE, !.list = list])
           /\ UNCHANGED <<actions, newest, rendered, loading, changes, source>>
    BY <1>4 DEF FetchVersions, screen, world, seen
  <2>2. PICK a : a = [j EXCEPT !.done = TRUE, !.list = list]
    OBVIOUS
  <2>3. DOMAIN a = Fields /\ a.kind = "versions" /\ a.at = j.at /\ a.done = TRUE
    BY <1>2, <2>2 DEF Fields
  <2>4. Answer(j, a)
    BY <2>1, <2>2
  <2>5. UNCHANGED <<actions, newest, rendered, loading, changes, source>>
    BY <2>1
  <2> QED
    BY <1>1, <1>2, <2>3, <2>4, <2>5, AnswerComes
<1>5. CASE FetchPreview
  <2>1. PICK j \in Ready("preview", FALSE) :
           /\ Answer(j, [j EXCEPT !.done = TRUE, !.at = source])
           /\ UNCHANGED <<actions, newest, rendered, loading, changes, source>>
    BY <1>5 DEF FetchPreview, screen, world, seen
  <2>2. PICK a : a = [j EXCEPT !.done = TRUE, !.at = source]
    OBVIOUS
  <2>3. DOMAIN a = Fields /\ a.kind = "preview" /\ a.at = source /\ a.done = TRUE
    BY <1>2, <2>2 DEF Fields
  <2>4. Answer(j, a)
    BY <2>1, <2>2
  <2>5. UNCHANGED <<actions, newest, rendered, loading, changes, source>>
    BY <2>1
  <2> QED
    BY <1>1, <1>2, <2>3, <2>4, <2>5, AnswerComes
<1>6. CASE ChangeSchedule \/ Edit
  <2>1. PICK kind \in {"schedule", "edit"} : \E j \in Ready(kind, FALSE) :
           /\ Answer(j, [j EXCEPT !.done = TRUE])
           /\ UNCHANGED <<actions, newest, rendered, loading>>
           /\ \/ kind = "schedule" /\ changes' = changes + 1 /\ UNCHANGED source
              \/ kind = "edit" /\ UNCHANGED changes /\ source' \in {source, source + 1}
    BY <1>6 DEF ChangeSchedule, Edit, screen, world, seen
  <2>2. PICK j \in Ready(kind, FALSE) :
           /\ Answer(j, [j EXCEPT !.done = TRUE])
           /\ UNCHANGED <<actions, newest, rendered, loading>>
           /\ \/ kind = "schedule" /\ changes' = changes + 1 /\ UNCHANGED source
              \/ kind = "edit" /\ UNCHANGED changes /\ source' \in {source, source + 1}
    BY <2>1
  <2>3. PICK a : a = [j EXCEPT !.done = TRUE]
    OBVIOUS
  <2>4. DOMAIN a = Fields /\ a.kind = kind /\ a.at = j.at /\ a.done = TRUE
    BY <1>2, <2>3 DEF Fields
  <2> QED
    BY <1>1, <1>2, <2>2, <2>3, <2>4, AnswerComes
<1> QED
  BY <1>3, <1>4, <1>5, <1>6

\* Update takes an answer: what it has known of is shown, or something follows it.
LEMMA ShowKeeps ==
  ASSUME RefreshInv, ShowStatus \/ ShowVersions \/ ShowPreview \/ ScheduleDone \/ EditDone
  PROVE  RefreshInv'
<1>1. /\ changes \in Nat /\ source \in Nat /\ newest \in 0..changes /\ rendered \in 0..source
  BY DEF RefreshInv, CountersOK
<1>2. ASSUME NEW kind, NEW j \in Ready(kind, TRUE)
      PROVE  /\ j.at \in Nat /\ j.kind = kind /\ j.done = TRUE
             /\ j.kind = "status" => j.at <= changes
             /\ j.kind = "preview" => j.at <= source
  BY <1>2 DEF Ready, RefreshInv, JobsOK
<1>3. CASE ShowStatus
  <2>1. PICK j \in Ready("status", TRUE) :
           /\ jobs' = Take(j) /\ newest' = Later(newest, j.at)
           /\ UNCHANGED <<actions, changes, source, rendered, loading>>
    BY <1>3 DEF ShowStatus, world
  <2>2. j.at \in Nat /\ j.kind = "status" /\ j.done = TRUE /\ j.at <= changes
    BY <1>2
  <2>3. newest' \in 0..changes /\ (newest' # changes => newest # changes /\ j.at # changes)
    BY <1>1, <2>1, <2>2 DEF Later
  <2>4. CountersOK'
    BY <1>1, <2>1, <2>3 DEF CountersOK
  <2>5. /\ newest' # changes => newest # changes /\ ~Informed(j)
        /\ rendered' # source => rendered # source /\ ~Rendering(j)
        /\ loading' # FALSE => loading # FALSE /\ j.kind # "preview"
    BY <2>1, <2>2, <2>3 DEF Informed, Rendering
  <2> QED
    BY <2>1, <2>4, <2>5, TakeKeeps
<1>4. CASE ShowVersions
  <2>1. PICK j \in Ready("versions", TRUE) :
           /\ jobs' = Take(j)
           /\ UNCHANGED <<actions, changes, source, newest, rendered, loading>>
    BY <1>4 DEF ShowVersions, world, seen
  <2>2. CountersOK'
    BY <1>1, <2>1 DEF CountersOK
  <2>3. /\ newest' # changes => newest # changes /\ ~Informed(j)
        /\ rendered' # source => rendered # source /\ ~Rendering(j)
        /\ loading' # FALSE => loading # FALSE /\ j.kind # "preview"
    BY <1>2, <2>1 DEF Informed, Rendering
  <2> QED
    BY <2>1, <2>2, <2>3, TakeKeeps
<1>5. CASE ShowPreview
  <2>1. PICK j \in Ready("preview", TRUE) :
           /\ jobs' = Take(j) /\ rendered' = Later(rendered, j.at) /\ loading' = FALSE
           /\ UNCHANGED <<actions, changes, source, newest>>
    BY <1>5 DEF ShowPreview, world
  <2>2. j.at \in Nat /\ j.kind = "preview" /\ j.done = TRUE /\ j.at <= source
    BY <1>2
  <2>3. rendered' \in 0..source /\ (rendered' # source => rendered # source /\ j.at # source)
    BY <1>1, <2>1, <2>2 DEF Later
  <2>4. CountersOK'
    BY <1>1, <2>1, <2>3 DEF CountersOK
  <2>5. /\ newest' # changes => newest # changes /\ ~Informed(j)
        /\ rendered' # source => rendered # source /\ ~Rendering(j)
        /\ loading' # FALSE => loading # FALSE /\ j.kind # "preview"
    BY <2>1, <2>2, <2>3 DEF Informed, Rendering
  <2> QED
    BY <2>1, <2>4, <2>5, TakeKeeps
<1>6. CASE ScheduleDone \/ EditDone
  <2>1. PICK kind \in {"status", "preview"} : \E j :
           /\ j.kind = (IF kind = "status" THEN "schedule" ELSE "edit")
           /\ jobs' = (jobs (-) SetToBag({j})) (+) SetToBag({Job(kind)})
           /\ UNCHANGED <<actions, changes, source, newest, rendered>>
           /\ loading' # FALSE => loading # FALSE \/ kind = "preview"
    BY <1>2, <1>6 DEF ScheduleDone, EditDone, Take, world, seen
  <2>2. PICK j :
           /\ j.kind = (IF kind = "status" THEN "schedule" ELSE "edit")
           /\ jobs' = (jobs (-) SetToBag({j})) (+) SetToBag({Job(kind)})
           /\ UNCHANGED <<actions, changes, source, newest, rendered>>
           /\ loading' # FALSE => loading # FALSE \/ kind = "preview"
    BY <2>1
  <2>3. PICK a : a = Job(kind)
    OBVIOUS
  <2>4. DOMAIN a = Fields /\ a.kind = kind /\ a.done = FALSE /\ a.at = 0
    BY <2>3, NewJob
  <2>5. CountersOK' /\ changes <= changes' /\ source <= source'
    BY <1>1, <2>2 DEF CountersOK
  <2>6. /\ a.at \in Nat
        /\ a.kind = "status" => a.at <= changes'
        /\ a.kind = "preview" => a.at <= source'
    BY <1>1, <2>2, <2>4
  <2>7. newest' # changes' => \/ Informed(a)'
                              \/ newest # changes /\ UNCHANGED changes /\ ~Informed(j)
    BY <2>2, <2>4 DEF Informed
  <2>8. rendered' # source' => \/ Rendering(a)'
                               \/ rendered # source /\ UNCHANGED source /\ ~Rendering(j)
    BY <2>2, <2>4 DEF Rendering
  <2>9. loading' # FALSE => a.kind = "preview" \/ (loading # FALSE /\ j.kind # "preview")
    BY <2>2, <2>4
  <2> QED
    BY <2>2, <2>3, <2>4, <2>5, <2>6, <2>7, <2>8, <2>9, ExchangeKeeps
<1> QED
  BY <1>3, <1>4, <1>5, <1>6

\* A key asks for something, starts an action, or does neither.
LEMMA KeyKeeps == ASSUME RefreshInv, ActionsOK', Key PROVE RefreshInv'
<1>1. actions \in Seq(Action)
  BY DEF RefreshInv, ActionsOK
<1>2. ASSUME UNCHANGED actions PROVE StillDone
  BY <1>2 DEF StillDone
<1>3. ASSUME NEW a, StartAction(a) PROVE RefreshInv'
  <2>1. StillDone
    BY <1>1, <1>3 DEF StartAction, StillDone
  <2> QED
    BY <1>3, <2>1, QuietKeeps DEF StartAction, world, seen
<1>4. CASE \/ \E a \in {"install", "start", "stop", "restart", "reload", "autostart"} : MenuAction(a)
           \/ ConfirmUninstall \/ ChooseVersion \/ ApplyConfig
  BY <1>3, <1>4 DEF MenuAction, ConfirmUninstall, ChooseVersion, ApplyConfig
<1>5. CASE OpenSchedule \/ OpenConfirm \/ Leave \/ Select
  <2>1. UNCHANGED <<jobs, actions, changes, source, newest, rendered, loading>>
    BY <1>5 DEF OpenSchedule, OpenConfirm, Leave, Select, world, seen
  <2> QED
    BY <1>2, <2>1, QuietKeeps
<1>6. CASE Refresh \/ OpenConfig \/ OpenVersions \/ ChooseSchedule \/ RefreshPreview \/ EditSource
  <2>1. PICK kind : /\ jobs' = Go(kind)
                    /\ UNCHANGED <<actions, changes, source, newest, rendered>>
                    /\ loading' # FALSE => loading # FALSE \/ kind = "preview"
    BY <1>6 DEF Refresh, OpenConfig, OpenVersions, ChooseSchedule, RefreshPreview,
       EditSource, screen, world, seen
  <2> QED
    BY <1>2, <2>1, GoKeeps
<1> QED
  BY <1>4, <1>5, <1>6 DEF Key

\* An action asks for a refresh when Update takes its answer, or goes on.
LEMMA ActionKeeps ==
  ASSUME RefreshInv, ActionsOK', NEW i \in DOMAIN actions, ActionStep(i)
  PROVE  RefreshInv'
<1>1. actions \in Seq(Action) /\ actions[i] \in Action
  BY DEF RefreshInv, ActionsOK
<1>2. CASE Report(i) \/ Read(i) \/ ShowProgress(i) \/ Linger(i)
  <2>1. StillDone
    <3>1. PICK new \in Action :
             /\ actions' = [actions EXCEPT ![i] = new] /\ UNCHANGED executing
             /\ new.name = actions[i].name
             /\ \/ new.stage = actions[i].stage
                \/ actions[i].stage # "over" /\ new.stage \in {"done", "lingers"}
      BY <1>2, ActionChanges DEF RefreshInv
    <3> QED
      BY <1>1, <3>1 DEF StillDone
  <2>2. UNCHANGED <<jobs, changes, source, newest, rendered, loading>>
    BY <1>2 DEF Report, Read, ShowProgress, Linger, screen, world, seen
  <2> QED
    BY <2>1, <2>2, QuietKeeps
<1>3. CASE Finish(i)
  <2>1. /\ changes' = changes + 1 /\ UNCHANGED <<jobs, source, newest, rendered, loading>>
        /\ i \in DOMAIN actions' /\ actions'[i].stage = "done"
    BY <1>1, <1>3 DEF Finish, screen, seen, Action
  <2>2. /\ changes \in Nat /\ source \in Nat /\ newest \in 0..changes /\ rendered \in 0..source
    BY DEF RefreshInv, CountersOK
  <2>3. CountersOK'
    BY <2>1, <2>2 DEF CountersOK
  <2>4. JobsOK'
    BY <2>1, <2>2 DEF RefreshInv, JobsOK
  <2>5. ChangesInv' /\ SourceInv' /\ LoadingInv'
    BY <2>1 DEF RefreshInv, ChangesInv, SourceInv, LoadingInv, Rendering
  <2> QED
    BY <2>3, <2>4, <2>5 DEF RefreshInv
<1>4. CASE ActionDone(i)
  <2>1. jobs' = Go("status") /\ UNCHANGED <<changes, source, newest, rendered, loading>>
    BY <1>4 DEF ActionDone, world, seen
  <2> QED
    BY <2>1, GoKeeps
<1> QED
  BY <1>2, <1>3, <1>4 DEF ActionStep

\* Every step keeps the promises.
LEMMA RefreshStep == RefreshInv /\ ActionsOK' /\ [Next]_vars => RefreshInv'
<1> SUFFICES ASSUME RefreshInv, ActionsOK', [Next]_vars PROVE RefreshInv'
  OBVIOUS
<1>1. CASE UNCHANGED vars \/ Resize
  <2>1. UNCHANGED <<jobs, actions, changes, source, newest, rendered, loading>>
    BY <1>1 DEF Resize, vars, screen, world, seen
  <2> QED
    BY <2>1, QuietKeeps DEF StillDone
<1> QED
  BY <1>1, KeyKeeps, FetchKeeps, ShowKeeps, ActionKeeps DEF Next, JobStep

\* Once nothing is under way, some status answer has known of every change that was
\* made, and some preview of the source that is set: whatever the order in which
\* the answers come, each change is followed by a refresh (tui.go:471-481, 499).
THEOREM ChangesAreSeen == Spec => []EverythingIsRefreshed
<1>1. RefreshInv => EverythingIsRefreshed
  <2> SUFFICES ASSUME RefreshInv, Quiet
               PROVE  newest = changes /\ rendered = source /\ ~loading
    BY DEF EverythingIsRefreshed
  <2>1. BagToSet(jobs) = {} /\ \A i \in DOMAIN actions : actions[i].stage = "over"
    BY DEF Quiet, EmptyBag, SetToBag, BagToSet
  <2>2. newest = changes
    BY <2>1 DEF RefreshInv, ChangesInv
  <2>3. rendered = source
    BY <2>1 DEF RefreshInv, SourceInv
  <2>4. ~loading
    BY <2>1 DEF RefreshInv, LoadingInv
  <2> QED
    BY <2>2, <2>3, <2>4
<1>2. OneActionInv => ActionsOK
  BY DEF OneActionInv
<1> QED
  BY <1>1, <1>2, InitInv, NextInv, RefreshInit, RefreshStep, PTL DEF Spec

-------------------------------------------------------------------------------
\* Of the items from which the lines up to the selected one fit there is a first.
LEMMA FirstExists ==
  ASSUME NEW n \in Nat, NEW S \in SUBSET (1..n), S # {}
  PROVE  \E i \in S : \A j \in S : i <= j
<1> DEFINE T == {1..i : i \in S}
           R == StrictSubsetOrdering(1..n)
<1>1. IsWellFoundedOn(R, FiniteSubsetsOf(1..n))
  BY FS_StrictSubsetOrderingWellFounded
<1>2. T # {} /\ T \subseteq SUBSET (1..n)
  <2>1. PICK i \in S : TRUE
    OBVIOUS
  <2>2. 1..i \in T
    BY <2>1
  <2>3. \A k \in S : k \in Nat /\ k <= n
    OBVIOUS
  <2>4. \A k \in S : 1..k \subseteq 1..n
    BY <2>3
  <2> QED
    BY <2>2, <2>4
<1>3. T \subseteq FiniteSubsetsOf(1..n)
  BY <1>2, FS_Interval, FS_FiniteSubsetsOfFinite
<1>4. PICK t \in T : \A u \in T : ~(<<u, t>> \in R)
  <2> HIDE DEF T, R
  <2> QED
    BY <1>1, <1>2, <1>3, WFMin
<1>5. PICK i \in S : t = 1..i
  OBVIOUS
<1>6. ASSUME NEW j \in S, j < i PROVE FALSE
  <2>1. 1..j \in T /\ 1..j \subseteq 1..i /\ i \in 1..i /\ i \notin 1..j
    BY <1>6
  <2>2. <<1..j, t>> \in R
    BY <1>2, <1>5, <2>1 DEF StrictSubsetOrdering
  <2> QED
    BY <1>4, <2>1, <2>2
<1> QED
  BY <1>6

\* The lines of some items are finitely many, and one more item has its own.
LEMMA LinesAdd ==
  ASSUME NEW items \in Seq(Nat), NEW at \in DOMAIN items, NEW i \in 1..at
  PROVE  /\ Lines(items, i, at - 1) \in Nat
         /\ Lines(items, i, at) = Lines(items, i, at - 1) + items[at]
<1>1. /\ at \in Nat /\ items[at] \in Nat
      /\ \A k \in i..at : items[k] \in Nat
      /\ i..at = (i..(at - 1)) \cup {at}
  OBVIOUS
<1> DEFINE S == ScreenLines(items, i, at - 1)
           T == {at} \X (1..items[at])
           P == {{k} \X (1..items[k]) : k \in i..(at - 1)}
           f == [k \in i..(at - 1) |-> {k} \X (1..items[k])]
<1>2. IsFiniteSet(S)
  <2>1. IsFiniteSet(i..(at - 1))
    BY <1>1, FS_Interval
  <2>2. f \in Surjection(i..(at - 1), P)
    BY DEF Surjection
  <2>3. IsFiniteSet(P)
    BY <2>1, <2>2, FS_Surjection
  <2>4. \A U \in P : IsFiniteSet(U)
    <3>1. ASSUME NEW k \in i..(at - 1) PROVE IsFiniteSet({k} \X (1..items[k]))
      <4>1. items[k] \in Int
        BY <1>1
      <4>2. IsFiniteSet({k})
        BY FS_Singleton
      <4>3. IsFiniteSet(1..items[k])
        <5>1. \A b \in Int : IsFiniteSet(1..b)
          BY FS_Interval
        <5> QED
          BY <4>1, <5>1
      <4> QED
        BY <4>2, <4>3, FS_Product
    <3> QED
      BY <3>1
  <2> QED
    BY <2>3, <2>4, FS_UNION DEF ScreenLines
<1>3. IsFiniteSet(T) /\ Cardinality(T) = items[at]
  <2>1. IsFiniteSet({at}) /\ Cardinality({at}) = 1
    BY FS_Singleton
  <2>2. IsFiniteSet(1..items[at]) /\ Cardinality(1..items[at]) = items[at]
    BY <1>1, FS_Interval
  <2>3. IsFiniteSet(T) /\ Cardinality(T) = 1 * items[at]
    BY <2>1, <2>2, FS_Product
  <2> QED
    BY <1>1, <2>3
<1>4. ScreenLines(items, i, at) = S \cup T
  BY <1>1 DEF ScreenLines
<1>5. S \cap T = {}
  BY <1>1 DEF ScreenLines
<1> HIDE DEF S, T
<1>6. Cardinality(S \cup T) = Cardinality(S) + Cardinality(T) - Cardinality(S \cap T)
  BY <1>2, <1>3, FS_Union
<1>7. Cardinality(S) \in Nat /\ Cardinality(S \cap T) = 0
  BY <1>2, <1>5, FS_CardinalityType, FS_EmptySet
<1> QED
  BY <1>1, <1>3, <1>4, <1>6, <1>7 DEF Lines, S

\* The window begins at an item from which everything up to the selected one fits,
\* or with the selected one.
LEMMA WindowFits ==
  ASSUME NEW items \in Seq(Nat), NEW at \in DOMAIN items, NEW room \in Nat
  PROVE  LET first == FirstShown(items, at, room)
         IN  \/ first = at
             \/ first \in 1..at /\ Lines(items, first, at) <= room
<1> DEFINE fits == {i \in 1..at : Lines(items, i, at) <= room}
<1>1. at \in Nat
  OBVIOUS
<1>2. CASE fits = {}
  BY <1>2 DEF FirstShown
<1>3. CASE fits # {}
  <2>1. \E i \in fits : \A j \in fits : i <= j
    <3>1. fits \in SUBSET (1..at)
      OBVIOUS
    <3> HIDE DEF fits
    <3> QED
      BY <1>1, <1>3, <3>1, FirstExists
  <2>2. FirstShown(items, at, room) \in fits
    BY <1>3, <2>1 DEF FirstShown
  <2> QED
    BY <2>2
<1> QED
  BY <1>2, <1>3

\* So of the selected item as much is on screen as there is room for.
LEMMA SelectedIsShown ==
  ASSUME NEW items \in Seq(Nat), NEW at \in DOMAIN items,
         NEW above \in Nat, NEW height \in Nat \ {0}
  PROVE  LinesShown(items, at, above, height) >=
             IF items[at] <= Room(above, height) THEN items[at] ELSE Room(above, height)
<1> DEFINE room  == Room(above, height)
           first == FirstShown(items, at, room)
           top   == IF above < height THEN above ELSE 0
           before == Lines(items, first, at - 1) + top
<1>1. /\ room \in Nat \ {0} /\ top \in Nat /\ room + top = height
      /\ items[at] \in Nat /\ at \in Nat \ {0}
  BY DEF Room
<1>2. LinesShown(items, at, above, height) =
          IF before >= height THEN 0
          ELSE IF before + items[at] <= height THEN items[at] ELSE height - before
  BY DEF LinesShown
<1>3. Lines(items, at, at - 1) = 0
  <2>1. ScreenLines(items, at, at - 1) = {}
    BY <1>1 DEF ScreenLines
  <2> QED
    BY <2>1, FS_EmptySet DEF Lines
<1>4. \/ first = at
      \/ first \in 1..at /\ Lines(items, first, at) <= room
  <2> HIDE DEF room
  <2> QED
    BY <1>1, WindowFits
<1>5. CASE first = at
  <2>1. before = top
    BY <1>1, <1>3, <1>5
  <2> HIDE DEF before, top, room
  <2> QED
    BY <1>1, <1>2, <2>1 DEF room
<1>6. CASE first \in 1..at /\ Lines(items, first, at) <= room
  <2>1. /\ Lines(items, first, at - 1) \in Nat
        /\ Lines(items, first, at) = Lines(items, first, at - 1) + items[at]
    BY <1>6, LinesAdd
  <2>2. before \in Nat /\ before + items[at] <= height
    BY <1>1, <1>6, <2>1
  <2> HIDE DEF before, top, room
  <2> QED
    BY <1>1, <1>2, <2>2 DEF room
<1> QED
  BY <1>4, <1>5, <1>6
-------------------------------------------------------------------------------
\* Lists come from an answer, and a selection that is not the first item is one of
\* every list there may be.
Lists == Releases \union {<<>>}

ListsOK == /\ versions \in Lists
           /\ \A j \in BagToSet(jobs) : j.list \in Lists

SelectionInv ==
    /\ rows \in Nat
    /\ mode = "schedule" => selected \in 1..5
    /\ mode = "versions" =>
           /\ selected \in Nat \ {0}
           /\ selected = 1 \/ \A list \in Releases : selected <= Len(list)

\* What answers hold of lists is a list, or none.
LEMMA JobsListed ==
  ASSUME RefreshInv, ListsOK, [Next]_vars
  PROVE  \A j \in BagToSet(jobs)' : j.list \in Lists
<1>1. IsABag(jobs) /\ <<>> \in Lists /\ \A j \in BagToSet(jobs) : j.list \in Lists /\ DOMAIN j = Fields
  BY DEF RefreshInv, JobsOK, ListsOK, Lists
<1> DEFINE Goal == \A j \in BagToSet(jobs)' : j.list \in Lists
<1>2. ASSUME NEW j, NEW a, jobs' = (jobs (-) SetToBag({j})) (+) SetToBag({a}), a.list \in Lists
      PROVE  Goal
  <2> DEFINE B == jobs (-) SetToBag({j})
  <2>1. IsABag(B) /\ BagToSet(B) \subseteq BagToSet(jobs)
    BY <1>1, OneLess
  <2> HIDE DEF B
  <2>2. BagToSet(B (+) SetToBag({a})) = BagToSet(B) \cup {a}
    BY <2>1, OneMore
  <2> QED
    BY <1>1, <1>2, <2>1, <2>2 DEF B
<1>3. ASSUME NEW j, jobs' = Take(j) PROVE Goal
  BY <1>1, <1>3, OneLess DEF Take
<1>4. ASSUME NEW kind, jobs' = Go(kind) PROVE Goal
  <2>1. BagToSet(jobs)' = BagToSet(jobs) \cup {Job(kind)}
    BY <1>1, <1>4, OneMore DEF Go
  <2>2. Job(kind).list = <<>>
    BY DEF Job
  <2> QED
    BY <1>1, <2>1, <2>2
<1>5. ASSUME UNCHANGED jobs PROVE Goal
  BY <1>1, <1>5
<1>6. ASSUME NEW a, StartAction(a) PROVE UNCHANGED jobs
  BY <1>6 DEF StartAction
<1>7. CASE Key
  <2>1. CASE \/ \E a \in {"install", "start", "stop", "restart", "reload", "autostart"} : MenuAction(a)
             \/ ConfirmUninstall \/ ChooseVersion \/ ApplyConfig
    BY <1>5, <1>6, <2>1 DEF MenuAction, ConfirmUninstall, ChooseVersion, ApplyConfig
  <2>2. CASE OpenSchedule \/ OpenConfirm \/ Leave \/ Select
    BY <1>5, <2>2 DEF OpenSchedule, OpenConfirm, Leave, Select
  <2>3. CASE Refresh \/ OpenConfig \/ OpenVersions \/ ChooseSchedule \/ RefreshPreview \/ EditSource
    <3>1. PICK kind : jobs' = Go(kind)
      BY <2>3 DEF Refresh, OpenConfig, OpenVersions, ChooseSchedule, RefreshPreview, EditSource
    <3> QED
      BY <1>4, <3>1
  <2> QED
    BY <1>7, <2>1, <2>2, <2>3 DEF Key
<1>8. ASSUME NEW kind, NEW done, NEW j \in Ready(kind, done)
      PROVE  j.list \in Lists /\ DOMAIN j = Fields
  BY <1>1 DEF Ready
<1>9. CASE FetchStatus
  <2>1. PICK j \in Ready("status", FALSE), known \in {service, "error"} :
           Answer(j, [j EXCEPT !.done = TRUE, !.at = changes, !.service = known])
    BY <1>9 DEF FetchStatus
  <2>2. PICK a : a = [j EXCEPT !.done = TRUE, !.at = changes, !.service = known]
    OBVIOUS
  <2>3. a.list = j.list
    BY <1>8, <2>2 DEF Fields
  <2>4. Answer(j, a)
    BY <2>1, <2>2
  <2> QED
    BY <1>2, <1>8, <2>3, <2>4 DEF Answer
<1>10. CASE FetchVersions
  <2>1. PICK j \in Ready("versions", FALSE), list \in Lists :
           Answer(j, [j EXCEPT !.done = TRUE, !.list = list])
    BY <1>10 DEF FetchVersions, Lists
  <2>2. PICK a : a = [j EXCEPT !.done = TRUE, !.list = list]
    OBVIOUS
  <2>3. a.list = list
    BY <1>8, <2>2 DEF Fields
  <2> QED
    BY <1>2, <2>1, <2>2, <2>3 DEF Answer
<1>11. CASE FetchPreview \/ ChangeSchedule \/ Edit
  <2>1. PICK kind, j, a : /\ j \in Ready(kind, FALSE) /\ Answer(j, a)
                          /\ \/ a = [j EXCEPT !.done = TRUE, !.at = source]
                             \/ a = [j EXCEPT !.done = TRUE]
    BY <1>11 DEF FetchPreview, ChangeSchedule, Edit
  <2>2. a.list = j.list
    BY <1>8, <2>1 DEF Fields
  <2> QED
    BY <1>2, <1>8, <2>1, <2>2 DEF Answer
<1>12. CASE ShowStatus \/ ShowVersions \/ ShowPreview
  BY <1>3, <1>12 DEF ShowStatus, ShowVersions, ShowPreview
<1>13. CASE ScheduleDone \/ EditDone
  <2>1. PICK j, kind : jobs' = (jobs (-) SetToBag({j})) (+) SetToBag({Job(kind)})
    BY <1>13 DEF ScheduleDone, EditDone, Take
  <2>2. PICK a : a = Job(kind)
    OBVIOUS
  <2>3. a.list = <<>>
    BY <2>2 DEF Job
  <2> QED
    BY <1>1, <1>2, <2>1, <2>2, <2>3
<1>14. ASSUME NEW i \in DOMAIN actions, ActionStep(i) PROVE Goal
  BY <1>4, <1>5, <1>14 DEF ActionStep, Report, Finish, Read, ShowProgress, Linger, ActionDone
<1>15. CASE Resize \/ UNCHANGED vars
  BY <1>5, <1>15 DEF Resize, vars
<1> QED
  BY <1>7, <1>9, <1>10, <1>11, <1>12, <1>13, <1>14, <1>15 DEF Next, JobStep

\* The list pages begin with an item that is there, and move within every list.
LEMMA SelectionStep ==
  ASSUME RefreshInv, ListsOK, SelectionInv, [Next]_vars,
         \A a, b \in Releases : Len(a) = Len(b)
  PROVE  ListsOK' /\ SelectionInv'
<1>1. Presets \in Seq(Nat) /\ DOMAIN Presets = 1..5 /\ Len(Presets) = 5
  BY DEF Presets
<1>2. rows \in Nat /\ rows' \in Nat
  <2>1. UNCHANGED rows \/ Resize
    BY DEF Next, Key, JobStep, ActionStep, vars, StartAction, MenuAction, Refresh,
       OpenConfig, OpenVersions, OpenSchedule, OpenConfirm, Leave, ConfirmUninstall,
       ChooseVersion, ApplyConfig, Select, ChooseSchedule, RefreshPreview, EditSource,
       FetchStatus, FetchVersions, FetchPreview, ChangeSchedule, Edit, ShowStatus,
       ShowVersions, ShowPreview, ScheduleDone, EditDone, Report, Finish, Read,
       ShowProgress, Linger, ActionDone
  <2> QED
    BY <2>1, SizesAssumption DEF SelectionInv, Resize
<1>3. versions' \in Lists
  <2>1. \/ UNCHANGED versions \/ versions' = <<>> \/ ShowVersions
    BY DEF Next, Key, JobStep, ActionStep, vars, screen, StartAction, MenuAction, Refresh,
       OpenConfig, OpenVersions, OpenSchedule, OpenConfirm, Leave, ConfirmUninstall,
       ChooseVersion, ApplyConfig, Select, ChooseSchedule, RefreshPreview, EditSource,
       FetchStatus, FetchVersions, FetchPreview, ChangeSchedule, Edit, ShowStatus,
       ShowPreview, ScheduleDone, EditDone, Report, Finish, Read, ShowProgress, Linger,
       ActionDone, Resize
  <2> QED
    BY <2>1 DEF ListsOK, Lists, ShowVersions, Ready
<1>4. \/ UNCHANGED <<mode, selected>>
      \/ mode' \notin {"versions", "schedule"}
      \/ OpenVersions \/ OpenSchedule \/ Select
  BY DEF Next, Key, JobStep, ActionStep, vars, screen, StartAction, MenuAction, Refresh,
     OpenConfig, OpenConfirm, Leave, ConfirmUninstall, ChooseVersion, ApplyConfig,
     ChooseSchedule, RefreshPreview, EditSource, FetchStatus, FetchVersions,
     FetchPreview, ChangeSchedule, Edit, ShowStatus, ShowVersions, ShowPreview,
     ScheduleDone, EditDone, Report, Finish, Read, ShowProgress, Linger, ActionDone,
     Resize
<1>5. ListsOK'
  BY <1>3, JobsListed DEF ListsOK
<1>6. CASE UNCHANGED <<mode, selected>> \/ mode' \notin {"versions", "schedule"}
  BY <1>2, <1>5, <1>6 DEF SelectionInv
<1>7. CASE OpenVersions
  BY <1>2, <1>5, <1>7 DEF OpenVersions, SelectionInv
<1>8. CASE OpenSchedule
  BY <1>1, <1>2, <1>5, <1>8 DEF OpenSchedule, SelectionInv
<1>9. CASE Select
  <2>1. UNCHANGED mode /\ mode \in {"versions", "schedule"}
    BY <1>9 DEF Select
  <2>2. CASE mode = "schedule"
    <3>1. selected' \in 1..5
      <4>1. selected \in 1..5 /\ Len(Items) = 5
        BY <1>1, <2>2 DEF Items, SelectionInv
      <4>2. \/ selected < Len(Items) /\ selected' = selected + 1
            \/ selected > 1 /\ selected' = selected - 1
        BY <1>9 DEF Select
      <4> QED
        BY <4>1, <4>2
    <3> QED
      BY <1>2, <1>5, <2>1, <2>2, <3>1 DEF SelectionInv
  <2>3. CASE mode = "versions"
    <3>1. selected \in Nat \ {0} /\ (selected = 1 \/ \A list \in Releases : selected <= Len(list))
      BY <2>3 DEF SelectionInv
    <3>2. \A list \in Releases : Len(list) \in Nat
      BY ReleasesAssumption
    <3>3. \/ selected < Len(versions) /\ selected' = selected + 1
          \/ selected > 1 /\ selected' = selected - 1
      BY <1>9, <2>3 DEF Select, Items
    <3>4. selected < Len(versions) => \A list \in Releases : selected + 1 <= Len(list)
      <4>1. ASSUME versions = <<>> PROVE Len(versions) = 0
        BY <4>1
      <4> QED
        BY <3>1, <3>2, <4>1 DEF ListsOK, Lists
    <3>5. /\ selected' \in Nat \ {0}
          /\ selected' = 1 \/ \A list \in Releases : selected' <= Len(list)
      BY <3>1, <3>2, <3>3, <3>4
    <3> QED
      BY <1>2, <1>5, <2>1, <2>3, <3>5 DEF SelectionInv
  <2> QED
    BY <2>1, <2>2, <2>3
<1> QED
  BY <1>4, <1>6, <1>7, <1>8, <1>9, <1>5

\* While the list of releases is as long whenever it is loaded, the selection names
\* an item of the list that keys go to, and on the page of a list it is on screen as
\* far as there is room, whatever the heights of the items and of the terminal.  A
\* status error takes the list off the screen, not the selection from the keys
\* (tui.go:668-683, 1342-1372, 1418-1459).
THEOREM SelectionStays ==
  ASSUME \A a, b \in Releases : Len(a) = Len(b)
  PROVE  Spec => []SelectionIsShown
<1>1. Init => ListsOK /\ SelectionInv
  <2> SUFFICES ASSUME Init PROVE ListsOK /\ SelectionInv
    OBVIOUS
  <2>1. BagToSet(jobs) = {Job("status")}
    BY DEF Init, BagToSet, SetToBag
  <2>2. Job("status").list = <<>>
    BY DEF Job
  <2>3. versions = <<>> /\ mode = "status" /\ rows \in Nat
    BY SizesAssumption DEF Init
  <2> QED
    BY <2>1, <2>2, <2>3 DEF ListsOK, Lists, SelectionInv
<1>2. ListsOK /\ SelectionInv => SelectionIsShown
  <2> SUFFICES ASSUME ListsOK, SelectionInv
               PROVE  SelectionIsShown
    OBVIOUS
  <2>1. ASSUME mode \in ListPages, Items # <<>>
        PROVE  Items \in Seq(Nat) /\ selected \in DOMAIN Items
    <3>1. CASE mode = "schedule"
      BY <3>1 DEF Items, SelectionInv, Presets
    <3>2. CASE mode = "versions"
      <4>1. Items = versions /\ versions \in Releases /\ versions \in Seq(Nat)
        BY <2>1, <3>2, ReleasesAssumption DEF Items, ListsOK, Lists
      <4>2. Len(versions) \in Nat \ {0}
        BY <2>1, <4>1
      <4>3. selected \in Nat \ {0} /\ selected <= Len(versions)
        BY <3>2, <4>1, <4>2 DEF SelectionInv
      <4> QED
        BY <4>1, <4>2, <4>3
    <3> QED
      BY <2>1, <3>1, <3>2 DEF ListPages
  <2>2. ASSUME rows > 0, Page \in ListPages, Items # <<>>
        PROVE  LinesShown(Items, selected, Above, rows) >=
                   IF Items[selected] <= Room(Above, rows) THEN Items[selected]
                                                           ELSE Room(Above, rows)
    <3>1. mode \in ListPages
      BY <2>2 DEF Page, ListPages
    <3>2. rows \in Nat \ {0} /\ Above \in Nat
      BY <2>2 DEF SelectionInv, Above
    <3> QED
      BY <2>1, <2>2, <3>1, <3>2, SelectedIsShown
  <2> QED
    BY <2>1, <2>2 DEF SelectionIsShown
<1>3. ListsOK /\ SelectionInv /\ RefreshInv /\ [Next]_vars => (ListsOK /\ SelectionInv)'
  BY SelectionStep
<1>4. OneActionInv => ActionsOK
  BY DEF OneActionInv
<1> QED
  BY <1>1, <1>2, <1>3, <1>4, InitInv, NextInv, RefreshInit, RefreshStep, PTL DEF Spec
===============================================================================
