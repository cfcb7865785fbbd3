---------------------------- MODULE Dispatch_proofs ----------------------------
(***************************************************************************)
(* The epoch gate and the deduplication of fetches, for any number of      *)
(* scopes, worker tasks, actions under way and switches.                   *)
(***************************************************************************)
EXTENDS Dispatch, SequenceTheorems, TLAPS

(* A stamp of the present epoch made while no switch ran is still that: to *)
(* begin a switch is to begin an epoch.                                    *)
Current(x) == x.calm /\ x.epoch = epoch
ActionFits(x) == x.epoch <= epoch /\ (Current(x) => ~switching)

(* And what was obtained on such a stamp is of the scope still active.     *)
Results == {"loaded", "done", "failed"}
EventFits(e) ==
  /\ e.epoch <= epoch
  /\ e.kind \in {"changed", "loaded"} => e.scope \in Scope
  /\ e.kind \in Results /\ Current(e) => ~switching /\ e.scope = active
TaskFits(s) ==
  task[s] # Free =>
    /\ ActionFits(task[s].action)
    /\ task[s].stage # "spawned" /\ Current(task[s].action) => task[s].ran = active

ActionsFit == \A i \in DOMAIN actions : ActionFits(actions[i])
EventsFit  == \A i \in DOMAIN events : EventFits(events[i])
TasksFit   == \A s \in Slot : TaskFits(s)
ScreenFits == /\ shown.epoch <= epoch /\ current.epoch <= epoch
              /\ \A snapshot \in announcing : snapshot.epoch <= epoch

Inv == /\ TypeOK /\ ActionsFit /\ EventsFit /\ TasksFit /\ ScreenFits
       /\ KeyIsHeldByOneFetch /\ DataNotOlderThanScreen

-----------------------------------------------------------------------------
(* The two queues.  What goes in at the end or is taken from the front     *)
(* leaves the others as they were, one place on.                           *)
LEMMA Queued ==
  ASSUME NEW S, NEW q \in Seq(S), NEW x \in S
  PROVE  /\ Append(q, x) \in Seq(S)
         /\ \A i \in DOMAIN Append(q, x) : \/ i \in DOMAIN q /\ Append(q, x)[i] = q[i]
                                           \/ Append(q, x)[i] = x
OBVIOUS

LEMMA Taken ==
  ASSUME NEW S, NEW q \in Seq(S), q # <<>>
  PROVE  /\ Tail(q) \in Seq(S) /\ 1 \in DOMAIN q /\ Head(q) = q[1] /\ q[1] \in S
         /\ \A i \in DOMAIN Tail(q) : i + 1 \in DOMAIN q /\ Tail(q)[i] = q[i + 1]
OBVIOUS

LEMMA QueueShape ==
  ASSUME TypeOK
  PROVE  /\ \A i \in DOMAIN actions : actions[i] \in Action /\ actions[i].epoch \in Nat
         /\ \A i \in DOMAIN events : events[i] \in Event /\ events[i].epoch \in Nat
<1>1. actions \in Seq(Action) /\ events \in Seq(Event)
  BY DEF TypeOK
<1>2. /\ \A i \in DOMAIN actions : actions[i] \in Action
      /\ \A i \in DOMAIN events : events[i] \in Event
  BY <1>1
<1>3. /\ \A x \in Action : x.epoch \in Nat
      /\ \A x \in Event : x.epoch \in Nat
  BY DEF Action, Event
<1> QED BY <1>2, <1>3

(* A task in its slot. *)
LEMMA TaskShape ==
  ASSUME TypeOK, NEW s \in Slot, task[s] # Free
  PROVE  /\ task[s].action \in Action /\ task[s].stage \in {"spawned", "sent", "answered"}
         /\ task[s].stage = "spawned" => task[s] \in [stage: {"spawned"}, action: Action, ran: {None}]
         /\ task[s].stage # "spawned" =>
              task[s] \in [stage: {"sent", "answered"}, action: Action, ran: Scope]
BY DEF TypeOK, Task

LEMMA Initially == Init => Inv
<1> SUFFICES ASSUME Init
             PROVE  Inv
  OBVIOUS
<1> USE DEF Init, Switcher!Init, Switcher!NoSnapshot
<1>1. Switcher!TypeOK
  BY ScopeAssumption DEF Switcher!TypeOK
<1>2. issued \in 0..MaxMutations
  BY BoundAssumption
<1>3. project \in Scope \cup {None} /\ actions \in Seq(Action) /\ events \in Seq(Event)
  BY ScopeAssumption
<1>4. TypeOK
  BY <1>1, <1>2, <1>3 DEF TypeOK, Task
<1>5. ActionsFit /\ EventsFit /\ TasksFit /\ ScreenFits
  <2>1. DOMAIN actions = {} /\ DOMAIN events = {}
    OBVIOUS
  <2>2. \A s \in Slot : task[s] = Free
    OBVIOUS
  <2>3. shown.epoch = 0 /\ epoch = 0 /\ current.epoch = 0 /\ announcing = {}
    OBVIOUS
  <2> QED BY <2>1, <2>2, <2>3 DEF ActionsFit, EventsFit, TasksFit, TaskFits, ScreenFits
<1>6. KeyIsHeldByOneFetch /\ DataNotOlderThanScreen
  BY DEF KeyIsHeldByOneFetch, FetchRuns, DataNotOlderThanScreen
<1> QED BY <1>4, <1>5, <1>6 DEF Inv

-----------------------------------------------------------------------------
(* The user and the App send an action, stamped as the switcher stands.    *)
LEMMA StampFits ==
  ASSUME TypeOK, NEW kind \in Kind
  PROVE  Stamped(kind) \in Action /\ ActionFits(Stamped(kind))
<1>1. epoch \in Nat /\ active \in Scope /\ project \in Scope \cup {None}
  BY DEF TypeOK, Switcher!TypeOK
<1> DEFINE calm == ~switching
<1>6. calm \in BOOLEAN
  OBVIOUS
<1> DEFINE origin == IF kind = "mutate" THEN project ELSE None
<1>2. origin \in Scope \cup {None}
  BY <1>1
<1>3. Stamped(kind) = [kind |-> kind, origin |-> origin, epoch |-> epoch,
                       under |-> active, calm |-> calm]
  BY DEF Stamped
<1> HIDE DEF origin, calm
<1>4. Stamped(kind) \in Action
  BY <1>1, <1>2, <1>3, <1>6 DEF Action
<1>5. Stamped(kind).epoch = epoch /\ (Stamped(kind).calm => calm)
  BY <1>3
<1>7. calm => ~switching
  BY DEF calm
<1>8. Stamped(kind).calm => ~switching
  BY <1>5, <1>7
<1>9. epoch <= epoch
  BY <1>1
<1>10. ActionFits(Stamped(kind))
  BY <1>5, <1>8, <1>9 DEF ActionFits, Current
<1> QED BY <1>4, <1>10

LEMMA SendKeeps ==
  ASSUME Inv, NEW kind \in Kind, SendAction(kind), UNCHANGED switchVars
  PROVE  actions' \in Seq(Action) /\ ActionsFit'
<1>1. actions \in Seq(Action) /\ actions' = Append(actions, Stamped(kind))
  BY DEF Inv, TypeOK, SendAction
<1>2. Stamped(kind) \in Action /\ ActionFits(Stamped(kind))
  BY StampFits DEF Inv
<1>3. actions' \in Seq(Action)
  BY <1>1, <1>2, Queued
<1>4. \A x : ActionFits(x) => ActionFits(x)'
  BY DEF ActionFits, Current, switchVars
<1>5. \A i \in DOMAIN actions' : ActionFits(actions'[i])
  BY <1>1, <1>2, Queued DEF Inv, ActionsFit
<1> QED BY <1>3, <1>4, <1>5 DEF ActionsFit, ActionFits, Current, switchVars

(* What the steps that leave something alone keep. *)
LEMMA FitsStay ==
  ASSUME UNCHANGED switchVars
  PROVE  \A x : (ActionFits(x)' <=> ActionFits(x)) /\ (EventFits(x)' <=> EventFits(x))
BY DEF ActionFits, EventFits, Current, switchVars

LEMMA TasksStay ==
  ASSUME Inv, UNCHANGED <<switchVars, task, fetching>>
  PROVE  TasksFit' /\ KeyIsHeldByOneFetch'
BY DEF Inv, TasksFit, TaskFits, ActionFits, Current, KeyIsHeldByOneFetch, FetchRuns, switchVars

LEMMA ScreenStays ==
  ASSUME Inv, UNCHANGED <<switchVars, announcing, shown, data>>
  PROVE  ScreenFits' /\ DataNotOlderThanScreen'
BY DEF Inv, ScreenFits, DataNotOlderThanScreen, switchVars

LEMMA QueuesStay ==
  ASSUME Inv, UNCHANGED switchVars
  PROVE  /\ UNCHANGED actions => ActionsFit'
         /\ UNCHANGED events => EventsFit'
BY FitsStay DEF Inv, ActionsFit, EventsFit

(* What the worker takes, and what it or the switcher emits. *)
LEMMA TakeKeeps ==
  ASSUME Inv, actions # <<>>, actions' = Tail(actions), UNCHANGED switchVars
  PROVE  /\ actions' \in Seq(Action) /\ ActionsFit'
         /\ Head(actions) \in Action /\ ActionFits(Head(actions))
<1>1. actions \in Seq(Action)
  BY DEF Inv, TypeOK
<1>2. \A i \in DOMAIN actions' : ActionFits(actions'[i])
  BY <1>1, Taken DEF Inv, ActionsFit
<1> QED BY <1>1, <1>2, Taken, FitsStay DEF Inv, ActionsFit

LEMMA EmitKeeps ==
  ASSUME Inv, NEW e \in Event, EventFits(e), events' = Append(events, e), UNCHANGED switchVars
  PROVE  events' \in Seq(Event) /\ EventsFit'
<1>1. events \in Seq(Event)
  BY DEF Inv, TypeOK
<1>2. \A i \in DOMAIN events' : EventFits(events'[i])
  BY <1>1, Queued DEF Inv, EventsFit
<1> QED BY <1>1, <1>2, Queued, FitsStay DEF EventsFit

LEMMA ReceiveKeeps ==
  ASSUME Inv, events # <<>>, events' = Tail(events), UNCHANGED switchVars
  PROVE  /\ events' \in Seq(Event) /\ EventsFit'
         /\ Head(events) \in Event /\ EventFits(Head(events))
<1>1. events \in Seq(Event)
  BY DEF Inv, TypeOK
<1>2. \A i \in DOMAIN events' : EventFits(events'[i])
  BY <1>1, Taken DEF Inv, EventsFit
<1> QED BY <1>1, <1>2, Taken, FitsStay DEF Inv, EventsFit

-----------------------------------------------------------------------------
LEMMA UserKeeps ==
  ASSUME Inv, User
  PROVE  Inv'
<1> PICK kind \in Kind : CheckIdle(kind) \/ SendDirectly(kind)
  BY DEF User
<1>1. issued' \in 0..MaxMutations
  <2>1. Ask(kind) /\ issued \in 0..MaxMutations
    BY DEF CheckIdle, SendDirectly, Inv, TypeOK
  <2> QED BY <2>1, BoundAssumption DEF Ask
<1>2. CASE CheckIdle(kind)
  <2>1. UNCHANGED <<switchVars, announcing, project, actions, task, fetching, events,
                    shown, data, effects>> /\ forwarding' = kind
    BY <1>2 DEF CheckIdle
  <2>2. TypeOK'
    BY <1>1, <2>1 DEF Inv, TypeOK, Switcher!TypeOK, switchVars
  <2> QED BY <2>1, <2>2, TasksStay, ScreenStays, QueuesStay DEF Inv
<1>3. CASE SendDirectly(kind)
  <2>1. UNCHANGED <<switchVars, announcing, project, forwarding, task, fetching, events,
                    shown, data, effects>> /\ SendAction(kind)
    BY <1>3 DEF SendDirectly
  <2>2. actions' \in Seq(Action) /\ ActionsFit'
    BY <2>1, SendKeeps
  <2>3. TypeOK'
    BY <1>1, <2>1, <2>2 DEF Inv, TypeOK, Switcher!TypeOK, switchVars
  <2> QED BY <2>1, <2>2, <2>3, TasksStay, ScreenStays, QueuesStay DEF Inv
<1> QED BY <1>2, <1>3

LEMMA ForwardKeeps ==
  ASSUME Inv, Forward
  PROVE  Inv'
<1>1. UNCHANGED <<switchVars, announcing, project, issued, task, fetching, events,
                  shown, data, effects>> /\ forwarding' = None
  BY DEF Forward
<1>2. forwarding \in Kind /\ SendAction(forwarding)
  BY DEF Forward, Inv, TypeOK
<1>3. actions' \in Seq(Action) /\ ActionsFit'
  <2> PICK kind \in Kind : kind = forwarding
    BY <1>2
  <2> QED BY <1>1, <1>2, SendKeeps
<1>4. TypeOK'
  BY <1>1, <1>3 DEF Inv, TypeOK, Switcher!TypeOK, switchVars
<1> QED BY <1>1, <1>3, <1>4, TasksStay, ScreenStays, QueuesStay DEF Inv

-----------------------------------------------------------------------------
(* The worker's loop. *)
LEMMA RefuseKeeps ==
  ASSUME Inv, RefuseAction
  PROVE  Inv'
<1>1. /\ UNCHANGED <<switchVars, announcing, project, appVars, task, fetching, effects>>
      /\ actions # <<>> /\ actions' = Tail(actions) /\ Refuse(Head(actions))
  BY DEF RefuseAction
<1>2. /\ actions' \in Seq(Action) /\ ActionsFit'
      /\ Head(actions) \in Action /\ ActionFits(Head(actions))
  BY <1>1, TakeKeeps
<1> PICK action \in Action : action = Head(actions)
  BY <1>2
<1> DEFINE e == [kind |-> "refused", epoch |-> action.epoch, scope |-> None, calm |-> action.calm]
<1>3. e \in Event /\ events' = Append(events, e)
  BY <1>1 DEF Refuse, Action, Event, EventKind
<1>4. EventFits(e)
  BY <1>2 DEF EventFits, ActionFits, Results
<1> HIDE DEF e
<1>5. events' \in Seq(Event) /\ EventsFit'
  BY <1>1, <1>3, <1>4, EmitKeeps
<1>6. TypeOK'
  BY <1>1, <1>2, <1>5 DEF Inv, TypeOK, Switcher!TypeOK, switchVars, appVars
<1>7. UNCHANGED <<shown, data>>
  BY <1>1 DEF appVars
<1> QED BY <1>1, <1>2, <1>5, <1>6, <1>7, TasksStay, ScreenStays DEF Inv

LEMMA SkipKeeps ==
  ASSUME Inv, SkipDuplicate
  PROVE  Inv'
<1>1. /\ UNCHANGED <<switchVars, announcing, project, appVars, task, fetching, events, effects>>
      /\ actions # <<>> /\ actions' = Tail(actions)
  BY DEF SkipDuplicate
<1>2. actions' \in Seq(Action) /\ ActionsFit'
  BY <1>1, TakeKeeps
<1>3. TypeOK'
  BY <1>1, <1>2 DEF Inv, TypeOK, Switcher!TypeOK, switchVars, appVars
<1>4. UNCHANGED <<shown, data>>
  BY <1>1 DEF appVars
<1> QED BY <1>1, <1>2, <1>3, <1>4, TasksStay, ScreenStays, QueuesStay DEF Inv

(* A fetch is started only while its key is free, and takes it. *)
LEMMA SpawnKeeps ==
  ASSUME Inv, NEW s \in Slot, SpawnTask(s)
  PROVE  Inv'
<1>1. /\ UNCHANGED <<switchVars, announcing, project, appVars, events, effects>>
      /\ actions # <<>> /\ actions' = Tail(actions)
  BY DEF SpawnTask
<1>2. /\ actions' \in Seq(Action) /\ ActionsFit'
      /\ Head(actions) \in Action /\ ActionFits(Head(actions))
  BY <1>1, TakeKeeps
<1> PICK action \in Action : action = Head(actions)
  BY <1>2
<1>3. /\ ~(action.kind = "fetch" /\ fetching) /\ task[s] = Free
      /\ task' = [task EXCEPT ![s] = Running(action)]
      /\ fetching' = (fetching \/ action.kind = "fetch")
  BY DEF SpawnTask, Duplicate
<1>4. /\ Running(action) \in Task /\ Running(action) # Free
      /\ Running(action).action = action /\ Running(action).stage = "spawned"
  BY DEF Running, Task, Free
<1>5. /\ task' \in [Slot -> Task] /\ task'[s] = Running(action)
      /\ \A t \in Slot \ {s} : task'[t] = task[t]
  BY <1>3, <1>4 DEF Inv, TypeOK
<1>6. TypeOK'
  <2>1. fetching' \in BOOLEAN
    BY <1>3
  <2> QED BY <1>1, <1>2, <1>5, <2>1 DEF Inv, TypeOK, Switcher!TypeOK, switchVars, appVars
<1>7. TasksFit'
  <2> SUFFICES ASSUME NEW t \in Slot
               PROVE  TaskFits(t)'
    BY DEF TasksFit
  <2>1. CASE t = s
    BY <1>1, <1>2, <1>4, <1>5, <2>1 DEF TaskFits, ActionFits, Current, switchVars
  <2>2. CASE t # s
    BY <1>1, <1>5, <2>2 DEF Inv, TasksFit, TaskFits, ActionFits, Current, switchVars
  <2> QED BY <2>1, <2>2
<1>8. KeyIsHeldByOneFetch'
  <2>1. /\ FetchRuns(s)' <=> action.kind = "fetch"
        /\ ~FetchRuns(s)
        /\ \A t \in Slot \ {s} : FetchRuns(t)' <=> FetchRuns(t)
    BY <1>3, <1>4, <1>5 DEF FetchRuns
  <2> QED BY <1>3, <2>1 DEF Inv, KeyIsHeldByOneFetch
<1>9. UNCHANGED <<shown, data>>
  BY <1>1 DEF appVars
<1> QED BY <1>1, <1>2, <1>6, <1>7, <1>8, <1>9, ScreenStays, QueuesStay DEF Inv

-----------------------------------------------------------------------------
(* The tasks.  A request that is sent takes the scope's token. *)
LEMMA RequestKeeps ==
  ASSUME Inv, NEW s \in Slot, SendRequest(s)
  PROVE  Inv'
<1>1. /\ UNCHANGED <<switchVars, announcing, project, appVars, actions, fetching, events>>
      /\ task[s].stage = "spawned" /\ task[s] # Free
      /\ task' = [task EXCEPT ![s] = [@ EXCEPT !.stage = "sent", !.ran = active]]
  BY DEF SendRequest, Free
<1>2. /\ task[s].action \in Action /\ active \in Scope
      /\ task[s] \in [stage: {"spawned"}, action: Action, ran: {None}]
  BY <1>1, TaskShape DEF Inv, TypeOK, Switcher!TypeOK
<1> DEFINE new == [task[s] EXCEPT !.stage = "sent", !.ran = active]
<1>3. new \in Task /\ new # Free /\ new.action = task[s].action /\ new.ran = active
  BY <1>2 DEF Task, Free
<1>4. task' = [task EXCEPT ![s] = new]
  BY <1>1
<1> HIDE DEF new
<1>5. /\ task' \in [Slot -> Task] /\ task'[s] = new
      /\ \A t \in Slot \ {s} : task'[t] = task[t]
  BY <1>3, <1>4 DEF Inv, TypeOK
<1>6. effects' \in SUBSET [issued: Scope, executed: Scope]
  BY <1>2 DEF SendRequest, Inv, TypeOK, Action
<1>7. TypeOK'
  BY <1>1, <1>5, <1>6 DEF Inv, TypeOK, Switcher!TypeOK, switchVars, appVars
<1>8. TasksFit'
  <2> SUFFICES ASSUME NEW t \in Slot
               PROVE  TaskFits(t)'
    BY DEF TasksFit
  <2>1. CASE t = s
    BY <1>1, <1>3, <1>5, <2>1 DEF Inv, TasksFit, TaskFits, ActionFits, Current, switchVars
  <2>2. CASE t # s
    BY <1>1, <1>5, <2>2 DEF Inv, TasksFit, TaskFits, ActionFits, Current, switchVars
  <2> QED BY <2>1, <2>2
<1>9. KeyIsHeldByOneFetch'
  <2>1. \A t \in Slot : FetchRuns(t)' <=> FetchRuns(t)
    BY <1>1, <1>3, <1>5 DEF FetchRuns
  <2> QED BY <1>1, <2>1 DEF Inv, KeyIsHeldByOneFetch
<1>10. UNCHANGED <<shown, data>>
  BY <1>1 DEF appVars
<1> QED BY <1>1, <1>7, <1>8, <1>9, <1>10, ScreenStays, QueuesStay DEF Inv

(* An answer carries the stamp of its action and the scope it ran under.   *)
LEMMA AnswerKeeps ==
  ASSUME Inv, NEW s \in Slot, NEW kind \in Results, Answer(s, kind)
  PROVE  Inv'
<1>1. /\ UNCHANGED <<switchVars, announcing, project, appVars, actions, fetching, effects>>
      /\ task[s].stage = "sent" /\ task[s] # Free
      /\ events' = Append(events, [kind |-> kind, epoch |-> task[s].action.epoch,
                                   scope |-> task[s].ran, calm |-> task[s].action.calm])
      /\ task' = [task EXCEPT ![s] = [@ EXCEPT !.stage = "answered"]]
  BY DEF Answer, Free
<1>2. task[s].action \in Action /\ task[s] \in [stage: {"sent", "answered"}, action: Action, ran: Scope]
  BY <1>1, TaskShape DEF Inv
<1> PICK action \in Action, ran \in Scope : action = task[s].action /\ ran = task[s].ran
  BY <1>2
<1>3. TaskFits(s)
  BY DEF Inv, TasksFit
<1> DEFINE e == [kind |-> kind, epoch |-> action.epoch, scope |-> ran, calm |-> action.calm]
<1>4. e \in Event /\ events' = Append(events, e)
  BY <1>1 DEF Event, EventKind, Results, Action
<1>5. EventFits(e)
  BY <1>1, <1>3 DEF EventFits, TaskFits, ActionFits, Current
<1> HIDE DEF e
<1>6. events' \in Seq(Event) /\ EventsFit'
  BY <1>1, <1>4, <1>5, EmitKeeps
<1> DEFINE new == [task[s] EXCEPT !.stage = "answered"]
<1>7. /\ new \in Task /\ new # Free /\ new.action = task[s].action /\ new.ran = task[s].ran
      /\ new.stage = "answered"
  BY <1>2 DEF Task, Free
<1>8. task' = [task EXCEPT ![s] = new]
  BY <1>1
<1> HIDE DEF new
<1>9. /\ task' \in [Slot -> Task] /\ task'[s] = new
      /\ \A t \in Slot \ {s} : task'[t] = task[t]
  BY <1>7, <1>8 DEF Inv, TypeOK
<1>10. TypeOK'
  BY <1>1, <1>6, <1>9 DEF Inv, TypeOK, Switcher!TypeOK, switchVars, appVars
<1>11. TasksFit'
  <2> SUFFICES ASSUME NEW t \in Slot
               PROVE  TaskFits(t)'
    BY DEF TasksFit
  <2>1. CASE t = s
    BY <1>1, <1>3, <1>7, <1>9, <2>1 DEF TaskFits, ActionFits, Current, switchVars
  <2>2. CASE t # s
    BY <1>1, <1>9, <2>2 DEF Inv, TasksFit, TaskFits, ActionFits, Current, switchVars
  <2> QED BY <2>1, <2>2
<1>12. KeyIsHeldByOneFetch'
  <2>1. \A t \in Slot : FetchRuns(t)' <=> FetchRuns(t)
    BY <1>1, <1>7, <1>9 DEF FetchRuns
  <2> QED BY <1>1, <2>1 DEF Inv, KeyIsHeldByOneFetch
<1>13. UNCHANGED <<shown, data>>
  BY <1>1 DEF appVars
<1> QED BY <1>1, <1>6, <1>10, <1>11, <1>12, <1>13, ScreenStays, QueuesStay DEF Inv

(* The key is released with the one fetch that held it. *)
LEMMA FinishKeeps ==
  ASSUME Inv, NEW s \in Slot, Finish(s)
  PROVE  Inv'
<1>1. /\ UNCHANGED <<switchVars, announcing, project, appVars, actions, events, effects>>
      /\ task[s].stage = "answered" /\ task[s] # Free
      /\ fetching' = (fetching /\ task[s].action.kind # "fetch")
      /\ task' = [task EXCEPT ![s] = Free]
  BY DEF Finish, Free
<1>2. /\ task' \in [Slot -> Task] /\ task'[s] = Free
      /\ \A t \in Slot \ {s} : task'[t] = task[t]
  BY <1>1 DEF Inv, TypeOK, Task
<1>3. TypeOK'
  <2>1. fetching' \in BOOLEAN
    BY <1>1
  <2> QED BY <1>1, <1>2, <2>1 DEF Inv, TypeOK, Switcher!TypeOK, switchVars, appVars
<1>4. TasksFit'
  BY <1>1, <1>2 DEF Inv, TasksFit, TaskFits, ActionFits, Current, switchVars
<1>5. KeyIsHeldByOneFetch'
  <2>1. /\ FetchRuns(s) <=> task[s].action.kind = "fetch"
        /\ ~FetchRuns(s)'
        /\ \A t \in Slot \ {s} : FetchRuns(t)' <=> FetchRuns(t)
    BY <1>1, <1>2 DEF FetchRuns
  <2> QED BY <1>1, <2>1 DEF Inv, KeyIsHeldByOneFetch
<1>6. UNCHANGED <<shown, data>>
  BY <1>1 DEF appVars
<1> QED BY <1>1, <1>3, <1>4, <1>5, <1>6, ScreenStays, QueuesStay DEF Inv

LEMMA WorkKeeps ==
  ASSUME Inv, NEW s \in Slot, Work(s)
  PROVE  Inv'
<1>1. ASSUME Succeed(s)
      PROVE  Inv'
  <2> DEFINE kind == IF task[s].action.kind = "fetch" THEN "loaded" ELSE "done"
  <2>1. kind \in Results /\ Answer(s, kind)
    BY <1>1 DEF Succeed, Results
  <2> QED BY <2>1, AnswerKeeps
<1>2. ASSUME FailRequest(s)
      PROVE  Inv'
  BY <1>2, AnswerKeeps DEF FailRequest, Results
<1> QED BY <1>1, <1>2, RequestKeeps, FinishKeeps DEF Work

-----------------------------------------------------------------------------
(* The App takes an event. *)
LEMMA DropKeeps ==
  ASSUME Inv, DropStale
  PROVE  Inv'
<1>1. /\ UNCHANGED <<switchVars, announcing, project, appVars, actions, task, fetching, effects>>
      /\ events # <<>> /\ events' = Tail(events)
  BY DEF DropStale
<1>2. events' \in Seq(Event) /\ EventsFit'
  BY <1>1, ReceiveKeeps
<1>3. TypeOK'
  BY <1>1, <1>2 DEF Inv, TypeOK, Switcher!TypeOK, switchVars, appVars
<1>4. UNCHANGED <<shown, data>>
  BY <1>1 DEF appVars
<1> QED BY <1>1, <1>2, <1>3, <1>4, TasksStay, ScreenStays, QueuesStay DEF Inv

(* What passes the gate is of the present epoch, so it is no older than    *)
(* the screen, which is of some epoch up to now.                           *)
LEMMA HandleKeeps ==
  ASSUME Inv, HandleEvent
  PROVE  Inv'
<1>1. /\ UNCHANGED <<switchVars, announcing, project, forwarding, issued, task, fetching, effects>>
      /\ events # <<>> /\ events' = Tail(events) /\ ~Stale(Head(events))
      /\ \/ HandleChanged(Head(events)) \/ HandleLoaded(Head(events))
         \/ HandleDone(Head(events)) \/ HandleOther(Head(events))
  BY DEF HandleEvent
<1>2. /\ events' \in Seq(Event) /\ EventsFit'
      /\ Head(events) \in Event /\ EventFits(Head(events))
  BY <1>1, ReceiveKeeps
<1> PICK e \in Event : e = Head(events)
  BY <1>2
<1>3. e.epoch = epoch /\ epoch \in Nat
  BY <1>1, <1>2 DEF Stale, EventFits, Event, Inv, TypeOK, Switcher!TypeOK
<1>4. actions' \in Seq(Action) /\ ActionsFit'
  <2>1. CASE SendAction("fetch")
    BY <1>1, <2>1, SendKeeps DEF Kind
  <2>2. CASE UNCHANGED actions
    BY <1>1, <2>2, QueuesStay DEF Inv, TypeOK
  <2> QED BY <1>1, <2>1, <2>2 DEF HandleChanged, HandleLoaded, HandleDone, HandleOther
<1>5. /\ shown' \in Switcher!Snapshot \cup {Switcher!NoSnapshot}
      /\ data' \in [scope: Scope, epoch: Nat] \cup {NoData}
      /\ ScreenFits' /\ DataNotOlderThanScreen'
  <2>1. CASE HandleChanged(e)
    <3>1. shown' = [target |-> e.scope, epoch |-> epoch] /\ data' = NoData /\ e.scope \in Scope
      BY <1>2, <1>3, <2>1 DEF HandleChanged, EventFits
    <3>2. shown' \in Switcher!Snapshot /\ shown'.epoch = epoch
      BY <1>3, <3>1 DEF Switcher!Snapshot
    <3> QED BY <1>1, <1>3, <3>1, <3>2 DEF Inv, ScreenFits, DataNotOlderThanScreen, switchVars
  <2>2. CASE HandleLoaded(e)
    <3>1. data' = [scope |-> e.scope, epoch |-> epoch] /\ shown' = shown /\ e.scope \in Scope
      BY <1>2, <1>3, <2>2 DEF HandleLoaded, EventFits
    <3>2. data' \in [scope: Scope, epoch: Nat] /\ data'.epoch = epoch
      BY <1>3, <3>1
    <3> QED BY <1>1, <1>3, <3>1, <3>2
            DEF Inv, TypeOK, ScreenFits, DataNotOlderThanScreen, switchVars
  <2>3. CASE UNCHANGED <<shown, data>>
    BY <1>1, <2>3, ScreenStays DEF Inv, TypeOK
  <2> QED BY <1>1, <2>1, <2>2, <2>3 DEF HandleDone, HandleOther
<1>6. TypeOK'
  BY <1>1, <1>2, <1>4, <1>5 DEF Inv, TypeOK, Switcher!TypeOK, switchVars
<1> QED BY <1>1, <1>2, <1>4, <1>5, <1>6, TasksStay DEF Inv

-----------------------------------------------------------------------------
(* The switcher begins an epoch, in which no stamp is current yet, or acts *)
(* while it is switching, when no current stamp is calm.                   *)
LEMMA SwitcherMoves ==
  ASSUME Switcher!TypeOK, Switcher!Next
  PROVE  /\ Switcher!TypeOK' /\ epoch \in Nat
         /\ \/ epoch' = epoch + 1
            \/ epoch' = epoch /\ switching
         /\ current' # current => current' \in Switcher!Snapshot /\ current'.epoch <= epoch'
<1>1. CASE Switcher!Begin
  BY <1>1 DEF Switcher!TypeOK, Switcher!Begin
<1>2. ASSUME NEW target \in Scope, Switcher!Activate(target)
      PROVE  Switcher!TypeOK' /\ epoch \in Nat /\ epoch' = epoch /\ switching /\ current' = current
  BY <1>2 DEF Switcher!TypeOK, Switcher!Activate
<1>3. CASE Switcher!Revert
  <2>1. Switcher!HomeScope \in Scope
    BY ScopeAssumption DEF Switcher!TypeOK, Switcher!HomeScope, Switcher!Snapshot
  <2> QED BY <1>3, <2>1 DEF Switcher!TypeOK, Switcher!Revert
<1>4. CASE Switcher!Commit
  <2>1. current' \in Switcher!Snapshot /\ current'.epoch = epoch
    BY <1>4 DEF Switcher!TypeOK, Switcher!Commit, Switcher!Snapshot
  <2>2. epoch' = epoch /\ epoch <= epoch' /\ switching /\ switching' = FALSE /\ active' = active
    BY <1>4 DEF Switcher!TypeOK, Switcher!Commit
  <2> QED BY <2>1, <2>2 DEF Switcher!TypeOK
<1>5. CASE Switcher!Abort
  BY <1>5 DEF Switcher!TypeOK, Switcher!Abort
<1> QED BY <1>1, <1>2, <1>3, <1>4, <1>5 DEF Switcher!Next

LEMMA SwitchKeeps ==
  ASSUME Inv, SwitchStep
  PROVE  Inv'
<1>1. /\ UNCHANGED <<project, appVars, actions, task, fetching, events, effects>>
      /\ announcing' = IF current' # current THEN announcing \cup {current'} ELSE announcing
      /\ Switcher!Next
  BY DEF SwitchStep, Switcher!SwitchMoves
<1>2. /\ Switcher!TypeOK' /\ epoch \in Nat
      /\ \/ epoch' = epoch + 1
         \/ epoch' = epoch /\ switching
      /\ current' # current => current' \in Switcher!Snapshot /\ current'.epoch <= epoch'
  BY <1>1, SwitcherMoves DEF Inv, TypeOK
<1>3. TypeOK'
  BY <1>1, <1>2 DEF Inv, TypeOK, appVars
<1>4. \A n \in Nat : n <= epoch => n <= epoch'
  BY <1>2
<1>5. ASSUME NEW x, x.epoch \in Nat, ActionFits(x)
      PROVE  ActionFits(x)' /\ ~Current(x)'
  <2>1. x.epoch <= epoch
    BY <1>5 DEF ActionFits
  <2>2. x.epoch <= epoch' /\ epoch' \in Nat
    BY <1>2, <1>4, <1>5, <2>1 DEF Switcher!TypeOK
  <2>3. CASE epoch' = epoch + 1
    <3>1. x.epoch # epoch'
      BY <1>2, <1>5, <2>1, <2>3
    <3> QED BY <2>2, <3>1 DEF ActionFits, Current
  <2>4. CASE epoch' = epoch /\ switching
    <3>1. ~(x.calm /\ x.epoch = epoch)
      BY <1>5, <2>4 DEF ActionFits, Current
    <3> QED BY <2>2, <2>4, <3>1 DEF ActionFits, Current
  <2> QED BY <1>2, <2>3, <2>4
<1>6. ASSUME NEW x, x.epoch \in Nat, EventFits(x)
      PROVE  EventFits(x)'
  <2>1. x.epoch <= epoch /\ (x.kind \in {"changed", "loaded"} => x.scope \in Scope)
    BY <1>6 DEF EventFits
  <2>2. x.epoch <= epoch' /\ epoch' \in Nat
    BY <1>2, <1>4, <1>6, <2>1 DEF Switcher!TypeOK
  <2>3. CASE epoch' = epoch + 1
    <3>1. x.epoch # epoch'
      BY <1>2, <1>6, <2>1, <2>3
    <3> QED BY <2>1, <2>2, <3>1 DEF EventFits, Current
  <2>4. CASE epoch' = epoch /\ switching
    <3>1. x.kind \in Results => ~(x.calm /\ x.epoch = epoch)
      BY <1>6, <2>4 DEF EventFits, Current
    <3> QED BY <2>1, <2>2, <2>4, <3>1 DEF EventFits, Current
  <2> QED BY <1>2, <2>3, <2>4
<1>7. ActionsFit'
  <2>1. \A i \in DOMAIN actions : actions[i].epoch \in Nat
    BY QueueShape DEF Inv
  <2> QED BY <1>1, <1>5, <2>1 DEF Inv, ActionsFit
<1>8. EventsFit'
  <2>1. \A i \in DOMAIN events : events[i].epoch \in Nat
    BY QueueShape DEF Inv
  <2> QED BY <1>1, <1>6, <2>1 DEF Inv, EventsFit
<1>9. TasksFit'
  <2> SUFFICES ASSUME NEW s \in Slot, task[s] # Free
               PROVE  /\ ActionFits(task[s].action)'
                      /\ ~Current(task[s].action)'
    BY <1>1 DEF TasksFit, TaskFits
  <2>1. task[s].action.epoch \in Nat /\ ActionFits(task[s].action)
    BY TaskShape DEF Inv, TasksFit, TaskFits, Action
  <2> QED BY <1>1, <1>5, <2>1
<1>10. ScreenFits'
  <2>1. /\ shown.epoch \in Nat /\ current.epoch \in Nat
        /\ \A snapshot \in announcing : snapshot.epoch \in Nat
    BY DEF Inv, TypeOK, Switcher!TypeOK, Switcher!Snapshot, Switcher!NoSnapshot
  <2> QED BY <1>1, <1>2, <1>4, <2>1 DEF Inv, ScreenFits, appVars
<1>11. KeyIsHeldByOneFetch' /\ DataNotOlderThanScreen'
  BY <1>1 DEF Inv, KeyIsHeldByOneFetch, FetchRuns, DataNotOlderThanScreen, appVars
<1> QED BY <1>3, <1>7, <1>8, <1>9, <1>10, <1>11 DEF Inv

LEMMA AskAgainKeeps ==
  ASSUME Inv, SwitchToSame
  PROVE  Inv'
<1>1. /\ UNCHANGED <<switchVars, project, appVars, actions, task, fetching, events, effects>>
      /\ announcing' = announcing \cup {current} /\ current # Switcher!NoSnapshot
  BY DEF SwitchToSame, Switcher!AskAgain, Switcher!vars, switchVars
<1>2. current \in Switcher!Snapshot
  BY <1>1 DEF Inv, TypeOK, Switcher!TypeOK
<1>3. TypeOK'
  BY <1>1, <1>2 DEF Inv, TypeOK, Switcher!TypeOK, switchVars, appVars
<1>4. ScreenFits' /\ DataNotOlderThanScreen'
  BY <1>1 DEF Inv, ScreenFits, DataNotOlderThanScreen, switchVars, appVars
<1> QED BY <1>1, <1>3, <1>4, TasksStay, QueuesStay DEF Inv

LEMMA AnnounceKeeps ==
  ASSUME Inv, Announce
  PROVE  Inv'
<1> PICK snapshot \in announcing :
      /\ events' = Append(events, [kind |-> "changed", epoch |-> snapshot.epoch,
                                   scope |-> snapshot.target, calm |-> TRUE])
      /\ announcing' = announcing \ {snapshot}
      /\ UNCHANGED <<switchVars, project, appVars, actions, task, fetching, effects>>
  BY DEF Announce, Switcher!Tell, Switcher!vars, switchVars
<1> DEFINE e == [kind |-> "changed", epoch |-> snapshot.epoch,
                 scope |-> snapshot.target, calm |-> TRUE]
<1>1. snapshot.epoch \in Nat /\ snapshot.target \in Scope /\ snapshot.epoch <= epoch
  BY DEF Inv, TypeOK, ScreenFits, Switcher!Snapshot
<1>2. e \in Event /\ EventFits(e)
  BY <1>1 DEF Event, EventKind, EventFits, Results
<1> HIDE DEF e
<1>3. events' \in Seq(Event) /\ EventsFit'
  BY <1>2, EmitKeeps DEF e
<1>4. TypeOK'
  BY <1>3 DEF Inv, TypeOK, Switcher!TypeOK, switchVars, appVars
<1>5. ScreenFits' /\ DataNotOlderThanScreen'
  BY DEF Inv, ScreenFits, DataNotOlderThanScreen, switchVars, appVars
<1> QED BY <1>3, <1>4, <1>5, TasksStay, QueuesStay DEF Inv

-----------------------------------------------------------------------------
LEMMA Step == Inv /\ [Next]_vars => Inv'
<1> SUFFICES ASSUME Inv, [Next]_vars
             PROVE  Inv'
  OBVIOUS
<1>1. CASE UNCHANGED vars
  <2>1. UNCHANGED <<switchVars, announcing, shown, data, actions, task, fetching, events>>
    BY <1>1 DEF vars, switchVars
  <2>2. TypeOK'
    BY <1>1 DEF vars, Inv, TypeOK, Switcher!TypeOK
  <2> QED BY <2>1, <2>2, TasksStay, ScreenStays, QueuesStay DEF Inv
<1> QED BY <1>1, UserKeeps, ForwardKeeps, DropKeeps, HandleKeeps, RefuseKeeps, SkipKeeps,
           SpawnKeeps, WorkKeeps, SwitchKeeps, AskAgainKeeps, AnnounceKeeps
       DEF Next, App, Worker

LEMMA Invariance == Spec => []Inv
BY Initially, Step, PTL DEF Spec

(* Every reachable state is well typed; in particular what was loaded has  *)
(* a scope, and what is announced was committed.                           *)
THEOREM TypeCorrect == Spec => []TypeOK
BY Invariance, PTL DEF Inv

(* The list on screen is never older than the context on screen            *)
(* (handle_versioned_event).                                               *)
THEOREM DataKeepsUp == Spec => []DataNotOlderThanScreen
BY Invariance, PTL DEF Inv

(* in_flight_fetches holds the key of a list exactly while one fetch of it *)
(* runs (run_worker).                                                      *)
THEOREM KeyFollowsFetch == Spec => []KeyIsHeldByOneFetch
BY Invariance, PTL DEF Inv

(* A result the gate would let through was obtained under the scope in     *)
(* force, if no switch was in flight when its action was stamped.          *)
THEOREM GateSeparatesScopes == Spec => []AcceptableIsInForce
<1>1. Inv => AcceptableIsInForce
  <2> SUFFICES ASSUME Inv, NEW i \in DOMAIN events, events[i].calm, ~Stale(events[i]),
                      events[i].kind \in Results
               PROVE  events[i].scope = active
    BY DEF AcceptableIsInForce, Results
  <2>1. events[i].epoch \in Nat /\ epoch \in Nat
    BY QueueShape DEF Inv, TypeOK, Switcher!TypeOK
  <2>2. EventFits(events[i])
    BY DEF Inv, EventsFit
  <2>3. events[i].epoch = epoch
    BY <2>1, <2>2 DEF EventFits, Stale
  <2> QED BY <2>2, <2>3 DEF EventFits, Current
<1> QED BY <1>1, Invariance, PTL

-----------------------------------------------------------------------------
(* The queue as far as it is about contexts, place by place. *)
LEMMA ContextsShape ==
  ASSUME NEW q \in Seq(Event)
  PROVE  LET C == {Changed(e) : e \in Event} IN
         /\ Contexts(q) \in Seq(C) /\ Len(Contexts(q)) = Len(q)
         /\ Len(q) \in Nat /\ DOMAIN q = 1..Len(q) /\ DOMAIN Contexts(q) = 1..Len(q)
         /\ \A i \in 1..Len(q) : q[i] \in Event /\ Contexts(q)[i] = Changed(q[i])
<1> DEFINE C == {Changed(e) : e \in Event}
<1>1. /\ Len(q) \in Nat /\ DOMAIN q = 1..Len(q)
      /\ \A i \in 1..Len(q) : q[i] \in Event
  OBVIOUS
<1>2. \A i \in 1..Len(q) : Changed(q[i]) \in C
  BY <1>1
<1> HIDE DEF C
<1>3. Contexts(q) \in [1..Len(q) -> C] /\ \A i \in 1..Len(q) : Contexts(q)[i] = Changed(q[i])
  BY <1>1, <1>2 DEF Contexts
<1>4. Contexts(q) \in Seq(C) /\ Len(Contexts(q)) = Len(q) /\ DOMAIN Contexts(q) = 1..Len(q)
  BY <1>1, <1>3
<1> QED BY <1>1, <1>3, <1>4 DEF C

(* What is sent, or taken, is so there as well. *)
LEMMA ContextsSent ==
  ASSUME NEW q \in Seq(Event), NEW e \in Event
  PROVE  Contexts(Append(q, e)) = Append(Contexts(q), Changed(e))
<1> DEFINE C == {Changed(x) : x \in Event}
<1>1. /\ Contexts(q) \in Seq(C) /\ Len(Contexts(q)) = Len(q) /\ Len(q) \in Nat
      /\ \A i \in 1..Len(q) : Contexts(q)[i] = Changed(q[i])
  BY ContextsShape
<1>2. /\ Append(q, e) \in Seq(Event) /\ Len(Append(q, e)) = Len(q) + 1
      /\ Append(q, e)[Len(q) + 1] = e
      /\ \A i \in 1..Len(q) : Append(q, e)[i] = q[i]
  OBVIOUS
<1>3. /\ Contexts(Append(q, e)) \in Seq(C) /\ Len(Contexts(Append(q, e))) = Len(q) + 1
      /\ DOMAIN Contexts(Append(q, e)) = 1..Len(q) + 1
      /\ \A i \in 1..Len(q) + 1 : Contexts(Append(q, e))[i] = Changed(Append(q, e)[i])
  BY <1>2, ContextsShape
<1>4. Changed(e) \in C
  OBVIOUS
<1> DEFINE m == Contexts(Append(q, e))
           c == Changed(e)
           p == Contexts(q)
           n == Append(p, c)
<1> HIDE DEF C
<1>5. /\ n \in Seq(C) /\ Len(n) = Len(q) + 1 /\ n[Len(q) + 1] = c
      /\ \A i \in 1..Len(q) : n[i] = p[i]
  <2> HIDE DEF c, p
  <2>1. p \in Seq(C) /\ Len(p) = Len(q) /\ Len(q) \in Nat /\ c \in C
    BY <1>1, <1>4 DEF c, p
  <2> QED BY <2>1
<1>6. \A i \in 1..Len(q) + 1 : m[i] = n[i]
  <2> SUFFICES ASSUME NEW i \in 1..Len(q) + 1
               PROVE  m[i] = n[i]
    OBVIOUS
  <2>1. CASE i = Len(q) + 1
    BY <1>2, <1>3, <1>5, <2>1
  <2>2. CASE i \in 1..Len(q)
    BY <1>1, <1>2, <1>3, <1>5, <2>2
  <2> QED BY <1>1, <2>1, <2>2
<1>7. m \in Seq(C) /\ Len(m) = Len(q) + 1
  BY <1>3
<1> HIDE DEF m, n
<1>8. m = n
  <2>1. m \in Seq(C) /\ n \in Seq(C) /\ Len(m) = Len(n)
    BY <1>5, <1>7
  <2>2. \A i \in 1..Len(m) : m[i] = n[i]
    BY <1>6, <1>7
  <2> QED BY <2>1, <2>2, SeqEqual
<1> QED BY <1>8 DEF m, n

LEMMA ContextsTaken ==
  ASSUME NEW q \in Seq(Event), q # <<>>
  PROVE  /\ Contexts(q) # <<>> /\ Head(Contexts(q)) = Changed(Head(q))
         /\ Contexts(Tail(q)) = Tail(Contexts(q))
<1> DEFINE C == {Changed(x) : x \in Event}
<1>0. Len(q) \in Nat /\ 1 \in 1..Len(q)
  OBVIOUS
<1>1. /\ Contexts(q) \in Seq(C) /\ Len(Contexts(q)) = Len(q)
      /\ \A i \in 1..Len(q) : Contexts(q)[i] = Changed(q[i])
  BY ContextsShape
<1>2. /\ Tail(q) \in Seq(Event) /\ Len(Tail(q)) = Len(q) - 1 /\ Head(q) = q[1]
      /\ \A i \in 1..Len(q) - 1 : Tail(q)[i] = q[i + 1]
  OBVIOUS
<1>3. /\ Contexts(Tail(q)) \in Seq(C) /\ Len(Contexts(Tail(q))) = Len(q) - 1
      /\ \A i \in 1..Len(q) - 1 : Contexts(Tail(q))[i] = Changed(Tail(q)[i])
  BY <1>2, ContextsShape
<1> DEFINE m == Contexts(Tail(q))
           p == Contexts(q)
<1>4. \A i \in 1..Len(q) - 1 : m[i] = p[i + 1]
  BY <1>0, <1>1, <1>2, <1>3
<1>5. p \in Seq(C) /\ Len(p) = Len(q) /\ m \in Seq(C) /\ Len(m) = Len(q) - 1 /\ p[1] = Changed(Head(q))
  BY <1>0, <1>1, <1>2, <1>3
<1> HIDE DEF C, m, p
<1>6. /\ p # <<>> /\ Head(p) = p[1] /\ Tail(p) \in Seq(C) /\ Len(Tail(p)) = Len(q) - 1
      /\ \A i \in 1..Len(q) - 1 : Tail(p)[i] = p[i + 1]
  BY <1>0, <1>1, <1>5
<1>7. m = Tail(p)
  <2>1. Tail(p) \in Seq(C) /\ m \in Seq(C) /\ Len(m) = Len(Tail(p))
    BY <1>5, <1>6
  <2>2. \A i \in 1..Len(m) : m[i] = Tail(p)[i]
    BY <1>4, <1>5, <1>6
  <2> QED BY <2>1, <2>2, SeqEqual
<1> QED BY <1>5, <1>6, <1>7 DEF m, p

(* Each step of the program is one of the contract's, or none that it sees. *)
LEMMA ScreenSeen == ASSUME UNCHANGED <<switchVars, announcing, events, shown>>
  PROVE UNCHANGED <<Switcher!vars, announcing, Contexts(events), shown>>
BY DEF switchVars, Switcher!vars

LEMMA OtherSent ==
  ASSUME TypeOK, NEW e \in Event, e.kind # "changed", events' = Append(events, e),
         UNCHANGED <<switchVars, announcing, shown>>
  PROVE  Switcher!NoticesNext
<1>1. Contexts(events)' = Contexts(events')
  BY DEF Contexts
<1>2. Contexts(events') = Append(Contexts(events), Changed(e))
  BY ContextsSent DEF TypeOK
<1>3. Changed(e) = Switcher!Other
  BY DEF Changed, Switcher!Other, Switcher!NoSnapshot
<1>4. UNCHANGED Switcher!vars
  BY DEF switchVars, Switcher!vars
<1>5. Switcher!SendOther
  BY <1>1, <1>2, <1>3, <1>4 DEF Switcher!SendOther
<1> QED BY <1>5 DEF Switcher!NoticesNext

LEMMA EventTaken ==
  ASSUME TypeOK, events # <<>>, events' = Tail(events), UNCHANGED <<switchVars, announcing>>,
         shown' = IF Changed(Head(events)) = Switcher!Other \/ Switcher!Stale(Changed(Head(events)))
                    THEN shown ELSE Changed(Head(events))
  PROVE  Switcher!NoticesNext
<1>1. Contexts(events)' = Contexts(events')
  BY DEF Contexts
<1>2. /\ Contexts(events) # <<>> /\ Head(Contexts(events)) = Changed(Head(events))
      /\ Contexts(events') = Tail(Contexts(events))
  BY ContextsTaken DEF TypeOK
<1>4. UNCHANGED Switcher!vars
  BY DEF switchVars, Switcher!vars
<1>5. Switcher!Receive
  BY <1>1, <1>2, <1>4 DEF Switcher!Receive
<1> QED BY <1>5 DEF Switcher!NoticesNext

LEMMA SwitchesImplement ==
  ASSUME SwitchStep \/ SwitchToSame
  PROVE  Switcher!NoticesNext
<1>1. UNCHANGED <<events, shown>>
  BY DEF SwitchStep, SwitchToSame, appVars
<1>2. UNCHANGED <<Contexts(events), shown>>
  BY <1>1 DEF Contexts
<1>3. Switcher!SwitchMoves \/ Switcher!AskAgain
  BY DEF SwitchStep, SwitchToSame
<1> QED BY <1>2, <1>3 DEF Switcher!NoticesNext

LEMMA AnnounceImplements ==
  ASSUME TypeOK, Announce
  PROVE  Switcher!NoticesNext
<1> PICK snapshot \in announcing :
      /\ Switcher!Tell(snapshot)
      /\ events' = Append(events, [kind |-> "changed", epoch |-> snapshot.epoch,
                                   scope |-> snapshot.target, calm |-> TRUE])
      /\ UNCHANGED appVars
  BY DEF Announce
<1> DEFINE e == [kind |-> "changed", epoch |-> snapshot.epoch,
                 scope |-> snapshot.target, calm |-> TRUE]
<1>1. snapshot \in [target: Scope, epoch: Nat]
  BY DEF TypeOK, Switcher!Snapshot
<1>2. e \in Event /\ Changed(e) = snapshot
  BY <1>1 DEF Event, EventKind, Changed
<1> HIDE DEF e
<1>3. Contexts(events') = Append(Contexts(events), snapshot)
  BY <1>2, ContextsSent DEF TypeOK, e
<1>4. Contexts(events)' = Contexts(events')
  BY DEF Contexts
<1>5. Switcher!Send /\ UNCHANGED shown
  BY <1>3, <1>4 DEF Switcher!Send, appVars
<1> QED BY <1>5 DEF Switcher!NoticesNext

LEMMA AppImplements ==
  ASSUME Inv, DropStale \/ HandleEvent
  PROVE  Switcher!NoticesNext
<1>1. /\ UNCHANGED <<switchVars, announcing>> /\ events # <<>> /\ events' = Tail(events)
  BY DEF DropStale, HandleEvent
<1>2. events \in Seq(Event) /\ Head(events) \in Event /\ EventFits(Head(events))
  <2>1. events \in Seq(Event) /\ \A i \in DOMAIN events : EventFits(events[i])
    BY DEF Inv, TypeOK, EventsFit
  <2> QED BY <1>1, <2>1, Taken
<1> PICK e \in Event : e = Head(events)
  BY <1>2
<1> DEFINE c == Changed(e)
<1>3. e.kind # "changed" => c = Switcher!Other
  BY DEF Changed, Switcher!Other, Switcher!NoSnapshot
<1>4. e.kind = "changed" => /\ c = [target |-> e.scope, epoch |-> e.epoch]
                            /\ c # Switcher!Other
                            /\ Switcher!Stale(c) <=> Stale(e)
  BY <1>2, ScopeAssumption
  DEF Changed, Switcher!Other, Switcher!NoSnapshot, EventFits, Stale, Switcher!Stale
<1> HIDE DEF c
<1>5. shown' = IF c = Switcher!Other \/ Switcher!Stale(c) THEN shown ELSE c
  <2>1. CASE DropStale
    BY <1>3, <1>4, <2>1 DEF DropStale, appVars
  <2>2. CASE HandleEvent
    BY <1>3, <1>4, <2>2
    DEF HandleEvent, HandleChanged, HandleLoaded, HandleDone, HandleOther
  <2> QED BY <2>1, <2>2
<1> QED BY <1>1, <1>5, EventTaken DEF Inv, c

LEMMA RestImplements ==
  ASSUME Inv, User \/ Forward \/ Worker \/ \E s \in Slot : Work(s)
  PROVE  Switcher!NoticesNext \/ UNCHANGED <<Switcher!vars, announcing, Contexts(events), shown>>
<1>1. CASE \/ User \/ Forward \/ SkipDuplicate
           \/ \E s \in Slot : SpawnTask(s) \/ SendRequest(s) \/ Finish(s)
  <2>1. UNCHANGED <<switchVars, announcing, events, shown>>
    BY <1>1 DEF User, CheckIdle, SendDirectly, Forward, SkipDuplicate, SpawnTask,
                SendRequest, Finish, appVars
  <2> QED BY <2>1, ScreenSeen
<1>2. CASE RefuseAction
  <2>1. /\ UNCHANGED <<switchVars, announcing, shown>> /\ actions # <<>> /\ Refuse(Head(actions))
    BY <1>2 DEF RefuseAction, appVars
  <2>2. PICK action \in Action : action = Head(actions)
    BY <2>1, Taken DEF Inv, TypeOK
  <2> DEFINE e == [kind |-> "refused", epoch |-> action.epoch, scope |-> None, calm |-> action.calm]
  <2>3. e \in Event /\ e.kind # "changed" /\ events' = Append(events, e)
    BY <2>1, <2>2 DEF Refuse, Action, Event, EventKind
  <2> HIDE DEF e
  <2> QED BY <2>1, <2>3, OtherSent DEF Inv
<1>3. ASSUME NEW s \in Slot, NEW kind \in Results, Answer(s, kind)
      PROVE  Switcher!NoticesNext
  <2>1. UNCHANGED <<switchVars, announcing, shown>> /\ task[s].stage = "sent"
    BY <1>3 DEF Answer, appVars
  <2> DEFINE e == [kind |-> kind, epoch |-> task[s].action.epoch, scope |-> task[s].ran,
                   calm |-> task[s].action.calm]
  <2>2. task[s] \in [stage: {"sent", "answered"}, action: Action, ran: Scope]
    BY <2>1, TaskShape DEF Free, Inv
  <2>3. e \in Event /\ e.kind # "changed"
    BY <2>2 DEF Action, Event, EventKind, Results
  <2>4. events' = Append(events, e)
    BY <1>3 DEF Answer
  <2> HIDE DEF e
  <2> QED BY <2>1, <2>3, <2>4, OtherSent DEF Inv
<1>4. ASSUME NEW s \in Slot, Succeed(s) \/ FailRequest(s)
      PROVE  Switcher!NoticesNext
  <2>1. PICK kind \in Results : Answer(s, kind)
    BY <1>4 DEF Succeed, FailRequest, Results
  <2> QED BY <1>3, <2>1
<1> QED BY <1>1, <1>2, <1>4 DEF Worker, Work

(* The screen learns of switches as SwitchNotices says.                    *)
THEOREM NoticesImplemented == Spec => ImplementsNotices
<1>1. Init => Switcher!NoticesInit
  <2>1. Init => events = <<>> /\ Contexts(events) = <<>>
    BY DEF Init, Contexts
  <2> QED BY <2>1 DEF Init, Switcher!NoticesInit
<1>2. Inv /\ [Next]_vars
        => [Switcher!NoticesNext]_<<Switcher!vars, announcing, Contexts(events), shown>>
  <2>1. UNCHANGED vars => UNCHANGED <<switchVars, announcing, events, shown>>
    BY DEF vars, switchVars
  <2> QED BY <2>1, ScreenSeen, SwitchesImplement, AnnounceImplements, AppImplements,
             RestImplements DEF Next, App, Inv
<1> QED BY <1>1, <1>2, Invariance, PTL DEF Spec, ImplementsNotices, Switcher!NoticesSpec
=============================================================================
