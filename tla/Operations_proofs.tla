--------------------------- MODULE Operations_proofs ---------------------------
(***************************************************************************)
(* What becomes of operations, for any of them on any servers, any bounds  *)
(* and any number of switches.                                             *)
(***************************************************************************)
EXTENDS Operations, TLAPS

(* The queue holds the operations that are queued, each once. *)
QueueFits ==
  /\ \A i \in DOMAIN actions : Is(actions[i], "queued")
  /\ \A i, j \in DOMAIN actions : actions[i] = actions[j] => i = j

(* An event is of an operation and has its stamp.                          *)
EventsFit ==
  \A i \in DOMAIN events :
    /\ events[i].epoch <= epoch
    /\ events[i].of \in Slot /\ job[events[i].of] # None
    /\ events[i].epoch = job[events[i].of].epoch

(* What a poller can be started for is on a server. *)
OnServerFits ==
  \A s \in Slot : job[s] # None =>
    /\ job[s].epoch <= epoch
    /\ job[s].op \in OnServer => job[s].on # None

Answers(s) == {i \in DOMAIN events : events[i].of = s /\ events[i].kind \in AnswerKinds}

(* An operation's answer is sent once, when its task leaves "spawned", and *)
(* nothing is told before.                                                 *)
OneAnswer ==
  \A s \in Slot : job[s] # None =>
    /\ job[s].stage \in {"queued", "spawned"} =>
         Answers(s) = {} /\ ~job[s].done /\ job[s].toasts = 0 /\ job[s].audits = 0
    /\ \A i, j \in Answers(s) : i = j
    /\ \A i \in Answers(s) : /\ job[s].toasts = 0 /\ job[s].audits = 0
                             /\ job[s].done => events[i].kind \in {"succeeded", "failed"}

(* What App is about to send has a slot of its own.                        *)
OrderFits ==
  forwarding # None =>
    /\ job[forwarding.slot] = None
    /\ forwarding.on # None <=> forwarding.op \in OnServer

(* What has a home and the present stamp was sent since the screen is on   *)
(* the context in force; and what is shown has the screen's home.          *)
HomeFits ==
  \A s \in Slot : job[s] # None /\ job[s].home # None /\ job[s].epoch = epoch =>
    ~switching /\ landed = standing /\ job[s].home = landed
ShownFits ==
  progress # None => /\ source \in Slot /\ job[source] # None
                     /\ job[source].home \in {None, landed}

ContextFits == OrderFits /\ HomeFits /\ ShownFits

Inv == /\ TypeOK /\ QueueFits /\ EventsFit /\ OnServerFits /\ OneAnswer
       /\ PolledByOneTask /\ ContextFits /\ EveryOutcomeTold /\ EveryChangeAudited

-----------------------------------------------------------------------------
(* What moving a job on leaves of it. *)
LEMMA MovedJob ==
  ASSUME TypeOK, NEW s \in Slot, job[s] # None, NEW stage \in Stages, job' = Moved(s, stage)
  PROVE  /\ job' \in [Slot -> Job \cup {None}]
         /\ \A t \in Slot \ {s} : job'[t] = job[t]
         /\ job'[s] \in Job /\ job'[s].stage = stage
         /\ job'[s].op = job[s].op /\ job'[s].on = job[s].on /\ job'[s].epoch = job[s].epoch
         /\ job'[s].done = job[s].done /\ job'[s].home = job[s].home
         /\ job'[s].toasts = job[s].toasts /\ job'[s].audits = job[s].audits
<1>1. job \in [Slot -> Job \cup {None}] /\ job[s] \in Job
  BY DEF TypeOK
<1>2. job'[s] = [job[s] EXCEPT !.stage = stage, !.success = FALSE, !.polls = 0]
  BY <1>1 DEF Moved
<1>3. \A t \in Slot \ {s} : job'[t] = job[t]
  BY <1>1 DEF Moved
<1>4. job'[s] \in Job
  <2>1. 0 \in 0..MaxPolls
    BY BoundAssumption
  <2> QED BY <1>1, <1>2, <2>1 DEF Job
<1>5. job' \in [Slot -> Job \cup {None}]
  BY <1>1, <1>3, <1>4 DEF Moved
<1> QED BY <1>1, <1>2, <1>3, <1>4, <1>5 DEF Job

(* An event goes to the end of the queue. *)
LEMMA Sent ==
  ASSUME TypeOK, NEW e \in Event, events' = Append(events, e)
  PROVE  /\ events' \in Seq(Event) /\ Len(events) \in Nat
         /\ DOMAIN events = 1..Len(events) /\ DOMAIN events' = 1..Len(events) + 1
         /\ \A i \in DOMAIN events : events'[i] = events[i]
         /\ events'[Len(events) + 1] = e
BY DEF TypeOK

LEMMA Received ==
  ASSUME TypeOK, events # <<>>, events' = Tail(events)
  PROVE  /\ events' \in Seq(Event) /\ Head(events) = events[1] /\ events[1] \in Event
         /\ 1 \in DOMAIN events
         /\ \A i \in DOMAIN events' : /\ i \in Nat /\ i + 1 \in DOMAIN events
                                      /\ events'[i] = events[i + 1]
         /\ \A i \in DOMAIN events : i \in Nat /\ (i # 1 => /\ i - 1 \in DOMAIN events'
                                                            /\ events'[i - 1] = events[i])
BY DEF TypeOK

(* What a worker's task sends about its job. *)
LEMMA Emitted ==
  ASSUME TypeOK, NEW s \in Slot, job[s] # None,
         NEW kind \in AnswerKinds \cup {"progress", "polling stopped", "status"}
  PROVE  [kind |-> kind, of |-> s, epoch |-> job[s].epoch] \in Event
<1>1. job[s] \in Job
  BY DEF TypeOK
<1> QED BY <1>1 DEF Event, Job

-----------------------------------------------------------------------------
(* t is as far as before with its answer, and keeps what it was asked for. *)
Unsent(t) == job[t].stage \in {"queued", "spawned"}
Alike(t) ==
  /\ job'[t] = None <=> job[t] = None
  /\ job[t] # None =>
       /\ Unsent(t)' <=> Unsent(t)
       /\ job'[t].op = job[t].op /\ job'[t].on = job[t].on /\ job'[t].epoch = job[t].epoch
       /\ job'[t].done = job[t].done
       /\ job'[t].toasts = job[t].toasts /\ job'[t].audits = job[t].audits

AnswersFit == EventsFit /\ OnServerFits /\ OneAnswer /\ EveryOutcomeTold /\ EveryChangeAudited

LEMMA MovedIsAlike ==
  ASSUME TypeOK, NEW s \in Slot, job[s] # None, NEW stage \in Stages, job' = Moved(s, stage),
         stage \in {"queued", "spawned"} <=> Unsent(s)
  PROVE  \A t \in Slot : Alike(t)
BY MovedJob, NoneAssumption DEF Alike, Unsent

(* A step that sends nothing. *)
LEMMA Quiet ==
  ASSUME Inv, UNCHANGED <<epoch, events>>, \A t \in Slot : Alike(t)
  PROVE  AnswersFit'
<1>1. EventsFit' /\ OnServerFits'
  BY DEF Inv, EventsFit, OnServerFits, Alike
<1>2. \A t \in Slot : Answers(t)' = Answers(t)
  BY DEF Answers
<1>3. OneAnswer'
  BY <1>2 DEF Inv, OneAnswer, Alike, Unsent
<1>4. \A t \in Slot : job[t] # None => (Owed(t)' <=> Owed(t))
  BY DEF Owed, Alike, Unsent
<1>5. EveryOutcomeTold' /\ EveryChangeAudited'
  BY <1>4 DEF Inv, EveryOutcomeTold, EveryChangeAudited, Alike
<1> QED BY <1>1, <1>3, <1>5 DEF AnswersFit

(* A step that sends something that is no answer. *)
LEMMA Report ==
  ASSUME Inv, UNCHANGED epoch, \A t \in Slot : Alike(t),
         NEW e \in Event, events' = Append(events, e), e.kind \notin AnswerKinds,
         e.epoch <= epoch,
         e.of \in Slot /\ job[e.of] # None /\ e.epoch = job[e.of].epoch
  PROVE  AnswersFit'
<1>1. /\ Len(events) \in Nat
      /\ DOMAIN events = 1..Len(events) /\ DOMAIN events' = 1..Len(events) + 1
      /\ \A i \in DOMAIN events : events'[i] = events[i]
      /\ events'[Len(events) + 1] = e
  BY Sent DEF Inv
<1>2. \A i \in DOMAIN events' : i \in DOMAIN events \/ events'[i] = e
  BY <1>1
<1>3. EventsFit'
  BY <1>1, <1>2 DEF Inv, EventsFit, Alike
<1>4. OnServerFits'
  BY DEF Inv, OnServerFits, Alike
<1>5. \A t \in Slot : Answers(t)' = Answers(t)
  BY <1>1, <1>2 DEF Answers
<1>6. OneAnswer'
  <2>1. \A t \in Slot : \A i \in Answers(t) : events'[i] = events[i]
    BY <1>1 DEF Answers
  <2> SUFFICES ASSUME NEW t \in Slot, job'[t] # None
               PROVE  /\ Unsent(t)' => Answers(t)' = {} /\ ~job'[t].done
                                       /\ job'[t].toasts = 0 /\ job'[t].audits = 0
                      /\ \A i, j \in Answers(t)' : i = j
                      /\ \A i \in Answers(t)' :
                           /\ job'[t].toasts = 0 /\ job'[t].audits = 0
                           /\ job'[t].done => events'[i].kind \in {"succeeded", "failed"}
    BY DEF OneAnswer, Unsent
  <2>2. /\ job[t] # None /\ (Unsent(t)' <=> Unsent(t)) /\ job'[t].done = job[t].done
        /\ job'[t].toasts = job[t].toasts /\ job'[t].audits = job[t].audits
    BY DEF Alike
  <2>3. /\ Unsent(t) => Answers(t) = {} /\ ~job[t].done
                        /\ job[t].toasts = 0 /\ job[t].audits = 0
        /\ \A i, j \in Answers(t) : i = j
        /\ \A i \in Answers(t) : /\ job[t].toasts = 0 /\ job[t].audits = 0
                                 /\ job[t].done => events[i].kind \in {"succeeded", "failed"}
    BY <2>2 DEF Inv, OneAnswer, Unsent
  <2> QED BY <1>5, <2>1, <2>2, <2>3
<1>7. \A t \in Slot : job[t] # None => (Owed(t) => Owed(t)')
  BY <1>1 DEF Owed, Alike, Unsent
<1>8. EveryOutcomeTold' /\ EveryChangeAudited'
  BY <1>7 DEF Inv, EveryOutcomeTold, EveryChangeAudited, Alike
<1> QED BY <1>3, <1>4, <1>6, <1>8 DEF AnswersFit

(* A step that sends the answer of s. *)
LEMMA AnswerSent ==
  ASSUME Inv, UNCHANGED epoch, NEW s \in Slot, job[s] # None, Unsent(s),
         \A t \in Slot \ {s} : job'[t] = job[t],
         job'[s] # None, ~Unsent(s)',
         job'[s].op = job[s].op, job'[s].on = job[s].on, job'[s].epoch = job[s].epoch,
         job'[s].toasts = job[s].toasts, job'[s].audits = job[s].audits,
         NEW kind \in AnswerKinds, events' = Emit(kind, s),
         job'[s].done => kind \in {"succeeded", "failed"}
  PROVE  AnswersFit'
<1> DEFINE e == [kind |-> kind, of |-> s, epoch |-> job[s].epoch]
<1>1. e \in Event /\ e.kind = kind /\ e.of = s /\ e.epoch = job[s].epoch
  BY Emitted DEF Inv
<1>2. events' = Append(events, e)
  BY DEF Emit
<1> HIDE DEF e
<1>3. /\ Len(events) \in Nat
      /\ DOMAIN events = 1..Len(events) /\ DOMAIN events' = 1..Len(events) + 1
      /\ \A i \in DOMAIN events : events'[i] = events[i]
      /\ events'[Len(events) + 1] = e
  BY <1>1, <1>2, Sent DEF Inv
<1>4. \A i \in DOMAIN events' : i \in DOMAIN events \/ i = Len(events) + 1
  BY <1>3
<1>6. EventsFit'
  <2>1. job[s].epoch <= epoch
    BY DEF Inv, OnServerFits
  <2> QED BY <1>1, <1>3, <1>4, <2>1 DEF Inv, EventsFit
<1>7. OnServerFits'
  BY DEF Inv, OnServerFits
<1>8. Answers(s) = {} /\ job[s].toasts = 0 /\ job[s].audits = 0
  BY DEF Inv, OneAnswer, Unsent
<1>9. Answers(s)' = {Len(events) + 1}
  BY <1>1, <1>3, <1>4, <1>8 DEF Answers
<1>10. \A t \in Slot \ {s} : Answers(t)' = Answers(t)
  BY <1>1, <1>3, <1>4 DEF Answers
<1>11. OneAnswer'
  <2>1. \A t \in Slot : \A i \in Answers(t) : events'[i] = events[i]
    BY <1>3 DEF Answers
  <2> SUFFICES ASSUME NEW t \in Slot, job'[t] # None
               PROVE  /\ Unsent(t)' => Answers(t)' = {} /\ ~job'[t].done
                                       /\ job'[t].toasts = 0 /\ job'[t].audits = 0
                      /\ \A i, j \in Answers(t)' : i = j
                      /\ \A i \in Answers(t)' :
                           /\ job'[t].toasts = 0 /\ job'[t].audits = 0
                           /\ job'[t].done => events'[i].kind \in {"succeeded", "failed"}
    BY DEF OneAnswer, Unsent
  <2>2. CASE t = s
    BY <1>1, <1>3, <1>8, <1>9, <2>2
  <2>3. CASE t # s
    BY <1>10, <2>1, <2>3 DEF Inv, OneAnswer, Unsent
  <2> QED BY <2>2, <2>3
<1>12. Owed(s)'
  BY <1>1, <1>3 DEF Owed
<1>13. \A t \in Slot \ {s} : job[t] # None => (Owed(t) => Owed(t)')
  BY <1>3 DEF Owed
<1>14. EveryOutcomeTold' /\ EveryChangeAudited'
  BY <1>8, <1>12, <1>13 DEF Inv, EveryOutcomeTold, EveryChangeAudited
<1> QED BY <1>6, <1>7, <1>11, <1>14 DEF AnswersFit

-----------------------------------------------------------------------------
(* A step that neither sends an operation nor touches the screen.          *)
SameStamp(t) ==
  /\ job'[t] = None <=> job[t] = None
  /\ job[t] # None => job'[t].epoch = job[t].epoch /\ job'[t].home = job[t].home

LEMMA MovedKeepsStamp ==
  ASSUME TypeOK, NEW s \in Slot, job[s] # None, NEW stage \in Stages, job' = Moved(s, stage)
  PROVE  \A t \in Slot : SameStamp(t)
BY MovedJob, NoneAssumption DEF SameStamp

LEMMA ContextSame ==
  ASSUME Inv, UNCHANGED <<epoch, switching, standing, forwarding, progress, source, landed>>,
         \A t \in Slot : SameStamp(t)
  PROVE  ContextFits'
<1>1. forwarding # None => forwarding.slot \in Slot
  BY DEF Inv, TypeOK, Order
<1>2. OrderFits'
  BY <1>1 DEF Inv, ContextFits, OrderFits, SameStamp
<1>3. HomeFits' /\ ShownFits'
  BY DEF Inv, ContextFits, HomeFits, ShownFits, SameStamp
<1> QED BY <1>2, <1>3 DEF ContextFits

-----------------------------------------------------------------------------
(* polling_servers and the tasks that poll. *)
LEMMA PollersSame ==
  ASSUME Inv, polled' = polled,
         \A t \in Slot : (Polls(t)' <=> Polls(t)) /\ (Polls(t) => job'[t].on = job[t].on)
  PROVE  PolledByOneTask'
<1>1. {job'[t].on : t \in {u \in Slot : Polls(u)'}} = {job[t].on : t \in {u \in Slot : Polls(u)}}
  OBVIOUS
<1>2. \A t, u \in Slot : Polls(t)' /\ Polls(u)' /\ job'[t].on = job'[u].on => t = u
  BY DEF Inv, PolledByOneTask
<1> QED BY <1>1, <1>2 DEF Inv, PolledByOneTask

(* A job that moves on and is neither before nor after with a poller. *)
LEMMA MovedElsewhere ==
  ASSUME TypeOK, NEW s \in Slot, job[s] # None, NEW stage \in Stages, job' = Moved(s, stage),
         Polls(s) <=> stage \in {"polling", "stopped"}
  PROVE  \A t \in Slot : (Polls(t)' <=> Polls(t)) /\ (Polls(t) => job'[t].on = job[t].on)
BY MovedJob, NoneAssumption DEF Polls, Is

LEMMA QueueSame ==
  ASSUME Inv, actions' = actions,
         \A t \in Slot : Is(t, "queued") => Is(t, "queued")'
  PROVE  QueueFits'
<1>1. \A i \in DOMAIN actions : actions[i] \in Slot
  BY DEF Inv, TypeOK
<1> QED BY <1>1 DEF Inv, QueueFits

LEMMA OperationsInit == Init => Inv
<1> SUFFICES ASSUME Init
             PROVE  Inv
  OBVIOUS
<1>1. /\ \A s \in Slot : job[s] = None
      /\ events = <<>> /\ actions = <<>> /\ polled = {} /\ progress = None
      /\ epoch = 0 /\ standing = 0 /\ forwarding = None /\ source = 0 /\ landed = 0
  BY DEF Init
<1>2. TypeOK
  <2>1. role \in Role /\ switching \in BOOLEAN
    BY DEF Init
  <2>2. epoch \in 0..MaxSwitches
    BY <1>1, BoundAssumption
  <2>3. job \in [Slot -> Job \cup {None}]
    BY DEF Init
  <2>4. actions \in Seq(Slot) /\ events \in Seq(Event)
    BY <1>1
  <2> QED BY <1>1, <2>1, <2>2, <2>3, <2>4 DEF TypeOK
<1>3. QueueFits /\ EventsFit
  BY <1>1 DEF QueueFits, EventsFit
<1>4. OnServerFits /\ OneAnswer /\ EveryOutcomeTold /\ EveryChangeAudited
  BY <1>1 DEF OnServerFits, OneAnswer, EveryOutcomeTold, EveryChangeAudited
<1>5. PolledByOneTask
  BY <1>1 DEF PolledByOneTask, Polls, Is
<1>6. ContextFits
  BY <1>1 DEF ContextFits, OrderFits, HomeFits, ShownFits
<1> QED BY <1>2, <1>3, <1>4, <1>5, <1>6 DEF Inv

LEMMA SendKeeps ==
  ASSUME Inv, NEW s \in Slot, NEW op \in Asked, NEW on \in Server \cup {None}, Send(s, op, on),
         job[s] = None, on # None <=> op \in OnServer, forwarding' = None
  PROVE  Inv'
<1>1. /\ actions' = Append(actions, s)
      /\ UNCHANGED <<role, epoch, switching, standing, polled, events, progress, source, landed>>
  BY DEF Send, screen, switcher
<1>2. job \in [Slot -> Job \cup {None}] /\ epoch \in Nat /\ landed \in Nat /\ actions \in Seq(Slot)
  BY BoundAssumption DEF Inv, TypeOK
<1>3. /\ job' \in [Slot -> Job \cup {None}] /\ \A t \in Slot \ {s} : job'[t] = job[t]
      /\ job'[s] # None /\ job'[s].op = op /\ job'[s].on = on /\ job'[s].epoch = epoch
      /\ job'[s].stage = "queued" /\ job'[s].done = FALSE
      /\ job'[s].toasts = 0 /\ job'[s].audits = 0
      /\ job'[s].home = IF switching \/ landed # standing THEN None ELSE landed
  <2> DEFINE home == IF switching \/ landed # standing THEN None ELSE landed
             new == [op |-> op, on |-> on, epoch |-> epoch, stage |-> "queued", done |-> FALSE,
                     success |-> FALSE, polls |-> 0, toasts |-> 0, audits |-> 0, home |-> home]
  <2>1. new \in Job
    <3>1. 0 \in 0..MaxPolls
      BY BoundAssumption
    <3>2. home \in Nat \cup {None}
      BY <1>2
    <3> HIDE DEF home
    <3> QED BY <1>2, <3>1, <3>2 DEF Job, Stages
  <2>2. job' = [job EXCEPT ![s] = new]
    BY DEF Send
  <2>3. new # None
    BY <2>1, NoneAssumption
  <2> QED BY <1>2, <2>1, <2>2, <2>3
<1>4. TypeOK'
  BY <1>1, <1>2, <1>3 DEF Inv, TypeOK
<1>5. QueueFits'
  <2>1. /\ DOMAIN actions = 1..Len(actions) /\ DOMAIN actions' = 1..Len(actions) + 1
        /\ \A i \in DOMAIN actions : actions'[i] = actions[i] /\ actions[i] \in Slot
        /\ actions'[Len(actions) + 1] = s /\ Len(actions) \in Nat
    BY <1>1, <1>2
  <2>2. \A i \in DOMAIN actions : actions[i] # s
    BY <1>1 DEF Inv, QueueFits, Is
  <2>3. \A i \in DOMAIN actions' : i \in DOMAIN actions \/ i = Len(actions) + 1
    BY <2>1
  <2> QED BY <1>3, <2>1, <2>2, <2>3 DEF Inv, QueueFits, Is
<1>6. \A i \in DOMAIN events : events[i].of # s
  BY <1>1 DEF Inv, EventsFit
<1>7. EventsFit'
  BY <1>1, <1>3, <1>6 DEF Inv, EventsFit
<1>8. OnServerFits'
  BY <1>1, <1>2, <1>3 DEF Inv, OnServerFits
<1>9. Answers(s)' = {} /\ \A t \in Slot : Answers(t)' = Answers(t)
  BY <1>1, <1>6 DEF Answers, AnswerKinds
<1>10. OneAnswer'
  BY <1>1, <1>3, <1>9 DEF Inv, OneAnswer
<1>11. Owed(s)' /\ \A t \in Slot \ {s} : Owed(t)' <=> Owed(t)
  BY <1>1, <1>3 DEF Owed
<1>12. EveryOutcomeTold' /\ EveryChangeAudited'
  BY <1>3, <1>11 DEF Inv, EveryOutcomeTold, EveryChangeAudited
<1>13. PolledByOneTask'
  <2>1. \A t \in Slot : (Polls(t)' <=> Polls(t)) /\ (Polls(t) => job'[t].on = job[t].on)
    BY <1>1, <1>3 DEF Polls, Is
  <2> QED BY <1>1, <2>1, PollersSame
<1>14. ContextFits'
  <2>1. OrderFits'
    BY DEF OrderFits
  <2>2. HomeFits'
    BY <1>1, <1>3 DEF Inv, ContextFits, HomeFits
  <2>3. ShownFits'
    BY <1>1, <1>3 DEF Inv, ContextFits, ShownFits
  <2> QED BY <2>1, <2>2, <2>3 DEF ContextFits
<1> QED BY <1>4, <1>5, <1>7, <1>8, <1>10, <1>12, <1>13, <1>14 DEF Inv

LEMMA AskKeeps ==
  ASSUME Inv, NEW s \in Slot, NEW op \in Asked, NEW on \in Server \cup {None},
         CheckIdle(s, op, on) \/ SendDirectly(s, op, on)
  PROVE  Inv'
<1>1. CASE CheckIdle(s, op, on)
  <2>1. /\ UNCHANGED <<role, epoch, switching, standing, job, actions, polled, events,
                      progress, source, landed>>
        /\ job[s] = None /\ (on # None <=> op \in OnServer)
        /\ forwarding' = [slot |-> s, op |-> op, on |-> on]
    BY <1>1 DEF CheckIdle, Free, screen, switcher
  <2>2. TypeOK' /\ QueueFits' /\ PolledByOneTask'
    BY <2>1 DEF Inv, TypeOK, Order, QueueFits, PolledByOneTask, Polls, Is
  <2>3. AnswersFit'
    BY <2>1, Quiet DEF Alike, Unsent
  <2>4. ContextFits'
    BY <2>1 DEF Inv, ContextFits, OrderFits, HomeFits, ShownFits
  <2> QED BY <2>2, <2>3, <2>4 DEF Inv, AnswersFit
<1>2. CASE SendDirectly(s, op, on)
  BY <1>2, SendKeeps DEF SendDirectly, Free
<1> QED BY <1>1, <1>2

LEMMA ForwardKeeps ==
  ASSUME Inv, Forward
  PROVE  Inv'
<1>1. forwarding \in Order /\ OrderFits
  BY DEF Forward, Inv, TypeOK, ContextFits
<1>2. forwarding.slot \in Slot /\ forwarding.op \in Asked /\ forwarding.on \in Server \cup {None}
  BY <1>1 DEF Order
<1> QED BY <1>1, <1>2, SendKeeps DEF Forward, OrderFits

LEMMA TakeKeeps ==
  ASSUME Inv, TakeAction
  PROVE  Inv'
<1>1. /\ actions # <<>> /\ actions' = Tail(actions)
      /\ UNCHANGED <<role, epoch, switching, standing, polled, forwarding, progress, source, landed>>
  BY DEF TakeAction, screen, switcher
<1> PICK s \in Slot : s = Head(actions)
  BY <1>1 DEF Inv, TypeOK
<1>2. /\ actions' \in Seq(Slot)
      /\ \A i \in DOMAIN actions' : /\ i + 1 \in DOMAIN actions /\ i + 1 # 1
                                    /\ actions'[i] = actions[i + 1] /\ actions'[i] \in Slot
      /\ 1 \in DOMAIN actions /\ actions[1] = s
  BY <1>1 DEF Inv, TypeOK
<1>3. job[s] # None /\ job[s].stage = "queued"
  BY <1>2 DEF Inv, QueueFits, Is
<1>4. PICK stage \in {"spawned", "ended"} :
        /\ job' = Moved(s, stage)
        /\ stage = "spawned" => events' = events
        /\ stage = "ended" => events' = Emit("denied", s)
  BY DEF TakeAction
<1>5. stage \in Stages
  BY DEF Stages
<1>6. /\ job' \in [Slot -> Job \cup {None}] /\ \A t \in Slot \ {s} : job'[t] = job[t]
      /\ job'[s] \in Job /\ job'[s].stage = stage
      /\ job'[s].op = job[s].op /\ job'[s].on = job[s].on /\ job'[s].epoch = job[s].epoch
      /\ job'[s].done = job[s].done
      /\ job'[s].toasts = job[s].toasts /\ job'[s].audits = job[s].audits
  BY <1>2, <1>3, <1>4, <1>5, MovedJob DEF Inv
<1>7. job'[s] # None
  BY <1>6, NoneAssumption
<1>8. AnswersFit'
  <2>1. CASE stage = "spawned"
    <3>1. \A t \in Slot : Alike(t)
      BY <1>2, <1>3, <1>4, <1>5, <2>1, MovedIsAlike DEF Inv, Unsent
    <3> QED BY <1>1, <1>4, <2>1, <3>1, Quiet
  <2>2. CASE stage = "ended"
    <3>1. Unsent(s) /\ ~Unsent(s)'
      BY <1>3, <1>6, <2>2 DEF Unsent
    <3>2. ~job'[s].done
      <4>1. ~job[s].done
        BY <1>2, <1>3 DEF Inv, OneAnswer
      <4> QED BY <1>6, <4>1, Zenon
    <3>3. "denied" \in AnswerKinds /\ events' = Emit("denied", s) /\ epoch' = epoch
      BY <1>1, <1>4, <2>2 DEF AnswerKinds
    <3> QED BY <1>2, <1>3, <1>6, <1>7, <3>1, <3>2, <3>3, AnswerSent
  <2> QED BY <2>1, <2>2
<1>9. events' \in Seq(Event)
  <2>1. CASE stage = "spawned"
    BY <1>4, <2>1 DEF Inv, TypeOK
  <2>2. CASE stage = "ended"
    BY <1>2, <1>3, <1>4, <2>2, Emitted, Sent DEF Inv, Emit, AnswerKinds
  <2> QED BY <2>1, <2>2
<1>10. TypeOK'
  BY <1>1, <1>2, <1>6, <1>9 DEF Inv, TypeOK
<1>11. QueueFits'
  BY <1>2, <1>6 DEF Inv, QueueFits, Is
<1>12. PolledByOneTask'
  <2>1. Polls(s) <=> stage \in {"polling", "stopped"}
    BY <1>3 DEF Polls, Is
  <2> QED BY <1>1, <1>2, <1>3, <1>4, <1>5, <2>1, MovedElsewhere, PollersSame DEF Inv
<1>13. ContextFits'
  BY <1>1, <1>2, <1>3, <1>4, <1>5, MovedKeepsStamp, ContextSame DEF Inv
<1> QED BY <1>8, <1>10, <1>11, <1>12, <1>13 DEF Inv, AnswersFit

LEMMA AnswerKeeps ==
  ASSUME Inv, NEW s \in Slot, CallService(s)
  PROVE  Inv'
<1>1. PICK kind \in AnswerKinds, done \in BOOLEAN :
        Answer(s, kind, done) /\ (done => kind \in {"succeeded", "failed"})
  BY DEF CallService, AnswerKinds
<1>2. /\ job[s] # None /\ job[s].stage = "spawned" /\ events' = Emit(kind, s)
      /\ UNCHANGED <<role, epoch, switching, standing, actions, polled, forwarding, progress, source, landed>>
  BY <1>1 DEF Answer, Is, screen, switcher
<1>3. job \in [Slot -> Job \cup {None}] /\ job[s] \in Job
  BY <1>2 DEF Inv, TypeOK
<1>4. /\ job' \in [Slot -> Job \cup {None}] /\ \A t \in Slot \ {s} : job'[t] = job[t]
      /\ job'[s] \in Job /\ job'[s].stage = "answered" /\ job'[s].done = done
      /\ job'[s].home = job[s].home
      /\ job'[s].op = job[s].op /\ job'[s].on = job[s].on /\ job'[s].epoch = job[s].epoch
      /\ job'[s].toasts = job[s].toasts /\ job'[s].audits = job[s].audits
  <2> DEFINE new == [job[s] EXCEPT !.stage = "answered", !.done = done,
                                   !.success = kind # "failed"]
  <2>1. job' = [job EXCEPT ![s] = new]
    BY <1>1, <1>3 DEF Answer
  <2>2. (kind # "failed") \in BOOLEAN
    OBVIOUS
  <2>3. new \in Job
    BY <1>3, <2>2 DEF Job, Stages
  <2> QED BY <1>3, <2>1, <2>3 DEF Job
<1>5. job'[s] # None
  BY <1>4, NoneAssumption
<1>6. AnswersFit'
  <2>1. Unsent(s) /\ ~Unsent(s)'
    BY <1>2, <1>4 DEF Unsent
  <2>2. job'[s].done => kind \in {"succeeded", "failed"}
    BY <1>1, <1>4
  <2> QED BY <1>2, <1>4, <1>5, <2>1, <2>2, AnswerSent
<1>7. events' \in Seq(Event)
  BY <1>2, Emitted, Sent DEF Inv, Emit
<1>8. TypeOK'
  BY <1>2, <1>4, <1>7 DEF Inv, TypeOK
<1>9. QueueFits'
  BY <1>2, <1>4, QueueSame DEF Is
<1>10. PolledByOneTask'
  <2>1. \A t \in Slot : (Polls(t)' <=> Polls(t)) /\ (Polls(t) => job'[t].on = job[t].on)
    BY <1>2, <1>4, <1>5 DEF Polls, Is
  <2> QED BY <1>2, <2>1, PollersSame
<1>11. ContextFits'
  BY <1>2, <1>4, <1>5, ContextSame DEF SameStamp
<1> QED BY <1>6, <1>8, <1>9, <1>10, <1>11 DEF Inv, AnswersFit

(* polling_servers: a server is taken where it was free, and let go where  *)
(* its one poller ends.                                                    *)
LEMMA StartKeeps ==
  ASSUME Inv, NEW s \in Slot, StartPolling(s)
  PROVE  Inv'
<1>1. /\ job[s] # None /\ job[s].stage = "answered"
      /\ UNCHANGED <<role, epoch, switching, standing, actions, events, forwarding, progress, source, landed>>
  BY DEF StartPolling, Is, screen, switcher
<1>2. PICK stage \in {"polling", "ended"} :
        /\ job' = Moved(s, stage)
        /\ stage = "polling" => polled' = polled \cup {job[s].on} /\ MayPoll(s)
        /\ stage = "ended" => polled' = polled
  BY DEF StartPolling
<1>3. stage \in Stages
  BY DEF Stages
<1>4. /\ job' \in [Slot -> Job \cup {None}] /\ \A t \in Slot \ {s} : job'[t] = job[t]
      /\ job'[s] \in Job /\ job'[s].stage = stage /\ job'[s].on = job[s].on
  BY <1>1, <1>2, <1>3, MovedJob DEF Inv
<1>5. job'[s] # None
  BY <1>4, NoneAssumption
<1>6. AnswersFit'
  <2>1. \A t \in Slot : Alike(t)
    BY <1>1, <1>2, <1>3, MovedIsAlike DEF Inv, Unsent
  <2> QED BY <1>1, <2>1, Quiet
<1>7. polled' \subseteq Server
  <2>1. CASE stage = "polling"
    <3>1. job[s].op \in OnServer /\ job[s].on \in Server \cup {None}
      BY <1>1, <1>2, <2>1 DEF MayPoll, OnServer, Inv, TypeOK, Job
    <3>2. job[s].on \in Server
      BY <1>1, <3>1 DEF Inv, OnServerFits
    <3> QED BY <1>2, <2>1, <3>2 DEF Inv, TypeOK
  <2>2. CASE stage = "ended"
    BY <1>2, <2>2 DEF Inv, TypeOK
  <2> QED BY <2>1, <2>2
<1>8. TypeOK'
  BY <1>1, <1>4, <1>7 DEF Inv, TypeOK
<1>9. QueueFits'
  BY <1>1, <1>4, QueueSame DEF Is
<1>10. PolledByOneTask'
  <2>1. CASE stage = "polling"
    <3>1. ~Polls(s) /\ Polls(s)' /\ \A t \in Slot \ {s} : Polls(t)' <=> Polls(t)
      BY <1>1, <1>4, <1>5, <2>1 DEF Polls, Is
    <3>2. job[s].on \notin polled
      BY <1>2, <2>1 DEF MayPoll
    <3>3. polled = {job[t].on : t \in {u \in Slot : Polls(u)}}
      BY DEF Inv, PolledByOneTask
    <3>4. polled' = {job'[t].on : t \in {u \in Slot : Polls(u)'}}
      BY <1>2, <1>4, <2>1, <3>1, <3>3
    <3>5. \A t \in Slot \ {s} : Polls(t)' => job'[t].on # job'[s].on
      BY <1>4, <3>1, <3>2, <3>3
    <3>6. \A t, u \in Slot : Polls(t)' /\ Polls(u)' /\ job'[t].on = job'[u].on => t = u
      BY <1>4, <3>1, <3>5 DEF Inv, PolledByOneTask
    <3> QED BY <3>4, <3>6 DEF PolledByOneTask
  <2>2. CASE stage = "ended"
    <3>1. Polls(s) <=> stage \in {"polling", "stopped"}
      BY <1>1, <2>2 DEF Polls, Is
    <3> QED BY <1>1, <1>2, <1>3, <2>2, <3>1, MovedElsewhere, PollersSame DEF Inv
  <2> QED BY <2>1, <2>2
<1>11. ContextFits'
  BY <1>1, <1>2, <1>3, MovedKeepsStamp, ContextSame DEF Inv
<1> QED BY <1>6, <1>8, <1>9, <1>10, <1>11 DEF Inv, AnswersFit

LEMMA LetGoKeeps ==
  ASSUME Inv, NEW s \in Slot, LetGo(s)
  PROVE  Inv'
<1>1. /\ job[s] # None /\ job[s].stage = "stopped" /\ job' = Moved(s, "ended")
      /\ polled' = polled \ {job[s].on}
      /\ UNCHANGED <<role, epoch, switching, standing, actions, events, forwarding, progress, source, landed>>
  BY DEF LetGo, Is, screen, switcher
<1>2. "ended" \in Stages
  BY DEF Stages
<1>3. /\ job' \in [Slot -> Job \cup {None}] /\ \A t \in Slot \ {s} : job'[t] = job[t]
      /\ job'[s] \in Job /\ job'[s].stage = "ended" /\ job'[s].on = job[s].on
  BY <1>1, <1>2, MovedJob DEF Inv
<1>4. AnswersFit'
  <2>1. \A t \in Slot : Alike(t)
    BY <1>1, <1>2, MovedIsAlike DEF Inv, Unsent
  <2> QED BY <1>1, <2>1, Quiet
<1>5. TypeOK'
  BY <1>1, <1>3 DEF Inv, TypeOK
<1>6. QueueFits'
  BY <1>1, <1>3, QueueSame DEF Is
<1>7. PolledByOneTask'
  <2>1. Polls(s) /\ ~Polls(s)' /\ \A t \in Slot \ {s} : Polls(t)' <=> Polls(t)
    BY <1>1, <1>3 DEF Polls, Is
  <2>2. /\ polled = {job[t].on : t \in {u \in Slot : Polls(u)}}
        /\ \A t, u \in Slot : Polls(t) /\ Polls(u) /\ job[t].on = job[u].on => t = u
    BY DEF Inv, PolledByOneTask
  <2>3. polled' = {job'[t].on : t \in {u \in Slot : Polls(u)'}}
    BY <1>1, <1>3, <2>1, <2>2
  <2>4. \A t, u \in Slot : Polls(t)' /\ Polls(u)' /\ job'[t].on = job'[u].on => t = u
    BY <1>3, <2>1, <2>2
  <2> QED BY <2>3, <2>4 DEF PolledByOneTask
<1>8. ContextFits'
  BY <1>1, <1>2, MovedKeepsStamp, ContextSame DEF Inv
<1> QED BY <1>4, <1>5, <1>6, <1>7, <1>8 DEF Inv, AnswersFit

LEMMA PollKeeps ==
  ASSUME Inv, NEW s \in Slot, Poll(s)
  PROVE  Inv'
<1>1. PICK kind \in {"progress", "status"} :
        /\ job[s] # None /\ job[s].stage = "polling" /\ job[s].polls < MaxPolls
        /\ events' = Emit(kind, s) /\ job' = [job EXCEPT ![s].polls = @ + 1]
        /\ UNCHANGED <<role, epoch, switching, standing, actions, polled, forwarding, progress, source, landed>>
  BY DEF Poll, Is, screen, switcher
<1>2. job \in [Slot -> Job \cup {None}] /\ job[s] \in Job /\ MaxPolls \in Nat
  BY <1>1, BoundAssumption DEF Inv, TypeOK
<1>3. /\ job' \in [Slot -> Job \cup {None}] /\ \A t \in Slot \ {s} : job'[t] = job[t]
      /\ job'[s] \in Job /\ job'[s].stage = job[s].stage /\ job'[s].done = job[s].done
      /\ job'[s].home = job[s].home
      /\ job'[s].op = job[s].op /\ job'[s].on = job[s].on /\ job'[s].epoch = job[s].epoch
      /\ job'[s].toasts = job[s].toasts /\ job'[s].audits = job[s].audits
  <2> DEFINE new == [job[s] EXCEPT !.polls = @ + 1]
  <2>1. job' = [job EXCEPT ![s] = new]
    BY <1>1, <1>2
  <2>2. job[s].polls + 1 \in 0..MaxPolls
    BY <1>1, <1>2 DEF Job
  <2>3. new \in Job
    BY <1>2, <2>2 DEF Job
  <2> QED BY <1>2, <2>1, <2>3 DEF Job
<1>4. job'[s] # None
  BY <1>3, NoneAssumption
<1>5. \A t \in Slot : Alike(t)
  BY <1>1, <1>3, <1>4 DEF Alike, Unsent
<1> DEFINE e == [kind |-> kind, of |-> s, epoch |-> job[s].epoch]
<1>6. e \in Event /\ events' = Append(events, e)
  BY <1>1, Emitted DEF Inv, Emit
<1>7. job[s].epoch <= epoch
  BY <1>1 DEF Inv, OnServerFits
<1>8. e.kind \notin AnswerKinds /\ e.of = s /\ e.epoch = job[s].epoch
  BY DEF AnswerKinds
<1> HIDE DEF e
<1>9. AnswersFit'
  BY <1>1, <1>5, <1>6, <1>7, <1>8, Report
<1>10. TypeOK'
  <2>1. events' \in Seq(Event)
    BY <1>6, Sent DEF Inv
  <2> QED BY <1>1, <1>3, <2>1 DEF Inv, TypeOK
<1>11. QueueFits'
  BY <1>1, <1>3, <1>4, QueueSame DEF Is
<1>12. PolledByOneTask'
  <2>1. \A t \in Slot : (Polls(t)' <=> Polls(t)) /\ (Polls(t) => job'[t].on = job[t].on)
    BY <1>1, <1>3, <1>4 DEF Polls, Is
  <2> QED BY <1>1, <2>1, PollersSame
<1>13. ContextFits'
  BY <1>1, <1>3, <1>4, ContextSame DEF SameStamp
<1> QED BY <1>9, <1>10, <1>11, <1>12, <1>13 DEF Inv, AnswersFit

LEMMA StopKeeps ==
  ASSUME Inv, NEW s \in Slot, StopPolling(s)
  PROVE  Inv'
<1>1. /\ job[s] # None /\ job[s].stage = "polling" /\ job' = Moved(s, "stopped")
      /\ UNCHANGED <<role, epoch, switching, standing, actions, polled, forwarding, progress, source, landed>>
      /\ events' \in {events, Emit("polling stopped", s)}
  BY DEF StopPolling, Is, screen, switcher
<1>2. "stopped" \in Stages
  BY DEF Stages
<1>3. /\ job' \in [Slot -> Job \cup {None}] /\ \A t \in Slot \ {s} : job'[t] = job[t]
      /\ job'[s] \in Job /\ job'[s].stage = "stopped" /\ job'[s].on = job[s].on
  BY <1>1, <1>2, MovedJob DEF Inv
<1>4. \A t \in Slot : Alike(t)
  BY <1>1, <1>2, MovedIsAlike DEF Inv, Unsent
<1> DEFINE e == [kind |-> "polling stopped", of |-> s, epoch |-> job[s].epoch]
<1>5. e \in Event /\ Emit("polling stopped", s) = Append(events, e)
  BY <1>1, Emitted DEF Inv, Emit
<1>6. job[s].epoch <= epoch
  BY <1>1 DEF Inv, OnServerFits
<1>7. e.kind \notin AnswerKinds /\ e.of = s /\ e.epoch = job[s].epoch
  BY DEF AnswerKinds
<1> HIDE DEF e
<1>8. AnswersFit'
  BY <1>1, <1>4, <1>5, <1>6, <1>7, Report, Quiet
<1>9. TypeOK'
  <2>1. events' \in Seq(Event)
    BY <1>1, <1>5, Sent DEF Inv, TypeOK
  <2> QED BY <1>1, <1>3, <2>1 DEF Inv, TypeOK
<1>10. QueueFits'
  BY <1>1, <1>3, QueueSame DEF Is
<1>11. PolledByOneTask'
  <2>1. Polls(s) <=> "stopped" \in {"polling", "stopped"}
    BY <1>1 DEF Polls, Is
  <2> QED BY <1>1, <1>2, <2>1, MovedElsewhere, PollersSame DEF Inv
<1>12. ContextFits'
  BY <1>1, <1>2, MovedKeepsStamp, ContextSame DEF Inv
<1> QED BY <1>8, <1>9, <1>10, <1>11, <1>12 DEF Inv, AnswersFit

-----------------------------------------------------------------------------
LEMMA SwitchKeeps ==
  ASSUME Inv, BeginSwitch \/ \E committed \in BOOLEAN : EndSwitch(committed)
  PROVE  Inv'
<1>1. UNCHANGED <<role, job, actions, polled, forwarding, progress, source, landed>>
  BY DEF BeginSwitch, EndSwitch, screen, switcher
<1>2. QueueFits' /\ PolledByOneTask' /\ OrderFits' /\ ShownFits'
  BY <1>1 DEF Inv, QueueFits, PolledByOneTask, Polls, Is, ContextFits, OrderFits, ShownFits
<1>3. CASE BeginSwitch
  <2>1. epoch' = epoch + 1 /\ events' = events /\ epoch \in Nat /\ TypeOK'
    BY <1>1, <1>3, BoundAssumption DEF BeginSwitch, Inv, TypeOK
  <2>2. \A s \in Slot : job[s] # None => job[s].epoch \in Nat
    BY DEF Inv, TypeOK, Job
  <2>3. EventsFit'
    <3>1. \A i \in DOMAIN events : events[i].epoch \in Nat
      <4>1. \A i \in DOMAIN events : events[i] \in Event
        BY DEF Inv, TypeOK
      <4> QED BY <4>1 DEF Event
    <3> QED BY <1>1, <2>1, <3>1 DEF Inv, EventsFit
  <2>4. OnServerFits'
    BY <1>1, <2>1, <2>2 DEF Inv, OnServerFits
  <2>5. OneAnswer'
    BY <1>1, <2>1 DEF Inv, OneAnswer, Answers
  <2>6. \A s \in Slot : job[s] # None => (Owed(s) => Owed(s)')
    BY <1>1, <2>1, <2>2 DEF Owed
  <2>7. EveryOutcomeTold' /\ EveryChangeAudited'
    BY <1>1, <2>6 DEF Inv, EveryOutcomeTold, EveryChangeAudited
  <2>8. HomeFits'
    <3>1. \A s \in Slot : job[s] # None => job[s].epoch # epoch + 1
      BY <2>1, <2>2 DEF Inv, OnServerFits
    <3> QED BY <1>1, <2>1, <3>1 DEF HomeFits
  <2> QED BY <1>2, <2>1, <2>3, <2>4, <2>5, <2>7, <2>8 DEF Inv, ContextFits
<1>4. ASSUME NEW committed \in BOOLEAN, EndSwitch(committed)
      PROVE  Inv'
  <2>1. \A t \in Slot : Alike(t)
    BY <1>1 DEF Alike, Unsent
  <2>2. epoch' = epoch /\ events' = events /\ switching' = FALSE /\ standing' \in {epoch, standing}
    BY <1>4 DEF EndSwitch
  <2>4. AnswersFit'
    BY <2>1, <2>2, Quiet
  <2>5. TypeOK'
    <3>1. epoch \in Nat
      BY BoundAssumption DEF Inv, TypeOK
    <3>2. standing' \in 0..epoch'
      BY <2>2, <3>1 DEF Inv, TypeOK
    <3> QED BY <1>1, <2>2, <3>2 DEF Inv, TypeOK
  <2>6. HomeFits'
    BY <1>1, <1>4, <2>2 DEF EndSwitch, Inv, ContextFits, HomeFits
  <2> QED BY <1>2, <2>4, <2>5, <2>6 DEF Inv, ContextFits, AnswersFit
<1> QED BY <1>3, <1>4

LEMMA SeeContextKeeps ==
  ASSUME Inv, SeeContext
  PROVE  Inv'
<1>1. /\ UNCHANGED <<role, epoch, switching, standing, forwarding, job, actions, polled, events>>
      /\ progress' = None /\ source' = 0 /\ landed' = standing
  BY DEF SeeContext, switcher
<1>2. \A t \in Slot : Alike(t)
  BY <1>1 DEF Alike, Unsent
<1>3. AnswersFit'
  BY <1>1, <1>2, Quiet
<1>4. TypeOK'
  BY <1>1 DEF Inv, TypeOK
<1>5. QueueFits' /\ PolledByOneTask'
  BY <1>1 DEF Inv, QueueFits, PolledByOneTask, Polls, Is
<1>6. ContextFits'
  BY <1>1 DEF Inv, ContextFits, OrderFits, HomeFits, ShownFits
<1> QED BY <1>3, <1>4, <1>5, <1>6 DEF Inv, AnswersFit

-----------------------------------------------------------------------------
(* What an event does to the jobs: it counts for its own, if it answers.   *)
LEMMA ToldJobs ==
  ASSUME Inv, NEW e \in Event, Tell(e),
         e.of \in Slot /\ job[e.of] # None
  PROVE  /\ job' \in [Slot -> Job \cup {None}]
         /\ \A t \in Slot :
              /\ job'[t] = None <=> job[t] = None
              /\ job[t] # None =>
                   /\ job'[t].stage = job[t].stage /\ job'[t].done = job[t].done
                   /\ job'[t].op = job[t].op /\ job'[t].on = job[t].on
                   /\ job'[t].epoch = job[t].epoch /\ job'[t].home = job[t].home
              /\ ~(e.kind \in AnswerKinds /\ e.of = t) /\ job[t] # None =>
                   job'[t].toasts = job[t].toasts /\ job'[t].audits = job[t].audits
         /\ e.kind \in AnswerKinds =>
              /\ job'[e.of].toasts = job[e.of].toasts + (IF Told(e) THEN 1 ELSE 0)
              /\ job'[e.of].audits = job[e.of].audits + (IF Recorded(e) THEN 1 ELSE 0)
<1>1. job \in [Slot -> Job \cup {None}]
  BY DEF Inv, TypeOK
<1> PICK s \in Slot : s = e.of
  OBVIOUS
<1>2. job[s] \in Job
  BY <1>1
<1> DEFINE told == IF Told(e) THEN 1 ELSE 0
           recorded == IF Recorded(e) THEN 1 ELSE 0
           new == [job[s] EXCEPT !.toasts = @ + told, !.audits = @ + recorded]
<1>3. job' = [job EXCEPT ![s] = new]
  BY <1>1 DEF Tell
<1>4. /\ new \in Job /\ new.stage = job[s].stage /\ new.done = job[s].done
      /\ new.op = job[s].op /\ new.on = job[s].on /\ new.epoch = job[s].epoch
      /\ new.home = job[s].home
      /\ new.toasts = job[s].toasts + told
      /\ new.audits = job[s].audits + recorded
  <2>1. told \in Nat /\ recorded \in Nat
    OBVIOUS
  <2> HIDE DEF told, recorded
  <2> PICK old \in Job : old = job[s]
    BY <1>2
  <2>2. old.toasts + told \in Nat /\ old.audits + recorded \in Nat
    BY <2>1 DEF Job
  <2> QED BY <2>2 DEF Job
<1>5. e.kind \notin AnswerKinds => ~Told(e) /\ ~Recorded(e)
  BY DEF Told, Recorded, AnswerKinds
<1>6. e.kind \notin AnswerKinds => new.toasts = job[s].toasts /\ new.audits = job[s].audits
  BY <1>2, <1>4, <1>5 DEF Job
<1> HIDE DEF new
<1>7. /\ job' \in [Slot -> Job \cup {None}] /\ job'[s] = new /\ new # None
      /\ \A t \in Slot \ {s} : job'[t] = job[t]
  BY <1>1, <1>3, <1>4, NoneAssumption
<1> QED BY <1>2, <1>4, <1>6, <1>7

LEMMA HandleKeeps ==
  ASSUME Inv, HandleEvent
  PROVE  Inv'
<1>1. /\ events # <<>> /\ events' = Tail(events)
      /\ UNCHANGED <<role, epoch, switching, standing, forwarding, actions, polled, landed>>
  BY DEF HandleEvent, switcher
<1>2. /\ events' \in Seq(Event) /\ Head(events) = events[1] /\ events[1] \in Event
      /\ 1 \in DOMAIN events
      /\ \A i \in DOMAIN events' : /\ i \in Nat /\ i + 1 \in DOMAIN events
                                   /\ events'[i] = events[i + 1]
      /\ \A i \in DOMAIN events : i \in Nat /\ (i # 1 => /\ i - 1 \in DOMAIN events'
                                                         /\ events'[i - 1] = events[i])
  BY <1>1, Received DEF Inv
<1> PICK e \in Event : e = events[1]
  BY <1>2
<1>3. /\ e.epoch <= epoch /\ epoch \in Nat /\ e.epoch \in Nat
      /\ e.of \in Slot /\ job[e.of] # None /\ e.epoch = job[e.of].epoch
  <2>1. e.epoch \in Nat
    BY <1>2 DEF Event
  <2>2. epoch \in Nat
    BY BoundAssumption DEF Inv, TypeOK
  <2> QED BY <1>2, <2>1, <2>2 DEF Inv, EventsFit
<1>4. \/ Stale(e) /\ UNCHANGED <<job, progress, source>>
      \/ ~Stale(e) /\ Tell(e) /\ ShowProgress(e)
  BY <1>2 DEF HandleEvent, screen, switcher
(* The jobs, whether the event is dropped or not. *)
<1>5. /\ job' \in [Slot -> Job \cup {None}]
      /\ \A t \in Slot :
           /\ job'[t] = None <=> job[t] = None
           /\ job[t] # None =>
                /\ job'[t].stage = job[t].stage /\ job'[t].done = job[t].done
                /\ job'[t].op = job[t].op /\ job'[t].on = job[t].on
                /\ job'[t].epoch = job[t].epoch /\ job'[t].home = job[t].home
           /\ ~(e.kind \in AnswerKinds /\ e.of = t) /\ job[t] # None =>
                job'[t].toasts = job[t].toasts /\ job'[t].audits = job[t].audits
  <2>1. CASE Tell(e)
    BY <1>3, <2>1, ToldJobs
  <2>2. CASE job' = job
    BY <2>2 DEF Inv, TypeOK
  <2> QED BY <1>4, <2>1, <2>2
<1>7. \A t \in Slot, i \in DOMAIN events' :
        i \in Answers(t)' <=> i + 1 \in Answers(t)
  BY <1>2 DEF Answers
<1>8. ASSUME NEW t \in Slot, job[t] # None, e.kind \in AnswerKinds, e.of = t
      PROVE  /\ Answers(t)' = {} /\ ~Unsent(t)
             /\ job[t].toasts = 0 /\ job[t].audits = 0
             /\ job[t].done => e.kind \in {"succeeded", "failed"}
  <2>1. 1 \in Answers(t)
    BY <1>2, <1>8 DEF Answers
  <2>2. \A i \in Answers(t) : i = 1
    BY <1>8, <2>1 DEF Inv, OneAnswer
  <2>3. \A i \in Answers(t)' : FALSE
    <3>1. \A i \in Answers(t)' : i \in DOMAIN events'
      BY DEF Answers
    <3>2. \A i \in DOMAIN events' : i + 1 # 1
      BY <1>2
    <3> QED BY <1>7, <2>2, <3>1, <3>2
  <2> QED BY <1>8, <2>1, <2>3 DEF Inv, OneAnswer, Unsent
<1>9. EventsFit'
  BY <1>1, <1>2, <1>5 DEF Inv, EventsFit
<1>10. OnServerFits'
  BY <1>1, <1>5 DEF Inv, OnServerFits
<1>11. OneAnswer'
  <2> SUFFICES ASSUME NEW t \in Slot, job'[t] # None
               PROVE  /\ Unsent(t)' => Answers(t)' = {} /\ ~job'[t].done
                                       /\ job'[t].toasts = 0 /\ job'[t].audits = 0
                      /\ \A i, j \in Answers(t)' : i = j
                      /\ \A i \in Answers(t)' :
                           /\ job'[t].toasts = 0 /\ job'[t].audits = 0
                           /\ job'[t].done => events'[i].kind \in {"succeeded", "failed"}
    BY DEF OneAnswer, Unsent
  <2>1. /\ job[t] # None /\ job'[t].done = job[t].done
        /\ Unsent(t)' <=> Unsent(t)
    BY <1>5 DEF Unsent
  <2>2. CASE e.kind \in AnswerKinds /\ e.of = t
    BY <1>8, <2>1, <2>2
  <2>3. CASE ~(e.kind \in AnswerKinds /\ e.of = t)
    <3>1. job'[t].toasts = job[t].toasts /\ job'[t].audits = job[t].audits
      BY <1>5, <2>1, <2>3
    <3>2. /\ Unsent(t) => Answers(t) = {} /\ ~job[t].done
                          /\ job[t].toasts = 0 /\ job[t].audits = 0
          /\ \A i, j \in Answers(t) : i = j
          /\ \A i \in Answers(t) : /\ job[t].toasts = 0 /\ job[t].audits = 0
                                   /\ job[t].done => events[i].kind \in {"succeeded", "failed"}
      BY <2>1 DEF Inv, OneAnswer, Unsent
    <3>3. \A i \in Answers(t)' : i + 1 \in Answers(t) /\ i \in Nat /\ events'[i] = events[i + 1]
      BY <1>2 DEF Answers
    <3>4. \A i, j \in Answers(t)' : i = j
      <4>1. \A i, j \in Answers(t)' : i + 1 = j + 1
        BY <3>2, <3>3
      <4> QED BY <3>3, <4>1
    <3> QED BY <2>1, <3>1, <3>2, <3>3, <3>4
  <2> QED BY <2>2, <2>3
(* An answer that leaves the queue was told, or was that of an old scope.  *)
<1>12. ASSUME NEW t \in Slot, job[t] # None, Owed(t)
       PROVE  Owed(t)' \/ (e.kind \in AnswerKinds /\ e.of = t /\ ~Stale(e))
  <2>1. CASE job[t].stage \in {"queued", "spawned"} \/ job[t].epoch < epoch
    BY <1>1, <1>5, <1>12, <2>1 DEF Owed
  <2>2. CASE \E i \in DOMAIN events : events[i].of = t /\ events[i].kind \in AnswerKinds
    <3> PICK i \in DOMAIN events : events[i].of = t /\ events[i].kind \in AnswerKinds
      BY <2>2
    <3>1. CASE i # 1
      BY <1>2, <3>1 DEF Owed
    <3>2. CASE i = 1 /\ Stale(e)
      <4>1. e.of = t /\ e.kind \in AnswerKinds
        BY <3>2
      <4>2. job'[t].epoch < epoch'
        BY <1>1, <1>3, <1>5, <1>12, <3>2, <4>1 DEF Stale
      <4> QED BY <4>2 DEF Owed
    <3>3. CASE i = 1 /\ ~Stale(e)
      BY <3>3
    <3> QED BY <3>1, <3>2, <3>3
  <2> QED BY <1>12, <2>1, <2>2 DEF Owed
<1>13. ASSUME NEW t \in Slot, job[t] # None, e.kind \in AnswerKinds, e.of = t, ~Stale(e)
       PROVE  /\ job'[t].toasts = IF Told(e) THEN 1 ELSE 0
              /\ job'[t].audits = IF Recorded(e) THEN 1 ELSE 0
  <2>1. /\ job'[t].toasts = job[t].toasts + (IF Told(e) THEN 1 ELSE 0)
        /\ job'[t].audits = job[t].audits + (IF Recorded(e) THEN 1 ELSE 0)
    BY <1>3, <1>4, <1>13, ToldJobs
  <2> QED BY <1>8, <1>13, <2>1
<1>14. ASSUME NEW t \in Slot, job[t] # None, ~(e.kind \in AnswerKinds /\ e.of = t /\ ~Stale(e))
       PROVE  job'[t].toasts = job[t].toasts /\ job'[t].audits = job[t].audits
  BY <1>4, <1>5, <1>14
<1>15. EveryOutcomeTold'
  <2> SUFFICES ASSUME NEW t \in Slot, job'[t] # None, job'[t].op # "EvacuateServer"
               PROVE  /\ job'[t].toasts <= 1
                      /\ Owed(t)' \/ job'[t].toasts = 1 \/ job'[t].op \in EnableDisables
    BY DEF EveryOutcomeTold
  <2>1. job[t] # None /\ job'[t].op = job[t].op /\ job[t].op \in Asked
    BY <1>5 DEF Inv, TypeOK, Job
  <2>2. CASE e.kind \in AnswerKinds /\ e.of = t /\ ~Stale(e)
    <3>1. Told(e) \/ job[t].op \in EnableDisables
      BY <2>1, <2>2, AskedAssumption DEF Told, Toasted, Evacuates, AnswerKinds
    <3> QED BY <1>13, <2>1, <2>2, <3>1
  <2>3. CASE ~(e.kind \in AnswerKinds /\ e.of = t /\ ~Stale(e))
    BY <1>12, <1>14, <2>1, <2>3 DEF Inv, EveryOutcomeTold
  <2> QED BY <2>2, <2>3
<1>16. EveryChangeAudited'
  <2> DEFINE spared == {"CreateFlavor", "DeleteFlavor", "EvacuateServer", "ConfirmResize",
                        "RevertResize", "ConfirmMigration", "RevertMigration"}
  <2> SUFFICES ASSUME NEW t \in Slot, job'[t] # None
               PROVE  /\ job'[t].audits <= 1
                      /\ job'[t].done => \/ Owed(t)' \/ job'[t].audits = 1
                                         \/ job'[t].op \in spared
    BY DEF EveryChangeAudited
  <2>1. /\ job[t] # None /\ job'[t].op = job[t].op /\ job'[t].done = job[t].done
        /\ job[t].op \in Asked
    BY <1>5 DEF Inv, TypeOK, Job
  <2>2. CASE e.kind \in AnswerKinds /\ e.of = t /\ ~Stale(e)
    <3>1. job[t].done => Recorded(e) \/ job[t].op \in spared
      BY <1>8, <2>1, <2>2, AskedAssumption DEF Recorded, Audited, Evacuates, Resizes
    <3> QED BY <1>13, <2>1, <2>2, <3>1
  <2>3. CASE ~(e.kind \in AnswerKinds /\ e.of = t /\ ~Stale(e))
    BY <1>12, <1>14, <2>1, <2>3 DEF Inv, EveryChangeAudited
  <2> QED BY <2>2, <2>3
(* The Servers module. *)
<1>17. /\ progress' \in Server \cup {None} /\ source' \in Slot \cup {0}
       /\ ShownFits'
  <2>1. progress \in Server \cup {None} /\ source \in Slot \cup {0} /\ ShownFits
    BY DEF Inv, TypeOK, ContextFits
  <2>2. CASE UNCHANGED <<progress, source>>
    BY <1>1, <1>5, <2>1, <2>2 DEF ShownFits
  <2>3. CASE ~Stale(e) /\ e.kind = "progress"
    <3>1. progress' = job[e.of].on /\ source' = e.of /\ landed' = landed
      BY <1>1, <1>4, <2>3 DEF ShowProgress
    <3>2. job[e.of].on \in Server \cup {None}
      BY <1>3, <2>3 DEF Inv, TypeOK, Job
    <3>3. job[e.of].epoch = epoch
      BY <1>3, <2>3 DEF Stale
    <3>4. job[e.of].home \in {None, landed}
      BY <1>3, <3>3 DEF Inv, ContextFits, HomeFits
    <3> QED BY <1>3, <1>5, <3>1, <3>2, <3>4 DEF ShownFits
  <2>4. CASE progress' = None /\ source' = 0
    BY <2>4 DEF ShownFits
  <2>5. CASE ~Stale(e) /\ e.kind # "progress"
    BY <1>4, <2>2, <2>4, <2>5 DEF ShowProgress
  <2> QED BY <1>4, <2>2, <2>3, <2>5
<1>18. TypeOK'
  BY <1>1, <1>2, <1>5, <1>17 DEF Inv, TypeOK
<1>19. QueueFits'
  BY <1>1, <1>5, QueueSame DEF Is
<1>20. PolledByOneTask'
  <2>1. \A t \in Slot : (Polls(t)' <=> Polls(t)) /\ (Polls(t) => job'[t].on = job[t].on)
    BY <1>5 DEF Polls, Is
  <2> QED BY <1>1, <2>1, PollersSame
<1>21. OrderFits' /\ HomeFits'
  <2>1. forwarding # None => forwarding.slot \in Slot
    BY DEF Inv, TypeOK, Order
  <2> QED BY <1>1, <1>5, <2>1 DEF Inv, ContextFits, OrderFits, HomeFits
<1> QED BY <1>9, <1>10, <1>11, <1>15, <1>16, <1>17, <1>18, <1>19, <1>20, <1>21
        DEF Inv, ContextFits

LEMMA OperationsStep == Inv /\ [Next]_vars => Inv'
<1> SUFFICES ASSUME Inv, [Next]_vars
             PROVE  Inv'
  OBVIOUS
<1>1. CASE UNCHANGED vars
  BY <1>1 DEF vars, screen, switcher, Inv, TypeOK, QueueFits, EventsFit, OnServerFits, OneAnswer, Answers,
              PolledByOneTask, Polls, Is, ContextFits, OrderFits, HomeFits, ShownFits,
              EveryOutcomeTold, Owed,
              EveryChangeAudited
<1> QED BY <1>1, AskKeeps, ForwardKeeps, TakeKeeps, AnswerKeeps, StartKeeps, PollKeeps, StopKeeps, LetGoKeeps,
           HandleKeeps, SwitchKeeps, SeeContextKeeps DEF Next, Work

LEMMA Invariance == Spec => []Inv
BY OperationsInit, OperationsStep, PTL DEF Spec

(* Every variable has its type. *)
THEOREM TypeCorrect == Spec => []TypeOK
BY Invariance, PTL DEF Inv

(* A server is in polling_servers exactly while one task polls it, so a    *)
(* second operation on it starts no second poller, and one after that is   *)
(* followed again (poll_migration_progress, poll_server_status).           *)
THEOREM OnePollerPerServer == Spec => []PolledByOneTask
BY Invariance, PTL DEF Inv

(* Nothing a poller still sends of a scope that was left comes up on the   *)
(* screen of the next; and what it has sent does not stay there            *)
(* (handle_versioned_event, ServerModule).                                 *)
THEOREM ProgressIsOfContext == Spec => []ProgressFitsContext
<1>1. Inv => ProgressFitsContext
  BY DEF Inv, ContextFits, ShownFits, ProgressFitsContext
<1> QED BY <1>1, Invariance, PTL

(* The outcome of each operation is toasted once, unless its scope was     *)
(* left meanwhile, whatever RBAC, the guards and the service make of it    *)
(* (handle_action, handle_versioned_event, generate_toast).                *)
THEOREM OutcomesAreTold == Spec => []EveryOutcomeTold
BY Invariance, PTL DEF Inv

(* What a service carried out is recorded, once (record_audit).            *)
THEOREM ChangesAreAudited == Spec => []EveryChangeAudited
BY Invariance, PTL DEF Inv

-----------------------------------------------------------------------------
(* What is reported of a migration is followed by a report or by its end:  *)
(* its poller goes on, or its MigrationPollingStopped is further back in   *)
(* the queue; and so is what the screen shows of this epoch.               *)
Following(s) == Is(s, "polling") /\ job[s].op \in FollowsMigration
Ending(i) == events[i].kind = "polling stopped"

ReportsFollowed ==
  \A i \in DOMAIN events : events[i].kind = "progress" =>
    \/ Following(events[i].of)
    \/ \E j \in DOMAIN events : j > i /\ Ending(j) /\ events[j].of = events[i].of
ShownFollowed ==
  progress # None /\ job[source].epoch = epoch =>
    \/ \E s \in Slot : Following(s) /\ job[s].epoch = epoch
    \/ \E i \in DOMAIN events : Ending(i) /\ events[i].epoch = epoch

FollowInv == Inv /\ ReportsFollowed /\ ShownFollowed

(* A migration's poller goes on, or e, just sent, is its last word. *)
FollowedOn(t, e) ==
  Following(t) =>
    \/ Following(t)' /\ job'[t].epoch = job[t].epoch
    \/ events' = Append(events, e) /\ e.kind = "polling stopped"
       /\ e.of = t /\ e.epoch = job[t].epoch

StampsKept ==
  \A t \in Slot : job[t] # None => job'[t].epoch = job[t].epoch

(* What is shown is of an operation, whose stamp is none of the future. *)
LEMMA ShownStamp ==
  ASSUME FollowInv, progress # None
  PROVE  /\ source \in Slot /\ job[source] # None
         /\ epoch \in Nat /\ job[source].epoch \in Nat /\ job[source].epoch <= epoch
<1>1. source \in Slot /\ job[source] # None
  BY DEF FollowInv, Inv, ContextFits, ShownFits
<1>2. job[source] \in Job
  BY <1>1 DEF FollowInv, Inv, TypeOK
<1>3. epoch \in Nat /\ job[source].epoch <= epoch
  BY <1>1, BoundAssumption DEF FollowInv, Inv, TypeOK, OnServerFits
<1> QED BY <1>1, <1>2, <1>3 DEF Job

(* A step of a task, or of the switcher, that sends e or nothing. *)
LEMMA FollowedOnward ==
  ASSUME FollowInv, UNCHANGED <<progress, source>>, StampsKept, epoch' \in {epoch, epoch + 1},
         NEW e \in Event, events' \in {events, Append(events, e)},
         \A t \in Slot : FollowedOn(t, e),
         events' # events /\ e.kind = "progress" => Following(e.of)'
  PROVE  ReportsFollowed' /\ ShownFollowed'
<1>1. /\ Len(events) \in Nat /\ DOMAIN events = 1..Len(events)
      /\ DOMAIN events \subseteq DOMAIN events'
      /\ \A i \in DOMAIN events : events'[i] = events[i]
      /\ events' # events => /\ DOMAIN events' = 1..Len(events) + 1
                             /\ events'[Len(events) + 1] = e
                             /\ Len(events) + 1 \in DOMAIN events'
                             /\ \A i \in DOMAIN events : Len(events) + 1 > i
      /\ \A i \in DOMAIN events' : i \in DOMAIN events \/ (i = Len(events) + 1 /\ events' # events)
  <2>1. TypeOK /\ Len(events) \in Nat /\ DOMAIN events = 1..Len(events)
    BY DEF FollowInv, Inv, TypeOK
  <2>2. CASE events' = Append(events, e)
    <3>1. /\ DOMAIN events' = 1..Len(events) + 1 /\ events'[Len(events) + 1] = e
          /\ \A i \in DOMAIN events : events'[i] = events[i]
      BY <2>1, <2>2, Sent
    <3> QED BY <2>1, <3>1
  <2>3. CASE events' = events
    BY <2>1, <2>3
  <2> QED BY <2>2, <2>3
<1>2. ASSUME NEW t \in Slot, Following(t)
      PROVE  \/ Following(t)' /\ job'[t].epoch = job[t].epoch
             \/ \E j \in DOMAIN events' :
                  /\ \A i \in DOMAIN events : j > i
                  /\ events'[j].kind = "polling stopped" /\ events'[j].of = t
                  /\ events'[j].epoch = job[t].epoch
  <2>1. CASE events' = Append(events, e) /\ e.kind = "polling stopped"
             /\ e.of = t /\ e.epoch = job[t].epoch
    <3>1. events' # events
      <4>1. events' = Append(events, e) /\ TypeOK
        BY <2>1 DEF FollowInv, Inv
      <4>2. /\ DOMAIN events = 1..Len(events) /\ DOMAIN events' = 1..Len(events) + 1
            /\ Len(events) \in Nat
        BY <4>1, Sent
      <4> QED BY <4>2
    <3> QED BY <1>1, <2>1, <3>1
  <2> QED BY <1>2, <2>1 DEF FollowedOn
<1>3. ReportsFollowed'
  <2> SUFFICES ASSUME NEW i \in DOMAIN events', events'[i].kind = "progress"
               PROVE  \/ Following(events[i].of)'
                      \/ \E j \in DOMAIN events' : j > i /\ events'[j].kind = "polling stopped"
                                                   /\ events'[j].of = events'[i].of
    BY DEF ReportsFollowed, Ending
  <2>1. CASE i \in DOMAIN events
    <3>1. events'[i] = events[i] /\ events[i].of \in Slot
      BY <1>1, <2>1 DEF FollowInv, Inv, EventsFit
    <3> PICK t \in Slot : t = events[i].of
      BY <3>1
    <3>2. CASE Following(t)
      <4>1. CASE Following(t)'
        BY <3>1, <4>1 DEF Following, Is
      <4>2. CASE \E j \in DOMAIN events' : /\ \A k \in DOMAIN events : j > k
                                           /\ events'[j].kind = "polling stopped"
                                           /\ events'[j].of = t
        BY <2>1, <3>1, <4>2
      <4> QED BY <1>2, <3>2, <4>1, <4>2
    <3>3. CASE \E j \in DOMAIN events : j > i /\ Ending(j) /\ events[j].of = t
      <4> PICK j \in DOMAIN events : j > i /\ Ending(j) /\ events[j].of = t
        BY <3>3
      <4>1. /\ j \in DOMAIN events' /\ j > i /\ events'[j].kind = "polling stopped"
            /\ events'[j].of = events'[i].of
        BY <1>1, <3>1 DEF Ending
      <4> QED BY <4>1
    <3>4. \/ Following(t)
          \/ \E j \in DOMAIN events : j > i /\ Ending(j) /\ events[j].of = t
      BY <2>1, <3>1 DEF FollowInv, ReportsFollowed
    <3> QED BY <3>2, <3>3, <3>4
  <2>2. CASE i \notin DOMAIN events
    BY <1>1, <2>2 DEF Following, Is
  <2> QED BY <2>1, <2>2
<1>4. ShownFollowed'
  <2>0. progress # None => job'[source].epoch = job[source].epoch
    BY ShownStamp DEF StampsKept
  <2> SUFFICES ASSUME progress # None, job[source].epoch = epoch'
               PROVE  \/ \E s \in Slot : Following(s)' /\ job'[s].epoch = epoch'
                      \/ \E i \in DOMAIN events' : /\ events'[i].kind = "polling stopped"
                                                   /\ events'[i].epoch = epoch'
    BY <2>0 DEF ShownFollowed, Ending
  <2>1. epoch' = epoch
    BY ShownStamp
  <2>2. CASE \E s \in Slot : Following(s) /\ job[s].epoch = epoch
    <3>1. PICK t \in Slot : Following(t) /\ job[t].epoch = epoch
      BY <2>2
    <3>2. CASE Following(t)' /\ job'[t].epoch = job[t].epoch
      BY <2>1, <3>1, <3>2
    <3>3. CASE \E j \in DOMAIN events' : /\ events'[j].kind = "polling stopped"
                                         /\ events'[j].epoch = job[t].epoch
      BY <2>1, <3>1, <3>3
    <3> QED BY <1>2, <3>1, <3>2, <3>3
  <2>3. CASE \E i \in DOMAIN events : Ending(i) /\ events[i].epoch = epoch
    BY <1>1, <2>1, <2>3 DEF Ending
  <2> QED BY <2>1, <2>2, <2>3 DEF FollowInv, ShownFollowed
<1> QED BY <1>3, <1>4

(* Jobs that keep their pollers, and nothing sent but e, which no poller   *)
(* sends.                                                                  *)
LEMMA OthersFollowed ==
  ASSUME FollowInv, UNCHANGED <<progress, source>>, StampsKept, epoch' \in {epoch, epoch + 1},
         NEW e \in Event, events' \in {events, Append(events, e)}, e.kind # "progress",
         \A t \in Slot : Is(t, "polling") => job'[t] = job[t]
  PROVE  ReportsFollowed' /\ ShownFollowed'
<1>1. \A t \in Slot : FollowedOn(t, e)
  BY DEF FollowedOn, Following, Is
<1> QED BY <1>1, FollowedOnward

(* And nothing sent at all. *)
LEMMA Unsaid ==
  ASSUME FollowInv, UNCHANGED <<progress, source, events>>, StampsKept, epoch' \in {epoch, epoch + 1},
         \A t \in Slot : Is(t, "polling") => job'[t] = job[t]
  PROVE  ReportsFollowed' /\ ShownFollowed'
<1>1. \A t \in Slot : Following(t) => Following(t)' /\ job'[t].epoch = job[t].epoch
  BY DEF Following, Is
<1>2. progress # None => job'[source].epoch = job[source].epoch
  BY ShownStamp DEF StampsKept
<1>3. ReportsFollowed'
  <2>1. \A i \in DOMAIN events : events[i].of \in Slot
    BY DEF FollowInv, Inv, EventsFit
  <2> QED BY <1>1, <2>1 DEF FollowInv, ReportsFollowed, Ending
<1>4. CASE epoch' = epoch
  <2>1. ShownFollowed'
    BY <1>1, <1>2, <1>4 DEF FollowInv, ShownFollowed, Ending
  <2> QED BY <1>3, <2>1
<1>5. CASE epoch' = epoch + 1
  <2>1. progress # None => job'[source].epoch # epoch'
    BY <1>2, <1>5, ShownStamp
  <2> QED BY <1>3, <2>1 DEF ShownFollowed
<1> QED BY <1>4, <1>5

LEMMA FollowedInitially == Init => ReportsFollowed /\ ShownFollowed
BY DEF Init, ReportsFollowed, ShownFollowed

(* A worker's step, about the job of s. *)
LEMMA WorkFollowed ==
  ASSUME FollowInv, NEW s \in Slot, Work(s)
  PROVE  ReportsFollowed' /\ ShownFollowed'
<1>1. job[s] # None /\ UNCHANGED <<epoch, progress, source>>
  BY DEF Work, CallService, Answer, StartPolling, Poll, StopPolling, LetGo, Is, screen, switcher
<1>2. TypeOK /\ job \in [Slot -> Job \cup {None}]
  BY DEF FollowInv, Inv, TypeOK
<1>3. \A t \in Slot \ {s} : job'[t] = job[t]
  BY <1>2 DEF Work, CallService, Answer, StartPolling, Poll, StopPolling, LetGo, Moved
<1>9. StampsKept
  <2>1. CASE Poll(s) \/ CallService(s)
    <3>1. job'[s].epoch = job[s].epoch
      <4>1. job[s] \in Job
        BY <1>1, <1>2
      <4>2. CASE Poll(s)
        BY <1>2, <4>1, <4>2 DEF Poll, Job
      <4>3. CASE CallService(s)
        <5>1. PICK kind, done : Answer(s, kind, done)
          BY <4>3 DEF CallService
        <5> QED BY <1>2, <4>1, <5>1 DEF Answer, Job
      <4> QED BY <2>1, <4>2, <4>3
    <3> QED BY <1>3, <3>1 DEF StampsKept
  <2>2. ASSUME NEW stage \in Stages, job' = Moved(s, stage)
        PROVE  StampsKept
    BY <1>1, <1>2, <2>2, MovedJob DEF StampsKept
  <2>3. CASE StartPolling(s) \/ StopPolling(s) \/ LetGo(s)
    <3>1. PICK stage \in {"polling", "ended", "stopped"} : job' = Moved(s, stage)
      BY <2>3 DEF StartPolling, StopPolling, LetGo
    <3> QED BY <2>2, <3>1 DEF Stages
  <2> QED BY <2>1, <2>3 DEF Work
<1> DEFINE of(kind) == [kind |-> kind, of |-> s, epoch |-> job[s].epoch]
<1>4. /\ \A kind \in AnswerKinds \cup {"progress", "polling stopped", "status"} :
           of(kind) \in Event /\ Emit(kind, s) = Append(events, of(kind))
      /\ \A kind \in AnswerKinds \cup {"progress", "polling stopped", "status"} :
           of(kind).kind = kind /\ of(kind).of = s /\ of(kind).epoch = job[s].epoch
  BY <1>1, <1>2, Emitted DEF Emit
<1> HIDE DEF of
<1>5. CASE CallService(s)
  <2>1. PICK kind \in AnswerKinds : events' = Emit(kind, s)
    BY <1>5 DEF CallService, Answer, AnswerKinds
  <2>2. ~Is(s, "polling")
    BY <1>5 DEF CallService, Answer, Is
  <2>3. kind # "progress"
    BY DEF AnswerKinds
  <2> QED BY <1>1, <1>3, <1>4, <2>1, <2>2, <2>3, <1>9, OthersFollowed
<1>6. CASE StartPolling(s) \/ LetGo(s)
  <2>1. events' = events /\ ~Is(s, "polling")
    BY <1>6 DEF StartPolling, LetGo, Is
  <2>2. of("status") \in Event /\ of("status").kind = "status"
    BY <1>4
  <2> QED BY <1>1, <1>3, <2>1, <2>2, <1>9, OthersFollowed
<1>7. CASE Poll(s)
  <2>1. job'[s] = [job[s] EXCEPT !.polls = @ + 1] /\ job[s] \in Job /\ job[s].stage = "polling"
    BY <1>1, <1>2, <1>7 DEF Poll, Is
  <2>2. job'[s].op = job[s].op /\ job'[s].stage = "polling" /\ job'[s].epoch = job[s].epoch
        /\ job'[s] # None
    <3>1. job'[s].op = job[s].op /\ job'[s].stage = "polling" /\ job'[s].epoch = job[s].epoch
      BY <2>1 DEF Job
    <3>2. job[s].polls + 1 \in 0..MaxPolls
      BY <1>7, <2>1, BoundAssumption DEF Poll, Job
    <3>3. job'[s] \in Job
      BY <2>1, <3>2 DEF Job
    <3> QED BY <3>1, <3>3, NoneAssumption
  <2>3. PICK kind \in {"progress", "status"} :
          events' = Emit(kind, s) /\ (kind = "progress" => job[s].op \in FollowsMigration)
    BY <1>7 DEF Poll
  <2>4. Following(s) => Following(s)'
    BY <2>2 DEF Following, Is
  <2>5. \A t \in Slot : FollowedOn(t, of(kind))
    BY <1>3, <2>2, <2>4 DEF FollowedOn, Following, Is
  <2>6. kind = "progress" => Following(s)'
    BY <2>2, <2>3 DEF Following, Is
  <2> QED BY <1>1, <1>4, <2>3, <2>5, <2>6, <1>9, FollowedOnward
<1>8. CASE StopPolling(s)
  <2>1. \A t \in Slot : FollowedOn(t, of("polling stopped"))
    <3>1. \A t \in Slot \ {s} : FollowedOn(t, of("polling stopped"))
      BY <1>3 DEF FollowedOn, Following, Is
    <3>2. job[s].op \in FollowsMigration => events' = Append(events, of("polling stopped"))
      BY <1>4, <1>8 DEF StopPolling
    <3>3. FollowedOn(s, of("polling stopped"))
      BY <1>4, <3>2 DEF FollowedOn, Following
    <3> QED BY <3>1, <3>3
  <2>2. events' \in {events, Append(events, of("polling stopped"))}
    BY <1>4, <1>8 DEF StopPolling
  <2> QED BY <1>1, <1>4, <2>1, <2>2, <1>9, FollowedOnward
<1> QED BY <1>5, <1>6, <1>7, <1>8 DEF Work

(* The App takes an event: a report makes its epoch that of the screen and *)
(* leaves what follows it behind; an end takes the progress away.          *)
LEMMA HandleFollowed ==
  ASSUME FollowInv, HandleEvent
  PROVE  ReportsFollowed' /\ ShownFollowed'
<1>1. /\ events # <<>> /\ events' = Tail(events) /\ UNCHANGED epoch /\ TypeOK
      /\ epoch \in Nat
  BY BoundAssumption DEF HandleEvent, switcher, FollowInv, Inv, TypeOK
<1>2. /\ Head(events) = events[1] /\ events[1] \in Event /\ 1 \in DOMAIN events
      /\ \A i \in DOMAIN events' : /\ i \in Nat /\ i + 1 \in DOMAIN events
                                   /\ events'[i] = events[i + 1]
      /\ \A i \in DOMAIN events : i \in Nat /\ (i # 1 => /\ i - 1 \in DOMAIN events'
                                                         /\ events'[i - 1] = events[i])
  BY <1>1, Received
<1> PICK e \in Event : e = events[1]
  BY <1>2
<1>3. /\ e.epoch <= epoch /\ e.epoch \in Nat
      /\ e.of \in Slot /\ job[e.of] # None /\ e.epoch = job[e.of].epoch
  <2>1. e.epoch \in Nat
    BY DEF Event
  <2> QED BY <1>2, <2>1 DEF FollowInv, Inv, EventsFit
<1>4. \/ Stale(e) /\ UNCHANGED <<job, progress, source>>
      \/ ~Stale(e) /\ Tell(e) /\ ShowProgress(e)
  BY <1>2 DEF HandleEvent, screen, switcher
<1>5. \A t \in Slot : Following(t) => Following(t)' /\ job'[t].epoch = job[t].epoch
  <2>1. CASE Tell(e)
    <3>1. \A t \in Slot :
            /\ job'[t] = None <=> job[t] = None
            /\ job[t] # None => job'[t].stage = job[t].stage /\ job'[t].op = job[t].op
                                /\ job'[t].epoch = job[t].epoch
      BY <1>3, <2>1, ToldJobs DEF FollowInv
    <3> QED BY <3>1 DEF Following, Is
  <2>2. CASE job' = job
    BY <2>2 DEF Following, Is
  <2> QED BY <1>4, <2>1, <2>2
<1>6. \A i \in DOMAIN events : Ending(i) /\ i # 1 =>
        \E j \in DOMAIN events' : /\ j = i - 1 /\ events'[j].kind = "polling stopped"
                                  /\ events'[j].of = events[i].of
                                  /\ events'[j].epoch = events[i].epoch
  BY <1>2 DEF Ending
<1>10. \A t \in Slot : job[t] # None => job'[t].epoch = job[t].epoch
  BY <1>3, <1>4, ToldJobs DEF FollowInv
<1>7. ReportsFollowed'
  <2> SUFFICES ASSUME NEW i \in DOMAIN events', events'[i].kind = "progress"
               PROVE  \/ Following(events[i].of)'
                      \/ \E j \in DOMAIN events' : j > i /\ events'[j].kind = "polling stopped"
                                                   /\ events'[j].of = events'[i].of
    BY DEF ReportsFollowed, Ending
  <2>1. i \in Nat /\ i + 1 \in DOMAIN events /\ events'[i] = events[i + 1]
    BY <1>2
  <2>2. events[i + 1].of \in Slot
    BY <2>1 DEF FollowInv, Inv, EventsFit
  <2>3. CASE Following(events[i + 1].of)
    BY <1>5, <2>1, <2>2, <2>3 DEF Following, Is
  <2>4. CASE \E j \in DOMAIN events : j > i + 1 /\ Ending(j) /\ events[j].of = events[i + 1].of
    <3> PICK j \in DOMAIN events : j > i + 1 /\ Ending(j) /\ events[j].of = events[i + 1].of
      BY <2>4
    <3>1. j \in Nat /\ j # 1 /\ j - 1 > i
      BY <1>2, <2>1
    <3> QED BY <1>6, <2>1, <3>1
  <2> QED BY <2>1, <2>3, <2>4 DEF FollowInv, ReportsFollowed
<1>8. ShownFollowed'
  <2> SUFFICES ASSUME progress' # None, job'[source'].epoch = epoch
               PROVE  \/ \E s \in Slot : Following(s)' /\ job'[s].epoch = epoch
                      \/ \E i \in DOMAIN events' : /\ events'[i].kind = "polling stopped"
                                                   /\ events'[i].epoch = epoch
    BY <1>1 DEF ShownFollowed, Ending
  <2>1. CASE ~Stale(e) /\ e.kind = "progress"
    <3>1. e.epoch = epoch /\ e.of \in Slot /\ e.epoch = job[e.of].epoch
      BY <1>1, <1>3, <2>1 DEF Stale
    <3>2. CASE Following(e.of)
      BY <1>5, <3>1, <3>2 DEF Following, Is
    <3>3. CASE \E j \in DOMAIN events : j > 1 /\ Ending(j) /\ events[j].of = e.of
      <4> PICK j \in DOMAIN events : j > 1 /\ Ending(j) /\ events[j].of = e.of
        BY <3>3
      <4>1. events[j].epoch = job[e.of].epoch
        BY DEF FollowInv, Inv, EventsFit, Ending
      <4>2. j # 1
        BY <1>2
      <4>3. PICK k \in DOMAIN events' : /\ events'[k].kind = "polling stopped"
                                        /\ events'[k].epoch = events[j].epoch
        BY <1>6, <4>2
      <4> QED BY <3>1, <4>1, <4>3
    <3> QED BY <1>2, <2>1, <3>2, <3>3 DEF FollowInv, ReportsFollowed
  <2>2. CASE Stale(e) \/ e.kind # "progress"
    <3>1. progress' = progress /\ source' = source /\ job[source].epoch = epoch
      <4>1. progress' = progress /\ source' = source
        BY <1>4, <2>2 DEF ShowProgress
      <4> QED BY <1>10, <4>1, ShownStamp
    <3>2. ~(Ending(1) /\ events[1].epoch = epoch)
      <4>1. CASE Stale(e)
        BY <1>1, <1>2, <1>3, <4>1 DEF Stale
      <4>2. CASE ~Stale(e)
        BY <1>4, <4>2 DEF ShowProgress, Ending
      <4> QED BY <4>1, <4>2
    <3>3. CASE \E s \in Slot : Following(s) /\ job[s].epoch = epoch
      BY <1>5, <3>1, <3>3 DEF Following, Is
    <3>4. CASE \E i \in DOMAIN events : Ending(i) /\ events[i].epoch = epoch
      BY <1>6, <3>2, <3>4
    <3> QED BY <3>1, <3>3, <3>4 DEF FollowInv, ShownFollowed
  <2> QED BY <2>1, <2>2
<1> QED BY <1>7, <1>8

LEMMA FollowStep == FollowInv /\ [Next]_vars => FollowInv'
<1> SUFFICES ASSUME FollowInv, [Next]_vars
             PROVE  ReportsFollowed' /\ ShownFollowed'
  BY OperationsStep DEF FollowInv
<1>1. /\ epoch \in Nat /\ job \in [Slot -> Job \cup {None}] /\ actions \in Seq(Slot) /\ TypeOK
  BY BoundAssumption DEF FollowInv, Inv, TypeOK
<1>3. \A kind \in {"denied"}, s \in Slot : job[s] # None =>
        [kind |-> kind, of |-> s, epoch |-> job[s].epoch] \in Event
  BY <1>1, Emitted DEF AnswerKinds
<1>4. CASE UNCHANGED vars
  BY <1>4 DEF vars, screen, switcher, FollowInv, ReportsFollowed, ShownFollowed, Following, Ending, Is
<1>5. CASE \/ Forward
           \/ \E s \in Slot, op \in Asked, on \in Server \cup {None} :
                CheckIdle(s, op, on) \/ SendDirectly(s, op, on)
  <2>1. forwarding # None => forwarding.slot \in Slot /\ job[forwarding.slot] = None
    BY DEF FollowInv, Inv, TypeOK, Order, ContextFits, OrderFits
  <2>2. /\ UNCHANGED <<progress, source, epoch, events>>
        /\ \A t \in Slot : job[t] # None => job'[t] = job[t]
    BY <1>1, <1>5, <2>1 DEF CheckIdle, Forward, SendDirectly, Free, Send, screen, switcher
  <2>3. StampsKept /\ \A t \in Slot : Is(t, "polling") => job'[t] = job[t]
    BY <2>2 DEF StampsKept, Is
  <2> QED BY <1>1, <2>2, <2>3, Unsaid
<1>6. CASE TakeAction
  <2> PICK s \in Slot : s = Head(actions)
    BY <1>1, <1>6 DEF TakeAction
  <2>1. 1 \in DOMAIN actions /\ actions[1] = s
    BY <1>1, <1>6 DEF TakeAction
  <2>2. job[s] # None /\ ~Is(s, "polling")
    BY <2>1 DEF FollowInv, Inv, QueueFits, Is
  <2> DEFINE e == [kind |-> "denied", of |-> s, epoch |-> job[s].epoch]
  <2>3. /\ UNCHANGED <<progress, source, epoch>> /\ events' \in {events, Append(events, e)}
        /\ \A t \in Slot \ {s} : job'[t] = job[t]
    BY <1>1, <1>6 DEF TakeAction, screen, switcher, Moved, Emit
  <2>4. e \in Event /\ e.kind # "progress"
    BY <1>3, <2>2
  <2>5. s \in Slot /\ job'[s].epoch = job[s].epoch
    <3>1. s \in Slot
      BY <1>1, <2>1
    <3>2. PICK stage \in {"spawned", "ended"} : job' = Moved(s, stage)
      BY <1>6 DEF TakeAction
    <3> QED BY <1>1, <2>2, <3>1, <3>2, MovedJob DEF Stages
  <2>6. StampsKept
    BY <2>3, <2>5 DEF StampsKept
  <2> HIDE DEF e
  <2> QED BY <2>2, <2>3, <2>4, <2>6, OthersFollowed
<1>7. CASE BeginSwitch \/ \E committed \in BOOLEAN : EndSwitch(committed)
  <2>1. UNCHANGED <<progress, source, job, events>> /\ epoch' \in {epoch, epoch + 1}
    BY <1>7 DEF BeginSwitch, EndSwitch, screen, switcher
  <2> QED BY <1>1, <2>1, Unsaid DEF StampsKept
<1>8. CASE SeeContext
  <2>1. UNCHANGED <<job, events>> /\ progress' = None
    BY <1>8 DEF SeeContext
  <2> QED BY <2>1 DEF FollowInv, ReportsFollowed, ShownFollowed, Following, Ending, Is
<1> QED BY <1>4, <1>5, <1>6, <1>7, <1>8, WorkFollowed, HandleFollowed DEF Next

(* The migration progress the Servers module shows never freezes: a poller *)
(* keeps it up to date or its last word is on its way, unless a switch was *)
(* begun since (poll_migration_progress, MigrationPollingStopped).         *)
THEOREM ProgressIsKeptUp == Spec => []ProgressIsFollowed
<1>1. Init => FollowInv
  BY OperationsInit, FollowedInitially DEF FollowInv
<1>2. FollowInv => ProgressIsFollowed
  BY DEF FollowInv, ShownFollowed, ProgressIsFollowed, Following, Ending
<1> QED BY <1>1, <1>2, FollowStep, PTL DEF Spec
=============================================================================
