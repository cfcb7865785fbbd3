-------------------------- MODULE Evacuation_proofs --------------------------
(***************************************************************************)
(* Draining a host of any number of servers, with any cap on what is in    *)
(* flight: every server is accounted for, and only what was confirmed is   *)
(* evacuated.                                                              *)
(***************************************************************************)
EXTENDS Evacuation, FiniteSetTheorems, FunctionTheorems, TLAPS

(* What EveryServerAccounted says of one task.  That a server is counted   *)
(* once is said without cardinalities.                                     *)
CountedOnce(results) == \A x, y \in results : x.server = y.server => x = y
Accounted(t, ids) ==
  /\ t \in Evac
  /\ t.queue \cup t.inFlight \cup ServersOf(t.completed) = ids
  /\ t.queue \cap t.inFlight = {}
  /\ ServersOf(t.completed) \cap (t.queue \cup t.inFlight) = {}
  /\ CountedOnce(t.completed)
  /\ Cardinality(t.inFlight) <= MaxConcurrent

(* While the question stands, what is checked is what it was about, or     *)
(* nothing any more, in which case nothing is started.                     *)
QuestionStands == pending => checked = confirmed \/ checked = {}

Inv == /\ TypeOK /\ QuestionStands
       /\ task # None => Accounted(task, asked)

-----------------------------------------------------------------------------
(* The task's operations.                                                  *)
LEMMA Counting ==
  ASSUME NEW S \in SUBSET Server
  PROVE  IsFiniteSet(S) /\ Cardinality(S) \in Nat
BY ServerAssumption, FS_Subset, FS_CardinalityType

LEMMA Bounds == MaxSwitches \in Nat /\ MaxRuns \in Nat /\ MaxElsewhere \in Nat
BY BoundAssumption

LEMMA SettledKeeps ==
  ASSUME NEW t, NEW ids, Accounted(t, ids)
  PROVE  Accounted(Settled(t), ids)
<1>1. /\ Settled(t) \in Evac /\ Settled(t).queue = t.queue
      /\ Settled(t).inFlight = t.inFlight /\ Settled(t).completed = t.completed
  BY DEF Accounted, Settled, Evac
<1> QED BY <1>1 DEF Accounted

LEMMA NewTaskFits ==
  ASSUME NEW ids \in SUBSET Server
  PROVE  Accounted(NewTask(ids), ids)
<1>1. Cardinality({}) <= MaxConcurrent
  BY FS_EmptySet, ConcurrencyAssumption
<1>2. NewTask(ids) \in Evac
  BY DEF NewTask, Evac
<1>3. /\ NewTask(ids).queue = ids /\ NewTask(ids).inFlight = {} /\ NewTask(ids).completed = {}
  BY DEF NewTask
<1> QED BY <1>1, <1>2, <1>3 DEF Accounted, CountedOnce, ServersOf

(* A batch fills the task's room at most. *)
LEMMA PolledKeeps ==
  ASSUME NEW t, NEW ids, Accounted(t, ids), NEW batch \in Batches(t)
  PROVE  Accounted(Polled(t, batch), ids)
<1>1. /\ t \in Evac /\ t.queue \in SUBSET Server /\ t.inFlight \in SUBSET Server
      /\ t.completed \in SUBSET Result
  BY DEF Accounted, Evac
<1>2. batch \in SUBSET t.queue
  BY DEF Batches
<1> DEFINE next == [t EXCEPT !.queue = @ \ batch, !.inFlight = @ \cup batch]
<1>3. /\ next \in Evac /\ next.queue = t.queue \ batch /\ next.inFlight = t.inFlight \cup batch
      /\ next.completed = t.completed
  BY <1>1, <1>2 DEF Evac
<1> HIDE DEF next
<1>4. Cardinality(t.inFlight \cup batch) <= MaxConcurrent
  <2>1. /\ Cardinality(t.inFlight) \in Nat /\ Cardinality(batch) \in Nat
        /\ Cardinality(t.queue) \in Nat
        /\ IsFiniteSet(t.inFlight) /\ IsFiniteSet(batch)
    BY <1>1, <1>2, Counting
  <2>2. t.inFlight \cap batch = {}
    BY <1>2 DEF Accounted
  <2>3. Cardinality(t.inFlight \cup batch) = Cardinality(t.inFlight) + Cardinality(batch)
    <3>1. Cardinality(t.inFlight \cap batch) = 0
      BY <2>2, FS_EmptySet
    <3>2. Cardinality(t.inFlight \cup batch)
            = Cardinality(t.inFlight) + Cardinality(batch) - Cardinality(t.inFlight \cap batch)
      BY <2>1, FS_Union
    <3> QED BY <2>1, <3>1, <3>2
  <2>4. Cardinality(t.inFlight) <= MaxConcurrent /\ MaxConcurrent \in Nat
    BY ConcurrencyAssumption DEF Accounted
  <2>5. Room(t) = 0 \/ Room(t) = MaxConcurrent - Cardinality(t.inFlight)
    BY DEF Room
  <2>6. Cardinality(batch) = IF Room(t) < Cardinality(t.queue) THEN Room(t) ELSE Cardinality(t.queue)
    BY DEF Batches
  <2>7. Cardinality(batch) <= Room(t)
    BY <2>1, <2>4, <2>5, <2>6
  <2> QED BY <2>1, <2>3, <2>4, <2>5, <2>7
<1>5. Accounted(next, ids)
  BY <1>2, <1>3, <1>4 DEF Accounted
<1> QED BY <1>5, SettledKeeps DEF Polled, next

LEMMA OnCompletedKeeps ==
  ASSUME NEW t, NEW ids, Accounted(t, ids), NEW server \in Server, NEW outcome \in {"ok", "failed"}
  PROVE  Accounted(OnCompleted(t, server, outcome), ids)
<1>1. CASE server \notin t.inFlight
  BY <1>1 DEF OnCompleted
<1>2. CASE server \in t.inFlight
  <2> DEFINE result == [server |-> server, outcome |-> outcome]
             next == [t EXCEPT !.inFlight = @ \ {server}, !.completed = @ \cup {result}]
  <2>1. /\ t \in Evac /\ t.inFlight \in SUBSET Server /\ t.completed \in SUBSET Result
        /\ result \in Result /\ result.server = server
    BY DEF Accounted, Evac, Result
  <2>2. /\ next \in Evac /\ next.queue = t.queue /\ next.inFlight = t.inFlight \ {server}
        /\ next.completed = t.completed \cup {result}
    BY <2>1 DEF Evac
  <2> HIDE DEF result
  <2>3. ServersOf(t.completed \cup {result}) = ServersOf(t.completed) \cup {server}
    BY <2>1 DEF ServersOf
  <2>4. server \notin ServersOf(t.completed) /\ server \notin t.queue
    BY <1>2 DEF Accounted
  <2>5. CountedOnce(t.completed \cup {result})
    <3>1. \A x \in t.completed : x.server # result.server
      BY <2>1, <2>4 DEF ServersOf
    <3> QED BY <3>1 DEF Accounted, CountedOnce
  <2>6. Cardinality(t.inFlight \ {server}) <= MaxConcurrent
    <3>1. IsFiniteSet(t.inFlight) /\ Cardinality(t.inFlight) \in Nat
          /\ Cardinality(t.inFlight \ {server}) \in Nat
      BY <2>1, Counting
    <3>2. Cardinality(t.inFlight \ {server}) <= Cardinality(t.inFlight)
      BY <3>1, FS_Subset
    <3> QED BY <3>1, <3>2, ConcurrencyAssumption DEF Accounted
  <2> HIDE DEF next
  <2>7. Accounted(next, ids)
    BY <1>2, <2>2, <2>3, <2>4, <2>5, <2>6 DEF Accounted
  <2> QED BY <1>2, <2>7, SettledKeeps DEF OnCompleted, next, result
<1> QED BY <1>1, <1>2

LEMMA CancelledKeeps ==
  ASSUME NEW t, NEW ids, Accounted(t, ids)
  PROVE  Accounted(Cancelled(t), ids)
<1> DEFINE aborted == [server: t.queue, outcome: {"aborted"}]
           next == [t EXCEPT !.cancel = TRUE, !.queue = {}, !.completed = @ \cup aborted]
<1>1. /\ t \in Evac /\ t.queue \in SUBSET Server /\ t.completed \in SUBSET Result
      /\ aborted \in SUBSET Result
  BY DEF Accounted, Evac, Result
<1>2. ServersOf(aborted) = t.queue
  <2>1. \A s \in t.queue : /\ [server |-> s, outcome |-> "aborted"] \in aborted
                           /\ [server |-> s, outcome |-> "aborted"].server = s
    OBVIOUS
  <2>2. \A x \in aborted : x.server \in t.queue
    OBVIOUS
  <2> HIDE DEF aborted
  <2> QED BY <2>1, <2>2 DEF ServersOf
<1>3. CountedOnce(aborted)
  BY DEF CountedOnce
<1>4. /\ next \in Evac /\ next.queue = {} /\ next.inFlight = t.inFlight
      /\ next.completed = t.completed \cup aborted
  BY <1>1 DEF Evac
<1> HIDE DEF aborted
<1>5. ServersOf(t.completed \cup aborted) = ServersOf(t.completed) \cup t.queue
  BY <1>2 DEF ServersOf
<1>6. CountedOnce(t.completed \cup aborted)
  <2>1. \A x \in t.completed, y \in aborted : x.server # y.server
    BY <1>2 DEF Accounted, ServersOf
  <2> QED BY <1>3, <2>1 DEF Accounted, CountedOnce
<1> HIDE DEF next
<1>7. Accounted(next, ids)
  BY <1>4, <1>5, <1>6 DEF Accounted
<1> QED BY <1>7, SettledKeeps DEF Cancelled, next, aborted

-----------------------------------------------------------------------------
LEMMA Initially == Init => Inv
<1> SUFFICES ASSUME Init
             PROVE  Inv
  OBVIOUS
<1>1. {checked, confirmed, asked} \subseteq SUBSET Server /\ requests \in SUBSET Request
  BY DEF Init
<1>2. run \in 0..MaxRuns /\ elsewhere \in 0..MaxElsewhere /\ epoch \in 0..MaxSwitches
  BY Bounds DEF Init
<1>3. pending \in BOOLEAN /\ switching \in BOOLEAN
  BY DEF Init
<1>4. TypeOK
  BY <1>1, <1>2, <1>3 DEF Init, TypeOK
<1> QED BY <1>4 DEF Init, Inv, QuestionStands

LEMMA RequestsFit ==
  ASSUME Inv, NEW ids \in SUBSET Server, NEW r \in Nat
  PROVE  RequestsFor(ids, r) \in SUBSET Request
BY DEF Inv, TypeOK, RequestsFor, Request

LEMMA StartKeeps ==
  ASSUME Inv, StartEvacuate
  PROVE  Inv' /\ (run' # run => asked' = confirmed)
<1>1. /\ task = None /\ pending /\ pending' = FALSE
      /\ UNCHANGED <<checked, confirmed, elsewhere, contextVars>>
  BY DEF StartEvacuate
<1>2. CASE checked = {}
  BY <1>1, <1>2 DEF StartEvacuate, Inv, TypeOK, QuestionStands, contextVars
<1>3. CASE checked # {}
  <2>1. /\ run < MaxRuns /\ run' = run + 1 /\ asked' = checked
        /\ \E batch \in Batches(NewTask(checked)) :
             /\ task' = Polled(NewTask(checked), batch)
             /\ requests' = requests \cup RequestsFor(batch, run')
    BY <1>3 DEF StartEvacuate
  <2>2. PICK batch \in Batches(NewTask(checked)) :
             /\ task' = Polled(NewTask(checked), batch)
             /\ requests' = requests \cup RequestsFor(batch, run')
    BY <2>1
  <2>3. checked \in SUBSET Server /\ run' \in 0..MaxRuns /\ run' \in Nat
    BY <2>1, Bounds DEF Inv, TypeOK
  <2>4. Accounted(task', asked')
    BY <2>1, <2>2, <2>3, NewTaskFits, PolledKeeps
  <2>5. task' \in Evac /\ batch \in SUBSET Server
    BY <2>2, <2>3, <2>4 DEF Accounted, Batches, NewTask
  <2>6. requests' \in SUBSET Request
    BY <2>2, <2>3, <2>5, RequestsFit DEF Inv, TypeOK
  <2>7. TypeOK'
    BY <1>1, <2>1, <2>3, <2>5, <2>6 DEF Inv, TypeOK, contextVars
  <2>8. asked' = confirmed
    BY <1>1, <1>3, <2>1 DEF Inv, QuestionStands
  <2> QED BY <1>1, <2>4, <2>7, <2>8 DEF Inv, QuestionStands
<1> QED BY <1>2, <1>3

LEMMA HandleKeeps ==
  ASSUME Inv, NEW r \in requests, NEW outcome \in {"ok", "failed"}, HandleResult(r, outcome)
  PROVE  Inv' /\ run' = run
<1>1. /\ UNCHANGED <<listVars, asked, run, elsewhere, contextVars>>
      /\ r.server \in Server /\ run \in Nat
  BY Bounds DEF HandleResult, Inv, TypeOK, Request
<1>2. CASE task = None
  BY <1>1, <1>2 DEF HandleResult, Inv, TypeOK, QuestionStands, listVars, contextVars
<1>3. CASE task # None
  <2> DEFINE counted == OnCompleted(task, r.server, outcome)
  <2>1. PICK batch \in Batches(counted) :
          /\ task' = LET next == Polled(counted, batch)
                     IN IF next.state = "completed" THEN None ELSE next
          /\ requests' = (requests \ {r}) \cup RequestsFor(batch, run)
    BY <1>3 DEF HandleResult
  <2>2. Accounted(counted, asked)
    BY <1>1, <1>3, OnCompletedKeeps DEF Inv
  <2> HIDE DEF counted
  <2>3. Accounted(Polled(counted, batch), asked)
    BY <2>1, <2>2, PolledKeeps
  <2>4. task' = None \/ Accounted(task', asked')
    BY <1>1, <2>1, <2>3
  <2>5. task' \in Evac \cup {None}
    BY <2>4 DEF Accounted
  <2>6. batch \in SUBSET Server
    BY <2>1, <2>2 DEF Batches, Accounted, Evac
  <2>7. requests' \in SUBSET Request
    BY <1>1, <2>1, <2>6, RequestsFit DEF Inv, TypeOK
  <2>8. TypeOK'
    BY <1>1, <2>5, <2>7 DEF Inv, TypeOK, listVars, contextVars
  <2> QED BY <1>1, <2>4, <2>8 DEF Inv, QuestionStands, listVars
<1> QED BY <1>2, <1>3

(* The other actions leave the task alone, cancel it or drop it.           *)
LEMMA OthersKeep ==
  ASSUME Inv,
         \/ \E ids \in SUBSET Server : Check(ids)
         \/ AskConfirmation \/ Cancel \/ SyncInstanceList \/ Switch \/ SeeNotice
         \/ \E server \in Server : EvacuateElsewhere(server)
         \/ \E r \in requests : DropResult(r) \/ Refuse(r)
         \/ UNCHANGED vars
  PROVE  Inv' /\ run' = run
<1>1. CASE \/ \E ids \in SUBSET Server : Check(ids)
           \/ AskConfirmation \/ SyncInstanceList
  BY <1>1 DEF Check, AskConfirmation, SyncInstanceList, Inv, TypeOK, QuestionStands, contextVars
<1>2. CASE Cancel
  <2>1. Accounted(Cancelled(task), asked)
    BY <1>2, CancelledKeeps DEF Cancel, Inv
  <2> QED BY <1>2, <2>1 DEF Cancel, Accounted, Inv, TypeOK, QuestionStands, contextVars
<1>3. CASE Switch
  <2>1. /\ epoch' \in 0..MaxSwitches /\ switching' \in BOOLEAN /\ notice' \in Nat \cup {None}
        /\ standing' \in 0..epoch'
        /\ UNCHANGED <<task, listVars, asked, run, requests, elsewhere>>
    <3>1. /\ epoch \in 0..MaxSwitches /\ epoch \in Nat /\ notice \in Nat \cup {None}
          /\ standing \in 0..epoch
      BY Bounds DEF Inv, TypeOK
    <3>2. CASE BeginSwitch
      <4>1. epoch' \in 0..MaxSwitches
        BY <3>1, <3>2, Bounds DEF BeginSwitch
      <4>2. standing' \in 0..epoch'
        BY <3>1, <3>2 DEF BeginSwitch
      <4> QED BY <3>1, <3>2, <4>1, <4>2 DEF BeginSwitch
    <3>3. CASE CommitSwitch
      <4>1. standing' \in 0..epoch' /\ epoch' = epoch
        BY <3>1, <3>3 DEF CommitSwitch
      <4> QED BY <3>1, <3>3, <4>1 DEF CommitSwitch
    <3>4. CASE FailSwitch
      BY <3>1, <3>4 DEF FailSwitch
    <3>5. CASE SwitchToSame
      <4>1. standing \in Nat /\ notice' = standing
        BY <3>1, <3>5 DEF SwitchToSame
      <4>2. UNCHANGED <<epoch, switching, standing, task, listVars, asked, run, requests, elsewhere>>
        BY <3>5 DEF SwitchToSame
      <4>3. switching' \in BOOLEAN
        BY <4>2 DEF Inv, TypeOK
      <4> QED BY <3>1, <4>1, <4>2, <4>3
    <3> QED BY <1>3, <3>2, <3>3, <3>4, <3>5 DEF Switch
  <2> QED BY <2>1 DEF Inv, TypeOK, QuestionStands, listVars
<1>4. CASE SeeNotice
  BY <1>4 DEF SeeNotice, Inv, TypeOK, QuestionStands
<1>5. CASE \E server \in Server : EvacuateElsewhere(server)
  <2>1. PICK server \in Server : EvacuateElsewhere(server)
    BY <1>5
  <2>2. RequestsFor({server}, FromServerList) \in SUBSET Request
    BY RequestsFit DEF FromServerList
  <2>3. elsewhere' \in 0..MaxElsewhere
    BY <2>1, Bounds DEF EvacuateElsewhere, Inv, TypeOK
  <2> QED BY <2>1, <2>2, <2>3
          DEF EvacuateElsewhere, Inv, TypeOK, QuestionStands, listVars, contextVars
<1>6. CASE \E r \in requests : DropResult(r) \/ Refuse(r)
  BY <1>6 DEF DropResult, Refuse, Inv, TypeOK, QuestionStands, listVars, contextVars
<1>7. CASE UNCHANGED vars
  BY <1>7 DEF vars, Inv, TypeOK, QuestionStands, listVars, contextVars
<1> QED BY <1>1, <1>2, <1>3, <1>4, <1>5, <1>6, <1>7

LEMMA Step == Inv /\ [Next]_vars => Inv' /\ (run' # run => asked' = confirmed)
BY StartKeeps, HandleKeeps, OthersKeep DEF Next, User, End

LEMMA Invariance == Spec => []Inv
BY Initially, Step, PTL DEF Spec

-----------------------------------------------------------------------------
(* Every reachable state is well typed; what is queued, in flight and      *)
(* counted are servers.                                                    *)
THEOREM TypeCorrect == Spec => []TypeOK
BY Invariance, PTL DEF Inv

(* Every server of an evacuation is queued, in flight or counted, exactly  *)
(* one of them and once, and the cap holds, whatever is cancelled, refused *)
(* or answered twice (EvacTask).                                           *)
THEOREM ServersAccounted == Spec => []EveryServerAccounted
<1>1. Inv => EveryServerAccounted
  <2> SUFFICES ASSUME Inv, task # None
               PROVE  Cardinality(task.completed) = Cardinality(ServersOf(task.completed))
    BY DEF EveryServerAccounted, Inv, Accounted
  <2> DEFINE S == task.completed
             T == ServersOf(task.completed)
             f == [x \in S |-> x.server]
  <2>1. S \in SUBSET Result /\ CountedOnce(S) /\ T \in SUBSET Server
    BY DEF Inv, Accounted, Evac, Result, ServersOf
  <2>2. f \in Bijection(S, T)
    <3>1. f \in [S -> T] /\ \A y \in T : \E x \in S : f[x] = y
      BY DEF ServersOf
    <3>2. \A x, y \in S : f[x] = f[y] => x = y
      BY <2>1 DEF CountedOnce
    <3> QED BY <3>1, <3>2 DEF Bijection, Injection, Surjection, IsInjective
  <2>3. IsFiniteSet(T) /\ ExistsBijection(T, S)
    BY <2>1, <2>2, Counting, Fun_ExistsBijSymmetric DEF ExistsBijection
  <2> HIDE DEF S, T
  <2>4. Cardinality(S) = Cardinality(T)
    BY <2>3, FS_Bijection
  <2> QED BY <2>4 DEF S, T
<1> QED BY <1>1, Invariance, PTL

(* What the second e starts is what the user was asked about at the first  *)
(* (StartEvacuate).                                                        *)
THEOREM ConfirmedBeforeStart == Spec => StartOnlyConfirmed
BY Invariance, Step, PTL DEF Spec, StartOnlyConfirmed
=============================================================================
