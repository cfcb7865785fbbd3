------------------------- MODULE KeystoneAuth_proofs -------------------------
(***************************************************************************)
(* What the token map holds, for any number of requests, scopes, switches  *)
(* and restarts.                                                           *)
(***************************************************************************)
EXTENDS KeystoneAuth, TLAPS

(* The mutex.  A request between lock and unlock holds it, and goes on to  *)
(* log in only under the initial scope, by refresh_token's guard.          *)
LockHeld == /\ \A r \in Request : pc[r] \in {"check", "mint"} => holder = r
            /\ refreshScope = InitialScope

(* What a token must be like to go under a key. *)
FitsKey(token, key) ==
  /\ token.by \in {"credential", "switch"} => token.scope = key
  /\ key = InitialScope => token.scope = InitialScope

(* What the running switch will write: the rescoped token is its target's, *)
(* and the captured one belongs where it came from, and has aged at least  *)
(* as far as the one that has been left there.                             *)
StagedFits == staged.token = staged.target
FallbackFits == FitsKey(fallback.token, fallback.key)
NoFresher(age, than) == /\ than = "stale" => age = "stale"
                        /\ than = "near" => age # "fresh"
FallbackAges == switch # "idle" => NoFresher(fallback.token.age, map[fallback.key].age)

(* No login is under way for a token there is: not in the map, nor in what *)
(* a failing switch would put back into it.                                *)
Spent(token) == token.by # "credential" \/ token.age = "stale"
LoginNeeded ==
  \A r \in Request : pc[r] = "mint" =>
    /\ Spent(map[InitialScope])
    /\ switch # "idle" /\ fallback.key = InitialScope => Spent(fallback.token)

Inv == /\ TypeOK /\ LockHeld /\ StagedFits /\ FallbackFits /\ FallbackAges /\ LoginNeeded
       /\ RequestsAndSwitchesFitKey /\ InitialKeyIsInitial

-----------------------------------------------------------------------------
(* Lemmas about the map and the files.                                     *)
LEMMA MapShape ==
  ASSUME TypeOK, NEW s \in Scope
  PROVE  /\ map[s] = NoToken \/ map[s] \in Token
         /\ map[s].age \in Age /\ map[s].scope \in Scope \cup {None}
         /\ map[s].age # "stale" => map[s] \in Token
         /\ map[s] \in Token => map[s].scope \in Scope
BY DEF TypeOK, Token, NoToken, Age

LEMMA InitialTokenFits ==
  ASSUME NEW writer \in Writer
  PROVE  /\ Minted(writer) \in Token /\ FitsKey(Minted(writer), InitialScope)
         /\ Minted(writer).scope = InitialScope
         /\ Minted(writer).age = "fresh" /\ Minted(writer).by = writer
<1>1. Minted(writer) \in Token
  BY ScopeAssumption DEF Minted, Token, Age
<1> QED BY <1>1 DEF Minted, FitsKey

(* One more token in the map, under a key it fits. *)
LEMMA TokenWritten ==
  ASSUME Inv, NEW key \in Scope, NEW token \in Token, FitsKey(token, key),
         map' = [map EXCEPT ![key] = token]
  PROVE  /\ map' \in [Scope -> Token \cup {NoToken}]
         /\ map'[key] = token /\ \A s \in Scope : s # key => map'[s] = map[s]
         /\ RequestsAndSwitchesFitKey'
         /\ map'[InitialScope].scope \in {InitialScope, None}
<1>1. map' \in [Scope -> Token \cup {NoToken}]
  BY DEF Inv, TypeOK
<1>2. map'[key] = token /\ \A s \in Scope : s # key => map'[s] = map[s]
  BY DEF Inv, TypeOK
<1>3. RequestsAndSwitchesFitKey'
  <2> SUFFICES ASSUME NEW s \in Scope, map'[s].by \in {"credential", "switch"}
               PROVE  map'[s].scope \in {s, None}
    BY DEF RequestsAndSwitchesFitKey
  <2>1. CASE s = key
    BY <1>2, <2>1 DEF FitsKey
  <2>2. CASE s # key
    BY <1>2, <2>2 DEF Inv, RequestsAndSwitchesFitKey
  <2> QED BY <2>1, <2>2
<1>4. map'[InitialScope].scope \in {InitialScope, None}
  <2>1. CASE InitialScope = key
    BY <1>2, <2>1 DEF FitsKey
  <2>2. CASE InitialScope # key
    BY <1>2, <2>2, ScopeAssumption DEF Inv, InitialKeyIsInitial
  <2> QED BY <2>1, <2>2
<1> QED BY <1>1, <1>2, <1>3, <1>4

LEMMA TokenSaved ==
  ASSUME Inv, NEW key \in Scope, NEW token \in Token, FitsKey(token, key),
         Save(key, token)
  PROVE  /\ files' \in [Scope -> Scope \cup {None}]
         /\ files'[InitialScope] \in {InitialScope, None}
<1>1. files \in [Scope -> Scope \cup {None}] /\ token.scope \in Scope
      /\ files[InitialScope] \in {InitialScope, None} /\ InitialScope \in Scope
  BY ScopeAssumption DEF Inv, TypeOK, Token, InitialKeyIsInitial
<1>2. CASE files' = files
  BY <1>1, <1>2
<1>3. CASE files' = [files EXCEPT ![key] = token.scope]
  <2>1. files' \in [Scope -> Scope \cup {None}]
    BY <1>1, <1>3
  <2>2. CASE key = InitialScope
    BY <1>1, <1>3, <2>2 DEF FitsKey
  <2>3. CASE key # InitialScope
    BY <1>1, <1>3, <2>3
  <2> QED BY <2>1, <2>2, <2>3
<1> QED BY <1>2, <1>3 DEF Save

-----------------------------------------------------------------------------
LEMMA Initially == Init => Inv
<1> SUFFICES ASSUME Init
             PROVE  Inv
  OBVIOUS
<1> USE DEF Init
<1>1. NoFallback \in [key: Scope, token: Token] /\ NoFallback.key = InitialScope
      /\ NoFallback.token = Minted("credential")
  BY InitialTokenFits, ScopeAssumption DEF NoFallback, Writer
<1>2. NothingStaged \in [target: Scope, token: Scope] /\ NothingStaged.token = NothingStaged.target
  BY ScopeAssumption DEF NothingStaged
<1>3. answer \in [Request -> Answer]
  BY DEF Unanswered, Answer
<1>4. map \in [Scope -> Token \cup {NoToken}] /\ files \in [Scope -> Scope \cup {None}]
  OBVIOUS
<1>5. TypeOK
  BY <1>1, <1>2, <1>3, <1>4, ScopeAssumption, BoundAssumption
     DEF TypeOK, LoopPoint, RequestPoint, SwitchPoint
<1>6. StagedFits /\ FallbackFits /\ FallbackAges
  BY <1>1, <1>2, InitialTokenFits DEF StagedFits, FallbackFits, FallbackAges, Writer
<1>7. \A s \in Scope : map[s].scope = None
  BY DEF NoToken
<1>8. RequestsAndSwitchesFitKey /\ InitialKeyIsInitial
  BY <1>7, ScopeAssumption DEF RequestsAndSwitchesFitKey, InitialKeyIsInitial
<1> QED BY <1>5, <1>6, <1>8 DEF Inv, LockHeld, LoginNeeded

-----------------------------------------------------------------------------
(* A request up to its login.  Only one that finds no usable token under   *)
(* the lock goes on to log in.                                             *)
LEMMA RequestMoves ==
  ASSUME Inv, NEW r \in Request, NEW to \in RequestPoint, pc' = [pc EXCEPT ![r] = to],
         to # "check", to # "mint",
         UNCHANGED <<map, refreshScope, switchVars>>,
         \/ holder' = None /\ pc[r] \in {"check", "mint"}
         \/ holder' = holder
  PROVE  LockHeld' /\ LoginNeeded' /\ pc' \in [Request -> RequestPoint]
<1>1. pc' \in [Request -> RequestPoint] /\ pc'[r] = to
      /\ \A q \in Request : q # r => pc'[q] = pc[q]
  BY DEF Inv, TypeOK
<1>2. LockHeld'
  <2> SUFFICES ASSUME NEW q \in Request, pc'[q] \in {"check", "mint"}
               PROVE  holder' = q
    BY DEF Inv, LockHeld
  <2>1. q # r /\ pc[q] = pc'[q] /\ holder = q
    BY <1>1 DEF Inv, LockHeld
  <2> QED BY <2>1 DEF Inv, LockHeld
<1>3. LoginNeeded'
  BY <1>1 DEF Inv, LoginNeeded, switchVars
<1> QED BY <1>1, <1>2, <1>3

LEMMA ReturnAnswers ==
  ASSUME Inv, NEW r \in Request, NEW result \in Answer, answer' = [answer EXCEPT ![r] = result]
  PROVE  answer' \in [Request -> Answer]
BY DEF Inv, TypeOK

LEMMA AnswerShape ==
  ASSUME Inv
  PROVE  /\ Granted(active) \in Answer
         /\ \A kind \in {"SessionExpired", "AuthFailed"} : Refused(kind) \in Answer
<1>1. active \in Scope
  BY DEF Inv, TypeOK
<1>2. map[active].scope \in Scope \cup {None}
  BY <1>1, MapShape DEF Inv
<1>3. Granted(active) \in Answer
  BY <1>1, <1>2 DEF Granted, Answer
<1> QED BY <1>3 DEF Refused, Answer

(* What no request disturbs. *)
LEMMA MapStays ==
  ASSUME Inv, UNCHANGED <<map, files, switchVars>>
  PROVE  /\ StagedFits' /\ FallbackFits' /\ FallbackAges'
         /\ RequestsAndSwitchesFitKey' /\ InitialKeyIsInitial'
BY DEF Inv, StagedFits, FallbackFits, FallbackAges, RequestsAndSwitchesFitKey,
       InitialKeyIsInitial, switchVars

LEMMA AskKeeps ==
  ASSUME Inv, NEW r \in Request, Ask(r)
  PROVE  Inv'
<1>1. /\ loop' = IF loop = "off" THEN "read" ELSE loop
      /\ UNCHANGED <<active, map, files, loopScope, holder, refreshScope, switchVars, restarts>>
  BY DEF Ask
<1>2. \/ /\ pc' = [pc EXCEPT ![r] = "done"]
         /\ answer' = [answer EXCEPT ![r] = Refused("SessionExpired")]
      \/ pc' = [pc EXCEPT ![r] = "fast"] /\ answer' = answer
  BY DEF Ask, Return, Goto
<1>3. answer' \in [Request -> Answer]
  BY <1>2, AnswerShape, ReturnAnswers DEF Inv, TypeOK
<1>4. LockHeld' /\ LoginNeeded' /\ pc' \in [Request -> RequestPoint]
  BY <1>1, <1>2, RequestMoves DEF RequestPoint
<1>5. TypeOK'
  BY <1>1, <1>3, <1>4 DEF Inv, TypeOK, LoopPoint, switchVars
<1> QED BY <1>1, <1>4, <1>5, MapStays DEF Inv

LEMMA FastPathKeeps ==
  ASSUME Inv, NEW r \in Request, FastPath(r)
  PROVE  Inv'
<1>1. UNCHANGED <<active, map, files, loopVars, holder, refreshScope, switchVars, restarts>>
  BY DEF FastPath
<1>2. \/ pc' = [pc EXCEPT ![r] = "done"] /\ answer' = [answer EXCEPT ![r] = Granted(active)]
      \/ pc' = [pc EXCEPT ![r] = "wait"] /\ answer' = answer
  BY DEF FastPath, Return, Goto
<1>3. answer' \in [Request -> Answer]
  BY <1>2, AnswerShape, ReturnAnswers DEF Inv, TypeOK
<1>4. LockHeld' /\ LoginNeeded' /\ pc' \in [Request -> RequestPoint]
  BY <1>1, <1>2, RequestMoves DEF RequestPoint
<1>5. TypeOK'
  BY <1>1, <1>3, <1>4 DEF Inv, TypeOK, loopVars, switchVars
<1> QED BY <1>1, <1>4, <1>5, MapStays DEF Inv

LEMMA LockRefreshKeeps ==
  ASSUME Inv, NEW r \in Request, LockRefresh(r)
  PROVE  Inv'
<1>1. /\ holder = None /\ holder' = r /\ pc' = [pc EXCEPT ![r] = "check"]
      /\ UNCHANGED <<active, map, files, loopVars, answer, refreshScope, switchVars, restarts>>
  BY DEF LockRefresh, Goto
<1>2. /\ pc' \in [Request -> RequestPoint] /\ pc'[r] = "check"
      /\ \A q \in Request : q # r => pc'[q] = pc[q]
  BY <1>1 DEF Inv, TypeOK, RequestPoint
<1>3. \A q \in Request : pc[q] \notin {"check", "mint"}
  BY <1>1, RequestAssumption DEF Inv, LockHeld
<1>4. LockHeld' /\ LoginNeeded'
  BY <1>1, <1>2, <1>3 DEF Inv, LockHeld, LoginNeeded
<1>5. TypeOK'
  BY <1>1, <1>2 DEF Inv, TypeOK, loopVars, switchVars
<1> QED BY <1>1, <1>4, <1>5, MapStays DEF Inv

LEMMA CheckAgainKeeps ==
  ASSUME Inv, NEW r \in Request, CheckAgain(r)
  PROVE  Inv'
<1>1. pc[r] = "check" /\ UNCHANGED <<active, map, files, loopVars, switchVars, restarts>>
  BY DEF CheckAgain, Return, Goto
<1>2. CASE /\ pc' = [pc EXCEPT ![r] = "done"] /\ holder' = None /\ UNCHANGED refreshScope
           /\ \/ answer' = [answer EXCEPT ![r] = Granted(active)]
              \/ answer' = [answer EXCEPT ![r] = Refused("AuthFailed")]
  <2>1. answer' \in [Request -> Answer]
    BY <1>2, AnswerShape, ReturnAnswers
  <2>2. LockHeld' /\ LoginNeeded' /\ pc' \in [Request -> RequestPoint]
    BY <1>1, <1>2, RequestMoves DEF RequestPoint
  <2>3. TypeOK'
    BY <1>1, <1>2, <2>1, <2>2 DEF Inv, TypeOK, loopVars, switchVars
  <2> QED BY <1>1, <2>2, <2>3, MapStays DEF Inv
<1>3. CASE /\ pc' = [pc EXCEPT ![r] = "mint"] /\ UNCHANGED <<answer, holder>>
           /\ ~Usable(active) /\ RefreshSafe(active) /\ refreshScope' = active
  <2>1. /\ pc' \in [Request -> RequestPoint] /\ pc'[r] = "mint"
        /\ \A q \in Request : q # r => pc'[q] = pc[q]
    BY <1>3 DEF Inv, TypeOK, RequestPoint
  <2>2. LockHeld'
    BY <1>1, <1>3, <2>1 DEF Inv, LockHeld, RefreshSafe
  <2>3. map[InitialScope].age = "stale"
    BY <1>3 DEF Usable, RefreshSafe
  <2>4. switch # "idle" /\ fallback.key = InitialScope => fallback.token.age = "stale"
    BY <2>3 DEF Inv, FallbackAges, NoFresher
  <2>5. LoginNeeded'
    BY <1>1, <2>1, <2>3, <2>4 DEF Inv, LoginNeeded, Spent, switchVars
  <2>6. TypeOK'
    BY <1>1, <1>3, <2>1, ScopeAssumption DEF Inv, TypeOK, RefreshSafe, loopVars, switchVars
  <2> QED BY <1>1, <2>2, <2>5, <2>6, MapStays DEF Inv
<1> QED BY <1>2, <1>3 DEF CheckAgain, Return, Goto

(* The lock is with the request that logs in, so no other login is under   *)
(* way when its token arrives.                                             *)
LEMMA MintKeeps ==
  ASSUME Inv, NEW r \in Request, Mint(r)
  PROVE  Inv'
<1> DEFINE token == Minted("credential")
           result == [kind |-> "ok", key |-> InitialScope, scope |-> InitialScope]
<1>1. /\ pc[r] = "mint" /\ pc' = [pc EXCEPT ![r] = "done"] /\ holder' = None
      /\ refreshScope = InitialScope
      /\ UNCHANGED <<active, refreshScope, loopVars, switchVars, restarts>>
  BY DEF Mint, Return, Goto, Inv, LockHeld
<1>2. \/ /\ map' = [map EXCEPT ![InitialScope] = token] /\ Save(InitialScope, token)
         /\ answer' = [answer EXCEPT ![r] = result]
      \/ answer' = [answer EXCEPT ![r] = Refused("AuthFailed")] /\ UNCHANGED <<map, files>>
  BY <1>1 DEF Mint, Return
<1>3. token \in Token /\ FitsKey(token, InitialScope) /\ token.age = "fresh" /\ result \in Answer
      /\ InitialScope \in Scope
  BY InitialTokenFits, ScopeAssumption DEF Writer, Answer
<1> HIDE DEF token, result
<1>4. answer' \in [Request -> Answer]
  BY <1>2, <1>3, AnswerShape, ReturnAnswers
<1>5. /\ pc' \in [Request -> RequestPoint] /\ pc'[r] = "done"
      /\ \A q \in Request : q # r => pc'[q] = pc[q]
  BY <1>1 DEF Inv, TypeOK, RequestPoint
<1>6. \A q \in Request : pc'[q] \notin {"check", "mint"}
  BY <1>1, <1>5 DEF Inv, LockHeld
<1>7. LockHeld' /\ LoginNeeded'
  BY <1>1, <1>6 DEF LockHeld, LoginNeeded
<1>8. StagedFits' /\ FallbackFits'
  BY <1>1 DEF Inv, StagedFits, FallbackFits, switchVars
<1>9. /\ map' \in [Scope -> Token \cup {NoToken}] /\ files' \in [Scope -> Scope \cup {None}]
      /\ RequestsAndSwitchesFitKey' /\ InitialKeyIsInitial' /\ FallbackAges'
  <2>1. CASE map' = [map EXCEPT ![InitialScope] = token] /\ Save(InitialScope, token)
    <3>1. /\ map' \in [Scope -> Token \cup {NoToken}]
          /\ map'[InitialScope] = token /\ \A s \in Scope : s # InitialScope => map'[s] = map[s]
          /\ RequestsAndSwitchesFitKey'
          /\ map'[InitialScope].scope \in {InitialScope, None}
      BY <1>3, <2>1, TokenWritten
    <3>2. files' \in [Scope -> Scope \cup {None}] /\ files'[InitialScope] \in {InitialScope, None}
      BY <1>3, <2>1, TokenSaved
    <3>3. fallback.key \in Scope
      BY DEF Inv, TypeOK
    <3>4. FallbackAges'
      BY <1>1, <1>3, <3>1, <3>3 DEF Inv, FallbackAges, NoFresher, switchVars
    <3> QED BY <3>1, <3>2, <3>4 DEF InitialKeyIsInitial
  <2>2. CASE UNCHANGED <<map, files>>
    BY <1>1, <2>2, MapStays DEF Inv, TypeOK
  <2> QED BY <1>2, <2>1, <2>2
<1>10. TypeOK'
  BY <1>1, <1>4, <1>5, <1>9 DEF Inv, TypeOK, loopVars, switchVars
<1> QED BY <1>7, <1>8, <1>9, <1>10 DEF Inv

-----------------------------------------------------------------------------
(* The refresh loop.  Its guard and its write may be of different scopes,  *)
(* but what it writes does not count as a request's.                       *)
LEMMA LoginsStay ==
  ASSUME Inv, UNCHANGED <<pc, holder, refreshScope, switchVars>>,
         NEW key \in Scope, NEW token \in Token,
         map' = [map EXCEPT ![key] = token], Spent(token)
  PROVE  LockHeld' /\ LoginNeeded'
<1>1. map'[InitialScope] = map[InitialScope] \/ Spent(map'[InitialScope])
  BY ScopeAssumption DEF Inv, TypeOK
<1>2. ASSUME NEW r \in Request, pc'[r] = "mint"
      PROVE  /\ Spent(map'[InitialScope])
             /\ switch' # "idle" /\ fallback'.key = InitialScope => Spent(fallback'.token)
  BY <1>1, <1>2 DEF Inv, LoginNeeded, switchVars
<1> QED BY <1>2 DEF Inv, LockHeld, LoginNeeded, Spent

LEMMA LoopKeeps ==
  ASSUME Inv, Loop
  PROVE  Inv'
<1>1. CASE LoopRead \/ LoopWake
  <2>1. /\ loop' \in LoopPoint /\ loopScope' \in Scope
        /\ UNCHANGED <<active, map, files, requestVars, switchVars, restarts>>
    BY <1>1 DEF LoopRead, LoopWake, Inv, TypeOK, LoopPoint
  <2>2. TypeOK' /\ LockHeld' /\ LoginNeeded'
    BY <2>1 DEF Inv, TypeOK, LockHeld, LoginNeeded, requestVars, switchVars
  <2> QED BY <2>1, <2>2, MapStays DEF Inv
<1>2. CASE LoopLogin
  <2> DEFINE token == Minted("loop")
  <2>1. /\ loop' = "read" /\ UNCHANGED <<active, loopScope, requestVars, switchVars, restarts>>
        /\ \/ map' = [map EXCEPT ![loopScope] = token] /\ Save(loopScope, token)
           \/ UNCHANGED <<map, files>>
    BY <1>2 DEF LoopLogin
  <2>2. /\ token \in Token /\ FitsKey(token, loopScope) /\ token.age = "fresh"
        /\ Spent(token) /\ loopScope \in Scope
    BY InitialTokenFits DEF Writer, FitsKey, Spent, Inv, TypeOK
  <2> HIDE DEF token
  <2>3. CASE map' = [map EXCEPT ![loopScope] = token] /\ Save(loopScope, token)
    <3>1. /\ map' \in [Scope -> Token \cup {NoToken}]
          /\ map'[loopScope] = token /\ \A s \in Scope : s # loopScope => map'[s] = map[s]
          /\ RequestsAndSwitchesFitKey'
          /\ map'[InitialScope].scope \in {InitialScope, None}
      BY <2>2, <2>3, TokenWritten
    <3>2. files' \in [Scope -> Scope \cup {None}] /\ files'[InitialScope] \in {InitialScope, None}
      BY <2>2, <2>3, TokenSaved
    <3>3. LockHeld' /\ LoginNeeded'
      BY <2>1, <2>2, <2>3, LoginsStay DEF requestVars
    <3>4. fallback.key \in Scope
      BY DEF Inv, TypeOK
    <3>5. StagedFits' /\ FallbackFits' /\ FallbackAges'
      BY <2>1, <2>2, <3>1, <3>4
         DEF Inv, StagedFits, FallbackFits, FallbackAges, NoFresher, switchVars
    <3>6. TypeOK'
      BY <2>1, <3>1, <3>2 DEF Inv, TypeOK, LoopPoint, requestVars, switchVars
    <3> QED BY <3>1, <3>2, <3>3, <3>5, <3>6 DEF Inv, InitialKeyIsInitial
  <2>4. CASE UNCHANGED <<map, files>>
    <3>1. TypeOK' /\ LockHeld' /\ LoginNeeded'
      BY <2>1, <2>4 DEF Inv, TypeOK, LoopPoint, LockHeld, LoginNeeded, requestVars, switchVars
    <3> QED BY <2>1, <2>4, <3>1, MapStays DEF Inv
  <2> QED BY <2>1, <2>3, <2>4
<1> QED BY <1>1, <1>2 DEF Loop

-----------------------------------------------------------------------------
(* The switch. *)
LEMMA RescopeKeeps ==
  ASSUME Inv, Rescope
  PROVE  Inv'
<1>1. /\ map[active] # NoToken /\ active \in Scope
      /\ fallback' = [key |-> active, token |-> map[active]]
      /\ switch' = "staged" /\ switches < MaxSwitches /\ switches' = switches + 1
      /\ UNCHANGED <<active, map, files, loopVars, requestVars, restarts>>
  BY DEF Rescope, Inv, TypeOK
<1>2. PICK target \in Scope : staged' = [target |-> target, token |-> target]
  BY DEF Rescope, ScopeMatches
<1>3. map[active] \in Token /\ map[active].scope \in Scope
  BY <1>1, MapShape DEF Inv
<1>4. FallbackFits'
  <2>1. fallback'.key = active /\ fallback'.token = map[active]
    BY <1>1
  <2>2. map[active].by \in {"credential", "switch"} => map[active].scope = active
    BY <1>1, <1>3, ScopeAssumption DEF Inv, RequestsAndSwitchesFitKey
  <2>3. active = InitialScope => map[active].scope = InitialScope
    BY <1>3, ScopeAssumption DEF Inv, InitialKeyIsInitial
  <2> QED BY <2>1, <2>2, <2>3 DEF FallbackFits, FitsKey
<1>5. StagedFits' /\ FallbackAges'
  BY <1>1, <1>2 DEF StagedFits, FallbackAges, NoFresher
<1>6. LockHeld' /\ LoginNeeded'
  BY <1>1 DEF Inv, LockHeld, LoginNeeded, requestVars
<1>7. fallback' \in [key: Scope, token: Token] /\ staged' \in [target: Scope, token: Scope]
  BY <1>1, <1>2, <1>3
<1>8. switches' \in 0..MaxSwitches
  BY <1>1, BoundAssumption DEF Inv, TypeOK
<1>9. TypeOK'
  BY <1>1, <1>7, <1>8 DEF Inv, TypeOK, SwitchPoint, loopVars, requestVars
<1>10. RequestsAndSwitchesFitKey' /\ InitialKeyIsInitial'
  BY <1>1 DEF Inv, RequestsAndSwitchesFitKey, InitialKeyIsInitial
<1> QED BY <1>4, <1>5, <1>6, <1>9, <1>10 DEF Inv

LEMMA InsertKeeps ==
  ASSUME Inv, SetActiveInsert
  PROVE  Inv'
<1> DEFINE token == [scope |-> staged.token, age |-> fallback.token.age, by |-> "switch"]
<1>1. /\ switch = "staged" /\ switch' = "inserted" /\ map' = [map EXCEPT ![staged.target] = token]
      /\ UNCHANGED <<active, files, loopVars, requestVars, staged, fallback, switches, restarts>>
  BY DEF SetActiveInsert
<1>2. /\ staged.target \in Scope /\ staged.token = staged.target
      /\ fallback.key \in Scope /\ fallback.token.age \in Age
  BY DEF Inv, TypeOK, StagedFits, Token
<1>3. token \in Token /\ FitsKey(token, staged.target) /\ Spent(token)
      /\ token.age = fallback.token.age
  BY <1>2 DEF Token, Writer, FitsKey, Spent
<1> HIDE DEF token
<1>4. /\ map' \in [Scope -> Token \cup {NoToken}]
      /\ map'[staged.target] = token /\ \A s \in Scope : s # staged.target => map'[s] = map[s]
      /\ RequestsAndSwitchesFitKey'
      /\ map'[InitialScope].scope \in {InitialScope, None}
  BY <1>1, <1>2, <1>3, TokenWritten
<1>5. InitialKeyIsInitial'
  BY <1>1, <1>4 DEF Inv, InitialKeyIsInitial
<1>6. StagedFits' /\ FallbackFits'
  BY <1>1 DEF Inv, StagedFits, FallbackFits
<1>7. FallbackAges'
  BY <1>1, <1>2, <1>3, <1>4 DEF Inv, FallbackAges, NoFresher
<1>8. LockHeld' /\ LoginNeeded'
  <2>1. map'[InitialScope] = map[InitialScope] \/ Spent(map'[InitialScope])
    BY <1>3, <1>4, ScopeAssumption
  <2>2. ASSUME NEW r \in Request, pc'[r] = "mint"
        PROVE  /\ Spent(map'[InitialScope])
               /\ switch' # "idle" /\ fallback'.key = InitialScope => Spent(fallback'.token)
    BY <1>1, <2>1, <2>2 DEF Inv, LoginNeeded, requestVars
  <2> QED BY <1>1, <2>2 DEF Inv, LockHeld, LoginNeeded, Spent, requestVars
<1>9. TypeOK'
  BY <1>1, <1>4 DEF Inv, TypeOK, SwitchPoint, loopVars, requestVars
<1> QED BY <1>4, <1>5, <1>6, <1>7, <1>8, <1>9 DEF Inv

(* The steps that leave the map alone. *)
LEMMA FlipKeeps ==
  ASSUME Inv, SetActiveFlip \/ StoreScoped \/ RevertFlip
  PROVE  Inv'
<1>1. UNCHANGED <<map, loopVars, requestVars, switches, restarts>>
  BY DEF SetActiveFlip, StoreScoped, RevertFlip
<1>2. /\ active' \in Scope /\ switch' \in SwitchPoint
      /\ staged' \in [target: Scope, token: Scope] /\ fallback' \in [key: Scope, token: Token]
      /\ StagedFits' /\ FallbackFits'
      /\ switch' # "idle" => switch # "idle" /\ fallback' = fallback
  <2>1. CASE SetActiveFlip
    BY <2>1 DEF SetActiveFlip, Inv, TypeOK, SwitchPoint, StagedFits, FallbackFits
  <2>2. CASE staged' = NothingStaged /\ fallback' = NoFallback /\ switch' = "idle"
             /\ (active' = active \/ active' = fallback.key)
    <3>1. NoFallback \in [key: Scope, token: Token] /\ NoFallback.key = InitialScope
          /\ NoFallback.token = Minted("credential")
      BY InitialTokenFits, ScopeAssumption DEF NoFallback, Writer
    <3>2. NothingStaged \in [target: Scope, token: Scope]
          /\ NothingStaged.token = NothingStaged.target
      BY ScopeAssumption DEF NothingStaged
    <3>3. FallbackFits'
      BY <2>2, <3>1, InitialTokenFits DEF FallbackFits, Writer
    <3> QED BY <2>2, <3>1, <3>2, <3>3 DEF Inv, TypeOK, SwitchPoint, StagedFits
  <2> QED BY <2>1, <2>2 DEF StoreScoped, RevertFlip
<1>3. FallbackAges' /\ LockHeld' /\ LoginNeeded'
  BY <1>1, <1>2 DEF Inv, FallbackAges, LockHeld, LoginNeeded, requestVars
<1>4. files' \in [Scope -> Scope \cup {None}] /\ files'[InitialScope] \in {InitialScope, None}
  <2>1. files \in [Scope -> Scope \cup {None}] /\ files[InitialScope] \in {InitialScope, None}
        /\ staged.target \in Scope /\ staged.token = staged.target
    BY DEF Inv, TypeOK, StagedFits, InitialKeyIsInitial
  <2>2. files' = files \/ files' = [files EXCEPT ![staged.target] = staged.target]
    BY <2>1 DEF SetActiveFlip, StoreScoped, RevertFlip
  <2> QED BY <2>1, <2>2, ScopeAssumption
<1>5. RequestsAndSwitchesFitKey' /\ InitialKeyIsInitial'
  BY <1>1, <1>4 DEF Inv, RequestsAndSwitchesFitKey, InitialKeyIsInitial
<1>6. TypeOK'
  BY <1>1, <1>2, <1>4 DEF Inv, TypeOK, loopVars, requestVars
<1> QED BY <1>2, <1>3, <1>5, <1>6 DEF Inv

(* A failing switch puts its captured token back: where it came from, and  *)
(* not one that a login under way is to replace.                           *)
LEMMA RevertInsertKeeps ==
  ASSUME Inv, RevertInsert
  PROVE  Inv'
<1>1. /\ switch = "flipped" /\ switch' = "reinserted"
      /\ map' = [map EXCEPT ![fallback.key] = fallback.token]
      /\ UNCHANGED <<active, files, loopVars, requestVars, staged, fallback, switches, restarts>>
  BY DEF RevertInsert
<1>2. fallback.key \in Scope /\ fallback.token \in Token /\ FitsKey(fallback.token, fallback.key)
  BY DEF Inv, TypeOK, FallbackFits
<1>3. /\ map' \in [Scope -> Token \cup {NoToken}]
      /\ map'[fallback.key] = fallback.token
      /\ \A s \in Scope : s # fallback.key => map'[s] = map[s]
      /\ RequestsAndSwitchesFitKey'
      /\ map'[InitialScope].scope \in {InitialScope, None}
  BY <1>1, <1>2, TokenWritten
<1>4. InitialKeyIsInitial' /\ StagedFits' /\ FallbackFits' /\ FallbackAges'
  BY <1>1, <1>3 DEF Inv, InitialKeyIsInitial, StagedFits, FallbackFits, FallbackAges, NoFresher
<1>5. LockHeld' /\ LoginNeeded'
  <2>1. ASSUME NEW r \in Request, pc'[r] = "mint"
        PROVE  /\ Spent(map'[InitialScope])
               /\ switch' # "idle" /\ fallback'.key = InitialScope => Spent(fallback'.token)
    BY <1>1, <1>3, <2>1, ScopeAssumption DEF Inv, LoginNeeded, requestVars
  <2> QED BY <1>1, <2>1 DEF Inv, LockHeld, LoginNeeded, Spent, requestVars
<1>6. TypeOK'
  BY <1>1, <1>3 DEF Inv, TypeOK, SwitchPoint, loopVars, requestVars
<1> QED BY <1>3, <1>4, <1>5, <1>6 DEF Inv

-----------------------------------------------------------------------------
(* Time brings no token back, and ages the captured one with its original. *)
LEMMA AgedToken ==
  ASSUME NEW token \in Token
  PROVE  /\ [token EXCEPT !.age = Older(@)] \in Token
         /\ [token EXCEPT !.age = Older(@)].scope = token.scope
         /\ [token EXCEPT !.age = Older(@)].by = token.by
         /\ [token EXCEPT !.age = Older(@)].age = Older(token.age)
         /\ \A key : FitsKey(token, key) => FitsKey([token EXCEPT !.age = Older(@)], key)
         /\ Spent(token) => Spent([token EXCEPT !.age = Older(@)])
<1> DEFINE aged == [token EXCEPT !.age = Older(@)]
<1>1. /\ aged \in Token /\ aged.scope = token.scope /\ aged.by = token.by
      /\ aged.age = Older(token.age)
  BY DEF Token, Older, Age
<1>2. Older(token.age) = "stale" \/ token.age = "fresh"
  BY DEF Older
<1> HIDE DEF aged
<1>3. \A key : FitsKey(token, key) => FitsKey(aged, key)
  BY <1>1 DEF FitsKey
<1>4. Spent(token) => Spent(aged)
  BY <1>1, <1>2 DEF Spent
<1> QED BY <1>1, <1>3, <1>4 DEF aged

LEMMA ExpireKeeps ==
  ASSUME Inv, Expire
  PROVE  Inv'
<1>1. UNCHANGED <<active, files, loopVars, requestVars, switch, staged, switches, restarts>>
  BY DEF Expire
<1>2. /\ fallback \in [key: Scope, token: Token] /\ FitsKey(fallback.token, fallback.key)
      /\ fallback.key \in Scope /\ fallback.token \in Token /\ fallback.token.age \in Age
  BY DEF Inv, TypeOK, FallbackFits, Token
<1> DEFINE aged == [fallback.token EXCEPT !.age = Older(@)]
<1>3. /\ aged \in Token /\ FitsKey(aged, fallback.key) /\ aged.age = Older(fallback.token.age)
      /\ Spent(fallback.token) => Spent(aged)
  BY <1>2, AgedToken
<1>4. [fallback EXCEPT !.token.age = Older(@)] = [key |-> fallback.key, token |-> aged]
  BY <1>2
<1> HIDE DEF aged
<1>5. CASE /\ switch # "idle" /\ fallback.token.age # "stale"
           /\ fallback' = [fallback EXCEPT !.token.age = Older(@)]
           /\ UNCHANGED map
  <2>1. fallback'.key = fallback.key /\ fallback'.token = aged
        /\ fallback' \in [key: Scope, token: Token]
    BY <1>2, <1>3, <1>4, <1>5
  <2>2. FallbackFits' /\ StagedFits' /\ RequestsAndSwitchesFitKey' /\ InitialKeyIsInitial'
    BY <1>1, <1>3, <1>5, <2>1
       DEF Inv, FallbackFits, StagedFits, RequestsAndSwitchesFitKey, InitialKeyIsInitial
  <2>3. FallbackAges'
    BY <1>1, <1>2, <1>3, <1>5, <2>1 DEF Inv, FallbackAges, NoFresher, Older, Age
  <2>4. LockHeld' /\ LoginNeeded'
    <3>1. ASSUME NEW r \in Request, pc'[r] = "mint"
          PROVE  /\ Spent(map'[InitialScope])
                 /\ switch' # "idle" /\ fallback'.key = InitialScope => Spent(fallback'.token)
      BY <1>1, <1>3, <1>5, <2>1, <3>1 DEF Inv, LoginNeeded, requestVars
    <3> QED BY <1>1, <3>1 DEF Inv, LockHeld, LoginNeeded, Spent, requestVars
  <2>5. TypeOK'
    BY <1>1, <1>5, <2>1 DEF Inv, TypeOK, loopVars, requestVars
  <2> QED BY <2>2, <2>3, <2>4, <2>5 DEF Inv
<1>6. ASSUME NEW s \in Scope, map[s].age # "stale", map' = [map EXCEPT ![s].age = Older(@)],
             fallback' = IF switch # "idle" /\ s = fallback.key
                              /\ fallback.token.age = map[s].age
                           THEN [fallback EXCEPT !.token.age = Older(@)]
                           ELSE fallback
      PROVE  Inv'
  <2> DEFINE older == [map[s] EXCEPT !.age = Older(@)]
  <2>1. map[s] \in Token
    BY <1>6, MapShape DEF Inv
  <2>2. /\ older \in Token /\ older.scope = map[s].scope /\ older.by = map[s].by
        /\ older.age = Older(map[s].age) /\ (Spent(map[s]) => Spent(older))
    BY <2>1, AgedToken
  <2>3. map' = [map EXCEPT ![s] = older]
    BY <1>6
  <2> HIDE DEF older
  <2>4. /\ map' \in [Scope -> Token \cup {NoToken}]
        /\ map'[s] = older /\ \A q \in Scope : q # s => map'[q] = map[q]
    BY <2>2, <2>3 DEF Inv, TypeOK
  <2>5. RequestsAndSwitchesFitKey' /\ InitialKeyIsInitial'
    <3>1. \A q \in Scope : map'[q].scope = map[q].scope /\ map'[q].by = map[q].by
      BY <2>2, <2>4
    <3> QED BY <1>1, <3>1, ScopeAssumption DEF Inv, RequestsAndSwitchesFitKey, InitialKeyIsInitial
  <2>6. /\ fallback' \in [key: Scope, token: Token] /\ fallback'.key = fallback.key
        /\ \/ fallback'.token = fallback.token
           \/ fallback'.token = aged
        /\ switch # "idle" /\ s = fallback.key =>
             IF fallback.token.age = map[s].age THEN fallback'.token = aged
                                                ELSE fallback'.token = fallback.token
    BY <1>2, <1>3, <1>4, <1>6
  <2>7. FallbackFits' /\ StagedFits'
    BY <1>1, <1>2, <1>3, <2>6 DEF Inv, FallbackFits, StagedFits
  <2>8. FallbackAges'
    <3> SUFFICES ASSUME switch # "idle"
                 PROVE  NoFresher(fallback'.token.age, map'[fallback'.key].age)
      BY <1>1 DEF FallbackAges
    <3>1. NoFresher(fallback.token.age, map[fallback.key].age)
      BY DEF Inv, FallbackAges
    <3>2. map[s].age \in Age
      BY MapShape DEF Inv
    <3>3. CASE s # fallback.key
      <4>1. map'[fallback'.key] = map[fallback.key]
        BY <1>2, <2>4, <2>6, <3>3
      <4> QED BY <1>2, <1>3, <2>6, <3>1, <4>1 DEF NoFresher, Older, Age
    <3>4. CASE s = fallback.key
      <4>1. map'[fallback'.key].age = Older(map[s].age)
        BY <2>2, <2>4, <2>6, <3>4
      <4>2. fallback'.token.age = IF fallback.token.age = map[s].age
                                    THEN Older(fallback.token.age) ELSE fallback.token.age
        BY <1>3, <2>6, <3>4
      <4> QED BY <1>2, <1>6, <3>1, <3>2, <3>4, <4>1, <4>2 DEF NoFresher, Older, Age
    <3> QED BY <3>3, <3>4
  <2>9. LockHeld' /\ LoginNeeded'
    <3>1. Spent(map[InitialScope]) => Spent(map'[InitialScope])
      BY <2>2, <2>4, ScopeAssumption
    <3>2. ASSUME NEW r \in Request, pc'[r] = "mint"
          PROVE  /\ Spent(map'[InitialScope])
                 /\ switch' # "idle" /\ fallback'.key = InitialScope => Spent(fallback'.token)
      BY <1>1, <1>3, <2>6, <3>1, <3>2 DEF Inv, LoginNeeded, requestVars
    <3> QED BY <1>1, <3>2 DEF Inv, LockHeld, LoginNeeded, Spent, requestVars
  <2>10. TypeOK'
    BY <1>1, <2>4, <2>6 DEF Inv, TypeOK, loopVars, requestVars
  <2> QED BY <2>5, <2>7, <2>8, <2>9, <2>10 DEF Inv
<1> QED BY <1>5, <1>6 DEF Expire

(* A restart forgets all but the files, and reads no file into a wrong key *)
(* of the initial scope.                                                   *)
LEMMA RestartKeeps ==
  ASSUME Inv, Restart
  PROVE  Inv'
<1>1. /\ active' = InitialScope /\ loop' = "off" /\ loopScope' = InitialScope
      /\ pc' = [r \in Request |-> "ready"] /\ answer' = [r \in Request |-> Unanswered]
      /\ holder' = None /\ refreshScope' = InitialScope
      /\ switch' = "idle" /\ staged' = NothingStaged
      /\ fallback' = NoFallback /\ switches' = switches
      /\ restarts < MaxRestarts /\ restarts' = restarts + 1
  BY DEF Restart
<1>2. PICK alive \in SUBSET {s \in Scope : files[s] # None} :
        /\ files' = [s \in Scope |-> IF s \in alive THEN files[s] ELSE None]
        /\ \E age \in [alive -> {"fresh", "near"}] :
             map' = [s \in Scope |-> IF s \in alive
                                       THEN [scope |-> files[s], age |-> age[s], by |-> "file"]
                                       ELSE NoToken]
  BY DEF Restart
<1>3. PICK age \in [alive -> {"fresh", "near"}] :
        map' = [s \in Scope |-> IF s \in alive
                                  THEN [scope |-> files[s], age |-> age[s], by |-> "file"]
                                  ELSE NoToken]
  BY <1>2
<1>4. \A s \in alive : /\ s \in Scope /\ files[s] \in Scope
                       /\ [scope |-> files[s], age |-> age[s], by |-> "file"] \in Token
  BY <1>2, <1>3 DEF Inv, TypeOK, Token, Age, Writer
<1>5. map' \in [Scope -> Token \cup {NoToken}] /\ files' \in [Scope -> Scope \cup {None}]
  BY <1>2, <1>3, <1>4
<1>6. RequestsAndSwitchesFitKey'
  <2>1. \A s \in Scope : map'[s].by = "file" \/ map'[s].scope = None
    BY <1>3 DEF NoToken
  <2> QED BY <2>1 DEF RequestsAndSwitchesFitKey
<1>7. InitialKeyIsInitial'
  <2>1. files'[InitialScope] \in {files[InitialScope], None}
        /\ map'[InitialScope].scope \in {files[InitialScope], None}
    BY <1>2, <1>3, ScopeAssumption DEF NoToken
  <2> QED BY <2>1 DEF Inv, InitialKeyIsInitial
<1>8. NoFallback \in [key: Scope, token: Token] /\ NoFallback.key = InitialScope
      /\ NoFallback.token = Minted("credential")
  BY InitialTokenFits, ScopeAssumption DEF NoFallback, Writer
<1>9. NothingStaged \in [target: Scope, token: Scope] /\ NothingStaged.token = NothingStaged.target
  BY ScopeAssumption DEF NothingStaged
<1>10. StagedFits' /\ FallbackFits' /\ FallbackAges' /\ LockHeld' /\ LoginNeeded'
  BY <1>1, <1>8, <1>9, InitialTokenFits
     DEF StagedFits, FallbackFits, FallbackAges, LockHeld, LoginNeeded, Writer
<1>11. answer' \in [Request -> Answer] /\ pc' \in [Request -> RequestPoint]
  BY <1>1 DEF Unanswered, Answer, RequestPoint
<1>12. restarts' \in 0..MaxRestarts
  BY <1>1, BoundAssumption DEF Inv, TypeOK
<1>13. TypeOK'
  BY <1>1, <1>5, <1>8, <1>9, <1>11, <1>12, ScopeAssumption
     DEF Inv, TypeOK, LoopPoint, SwitchPoint
<1> QED BY <1>6, <1>7, <1>10, <1>13 DEF Inv

-----------------------------------------------------------------------------
LEMMA Step == Inv /\ [Next]_vars => Inv'
<1> SUFFICES ASSUME Inv, [Next]_vars
             PROVE  Inv'
  OBVIOUS
<1>1. CASE UNCHANGED vars
  <2>1. TypeOK' /\ LockHeld' /\ LoginNeeded'
    BY <1>1 DEF vars, Inv, TypeOK, LockHeld, LoginNeeded
  <2> QED BY <1>1, <2>1, MapStays DEF vars, switchVars, Inv
<1>2. CASE \E r \in Request : Serve(r)
  BY <1>2, AskKeeps, FastPathKeeps, LockRefreshKeeps, CheckAgainKeeps, MintKeeps DEF Serve
<1>3. CASE SwitchStep
  BY <1>3, RescopeKeeps, InsertKeeps, FlipKeeps, RevertInsertKeeps DEF SwitchStep
<1> QED BY <1>1, <1>2, <1>3, LoopKeeps, ExpireKeeps, RestartKeeps DEF Next

LEMMA Invariance == Spec => []Inv
BY Initially, Step, PTL DEF Spec

(* Every reachable state of the token map and its users is well typed.     *)
THEOREM TypeCorrect == Spec => []TypeOK
BY Invariance, PTL DEF Inv

(* Guards C1 and S1 and the rescope check: what requests and switches      *)
(* write under a scope is a token of that scope.                           *)
THEOREM WritersKeepKeys == Spec => []RequestsAndSwitchesFitKey
BY Invariance, PTL DEF Inv

(* The initial scope's key and file hold the initial scope's token, also   *)
(* after a reverted switch and a reload.                                   *)
THEOREM InitialKeyKept == Spec => []InitialKeyIsInitial
BY Invariance, PTL DEF Inv

(* refresh_lock and the double check under it: one login per expiry.       *)
THEOREM OneLogin == Spec => []RefreshNotRepeated
<1>1. Inv => RefreshNotRepeated
  BY DEF Inv, LoginNeeded, Spent, RefreshNotRepeated
<1> QED BY <1>1, Invariance, PTL

=============================================================================
