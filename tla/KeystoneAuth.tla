---------------------------- MODULE KeystoneAuth ----------------------------
(***************************************************************************)
(* The token map of the Keystone adapter (src/adapter/auth/keystone.rs)    *)
(* under its four kinds of users: requests that ask for a token            *)
(* (get_token, refresh_token), the background refresh loop                 *)
(* (start_refresh_loop), the running context switch that installs a        *)
(* rescoped token (rescope.rs, set_active), and a restart that reloads the *)
(* token files (token_cache.rs).                                           *)
(*                                                                         *)
(* Abstracted: a token is the scope it was issued for, how near it is to   *)
(* its expiry, and who put it into the map.  Time is a step that brings a  *)
(* token nearer to its expiry; the loop's sleep may end at any time.  A    *)
(* read of the scope and the map lookup that follows it without an await   *)
(* are one step.                                                           *)
(***************************************************************************)
EXTENDS Naturals

CONSTANTS Request,       \* calls of get_token
          Scope,         \* token scopes
          InitialScope,  \* TokenScope::from_credential
          None,
          MaxSwitches,   \* bound: context switches in one behaviour
          MaxRestarts    \* bound: restarts in one behaviour

ASSUME ScopeAssumption == InitialScope \in Scope /\ None \notin Scope
ASSUME RequestAssumption == None \notin Request
ASSUME BoundAssumption == MaxSwitches \in Nat /\ MaxRestarts \in Nat

VARIABLES
  active,    \* active_scope
  map,       \* token_map
  files,     \* scope of the token in each scope's cache file, or None
  loop,      \* where the refresh loop is
  loopScope, \* the scope the loop read before it slept
  pc,        \* where each request is
  answer,    \* what get_token returned: the key it read and the token's scope
  holder,    \* request that holds refresh_lock, or None
  refreshScope, \* the scope refresh_token read before its login
  switch,    \* where the running context switch is
  staged,    \* target scope and token scope of that switch
  fallback,  \* SessionHandle.previous_scope and previous_token
  switches,  \* number of switches begun
  restarts   \* number of restarts

requestVars == <<pc, answer, holder, refreshScope>>
loopVars == <<loop, loopScope>>
switchVars == <<switch, staged, fallback, switches>>
vars == <<active, map, files, loop, loopScope, pc, answer, holder, refreshScope,
          switch, staged, fallback, switches, restarts>>

-----------------------------------------------------------------------------
(* More than 5 minutes left; more than 1; 1 or less. *)
Age == {"fresh", "near", "stale"}
Writer == {"credential", "loop", "switch", "file"}
Token == [scope: Scope, age: Age, by: Writer]
NoToken == [scope |-> None, age |-> "stale", by |-> "credential"]

Older(age) == IF age = "fresh" THEN "near" ELSE "stale"

Unanswered == [kind |-> "none", key |-> None, scope |-> None]
Granted(key) == [kind |-> "ok", key |-> key, scope |-> map[key].scope]
Refused(kind) == [kind |-> kind, key |-> None, scope |-> None]
Answer == [kind: {"none", "ok", "SessionExpired", "AuthFailed"},
           key: Scope \cup {None}, scope: Scope \cup {None}]

RequestPoint == {"ready", "fast", "wait", "check", "mint", "done"}
LoopPoint == {"off", "read", "sleep", "login"}
SwitchPoint == {"idle", "staged", "inserted", "flipped", "reinserted"}

TypeOK ==
  /\ active \in Scope
  /\ map \in [Scope -> Token \cup {NoToken}]
  /\ files \in [Scope -> Scope \cup {None}]
  /\ loop \in LoopPoint /\ loopScope \in Scope
  /\ pc \in [Request -> RequestPoint]
  /\ answer \in [Request -> Answer]
  /\ holder \in Request \cup {None} /\ refreshScope \in Scope
  /\ switch \in SwitchPoint
  /\ staged \in [target: Scope, token: Scope]
  /\ fallback \in [key: Scope, token: Token]
  /\ switches \in 0..MaxSwitches
  /\ restarts \in 0..MaxRestarts

(* The server only ever mints the credential's own scope here. *)
Minted(writer) == [scope |-> InitialScope, age |-> "fresh", by |-> writer]

NothingStaged == [target |-> InitialScope, token |-> InitialScope]
NoFallback == [key |-> InitialScope, token |-> Minted("credential")]

Init ==
  /\ active = InitialScope
  /\ map = [s \in Scope |-> NoToken]
  /\ files = [s \in Scope |-> None]
  /\ loop = "off" /\ loopScope = InitialScope
  /\ pc = [r \in Request |-> "ready"]
  /\ answer = [r \in Request |-> Unanswered]
  /\ holder = None /\ refreshScope = InitialScope
  /\ switch = "idle" /\ staged = NothingStaged /\ fallback = NoFallback
  /\ switches = 0
  /\ restarts = 0

(* Mutant: the guard is dropped. *)
AnyRefreshSafe(scope) == TRUE

(* is_refresh_safe *)
RefreshSafe(scope) == scope = InitialScope

(* A token file is written on a best-effort basis. *)
Save(scope, token) ==
  files' \in {files, [files EXCEPT ![scope] = token.scope]}

-----------------------------------------------------------------------------
(* get_token *)
Goto(r, from, to) == pc[r] = from /\ pc' = [pc EXCEPT ![r] = to]
Return(r, from, result) ==
  /\ Goto(r, from, "done")
  /\ answer' = [answer EXCEPT ![r] = result]

Usable(scope) == map[scope].age # "stale"

(* First call starts the loop; a rescoped session within five minutes of   *)
(* its expiry, or without a token, is refused.                             *)
SessionExpired == active # InitialScope /\ map[active].age # "fresh"

Ask(r) ==
  /\ \/ SessionExpired /\ Return(r, "ready", Refused("SessionExpired"))
     \/ ~SessionExpired /\ Goto(r, "ready", "fast") /\ UNCHANGED answer
  /\ loop' = IF loop = "off" THEN "read" ELSE loop
  /\ UNCHANGED <<active, map, files, loopScope, holder, refreshScope, switchVars, restarts>>

FastPath(r) ==
  /\ \/ Usable(active) /\ Return(r, "fast", Granted(active))
     \/ ~Usable(active) /\ Goto(r, "fast", "wait") /\ UNCHANGED answer
  /\ UNCHANGED <<active, map, files, loopVars, holder, refreshScope, switchVars, restarts>>

LockRefresh(r) ==
  /\ holder = None
  /\ Goto(r, "wait", "check")
  /\ holder' = r
  /\ UNCHANGED <<active, map, files, loopVars, answer, refreshScope, switchVars, restarts>>

(* Mutant: the map is not looked at again under the lock. *)
CheckNothing(r) ==
  /\ \/ /\ ~RefreshSafe(active)
        /\ Return(r, "check", Refused("AuthFailed"))
        /\ holder' = None /\ UNCHANGED refreshScope
     \/ /\ RefreshSafe(active)
        /\ Goto(r, "check", "mint") /\ refreshScope' = active
        /\ UNCHANGED <<answer, holder>>
  /\ UNCHANGED <<active, map, files, loopVars, switchVars, restarts>>

(* Double check under the lock, then refresh_token's own scope guard. *)
CheckAgain(r) ==
  /\ \/ /\ Usable(active)
        /\ Return(r, "check", Granted(active))
        /\ holder' = None /\ UNCHANGED refreshScope
     \/ /\ ~Usable(active) /\ ~RefreshSafe(active)
        /\ Return(r, "check", Refused("AuthFailed"))
        /\ holder' = None /\ UNCHANGED refreshScope
     \/ /\ ~Usable(active) /\ RefreshSafe(active)
        /\ Goto(r, "check", "mint") /\ refreshScope' = active
        /\ UNCHANGED <<answer, holder>>
  /\ UNCHANGED <<active, map, files, loopVars, switchVars, restarts>>

(* Mutant: a failed login leaves the lock taken. *)
MintKeepsLock(r) ==
  /\ \/ /\ map' = [map EXCEPT ![refreshScope] = Minted("credential")]
        /\ Save(refreshScope, Minted("credential"))
        /\ Return(r, "mint", [kind |-> "ok", key |-> refreshScope, scope |-> InitialScope])
        /\ holder' = None
     \/ /\ Return(r, "mint", Refused("AuthFailed"))
        /\ UNCHANGED <<map, files, holder>>
  /\ UNCHANGED <<active, refreshScope, loopVars, switchVars, restarts>>

(* The login, and the write under the scope that passed the guard before   *)
(* it, whatever is active by now. *)
Mint(r) ==
  /\ \/ /\ map' = [map EXCEPT ![refreshScope] = Minted("credential")]
        /\ Save(refreshScope, Minted("credential"))
        /\ Return(r, "mint", [kind |-> "ok", key |-> refreshScope, scope |-> InitialScope])
     \/ /\ Return(r, "mint", Refused("AuthFailed"))
        /\ UNCHANGED <<map, files>>
  /\ holder' = None
  /\ UNCHANGED <<active, refreshScope, loopVars, switchVars, restarts>>

-----------------------------------------------------------------------------
(* start_refresh_loop: scope read, sleep, guard, login, write. *)
LoopRead ==
  /\ loop = "read"
  /\ loop' = "sleep"
  /\ loopScope' = active
  /\ UNCHANGED <<active, map, files, requestVars, switchVars, restarts>>

LoopWake ==
  /\ loop = "sleep"
  /\ loop' = IF RefreshSafe(active) THEN "login" ELSE "read"
  /\ UNCHANGED <<active, map, files, loopScope, requestVars, switchVars, restarts>>

LoopLogin ==
  /\ loop = "login"
  /\ loop' = "read"
  /\ \/ /\ map' = [map EXCEPT ![loopScope] = Minted("loop")]
        /\ Save(loopScope, Minted("loop"))
     \/ UNCHANGED <<map, files>>
  /\ UNCHANGED <<active, loopScope, requestVars, switchVars, restarts>>

-----------------------------------------------------------------------------
(* The running context switch; one at a time (module ContextSwitcher). *)

(* Mutant: whatever Keystone grants is taken. *)
AnyScopeMatches(granted, target) == TRUE

(* ensure_scope_matches_target *)
ScopeMatches(granted, target) == granted = target

Rescope ==
  /\ switch = "idle" /\ switches < MaxSwitches
  /\ map[active] # NoToken
  /\ \E target, granted \in Scope :
       /\ ScopeMatches(granted, target)
       /\ staged' = [target |-> target, token |-> granted]
  /\ fallback' = [key |-> active, token |-> map[active]]
  /\ switch' = "staged"
  /\ switches' = switches + 1
  /\ UNCHANGED <<active, map, files, loopVars, requestVars, restarts>>

(* Mutant: the new token goes under the scope still active. *)
InsertUnderActive ==
  /\ switch = "staged"
  /\ switch' = "inserted"
  /\ map' = [map EXCEPT ![active] =
                [scope |-> staged.token, age |-> fallback.token.age, by |-> "switch"]]
  /\ UNCHANGED <<active, files, loopVars, requestVars, staged, fallback, switches, restarts>>

(* Keystone lets a rescoped token expire with the token it came from. *)
SetActiveInsert ==
  /\ switch = "staged"
  /\ switch' = "inserted"
  /\ map' = [map EXCEPT ![staged.target] =
                [scope |-> staged.token, age |-> fallback.token.age, by |-> "switch"]]
  /\ UNCHANGED <<active, files, loopVars, requestVars, staged, fallback, switches, restarts>>

SetActiveFlip ==
  /\ switch = "inserted"
  /\ switch' = "flipped"
  /\ active' = staged.target
  /\ UNCHANGED <<map, files, loopVars, requestVars, staged, fallback, switches, restarts>>

StoreScoped ==
  /\ switch = "flipped"
  /\ switch' = "idle"
  /\ files' = [files EXCEPT ![staged.target] = staged.token]
  /\ staged' = NothingStaged /\ fallback' = NoFallback
  /\ UNCHANGED <<active, map, loopVars, requestVars, switches, restarts>>

(* The token file could not be written: set_active to where we came from,  *)
(* with the token captured before the switch.                              *)
RevertInsert ==
  /\ switch = "flipped"
  /\ switch' = "reinserted"
  /\ map' = [map EXCEPT ![fallback.key] = fallback.token]
  /\ UNCHANGED <<active, files, loopVars, requestVars, staged, fallback, switches, restarts>>

RevertFlip ==
  /\ switch = "reinserted"
  /\ switch' = "idle"
  /\ active' = fallback.key
  /\ staged' = NothingStaged /\ fallback' = NoFallback
  /\ UNCHANGED <<map, files, loopVars, requestVars, switches, restarts>>

-----------------------------------------------------------------------------
(* Time passes for one token of the map, and with it for the switch's      *)
(* captured copy; or for the copy alone, once the map has a newer token.   *)
Expire ==
  /\ \/ \E s \in Scope :
          /\ map[s].age # "stale"
          /\ map' = [map EXCEPT ![s].age = Older(@)]
          /\ fallback' = IF switch # "idle" /\ s = fallback.key
                              /\ fallback.token.age = map[s].age
                           THEN [fallback EXCEPT !.token.age = Older(@)]
                           ELSE fallback
     \/ /\ switch # "idle" /\ fallback.token.age # "stale"
        /\ fallback' = [fallback EXCEPT !.token.age = Older(@)]
        /\ UNCHANGED map
  /\ UNCHANGED <<active, files, loopVars, requestVars, switch, staged, switches, restarts>>

(* The program ends and starts again: load_all_tokens takes each file      *)
(* whose token has more than a minute left and deletes the others.         *)
Restart ==
  /\ restarts < MaxRestarts
  /\ restarts' = restarts + 1
  /\ \E alive \in SUBSET {s \in Scope : files[s] # None} :
       /\ files' = [s \in Scope |-> IF s \in alive THEN files[s] ELSE None]
       /\ \E age \in [alive -> {"fresh", "near"}] :
            map' = [s \in Scope |->
                      IF s \in alive
                        THEN [scope |-> files[s], age |-> age[s], by |-> "file"]
                        ELSE NoToken]
  /\ active' = InitialScope
  /\ loop' = "off" /\ loopScope' = InitialScope
  /\ pc' = [r \in Request |-> "ready"]
  /\ answer' = [r \in Request |-> Unanswered]
  /\ holder' = None /\ refreshScope' = InitialScope
  /\ switch' = "idle" /\ staged' = NothingStaged /\ fallback' = NoFallback
  /\ UNCHANGED switches

Serve(r) == Ask(r) \/ FastPath(r) \/ LockRefresh(r) \/ CheckAgain(r) \/ Mint(r)
Loop == LoopRead \/ LoopWake \/ LoopLogin
SwitchStep == Rescope \/ SetActiveInsert \/ SetActiveFlip \/ StoreScoped
                \/ RevertInsert \/ RevertFlip

Next == (\E r \in Request : Serve(r)) \/ Loop \/ SwitchStep \/ Expire \/ Restart

Spec == Init /\ [][Next]_vars

(* Each request is polled by the runtime and its login ends in the HTTP    *)
(* client's 30 s; nothing is assumed of the loop, the switch or time.      *)
FairSpec == Spec /\ \A r \in Request : WF_vars(Serve(r))

-----------------------------------------------------------------------------
(* Guards C1 and S1 (refresh_token, authenticate) and the rescope check:   *)
(* what requests and switches write under a scope is a token of that       *)
(* scope, whatever interleaves between guard, login and write.             *)
RequestsAndSwitchesFitKey ==
  \A s \in Scope : map[s].by \in {"credential", "switch"} => map[s].scope \in {s, None}

(* The initial scope's key only ever holds a token of that scope, also     *)
(* after a reverted switch and a reload from disk.                         *)
InitialKeyIsInitial ==
  /\ map[InitialScope].scope \in {InitialScope, None}
  /\ files[InitialScope] \in {InitialScope, None}

(* refresh_lock and the double check under it: no request logs in while    *)
(* the map has a usable token another request has just fetched.            *)
RefreshNotRepeated ==
  \A r \in Request : pc[r] = "mint" =>
    map[InitialScope].by # "credential" \/ map[InitialScope].age = "stale"

(* Every call of get_token returns, however switches, expiry and failed    *)
(* logins interleave with its wait for the lock.                           *)
EveryRequestAnswered == \A r \in Request : pc[r] # "ready" ~> pc[r] \in {"done", "ready"}

(* keystone.rs (is_refresh_safe): never an "INITIAL-scope token [...]      *)
(* stored under a non-initial scope key, granting elevated privileges to   *)
(* callers that read by the active key".                                   *)
GrantedFitsKey ==
  \A r \in Request : answer[r].kind = "ok" => answer[r].scope = answer[r].key
=============================================================================
