------------------------------ MODULE Directory ------------------------------
(***************************************************************************)
(* From the name a user types to the project it is: ContextTargetResolver  *)
(* over KeystoneProjectDirectory with its DirectoryCache, and the          *)
(* DomainNameResolver with its own, each kept for a time.  Meanwhile       *)
(* Keystone's projects and domain names change, and so does the token.     *)
(*                                                                         *)
(* One cloud and one project name matter; the projects of that name differ *)
(* in id and domain.  The pages of a listing are one answer, or an error:  *)
(* refused, too many pages, a next page elsewhere.  An answer is of the    *)
(* moment it arrives.  A fingerprint is its token, and an entry is kept no *)
(* longer than it is valid.  Time passes during a lookup as well.          *)
(***************************************************************************)
EXTENDS Naturals, FiniteSets

CONSTANTS Project,    \* the projects of that name
          Domain, DomainOf,    \* domain ids, and that of each project
          DomainName, \* the names a domain may have
          AskedFor,   \* requests; see Requests
          DirToken,   \* tokens
          Ttl,        \* TTL of the caches, in ticks; the histories stop there
          MaxChanges, \* bound: changes at Keystone
          Nothing

(* A request is by id, or by name with a domain or Nothing.  CloudOnly is  *)
(* by name without a domain, if the cloud has a default project.           *)
Requests == {[by |-> "id", key |-> p] : p \in Project}
            \cup {[by |-> "name", key |-> d] : d \in Domain \cup DomainName \cup {Nothing}}

(* What the domains may be called; no two are called alike.                *)
Namings == {f \in [Domain -> DomainName] : \A d, e \in Domain : f[d] = f[e] => d = e}

ASSUME DirectoryAssumption ==
  /\ IsFiniteSet(Project) /\ DomainOf \in [Project -> Domain] /\ Namings # {}
  /\ AskedFor \subseteq Requests /\ DirToken # {} /\ Ttl \in Nat \ {0}
  /\ MaxChanges \in Nat

AskedNames == {request.key : request \in AskedFor} \cap DomainName

VARIABLES
  granted,    \* Keystone: the projects the user has a role in
  nameOf,     \* Keystone: the name of each domain
  changes,    \* Keystone: how often they have changed
  grantAge, nameAge,   \* history: ticks since that role and that name were in force
  token,      \* current_token(), or Nothing
  listed,     \* DirectoryCache: [projects, age] by token, or Nothing
  named,      \* DomainNameResolver.cache: [name, age] by domain, or Nothing
  lookup,     \* the resolve() under way, or Nothing
  recent,     \* history: what was in force within a TTL before it began, or since
  target      \* history: what resolve() has just returned, and on what grounds

keystoneSide == <<granted, nameOf, changes, grantAge, nameAge>>
directoryVars == <<keystoneSide, token, listed, named, lookup, recent, target>>

(* The projects the user had a role in, and the domains that had the name  *)
(* asked for.                                                              *)
NotAsked == [projects |-> {}, domains |-> {}]

DirectoryInit ==
  /\ granted = Project /\ grantAge = [p \in Project |-> 0] /\ changes = 0
  /\ nameOf = CHOOSE f \in Namings : TRUE
  /\ nameAge = [d \in Domain |-> [n \in AskedNames |-> IF n = nameOf[d] THEN 0 ELSE Ttl]]
  /\ token = CHOOSE t \in DirToken : TRUE
  /\ listed = [t \in DirToken |-> Nothing] /\ named = [d \in Domain |-> Nothing]
  /\ lookup = Nothing /\ recent = NotAsked /\ target = Nothing

-----------------------------------------------------------------------------
At == IF lookup = Nothing THEN "none" ELSE lookup.at

(* The primary filter, and ById's. *)
Fits(request, p) ==
  IF request.by = "id" THEN p = request.key ELSE request.key \in {Nothing, DomainOf[p]}

(* NotFound, the target, or Ambiguous. *)
Conclude(request, list, found, inForce) ==
  /\ lookup' = Nothing /\ recent' = NotAsked
  /\ target' = IF Cardinality(found) # 1 THEN Nothing
               ELSE [project |-> CHOOSE p \in found : TRUE, request |-> request, list |-> list,
                     recent |-> inForce]

(* disambiguate_by_name: a domain that is nobody's id may be a name.       *)
Match(request, list, inForce) ==
  LET primary == {p \in list : Fits(request, p)}
  IN IF primary = {} /\ request.by = "name" /\ request.key # Nothing
        /\ token # Nothing /\ list # {}
       THEN /\ lookup' = [at |-> "naming", request |-> request, list |-> list,
                          left |-> list, found |-> {}]
            /\ recent' = inForce /\ target' = Nothing
       ELSE Conclude(request, list, primary, inForce)

WithinTtl(request) ==
  [projects |-> {p \in Project : grantAge[p] < Ttl},
   domains  |-> {d \in Domain : request.key \in AskedNames /\ nameAge[d][request.key] < Ttl}]

(* resolve; another cloud and a missing token are refused at once.         *)
Resolve(request) ==
  /\ lookup = Nothing /\ token # Nothing
  /\ IF listed[token] # Nothing THEN Match(request, listed[token].projects, WithinTtl(request))
     ELSE /\ lookup' = [at |-> "listing", request |-> request, token |-> token]
          /\ recent' = WithinTtl(request) /\ target' = Nothing
  /\ UNCHANGED <<keystoneSide, token, listed, named>>

(* fetch_all_pages, with the token of the beginning. *)
ListingAnswered ==
  /\ At = "listing"
  /\ listed' = [listed EXCEPT ![lookup.token] = [projects |-> granted, age |-> 0]]
  /\ Match(lookup.request, granted, recent)
  /\ UNCHANGED <<keystoneSide, token, named>>

ListingFails ==
  /\ At = "listing"
  /\ lookup' = Nothing /\ recent' = NotAsked /\ target' = Nothing
  /\ UNCHANGED <<keystoneSide, token, listed, named>>

-----------------------------------------------------------------------------
(* One candidate's domain is named, from the cache or by Keystone, and the *)
(* last one concludes.                                                     *)
Compare(p, names) ==
  LET found == lookup.found \cup (IF lookup.request.key \in names THEN {p} ELSE {})
      left  == lookup.left \ {p}
  IN IF left = {} THEN Conclude(lookup.request, lookup.list, found, recent)
     ELSE /\ lookup' = [lookup EXCEPT !.left = left, !.found = found]
          /\ target' = Nothing /\ UNCHANGED recent

Naming(p) == At = "naming" /\ p \in lookup.left

NameFromCache(p) ==
  /\ Naming(p) /\ named[DomainOf[p]] # Nothing
  /\ Compare(p, {named[DomainOf[p]].name})
  /\ UNCHANGED <<keystoneSide, token, listed, named>>

NameFromKeystone(p) ==
  /\ Naming(p) /\ named[DomainOf[p]] = Nothing
  /\ named' = [named EXCEPT ![DomainOf[p]] = [name |-> nameOf[DomainOf[p]], age |-> 0]]
  /\ Compare(p, {nameOf[DomainOf[p]]})
  /\ UNCHANGED <<keystoneSide, token, listed>>

(* The candidate is skipped silently. *)
NamingFails(p) ==
  /\ Naming(p) /\ named[DomainOf[p]] = Nothing
  /\ Compare(p, {})
  /\ UNCHANGED <<keystoneSide, token, listed, named>>

-----------------------------------------------------------------------------
(* A rescope, a new session, or the end of one. *)
ChangeToken ==
  /\ token' \in (DirToken \cup {Nothing}) \ {token}
  /\ target' = Nothing
  /\ UNCHANGED <<keystoneSide, listed, named, lookup, recent>>

(* invalidate_cloud, at ContextChanged. *)
InvalidateCloud ==
  /\ listed' = [t \in DirToken |-> Nothing]
  /\ target' = Nothing
  /\ UNCHANGED <<keystoneSide, token, named, lookup, recent>>

(* Keystone: a role is given or taken, and a domain renamed to what no     *)
(* domain is called. *)
ChangeRole(p) ==
  /\ changes < MaxChanges /\ changes' = changes + 1
  /\ granted' = IF p \in granted THEN granted \ {p} ELSE granted \cup {p}
  /\ grantAge' = [grantAge EXCEPT ![p] = 0]
  /\ recent' = IF lookup = Nothing THEN recent
               ELSE [recent EXCEPT !.projects = @ \cup granted']
  /\ target' = Nothing
  /\ UNCHANGED <<nameOf, nameAge, token, listed, named, lookup>>

RenameDomain(d, n) ==
  /\ changes < MaxChanges /\ changes' = changes + 1
  /\ n \notin {nameOf[e] : e \in Domain}
  /\ nameOf' = [nameOf EXCEPT ![d] = n]
  /\ nameAge' = IF n \in AskedNames THEN [nameAge EXCEPT ![d][n] = 0] ELSE nameAge
  /\ recent' = IF lookup # Nothing /\ lookup.request.key = n
               THEN [recent EXCEPT !.domains = @ \cup {d}] ELSE recent
  /\ target' = Nothing
  /\ UNCHANGED <<granted, grantAge, token, listed, named, lookup>>

(* Time. *)
OneMore(n) == IF n < Ttl THEN n + 1 ELSE Ttl
Kept(entry) == IF entry = Nothing \/ entry.age + 1 = Ttl THEN Nothing
               ELSE [entry EXCEPT !.age = @ + 1]

GrowOlder ==
  /\ grantAge' = [p \in Project |-> IF p \in granted THEN 0 ELSE OneMore(grantAge[p])]
  /\ nameAge' = [d \in Domain |-> [n \in AskedNames |->
                    IF n = nameOf[d] THEN 0 ELSE OneMore(nameAge[d][n])]]

(* Mutant: a listing is kept until its cloud is invalidated. *)
TickKeepsListing ==
  /\ GrowOlder
  /\ named' = [d \in Domain |-> Kept(named[d])]
  /\ target' = Nothing
  /\ UNCHANGED <<granted, nameOf, changes, token, listed, lookup, recent>>

DirectoryTick ==
  /\ GrowOlder
  /\ listed' = [t \in DirToken |-> Kept(listed[t])]
  /\ named' = [d \in Domain |-> Kept(named[d])]
  /\ target' = Nothing
  /\ UNCHANGED <<granted, nameOf, changes, token, lookup, recent>>

DirectoryNext ==
  \/ \E request \in AskedFor : Resolve(request)
  \/ ListingAnswered \/ ListingFails
  \/ \E p \in Project : NameFromCache(p) \/ NameFromKeystone(p) \/ NamingFails(p) \/ ChangeRole(p)
  \/ \E d \in Domain, n \in DomainName : RenameDomain(d, n)
  \/ ChangeToken \/ InvalidateCloud \/ DirectoryTick

DirectorySpec == DirectoryInit /\ [][DirectoryNext]_directoryVars

-----------------------------------------------------------------------------
(* A switch goes only where the user asked and may go.  However long the   *)
(* lookup takes and whatever token listed the project, the user had it     *)
(* within a TTL before the lookup began, or since; where no domain was     *)
(* given it was the only project of that name; and a domain was given by   *)
(* its id, or, if that is no project's, by a name that it had within that  *)
(* time (resolve, disambiguate_by_name, DirectoryCache::get).              *)
AsAsked(project, request, list, inForce) ==
  IF request.by = "id" THEN project = request.key
  ELSE \/ request.key = Nothing /\ list = {project}
       \/ request.key = DomainOf[project]
       \/ DomainOf[project] \in inForce.domains /\ \A p \in list : DomainOf[p] # request.key

ResolvedAsAsked ==
  target # Nothing =>
    /\ target.project \in target.list \cap target.recent.projects
    /\ AsAsked(target.project, target.request, target.list, target.recent)
=============================================================================
