-------------------------------- MODULE Parts --------------------------------
(***************************************************************************)
(* Nine parts of the program that share no state: in each behaviour one    *)
(* of them acts, as its own module specifies it, and the others stay as    *)
(* they began.                                                             *)
(***************************************************************************)
EXTENDS Evacuation, Shell, FormWidget, Directory, Listing, Notices, Refresh, AuditFiles,
        EndpointCache

VARIABLE part

PartNames == {"evacuation", "shell", "form", "directory", "listing", "notices",
              "refresh", "auditFiles", "endpoints"}

partsVars == <<part, vars, shellVars, formVars, directoryVars, listingVars, noticesVars,
               refreshVars, auditVars, endpointVars>>

(* A part's choice of its initial state is made where it acts. *)
PartsInit ==
  /\ part \in PartNames
  /\ Init /\ ShellInit /\ FormInit /\ DirectoryInit /\ ListingInit /\ NoticesInit
  /\ RefreshInit /\ AuditInit /\ EndpointInit
  /\ part # "shell" => isAdmin
  /\ part # "listing" => service = "nova" /\ auditing /\ guardScope = Home

Others(name) ==
  /\ UNCHANGED part
  /\ name # "evacuation" => UNCHANGED vars
  /\ name # "shell"      => UNCHANGED shellVars
  /\ name # "form"       => UNCHANGED formVars
  /\ name # "directory"  => UNCHANGED directoryVars
  /\ name # "listing"    => UNCHANGED listingVars
  /\ name # "notices"    => UNCHANGED noticesVars
  /\ name # "refresh"    => UNCHANGED refreshVars
  /\ name # "auditFiles" => UNCHANGED auditVars
  /\ name # "endpoints"  => UNCHANGED endpointVars

PartsNext ==
  \/ part = "evacuation" /\ Next          /\ Others(part)
  \/ part = "shell"      /\ ShellNext     /\ Others(part)
  \/ part = "form"       /\ FormNext      /\ Others(part)
  \/ part = "directory"  /\ DirectoryNext /\ Others(part)
  \/ part = "listing"    /\ ListingNext   /\ Others(part)
  \/ part = "notices"    /\ NoticesNext   /\ Others(part)
  \/ part = "refresh"    /\ RefreshNext   /\ Others(part)
  \/ part = "auditFiles" /\ AuditNext     /\ Others(part)
  \/ part = "endpoints"  /\ EndpointNext  /\ Others(part)

PartsSpec == PartsInit /\ [][PartsNext]_partsVars

(* Evacuation's fairness and Listing's; the other parts have none. *)
Evacuating(action) == part = "evacuation" /\ action

FairPartsSpec ==
  /\ PartsSpec
  /\ WF_listingVars(part = "listing" /\ AskAgain) /\ ListingFairness
  /\ WF_vars(Evacuating(\E r \in requests : End(r)))
  /\ WF_vars(Evacuating(SeeNotice))
  /\ WF_vars(Evacuating(CommitSwitch \/ FailSwitch))
=============================================================================
