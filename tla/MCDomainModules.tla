---------------------------- MODULE MCDomainModules ----------------------------
(* Every kind of domain module, across one context switch. *)
EXTENDS DomainModules

MCKinds == {"server", "volume", "floating_ip"} \cup ListKinds
MCServerStatuses == {"ACTIVE", "VERIFY_RESIZE", "ERROR"}
Resizing == {"ACTIVE", "RESIZE", "VERIFY_RESIZE"}
=============================================================================
