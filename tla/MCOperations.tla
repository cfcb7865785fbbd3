---------------------------- MODULE MCOperations ----------------------------
(* Two operations, one after the other or at once, on one server, and a    *)
(* context switch.  The operations stand for their sort: followed by a     *)
(* poller of the migration or of the status, a verdict, one that may be    *)
(* blocked, and one that a module sends itself and is about no server.     *)
EXTENDS Operations

MCAsked == {"LiveMigrateServer", "StopServer", "ConfirmMigration", "DeleteImage",
            "CreateServer"}
=============================================================================
