---------------------------- MODULE MCOwnedObjects ----------------------------
(***************************************************************************)
(* A user who edits a field that other defaults are derived from and the   *)
(* storage type, and names a service account; for TLC.                     *)
(***************************************************************************)
EXTENDS OwnedObjects

UserChoices ==
  [tickTime |-> {3000}, storageType |-> {"ephemeral", "persistence"},
   serviceAccountName |-> {"zk"}]
=============================================================================
