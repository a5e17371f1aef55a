---------------------------- MODULE MCEntitySave -----------------------------
(***************************************************************************)
(* One entity: the save list, the map and the dbmanager keep entities      *)
(* apart, so the conflicts are between the saves and the lives of one.     *)
(* Two queued saves, one Destroy and a reload (or two Destroys), one       *)
(* lost connection, three messages under way.                              *)
(***************************************************************************)
EXTENDS EntitySave

CONSTANT e1

MCEntity == {e1}
=============================================================================
