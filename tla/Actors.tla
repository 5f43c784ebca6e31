-------------------------------- MODULE Actors --------------------------------
(***************************************************************************)
(* The users of the platform, for the modules that are checked together.   *)
(***************************************************************************)
CONSTANTS Users, NoUser

ASSUME UsersAssumption == NoUser \notin Users
===============================================================================
