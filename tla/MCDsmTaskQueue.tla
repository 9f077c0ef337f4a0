---------------------------- MODULE MCDsmTaskQueue ----------------------------
(* Two workers; the .cfg files give the other constants. *)
EXTENDS DsmTaskQueue

MCWorkers == {0, 1}
==============================================================================
