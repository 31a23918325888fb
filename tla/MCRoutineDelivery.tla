-------------------------- MODULE MCRoutineDelivery --------------------------
(* The bounds of the runs are constants of RoutineDelivery: the .cfg files say *)
(* which of the counts and of MAXLEN the run is about.                         *)
EXTENDS RoutineDelivery
=============================================================================
