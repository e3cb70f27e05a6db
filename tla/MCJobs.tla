------------------------------- MODULE MCJobs --------------------------------
(***************************************************************************)
(* The jobs of two Java threads. Of the nine calls one that starts its job *)
(* at once and sets handler and call type, one that polls, sets the call   *)
(* type and runs two jobs, and one that polls and sets nothing; the others *)
(* differ in the values they set only.                                     *)
(***************************************************************************)
EXTENDS Jobs

KindsDef == {"VideoCut", "Mux", "MultiConcat"}
=============================================================================
