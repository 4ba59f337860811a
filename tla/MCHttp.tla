------------------------------- MODULE MCHttp -------------------------------
(* Instances of Http for TLC.                                               *)
EXTENDS Http
=============================================================================
