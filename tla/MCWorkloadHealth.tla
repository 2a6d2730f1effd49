-------------------------- MODULE MCWorkloadHealth --------------------------
(* The instance of WorkloadHealth for TLC; its cfg gives the constants.    *)
EXTENDS WorkloadHealth
=============================================================================
