-------------------------- MODULE MCContinuations --------------------------
(* The instance of Continuations for TLC: its constants are in the           *)
(* configuration.  The first call needs an approval and a device, the second *)
(* an action of the user.                                                    *)
EXTENDS Continuations
=============================================================================
