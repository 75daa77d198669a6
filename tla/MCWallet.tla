------------------------------ MODULE MCWallet ------------------------------
(***************************************************************************)
(* Constant values for the wallet run: a member's personal request and a    *)
(* request in a Space, of one agent run, two plans.  The second user is     *)
(* there to take over the Space.                                            *)
(***************************************************************************)
EXTENDS HostedAIWallet, TLC

CONSTANTS u1, u2, s1, r1, r2, w1, basic, pro

mcUserOf == <<u1, u1>>
mcSpaceOf == <<NoSpace, s1>>
mcRunOf == <<r1, r1>>

mcPersonalAllowance == basic :> 1 @@ pro :> 3
mcSpaceAllowance == basic :> 1 @@ pro :> 2
=============================================================================
