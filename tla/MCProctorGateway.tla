-------------------------- MODULE MCProctorGateway --------------------------
(* Finite instances of ProctorGateway and of LiveVideo for TLC.  The two share *)
(* no state: a behaviour is one of the sockets of administrators, or one of a  *)
(* camera's picture.  Two names serve sockets and dashboards.                  *)
EXTENDS ProctorGateway, LiveVideo, TLC

VARIABLE focus

GatewaySymmetry == Permutations(Calls) \cup Permutations(Sockets)

Begins ==
    /\ focus \in {"administrators", "camera"}
    /\ GatewayInit /\ VideoInit

Continues ==
    /\ UNCHANGED focus
    /\ \/ focus = "administrators" /\ GatewayNext /\ UNCHANGED videoVars
       \/ focus = "camera" /\ VideoNext /\ UNCHANGED allVars

EitherSpec == Begins /\ [][Continues]_<<focus, allVars, videoVars>>
=============================================================================
