------------------------------- MODULE Cells -------------------------------
(***************************************************************************)
(* The placements (tiers and dedicated cells) every part of the router     *)
(* keys its state by: the strings of the routing table, of the endpoints   *)
(* and of the placement configurations.                                    *)
(***************************************************************************)
CONSTANT Placements
=============================================================================
