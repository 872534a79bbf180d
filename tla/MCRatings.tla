----------------------------- MODULE MCRatings ------------------------------
(* Instances of Ratings; Requests and Products are model values of the cfg. *)
EXTENDS Ratings
=============================================================================
