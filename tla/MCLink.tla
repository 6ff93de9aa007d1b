------------------------------- MODULE MCLink -------------------------------
(* Instances of Link. *)
EXTENDS Link

ConstReady == <<82, 89>>
=============================================================================
