------------------------------ MODULE MCClient ------------------------------
(* Both builds, with room for a few grants and with two slots left after   *)
(* start-up; every message of the protocol, valid and invalid parameters,  *)
(* writes beside and over the payload.                                     *)
EXTENDS Client

MCMemory == [start |-> 8, end |-> 62]
Taken(s, e) == [start |-> s, end |-> e, mode |-> "ForbiddenReloc"]

(* From 40 the payload moves to the best range; at 14 it overlaps it, and  *)
(* stays.                                                                  *)
MCLoads ==
  {[which |-> w, addr |-> a, params |-> [memory |-> MCMemory, blacklist |-> b]] :
     w \in {"brom", "pl"}, a \in {14, 40}, b \in {<<>>, <<Taken(9, 12)>>}}

Msg(k, a) == [kind |-> k, arg |-> a]
Ptrs(t, p) == [type |-> t, ptrs |-> p]

MCMessages ==
  <<Msg("Ack", Empty), Msg("Read", [addr |-> 8, size |-> 4]),
   Msg("Write", [addr |-> 56, size |-> 2]), Msg("Write", [addr |-> 16, size |-> 2]),
   Msg("FlushCache", [addr |-> 8, size |-> 4]),
   Msg("Jump", [addr |-> 56, r0 |-> 0, r1 |-> 0]),
   Msg("Reset", Empty), Msg("Hook", [id |-> "MtPartGenericRead"]),
   Msg("GetFreeRange", [size |-> 8]), Msg("GetFreeRange", [size |-> 60]),
   Msg("BlacklistRange", [start |-> 58, end |-> 60]),
   Msg("SetParams", Ptrs("Preloader", <<0>>)), Msg("SetParams", Ptrs("Preloader", <<4>>)),
   Msg("SetParams", Ptrs("LK", <<56, 0, 60>>)), Msg("SetParams", Ptrs("LK", <<56, 4, 60>>)),
   Msg("junk", Empty)>>
=============================================================================
