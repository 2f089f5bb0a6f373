--------------------------- MODULE MCPublicPreview ---------------------------
(* A visitor and the owner at the gated origin, and another visitor, for TLC. *)
EXTENDS PublicPreview

CONSTANTS amazon, owner, page, v1, v2

MCVisitorOf == [r \in Requests |-> IF r = page THEN v2 ELSE v1]
==============================================================================
