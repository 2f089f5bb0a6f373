--------------------------- MODULE MCOriginScheduler ---------------------------
(* Three fetches of one origin, for TLC.                                    *)
EXTENDS OriginScheduler
=============================================================================
