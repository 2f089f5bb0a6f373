------------------------------ MODULE MCLadder ------------------------------
(* Two runs of one host by the API or from the command line, for TLC.        *)
EXTENDS Ladder

MCVendors == << "browserbase", "steel" >>
=============================================================================
