---------------------------- MODULE MCASHQuery ----------------------------
(* Model values for ASHQuery: a signs 1, 2 and 3, a session with a command *)
(* in it; 4 and 5 are of host b, 5 without a hash.  2 and 4 are of the same
   instant; of the filters, the last has no tie.                           *)
EXTENDS ASHQuery

CONSTANTS a, b, s, t

MCEvent == 1 .. 5
MCStamp == <<1, 2, 3, 2, 4>>
MCHost == <<a, a, a, b, b>>
MCSession == <<s, s, s, t, t>>
MCPrev == <<0, 1, 2, 0, 0>>
MCFilters == {MCEvent, {1, 2, 3}}
=============================================================================
