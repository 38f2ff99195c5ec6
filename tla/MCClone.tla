------------------------------- MODULE MCClone -------------------------------
(* A clone of two songs, one of which is here already. *)
EXTENDS Clone, TLC

CONSTANTS s1, s2, o1

MCMatch == (s1 :> o1) @@ (s2 :> s2)
MCUpstream == <<<<s1>>, <<s2>>>>
=============================================================================
