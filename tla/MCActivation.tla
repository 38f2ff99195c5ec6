---------------------------- MODULE MCActivation -----------------------------
(* Two accounts, one code of one use, two requests at once. *)
EXTENDS Activation

CONSTANTS m, n, once

MCKind == [c \in Codes |-> "duration"]
MCSpan == [c \in Codes |-> 1]
MCMaxUses == [c \in Codes |-> 1]
=============================================================================
