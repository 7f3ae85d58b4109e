--------------------------- MODULE MCCRDTManager ---------------------------
(* Model checking of CRDTManager: the texts that peers insert. *)
EXTENDS CRDTManager

CONSTANTS a, b

Pair == {<<a, b>>}
Single == {<<a>>}
Nothing == <<>>
=============================================================================
