------------------------ MODULE MCCtapHidTransaction ------------------------
(* Instance of CtapHidTransaction; the unit of a cleared buffer has a kind *)
(* like every other unit.                                                  *)
EXTENDS CtapHidTransaction

ZeroUnit == [kind |-> "zero"]

==============================================================================
