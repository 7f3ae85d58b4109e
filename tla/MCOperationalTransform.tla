----------------------- MODULE MCOperationalTransform -----------------------
(* Model checking of OperationalTransform: a text of three characters. *)
EXTENDS OperationalTransform

Initial == <<7, 8, 9>>
=============================================================================
