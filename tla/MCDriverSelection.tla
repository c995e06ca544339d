--------------------------- MODULE MCDriverSelection ---------------------------
(* An 8-bit counter: 128 = 2^31 = 2 modulo 3, so the wrap meets the same picks. *)
EXTENDS DriverSelection

MCMaxInt == 127
===============================================================================
