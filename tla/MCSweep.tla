------------------------------ MODULE MCSweep ------------------------------
(***************************************************************************)
(* Five functions at 10, 20, ..., 50 and a call of the metaclass           *)
(* constructor in the one at 20; the table ends in a word outside the      *)
(* text.                                                                   *)
(***************************************************************************)
EXTENDS Sweep

MCTable == <<10, 20, 30, 40, 50, 0, 30>>
MCText == 10..59
MCCalls == {25}
=============================================================================
