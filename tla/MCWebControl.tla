---------------------------- MODULE MCWebControl ----------------------------
(***************************************************************************)
(* WebControl for TLC: settings of two values each.                         *)
(***************************************************************************)
EXTENDS WebControl

FieldSettings == [Fields -> Values]
HighSettings == {[f \in Fields |-> 1]}
LowSettings == [f \in Fields |-> 0]
=============================================================================
