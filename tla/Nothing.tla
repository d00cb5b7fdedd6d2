------------------------------ MODULE Nothing ------------------------------
(* The value that stands for Option::None, shared by modules that are checked
   together. *)
CONSTANT None
=============================================================================
