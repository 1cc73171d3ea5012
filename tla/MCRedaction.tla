------------------------------ MODULE MCRedaction ------------------------------
(* Texts of four positions: up to three hits of two categories, one of which  *)
(* is blocked and one only masked, met by up to two hits of each later stage, *)
(* so that spans nest, overlap in part, coincide and touch.                   *)
EXTENDS Redaction
RRNBeforeAddress == <<"RRN", "ADDRESS">>
===============================================================================
