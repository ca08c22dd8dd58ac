----------------------------- MODULE MCJsonBuilder -----------------------------
(* Names and values of one and of twelve characters in a buffer of at most 64. *)
EXTENDS JsonBuilder
================================================================================
