-------------------------- MODULE MCWritePipeline --------------------------
(* WritePipeline for an account and nobody, and two writes.                *)
EXTENDS WritePipeline

CONSTANTS u1, u2, r1, r2

Writes == 1..2
=============================================================================
