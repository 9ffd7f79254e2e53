----------------------------- MODULE MCTransport -----------------------------
(* An instance of Transport for TLC. *)
EXTENDS Transport
==============================================================================
