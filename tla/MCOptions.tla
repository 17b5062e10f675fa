------------------------------ MODULE MCOptions ------------------------------
(***************************************************************************)
(* Options for TLC: a property of each kind that a service may put in the  *)
(* map it passes.                                                          *)
(***************************************************************************)
EXTENDS Options

EachKind == {"enable.partition.eof", "sasl.username", "reconnect.backoff.ms"}

=============================================================================
