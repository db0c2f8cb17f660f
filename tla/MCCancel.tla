------------------------------ MODULE MCCancel ------------------------------
(***************************************************************************)
(* Cancellation over a degenerate manifest that names h1 twice: spec 4.4  *)
(* requires ReceiveBlock to mark every matching index, not the first.     *)
(***************************************************************************)
EXTENDS Cancel, MCSession

MCDupNodes == << h1, h2, h1 >>

=============================================================================
