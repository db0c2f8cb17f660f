----------------------------- MODULE MCSession -----------------------------
(***************************************************************************)
(* Model-checking instance of Session: two concurrent callers, a manifest *)
(* of two distinct blocks, and a listener that may go away.               *)
(***************************************************************************)
EXTENDS Session, TLC

CONSTANTS c1, c2, h1, h2, junk

MCCallers == {c1, c2}
MCHashes == {h1, h2}
MCMfstNodes == << h1, h2 >>

\* The callers are interchangeable goroutines.
Symmetry == Permutations(MCCallers)

(* A listener that, while it listens, never lets a send wait for ever.    *)
ListenerSpec ==
  Spec /\ WF_vars(ListenerReceive \/ ListenerRead \/ ListenerDone)

=============================================================================
