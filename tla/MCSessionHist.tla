--------------------------- MODULE MCSessionHist ---------------------------
(***************************************************************************)
(* MCSession with a history variable: every value the live Completion     *)
(* has had, to compare with what the progCh listener reads.              *)
(***************************************************************************)
EXTENDS MCSession

\* hist: the set of values the live Completion has taken so far.
VARIABLE hist

HistInit == Init /\ hist = {prog}
HistNext == Next /\ hist' = hist \cup {prog'}
HistSpec == HistInit /\ [][HistNext]_<< vars, hist >> /\ Fairness

(* A completed read of a notification yields a value that s.prog really  *)
(* had at some instant (the spec asks for a snapshot, never the live     *)
(* slice that other callers keep writing).                               *)
NotificationIsSnapshot ==
  (opc # "read" /\ Len(oview) = Len(MfstNodes)) => oview \in hist

=============================================================================
