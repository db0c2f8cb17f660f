----------------------------- MODULE Completion -----------------------------
(***************************************************************************)
(* dag.Completion (src/dag.go): a progress vector with one entry per       *)
(* manifest node, 0 = block not local, 100 = block local.  The operators   *)
(* are the pure functions of the Completion type; the receive session     *)
(* (Session.tla) owns the only mutable instance of one.                    *)
(***************************************************************************)
EXTENDS Naturals, Sequences, FiniteSets

\* The entry values the code ever writes (NewCompletion, ReceiveBlock).
Progress == {0, 100}

\* Percentage() of an empty completion is float32 0/0.
NaN == "NaN"

(***************************************************************************)
(* NewCompletion(mfst, missing): one forward scan over mfst.Nodes with a   *)
(* cursor m into missing.Nodes; a node equal to missing.Nodes[m] is 0 and  *)
(* advances the cursor, any other node is 100.                             *)
(***************************************************************************)
\* Mutant of Scan: the cursor m is not advanced on a match.
RECURSIVE ScanNoAdvance(_, _, _)
ScanNoAdvance(nodes, missing, m) ==
  IF nodes = << >> THEN << >>
  ELSE IF m <= Len(missing) /\ Head(nodes) = missing[m]
       THEN << 0 >> \o ScanNoAdvance(Tail(nodes), missing, m)
       ELSE << 100 >> \o ScanNoAdvance(Tail(nodes), missing, m)

RECURSIVE Scan(_, _, _)
Scan(nodes, missing, m) ==
  IF nodes = << >> THEN << >>
  ELSE IF m <= Len(missing) /\ Head(nodes) = missing[m]
       THEN << 0 >> \o Scan(Tail(nodes), missing, m + 1)
       ELSE << 100 >> \o Scan(Tail(nodes), missing, m)

NewCompletion(mfstNodes, missingNodes) == Scan(mfstNodes, missingNodes, 1)

(***************************************************************************)
(* Percentage(): the sum of bl/100 divided by len(p), as the exact         *)
(* fraction <<num, den>> (entries are 0 or 100, so the float32 sums are    *)
(* exact), or NaN when len(p) = 0.                                         *)
(***************************************************************************)
RECURSIVE SumSeq(_)
SumSeq(s) == IF s = << >> THEN 0 ELSE Head(s) + SumSeq(Tail(s))

Percentage(p) ==
  IF Len(p) = 0 THEN NaN ELSE << SumSeq(p), 100 * Len(p) >>

\* CompletedBlocks(): the number of entries equal to 100.
CompletedBlocks(p) == Cardinality({k \in DOMAIN p : p[k] = 100})

\* Mutant of Complete: the loop stops before the last entry.
CompleteSkipLast(p) == \A k \in 1 .. Len(p) - 1 : p[k] = 100

\* Complete(): no entry differs from 100 (vacuously true when empty).
Complete(p) == \A k \in DOMAIN p : p[k] = 100

=============================================================================
