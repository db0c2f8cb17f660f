---------------------------- MODULE ManifestSpec ----------------------------
(***************************************************************************)
(* What building a manifest promises (spec 4.1, 9), stated as one atomic  *)
(* step from "no result" to either an error or the manifest of the DAG.   *)
(*                                                                         *)
(* A DAG is a function graph from node ids to the ordered sequence of the *)
(* ids their links point to; ids are naturals whose numeric order stands  *)
(* for the lexicographic order of the CID strings.  The weight of a node  *)
(* is the one the walk computes: +1 for every link, plus the weight of    *)
(* the target only when the walk reached the target for the first time   *)
(* through this link.  Nodes are ordered by descending weight, equal      *)
(* weights by ascending id; links are index pairs ordered by (from, to).  *)
(***************************************************************************)
EXTENDS Naturals, Sequences, SequencesExt, TLC

VARIABLES graph, root, result

\* result: a status and, when it is "ok", the manifest.
NoResult == [status |-> "none", nodes |-> << >>, links |-> << >>]
Failed == [status |-> "error", nodes |-> << >>, links |-> << >>]

(***************************************************************************)
(* The walk of spec 4.1 steps 3-4 as a function of the DAG: st.seen is    *)
(* the set of nodes entered so far, st.wt their recorded weights.          *)
(***************************************************************************)
RECURSIVE Visit(_, _, _)
RECURSIVE VisitLinks(_, _, _, _, _)

Visit(g, n, st) ==
  IF n \in st.seen THEN st
  ELSE VisitLinks(g, n, 1, 0, [st EXCEPT !.seen = @ \cup {n}])

VisitLinks(g, n, k, acc, st) ==
  IF k > Len(g[n]) THEN [st EXCEPT !.wt = @ @@ (n :> acc)]
  ELSE LET t == g[n][k]
           fresh == t \notin st.seen
           after == Visit(g, t, st)
       IN VisitLinks(g, n, k + 1,
                     acc + 1 + (IF fresh THEN after.wt[t] ELSE 0), after)

\* The recorded weight of every node reachable from r.
SpecWeights(g, r) == Visit(g, r, [seen |-> {}, wt |-> << >>]).wt

\* Nodes by descending weight, equal weights by ascending id.
SpecNodes(g, r) ==
  LET w == SpecWeights(g, r)
  IN SetToSortSeq(DOMAIN w,
       LAMBDA a, b : w[a] > w[b] \/ (w[a] = w[b] /\ a < b))

\* One (from, to) pair of 0-based indices per link occurrence, sorted.
SpecLinks(g, r) ==
  LET ns == SpecNodes(g, r)
      pos(x) == CHOOSE j \in DOMAIN ns : ns[j] = x
      out(j) == [k \in DOMAIN g[ns[j]] |-> << j - 1, pos(g[ns[j]][k]) - 1 >>]
  IN SortSeq(FlattenSeq([j \in DOMAIN ns |-> out(j)]),
             LAMBDA a, b : a[1] < b[1] \/ (a[1] = b[1] /\ a[2] < b[2]))

SpecManifest(g, r) ==
  [status |-> "ok", nodes |-> SpecNodes(g, r), links |-> SpecLinks(g, r)]

Init == result = NoResult

\* A build either fails (a fetch or a size failed) or yields the manifest.
Build ==
  /\ result = NoResult
  /\ \/ result' = Failed
     \/ result' = SpecManifest(graph, root)
  /\ UNCHANGED << graph, root >>

Spec == Init /\ [][Build]_<< graph, root, result >>

=============================================================================
