------------------------------ MODULE Manifest ------------------------------
(***************************************************************************)
(* NewManifest (src/dag.go): the manifest builder, step by step.          *)
(*                                                                         *)
(* makeManifest fetches the root and calls addNode, which recurses over   *)
(* the links depth first.  The recursion is an explicit stack of frames;  *)
(* each frame is one addNode call with its own lWeight, and the frame's   *)
(* out-parameter *weight is the lWeight of the frame below it (or the     *)
(* local weight of makeManifest for the root frame), exactly as the       *)
(* pointers alias in the code.  After the walk makeManifest sorts the     *)
(* node ids (alpha, then by weight with sort.Sort), re-uses the weights   *)
(* map for indices, and sorts the index pairs of the links.               *)
(*                                                                         *)
(* sort.Sort is modelled by the algorithm Go runs on at most 12 elements: *)
(* insertion sort since Go 1.19 (pdqsort), a gap-6 pass then insertion    *)
(* sort before (quickSort).  CIDs are naturals; their numeric order is    *)
(* the string order of the CIDs.                                           *)
(***************************************************************************)
EXTENDS Naturals, Sequences, SequencesExt, FiniteSets, TLC

CONSTANTS
  Ids,          \* node ids (CIDs)
  Inputs,       \* DAGs the node getter may serve: records [graph, root]
  LinkKeyBase,  \* the 1000 of sortableLinks.Less
  GoSort        \* "pdqsort" (Go >= 1.19) or "quicksort" (Go <= 1.18)

ASSUME Cardinality(Ids) <= 12 /\ GoSort \in {"pdqsort", "quicksort"}

VARIABLES
  graph, root,  \* the DAG behind the NodeGetter, and the root id
  phase,        \* "get", "walk", "sort", "done", "error"
  mNodes,       \* ms.m.Nodes
  mLinks,       \* ms.m.Links (0-based index pairs)
  sized,        \* keys of ms.sizes: the ids addNode has entered
  weights,      \* ms.weights: id -> weight, then id -> index
  links,        \* ms.links: <<from id, to id>> per link walked
  stack,        \* addNode frames: [id, li, lw, pc]
  rootWeight    \* makeManifest's local weight

vars == << graph, root, phase, mNodes, mLinks, sized, weights, links,
          stack, rootWeight >>

N == Cardinality(Ids)

Frames == [id : Ids, li : 1 .. N + 1, lw : Nat, pc : {"enter", "loop", "after"}]

-----------------------------------------------------------------------------
(* sort.Sort over the first n elements of s, for an order Less(cmp, x, y). *)

\* Mutant of WeightLess: weights compared with >=.
WeightLessGE(w, x, y) == w[x] >= w[y]

\* mstate.Less: a heavier node sorts first.
WeightLess(w, x, y) == w[x] > w[y]

\* Mutant of LinkLess: only the from index is compared.
LinkLessFrom(x, y) == x[1] < y[1]

\* sortableLinks.Less on the key 1000 * (from + 1) + to.
LinkLess(x, y) ==
  LinkKeyBase * (x[1] + 1) + x[2] < LinkKeyBase * (y[1] + 1) + y[2]

\* The Less of the three sort.Sort calls: StringSlice, mstate, sortableLinks.
Less(cmp, x, y) ==
  CASE cmp.by = "alpha"  -> x < y
    [] cmp.by = "weight" -> WeightLess(cmp.w, x, y)
    [] cmp.by = "link"   -> LinkLess(x, y)

Swap(s, a, b) == [s EXCEPT ![a] = s[b], ![b] = s[a]]

\* for j := i; j > a && data.Less(j, j-1); j-- { data.Swap(j, j-1) }
RECURSIVE Sift(_, _, _)
Sift(s, j, cmp) ==
  IF j > 1 /\ Less(cmp, s[j], s[j - 1]) THEN Sift(Swap(s, j, j - 1), j - 1, cmp)
  ELSE s

\* insertionSort(data, 0, n)
RECURSIVE InsertionLoop(_, _, _, _)
InsertionLoop(s, k, n, cmp) ==
  IF k > n THEN s ELSE InsertionLoop(Sift(s, k, cmp), k + 1, n, cmp)

\* quickSort's pass for b-a <= 12: for i := 6; i < b; i++ { if Less(i, i-6) { Swap } }
RECURSIVE GapPass(_, _, _, _)
GapPass(s, k, n, cmp) ==
  IF k > n THEN s
  ELSE GapPass(IF Less(cmp, s[k], s[k - 6]) THEN Swap(s, k, k - 6) ELSE s,
               k + 1, n, cmp)

GoSortSeq(s, n, cmp) ==
  IF GoSort = "pdqsort" THEN InsertionLoop(s, 2, n, cmp)
  ELSE IF n > 1 THEN InsertionLoop(GapPass(s, 7, n, cmp), 2, n, cmp)
  ELSE s

-----------------------------------------------------------------------------
(* The frame on top of the stack and the out-parameter *weight of frame k. *)
Top == stack[Len(stack)]

OutParam(k) == IF k = 1 THEN rootWeight ELSE stack[k - 1].lw

\* The stack and rootWeight after *weight += d for frame k of stack st.
AddOut(st, k, d) ==
  IF k = 1 THEN << st, rootWeight + d >>
  ELSE << [st EXCEPT ![k - 1].lw = @ + d], rootWeight >>

TypeOK ==
  /\ phase \in {"get", "walk", "sort", "done", "error"}
  /\ mNodes \in Seq(Ids) /\ Len(mNodes) <= N
  /\ mLinks \in Seq((0 .. N - 1) \X (0 .. N - 1))
  /\ sized \subseteq Ids
  /\ DOMAIN weights \subseteq Ids /\ \A x \in DOMAIN weights : weights[x] \in Nat
  /\ links \in Seq(Ids \X Ids)
  /\ stack \in Seq(Frames) /\ Len(stack) <= N
  /\ rootWeight \in Nat

Init ==
  /\ \E in \in Inputs : graph = in.graph /\ root = in.root
  /\ phase = "get"
  /\ mNodes = << >> /\ mLinks = << >>
  /\ sized = {} /\ weights = << >> /\ links = << >>
  /\ stack = << >> /\ rootWeight = 0

-----------------------------------------------------------------------------
(* makeManifest: node, err := ms.ng.Get(ms.ctx, id); weight := 0; addNode *)
GetRoot ==
  /\ phase = "get"
  /\ phase' = "walk"
  /\ rootWeight' = 0
  /\ stack' = << [id |-> root, li |-> 1, lw |-> 0, pc |-> "enter"] >>
  /\ UNCHANGED << graph, root, mNodes, mLinks, sized, weights, links >>

(* A failed fetch returns err; every frame returns it at once with no     *)
(* further write, and NewManifest returns (ms.m, err).                    *)
\* makeManifest: ms.ng.Get(ms.ctx, id) fails.
GetRootFails ==
  /\ phase = "get"
  /\ phase' = "error"
  /\ UNCHANGED << graph, root, mNodes, mLinks, sized, weights, links, stack, rootWeight >>

\* addNode: the id is appended and ms.sizes[id], err = node.Size() fails.
SizeFails ==
  /\ phase = "walk"
  /\ Top.pc = "enter" /\ Top.id \notin sized
  /\ mNodes' = Append(mNodes, Top.id)
  /\ sized' = sized \cup {Top.id}
  /\ phase' = "error"
  /\ UNCHANGED << graph, root, mLinks, weights, links, stack, rootWeight >>

\* The link loop: *weight++, then link.GetNode fails.
GetNodeFails ==
  /\ phase = "walk"
  /\ Top.pc = "loop" /\ Top.li <= Len(graph[Top.id])
  /\ LET inc == AddOut(stack, Len(stack), 1)
     IN stack' = inc[1] /\ rootWeight' = inc[2]
  /\ phase' = "error"
  /\ UNCHANGED << graph, root, mNodes, mLinks, sized, weights, links >>

\* addNode: if _, ok := ms.sizes[id]; ok { return nil }
AddNodeSeen ==
  /\ phase = "walk"
  /\ Top.pc = "enter" /\ Top.id \in sized
  /\ stack' = Front(stack)
  /\ UNCHANGED << graph, root, phase, mNodes, mLinks, sized, weights, links, rootWeight >>

\* Mutant of AddNodeNew: the ms.sizes visited check is missing.
AddNodeNewUnchecked ==
  /\ phase = "walk"
  /\ Top.pc = "enter"
  /\ mNodes' = Append(mNodes, Top.id)
  /\ sized' = sized \cup {Top.id}
  /\ stack' = [stack EXCEPT ![Len(stack)].lw = 0, ![Len(stack)].pc = "loop"]
  /\ UNCHANGED << graph, root, phase, mLinks, weights, links, rootWeight >>

\* addNode: append id to ms.m.Nodes, lWeight := 0, record the size.
AddNodeNew ==
  /\ phase = "walk"
  /\ Top.pc = "enter" /\ Top.id \notin sized
  /\ mNodes' = Append(mNodes, Top.id)
  /\ sized' = sized \cup {Top.id}
  /\ stack' = [stack EXCEPT ![Len(stack)].lw = 0, ![Len(stack)].pc = "loop"]
  /\ UNCHANGED << graph, root, phase, mLinks, weights, links, rootWeight >>

\* Mutant of LinkStep: lWeight = 0 is missing before the recursive call.
LinkStepNoReset ==
  /\ phase = "walk"
  /\ Top.pc = "loop" /\ Top.li <= Len(graph[Top.id])
  /\ LET k == Len(stack)
         t == graph[Top.id][Top.li]
         inc == AddOut(stack, k, 1)
     IN /\ links' = Append(links, << Top.id, t >>)
        /\ stack' = Append([inc[1] EXCEPT ![k].pc = "after"],
                           [id |-> t, li |-> 1, lw |-> 0, pc |-> "enter"])
        /\ rootWeight' = inc[2]
  /\ UNCHANGED << graph, root, phase, mNodes, mLinks, sized, weights >>

(* One iteration of the link loop up to the recursive call:               *)
(* *weight++; linkNode := GetNode; append the link; lWeight = 0; addNode. *)
LinkStep ==
  /\ phase = "walk"
  /\ Top.pc = "loop" /\ Top.li <= Len(graph[Top.id])
  /\ LET k == Len(stack)
         t == graph[Top.id][Top.li]
         inc == AddOut(stack, k, 1)
         st == [inc[1] EXCEPT ![k].lw = 0, ![k].pc = "after"]
     IN /\ links' = Append(links, << Top.id, t >>)
        /\ stack' = Append(st, [id |-> t, li |-> 1, lw |-> 0, pc |-> "enter"])
        /\ rootWeight' = inc[2]
  /\ UNCHANGED << graph, root, phase, mNodes, mLinks, sized, weights >>

\* After the recursive call returned nil: *weight += lWeight.
AfterChild ==
  /\ phase = "walk"
  /\ Top.pc = "after"
  /\ LET k == Len(stack)
         add == AddOut(stack, k, Top.lw)
     IN /\ stack' = [add[1] EXCEPT ![k].li = @ + 1, ![k].pc = "loop"]
        /\ rootWeight' = add[2]
  /\ UNCHANGED << graph, root, phase, mNodes, mLinks, sized, weights, links >>

\* End of the link loop: ms.weights[id] = *weight; return nil.
AddNodeReturn ==
  /\ phase = "walk"
  /\ Top.pc = "loop" /\ Top.li > Len(graph[Top.id])
  /\ weights' = weights @@ (Top.id :> OutParam(Len(stack)))
  /\ stack' = Front(stack)
  /\ phase' = IF Len(stack) = 1 THEN "sort" ELSE "walk"
  /\ UNCHANGED << graph, root, mNodes, mLinks, sized, links, rootWeight >>

(* makeManifest after addNode: alpha sort, sort.Sort(ms) by weight with   *)
(* Len() = len(ms.sizes), weights := indices, sort the index pairs.       *)
SortManifest ==
  /\ phase = "sort"
  /\ LET alpha == GoSortSeq(mNodes, Len(mNodes), [by |-> "alpha"])
         byWeight == GoSortSeq(alpha, Cardinality(sized), [by |-> "weight", w |-> weights])
         index == [x \in DOMAIN weights |->
                     CHOOSE j \in DOMAIN byWeight :
                       byWeight[j] = x /\ \A j2 \in DOMAIN byWeight : byWeight[j2] = x => j2 <= j]
         sl == [k \in DOMAIN links |-> << index[links[k][1]] - 1, index[links[k][2]] - 1 >>]
     IN /\ mNodes' = byWeight
        /\ weights' = [x \in DOMAIN weights |-> index[x] - 1]
        /\ mLinks' = GoSortSeq(sl, Len(sl), [by |-> "link"])
  /\ phase' = "done"
  /\ UNCHANGED << graph, root, sized, links, stack, rootWeight >>

Next ==
  \/ GetRoot \/ GetRootFails \/ SizeFails \/ GetNodeFails
  \/ AddNodeSeen \/ AddNodeNew \/ LinkStep \/ AfterChild \/ AddNodeReturn
  \/ SortManifest

Spec == Init /\ [][Next]_vars

-----------------------------------------------------------------------------
(* The manifest NewManifest returns, as ManifestSpec sees it.             *)
AbstractResult ==
  CASE phase = "done"  -> [status |-> "ok", nodes |-> mNodes, links |-> mLinks]
    [] phase = "error" -> [status |-> "error", nodes |-> << >>, links |-> << >>]
    [] OTHER           -> [status |-> "none", nodes |-> << >>, links |-> << >>]

Abstract == INSTANCE ManifestSpec WITH result <- AbstractResult


(* The step-by-step walk with aliased weight pointers, the alpha pass, the *)
(* Go sort and the link-index sort together build exactly the manifest   *)
(* spec 4.1 defines (or fail).                                            *)
BuildRefinesSpec == Abstract!Spec

(* Nodes are ordered by descending weight, equal weights by ascending     *)
(* CID (dag.go Manifest comment; spec 4.1 step 5).                        *)
NodesOrdered ==
  phase = "done" =>
    LET w == Abstract!SpecWeights(graph, root)
    IN \A k \in 1 .. Len(mNodes) - 1 :
         \/ w[mNodes[k]] > w[mNodes[k + 1]]
         \/ w[mNodes[k]] = w[mNodes[k + 1]] /\ mNodes[k] < mNodes[k + 1]

(* Links are sorted by (from, to) (spec 4.1 step 6).                      *)
LinksOrdered ==
  phase = "done" =>
    \A k \in 1 .. Len(mLinks) - 1 :
      \/ mLinks[k][1] < mLinks[k + 1][1]
      \/ mLinks[k][1] = mLinks[k + 1][1] /\ mLinks[k][2] <= mLinks[k + 1][2]

(* The Manifest comment (dag.go): "The list of nodes MUST be sorted by    *)
(* number of descendants. When two nodes have the same number of          *)
(* descendants, they MUST be sorted lexographically by node ID."          *)
RECURSIVE Reach(_, _)
Reach(g, S) ==
  LET next == S \cup UNION {ToSet(g[x]) : x \in S}
  IN IF next = S THEN S ELSE Reach(g, next)

Descendants(x) == Cardinality(Reach(graph, {x})) - 1

NodesByDescendants ==
  phase = "done" =>
    \A k \in 1 .. Len(mNodes) - 1 :
      \/ Descendants(mNodes[k]) > Descendants(mNodes[k + 1])
      \/ Descendants(mNodes[k]) = Descendants(mNodes[k + 1]) /\ mNodes[k] < mNodes[k + 1]

(* A failed build returns no partial manifest (spec 7: "propagated        *)
(* immediately, no retry, no partial manifest returned"); NewManifest     *)
(* returns ms.m beside the error.                                         *)
ErrorReturnsNoManifest ==
  phase = "error" => mNodes = << >> /\ mLinks = << >>

=============================================================================
