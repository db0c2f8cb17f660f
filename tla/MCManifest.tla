----------------------------- MODULE MCManifest -----------------------------
(***************************************************************************)
(* Model-checking instance of Manifest.  The DAGs are generated as layers *)
(* (position p links only to later positions, at most MaxOut links, the  *)
(* same target allowed twice, as identical chunks of a file are) and then *)
(* labelled with CIDs by every bijection, so the CID order and the shape  *)
(* of the DAG vary independently.  Position 1 is the root.                *)
(***************************************************************************)
EXTENDS Manifest

CONSTANTS NumIds, MaxOut

MCIds == 1 .. NumIds

Positions == 1 .. NumIds

Labellings == {s \in [Positions -> MCIds] : \A p, q \in Positions : p # q => s[p] # s[q]}

\* Link lists of positions p .. NumIds, each to later positions only.
RECURSIVE ShapesFrom(_)
ShapesFrom(p) ==
  IF p > NumIds THEN {<< >>}
  ELSE {<< c >> \o rest : c \in BoundedSeq(p + 1 .. NumIds, MaxOut),
                         rest \in ShapesFrom(p + 1)}

Shapes == ShapesFrom(1)

\* The DAG of shape sh with position p named l[p].
Label(sh, l) ==
  [graph |-> [x \in MCIds |->
                LET p == CHOOSE q \in Positions : l[q] = x
                IN [k \in DOMAIN sh[p] |-> l[sh[p][k]]]],
   root |-> l[1]]

MCInputs == {Label(sh, l) : sh \in Shapes, l \in Labellings}

\* A root with NumIds - 1 leaf children (a file of NumIds - 1 chunks).
StarInputs ==
  {Label([p \in Positions |-> IF p = 1 THEN [k \in 1 .. NumIds - 1 |-> k + 1] ELSE << >>], l) :
     l \in Labellings}

=============================================================================
