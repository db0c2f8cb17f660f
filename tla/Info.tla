-------------------------------- MODULE Info --------------------------------
(***************************************************************************)
(* The two constructors around the manifest walk (src/dag.go): NewManifest *)
(* returns ms.m beside makeManifest's error; NewInfo returns nil on error, *)
(* and otherwise copies ms.sizes into Sizes in the final Nodes order.      *)
(* RootCID is what a caller reads from either result.                      *)
(*                                                                         *)
(* The walk is Manifest's; api says which constructor started it, ret is  *)
(* what the constructor returned.  Node sizes are a constant of the DAG:  *)
(* node.Size() of a fetched node depends on its bytes only.               *)
(***************************************************************************)
EXTENDS Manifest

CONSTANT NodeSize   \* node.Size() of every id, when it succeeds

ASSUME NodeSize \in [Ids -> Nat]

VARIABLES api, ret

infoVars == << vars, api, ret >>

\* cid.Undef; an id string from Cid().String() always parses back.
Undef == 0

\* Nothing returned yet; the nil *Info.
NoRet == [kind |-> "none"]
NilInfo == [kind |-> "nil"]

\* Manifest.RootCID: cid.Undef for an empty manifest, else Nodes[0].
RootCID(nodes) == IF Len(nodes) = 0 THEN Undef ELSE nodes[1]

\* Info.RootCID: cid.Undef when i.Manifest is nil.  On a nil *Info the
\* code would panic instead; no property reads RootCID of a nil result.
InfoRootCID(r) == IF r.kind = "nil" THEN Undef ELSE RootCID(r.nodes)

\* Mutant of InfoSizes: sizes read off ms.sizes in key order.
InfoSizesByKey(nodes) ==
  LET keys == SetToSortSeq(ToSet(nodes), LAMBDA x, y : x < y)
  IN [k \in DOMAIN keys |-> NodeSize[keys[k]]]

\* for _, id := range ms.m.Nodes { sizes = append(sizes, ms.sizes[id]) }
InfoSizes(nodes) == [k \in DOMAIN nodes |-> NodeSize[nodes[k]]]

InfoInit ==
  /\ Init
  /\ api \in {"NewManifest", "NewInfo"}
  /\ ret = NoRet

\* A step of makeManifest, whichever constructor called it.
Walk == Next /\ UNCHANGED << api, ret >>

\* NewManifest: err := ms.makeManifest(id); return ms.m, err
NewManifestReturn ==
  /\ api = "NewManifest" /\ ret = NoRet
  /\ phase \in {"done", "error"}
  /\ ret' = [kind |-> "manifest", nodes |-> mNodes, links |-> mLinks,
             err |-> phase = "error"]
  /\ UNCHANGED << vars, api >>

\* NewInfo: if err != nil { return nil, err }
NewInfoFails ==
  /\ api = "NewInfo" /\ ret = NoRet
  /\ phase = "error"
  /\ ret' = NilInfo
  /\ UNCHANGED << vars, api >>

\* NewInfo: copy the sizes in Nodes order; return &Info{ms.m, sizes}, nil
NewInfoReturn ==
  /\ api = "NewInfo" /\ ret = NoRet
  /\ phase = "done"
  /\ ret' = [kind |-> "info", nodes |-> mNodes, links |-> mLinks,
             sizes |-> InfoSizes(mNodes), err |-> FALSE]
  /\ UNCHANGED << vars, api >>

InfoNext == Walk \/ NewManifestReturn \/ NewInfoFails \/ NewInfoReturn

InfoSpec == InfoInit /\ [][InfoNext]_infoVars

-----------------------------------------------------------------------------
(* Whatever a constructor returns without an error describes the DAG it  *)
(* was given: RootCID of the result is the root the walk started from,    *)
(* and an Info's Sizes[k] is node.Size() of Nodes[k] for every k, after  *)
(* the two sorts reordered Nodes (spec 3: Sizes is in the same order as  *)
(* Nodes).                                                                *)
ResultDescribesDag ==
  ret.kind \in {"manifest", "info"} /\ ~ret.err =>
    /\ InfoRootCID(ret) = root
    /\ ret.kind = "info" =>
         /\ Len(ret.sizes) = Len(ret.nodes)
         /\ \A k \in DOMAIN ret.nodes : ret.sizes[k] = NodeSize[ret.nodes[k]]

=============================================================================
