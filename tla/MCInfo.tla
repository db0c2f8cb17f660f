------------------------------- MODULE MCInfo -------------------------------
(* Info over the DAGs of MCManifest, with a distinct size for every id.  *)
EXTENDS Info, MCManifest

MCNodeSize == [x \in MCIds |-> 10 + x]

=============================================================================
