--------------------------- MODULE MCSharingTags ---------------------------
(* The sharing tag on a small cluster, with every configuration of it.      *)
EXTENDS SharingTags, TLC

AllConfigs == [Node -> State]
Symmetry == Permutations(Node) \cup Permutations(Proc)

=============================================================================
