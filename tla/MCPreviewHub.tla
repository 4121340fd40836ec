---------------------------- MODULE MCPreviewHub ----------------------------
(* Small instances of PreviewHub for TLC. *)
EXTENDS PreviewHub, TLC

\* Every connection watches the one template of the instance.
SameTemplate == [c \in Connections |-> CHOOSE s \in Sessions : TRUE]

\* No action and no property of a run reads what the clients are shown: states that
\* differ in `shown` only are one state.
Unshown == <<registry, snapshot, groups, handler, missed>>

Symmetry == Permutations(Connections) \cup Permutations(Elements) \cup Permutations(Frames)
=============================================================================
