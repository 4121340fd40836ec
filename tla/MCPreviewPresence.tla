-------------------------- MODULE MCPreviewPresence --------------------------
(* Small instances of PreviewPresence for TLC. *)
EXTENDS PreviewPresence, TLC

\* Every connection watches every template of the instance: with one template
\* this is what the clients do, with two it is what the hub merely allows.
AnyTarget == [c \in Connections |-> Sessions]

Symmetry == Permutations(Connections) \cup Permutations(Elements)
=============================================================================
