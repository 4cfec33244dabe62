--------------------------- MODULE MCRenderCache ---------------------------
(* Three processes want one node; its renderer may draw it in two ways.    *)
EXTENDS RenderCache, TLC

Renaming == Permutations(Proc) \cup Permutations(Content)
=============================================================================
