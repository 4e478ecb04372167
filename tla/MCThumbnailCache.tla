--------------------------- MODULE MCThumbnailCache ---------------------------
(* Two versions of a source, which nothing tells apart but their order in  *)
(* time: they may be exchanged.                                            *)
EXTENDS ThumbnailCache

CONSTANTS v1, v2 \* model values

MCVersions == {v1, v2}
Exchange == Permutations(MCVersions)
===============================================================================
