---------------------------- MODULE MCPreviewClient ----------------------------
(* PreviewClient for TLC. *)
EXTENDS PreviewClient

Kind(generation, rank, extended) ==
  [generation |-> generation, rank |-> rank, extended |-> extended]

(* An enlarged rendering in the viewing pane, the folder mosaics, the files of the view. *)
MCKinds == {Kind(1, Selected, TRUE), Kind(2, Folder, FALSE), Kind(3, Rest, FALSE)}
================================================================================
