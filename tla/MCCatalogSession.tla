-------------------------- MODULE MCCatalogSession ---------------------------
(* CatalogSession for TLC. *)
EXTENDS CatalogSession
==============================================================================
