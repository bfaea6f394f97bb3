------------------------------ MODULE MCCatalog ------------------------------
(* Catalog with one seat and short topics. *)
EXTENDS Catalog
=============================================================================
