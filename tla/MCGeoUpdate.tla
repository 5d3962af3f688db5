---------------------------- MODULE MCGeoUpdate -----------------------------
(***************************************************************************)
(* An instance of GeoUpdate for TLC.                                       *)
(***************************************************************************)
EXTENDS GeoUpdate
=============================================================================
