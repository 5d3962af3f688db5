----------------------------- MODULE MCExporter -----------------------------
(***************************************************************************)
(* An instance of Exporter for TLC.                                        *)
(***************************************************************************)
EXTENDS Exporter
=============================================================================
