----------------------------- MODULE MCPlotFiles -----------------------------
(***************************************************************************)
(* Files of three chunks, and an index that reaches the disk in two pieces *)
(* so that it can be found cut short.                                      *)
(***************************************************************************)
EXTENDS PlotFiles

BothFormats == {"plot", "group"}
OnlyGroup   == {"group"}
=============================================================================
