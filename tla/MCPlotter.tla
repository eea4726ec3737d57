------------------------------ MODULE MCPlotter ------------------------------
(***************************************************************************)
(* Small instances of PlotterRun: sections of two or three entries of at   *)
(* most three, as evenly filled as the sections of a plot are, groups that *)
(* fill the output to its very end or beyond it, sort results in either    *)
(* buffer, and a minor scratch that one of the sorts does not fit in.      *)
(***************************************************************************)
EXTENDS PlotterRun

\* k = 28, k = 22 or 24, and k = 20 or less, where the results of all sorts
\* are in the output place and have to be copied.
Passes28    == [t \in Tables |-> IF t < 3 THEN 3 ELSE 6]
Passes22    == [t \in Tables |-> IF t < 3 THEN 3 ELSE 5]
PassesSmall == [t \in Tables |-> IF t < 3 THEN 2 ELSE 4]

MCPassCounts == {Passes28, Passes22, PassesSmall}

\* A sink that takes everything, and one that refuses some match keys and
\* the sorts.
MCManners == {[keys |-> {}, sorts |-> FALSE], [keys |-> {1, 4, 5, 7}, sorts |-> TRUE]}
=============================================================================
