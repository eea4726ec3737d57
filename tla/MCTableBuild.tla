--------------------------- MODULE MCTableBuild -----------------------------
(***************************************************************************)
(* Small instances of TableBuild: two match keys, three targets, up to     *)
(* four left and four right candidates in the first group, with runs of    *)
(* equal targets on both sides of every possible cut, and smaller groups   *)
(* after it so that the cursor carries over from group to group.           *)
(***************************************************************************)
EXTENDS TableBuild

MCMatchKeys == 2
MCTargets   == 0 .. 2
MCMetas     == 0 .. 4
MCTargetOf  == [x \in MCMetas |-> [m \in 0 .. 1 |-> (x + m) % 3]]
MCPairable  == {p \in MCMetas \X MCMetas : (p[1] + 2 * p[2]) % 5 # 4}

\* Section 0 has the given targets under key 0, section 3 the given metas.
TableOf(targets0, metas3) ==
  [i \in DOMAIN targets0 |-> [section |-> 0, key |-> 0,
                              target |-> targets0[i], meta |-> i % 5]]
  \o << [section |-> 1, key |-> 0, target |-> 1, meta |-> 0],
        [section |-> 2, key |-> 1, target |-> 2, meta |-> 3] >>
  \o [i \in DOMAIN metas3 |-> [section |-> 3, key |-> 1,
                               target |-> 1, meta |-> metas3[i]]]

Ascending(n) == {s \in [1 .. n -> MCTargets] :
                   \A i, j \in 1 .. n : i <= j => s[i] <= s[j]}

SmallTables == {TableOf(t, m) : t \in Ascending(3), m \in {<<0, 3, 1>>, <<1, 4, 2>>}}
WideTables  == {TableOf(t, m) : t \in Ascending(4), m \in {<<0, 3, 1, 4>>, <<2, 0, 3, 3>>}}
EmptyTable  == {<<>>}
MCTables    == SmallTables \cup WideTables \cup EmptyTable
=============================================================================
