----------------------------- MODULE PlotterRun ------------------------------
(***************************************************************************)
(* Plotter::run seen by its progress sink (plot/Progress.hpp).  Every      *)
(* stage opens a ScopedEvent, which sends the begin event, and sends the   *)
(* end event when the scope is left, by whatever way: at the end of a      *)
(* block, at an early return or by an exception.  A begin event the sink   *)
(* refuses has no end event.                                               *)
(*                                                                         *)
(* The sink keeps what AtomicProgressSink keeps: three atomics, each of    *)
(* which another thread may load at any time.  on_event stores them one by *)
(* one in relaxed order and snapshot loads them one by one, so the order   *)
(* of the stores of one field is all a polling thread can rely on: a load  *)
(* may return what its field holds now or any value it held before, and    *)
(* the three loads of a poll may each belong to another moment.            *)
(*                                                                         *)
(* AtomicProgressSink never refuses; a sink behind on_event_proc may.      *)
(***************************************************************************)
EXTENDS Plotter

CONSTANTS
  AllocShare,   \* kAllocWeight, where a match key counts as one
  Manners       \* the sinks considered: which match keys (counted over a table)
                \* and which sorts they refuse, where run does not look

ASSUME RunAssumption ==
  /\ AllocShare \in Nat \ {0}
  /\ \A r \in Manners : r.keys \subseteq Nat /\ r.sorts \in BOOLEAN

VARIABLES
  refuses,    \* the manners of this run's sink
  scopes,     \* the scopes that are open, outermost first
  fraction,   \* fraction_, as stored last
  state,      \* state_
  shown,      \* table_id_
  past        \* history: the fields after each event so far

sink    == <<fraction, state, shown, past>>
runVars == <<vars, refuses, scopes, sink>>

TableShare == 4 * MatchKeys
Full       == AllocShare + 3 * TableShare
TableBase(t) == AllocShare + (IF t <= 1 THEN 0 ELSE (t - 1) * TableShare)
TableDone(t) == TableBase(t) + TableShare

\* Mutant of Processed: the count starts again with every section.
ProcessedHere == mk

\* processed_match_keys, which counts groups that are skipped as well.
Processed == walk * MatchKeys + mk

-----------------------------------------------------------------------------
\* A scope: its kind, the table and match key of its event, and whether the
\* sink refused it.
Scope(kind, refused) == [kind |-> kind, table |-> table, key |-> Processed, quiet |-> refused]

\* Mutant of Begun: a match key counts when it begins.
BegunEarly(s, c) ==
  CASE c.kind = "plot"  -> [s EXCEPT !.fraction = 0, !.state = "plotting"]
    [] c.kind = "alloc" -> [s EXCEPT !.state = "allocating"]
    [] c.kind = "table" -> [fraction |-> TableBase(c.table), state |-> "matching", shown |-> c.table]
    [] c.kind = "sort"  -> [s EXCEPT !.state = "postsort"]
    [] c.kind = "key"   -> [s EXCEPT !.fraction = TableBase(c.table) + c.key + 1]
    [] OTHER            -> s

\* What the fields hold when AtomicProgressSink::on_event has made its stores
\* for the begin event of a scope (it stores no field twice), ...
Begun(s, c) ==
  CASE c.kind = "plot"  -> [s EXCEPT !.fraction = 0, !.state = "plotting"]
    [] c.kind = "alloc" -> [s EXCEPT !.state = "allocating"]
    [] c.kind = "table" -> [fraction |-> TableBase(c.table), state |-> "matching", shown |-> c.table]
    [] c.kind = "sort"  -> [s EXCEPT !.state = "postsort"]
    [] OTHER            -> s

\* ... and for its end event.
Ended(s, c) ==
  IF c.quiet THEN s ELSE
  CASE c.kind = "plot"  -> [s EXCEPT !.fraction = Full, !.state = "finished"]
    [] c.kind = "table" -> [fraction |-> TableDone(c.table), state |-> "plotting", shown |-> c.table]
    [] c.kind = "sort"  -> [s EXCEPT !.fraction = TableDone(c.table), !.state = "plotting"]
    [] c.kind = "key"   -> [s EXCEPT !.fraction = TableBase(c.table) + c.key + 1]
    [] OTHER            -> s

\* The sink after the scopes of a list were entered, and after all but the
\* outer m of them were left, the innermost first.
Entering(s, list) ==
  LET at[i \in 0 .. Len(list)] == IF i = 0 THEN s ELSE Begun(at[i - 1], list[i])
  IN  at[Len(list)]

Leaving(s, list, m) ==
  LET at[i \in 0 .. Len(list)] == IF i = Len(list) THEN s ELSE Ended(at[i + 1], list[i + 1])
  IN  at[m]

\* What was stored last.
Latest == [fraction |-> fraction, state |-> state, shown |-> shown]

\* The fields after each event of a step that leaves all scopes but the outer
\* k, enters those of new, and leaves all but the outer n again.
Passed(k, new, n) ==
  LET left    == Leaving(Latest, scopes, k)
      open    == SubSeq(scopes, 1, k) \o new
      entered == Entering(left, new)
  IN  {Leaving(Latest, scopes, m) : m \in k .. Len(scopes)}
        \cup {Entering(left, SubSeq(new, 1, m)) : m \in 0 .. Len(new)}
        \cup {Leaving(entered, open, m) : m \in n .. Len(open)}

\* What a load of a field may return: one event stores a field at most once, so
\* the fields after the events are all that was ever stored.
Loads(field) == {v[field] : v \in past}

\* Such a step of the run.
Scoped(k, new, n) ==
  LET open == SubSeq(scopes, 1, k) \o new
      end  == Leaving(Entering(Leaving(Latest, scopes, k), new), open, n)
  IN  /\ scopes' = SubSeq(open, 1, n)
      /\ fraction' = end.fraction /\ state' = end.state /\ shown' = end.shown
      /\ past' = past \cup Passed(k, new, n)

Enter(new) == Scoped(Len(scopes), new, Len(scopes) + Len(new))
Leave(n)   == Scoped(n, <<>>, n)

\* Enter these scopes and stay in them, unless the step throws.
EnterOrThrow(new) ==
  Scoped(Len(scopes), new, IF phase' = "thrown" THEN 0 ELSE Len(scopes) + Len(new))

KeyScope  == Scope("key", Processed \in refuses.keys)
SortScope == Scope("sort", refuses.sorts)

-----------------------------------------------------------------------------
RunInit ==
  /\ Init
  /\ refuses \in Manners
  /\ scopes = <<>>
  /\ fraction = 0 /\ state = "idle" /\ shown = 0
  /\ past = {Latest}

RunBeginPlot ==
  /\ BeginPlot
  /\ IF phase' = "empty" THEN Scoped(0, <<Scope("plot", TRUE)>>, 0)
                         ELSE Enter(<<Scope("plot", FALSE)>>)

RunAllocate == Allocate /\ Scoped(1, <<Scope("alloc", pairs' = 0)>>, 1)

RunCancelTable == CancelTable /\ Scoped(1, <<Scope("table", TRUE)>>, 1)

RunGenerateXs ==
  /\ GenerateXs
  /\ IF phase' = "thrown" THEN Scoped(1, <<Scope("table", FALSE)>>, 0)
                          ELSE Enter(<<Scope("table", FALSE), SortScope>>)

RunBeginTable == BeginTable /\ EnterOrThrow(<<Scope("table", FALSE)>>)

RunBeginSection == BeginSection /\ Enter(<<Scope("section", FALSE)>>)

RunCancelSection == CancelSection /\ Scoped(2, <<Scope("section", TRUE)>>, 1)

RunSkipGroup == SkipGroup /\ Scoped(3, <<KeyScope>>, 3)

RunHashLeft == HashLeft /\ EnterOrThrow(<<KeyScope>>)

RunFindPairs == \E n \in 0 .. yield : FindPairs(n) /\ UNCHANGED <<scopes, sink>>

RunEndGroup == EndGroup /\ Leave(3)

\* The section's scope is left before the capacity is looked at; PostSortBegin
\* is sent when it sufficed.
RunEndSection ==
  /\ EndSection
  /\ CASE phase' = "section" -> Leave(2)
       [] phase' = "thrown"  -> Leave(0)
       [] phase' = "sort"    -> Scoped(2, <<SortScope>>, 3)

RunSort == Sort /\ Leave(1)

RunSortThrows == SortThrows /\ Leave(0)

RunPlace == Place /\ UNCHANGED <<scopes, sink>>

RunCopyOut == CopyOut /\ Leave(0)

RunStopped == Stopped /\ UNCHANGED <<scopes, sink>>

RunNext ==
  \/ RunBeginPlot \/ RunAllocate \/ RunCancelTable \/ RunGenerateXs
  \/ RunBeginTable \/ RunBeginSection \/ RunCancelSection
  \/ RunSkipGroup \/ RunHashLeft \/ RunFindPairs \/ RunEndGroup \/ RunEndSection
  \/ RunSort \/ RunSortThrows \/ RunPlace \/ RunCopyOut \/ RunStopped

RunStep == RunNext /\ UNCHANGED refuses

RunSpec == RunInit /\ [][RunStep]_runVars /\ WF_runVars(RunStep)

-----------------------------------------------------------------------------
States == {"idle", "plotting", "allocating", "matching", "postsort", "finished"}
Views  == [fraction : 0 .. Full, state : States, shown : Tables]

\* Type correctness, of the run and of its sink.
RunTypeOK ==
  /\ TypeOK /\ refuses \in Manners
  /\ Len(scopes) <= 4
  /\ \A i \in 1 .. Len(scopes) : scopes[i].kind \in {"plot", "table", "section", "key", "sort"}
  /\ Latest \in past /\ past \subseteq Views

Over == phase \in {"plotted", "thrown"}

\* The match keys of a table that are behind the run; mk is of the pair before
\* while a section is yet to begin.
KeysBehind == IF phase = "section" THEN walk * MatchKeys ELSE Processed

\* The most a bar may say: the match keys that are done.  The x values and
\* table 1 have the same share of the bar, so one may show the other's.
Reached ==
  IF Over THEN Full
  ELSE IF table > 1 /\ InTable THEN TableBase(table) + KeysBehind
  ELSE IF table > 1 /\ phase = "table" THEN TableBase(table)
  ELSE TableDone(table)

\* What no poll may show, whichever stores its loads return.
NeverAhead ==
  /\ \A f \in Loads("fraction") : f <= Reached
  /\ "finished" \in Loads("state") => Over
  /\ \A t \in Loads("shown") : t <= table

\* What a poll shows whose loads all return the last store of their field.
LatestTrue ==
  /\ InTable => state = "matching" /\ shown = table
  /\ phase = "sort" => state = "postsort" /\ shown = table
  /\ Over <=> state = "finished"
  /\ state = "finished" => fraction = Full
  /\ phase = "sorted" =>
       /\ shown = table
       /\ \/ state = "plotting" /\ fraction = TableDone(table)
          \/ state = "matching" /\ result = Empty      \* its TableBegin was refused

(***************************************************************************)
(* Polling while the run stores is safe.  A poll loads the fields one by   *)
(* one, between the stores of any events, and relaxed stores may reach it  *)
(* late: each load may return any store made so far.  Even so it does not  *)
(* name a table that is not yet in work, counts no match key that the step *)
(* being made does not complete, and says finished only when the run ends. *)
(* A poll whose loads all return the last store shows what the run is      *)
(* doing, whatever way the stage before was left: the table and "matching" *)
(* while its pairs are searched, "postsort" while it is sorted, "finished" *)
(* with a full bar when it is over, by an exception as well.               *)
(***************************************************************************)
SnapshotTrue == NeverAhead /\ LatestTrue

(***************************************************************************)
(* The bar never goes back, except where table 1 begins: the x values and  *)
(* table 1 have the same share of it.                                      *)
(***************************************************************************)
BarAdvances == [][fraction' < fraction => phase = "table" /\ table = 1]_fraction

=============================================================================
