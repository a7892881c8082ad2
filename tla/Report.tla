------------------------------- MODULE Report -------------------------------
(***************************************************************************)
(* html_out(): one graph per benchmark and blueprint, with a line per shim *)
(* and a checkbox that hides it, then a heatmap with a row per graph and a *)
(* column per shim.  It starts when main() has filled every cell of        *)
(* results().                                                              *)
(*                                                                         *)
(* An average is represented by its sum: all are divided by the same       *)
(* RUN_COUNT - DISCARDED_RUNS_COUNT.  Layout and wording are left out.     *)
(*                                                                         *)
(* A definition named Fault_... is a broken variant of the one it stands   *)
(* before; only the mutation checks use it.                                *)
(***************************************************************************)
EXTENDS Integers, SequencesExt, FiniteSetsExt, TLC

CONSTANTS RUN_COUNT, DISCARDED_RUNS_COUNT,
          POINTS,       \* KEY_COUNT / KEY_COUNT_MEASUREMENT_INTERVAL
          SHIMS, BLUEPRINTS,   \* numbers of occupied slots
          BENCHMARKS,   \* the enabled benchmarks, in the order of the #ifdefs
          Samples,      \* what the runs may have measured at one point
          NaNColors     \* what converting a NaN to uint8_t may yield

ASSUME ReportAssumption ==
  /\ RUN_COUNT \in Nat /\ DISCARDED_RUNS_COUNT \in 0 .. RUN_COUNT - 1
  /\ DISCARDED_RUNS_COUNT % 2 = 0
  /\ POINTS \in Nat \ {0} /\ SHIMS \in Nat \ {0} /\ BLUEPRINTS \in Nat \ {0}
  /\ BENCHMARKS \in Seq(STRING)
  /\ Samples \subseteq [1 .. RUN_COUNT -> Nat] /\ NaNColors \subseteq 0 .. 255

Shims == 1 .. SHIMS
GraphCount == Len(BENCHMARKS) * BLUEPRINTS

\* The n-th call of graph_out(), and of heatmap_row_out().
Graph(n) == <<BENCHMARKS[n \div BLUEPRINTS + 1], (n % BLUEPRINTS) + 1>>
Graphs == {Graph(n) : n \in 0 .. GraphCount - 1}
Plots == Graphs \X Shims

VARIABLES results,             \* results[plot][point]: a duration per run
          out, at,             \* "graphs", "heatmap" or "view"; the next graph
          plot_id, plot_id_counter,
          rules,               \* of a graph: the plots whose scaling rules its
                               \* style sheet lists, in that order
          cells,               \* the heatmap: color and number of each plot
          checked              \* the viewer's checkboxes

vars == <<results, out, at, plot_id, plot_id_counter, rules, cells, checked>>

-----------------------------------------------------------------------------
\* std::sort: the n-th of the sorted durations has fewer than n below it, and
\* n of them are not above it.
Sorted(durations) ==
  [n \in 1 .. RUN_COUNT |->
     CHOOSE d \in Range(durations) :
       /\ Cardinality({r \in 1 .. RUN_COUNT : durations[r] < d}) < n
       /\ Cardinality({r \in 1 .. RUN_COUNT : durations[r] <= d}) >= n]

\* std::accumulate.
Accumulated(seq) ==
  LET sum[n \in 0 .. Len(seq)] == IF n = 0 THEN 0 ELSE sum[n - 1] + seq[n]
  IN  sum[Len(seq)]

Trim == DISCARDED_RUNS_COUNT \div 2

Fault_KeptHighest(sorted) ==
  SubSeq(sorted, DISCARDED_RUNS_COUNT + 1, RUN_COUNT)
Kept(sorted) == SubSeq(sorted, Trim + 1, RUN_COUNT - Trim)

adjusted_average_result(plot, point) ==
  Accumulated(Kept(Sorted(results[plot][point])))

Averages(plot) == {adjusted_average_result(plot, p) : p \in 0 .. POINTS - 1}

max_adjusted_average_result(plot) == Max(Averages(plot) \cup {0})

total_adjusted_average_result(plot) ==
  IF plot[1][1] \in {"insert_nonexisting", "reinsert_after_erasure"}
  THEN adjusted_average_result(plot, POINTS - 1)
  ELSE Accumulated([n \in 1 .. POINTS |-> adjusted_average_result(plot, n - 1)])

-----------------------------------------------------------------------------
Init == /\ results \in [Plots -> [0 .. POINTS - 1 -> Samples]]
        /\ out = "graphs" /\ at = 0
        /\ plot_id = <<>> /\ plot_id_counter = 0
        /\ rules = <<>> /\ cells = <<>> /\ checked = Plots

\* std::sort by the largest average; the order of equal ones is open.
Fault_InSlotOrder(g) == {[s \in Shims |-> <<g, s>>]}
ScalingRules(g) ==
  {r \in [Shims -> {g} \X Shims] :
     /\ IsInjective(r)
     /\ \A s \in 1 .. SHIMS - 1 : max_adjusted_average_result(r[s])
                                    <= max_adjusted_average_result(r[s + 1])}

\* graph_shim_styling_out() is the first to ask for a plot's id, in the order
\* of the slots, and the id is kept.
Fault_IdOfSlot(s) == s - 1
NewId(s) == plot_id_counter + s - 1

Extend(f, g) == [x \in DOMAIN f \cup DOMAIN g |->
                   IF x \in DOMAIN g THEN g[x] ELSE f[x]]

graph_out ==
  /\ out = "graphs"
  /\ LET g == Graph(at)
     IN  /\ plot_id' = Extend(plot_id, [p \in {g} \X Shims |-> NewId(p[2])])
         /\ \E r \in ScalingRules(g) : rules' = Extend(rules, [x \in {g} |-> r])
  /\ plot_id_counter' = plot_id_counter + SHIMS
  /\ IF at + 1 < GraphCount THEN at' = at + 1 /\ UNCHANGED out
                            ELSE at' = 0 /\ out' = "heatmap"
  /\ UNCHANGED <<results, cells, checked>>

\* uint8_t color = std::min( ( t / lowest - 1.0 ) / 9.0, 1.0 ) * 255.  With
\* t = lowest = 0 it is the conversion of a NaN, which is undefined.
Fault_ColorUncapped(t, lowest) ==
  IF lowest = 0 THEN 255 ELSE (((t - lowest) * 255) \div (9 * lowest)) % 256
Color(t, lowest) ==
  IF lowest = 0 THEN 255 ELSE Min({((t - lowest) * 255) \div (9 * lowest), 255})

heatmap_row_out ==
  /\ out = "heatmap"
  /\ LET g == Graph(at)
         total == [s \in Shims |-> total_adjusted_average_result(<<g, s>>)]
         lowest_total == Min({total[s] : s \in Shims})
     IN  \E nan \in NaNColors :
           cells' = Extend(cells, [p \in {g} \X Shims |->
             [row    |-> at,
              color  |-> IF total[p[2]] = 0
                         THEN nan ELSE Color(total[p[2]], lowest_total),
              number |-> <<total[p[2]], lowest_total>>]])
  /\ IF at + 1 < GraphCount THEN at' = at + 1 /\ UNCHANGED out
                            ELSE at' = 0 /\ out' = "view"
  /\ UNCHANGED <<results, plot_id, plot_id_counter, rules, checked>>

\* The viewer of the document clicks on a label, which names a plot's id.
Toggle(plot) ==
  /\ out = "view"
  /\ LET same == {p \in Plots : plot_id[p] = plot_id[plot]}
     IN  checked' = IF plot \in checked THEN checked \ same
                                        ELSE checked \cup same
  /\ UNCHANGED <<results, out, at, plot_id, plot_id_counter, rules, cells>>

Next == graph_out \/ heatmap_row_out \/ \E plot \in Plots : Toggle(plot)

Spec == Init /\ [][Next]_vars
-----------------------------------------------------------------------------

\* "excluding the lowest and highest measurements", to reduce "the impact of
\* background noise" (config.h:15-20): runs that went wrong, half as many as
\* are discarded, do not move an average out of the range of the others,
\* whichever they are and whether they were slow or fast.
OutliersDiscarded ==
  \A plot \in Plots, p \in 0 .. POINTS - 1 :
    LET average == adjusted_average_result(plot, p)
        kept == RUN_COUNT - DISCARDED_RUNS_COUNT
    IN  \A wrong \in kSubset(Trim, 1 .. RUN_COUNT) :
          LET others == {results[plot][p][r] : r \in (1 .. RUN_COUNT) \ wrong}
          IN  average \in kept * Min(others) .. kept * Max(others)

\* Of the rules that match, a browser applies the last one: the one of the
\* checked plot that comes last in the list.
AppliedRule(g) ==
  rules[g][Max({s \in Shims : rules[g][s] \in checked})]

\* "necessary to determine graph scaling based on the visible plots"
\* (main.cpp:1500): whichever boxes are checked, each visible line fits into its
\* graph, and the highest one fills it.
VisiblePlotsFit ==
  out = "view" => \A g \in Graphs :
    LET visible == checked \cap ({g} \X Shims)
    IN  visible # {} => max_adjusted_average_result(AppliedRule(g)) =
                          Max(UNION {Averages(p) : p \in visible})

\* The heatmap shows how many times longer than the fastest of its row each
\* shim took: the fastest has the first color, and wherever two cells are, the
\* one with the smaller ratio is not darker.  Each row is that of one graph.
HeatmapRanks ==
  out = "view" => \A p, q \in Plots :
    /\ cells[p].row = cells[q].row <=> p[1] = q[1]
    /\ cells[p].number[2] > 0 /\ cells[q].number[2] > 0 =>
         /\ cells[p].number[1] = cells[p].number[2] => cells[p].color = 0
         /\ cells[p].number[1] * cells[q].number[2]
                <= cells[q].number[1] * cells[p].number[2]
              => cells[p].color <= cells[q].color

\* A checkbox hides the line of its own shim, in its own graph.
TogglesOnePlot ==
  [][\A plot \in Plots : Toggle(plot) =>
       \A p \in Plots \ {plot} : p \in checked' <=> p \in checked]_vars
=============================================================================
