\* Two graphs, of two benchmarks, whose totals are taken differently, with two
\* lines each.
CONSTANTS
  RUN_COUNT = 4
  DISCARDED_RUNS_COUNT = 2
  POINTS = 2
  SHIMS = 2
  BLUEPRINTS = 1
  BENCHMARKS <- Two
  Samples <- ThreeSamples
  NaNColors = {0, 255}
SPECIFICATION Spec
INVARIANTS
  OutliersDiscarded
  VisiblePlotsFit
  HeatmapRanks
PROPERTIES
  TogglesOnePlot
