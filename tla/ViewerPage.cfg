SPECIFICATION MCSpec
CONSTANTS
  m = m
  f1 = f1
  f2 = f2
  g1 = g1
  g2 = g2
  d1 = d1
  d2 = d2
  Tab = {t1, t2}
  Section = {"kinds", "runtime"}
  Width = {"narrow", "wide"}
  Absent = Absent
  None = None
  Badge = Badge
  Unclustered = Unclustered
  Extraction = {g1, g2}
  Drop = {d1, d2}
  MaxTrail = 3
  NodesOf <- MCNodesOf
  EdgesOf <- MCEdgesOf
  KindOf <- MCKindOf
  MeasuredIn <- MCMeasuredIn
  CommunityIn <- MCCommunityIn
  Bundles <- MCBundles
  Queries <- MCQueries
INVARIANTS BoxesTell ColoursCurrent TrailSound TooltipFresh ViewKept
PROPERTIES WholeDropShown
