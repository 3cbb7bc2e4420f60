CONSTANTS
  Handler = {h1, h2}
  Link = {l1}
  Grant = {g1, g2}
  None = None
  Scope = {"create"}
  Ceiling = {"create"}
  Limits <- LimitPairs
  Draft = {d1, d2}
  Total = {1, 2}
  MaxDay = 1
SPECIFICATION Spec
CONSTRAINT Separately
SYMMETRY Symmetry
INVARIANTS WithinLimits WhatTheCustomerSaw
PROPERTIES OnlyCustomerReleases
CHECK_DEADLOCK FALSE
