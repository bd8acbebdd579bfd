CONSTANTS
  c1 = c1
  g1 = g1
  a1 = a1
  a2 = a2
  Customers = {c1}
  Cards = {g1}
  Clerks = {a1, a2}
  Amounts = {1, 2}
  Programs <- MCPrograms
  MaxIn = 2
SYMMETRY Symmetry
CHECK_DEADLOCK FALSE
SPECIFICATION Spec
INVARIANT TypeOK
INVARIANT JournalTellsBalance
INVARIANT NothingIsOverdrawn
