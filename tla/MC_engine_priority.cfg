SPECIFICATION BothSpec
CONSTANTS
  a = a
  b = b
  c = c
  d = d
  Ids = {a, b, c, d}
  Prices = {1, 2}
  Infinity = 9
  Quantities = {1, 2}
  MaxOrders = 4
  MaxReused = 3
SYMMETRY IdSymmetry
PROPERTIES PriceTimePriority
CHECK_DEADLOCK FALSE
