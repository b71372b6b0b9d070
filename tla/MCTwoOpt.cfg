SPECIFICATION MCSpec
CONSTANTS
  p1 = p1
  p2 = p2
  p3 = p3
  p4 = p4
  Pickups = {p1, p2, p3, p4}
  Warehouse = warehouse
  Delivery = delivery
  NoAlgorithm = none
  Span = 3
  Asked <- Lists
  Distances <- Lines
  Algorithms = {"tsp_2opt"}
  Generations = 0
INVARIANT TwoOptNotLonger
CHECK_DEADLOCK FALSE
