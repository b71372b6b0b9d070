SPECIFICATION MCSpec
CONSTANTS
  p1 = p1
  p2 = p2
  p3 = p3
  p4 = p4
  Pickups = {p1, p2, p3, p4}
  Warehouse = warehouse
  Delivery = delivery
  NoAlgorithm = none
  Span = 3
  Asked <- Lists
  Distances <- Lines
  Algorithms = {"nearest_neighbor", "tsp_2opt", "genetic"}
  Generations = 2
INVARIANTS VisitsAsked SettledFromTheEnd
PROPERTY Answers
CHECK_DEADLOCK FALSE
