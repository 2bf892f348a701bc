SPECIFICATION Spec
CONSTANT Programs = {"race"}
CONSTANT Leftovers = {}
CONSTANT MaxSigints = 1
PROPERTY RunShStops
CHECK_DEADLOCK FALSE
