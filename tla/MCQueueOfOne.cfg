\* A queue of one: the second push finds the number it takes for a free cell.
SPECIFICATION Spec
CONSTANTS
    Producers = {"p1", "p2"}
    Consumers = {"c1"}
    Capacity = 1
    NPush = 2
    Timed = TRUE
INVARIANTS
    EndsInOrder
CHECK_DEADLOCK FALSE
