SPECIFICATION Spec
CONSTANTS
    Node = {n1, n2, n3, n4, n5, n6, n7}
    MaxKey = 2
    Capacity = 6
SYMMETRY Symmetry
INVARIANTS
    TypeOK
    HeapOrder
    GoalReached
PROPERTIES
    ImplementsPriorityQueue
