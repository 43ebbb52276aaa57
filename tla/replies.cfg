SPECIFICATION Spec
CONSTANTS
    None = None
    Words <- AnyWord
    Things <- TheThings
    Neighbour <- TheNeighbour
    MaxDamage = 2
INVARIANTS TypeOK DamageStaysLocal SuppliesPaired WorstReasonTold ProgressSensible
CHECK_DEADLOCK FALSE
