CONSTANTS
    Tasks = {t1, t2, t3, t4, t5, t6}
    Capacity = 4
    MaxReentrant = 2
    MaxPush = 4
    None = None
    Zero = Zero
    Overflow = Overflow
SYMMETRY Symmetry
SPECIFICATION Spec
INVARIANTS TypeOK Conserved ReserveFits
PROPERTIES OverflowsOnlyBeyondReserve ImplementsDeque
