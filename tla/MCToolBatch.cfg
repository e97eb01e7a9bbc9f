SPECIFICATION FairSpec
CONSTANT NumCalls = 4
INVARIANTS SideEffectsInOrder OneLateStart NoPhantomSuccess
PROPERTIES ImplementsContract BatchReturns
CHECK_DEADLOCK FALSE
