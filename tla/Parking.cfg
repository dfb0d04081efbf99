SPECIFICATION FairSpec
CONSTANT Wakers = {w1, w2, w3, w4}
INVARIANTS WakeDelivered ParkerOutlivesStore
PROPERTY ParkReturns
