SPECIFICATION FairSpec
CONSTANTS
    Events = {e1, e2, e3}
    None = None
INVARIANT TypeOK
PROPERTIES
    ImplementsAtMostOnce
    DeliveriesSettle
