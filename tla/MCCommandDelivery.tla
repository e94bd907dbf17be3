--------------------------- MODULE MCCommandDelivery ---------------------------
EXTENDS CommandDelivery

\* Handlers of one kind are interchangeable.
Symmetry == Permutations(Claimers) \cup Permutations(Patchers)

\* told and reply only record what was sent: no action reads them and no property of
\* the delivery run mentions them.
View == <<nextId, status, stamps, robotOf, keyOf, deadline, rowLock, scanLock,
          handlers, faults, delivered, robotVars, prior>>
=============================================================================
