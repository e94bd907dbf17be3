-------------------------- MODULE MCTelemetryPipeline --------------------------
EXTENDS TelemetryPipeline, TLC

\* Workers that vanish for good are interchangeable.
Symmetry == Permutations(Workers \ Lasting)
=============================================================================
