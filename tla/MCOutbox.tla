----------------------------- MODULE MCOutbox -----------------------------
\* Instances of Outbox for TLC.
EXTENDS Outbox

\* Jobs are created in some order, and are alike otherwise.
InOrder == CHOOSE place \in [Jobs -> 1..Cardinality(Jobs)] : IsInjective(place)

\* The broker's refusals cannot outlast the retries of all events.
ASSUME MaxRefusals < MaxRetries * Cardinality(Events)
============================================================================
