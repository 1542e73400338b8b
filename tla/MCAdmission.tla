--------------------------- MODULE MCAdmission ---------------------------
\* Instances of Admission for TLC.
EXTENDS Admission

CONSTANT Other   \* the request, if any, of a second user

Owners == [r \in Requests |-> IF r = Other THEN "v" ELSE "u"]
============================================================================
