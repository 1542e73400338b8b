--------------------------- MODULE MCApiSessions ---------------------------
\* Instances of ApiSessions for TLC.
EXTENDS ApiSessions

CONSTANTS u1, u2, u3, p1, l1, k1   \* the requests; a run leaves some out

\* Two processes.  The new device sends an upload of two megabytes and a small one to
\* the one and one that is too large to the other; the default device, new as well, asks
\* for its profile and for its results.
Process2 == [r \in Requests |-> IF r \in {u1, u2, l1} THEN "A" ELSE "B"]
Device2 == [r \in Requests |-> CASE r \in {u1, u2, u3} -> "new"
                                 [] r \in {p1, l1} -> "default"
                                 [] OTHER -> "known"]
Kind2 == [r \in Requests |-> CASE r = p1 -> "profile" [] r = l1 -> "list" [] OTHER -> "upload"]
Size2 == [r \in Requests |-> CASE r = u1 -> 2 [] r = u3 -> 4 [] OTHER -> 1]

\* One process: two uploads of a new device, and another user's question about a job.
Process1 == [r \in Requests |-> "A"]
Device1 == [r \in Requests |-> IF r = k1 THEN "known" ELSE "new"]
Kind1 == [r \in Requests |-> IF r = k1 THEN "other" ELSE "upload"]
============================================================================
