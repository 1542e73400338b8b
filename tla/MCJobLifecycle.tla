-------------------------- MODULE MCJobLifecycle --------------------------
\* Instances of JobLifecycle for TLC.
EXTENDS JobLifecycle

\* One user and one image: the jobs compete for the active-job slot and for the
\* result.
OneUser == [j \in Jobs |-> "user"]
OneImage == [j \in Jobs |-> "image"]
============================================================================
