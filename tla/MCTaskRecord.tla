---------------------------- MODULE MCTaskRecord ----------------------------
\* An instance of TaskRecord for TLC.
EXTENDS TaskRecord

CONSTANTS j1, j2

\* Two uploads of one image.
OneImage == [j \in Jobs |-> "face"]

Deploy(backend, mode, overtaking, workers, uploads) ==
    [backend |-> backend, mode |-> mode, overtaking |-> overtaking,
     workers |-> workers, uploads |-> uploads]

\* Both backends and all modes, default and overtaking time limits: one worker and
\* two jobs, or two workers that receive the same job.
AnyDeployment ==
    { Deploy("local", "faceverse_v4", FALSE, {"w1"}, {j1, j2}),
      Deploy("local", "mock", TRUE, {"w1"}, {j1, j2}),
      Deploy("s3", "unsupported", FALSE, {"w1"}, {j1, j2}),
      Deploy("local", "mock", FALSE, {"w1", "w2"}, {j1}),
      Deploy("s3", "mock", TRUE, {"w1", "w2"}, {j1}) }
=============================================================================
