SPECIFICATION Spec
CONSTANTS
    j1 = j1
    j2 = j2
    Jobs = {j1, j2}
    NoJob = NoJob
    Workers = {"w1", "w2"}
    Content <- OneImage
    Artifacts = {"mesh"}
    Deployments <- AnyDeployment
INVARIANTS TypeOK ColumnsAgree RowsReferToWholeObjects SucceededLeavesNoOrphan
PROPERTIES FilesLeftOnlyByFetchOrDeath
CHECK_DEADLOCK FALSE
