\* An admitted document under which no attempt can be planned.
SPECIFICATION Spec
CONSTANTS
    Documents <- MCDocuments
    Profiles = {"production", "repo_local"}
    Table = Table
    Absent = Absent
INVARIANT
    AdmittedReconciles
CHECK_DEADLOCK FALSE
