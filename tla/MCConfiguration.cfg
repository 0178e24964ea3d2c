\* Every document of MCConfiguration under both profiles.  The admission of a
\* document ends, so the absence of a next step is no error.
SPECIFICATION Spec
CONSTANTS
    Documents <- MCDocuments
    Profiles = {"production", "repo_local"}
    Table = Table
    Absent = Absent
INVARIANTS ConfigurationIsFaithful AdmittedRuns
CHECK_DEADLOCK FALSE
