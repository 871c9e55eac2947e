SPECIFICATION FairSpec
CONSTANTS
  Artifacts = {a1, a2}
  Callers = {c1, c2}
  Workers = {w1}
  Broken = {a2}
  BatchLimit = 2
  MaxFaults = 2
  NoArtifact = NoArtifact
INVARIANTS TypeOK OneDownload OutcomeKept
PROPERTIES ClosedStaysClosed ObjectsDeletedUnlessCrash CleanupCompletes
