SPECIFICATION FairSpec
CONSTANTS
  seed = seed r1 = r1 r2 = r2 r3 = r3 r4 = r4 k1 = k1 circuit = circuit part = part
  None = None
  Req = {r1, r2, r3}
  Seed = None
  Kinds = {"create", "propose", "commit", "cancel", "modify", "retry", "report", "read"}
  Keys = {k1}
  Reps = {circuit}
  Circuit = circuit
  RegenerateSets <- OnlyCircuit
  Verdicts = {"ready", "build_incomplete"}
  Interrupts = TRUE
INVARIANTS TypeOK RepresentationsOfTheirRevision
PROPERTY EveryRequestCloses
CHECK_DEADLOCK FALSE
