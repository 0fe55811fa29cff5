SPECIFICATION Spec
CONSTANTS
  seed = seed r1 = r1 r2 = r2 r3 = r3 r4 = r4 k1 = k1 circuit = circuit part = part
  None = None
  Req = {seed, r1, r2, r3}
  Seed = seed
  Kinds = {"propose", "commit", "retry"}
  Keys = {}
  Reps = {circuit}
  Circuit = circuit
  RegenerateSets <- OnlyCircuit
  Verdicts = {"ready", "build_incomplete"}
  Interrupts = FALSE
PROPERTY RepresentationsAdvance
CHECK_DEADLOCK FALSE
