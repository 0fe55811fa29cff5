SPECIFICATION Spec
CONSTANTS
  seed = seed r1 = r1 r2 = r2 r3 = r3 r4 = r4 k1 = k1 circuit = circuit part = part
  None = None
  Req = {seed, r1, r2, r3, r4}
  Seed = seed
  Kinds = {"propose", "commit", "undo", "modify", "cancel", "analyze", "apply", "discard"}
  Keys = {k1}
  Reps = {circuit, part}
  Circuit = circuit
  RegenerateSets <- OnlyPart
  Verdicts = {"ready", "build_incomplete"}
  Interrupts = TRUE
SYMMETRY Symmetry
INVARIANTS LinearHistory AppliedToItsBase UndoFollowsModification OncePerOperation AnswersAreDurable LockIsReleased
PROPERTY RefinesRevisionLog
CHECK_DEADLOCK FALSE
