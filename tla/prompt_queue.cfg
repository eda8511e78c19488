SPECIFICATION Spec
CONSTANTS
  u1 = u1
  u2 = u2
  alice = alice
  bob = bob
  UserPrompts = {u1, u2}
  Wakes = {w}
  PlanResumes = {s}
  Summaries = {s}
  Notes = {s}
  Interjections = {i}
  Clients = {alice, bob}
  OwnerOf <- Owners
  None = None
  MaxNotes = 1
  Rewritten = {u1}
  MaxVersion = 1
  MaxQueue = 2
CHECK_DEADLOCK FALSE
INVARIANTS
  TypeOK
  RunningIsFront
  RunningIsLive
  OneTurn
  NoIdleBacklog
  PinAgrees
  InterjectionNotStranded
  MirrorAtRest
  RewindPristine
PROPERTIES
  NoOvertaking
  WakesYield
  KeepsLedger
  UserPromptAnswered
  InterjectionLeaves
