CONSTANTS
  Handler = {h1, h2}
  Bot = bot
  Person = {a, b}
  UserId = {"u1", "u2", "u3"}
  None = None
  Stored <- Tables
  CodeTTL = 1
  Cooldown = 1
  MaxAttempts = 2
  MaxCodes = 2
  MaxClock = 2
  ProofWindow = 1
  Link = {"l1", "l2"}
SPECIFICATION Spec
CONSTRAINT Separately
SYMMETRY Symmetry
INVARIANTS OnlyTheOwnerSignsIn PasswordIsTheOwners GuessesBounded
CHECK_DEADLOCK FALSE
