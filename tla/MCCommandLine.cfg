SPECIFICATION Program
CONSTANTS
  MetadataNames = {"x", "date", "enum", "array", "object"}
  Dates = {"2026-01-31"}
  Datetimes = {"2026-01-31T00:00"}
  References <- MCReferences
  HasUnsafeKey <- MCHasUnsafeKey
  Accepts <- MCAccepts
  UnsafeKeys = {"unsafe"}
  AnyLanguage = AnyLanguage
  Rejected <- MCRejected
  MaxTransforms = 1
  Invocations <- MCInvocations
CHECK_DEADLOCK FALSE
INVARIANTS
  VerdictIsItsOwn
  ExitCodeIsTrue
  AcceptedCanBeRead
  ValidatorsAgree
