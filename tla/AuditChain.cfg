SPECIFICATION Spec
CONSTANTS
  Appenders = {a1, a2, a3}
  SubjectOf <- Subject
  NoSubject = NoSubject
  EmptySubject = ""
  TimeOf <- Time
  Texts <- Spellings
  Millis <- Formatted
  Unparsable = Unparsable
  Hash <- PerfectHash
  Genesis <- GenesisHash
  Placeholder <- Pending
  Nobody = Nobody
  MaxOtherCommits = 2
INVARIANTS
  TypeOK
  ChainIntact
  AlterationsDetected
PROPERTIES
  ImplementsAtomicLog
CHECK_DEADLOCK FALSE
