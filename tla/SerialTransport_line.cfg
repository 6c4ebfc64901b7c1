\* Everything the line may do to the answers, with registers of both lengths
\* that are written and one that is read; up to two pieces of answers to
\* earlier calls are on their way when a call begins.
SPECIFICATION FairSpec
CONSTANTS
  Words = {"POS_ACT"}
  Bytes = {}
  Limits = {"FORCE_SET"}
  Values = {0, 1}
  OutOfRange = 2
  PieceCount <- Lengths
  Faults = {"lost", "late", "overdue", "send"}
  MaxBehind = 2
INVARIANTS
  TypeOK
  AnswerIsOwn
PROPERTIES
  Resynchronises
  LineSpec
