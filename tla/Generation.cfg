SPECIFICATION FairSpec
CONSTANTS
  a = a
  EOS = EOS
  Unk = Unk
  Junk = Junk
  Tokens <- MCTokens
  Prompts <- MCPrompts
  Params <- MCParams
  MaxSampled = 9
INVARIANTS
  TypeOK
  WindowFits
  WindowIsKeptPrefixThenRecent
  PenaltyWindowIsTranscriptTail
  EndHasCause
PROPERTIES
  NoTokenAfterStop
  Returns
\* The bound MaxSampled, not the code, stops a call that nothing else stops.
CHECK_DEADLOCK FALSE
