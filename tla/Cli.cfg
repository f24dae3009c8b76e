SPECIFICATION FairSpec
CONSTANTS
  b = b  u = u  v = v  x = x  nl = nl
  Chars <- MCChars
  UserMark <- MCUserMark
  AiMark <- MCAiMark
  Newline = nl
  Args <- MCArgs
  MaxLines = 2
INVARIANTS
  PromptIsExpanded
  InputsFreedOnce
PROPERTIES
  Ends
  ImplementsContext
\* The program ends.
CHECK_DEADLOCK FALSE
