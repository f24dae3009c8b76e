SPECIFICATION Spec
CONSTANTS
  a = a
  b = b
  Chars <- MCChars
  Blank = Blank
  Junk = Junk
  Calls <- MCCalls
INVARIANTS
  OptionsArrive
  PathsAgree
  IndeterminateStaysOut
  ThreadsInRange
  NothingButEchoAndStopsCut
  PageShowsWhatWasGenerated
  ReturnGivesAllBack
\* A call ends.
CHECK_DEADLOCK FALSE
