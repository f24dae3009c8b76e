SPECIFICATION Spec
CONSTANTS
  a = a
  EOS = EOS
  Unk = Unk
  Junk = Junk
  Tokens <- MCTokens
  Prompts <- MCLongPrompts
  Params <- MCLongParams
  MaxSampled = 8
INVARIANT
  SwapMakesRoom
