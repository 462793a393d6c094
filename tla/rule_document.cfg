CONSTANTS
  a = a
  b = b
  c = c
  large = large
  quote = quote
  text = text
  k1 = k1
  k2 = k2
  Rule = {a, b, c, large, quote}
  Quoting = {quote}
  IdOf <- Ranks
  SizeOf <- Sizes
  MaxRule = 4
  MaxBlock = 24
  Line = {text}
  Card = {k1, k2}
  LF = LF
  CRLF = CRLF
  CR = CR
  Start = Start
  End = End
  Heading = Heading
  MaxEdits = 2
  MaxWrites = 2
  Refused = Refused
  None = None
SYMMETRY Symmetric
CHECK_DEADLOCK FALSE
SPECIFICATION Spec
INVARIANTS TypeOK PlansRoundTrip RevokeUndoesDeploy BundleIsSequence
PROPERTIES OutsideKept ConfirmsWhatWasShown
