SPECIFICATION MCSpec
CONSTANTS
  s1 = s1
  s2 = s2
  hello = hello
  HELLO = HELLO
  bye = bye
  greeting = greeting
  farewell = farewell
  Sender <- TwoSenders
  Channel = {c1}
  Content = {hello, HELLO, bye}
  Signature = {greeting, farewell}
  SignatureOf <- MCSignatureOf
  Window = 1
  Never = never
  LastTime = 4
  MaxSends = 4
  MaxLoops = 5
SYMMETRY Symmetry
INVARIANTS RememberedWasPosted RepeatsNeedOverlap NewestIsRemembered
  OthersAreStopped StopIsNewest
CHECK_DEADLOCK FALSE
