SPECIFICATION StartUpSpec
CONSTANTS
  a = a
  b = b
  Letter = {a, b}
  Star = star
  Name <- Names
  AllowList <- AllowLists
  DenyList <- DenyLists
  c1 = c1
  c2 = c2
  old = old
  ofFile = ofFile
  ofEnv = ofEnv
  Channel = {c1, c2}
  GuildID = guild
  Blank = blank
  Unset = unset
  Token = {old, ofFile, ofEnv}
  NoToken = none
  Written <- MCWritten
  Environment <- MCEnvironment
  Order <- MCOrder
  MaxEdits = 3
  MaxCrashes = 2
INVARIANTS VerdictIsRight AccessIsNested TokenIsSent InstructionsComplete
PROPERTIES LoopAdvances Decides MemoryIsKept
