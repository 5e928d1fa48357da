SPECIFICATION IntakeSpec
CONSTANTS
  m1 = m1
  m2 = m2
  m3 = m3
  m4 = m4
  other = other
  guild = guild
  readable = readable
  unreadable = unreadable
  human = human
  self = self
  none = none
  NoMsg = NoMsg
  Msg = {m1, m2, m3, other}
  Channel <- MCChannel
  ChannelOf <- MCChannelOf
  QueueSize = 2
  Incoming <- MCIncoming
  GuildID = guild
  ReadChannelIDs = {readable}
  ExcludedChannelIDs = {}
  AllowedBotUserIDs = {}
  Blank = none
  MessageID <- MCMessageID
  MinLimit = 1
  Margin = 1
  MaxLimit = 2
INVARIANT AllowedArePassed
