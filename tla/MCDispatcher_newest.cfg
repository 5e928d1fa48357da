SPECIFICATION Spec
CONSTANTS
  m1 = m1
  m2 = m2
  m3 = m3
  other = other
  busy = busy
  quiet = quiet
  NoMsg = NoMsg
  Msg = {m1, m2, m3, other}
  Channel = {busy, quiet}
  ChannelOf <- MCChannelOf
  QueueSize = 1
INVARIANT PrefersNewest
