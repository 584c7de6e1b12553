CONSTANTS
  Bot = Bot
  Nobody = Nobody
  NoConv = NoConv
  NoMsg = NoMsg
  Conversations = {c1, c2}
  Messages = {m1, m2}
  Agents = {ann}
  Gone = {zed}
  Handlers = {h1, h2}
  MaxChats <- OneChat
  Named = {zed}
  MaxCalls = 4
  People = {c1, c2, p3}
  NoCustomer = NoCustomer
  Erased = Erased
  Arriving = {"conversation", "message", "attachment", "call", "recording"}
  Erasers = {h1, h2}
  MaxAsked = 5
  MaxErasures = 2
  MaxWrites = 4
SPECIFICATION AllSpec
SYMMETRY Symmetry
INVARIANT NoneIsLost
CHECK_DEADLOCK FALSE
