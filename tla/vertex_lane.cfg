\* Tokens kept for four ticks and good for five or six, and a reply cut up in every way.
SPECIFICATION Spec
CONSTANTS
  chat = chat
  raw = raw
  Requests <- ChatAndRaw
  Streamed <- OnlyChat
  Wires <- SomeWires
  Ttl = 4
  Margin = 1
  MinLeft = 5
  MaxLeft = 6
  Delay = 1
INVARIANTS
  NoExpiredToken
  ItemsOfTheWire
