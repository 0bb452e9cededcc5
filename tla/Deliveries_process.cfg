SPECIFICATION FairSpec
CONSTANTS
  c = c
  i = i
  Nobody = Nobody
  Deliveries = {c, i}
  Kind <- CommandAndEdit
  Rank <- EditFirst
  Slots = 1
  MaxVersion = 1
  MaxDisturbances = 2
INVARIANTS ReceiptedIdle
PROPERTIES ServesInbox Processed
