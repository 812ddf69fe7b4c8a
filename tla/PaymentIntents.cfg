CONSTANTS
  card = card
  transfer = transfer
  Intents = {card, transfer}
  Slips = {transfer}
  Events = {e1, e2}
  IntentOf <- MCIntentOf
  Handlers = {h1, h2}
  Admins = {a1, a2}
  NoSlip = NoSlip
  MaxFaults = 1
SPECIFICATION FairSpec
INVARIANTS CompletedIsCredited ClaimIsOwned
PROPERTIES OutcomeIsFinal PaidIsCredited
