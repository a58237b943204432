SPECIFICATION Spec
CONSTANTS
  Code <- MCCode
  Conversations <- MCConversations
  Values <- MCValues
  Instances <- MCInstances
  LaxDecoders <- MCLaxDecoders
  MaxLength = 105
INVARIANTS
  WithinPayload
  DecodedWasEncoded
  LengthsAgree
  HeaderAsGiven
