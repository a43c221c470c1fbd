\* Every command, with and without SASL, memory and a client that stays or keeps to the rules; one
\* client after another on the same descriptor.
SPECIFICATION Spec
CONSTANTS
  Requests <- AnyRequest
  Word = 6
  None = None
  MaxRequests = 2
INVARIANTS
  InStep
  AnswersInTurn
  AuthenticatedOnly
  ItemHeld
PROPERTIES
  RequestsAnswered
