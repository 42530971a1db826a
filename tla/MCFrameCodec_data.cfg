CONSTANTS
  MaxPayload = 4000
  Address = 1
SPECIFICATION Spec
INVARIANT RoundTripData
