SPECIFICATION Spec
CONSTANTS
  MaxPayload = 192
  MaxFrame = 250
  Inputs <- SomeInputs
  Noise <- SomeNoise
INVARIANTS RoundTrip PayloadReceived VerdictFromReceived TruncatedRefused
