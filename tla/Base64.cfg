\* Bytes with bits at either end; six of them are 48 bits in an int.
SPECIFICATION Base64Spec
CONSTANTS
  Bytes = {0, 1, 77, 128, 255}
  MaxLen = 6
INVARIANTS EncodeIsBase64 RoundTrip
