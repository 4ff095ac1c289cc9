SPECIFICATION IdentitySpec
CONSTANTS
  SigningKey = {"old", "new"}
  Rogue = "rogue"
  NoKid = "none"
  ApiKey = {"k1"}
  Token <- MCIdToken
  IdRequest = {r1}
  CacheTTL = 1
  MaxIdTime = 2
INVARIANTS RotationHonoured
