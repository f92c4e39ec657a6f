CONSTANTS
  Keys = {key}
  GrantOf <- MCGrantOf
  Strategies = {"alpha", "beta"}
  Clients = {caller}
  MaxKeys = 3
  MaxRotations = 1
  MaxCrashes = 1
  MaxExtras = 1
SPECIFICATION CredentialsSpec
INVARIANT CredentialsTypeOK
INVARIANT KeysNeverLost
INVARIANT MigratedTokensWork
PROPERTY OnlyDocumentedAccess
PROPERTY AccessComesBack
