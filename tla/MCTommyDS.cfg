CONSTANTS
  Keys <- AllKeys
  Hash <- Codes
  Kinds = {"dyn", "hash", "lin"}
  BUCKET_MIN <- TwoBuckets
  Callers <- FewAndMany
  Unset = Unset
  NoKey = NoKey
SPECIFICATION Spec
INVARIANTS
  TypeOK
  EveryKeyInItsBucket
  ReallocatedInTime
PROPERTIES
  ImplementsContract
