CONSTANTS
  Keys <- AllKeys
  Hash <- Codes
  Kinds = {"dyn"}
  BUCKET_MIN <- TwoBuckets
  Callers <- Few
  Unset = Unset
  NoKey = NoKey
SPECIFICATION Spec
PROPERTY ScansSubsequentBuckets
