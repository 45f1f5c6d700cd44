\* The same feeds, against the comment on rewriting magnets.
SPECIFICATION Spec
CONSTANTS
  a = a
  b = b
  base32 = base32
  Infohashes <- MCInfohashes
  Hex = {a, b}
  NoHash = NoHash
  NoBody = NoBody
  BadBody = BadBody
  Bodies <- MCBodies
  Upstreams = 2
INVARIANTS CarriesOwnInfohash
\* The feed has been served.
CHECK_DEADLOCK FALSE
