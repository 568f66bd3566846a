\* Four devices over up to three hosts, in every state, some of them full.
CONSTANTS
  Devs = {d1, d2, d3, d4}
  Hosts = {h1, h2, h3}
  Conditions = {"alive", "dead", "down", "readonly", "drain"}
  Mindevcounts = {1, 2, 3}
SYMMETRY Alike
SPECIFICATION Spec
INVARIANTS Spread NothingBetter
CHECK_DEADLOCK FALSE
