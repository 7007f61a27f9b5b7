SPECIFICATION GlobalsSpec
CONSTANTS
  Threads = {t1, t2}
  Configs = {c1, c2}
  Addresses = {a1, a2}
  NULL = NULL
  FREE = FREE
  Careful = FALSE
INVARIANT
  ParseReadsLiveString
