SPECIFICATION FairSpec
CONSTANTS
  a = a
  b = b
  c = c
  d = d
  e = e
  Fn = {a, b, c, d}
  NoFn = NoFn
  Bodied = {a, b, c, d}
  Methods = {}
  Enclosing <- SiblingEnclosing
INVARIANTS IInv BookkeepingAgrees CalleesFirst
PROPERTIES KeepsPromise EnclosingInContext
