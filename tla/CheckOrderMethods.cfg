SPECIFICATION Spec
CONSTANTS
  a = a
  b = b
  c = c
  d = d
  e = e
  Fn = {a, b}
  NoFn = NoFn
  Bodied = {a, b}
  Methods = {a, b}
  Enclosing <- FlatEnclosing
INVARIANTS MutualRecursionTogether
