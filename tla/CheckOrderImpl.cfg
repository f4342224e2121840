SPECIFICATION FairSpec
CONSTANTS
  a = a
  b = b
  c = c
  d = d
  e = e
  Fn = {a, b, c, d, e}
  NoFn = NoFn
  Bodied = {a, b, d, e}
  Methods = {a, c}
  Enclosing <- ImplEnclosing
PROPERTIES AllGeneralized
