SPECIFICATION CFairSpec
CONSTANTS
  Nodes = {n1, n2, n3}
  Null = Null
  Mangled = Mangled
  a = a
  b = b
  Data = {a, b}
  Low = {a}
  Patterns <- ListPatterns
INVARIANTS
  TypeOK
  NeverWrong
  Linked
PROPERTIES
  ImplementsSequence
  SearchEnds
