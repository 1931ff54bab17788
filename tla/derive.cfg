SPECIFICATION Spec
CONSTANTS
  MaxVariants = 2
  MaxAttributes = 2
  MaxFields = 1000
  UsizeMax = 2147483647
  Items <- AllItems
INVARIANTS DefaultIsTheMarked NamedForTheirPlace
CHECK_DEADLOCK FALSE
