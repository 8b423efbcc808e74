SPECIFICATION Spec
CONSTANTS
  Groups = {firm}
  Users = {ann, bob}
  Sessions = {s1, s2}
  None = None
  Amounts = {2}
  Costs = {0, 1, 2}
  Limits = {0, 3}
  MaxTopups = 1
  MaxEdits = 2
  MaxDays = 1
INVARIANTS BooksAgree
CHECK_DEADLOCK FALSE
