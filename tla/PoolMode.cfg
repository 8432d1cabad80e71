SPECIFICATION Spec
CONSTANTS
  a = a  b = b
  p1 = p1  p2 = p2
  Pools = {a, b}
  Procs = {p1, p2}
  Home = a
  First = p1
  MaxWork <- MCMaxWork
INVARIANTS TypeOK WasAssigned OneSearcher
PROPERTIES Stops KeepsGoing
