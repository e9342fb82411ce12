SPECIFICATION Spec
CONSTANTS
  r1 = r1
  r2 = r2
  n1 = n1
  n2 = n2
  n3 = n3
  n4 = n4
  Null = Null
  Nodes <- MCNodes
  Roots = {r1, r2}
  Key <- MCKey
  Sought = {1, 2, 3, 4, 9}
  MaxDeletes = 0
INVARIANT SearchFinds
