SPECIFICATION Spec
CONSTANTS
  Vals = {c, x, y}
  Users = {x, y}
  Uses = {i1, i2, i3}
  Variables = {p}
INVARIANTS
  ChainsAgree
  UsersAreCounted
PROPERTY
  ListsAreSeen
