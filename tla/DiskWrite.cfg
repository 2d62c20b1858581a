CONSTANTS
  NCyl = 3
  Spot = {p1}
  Val = {v1, v2}
  Junk = Junk
  None = None
SPECIFICATION Spec
PROPERTIES BufferValidAfterWrite

