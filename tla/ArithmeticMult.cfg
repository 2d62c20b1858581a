CONSTANTS
 Half = 2
SPECIFICATION Spec
INVARIANTS ExactProduct
