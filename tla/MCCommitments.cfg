SPECIFICATION Spec
CONSTANTS
  ok = ok
  err = err
  None = None
  Results = {ok, err}
  MaxTxs = 2
  MaxHeight = 4
  MaxQueryRange = 2
  MaxUint64 = 15
SYMMETRY ResultSymmetry
INVARIANTS
  TypeOK
  CommitmentsAreTheChains
  
