SPECIFICATION Spec
CONSTANTS
  Oids = {o1}
  DeleteRows = {o1}
  MaxCid = 5
  MaxNest = 1
  AllowMixed = FALSE
  LateFailures = {"postgres"}
INVARIANTS
  
  
  NothingOutlivesTheTransaction
