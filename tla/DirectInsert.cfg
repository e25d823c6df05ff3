SPECIFICATION Spec
CONSTANTS
  Servers = {s1}
  MaxVersion = 2
INVARIANTS
  NoDuckdbAcrossSavepoints
  NothingIsCarriedOver
  SecretsAreCurrent
PROPERTIES
  
  NativeWritesFitTheSchema
