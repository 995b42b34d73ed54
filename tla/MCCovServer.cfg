SPECIFICATION Spec
CONSTANTS
  Nobody = Nobody
  Unknown = Unknown
  c1 = c1
  c2 = c2
  o1 = o1
  Clients = {c1, c2}
  Objects = {o1}
  Values = {0, 1}
  MaxSubs = 2
  MaxAddresses = 2
  MaxTsm = 3
  Timeout = 1000
  Retries = 1
  Lifetimes = {0, 1}
  Durations = {1}
  Elapsed = {1}
  Budgets <- SomeOfEach
SYMMETRY Symmetry
INVARIANTS TablesSound NothingForgotten IdsAccounted
PROPERTIES ImplementsCov
