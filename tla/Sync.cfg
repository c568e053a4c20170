CONSTANTS
  c1 = c1
  m1 = m1
  m2 = m2
  x2 = x2
  x1 = x1
  chief = chief
  aide = aide
  Clients = {c1}
  Mutations = {m1, m2}
  Entities = {x1, x2}
  ClientOf <- MCClientOf
  EntityOf <- MCEntityOf
  Versioned = {m1}
  Type <- MCType
  Pushes = {1, 2}
  Resolvers = {chief, aide}
  Resolutions <- MCResolutions
  Limit = 1
  MaxClock = 2
  MaxRetries = 1
  MaxPulls = 2
SPECIFICATION Spec
INVARIANTS TypeOK StaleRefused ConflictsCounted
PROPERTIES ImplementsOutbox EveryMutationSettles
CHECK_DEADLOCK FALSE
