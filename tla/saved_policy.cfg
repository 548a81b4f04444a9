SPECIFICATION Spec
CONSTANTS
  c1 = c1
  c2 = c2
  w1 = w1
  w2 = w2
  Updates <- MCUpdatesOne
  Clients = {c1}
  Workers = {w1}
  Amounts = {100, 2500000}
  Configured = TRUE
PROPERTIES
  SavedPolicyDecides
