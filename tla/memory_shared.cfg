SPECIFICATION Spec
CONSTANTS
  Stores = {"a", "b", "c"}
  Diagnoses <- FourDiagnoses
  StoreOf <- SharedInOne
  Limit = 2
  Stamps = {1, 2}
INVARIANTS
  TypeOK
  SavedIsDurable
  StrayRowHasCarrier
PROPERTY
  PastIsTold
