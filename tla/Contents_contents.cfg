\* Clients may be content with the entity as it is: nothing has to happen next.
CHECK_DEADLOCK FALSE
SPECIFICATION ContentsSpec
CONSTANTS
  User = User
  Kinds = {"product", "product-model", "category", "attribute-option", "asset"}
  SubEntities = {"attribute-option", "asset"}
  MaxDepth = 4
  MaxChanges = 3
  Payloads <- MCPayloads
  Filters <- MCFilters
  Expressions <- MCExpressions
INVARIANTS
  ContentsTypeOK
  ReplicaFollows
  FilteredFollows
  FilterMeans
  PatchMeans
