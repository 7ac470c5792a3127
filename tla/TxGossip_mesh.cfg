SPECIFICATION Spec
CONSTANTS
  Nodes = {n1, n2, n3}
  Txs = {t1}
  Called = {n1}
  Running = {n1, n2}
  Prompt = TRUE
  MaxCrashes = 1
CHECK_DEADLOCK FALSE
INVARIANTS TypeOK OriginsAreThePath
PROPERTIES MeshCompletes TxReachesMesh
