SPECIFICATION Spec
CONSTANTS
  Users = {u1}
  Requests = {r1, r2}
  Rpcs = {x1, x2}
  MaxRpc = 2
  MaxNonces = 3
  MaxPayers = 2
INVARIANTS TypeOK SignatureSpent NonceKept PayerUsable RpcsBounded
