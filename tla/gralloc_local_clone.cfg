\* A client that imports a copy of a handle it has.
SPECIFICATION Spec
CONSTANTS
  Procs = {a, c}
  Allocators = {a}
  Handles = {h1, h2}
  Buffers = {b1, b2}
  Addrs = {x1, x2}
  None = None
  MaxRefs = 3
  MaxParcels = 1
SYMMETRY Symmetry
INVARIANTS LockedSeesBuffer
