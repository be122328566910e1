\* One allocating process and a client; a parcel serves as a third copy.
SPECIFICATION Spec
CONSTANTS
  Procs = {a, c}
  Allocators = {a}
  Handles = {h1, h2}
  Buffers = {b1, b2}
  Addrs = {x1, x2}
  None = None
  MaxRefs = 3
  MaxParcels = 1
SYMMETRY Symmetry
INVARIANTS
  TypeOK
  OwnMappingStays
  CopyNeverFrees
  
\* Every step is one of the mappings and their users, or changes neither.
PROPERTY
  ImplementsLifetimes
