SPECIFICATION PipelineSpec
CONSTANTS
  c1 = c1
  c2 = c2
  r1 = r1
  Cpu = Cpu
  None = None
  GPUs <- ThreeGPUs
  VendorOf <- Vendors
  Setups <- SharedTensor
  Faults <- NoFault
  MaxPasses = 3
INVARIANTS
  ArenaAgrees
CHECK_DEADLOCK FALSE
