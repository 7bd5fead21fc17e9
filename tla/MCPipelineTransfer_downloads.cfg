SPECIFICATION PipelineSpec
CONSTANTS
  c1 = c1
  c2 = c2
  r1 = r1
  Cpu = Cpu
  None = None
  GPUs <- ThreeGPUs
  VendorOf <- Vendors
  Setups <- OwnTensors
  Faults <- Downloads
  MaxPasses = 3
INVARIANTS
  StageReadsItsInput
CHECK_DEADLOCK FALSE
