SPECIFICATION Spec
CONSTANTS
  pa = pa
  pb = pb
  pc = pc
  pd = pd
  pe = pe
  source = source
  pumpA = pumpA
  pumpB = pumpB
  readD = readD
  readE = readE
  NoPipe = NoPipe
  NoThread = NoThread
  Pipes = {pa, pb}
  Threads = {pumpA, pumpB}
  Source = pa
  Tree <- TreePair
  SizeMax <- SizeOne
  Blocking = {pa, pb}
  Calls <- CallsLeave
  NumParticles = 1
INVARIANTS
  NoCircularWait
