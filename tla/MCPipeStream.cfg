SPECIFICATION Spec
CONSTANTS
  pa = pa
  pb = pb
  pc = pc
  pd = pd
  pe = pe
  source = source
  pumpA = pumpA
  pumpB = pumpB
  readD = readD
  readE = readE
  NoPipe = NoPipe
  NoThread = NoThread
  Pipes = {pa, pb, pd, pe}
  Threads = {source, pumpA, pumpB, readD, readE}
  Source = pa
  Tree <- TreeStream
  SizeMax <- SizeOne
  Blocking = {pa, pd, pe}
  Calls <- CallsStream
  NumParticles = 3
INVARIANTS
  QueueInv
PROPERTIES
  Streams
