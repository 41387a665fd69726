SPECIFICATION FairSpec
CONSTANTS
  pa = pa
  pb = pb
  pc = pc
  pd = pd
  pe = pe
  source = source
  pumpA = pumpA
  pumpB = pumpB
  readD = readD
  readE = readE
  NoPipe = NoPipe
  NoThread = NoThread
  Pipes = {pa, pb, pd, pe}
  Threads = {source, pumpA, pumpB, readD, readE}
  Source = pa
  Tree <- TreeStream
  SizeMax <- SizeOne
  Blocking = {pa, pb, pd, pe}
  Calls <- CallsDeliver
  NumParticles = 2
PROPERTIES
  Delivered
  EndArrives
