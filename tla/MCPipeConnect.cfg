SPECIFICATION FairSpec
CONSTANTS
  pa = pa
  pb = pb
  pc = pc
  pd = pd
  pe = pe
  source = source
  pumpA = pumpA
  pumpB = pumpB
  readD = readD
  readE = readE
  NoPipe = NoPipe
  NoThread = NoThread
  Pipes = {pa, pb, pc, pd}
  Threads = {source, pumpA, pumpB}
  Source = pa
  Tree <- TreePair
  SizeMax <- SizeOne
  Blocking = {pa, pb, pc, pd}
  Calls <- CallsConnect
  NumParticles = 2
INVARIANTS
  ListsLive
  LinksAgree
  UpToOneParent
  CirclesAreLeavers
PROPERTIES
  DestroyEnds
CHECK_DEADLOCK FALSE
