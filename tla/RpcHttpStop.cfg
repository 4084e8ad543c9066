SPECIFICATION Spec
CONSTANTS
  k1 = k1
  k2 = k2
  k3 = k3
  h1 = h1
  Stream = {k1, k2, k3}
  Http = {h1}
  Mixes <- MCMixes
  Frames <- MCFrames
  MaxFrames <- MCMaxFrames
  HttpRequests <- MCHttpRequests
INVARIANT
  StopClosesAll
CHECK_DEADLOCK FALSE
