SPECIFICATION FairSpec
CONSTANTS
  k1 = k1
  k2 = k2
  k3 = k3
  h1 = h1
  Stream = {k1, k2, k3}
  Http = {h1}
  Mixes <- MCMixes
  Frames <- MCFrames
  MaxFrames <- MCMaxFrames
  HttpRequests <- MCHttpRequests
INVARIANTS
  OneReplyPerFrame
  AnswersDelivered
  NothingLeftBehind
  HttpOwnAnswers
PROPERTIES
  ServeCodecReturns
  HttpCallReturns
  CancelEndsBoth
CHECK_DEADLOCK FALSE
