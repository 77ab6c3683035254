CONSTANTS
  Server = Server  Client = Client  Nobody = Nobody
  Mains <- AllMains
  Scenes <- ThreeScenes
  Msgs <- AllMsgs
  To <- AllTo
  HandlerOf <- AllHandlerOf
  Handlers <- AllMsgs
  Registration <- AllRegistrations
  Coroutines <- AllCoroutines
  Body <- AllBodies
  Ready = "ready"
SPECIFICATION FairSpec
INVARIANTS TypeOK AnswersAreEarned NoSelfWait SessionInOrder NoEventLost IInv
PROPERTIES MainsEnd MainsSucceed ThreadsFreed
CHECK_DEADLOCK FALSE
