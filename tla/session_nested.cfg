CONSTANTS
  Server = Server  Client = Client  Nobody = Nobody
  Mains <- NestedMains
  Scenes <- NestedScene
  Msgs <- NestedMsgs
  To <- NestedTo
  HandlerOf <- NestedHandlerOf
  Handlers <- NestedMsgs
  Registration <- NestedRegistrations
  Coroutines <- NestedCoroutines
  Body <- NestedBodies
  Ready = "ready"
SPECIFICATION Spec
INVARIANTS NoSelfWait
CHECK_DEADLOCK FALSE
