CONSTANTS
  p1 = p1
  p2 = p2
  r1 = r1
  r2 = r2
  static = static
  streaming = streaming
  NoTopic = NoTopic
  NoModel = NoModel
  NoPod = NoPod
  Pods = {p1, p2}
  Layouts = {"3x1", "6x1"}
  Requests = {r1, r2}
  UnknownCount = {r1}
  Models = {static, streaming}
  StaticPrimary = {static}
  NullableCount = {static}
SYMMETRY PodSymmetry
SPECIFICATION Spec
CHECK_DEADLOCK FALSE
INVARIANTS
  RequestsSeeAWholeApp
  OwnedResourcesAreReleased
  ServesOnItsLayout
  ConcurrentCreatesAreTolerated
PROPERTY
  AHandlerSeesOneApp
