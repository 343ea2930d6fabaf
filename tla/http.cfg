SPECIFICATION Spec
CONSTANTS
  Messages <- SmallMessages
  BuffSize = 6
  Clients = {a, b}
  Conns = {k1, k2}
  MaxRequest = 2
  MaxSize = 1
  MaxAliveTime = 1
  Now = 2
  Nobody = Nobody
  BaseSizes = {1, 2}
  GroupBits = 1
  Width = 4
  Ints <- SmallInts
  MaxString = 1
  MaxCapacity = 4
INVARIANTS
  UriIsGrammar UriPartsExact RequestIsGrammar RequestCallsExact ResponseIsGrammar ResponseCallsExact
  BodyIsExact PoolOneOwner PoolAnswersOwn ArrayCursorExact ArrayReadsBack
CHECK_DEADLOCK FALSE
