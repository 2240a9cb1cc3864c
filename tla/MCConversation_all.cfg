SPECIFICATION Spec
CONSTANTS
  Nil = Nil
  Upstreams <- MCProtocols
  Talks <- MCTalks
INVARIANTS NothingIsLost RewriteReaches CallsStayPaired TranslationIsAccepted
CHECK_DEADLOCK FALSE
