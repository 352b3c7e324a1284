\* Every chain of up to three middlewares between Logger and the handler of the
\* route.  A request ends.
CONSTANTS
  Chains <- MCChains
  None = None
SPECIFICATION Spec
INVARIANTS InOrder ServiceIsGuarded PanicIsContained Answered
PROPERTIES StoppedIsFinal
CHECK_DEADLOCK FALSE
