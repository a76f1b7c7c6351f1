SPECIFICATION EvalSpec
CONSTANTS
  Thread = {t1, t2}
  FuncSource = {"f1", "f2", "f3"}
  ExprSource = {"e1"}
  Sig = {"int", "bool"}
  ArgDescs = {"xy", "yx"}
  NoArgs = NoArgs
  Declared <- MCDeclared
  Broken <- MCBroken
  CacheSize = 2
  MaxEvals = 2
  Missing = Missing
  Nobody = Nobody
  NoFunc = NoFunc
INVARIANTS
  AnswersOwnRequest
  HitStaysCached
PROPERTIES
  EvalReturns
CHECK_DEADLOCK FALSE
