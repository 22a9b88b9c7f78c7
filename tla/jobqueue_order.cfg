SPECIFICATION FairSpec
CONSTANTS
  j1 = j1  j2 = j2  j3 = j3  j4 = j4
  Job = {j1, j2, j3, j4}
  Func = {"f", "g"}
  Value = {"a", "b"}
  Hash = {"x", "y"}
  FuncOf <- MCFuncOf
  ValueOf <- MCValueOf
  HashOf <- MCHashOf
  AnyFunc = AnyFunc
  Nil = Nil
  PrioArg = {0, 1, 2}
  MaxDo <- AnyNumber
  Results <- InOrder
  JobCalls = {"insert", "remove", "clear"}
  CallbackCalls = {}
  MaxNest = 1
  Obliging = TRUE
INVARIANTS Sorted
PROPERTIES RoundRobin ClearLeavesNone
CHECK_DEADLOCK FALSE
