SPECIFICATION FairSpec
CONSTANTS
  j1 = j1  j2 = j2  j3 = j3  j4 = j4
  Job = {j1, j2, j3, j4}
  Func = {"f", "g"}
  Value = {"a", "b"}
  Hash = {"x", "y"}
  FuncOf <- MCFuncOf
  ValueOf <- MCValueOf
  HashOf <- MCHashOf
  AnyFunc = AnyFunc
  Nil = Nil
  PrioArg = {0, 1, 3}
  MaxDo <- OneJob
  Results <- MCResults
  JobCalls = {"insert", "remove", "clear"}
  CallbackCalls = {"insert"}
  MaxNest = 1
  Obliging = TRUE
INVARIANTS TypeOK LinkedOnce TimerArmed
PROPERTIES EveryJobServed
CHECK_DEADLOCK FALSE
