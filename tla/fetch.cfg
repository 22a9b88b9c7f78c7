SPECIFICATION FairSpec
CONSTANTS
  page = page  image = image  A = A  B = B  t = t  w = w
  Loader = {page, image}
  Url = {A, B}
  Target = {t, w}
  Nil = Nil
  UrlsOf <- MCUrlsOf
  TargetsOf <- MCTargetsOf
  PrioOf <- MCPrioOf
  Pages = {page}
  Posts = {page}
  Texts = {page}
  Redirects <- MCRedirects
  Sockets = 1
  ConnRetry = 1
  Faults = {}
  PRIO_RECIVE = 2
  PRIO_SUCCESS = 3
  PRIO_LOADFILE = 4
  PRIO_FINISH = 5
INVARIANTS OneJob Owners
PROPERTIES EndsUnlessStarved
CHECK_DEADLOCK FALSE
