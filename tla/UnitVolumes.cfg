SPECIFICATION Spec
CONSTANTS
    ic = ic  sts = sts  pod = pod  mbk = mbk  pvc = pvc  pv = pv  sa = sa
    token = token  apod = apod  fpv = fpv  fpvc = fpvc
    main = main  aux = aux  foreign = foreign
    ByNamespace = ByNamespace  ByUser = ByUser  NoName = NoName
    KindOf <- MCKindOf
    NsOf <- MCNsOf
    OwnerOf <- MCOwnerOf
    Kept <- MCKept
    Guarded <- MCGuarded
    Holders <- MCHolders
    Ns = main
    Obj = {pod, pvc, pv, apod, fpvc, fpv, token}
    Namespace = {main, aux, foreign}
    Aux = aux
    MaxPolls = 2
    MaxFaults = 1
    MaxRuns = 1
INVARIANTS
    SetupStartsClean
    TeardownLeavesNothing
PROPERTIES
    PromiseKept
    WipeConfined
CHECK_DEADLOCK FALSE
