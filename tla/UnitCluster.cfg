SPECIFICATION LiveSpec
CONSTANTS
    ic = ic  sts = sts  pod = pod  mbk = mbk  pvc = pvc  pv = pv  sa = sa
    token = token  apod = apod  fpv = fpv  fpvc = fpvc
    main = main  aux = aux  foreign = foreign
    ByNamespace = ByNamespace  ByUser = ByUser  NoName = NoName
    KindOf <- MCKindOf
    NsOf <- MCNsOf
    OwnerOf <- MCOwnerOf
    Kept <- MCKept
    Guarded <- MCGuarded
    Holders <- MCHolders
    Ns = main
    Obj = {ic, sts, pod, mbk, apod}
    Namespace = {main, aux}
    Aux = NoName
    MaxPolls = 2
    MaxFaults = 1
    MaxRuns = 2
INVARIANTS
    IInv
    ClustersGoFirst
PROPERTIES
    WipeIsBounded
    WipeReturns
    PolledNamespaceGoes
CHECK_DEADLOCK FALSE
