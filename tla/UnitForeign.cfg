SPECIFICATION Spec
CONSTANTS
    ic = ic  sts = sts  pod = pod  mbk = mbk  pvc = pvc  pv = pv  sa = sa
    token = token  apod = apod  fpv = fpv  fpvc = fpvc
    main = main  aux = aux  foreign = foreign
    ByNamespace = ByNamespace  ByUser = ByUser  NoName = NoName
    KindOf <- MCKindOf
    NsOf <- MCNsOf
    OwnerOf <- MCOwnerOf
    Kept <- MCKept
    Guarded <- MCGuarded
    Holders <- MCHolders
    Ns = main
    Obj = {pod, fpvc, fpv}
    Namespace = {main, foreign}
    Aux = NoName
    MaxPolls = 1
    MaxFaults = 0
    MaxRuns = 1
PROPERTIES
    ForeignVolumesStay
CHECK_DEADLOCK FALSE
