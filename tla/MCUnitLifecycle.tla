--------------------------- MODULE MCUnitLifecycle ---------------------------
(***************************************************************************)
(* Small clusters for UnitLifecycle.  Each is a set of objects; the tables *)
(* below give the kind, namespace and owner of every object by name.       *)
(***************************************************************************)
EXTENDS UnitLifecycle

CONSTANTS ic, sts, pod, mbk, pvc, pv, sa, token, apod, fpv, fpvc,
          main, aux, foreign

MCKindOf ==
    [o \in Obj |-> CASE o = ic -> "ic" [] o = sts -> "sts" [] o \in {pod, apod} -> "pod"
                     [] o = mbk -> "mbk" [] o \in {pvc, fpvc} -> "pvc"
                     [] o \in {pv, fpv} -> "pv" [] o = sa -> "sa"
                     [] o = token -> "token"]

MCNsOf ==
    [o \in Obj |-> CASE o = apod -> aux [] o \in {fpv, fpvc} -> foreign
                     [] OTHER -> main]

\* The operator makes the StatefulSet of a cluster, the StatefulSet its pods
\* and claims, the provisioner the volume of a claim.
MCOwnerOf ==
    [o \in Obj |->
        CASE o = sts /\ ic \in Obj -> ic
          [] o \in {pod, pvc} /\ sts \in Obj -> sts
          [] o = pv /\ pvc \in Obj -> pvc
          [] o = fpv /\ fpvc \in Obj -> fpvc
          [] o \in {sa, token} -> ByNamespace
          [] OTHER -> ByUser]

MCKept == Obj \cap {pvc}

MCGuarded == Obj \cap {ic, pod, pvc, pv, fpv}

MCHolders ==
    [o \in Obj |-> CASE o = pvc -> Obj \cap {pod}
                     [] o = pv -> Obj \cap {pvc}
                     [] o = fpv -> Obj \cap {fpvc}
                     [] OTHER -> {}]

=============================================================================
