------------------------------- MODULE KubeApi -------------------------------
(***************************************************************************)
(* The Kubernetes cluster as the test suite meets it through client-go:    *)
(* namespaces, the objects in them, deletion that is finished by others    *)
(* (finalizers, graceful termination, the namespace controller) and the    *)
(* controllers that re-create or collect objects on their own.  None of    *)
(* this is code of the repository; it is the environment util/k8s and      *)
(* util/suite call, modelled from the calls they make and the results they *)
(* handle.                                                                 *)
(*                                                                         *)
(* An object is identified by its kind, namespace and name, as in the API: *)
(* a StatefulSet's pod that is deleted and re-created is the same element  *)
(* of Obj.                                                                 *)
(***************************************************************************)
EXTENDS Naturals

CONSTANTS
    Obj,          \* the objects that may exist
    Namespace,    \* the namespaces that may exist
    KindOf,       \* the kind of each object
    NsOf,         \* the namespace of each object; for a persistent volume,
                  \* which is cluster-scoped, the namespace of its claim
    OwnerOf,      \* the object whose controller creates and collects it,
                  \* ByNamespace for the defaults of a namespace, ByUser
                  \* for what only a test creates
    ByNamespace, ByUser,
    Kept,         \* the objects that outlive their owner (claims of a
                  \* StatefulSet)
    Guarded,      \* the objects created with a finalizer
    Holders       \* the objects that must be gone before the finalizer of a
                  \* guarded object is released by its controller

Kind == {"ic", "pod", "mbk", "sts", "rs", "svc", "cm", "secret", "token",
         "job", "deploy", "pvc", "pv", "sa"}

ASSUME KubeApiAssumption ==
    /\ KindOf \in [Obj -> Kind]
    /\ NsOf \in [Obj -> Namespace]
    /\ OwnerOf \in [Obj -> Obj \cup {ByNamespace, ByUser}]
    /\ ByNamespace \notin Obj /\ ByUser \notin Obj /\ ByNamespace # ByUser
    /\ Kept \subseteq Obj /\ Guarded \subseteq Obj
    /\ Holders \in [Obj -> SUBSET Obj]
    /\ \A o \in Obj : KindOf[o] = "ic" => OwnerOf[o] = ByUser

VARIABLES
    store,    \* [Obj -> {"absent", "live", "terminating"}]
    fin,      \* the objects that carry a finalizer
    nsPhase   \* [Namespace -> {"absent", "active", "terminating"}]

apiVars == <<store, fin, nsPhase>>

ApiTypeOK ==
    /\ store \in [Obj -> {"absent", "live", "terminating"}]
    /\ fin \in SUBSET Obj
    /\ nsPhase \in [Namespace -> {"absent", "active", "terminating"}]

Present(o) == store[o] # "absent"

ClusterScoped(o) == KindOf[o] = "pv"

\* A pod keeps running through its grace period after it is deleted.
Graceful(o) == KindOf[o] = "pod"

-----------------------------------------------------------------------------
(* What the API server does to an object on behalf of any caller. *)

StoreAs(o, s) == store' = [store EXCEPT ![o] = s]

Vanish(o) ==
    /\ StoreAs(o, "absent")
    /\ fin' = fin \ {o}

CreateObject(o) ==
    /\ ~Present(o)
    /\ StoreAs(o, "live")
    /\ fin' = IF o \in Guarded THEN fin \cup {o} ELSE fin
    /\ UNCHANGED nsPhase

\* DELETE of a present object: removed at once unless a finalizer or the
\* grace period keeps it, marked as terminating.
DeleteObject(o) ==
    /\ Present(o)
    /\ IF o \in fin \/ Graceful(o)
       THEN StoreAs(o, "terminating") /\ UNCHANGED fin
       ELSE Vanish(o)
    /\ UNCHANGED nsPhase

\* The finalizer list becomes empty; an object that only waited for it goes.
DropFinalizer(o) ==
    /\ o \in fin
    /\ IF store[o] = "terminating" /\ ~Graceful(o)
       THEN Vanish(o)
       ELSE fin' = fin \ {o} /\ UNCHANGED store
    /\ UNCHANGED nsPhase

CreateNs(n) ==
    /\ nsPhase[n] = "absent"
    /\ nsPhase' = [nsPhase EXCEPT ![n] = "active"]
    /\ UNCHANGED <<store, fin>>

\* DELETE of a namespace only marks it; the namespace controller does the rest.
DeleteNs(n) ==
    /\ nsPhase[n] # "absent"
    /\ nsPhase' = [nsPhase EXCEPT ![n] = "terminating"]
    /\ UNCHANGED <<store, fin>>

-----------------------------------------------------------------------------
(* The controllers. *)

OwnerLive(o) ==
    \/ OwnerOf[o] = ByNamespace
    \/ OwnerOf[o] \in Obj /\ store[OwnerOf[o]] = "live"

\* A StatefulSet, ReplicaSet, job, the operator, the volume provisioner or the
\* service account controller creates what its owner asks for.  The server
\* admits new objects only in an active namespace.
Reconcile(o) ==
    /\ OwnerLive(o)
    /\ ClusterScoped(o) \/ nsPhase[NsOf[o]] = "active"
    /\ CreateObject(o)

\* The garbage collector deletes an object whose owner is gone (for a volume:
\* the reclaim policy, when its claim is gone).
Collect(o) ==
    /\ OwnerOf[o] \in Obj /\ o \notin Kept
    /\ ~Present(OwnerOf[o])
    /\ store[o] = "live"
    /\ DeleteObject(o)

\* The operator, or the volume protection controller, releases a finalizer.
Release(o) ==
    /\ store[o] = "terminating"
    /\ \A h \in Holders[o] : ~Present(h)
    /\ DropFinalizer(o)

\* The kubelet finishes the termination of a pod.
Terminated(o) ==
    /\ store[o] = "terminating"
    /\ o \notin fin
    /\ Vanish(o)
    /\ UNCHANGED nsPhase

\* The namespace controller empties a terminating namespace ...
NamespaceEvicts(o) ==
    /\ nsPhase[NsOf[o]] = "terminating"
    /\ ~ClusterScoped(o)
    /\ store[o] = "live"
    /\ DeleteObject(o)

\* ... and removes it when nothing is left in it.
NamespaceGone(n) ==
    /\ nsPhase[n] = "terminating"
    /\ \A o \in Obj : NsOf[o] = n /\ ~ClusterScoped(o) => ~Present(o)
    /\ nsPhase' = [nsPhase EXCEPT ![n] = "absent"]
    /\ UNCHANGED <<store, fin>>

ObjectController(o) ==
    \/ Reconcile(o)
    \/ Collect(o)
    \/ Release(o)
    \/ Terminated(o)
    \/ NamespaceEvicts(o)

Controllers ==
    \/ \E o \in Obj : ObjectController(o)
    \/ \E n \in Namespace : NamespaceGone(n)

\* Controllers keep working: each deletion they have to finish gets finished.
ControllerFairness ==
    /\ \A o \in Obj : /\ WF_apiVars(Release(o))
                      /\ WF_apiVars(Terminated(o))
                      /\ WF_apiVars(Collect(o))
                      /\ WF_apiVars(NamespaceEvicts(o))
    /\ \A n \in Namespace : WF_apiVars(NamespaceGone(n))

=============================================================================
