------------------------------ MODULE MCOteTool -------------------------------
(***************************************************************************)
(* Two operator directories, a template and a plain yaml, and invocations  *)
(* in which every source names something a weaker one names too.           *)
(***************************************************************************)
EXTENDS OteTool, TLC

Local == [schema |-> "", host |-> "localhost:5000"]
Remote == [schema |-> "http", host |-> "registry:5000"]

MCDefault ==
    [environment |-> "detect", engine |-> "detect", cluster |-> "ote", registry |-> NoRegistry,
     pullPolicy |-> "IfNotPresent", operatorPullPolicy |-> "IfNotPresent", tag |-> "t0",
     kubeConfig |-> "detect", directory |-> "dir1", template |-> "templ", registryConfig |-> "k3dcfg",
     enterprise |-> FALSE, deploy |-> TRUE, deleteAtStart |-> TRUE, deleteAtStop |-> FALSE]

Sources(env, custom, options, command) ==
    [env |-> env, custom |-> custom, options |-> options, args |-> <<command>>, underTest |-> FALSE]

Nothing == <<>>

MCFiles == <<Skeleton, "operator">>

MCInvocation ==
    { Sources(Nothing, Nothing, Nothing, "start"),
      Sources("tag" :> "t1" @@ "enterprise" :> "yes" @@ "registry" :> Remote,
              "environment" :> "k3d" @@ "registry" :> Local @@ "tag" :> "t2",
              "skipDelete" :> TRUE, "start"),
      Sources("tag" :> "t1", "environment" :> "k3d" @@ "registry" :> Local, Nothing, "start"),
      Sources(Nothing, "environment" :> "k3d", Nothing, "stop"),
      Sources(Nothing, "environment" :> "k3d", "skipDelete" :> TRUE, "stop"),
      Sources(Nothing, "directory" :> "dir1" @@ "operatorPullPolicy" :> "sometimes",
              "directory" :> "dir2" @@ "operatorPullPolicy" :> "never" @@ "skipDeploy" :> FALSE, "deploy"),
      Sources("registry" :> Remote, "template" :> "plain" @@ "environment" :> "k3d", Nothing, "deploy") }

=============================================================================
