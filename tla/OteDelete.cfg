SPECIFICATION Spec
CONSTANTS
    Default <- MCDefault
    Installed = {"minikube", "k3d", "docker", "podman"}
    Existing = {"dir1", "dir2", "templ", "plain", "k3dcfg", "~/.kube/config"}
    KubeConfigVar = ""
    Loopback = {"localhost:5000"}
    Known = {"localhost:5000", "registry:5000"}
    HostIP = "10.0.2.15:5000"
    Files <- MCFiles
    Directory = {"dir1", "dir2"}
    Template = {"templ"}
    Invocation <- MCInvocation
    MaxRuns = 3
    MaxEdits = 1
    MaxTrials = 2
INVARIANTS
    DeletesAsConfigured
CHECK_DEADLOCK FALSE
