----------------------------- MODULE Configuration -----------------------------
(***************************************************************************)
(* The configuration of ote and of the e2e tests, as a function of what it *)
(* is made from: default.cfg, the OPERATOR_TEST_* variables, custom.cfg    *)
(* and the command line, each a partial function from settings to values.  *)
(* The settings are those whose treatment differs; all others are treated  *)
(* like "tag".                                                             *)
(***************************************************************************)
EXTENDS Integers, Sequences

CONSTANTS
    Default,       \* default.cfg: a value for every setting
    Installed,     \* the commands found in the path
    Existing,      \* the files and directories that exist
    KubeConfigVar, \* the value of KUBECONFIG, or ""
    Loopback,      \* the registry hosts that are names of this machine
    Known,         \* the hosts that the resolver knows, Loopback included
    HostIP         \* the address of this machine in its network

Switch == {"enterprise", "deploy", "deleteAtStart", "deleteAtStop"}
Path == {"kubeConfig", "directory", "template", "registryConfig"}
Setting == Switch \cup Path \cup
           {"environment", "engine", "cluster", "registry", "pullPolicy", "operatorPullPolicy", "tag"}

\* The settings with an environment variable, and those with an option.
Variable == {"registry", "operatorPullPolicy", "tag", "enterprise", "cluster"}
Option == Setting \ {"deploy", "deleteAtStart", "deleteAtStop"}

NoRegistry == [schema |-> "", host |-> ""]

ASSUME ConfigurationAssumption ==
    /\ DOMAIN Default = Setting
    /\ Default.deploy \in BOOLEAN
    /\ Loopback \subseteq Known

-----------------------------------------------------------------------------
(* What the sources say. *)

\* loadConfigFile: what the JSON names replaces what was there.
Overlay(cfg, source) ==
    [s \in Setting |-> IF s \in DOMAIN source THEN source[s] ELSE cfg[s]]

\* applyEnvironment: a switch that does not parse is off.
ApplyEnvironment(cfg, env) ==
    Overlay(cfg, [s \in DOMAIN env \cap Variable |-> IF s \in Switch THEN env[s] = "true" ELSE env[s]])

\* The command of the only argument.
Command(args) ==
    IF Len(args) = 1 /\ args[1] \in {"start", "stop", "deploy"} THEN args[1] ELSE "unknown"

\* parseCommandLine: every setting with an option is set from it; the default of
\* the option is what the setting was, save for skip-delete.
ParseCommandLine(cfg, options, command) ==
    LET Given(o, default) == IF o \in DOMAIN options THEN options[o] ELSE default
        delete == ~Given("skipDelete", FALSE)
    IN  [Overlay(cfg, [s \in DOMAIN options \cap Option |-> options[s]]) EXCEPT
            !.deploy = ~Given("skipDeploy", ~cfg.deploy),
            !.deleteAtStart = IF command = "start" THEN delete ELSE @,
            !.deleteAtStop = IF command = "stop" THEN delete ELSE @]

\* Mutant: the variables are applied after the file.
VariablesOverFile(sources) ==
    ParseCommandLine(ApplyEnvironment(Overlay(Default, sources.custom), sources.env),
                     sources.options, Command(sources.args))

\* CreateConfiguration up to the command line, which go test keeps to itself.
Stated(sources) ==
    LET fromFiles == Overlay(ApplyEnvironment(Default, sources.env), sources.custom)
    IN  IF sources.underTest THEN fromFiles
        ELSE ParseCommandLine(fromFiles, sources.options, Command(sources.args))

-----------------------------------------------------------------------------
(* What the settings mean on this machine. *)

Detected(asked, supported) ==
    IF asked # "detect" THEN asked
    ELSE LET found == {i \in DOMAIN supported : supported[i] \in Installed}
         IN  IF found = {} THEN "none" ELSE supported[CHOOSE i \in found : \A j \in found : i <= j]

\* Pull policies are recognised in any case of letters.
Spelling(policy) ==
    CASE policy \in {"Always", "always"} -> "Always"
      [] policy \in {"IfNotPresent", "ifnotpresent"} -> "IfNotPresent"
      [] policy \in {"Never", "never"} -> "Never"
      [] OTHER -> "none"

KubeConfigPath(asked) ==
    IF asked # "detect" THEN asked ELSE IF KubeConfigVar # "" THEN KubeConfigVar ELSE "~/.kube/config"

\* Inside minikube this machine goes by its address; the schema is cut off.
MinikubeRegistry(registry) ==
    [schema |-> "", host |-> IF registry.host \in Loopback THEN HostIP ELSE registry.host]

RegistryHost(environment, registry) ==
    IF environment = "minikube" THEN MinikubeRegistry(registry) ELSE registry

Resolved(cfg) ==
    LET environment == Detected(cfg.environment, <<"minikube", "k3d">>)
    IN  [cfg EXCEPT !.kubeConfig = KubeConfigPath(@),
                    !.environment = environment,
                    !.engine = Detected(@, <<"docker", "podman">>),
                    !.registry = RegistryHost(environment, @),
                    !.pullPolicy = Spelling(@),
                    !.operatorPullPolicy = Spelling(@)]

\* No step of resolveSettings reports an error.
Resolvable(cfg) ==
    /\ Resolved(cfg).environment \in Installed /\ Resolved(cfg).engine \in Installed
    /\ \A s \in Path : Resolved(cfg)[s] \in Existing
    /\ Resolved(cfg).environment = "minikube" /\ cfg.registry # NoRegistry => cfg.registry.host \in Known
    /\ Resolved(cfg).pullPolicy # "none" /\ Resolved(cfg).operatorPullPolicy # "none"

\* CreateConfiguration succeeds, with this configuration.
Accepted(sources) ==
    /\ sources.underTest \/ Command(sources.args) # "unknown"
    /\ Resolvable(Stated(sources))

Configuration(sources) == Resolved(Stated(sources))

\* GetRegistryHost: what comes before the first colon of the registry.
HostOfRegistry(registry) == IF registry.schema # "" THEN registry.schema ELSE registry.host

-----------------------------------------------------------------------------
(* The reference: who decides a setting. *)

\* The value of a setting in the strongest source that names it
\* (README.md: default.cfg < environment variables < custom.cfg < command line).
Strongest(s, sources) ==
    IF ~sources.underTest /\ s \in DOMAIN sources.options THEN sources.options[s]
    ELSE IF s \in DOMAIN sources.custom THEN sources.custom[s]
    ELSE IF s \in DOMAIN sources.env /\ s \in Variable
         THEN IF s \in Switch THEN sources.env[s] = "true" ELSE sources.env[s]
    ELSE Default[s]

=============================================================================
