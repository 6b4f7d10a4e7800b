-------------------------------- MODULE Channel -------------------------------
(*****************************************************************************)
(* The Docker channel: what the sandbox asks the daemon for, and the          *)
(* authorization plugin that judges every request in between. A run is one    *)
(* `docker run` of the backend, request by request; others may use the same   *)
(* channel. The plugin remembers the containers created through it in memory, *)
(* and may stop and start again at any time. The daemon is external.          *)
(*****************************************************************************)
EXTENDS Naturals, FiniteSets, SequencesExt

CONSTANTS
    Runs,         \* runs of the backend; each has a container name of its own
    Foreign,      \* containers of somebody else on the same host
    Specs,        \* what the sandbox may be asked to run
    Requests,     \* what else may be sent over the channel
    AllowedCns,   \* FIRECROW_AUTHZ_ALLOWED_CNS
    MaxRestarts,  \* bound: how often the plugin stops
    MaxRequests   \* bound: requests that are not those of a run

\* A container is identified by who created it; its name is that of the run, or
\* one no scanner has.
Stray == "stray"
Ids == Runs \cup Foreign \cup {Stray}

ASSUME ChannelAssumption ==
    /\ {MaxRestarts, MaxRequests} \subseteq Nat
    /\ Runs \cap Foreign = {} /\ Stray \notin Runs \cup Foreign

VARIABLES
    up,          \* the plugin answers
    restarts,
    requests,
    registry,    \* identifiers seen in create responses
    pulled,      \* images the daemon has
    container,   \* each container: its state and what it was created with
    step,        \* where each run is
    spec         \* what each run was asked for

channelVars == <<up, restarts, requests, registry, pulled, container, step, spec>>

Image(name, tag) == [name |-> name, tag |-> tag]
Gitleaks == Image("ghcr.io/gitleaks/gitleaks", "v8.18.4")
Osv == Image("ghcr.io/google/osv-scanner", "v2.2.4")
Semgrep == Image("semgrep/semgrep", "1.96.0")
ApprovedImages == {Gitleaks, Osv, Semgrep}

-------------------------------------------------------------------------------
(* Host paths.                                                                *)

Canonical(path) ==
    FoldLeft(LAMBDA at, c : CASE c \in {"", "."} -> at
                              [] c = ".." -> IF at = <<>> THEN at ELSE Front(at)
                              [] OTHER -> Append(at, c), <<>>, path)

Under(trees, path) == \E tree \in trees : IsPrefix(tree, Canonical(path))

\* Trees the sandbox refuses to mount anything of; the plugin refuses more.
Sensitive == {<<"proc">>, <<"sys">>, <<"dev">>, <<"etc">>, <<"root">>, <<"var", "run">>, <<"run">>}
DeniedHosts == Sensitive \cup {<<"var", "lib", "docker">>, <<"boot">>, <<"home">>}
Observable(trees, mount) ==
    mount.absolute /\ Canonical(mount.host) # <<>> /\ ~Under(trees, mount.host)

-------------------------------------------------------------------------------
(* The sandbox: what a scanner implies, what is accepted, what is rendered.   *)

Mount(host, at) == [host |-> host, absolute |-> TRUE, at |-> at, ro |-> TRUE]
Plain(image) ==
    [image |-> image, limits |-> TRUE, timeout |-> 1, command |-> TRUE, entrypoint |-> "sh",
     mounts |-> {Mount(<<"tmp", "scan">>, "/scan")}, tmpfs |-> {}, env |-> TRUE,
     network |-> "none"]

\* The runs of the three scanners.
Descriptor(tool) ==
    CASE tool = "gitleaks" -> Plain(Gitleaks)
      [] tool = "osv"      -> [Plain(Osv) EXCEPT !.network = "scanners-internal"]
      [] tool = "semgrep"  -> [Plain(Semgrep) EXCEPT !.tmpfs = {"/tmp"},
                                  !.mounts = @ \cup {Mount(<<"app", "semgrep">>, "/config")}]

MaxTimeout == 2
Pinned(image) == image.tag \notin {"", "latest", "sha256:odd"}
ValidMount(mount) == mount.at \in {"/scan", "/config"} /\ mount.ro
ValidSpec(s) ==
    /\ Pinned(s.image)
    /\ s.limits /\ s.command /\ s.env
    /\ s.timeout \in 1 .. MaxTimeout
    /\ s.entrypoint \notin {"", "-flag"}
    /\ \A mount \in s.mounts : ValidMount(mount)
    /\ "/scan" \notin s.tmpfs

\* APPROVED_SCANNER_EXECUTIONS: an image with the network it may have.
Executions == {<<Gitleaks, "none">>, <<Osv, "scanners-internal">>, <<Semgrep, "none">>}

\* What `docker run` sends as the body of the create request. None of the flags fills
\* a field that reaches further than those here (see Reach).
Argv(s) ==
    [image |-> s.image, privileged |-> "false", capAdd |-> "none", capDrop |-> "all",
     binds |-> s.mounts, mounts |-> "none", network |-> s.network, namespaces |-> "own",
     devices |-> "none", entrypoint |-> s.entrypoint, cmd |-> s.command, user |-> "nobody",
     readonly |-> "host_config", security |-> {"no-new-privileges"},
     tmpfs |-> {[at |-> at, options |-> {"rw", "noexec", "nosuid", "nodev", "size"}] :
                    at \in {"/work"} \cup s.tmpfs},
     restart |-> "no", unread |-> {}]

\* Variant: any pinned image will do.
AnyPinnedImage(s) == s.entrypoint \in {"none", "sh"} /\ \A m \in s.mounts : Observable(Sensitive, m)
Policy(s) ==
    /\ <<s.image, s.network>> \in Executions
    /\ s.entrypoint \in {"none", "sh"}
    /\ \A mount \in s.mounts : Observable(Sensitive, mount)

-------------------------------------------------------------------------------
(* The plugin. A create request is judged by its body, field by field; "odd"  *)
(* is a value of another type than the daemon expects. `unread` is what the   *)
(* body asks for where create_policy does not look: it takes the fields it    *)
(* knows out of the body, by the exact name, and leaves alone whatever else   *)
(* is there, also what only the daemon takes for one of those names.          *)

ScannerName(name) == name \in Runs \cup {Stray}

NoPrivileges(body) ==
    body.privileged \in {"absent", "false"} /\ body.capAdd \in {"absent", "none"}
    /\ body.capDrop = "all"
StagingOnly(body) ==
    /\ \A b \in body.binds : /\ Observable(DeniedHosts, b)
                             /\ b.at \in {"/scan", "/config"} /\ b.ro
    /\ body.mounts \in {"absent", "none"}
Apart(body) ==
    body.network \in {"none", "scanners-internal"} /\ body.namespaces \in {"absent", "own"}
    /\ body.devices \in {"absent", "none"}
Contract(body) ==
    body.entrypoint \in {"none", "sh"} /\ body.cmd /\ body.user = "nobody"
\* Variant: the field may also be at the top level of the body.
ReadonlyAnywhere(body) ==
    /\ body.readonly \in {"host_config", "top_level"}
    /\ body.security # {} /\ body.security \subseteq {"no-new-privileges"}
    /\ body.restart \in {"absent", "no"}
Hardened(body) ==
    /\ body.readonly = "host_config"
    /\ body.security # {} /\ body.security \subseteq {"no-new-privileges"}
    /\ body.restart \in {"absent", "no"}
\* A scratch directory. Options of another type pass this check, but the daemon
\* cannot read a body that has them, so such a request has no effect.
Scratch(body) ==
    \A t \in body.tmpfs :
        /\ t.at \in {"/work", "/work/sub"}
        /\ {"noexec", "nosuid", "nodev"} \subseteq t.options
        /\ t.options \subseteq {"rw", "noexec", "nosuid", "nodev", "size"}

CreatePolicy(request) ==
    /\ request.visible /\ ScannerName(request.target)
    /\ request.body.image \in ApprovedImages
    /\ NoPrivileges(request.body) /\ StagingOnly(request.body) /\ Apart(request.body)
    /\ Contract(request.body) /\ Hardened(request.body) /\ Scratch(request.body)

\* The query names the image once, and its tag at most once, in either place.
PullPolicy(request) ==
    /\ Len(request.from) = 1
    /\ LET from == Head(request.from)
       IN  \/ request.tags = <<>> /\ from \in ApprovedImages
           \/ /\ Len(request.tags) = 1 /\ request.tags # <<"">>
              /\ from.tag \in {"", Head(request.tags)}
              /\ [from EXCEPT !.tag = Head(request.tags)] \in ApprovedImages

Lifecycle == {"start", "attach", "wait", "stop", "kill"}

\* Variant: only a container the plugin remembers.
RememberedOnly(target, byName) == target \in registry
\* A container is addressed by identifier, which has to be registered, or by name.
TargetPolicy(target, byName) ==
    \/ ~byName /\ target \in registry
    \/ byName /\ ScannerName(target)

Identified(request) == request.tls /\ request.cn \in AllowedCns

\* Dotted and encoded paths name no endpoint; a version prefix makes no difference.
Endpoint(request) == IF request.path \in {"dotted", "encoded"} THEN "none" ELSE request.op

\* Variant: containers may be inspected.
InspectToo(request) ==
    Endpoint(request) \in {"ping", "version", "inspect"}
\* What is allowed without looking at a target.
Negotiation(request) == Endpoint(request) \in {"ping", "version"}

Decide(request) ==
    /\ up
    /\ Identified(request)
    /\ \/ Negotiation(request)
       \/ Endpoint(request) = "create" /\ CreatePolicy(request)
       \/ Endpoint(request) = "pull" /\ PullPolicy(request)
       \/ Endpoint(request) \in Lifecycle \cup {"remove"}
          /\ TargetPolicy(request.target, request.byName)

-------------------------------------------------------------------------------

Absent == [state |-> "none"]
Has(id, states) == container[id].state \in states

ChannelInit ==
    /\ up \in BOOLEAN
    /\ restarts = 0
    /\ requests = 0
    /\ registry = {}
    /\ pulled \in {{}, ApprovedImages}
    /\ container = [id \in Ids |-> IF id \in Foreign THEN [state |-> "running"] ELSE Absent]
    /\ step = [r \in Runs |-> "idle"]
    /\ spec = [r \in Runs |-> Descriptor("gitleaks")]

\* The request of a run's docker client.
Of(r, op) ==
    [tls |-> TRUE, cn |-> "firecrow-backend", path |-> "versioned", op |-> op, target |-> r,
     byName |-> op \in {"create", "remove"}, visible |-> TRUE, body |-> Argv(spec[r]),
     from |-> <<spec[r].image>>, tags |-> <<>>]

Goes(r, to) == step' = [step EXCEPT ![r] = to]
Daemon == <<pulled, container>>
PluginState == <<up, restarts, registry>>

\* `run` checks the spec, and then starts the client.
Ask(r) ==
    /\ step[r] = "idle"
    /\ \E s \in Specs :
          /\ spec' = [spec EXCEPT ![r] = s]
          /\ Goes(r, IF ValidSpec(s) /\ Policy(s) THEN "create" ELSE "refused")
    /\ UNCHANGED <<requests, PluginState, Daemon>>

\* The client's requests, in order. One that is denied ends the client.
Create(r) ==
    /\ step[r] = "create"
    /\ IF ~Decide(Of(r, "create"))
       THEN Goes(r, "failed") /\ UNCHANGED container
       ELSE IF spec[r].image \notin pulled
       THEN Goes(r, "pull") /\ UNCHANGED container
       ELSE /\ container' = [container EXCEPT ![r] = [state |-> "created", body |-> Argv(spec[r])]]
            /\ Goes(r, "created")
    /\ UNCHANGED <<requests, PluginState, pulled, spec>>

Pull(r) ==
    /\ step[r] = "pull"
    /\ IF Decide(Of(r, "pull"))
       THEN pulled' = pulled \cup {spec[r].image} /\ Goes(r, "create")
       ELSE Goes(r, "failed") /\ UNCHANGED pulled
    /\ UNCHANGED <<requests, PluginState, container, spec>>

\* The response passes the plugin on its way back, which notes the identifier.
Observe(r) ==
    /\ step[r] = "created"
    /\ IF up THEN registry' = registry \cup {r} /\ Goes(r, "attach")
             ELSE Goes(r, "failed") /\ UNCHANGED registry
    /\ UNCHANGED <<up, restarts, requests, Daemon, spec>>

After(op) == CASE op = "attach" -> "wait" [] op = "wait" -> "start" [] op = "start" -> "running"

Address(r) ==
    /\ step[r] \in {"attach", "wait", "start"}
    /\ IF Decide(Of(r, step[r])) /\ Has(r, {"created"})
       THEN /\ Goes(r, After(step[r]))
            /\ container' = IF step[r] = "start"
                            THEN [container EXCEPT ![r].state = "running"] ELSE container
       ELSE Goes(r, "failed") /\ UNCHANGED container
    /\ UNCHANGED <<requests, PluginState, pulled, spec>>

\* The container ends, and is removed (--rm); its client ends with it.
Ends(r) ==
    /\ Has(r, {"running"})
    /\ container' = [container EXCEPT ![r] = Absent]
    /\ step' = [step EXCEPT ![r] = IF @ = "running" THEN "over" ELSE @]
    /\ UNCHANGED <<requests, PluginState, pulled, spec>>

\* A timeout or a cancellation: the client is killed wherever it is.
Terminate(r) ==
    /\ step[r] \in {"create", "pull", "created", "attach", "wait", "start", "running"}
    /\ Goes(r, "terminate")
    /\ UNCHANGED <<requests, PluginState, Daemon, spec>>

\* `docker rm -f <name>`; its status is not looked at.
ForceRemove(r) ==
    /\ step[r] = "terminate"
    /\ container' = IF Decide(Of(r, "remove")) THEN [container EXCEPT ![r] = Absent] ELSE container
    /\ Goes(r, "over")
    /\ UNCHANGED <<requests, PluginState, pulled, spec>>

PluginStops ==
    /\ up /\ restarts < MaxRestarts
    /\ up' = FALSE
    /\ restarts' = restarts + 1
    /\ registry' = {}
    /\ UNCHANGED <<requests, Daemon, step, spec>>

PluginStarts ==
    /\ ~up
    /\ up' = TRUE
    /\ UNCHANGED <<restarts, requests, registry, Daemon, step, spec>>

\* What the daemon does for a request that is not a run's. A response that carries
\* an identifier is noted, whatever was asked.
Tagged(request) ==
    [Head(request.from) EXCEPT !.tag = IF request.tags = <<>> THEN @ ELSE Head(request.tags)]
Carried(request) ==
    LET id == request.target
        op == Endpoint(request)
        creates == op = "create" /\ id = Stray /\ request.body.image \in pulled
                   /\ Has(id, {"none"})
    IN  /\ pulled' = IF op = "pull" THEN pulled \cup {Tagged(request)} ELSE pulled
        /\ registry' = IF creates \/ op = "inspect" THEN registry \cup {id} ELSE registry
        /\ container' = [container EXCEPT ![id] =
              CASE creates -> [state |-> "created", body |-> request.body]
                [] op = "start" /\ @.state = "created" -> [@ EXCEPT !.state = "running"]
                [] op \in {"stop", "kill"} /\ @.state = "running" -> Absent
                [] op = "remove" -> Absent
                [] OTHER -> @]

Other(request) ==
    /\ requests < MaxRequests
    /\ requests' = requests + 1
    /\ Decide(request)
    /\ Carried(request)
    /\ UNCHANGED <<up, restarts, step, spec>>

ChannelStep ==
    \/ \E r \in Runs : \/ Create(r) \/ Pull(r) \/ Observe(r) \/ Address(r) \/ Ends(r)
                       \/ Terminate(r) \/ ForceRemove(r)
    \/ PluginStops \/ PluginStarts
    \/ \E request \in Requests : Other(request)

-------------------------------------------------------------------------------
(* What a container gets, as the daemon reads a body: fields that are absent  *)
(* or where it does not look leave its own defaults in force. `rest` is what  *)
(* it finds in the fields that the plugin leaves alone.                       *)

Aspects == {"privileges", "writes", "others", "network", "survives"}
Reach(body, rest) ==
    LET root == body.user = "absent"
    IN  [privileges |-> body.capDrop # "all" \/ body.capAdd \notin {"absent", "none"}
                        \/ body.privileged \notin {"absent", "false"} \/ root
                        \/ body.security = {} \/ "privileges" \in rest,
         writes |-> body.readonly # "host_config" \/ (\E b \in body.binds : ~b.ro)
                    \/ "writes" \in rest,
         reads |-> {b.host : b \in body.binds},
         others |-> body.namespaces = "host" \/ body.devices = "some" \/ body.mounts = "some"
                    \/ "others" \in rest,
         networks |-> {IF body.network = "absent" THEN "bridge" ELSE body.network}
                      \cup (IF "network" \in rest THEN {"bridge"} ELSE {}),
         survives |-> body.restart = "always" \/ "survives" \in rest]

\* An approved image, without privileges, able to write nothing of the host and to
\* read nothing sensitive of it, on no network that leads outside.
Confined(body, rest) ==
    LET reach == Reach(body, rest)
    IN  /\ body.image \in ApprovedImages
        /\ ~reach.privileges /\ ~reach.writes /\ ~reach.others /\ ~reach.survives
        /\ \A path \in reach.reads : ~Under(Sensitive, path)
        /\ reach.networks \subseteq {"none", "scanners-internal"}

Exists(id) == Has(id, {"created", "running"})

\* The containers of the sandbox are the approved runs, each on the network it may
\* have, and confined in everything that the daemon reads. A container that another
\* request created is confined as far as the fields go that the plugin looks at:
\* entirely, when the request says nothing elsewhere (create_policy and
\* enforce_execution_policy against what the daemon makes of a body).
Contained ==
    /\ \A r \in Runs : Exists(r) =>
          LET body == container[r].body
          IN  Confined(body, body.unread) /\ <<body.image, body.network>> \in Executions
    /\ Exists(Stray) => Confined(container[Stray].body, {})

\* "Deny-by-default: anything not explicitly allowed is denied": no request creates
\* a container that is not confined in everything the daemon reads. One does, if it
\* says so in a field that create_policy does not look at.
DeniedByDefault ==
    \A id \in Runs \cup {Stray} : Exists(id) =>
        Confined(container[id].body, container[id].body.unread)

\* Nothing that is sent over this channel, in whatever order and across restarts of
\* the plugin, changes a container that was not created over it (target_policy,
\* observe).
OthersUntouched == [][\A id \in Foreign : container'[id] = container[id]]_channelVars

\* A container of a run can be removed for as long as the plugin answers, also when
\* it has forgotten everything (target_policy admits the scanner's name for that).
Removable ==
    \A r \in Runs : up /\ Exists(r) => Decide(Of(r, "remove"))

\* "Scanner images the backend may pull/create": the plugin lets the sandbox create
\* what the sandbox's own policy approves. It does not: semgrep's scratch directory
\* is not under /work.
ApprovedRunsAreAllowed ==
    \A r \in Runs : up /\ step[r] = "create" => Decide(Of(r, "create"))
===============================================================================
