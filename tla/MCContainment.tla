----------------------------- MODULE MCContainment ----------------------------
EXTENDS Containment

\* What the sandbox may be asked to run: the three scanners, and what differs from
\* one of them in one respect.
MCSpecs ==
    {Descriptor(t) : t \in {"gitleaks", "osv", "semgrep"}}
    \cup {[Plain(Gitleaks) EXCEPT !.network = n] : n \in {"scanners-internal", "bridge"}}
    \cup {Plain(Image("alpine", "3.19")), Plain(Image("semgrep/semgrep", "latest")),
          [Plain(Gitleaks) EXCEPT !.entrypoint = "bash"],
          [Plain(Gitleaks) EXCEPT !.tmpfs = {"/scan"}],
          [Plain(Gitleaks) EXCEPT !.timeout = MaxTimeout + 1],
          [Plain(Gitleaks) EXCEPT !.mounts = {[Mount(<<"tmp">>, "/scan") EXCEPT !.ro = FALSE]}],
          [Plain(Gitleaks) EXCEPT !.mounts = {Mount(<<"tmp", "..", ".", "etc">>, "/scan")}],
          [Plain(Gitleaks) EXCEPT !.mounts = {Mount(<<"home", "u">>, "/scan")}]}

\* Requests of others on the channel. A create request is an approved one, or
\* differs from it in one field.
Body == Argv(Descriptor("osv"))
MCBodies ==
    {Body, Argv(Descriptor("semgrep")), [Body EXCEPT !.image = Image("alpine", "3.19")],
     [Body EXCEPT !.mounts = "some"], [Body EXCEPT !.cmd = FALSE],
     [Body EXCEPT !.binds = {Mount(<<"tmp", "..", "etc">>, "/config")}],
     [Body EXCEPT !.binds = {[Mount(<<"tmp">>, "/scan") EXCEPT !.ro = FALSE]}]}
    \cup {[Body EXCEPT !.privileged = v] : v \in {"absent", "true", "odd"}}
    \cup {[Body EXCEPT !.capAdd = v] : v \in {"absent", "some", "odd"}}
    \cup {[Body EXCEPT !.capDrop = v] : v \in {"absent", "some"}}
    \cup {[Body EXCEPT !.network = v] : v \in {"absent", "none", "bridge", "host"}}
    \cup {[Body EXCEPT !.namespaces = "host"], [Body EXCEPT !.devices = "some"],
          [Body EXCEPT !.entrypoint = "bash"], [Body EXCEPT !.user = "absent"],
          [Body EXCEPT !.readonly = "top_level"], [Body EXCEPT !.readonly = "absent"],
          [Body EXCEPT !.security = {}], [Body EXCEPT !.security = {"no-new-privileges", "unconfined"}],
          [Body EXCEPT !.restart = "always"]}
    \cup {[Body EXCEPT !.unread = u] : u \in {{"network"}, Aspects}}

Base == [tls |-> TRUE, cn |-> "firecrow-backend", path |-> "versioned", op |-> "ping",
         target |-> Stray, byName |-> FALSE, visible |-> TRUE, body |-> Body, from |-> <<Osv>>,
         tags |-> <<>>]
MCRequests ==
    {[Base EXCEPT !.op = "create", !.byName = TRUE, !.body = b] : b \in MCBodies}
    \cup {[Base EXCEPT !.op = "create", !.visible = FALSE],
          [Base EXCEPT !.op = "create", !.tls = FALSE],
          [Base EXCEPT !.op = "create", !.target = "database"],
          [Base EXCEPT !.op = "start", !.cn = "somebody"],
          [Base EXCEPT !.op = "remove", !.path = "dotted", !.target = "database"]}
    \cup {[Base EXCEPT !.op = o, !.target = i, !.byName = n] :
             o \in {"start", "kill", "remove", "inspect", "rename"},
             i \in {Stray, "database"}, n \in BOOLEAN}
    \cup {[Base EXCEPT !.op = "pull", !.from = f, !.tags = t] :
             f \in {<<>>, <<Osv>>, <<Osv, Osv>>, <<Image(Osv.name, "")>>, <<Image("alpine", "")>>},
             t \in {<<>>, <<"v2.2.4">>, <<"3.19">>}}

Name(domain) == [kind |-> "name", domain |-> domain]
MCHeads ==
    {[readable |-> TRUE, host |-> h, port |-> p] :
        h \in {Name("api.osv.dev"), Name("elsewhere"), [kind |-> "address", domain |-> "none"],
               [kind |-> "smuggled", domain |-> "api.osv.dev"]},
        p \in {443, 80}}
    \cup {[readable |-> FALSE, host |-> Name("api.osv.dev"), port |-> 443]}
MCAnswers == {<<>>, <<"public">>, <<"public6", "mapped_public">>, <<"public", "mapped_private">>,
              <<"metadata">>}

Proxy == [scheme |-> "http", host |-> "egress-proxy", port |-> 3128, credentials |-> FALSE,
          path |-> FALSE, control |-> FALSE]
MCProxyUrls == {Proxy, [Proxy EXCEPT !.path = TRUE]}
===============================================================================
