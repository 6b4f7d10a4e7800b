------------------------------ MODULE Containment -----------------------------
(*****************************************************************************)
(* The boundary around the scanners: containers come into being through the   *)
(* Docker channel, and those on the internal network have the egress proxy    *)
(* as their only way out.                                                     *)
(*****************************************************************************)
EXTENDS Channel, Egress

CONSTANT ProxyUrls  \* what OSV_EGRESS_PROXY may be set to

VARIABLE proxy      \* what it is set to

vars == <<channelVars, egressVars, proxy>>

Init == ChannelInit /\ EgressInit /\ proxy \in ProxyUrls

\* The dependency scanner is not even asked for without a proxy to send it through.
Asks(r) == Ask(r) /\ (spec'[r].image = Osv => ProxyUrl(proxy))

Online(id) == Has(id, {"running"}) /\ id \notin Foreign
              /\ container[id].body.network = "scanners-internal"

\* A container on the internal network opens a connection to the proxy.
Opens(c, id) == Online(id) /\ Accept(c, id)

Next ==
    \/ (\E r \in Runs : Asks(r)) /\ UNCHANGED <<egressVars, proxy>>
    \/ ChannelStep /\ UNCHANGED <<egressVars, proxy>>
    \/ (\E c \in Conns, id \in Runs \cup {Stray} : Opens(c, id)) /\ UNCHANGED <<channelVars, proxy>>
    \/ EgressStep /\ UNCHANGED <<channelVars, proxy>>

Spec == Init /\ [][Next]_vars

\* Of the backend's own runs only the dependency scanner ever talks to anybody: the
\* others see the source and secrets of a repository and stay without a network
\* (NetworkMode, APPROVED_SCANNER_EXECUTIONS and the proxy together).
OnlyDependencyScanTalks ==
    \A c \in Serving : conn[c].from \in Runs => spec[conn[c].from].image = Osv

\* Nothing gets around the boundary: containers are contained, and what leaves them
\* is approved.
BoundaryHolds == Contained /\ EgressIsApproved /\ OnlyDependencyScanTalks
===============================================================================
