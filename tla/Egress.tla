--------------------------------- MODULE Egress -------------------------------
(*****************************************************************************)
(* The egress proxy: the only way out of the scanners' network. A connection  *)
(* is read, judged by the name it asks for, resolved once, judged again by    *)
(* every address of the answer, and connected to an address of that answer.   *)
(* The resolver may answer differently every time it is asked.                *)
(*****************************************************************************)
EXTENDS Naturals, FiniteSets, Sequences

CONSTANTS
    Conns,           \* connections
    Heads,           \* what a client may send as its request head
    Answers,         \* what the resolver may answer: sequences of addresses
    MaxConnections,  \* MAX_CONCURRENT_CONNECTIONS
    MaxAnswers       \* bound: how often the answer changes

ASSUME EgressAssumption ==
    /\ {MaxConnections, MaxAnswers} \subseteq Nat
    /\ \A answer \in Answers : answer \in Seq(STRING)

VARIABLES
    dns,        \* what the resolver answers now
    answers,    \* how often that has changed
    asked,      \* names that have been sent to the resolver
    conn        \* each connection

egressVars == <<dns, answers, asked, conn>>

-------------------------------------------------------------------------------
(* The policy. An address is the kind of network it is in; the mapped kinds   *)
(* are IPv6 spellings of an IPv4 address that mean that address on the host   *)
(* itself. "public6" is any other unicast address of IPv6, those included     *)
(* that a translating gateway (NAT64, 6to4) would pass on to an IPv4 address: *)
(* the policy does not look into them, and the gateway is not modelled.       *)

Reached(ip) ==
    CASE ip = "mapped_private" -> "private"
      [] ip = "mapped_public"  -> "public"
      [] OTHER                 -> ip
\* Variant: an IPv6 spelling is not looked through.
AddressAsWritten(ip) == ip \in {"public", "public6", "mapped_private", "mapped_public"}
AddressAllowed(ip) == Reached(ip) \in {"public", "public6"}

\* A host is a name, an address in any spelling, or an authority with more in it
\* than a name; only a name has a domain. One trailing dot is dropped.
Approved == {"osv.dev", "api.osv.dev"}
TargetAllowed(host, port) ==
    /\ port \in {443, 53}
    /\ host.kind = "name" /\ host.domain \in Approved

\* The address of the proxy, as the dependency scanner may be given it.
ProxyUrl(url) ==
    /\ url.scheme \in {"http", "https"} /\ url.host # "" /\ url.port # 0
    /\ ~url.credentials /\ ~url.path /\ ~url.control

-------------------------------------------------------------------------------

NoConn == [at |-> "idle"]
Serving == {c \in Conns : conn[c].at # "idle"}

EgressInit ==
    /\ dns \in Answers
    /\ answers = 0
    /\ asked = {}
    /\ conn = [c \in Conns |-> NoConn]

Becomes(c, state) == conn' = [conn EXCEPT ![c] = state]
Lookups == <<dns, answers, asked>>

\* A connection is served while there is a permit, and refused (503) when there is not.
Accept(c, from) ==
    /\ conn[c].at = "idle" /\ Cardinality(Serving) < MaxConnections
    /\ Becomes(c, [at |-> "head", from |-> from])
    /\ UNCHANGED Lookups

\* 400 for a head that cannot be read, 403 for a target that is not allowed: nothing
\* is looked up for either.
ReadHead(c, head) ==
    /\ conn[c].at = "head"
    /\ Becomes(c, IF head.readable /\ TargetAllowed(head.host, head.port)
                  THEN [at |-> "resolve", from |-> conn[c].from, host |-> head.host,
                        port |-> head.port]
                  ELSE NoConn)
    /\ UNCHANGED Lookups

\* One lookup, which may fail; one address that is not allowed denies them all.
Resolve(c) ==
    /\ conn[c].at = "resolve"
    /\ asked' = asked \cup {conn[c].host}
    /\ Becomes(c, IF dns # <<>> /\ \A k \in DOMAIN dns : AddressAllowed(dns[k])
                  THEN [at |-> "connect", from |-> conn[c].from, host |-> conn[c].host,
                        port |-> conn[c].port, answer |-> dns, k |-> 1]
                  ELSE NoConn)
    /\ UNCHANGED <<dns, answers>>

\* Variant: the name is connected to, and so looked up again.
LookedUpAgain(c) == dns
\* The addresses a connection may be made to: those of the answer that was judged.
Candidates(c) == conn[c].answer

\* They are tried in order; when none is left, 502.
Connect(c) ==
    LET k == conn[c].k
    IN  /\ conn[c].at = "connect"
        /\ \/ /\ k <= Len(Candidates(c))
              /\ Becomes(c, [at |-> "tunnel", from |-> conn[c].from, host |-> conn[c].host,
                             port |-> conn[c].port, ip |-> Candidates(c)[k]])
           \/ Becomes(c, IF k < Len(Candidates(c)) THEN [conn[c] EXCEPT !.k = k + 1] ELSE NoConn)
        /\ UNCHANGED Lookups

\* The head does not arrive in time, the client leaves, or either end closes.
Closes(c) ==
    /\ conn[c].at \in {"head", "tunnel"}
    /\ Becomes(c, NoConn)
    /\ UNCHANGED Lookups

\* The resolver's answer is somebody else's to change.
AnswerChanges ==
    /\ answers < MaxAnswers /\ Serving # {}
    /\ answers' = answers + 1
    /\ dns' \in Answers \ {dns}
    /\ UNCHANGED <<asked, conn>>

EgressStep ==
    \/ \E c \in Conns : \/ \E head \in Heads : ReadHead(c, head)
                        \/ Resolve(c) \/ Connect(c) \/ Closes(c)
    \/ AnswerChanges

-------------------------------------------------------------------------------
\* A connection is only ever open to an address that is public, also where it is an
\* IPv4 address written as an IPv6 one, for an approved name and port, whatever the resolver answers and
\* whenever it changes its mind; and no other name has even been looked up
\* (check_target before the lookup, check_candidates, connect_pinned).
EgressIsApproved ==
    /\ \A c \in Conns : conn[c].at = "tunnel" =>
          /\ Reached(conn[c].ip) \in {"public", "public6"}
          /\ conn[c].port \in {443, 53}
          /\ conn[c].host.domain \in Approved
    /\ \A host \in asked : host.kind = "name" /\ host.domain \in Approved
===============================================================================
