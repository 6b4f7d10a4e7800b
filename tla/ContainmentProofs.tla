--------------------------- MODULE ContainmentProofs --------------------------
(*****************************************************************************)
(* That the boundary around the scanners holds, for any number of runs,       *)
(* requests of others, restarts of the plugin, connections and answers of     *)
(* the resolver, whatever the sandbox is asked to run and whatever is sent.   *)
(*                                                                            *)
(* The argument. A container of a run is created from a spec that the         *)
(* sandbox's own policy accepted, and a run's spec does not change once it    *)
(* was accepted (Judged, Built); any other container comes from a request     *)
(* that the plugin's create policy accepted (StrayBuilt). What the registry   *)
(* holds was created over the channel, so a request that names its target by  *)
(* identifier reaches nobody else's container (Registered). A connection      *)
(* carries the name, the port and the answer that were judged (Stage), and    *)
(* whoever opened it was on the network then (Origins).                       *)
(*****************************************************************************)
EXTENDS Containment, TLAPS

\* The tables have an entry for everybody, always.
Tables ==
    /\ container = [id \in Ids |-> container[id]]
    /\ step = [r \in Runs |-> step[r]]
    /\ spec = [r \in Runs |-> spec[r]]

Registered == registry \subseteq Runs \cup {Stray}

\* A run that got past the sandbox was accepted by it.
Accepted(r) == step[r] \notin {"idle", "refused"}
Judged(r) == Accepted(r) => ValidSpec(spec[r]) /\ Policy(spec[r])

\* A container and what it was created with.
Whole(id) == container[id] = [state |-> container[id].state, body |-> container[id].body]

Built(r) == Exists(r) => Accepted(r) /\ Whole(r) /\ container[r].body = Argv(spec[r])

Approvable(body) ==
    /\ body.image \in ApprovedImages
    /\ NoPrivileges(body) /\ StagingOnly(body) /\ Apart(body) /\ Contract(body) /\ Hardened(body)
StrayBuilt == Exists(Stray) => Whole(Stray) /\ Approvable(container[Stray].body)

ChannelInv ==
    /\ Tables
    /\ Registered
    /\ \A r \in Runs : Judged(r) /\ Built(r)
    /\ StrayBuilt

\* The identifiers are of three kinds.
LEMMA Kinds ==
    /\ Stray \in Ids /\ Stray \notin Runs /\ Stray \notin Foreign
    /\ \A r \in Runs : r \in Ids /\ r \notin Foreign /\ r # Stray
BY ChannelAssumption DEF Ids

LEMMA ChannelInvInit == ChannelInit => ChannelInv
<1> SUFFICES ASSUME ChannelInit PROVE ChannelInv
    OBVIOUS
<1>1. ASSUME NEW id \in Runs \cup {Stray} PROVE ~Exists(id)
  <2>1. id \in Ids /\ id \notin Foreign
      BY Kinds
  <2>2. container[id] = Absent
      BY <2>1 DEF ChannelInit
  <2> QED BY <2>2 DEF Exists, Has, Absent
<1>2. \A r \in Runs : ~Accepted(r)
    BY DEF ChannelInit, Accepted
<1>3. Tables /\ Registered
    BY DEF ChannelInit, Tables, Registered
<1> QED BY <1>1, <1>2, <1>3 DEF ChannelInv, Judged, Built, StrayBuilt

-------------------------------------------------------------------------------
\* The steps of a run change that run and its own container only.
OnlyOwn(r) ==
    /\ spec' = spec
    /\ step' = [step EXCEPT ![r] = step'[r]]
    /\ \E c : container' = [container EXCEPT ![r] = c]
    /\ registry' \subseteq registry \cup {r}

LEMMA OwnStep ==
    ASSUME ChannelInv, NEW r \in Runs, OnlyOwn(r),
           Accepted(r)' => Accepted(r), Exists(r)' => Built(r)'
    PROVE  ChannelInv'
<1>1. Tables /\ Registered /\ (\A p \in Runs : Judged(p) /\ Built(p)) /\ StrayBuilt
    BY DEF ChannelInv
<1>2. PICK c : container' = [container EXCEPT ![r] = c]
    BY DEF OnlyOwn
<1>3. Tables'
    BY <1>1, <1>2 DEF Tables, OnlyOwn
<1>4. Registered'
    BY <1>1 DEF Registered, OnlyOwn
<1>5. ASSUME NEW p \in Runs, p # r PROVE step'[p] = step[p] /\ container'[p] = container[p]
    BY <1>1, <1>2, <1>5 DEF Tables, OnlyOwn
<1>6. container'[Stray] = container[Stray]
    BY <1>1, <1>2, Kinds DEF Tables
<1>7. StrayBuilt'
    BY <1>1, <1>6 DEF StrayBuilt, Exists, Has, Whole
<1>8. ASSUME NEW p \in Runs PROVE Judged(p)' /\ Built(p)'
  <2>1. Judged(p) /\ Built(p) /\ spec' = spec
      BY <1>1 DEF OnlyOwn
  <2>2. CASE p # r
      BY <1>5, <2>1, <2>2 DEF Judged, Built, Accepted, Exists, Has, Whole
  <2>3. CASE p = r
      BY <2>1, <2>3 DEF Judged, Built
  <2> QED BY <2>2, <2>3
<1> QED BY <1>3, <1>4, <1>7, <1>8 DEF ChannelInv

\* A move of a run that was accepted, and its container left alone, is one.
LEMMA MovesOn ==
    ASSUME ChannelInv, NEW r \in Runs, NEW to, Goes(r, to), Accepted(r), to \notin {"idle", "refused"},
           spec' = spec, registry' \subseteq registry \cup {r},
           \/ container' = container
           \/ \E c : /\ container' = [container EXCEPT ![r] = c]
                     /\ \/ c.state \notin {"created", "running"}
                        \/ \E s : c = [state |-> s, body |-> Argv(spec[r])]
    PROVE  ChannelInv'
<1>1. Tables /\ Built(r) /\ r \in Ids
    BY Kinds DEF ChannelInv
<1>2. step' = [step EXCEPT ![r] = to] /\ step'[r] = to
    BY <1>1 DEF Goes, Tables
<1>3. Accepted(r)'
    BY <1>2 DEF Accepted
<1>4. CASE container' = container
  <2>1. OnlyOwn(r)
    <3>1. container' = [container EXCEPT ![r] = container[r]]
        BY <1>1, <1>4 DEF Tables
    <3> QED BY <1>2, <3>1 DEF OnlyOwn
  <2>2. Exists(r)' => Built(r)'
      BY <1>1, <1>3, <1>4 DEF Exists, Has, Built, Whole
  <2> QED BY <2>1, <2>2, OwnStep
<1>5. CASE container' # container
  <2>1. PICK c : /\ container' = [container EXCEPT ![r] = c]
                 /\ \/ c.state \notin {"created", "running"}
                    \/ \E s : c = [state |-> s, body |-> Argv(spec[r])]
      BY <1>5
  <2>2. OnlyOwn(r) /\ container'[r] = c
      BY <1>1, <1>2, <2>1 DEF OnlyOwn, Tables
  <2>3. Exists(r)' => Built(r)'
    <3>1. SUFFICES ASSUME Exists(r)' PROVE Whole(r)' /\ container'[r].body = Argv(spec[r])
        BY <1>3 DEF Built
    <3>2. PICK s : c = [state |-> s, body |-> Argv(spec[r])]
        BY <2>1, <2>2, <3>1 DEF Exists, Has
    <3> QED BY <2>2, <3>2 DEF Whole
  <2> QED BY <2>2, <2>3, OwnStep
<1> QED BY <1>4, <1>5

LEMMA RunStep ==
    ASSUME ChannelInv, NEW r \in Runs,
           \/ Create(r) \/ Pull(r) \/ Observe(r) \/ Address(r) \/ Terminate(r) \/ ForceRemove(r)
    PROVE  ChannelInv'
<1> DEFINE Kept(to) ==
        /\ Goes(r, to) /\ to \notin {"idle", "refused"}
        /\ \/ container' = container
           \/ \E c : /\ container' = [container EXCEPT ![r] = c]
                     /\ \/ c.state \notin {"created", "running"}
                        \/ \E s : c = [state |-> s, body |-> Argv(spec[r])]
<1>1. Accepted(r) /\ spec' = spec /\ registry' \subseteq registry \cup {r}
    BY DEF Accepted, Create, Pull, Observe, Address, Terminate, ForceRemove, PluginState
<1>2. ASSUME NEW to, Kept(to) PROVE ChannelInv'
    BY <1>1, <1>2, MovesOn
<1>3. CASE Create(r)
  <2>1. Kept("failed") \/ Kept("pull") \/ Kept("created")
    <3>1. CASE Goes(r, "created")
      <4>1. container' = container \/ container' = [container EXCEPT ![r] = [state |-> "created", body |-> Argv(spec[r])]]
          BY <1>3 DEF Create
      <4> QED BY <3>1, <4>1
    <3>2. CASE ~Goes(r, "created")
        BY <1>3, <3>2 DEF Create
    <3> QED BY <3>1, <3>2
  <2> QED BY <1>2, <2>1
<1>4. CASE Pull(r)
  <2>1. Kept("create") \/ Kept("failed")
      BY <1>4 DEF Pull
  <2> QED BY <1>2, <2>1
<1>5. CASE Observe(r)
  <2>1. Kept("attach") \/ Kept("failed")
      BY <1>5 DEF Observe, Daemon
  <2> QED BY <1>2, <2>1
<1>6. CASE Address(r)
  <2>1. CASE UNCHANGED container
    <3>1. Kept("failed") \/ Kept("wait") \/ Kept("start") \/ Kept("running")
        BY <1>6, <2>1 DEF Address, After
    <3> QED BY <1>2, <3>1
  <2>2. CASE ~UNCHANGED container
    <3>1. /\ step[r] = "start" /\ Goes(r, "running") /\ Exists(r)
          /\ container' = [container EXCEPT ![r].state = "running"]
        BY <1>6, <2>2 DEF Address, After, Has, Exists
    <3>2. container[r] = [state |-> container[r].state, body |-> Argv(spec[r])] /\ Tables /\ r \in Ids
        BY <3>1, Kinds DEF ChannelInv, Built, Whole
    <3>3. container' = [container EXCEPT ![r] = [state |-> "running", body |-> Argv(spec[r])]]
      <4> DEFINE body == Argv(spec[r])
      <4>1. container' = [container EXCEPT ![r] = [container[r] EXCEPT !.state = "running"]]
          BY <3>1, <3>2 DEF Tables
      <4>2. container[r] = [state |-> container[r].state, body |-> body]
          BY <3>2
      <4> HIDE DEF body
      <4>3. [container[r] EXCEPT !.state = "running"] = [state |-> "running", body |-> body]
          BY <4>2
      <4> QED BY <4>1, <4>3 DEF body
    <3>4. Kept("running")
        BY <3>1, <3>3
    <3> QED BY <1>2, <3>4
  <2> QED BY <2>1, <2>2
<1>7. CASE Terminate(r)
  <2>1. Kept("terminate")
      BY <1>7 DEF Terminate, Daemon
  <2> QED BY <1>2, <2>1
<1>8. CASE ForceRemove(r)
  <2>1. Absent.state \notin {"created", "running"}
      BY DEF Absent
  <2>2. Kept("over")
      BY <1>8, <2>1 DEF ForceRemove
  <2> QED BY <1>2, <2>2
<1> QED BY <1>3, <1>4, <1>5, <1>6, <1>7, <1>8

\* The container of a run ends, whatever the run is at.
LEMMA EndStep ==
    ASSUME ChannelInv, NEW r \in Runs, Ends(r)
    PROVE  ChannelInv'
<1>1. Tables /\ Built(r) /\ r \in Ids /\ Exists(r)
    BY Kinds DEF ChannelInv, Ends, Exists, Has
<1>2. Accepted(r)
    BY <1>1 DEF Built
<1> DEFINE to == IF step[r] = "running" THEN "over" ELSE step[r]
<1>3. to \notin {"idle", "refused"}
    BY <1>2 DEF Accepted
<1>4. Goes(r, to)
    BY <1>1 DEF Ends, Goes, Tables
<1>5. container' = [container EXCEPT ![r] = Absent] /\ Absent.state \notin {"created", "running"}
    BY DEF Ends, Absent
<1>6. spec' = spec /\ registry' = registry
    BY DEF Ends, PluginState
<1> HIDE DEF to
<1> QED BY <1>2, <1>3, <1>4, <1>5, <1>6, MovesOn

\* A spec is accepted only while the run has nothing yet.
LEMMA AskStep ==
    ASSUME ChannelInv, NEW r \in Runs, Ask(r)
    PROVE  ChannelInv'
<1>1. Tables /\ Registered /\ (\A p \in Runs : Judged(p) /\ Built(p)) /\ StrayBuilt
    BY DEF ChannelInv
<1>2. UNCHANGED <<registry, container>> /\ step[r] = "idle"
    BY DEF Ask, PluginState, Daemon
<1>3. PICK s \in Specs :
        /\ spec' = [spec EXCEPT ![r] = s]
        /\ Goes(r, IF ValidSpec(s) /\ Policy(s) THEN "create" ELSE "refused")
    BY DEF Ask
<1> DEFINE to == IF ValidSpec(s) /\ Policy(s) THEN "create" ELSE "refused"
<1>4. step' = [step EXCEPT ![r] = to] /\ (to = "refused" \/ (ValidSpec(s) /\ Policy(s)))
    BY <1>3 DEF Goes
<1> HIDE DEF to
<1>5. step'[r] = to /\ spec'[r] = s
    BY <1>1, <1>3, <1>4 DEF Tables
<1>6. Tables' /\ Registered' /\ StrayBuilt'
  <2>1. Tables'
      BY <1>1, <1>2, <1>3, <1>4 DEF Tables
  <2> QED BY <1>1, <1>2, <2>1 DEF Registered, StrayBuilt, Exists, Has, Whole
<1>7. ASSUME NEW p \in Runs PROVE Judged(p)' /\ Built(p)'
  <2>1. Judged(p) /\ Built(p)
      BY <1>1
  <2>2. CASE p # r
    <3>1. step'[p] = step[p] /\ spec'[p] = spec[p]
        BY <1>1, <1>3, <1>4, <2>2 DEF Tables
    <3> QED BY <1>2, <2>1, <3>1 DEF Judged, Built, Accepted, Exists, Has, Whole
  <2>3. CASE p = r
    <3>1. ~Exists(r)'
        BY <1>2, <2>1, <2>3 DEF Built, Accepted, Exists, Has
    <3>2. Judged(r)'
        BY <1>4, <1>5 DEF Judged, Accepted
    <3> QED BY <2>3, <3>1, <3>2 DEF Built
  <2> QED BY <2>2, <2>3
<1> QED BY <1>6, <1>7 DEF ChannelInv

\* The plugin forgets what it registered, and nothing else.
LEMMA PluginStep ==
    ASSUME ChannelInv, \/ PluginStops \/ PluginStarts
                       \/ UNCHANGED <<registry, container, step, spec>>
    PROVE  ChannelInv'
<1>1. UNCHANGED <<container, step, spec>> /\ registry' \subseteq registry
    BY DEF PluginStops, PluginStarts, Daemon
<1>2. ASSUME NEW p \in Runs PROVE Judged(p)' /\ Built(p)'
  <2>1. Judged(p) /\ Built(p)
      BY DEF ChannelInv
  <2> QED BY <1>1, <2>1 DEF Judged, Built, Accepted, Exists, Has, Whole
<1>3. Tables' /\ Registered' /\ StrayBuilt'
    BY <1>1 DEF ChannelInv, Tables, Registered, StrayBuilt, Exists, Has, Whole
<1> QED BY <1>2, <1>3 DEF ChannelInv

-------------------------------------------------------------------------------
\* What the request of somebody else may make of its target: nothing, or, of a
\* container created over the channel, what its operation is for.
Outcome(id, c) ==
    \/ c = container[id]
    \/ /\ id \in Runs \cup {Stray}
       /\ \/ c = Absent
          \/ Exists(id) /\ c = [container[id] EXCEPT !.state = "running"]
          \/ /\ id = Stray
             /\ \E body : Approvable(body) /\ c = [state |-> "created", body |-> body]

LEMMA OtherReaches ==
    ASSUME ChannelInv, NEW request \in Requests, Other(request)
    PROVE  /\ \E c : /\ Outcome(request.target, c)
                     /\ container' = [container EXCEPT ![request.target] = c]
           /\ registry' \subseteq registry \cup {Stray}
<1> DEFINE id == request.target
           op == Endpoint(request)
           creates == op = "create" /\ id = Stray /\ request.body.image \in pulled /\ Has(id, {"none"})
<1>1. \/ op \in {"ping", "version", "pull"}
      \/ op = "create" /\ Approvable(request.body)
      \/ op \in {"start", "attach", "wait", "stop", "kill", "remove"} /\ id \in Runs \cup {Stray}
    BY DEF Other, Decide, Negotiation, CreatePolicy, Approvable, TargetPolicy, ScannerName,
           Lifecycle, ChannelInv, Registered
<1>2. /\ registry' = IF creates \/ op = "inspect" THEN registry \cup {id} ELSE registry
      /\ container' = [container EXCEPT ![id] =
             CASE creates -> [state |-> "created", body |-> request.body]
               [] op = "start" /\ @.state = "created" -> [@ EXCEPT !.state = "running"]
               [] op \in {"stop", "kill"} /\ @.state = "running" -> Absent
               [] op = "remove" -> Absent
               [] OTHER -> @]
    BY DEF Other, Carried
<1> DEFINE c == CASE creates -> [state |-> "created", body |-> request.body]
                  [] op = "start" /\ container[id].state = "created" ->
                         [container[id] EXCEPT !.state = "running"]
                  [] op \in {"stop", "kill"} /\ container[id].state = "running" -> Absent
                  [] op = "remove" -> Absent
                  [] OTHER -> container[id]
<1>3. container' = [container EXCEPT ![id] = c]
    BY <1>2
<1>4. creates => op = "create" /\ id = Stray
    OBVIOUS
<1> HIDE DEF op, creates
<1>5. registry' \subseteq registry \cup {Stray}
    BY <1>1, <1>2, <1>4
<1>6. Outcome(id, c)
  <2>1. CASE creates
    <3>1. c = [state |-> "created", body |-> request.body] /\ Approvable(request.body)
        BY <1>1, <1>4, <2>1
    <3> QED BY <1>4, <2>1, <3>1 DEF Outcome
  <2>2. CASE ~creates /\ op = "start" /\ container[id].state = "created"
    <3>1. c = [container[id] EXCEPT !.state = "running"] /\ Exists(id)
        BY <2>2 DEF Exists, Has
    <3> QED BY <1>1, <2>2, <3>1 DEF Outcome
  <2>3. CASE ~creates /\ ~(op = "start" /\ container[id].state = "created")
    <3>1. c = container[id] \/ (c = Absent /\ op \in {"stop", "kill", "remove"})
        BY <2>3
    <3> HIDE DEF c
    <3> QED BY <1>1, <3>1 DEF Outcome
  <2> QED BY <2>1, <2>2, <2>3
<1> HIDE DEF c
<1> QED BY <1>3, <1>5, <1>6

LEMMA OtherStep ==
    ASSUME ChannelInv, NEW request \in Requests, Other(request)
    PROVE  ChannelInv'
<1> DEFINE id == request.target
<1>1. PICK c : Outcome(id, c) /\ container' = [container EXCEPT ![id] = c]
    BY OtherReaches
<1>2. /\ Tables /\ Registered /\ StrayBuilt
      /\ \A p \in Runs : Judged(p) /\ Built(p)
    BY DEF ChannelInv
<1>3. UNCHANGED <<step, spec>> /\ registry' \subseteq registry \cup {Stray}
    BY OtherReaches DEF Other
<1> HIDE DEF id
<1>4. Tables' /\ Registered'
  <2>1. Tables'
      BY <1>1, <1>2, <1>3 DEF Tables
  <2> QED BY <1>2, <1>3, <2>1 DEF Registered
<1>5. ASSUME NEW p \in Ids, p # id \/ c = container[id] PROVE container'[p] = container[p]
    BY <1>1, <1>2, <1>5 DEF Tables
<1>6. ASSUME id \in Ids PROVE container'[id] = c
    BY <1>1, <1>2, <1>6 DEF Tables
<1>7. ~(Absent.state \in {"created", "running"})
    BY DEF Absent
<1>8. ASSUME id \in Runs \cup {Stray}, Exists(id), Whole(id),
             c = [container[id] EXCEPT !.state = "running"]
      PROVE  c = [state |-> "running", body |-> container[id].body]
    BY <1>8 DEF Whole
<1>9. ASSUME NEW p \in Runs PROVE Judged(p)' /\ Built(p)'
  <2>1. Judged(p) /\ Built(p) /\ p \in Ids /\ p # Stray
      BY <1>2, Kinds
  <2>2. Judged(p)'
      BY <1>3, <2>1 DEF Judged, Accepted
  <2>3. CASE container'[p] = container[p]
      BY <1>3, <2>1, <2>2, <2>3 DEF Built, Exists, Has, Whole, Accepted
  <2>4. CASE container'[p] # container[p]
    <3>1. p = id /\ c # container[id] /\ container'[p] = c
        BY <1>5, <1>6, <2>1, <2>4
    <3>2. CASE c = Absent
        BY <1>7, <2>2, <3>1, <3>2 DEF Built, Exists, Has
    <3>3. CASE c # Absent
      <4>1. Exists(p) /\ c = [container[id] EXCEPT !.state = "running"]
          BY <1>1, <2>1, <3>1, <3>3 DEF Outcome
      <4>2. Accepted(p) /\ Whole(p) /\ container[p].body = Argv(spec[p])
          BY <2>1, <4>1 DEF Built
      <4>3. c = [state |-> "running", body |-> container[p].body]
          BY <1>8, <3>1, <4>1, <4>2
      <4> QED BY <1>3, <2>2, <3>1, <4>2, <4>3 DEF Built, Whole, Accepted
    <3> QED BY <2>2, <3>2, <3>3
  <2> QED BY <2>2, <2>3, <2>4
<1>10. StrayBuilt'
  <2>1. Stray \in Ids
      BY Kinds
  <2>2. CASE container'[Stray] = container[Stray]
      BY <1>2, <2>2 DEF StrayBuilt, Exists, Has, Whole
  <2>3. CASE container'[Stray] # container[Stray]
    <3>1. Stray = id /\ c # container[id] /\ container'[Stray] = c
        BY <1>5, <1>6, <2>1, <2>3
    <3>2. CASE c = Absent
        BY <1>7, <3>1, <3>2 DEF StrayBuilt, Exists, Has
    <3>3. CASE Exists(id) /\ c = [container[id] EXCEPT !.state = "running"]
      <4>1. Whole(Stray) /\ Approvable(container[Stray].body)
          BY <1>2, <3>1, <3>3 DEF StrayBuilt
      <4>2. c = [state |-> "running", body |-> container[Stray].body]
          BY <1>8, <3>1, <3>3, <4>1
      <4> QED BY <3>1, <4>1, <4>2 DEF StrayBuilt, Whole
    <3>4. CASE \E body : Approvable(body) /\ c = [state |-> "created", body |-> body]
        BY <3>1, <3>4 DEF StrayBuilt, Whole
    <3> QED BY <1>1, <3>1, <3>2, <3>3, <3>4 DEF Outcome
  <2> QED BY <2>2, <2>3
<1> QED BY <1>4, <1>9, <1>10 DEF ChannelInv

LEMMA ChannelInvStep ==
    ASSUME ChannelInv, (\E r \in Runs : Ask(r)) \/ ChannelStep \/ UNCHANGED channelVars
    PROVE  ChannelInv'
<1>1. CASE \E r \in Runs : Ask(r)
    BY <1>1, AskStep
<1>2. CASE ChannelStep
    BY <1>2, RunStep, EndStep, PluginStep, OtherStep DEF ChannelStep
<1>3. CASE UNCHANGED channelVars
    BY <1>3, PluginStep DEF channelVars
<1> QED BY <1>1, <1>2, <1>3

-------------------------------------------------------------------------------
(* What the invariant gives.                                                  *)

\* What is under a tree the sandbox refuses is under one the plugin refuses.
LEMMA Narrower == \A path : ~Under(DeniedHosts, path) => ~Under(Sensitive, path)
BY DEF Under, DeniedHosts

\* A body the plugin approved is confined in every field it looked at.
LEMMA ApprovableIsConfined == \A body : Approvable(body) => Confined(body, {})
<1> SUFFICES ASSUME NEW body, Approvable(body) PROVE Confined(body, {})
    OBVIOUS
<1> DEFINE reach == Reach(body, {})
<1>1. ~reach.privileges /\ ~reach.others /\ ~reach.survives
    BY DEF Approvable, NoPrivileges, StagingOnly, Apart, Contract, Hardened, Reach
<1>2. ~reach.writes /\ reach.networks \subseteq {"none", "scanners-internal"}
    BY DEF Approvable, StagingOnly, Apart, Hardened, Reach
<1>3. \A path \in reach.reads : ~Under(Sensitive, path)
    BY Narrower DEF Approvable, StagingOnly, Observable, Reach
<1> QED BY <1>1, <1>2, <1>3 DEF Confined, Approvable

\* The body of a run the sandbox accepted is confined in everything the daemon reads:
\* there is nothing in it but what the plugin looks at.
LEMMA AcceptedIsConfined ==
    \A s : ValidSpec(s) /\ Policy(s) =>
        /\ Confined(Argv(s), Argv(s).unread)
        /\ <<Argv(s).image, Argv(s).network>> \in Executions
<1> SUFFICES ASSUME NEW s, ValidSpec(s), Policy(s)
             PROVE  /\ Confined(Argv(s), Argv(s).unread)
                    /\ <<Argv(s).image, Argv(s).network>> \in Executions
    OBVIOUS
<1> DEFINE body == Argv(s)
           reach == Reach(body, body.unread)
<1>1. /\ body.image = s.image /\ body.network = s.network /\ body.binds = s.mounts
      /\ body.capDrop = "all" /\ body.capAdd = "none" /\ body.privileged = "false"
      /\ body.user = "nobody" /\ body.security = {"no-new-privileges"}
      /\ body.readonly = "host_config" /\ body.namespaces = "own" /\ body.devices = "none"
      /\ body.mounts = "none" /\ body.restart = "no" /\ body.unread = {}
    BY DEF Argv
<1>2. <<body.image, body.network>> \in Executions
    BY <1>1 DEF Policy
<1> HIDE DEF body
<1>3. body.image \in ApprovedImages /\ body.network \in {"none", "scanners-internal"}
    BY <1>2 DEF Executions, ApprovedImages
<1>4. \A b \in body.binds : b.ro /\ ~Under(Sensitive, b.host)
    BY <1>1 DEF ValidSpec, ValidMount, Policy, Observable
<1>5. ~reach.privileges /\ ~reach.others /\ ~reach.survives
    BY <1>1 DEF Reach
<1>6. ~reach.writes /\ reach.networks \subseteq {"none", "scanners-internal"}
    BY <1>1, <1>3, <1>4 DEF Reach
<1>7. \A path \in reach.reads : ~Under(Sensitive, path)
    BY <1>4 DEF Reach
<1>8. Confined(body, body.unread)
    BY <1>3, <1>5, <1>6, <1>7 DEF Confined
<1> QED BY <1>2, <1>8 DEF body

LEMMA ChannelContains == ChannelInv => Contained
<1> SUFFICES ASSUME ChannelInv PROVE Contained
    OBVIOUS
<1>1. ASSUME NEW r \in Runs, Exists(r)
      PROVE  /\ Confined(container[r].body, container[r].body.unread)
             /\ <<container[r].body.image, container[r].body.network>> \in Executions
  <2>1. Judged(r) /\ Built(r)
      BY DEF ChannelInv
  <2> QED BY <1>1, <2>1, AcceptedIsConfined DEF Judged, Built
<1>2. Exists(Stray) => Confined(container[Stray].body, {})
    BY ApprovableIsConfined DEF ChannelInv, StrayBuilt
<1> QED BY <1>1, <1>2 DEF Contained

LEMMA ForeignKept ==
    ASSUME ChannelInv, (\E r \in Runs : Ask(r)) \/ ChannelStep \/ UNCHANGED channelVars
    PROVE  \A id \in Foreign : container'[id] = container[id]
<1>0. Tables
    BY DEF ChannelInv
<1>1. CASE container' = container
    BY <1>1
<1>2. ASSUME NEW id \in Runs \cup {Stray}, NEW c, container' = [container EXCEPT ![id] = c]
      PROVE  \A other \in Foreign : container'[other] = container[other]
    BY <1>0, <1>2, Kinds DEF Tables
<1>3. ASSUME NEW r \in Runs,
             \/ Create(r) \/ Pull(r) \/ Observe(r) \/ Address(r) \/ Ends(r)
             \/ Terminate(r) \/ ForceRemove(r)
      PROVE  container' = container \/ \E c : container' = [container EXCEPT ![r] = c]
  <2>1. CASE Create(r)
      BY <2>1 DEF Create
  <2>2. CASE Pull(r) \/ Observe(r) \/ Terminate(r)
      BY <2>2 DEF Pull, Observe, Terminate, Daemon
  <2>3. CASE Address(r)
    <3>1. \/ container' = container
          \/ container' = [container EXCEPT ![r] = [container[r] EXCEPT !.state = "running"]]
        BY <1>0, <2>3 DEF Address, Tables
    <3> QED BY <3>1
  <2>4. CASE Ends(r)
      BY <2>4 DEF Ends
  <2>5. CASE ForceRemove(r)
      BY <2>5 DEF ForceRemove
  <2> QED BY <1>3, <2>1, <2>2, <2>3, <2>4, <2>5
<1>4. ASSUME NEW request \in Requests, Other(request)
      PROVE  \A other \in Foreign : container'[other] = container[other]
  <2>1. PICK c : /\ Outcome(request.target, c)
                 /\ container' = [container EXCEPT ![request.target] = c]
      BY <1>4, OtherReaches
  <2>2. CASE c = container[request.target]
      BY <1>0, <2>1, <2>2 DEF Tables, Ids
  <2>3. CASE request.target \in Runs \cup {Stray}
      BY <1>2, <2>1, <2>3
  <2> QED BY <2>1, <2>2, <2>3 DEF Outcome
<1>5. CASE (\E r \in Runs : Ask(r)) \/ PluginStops \/ PluginStarts \/ UNCHANGED channelVars
    BY <1>5 DEF Ask, PluginStops, PluginStarts, Daemon, channelVars
<1> QED BY <1>1, <1>2, <1>3, <1>4, <1>5 DEF ChannelStep

\* The plugin admits the removal of a run's container by its name, whatever it
\* remembers.
LEMMA RemovalAllowed ==
    ASSUME "firecrow-backend" \in AllowedCns, NEW r \in Runs, up
    PROVE  Decide(Of(r, "remove"))
<1> DEFINE request == Of(r, "remove")
<1>1. /\ request.tls /\ request.cn = "firecrow-backend" /\ request.path = "versioned"
      /\ request.op = "remove" /\ request.byName /\ request.target = r
    BY DEF Of
<1> HIDE DEF request
<1>2. Identified(request) /\ Endpoint(request) = "remove" /\ TargetPolicy(request.target, request.byName)
    BY <1>1 DEF Identified, Endpoint, TargetPolicy, ScannerName
<1>3. Decide(request)
    BY <1>2 DEF Decide
<1> QED BY <1>3 DEF request

-------------------------------------------------------------------------------
(* The egress proxy: what a connection has been judged by, at each stage.     *)

Vetted(answer) == answer \in Seq(STRING) /\ \A k \in DOMAIN answer : AddressAllowed(answer[k])

Stage(s) ==
    \/ s.at \in {"idle", "head"}
    \/ s.at = "resolve" /\ TargetAllowed(s.host, s.port)
    \/ /\ s.at = "connect" /\ TargetAllowed(s.host, s.port)
       /\ Vetted(s.answer) /\ s.k \in Nat \ {0}
       /\ s = [at |-> "connect", from |-> s.from, host |-> s.host, port |-> s.port,
               answer |-> s.answer, k |-> s.k]
    \/ s.at = "tunnel" /\ TargetAllowed(s.host, s.port) /\ AddressAllowed(s.ip)

EgressInv ==
    /\ dns \in Answers
    /\ conn = [c \in Conns |-> conn[c]]
    /\ \A c \in Conns : Stage(conn[c])
    /\ \A host \in asked : host.kind = "name" /\ host.domain \in Approved

LEMMA EgressInvInit == EgressInit => EgressInv
BY DEF EgressInit, EgressInv, Stage, NoConn

\* A connection that is served stays the connection of whoever opened it.
Follows(c, s) == Stage(s) /\ (s.at # "idle" => conn[c].at # "idle" /\ s.from = conn[c].from)

LEMMA Advances ==
    ASSUME EgressInv, NEW c \in Conns,
           \/ \E head \in Heads : ReadHead(c, head)
           \/ Resolve(c) \/ Connect(c) \/ Closes(c)
    PROVE  \E s : Follows(c, s) /\ Becomes(c, s)
<1>1. Stage(conn[c]) /\ dns \in Answers
    BY DEF EgressInv
<1>2. Follows(c, NoConn)
    BY DEF Follows, NoConn, Stage
<1>3. ASSUME NEW head \in Heads, ReadHead(c, head) PROVE \E s : Follows(c, s) /\ Becomes(c, s)
  <2> DEFINE s == [at |-> "resolve", from |-> conn[c].from, host |-> head.host, port |-> head.port]
  <2>1. CASE head.readable /\ TargetAllowed(head.host, head.port)
    <3>1. Follows(c, s)
        BY <1>3, <2>1 DEF Follows, Stage, ReadHead
    <3> QED BY <1>3, <2>1, <3>1 DEF ReadHead
  <2>2. CASE ~(head.readable /\ TargetAllowed(head.host, head.port))
      BY <1>2, <1>3, <2>2 DEF ReadHead
  <2> QED BY <2>1, <2>2
<1>4. CASE Resolve(c)
  <2> DEFINE s == [at |-> "connect", from |-> conn[c].from, host |-> conn[c].host,
                   port |-> conn[c].port, answer |-> dns, k |-> 1]
             public == dns # <<>> /\ \A k \in DOMAIN dns : AddressAllowed(dns[k])
  <2>1. conn[c].at = "resolve" /\ Becomes(c, IF public THEN s ELSE NoConn)
      BY <1>4 DEF Resolve
  <2>2. ASSUME public PROVE Follows(c, s)
    <3>1. Vetted(dns)
        BY <1>1, <2>2, EgressAssumption DEF Vetted
    <3>2. TargetAllowed(conn[c].host, conn[c].port)
        BY <1>1, <2>1 DEF Stage
    <3> QED BY <2>1, <3>1, <3>2 DEF Follows, Stage
  <2> HIDE DEF s, public
  <2> QED BY <1>2, <2>1, <2>2
<1>5. CASE Connect(c)
  <2> DEFINE k == conn[c].k
             answer == conn[c].answer
             open == [at |-> "tunnel", from |-> conn[c].from, host |-> conn[c].host,
                      port |-> conn[c].port, ip |-> answer[k]]
             next == [conn[c] EXCEPT !.k = k + 1]
  <2>1. /\ conn[c].at = "connect" /\ TargetAllowed(conn[c].host, conn[c].port)
        /\ Vetted(answer) /\ k \in Nat \ {0}
        /\ conn[c] = [at |-> "connect", from |-> conn[c].from, host |-> conn[c].host,
                      port |-> conn[c].port, answer |-> answer, k |-> k]
      BY <1>1, <1>5 DEF Stage, Connect
  <2>2. \/ k <= Len(answer) /\ Becomes(c, open)
        \/ Becomes(c, IF k < Len(answer) THEN next ELSE NoConn)
      BY <1>5 DEF Connect, Candidates
  <2>3. ASSUME k <= Len(answer) PROVE Follows(c, open)
    <3>1. k \in DOMAIN answer
        BY <2>1, <2>3 DEF Vetted
    <3>2. AddressAllowed(answer[k])
        BY <2>1, <3>1 DEF Vetted
    <3> QED BY <2>1, <3>2 DEF Follows, Stage
  <2>4. Follows(c, next)
    <3>1. next = [at |-> "connect", from |-> conn[c].from, host |-> conn[c].host,
                  port |-> conn[c].port, answer |-> answer, k |-> k + 1]
        BY <2>1
    <3>2. k + 1 \in Nat \ {0}
        BY <2>1
    <3> HIDE DEF next, k, answer
    <3> QED BY <2>1, <3>1, <3>2 DEF Follows, Stage
  <2> HIDE DEF next, open
  <2> QED BY <1>2, <2>2, <2>3, <2>4
<1>6. CASE Closes(c)
    BY <1>2, <1>6 DEF Closes
<1> QED BY <1>3, <1>4, <1>5, <1>6

\* What happens at the proxy: one connection moves on, or the resolver changes its mind.
LEMMA EgressMoves ==
    ASSUME EgressInv, EgressStep
    PROVE  \/ conn' = conn
           \/ \E c \in Conns : \E s : Follows(c, s) /\ Becomes(c, s)
<1>1. CASE AnswerChanges
    BY <1>1 DEF AnswerChanges
<1>2. CASE ~AnswerChanges
    BY <1>2, Advances DEF EgressStep
<1> QED BY <1>1, <1>2

LEMMA EgressInvStep ==
    ASSUME EgressInv,
           \/ EgressStep \/ UNCHANGED egressVars
           \/ \E c \in Conns, id \in Runs \cup {Stray} : Accept(c, id)
    PROVE  EgressInv'
<1>1. conn = [c \in Conns |-> conn[c]] /\ \A c \in Conns : Stage(conn[c])
    BY DEF EgressInv
<1>2. ASSUME NEW c \in Conns, NEW s, Stage(s), Becomes(c, s)
      PROVE  conn' = [d \in Conns |-> conn'[d]] /\ \A d \in Conns : Stage(conn'[d])
  <2>1. conn' = [d \in Conns |-> IF d = c THEN s ELSE conn[d]]
      BY <1>1, <1>2 DEF Becomes
  <2>2. \A d \in Conns : conn'[d] = s \/ conn'[d] = conn[d]
      BY <2>1
  <2> QED BY <1>1, <1>2, <2>1, <2>2
<1>3. conn' = [d \in Conns |-> conn'[d]] /\ \A d \in Conns : Stage(conn'[d])
  <2>1. CASE conn' = conn
      BY <1>1, <2>1
  <2>2. CASE EgressStep /\ conn' # conn
      BY <1>2, <2>2, EgressMoves DEF Follows
  <2>3. CASE \E c \in Conns, id \in Runs \cup {Stray} : Accept(c, id)
    <3>1. PICK c \in Conns, id \in Runs \cup {Stray} : Accept(c, id)
        BY <2>3
    <3>2. Stage([at |-> "head", from |-> id])
        BY DEF Stage
    <3> QED BY <1>2, <3>1, <3>2 DEF Accept
  <2> QED BY <2>1, <2>2, <2>3 DEF egressVars
<1>4. dns' \in Answers
    BY DEF EgressInv, EgressStep, AnswerChanges, ReadHead, Resolve, Connect, Closes, Accept,
           Lookups, egressVars
<1>5. \A host \in asked' : host.kind = "name" /\ host.domain \in Approved
  <2>1. CASE asked' = asked
      BY <2>1 DEF EgressInv
  <2>2. CASE \E c \in Conns : Resolve(c)
    <3>1. PICK c \in Conns : Resolve(c)
        BY <2>2
    <3>2. asked' = asked \cup {conn[c].host} /\ TargetAllowed(conn[c].host, conn[c].port)
        BY <1>1, <3>1 DEF Resolve, Stage
    <3> QED BY <3>2 DEF EgressInv, TargetAllowed
  <2> QED BY <2>1, <2>2 DEF EgressStep, AnswerChanges, ReadHead, Connect, Closes, Accept,
                            Lookups, egressVars
<1> QED BY <1>3, <1>4, <1>5 DEF EgressInv

LEMMA EgressApproves == EgressInv => EgressIsApproved
<1> SUFFICES ASSUME EgressInv PROVE EgressIsApproved
    OBVIOUS
<1>1. ASSUME NEW c \in Conns, conn[c].at = "tunnel"
      PROVE  /\ Reached(conn[c].ip) \in {"public", "public6"}
             /\ conn[c].port \in {443, 53} /\ conn[c].host.domain \in Approved
  <2>1. TargetAllowed(conn[c].host, conn[c].port) /\ AddressAllowed(conn[c].ip)
      BY <1>1 DEF EgressInv, Stage
  <2> QED BY <2>1 DEF TargetAllowed, AddressAllowed
<1> QED BY <1>1 DEF EgressInv, EgressIsApproved

-------------------------------------------------------------------------------
(* The two together.                                                          *)

\* Who talks to the proxy: of the runs only an accepted one of the dependency scanner.
Origin(s) ==
    s.at # "idle" /\ s.from \in Runs => Accepted(s.from) /\ spec[s.from].image = Osv
Origins == \A c \in Conns : Origin(conn[c])

\* Once accepted, a run stays accepted, with the spec it was accepted with.
LEMMA StaysAccepted ==
    ASSUME ChannelInv, (\E r \in Runs : Ask(r)) \/ ChannelStep, NEW p \in Runs, Accepted(p)
    PROVE  Accepted(p)' /\ spec'[p] = spec[p]
<1>1. Tables
    BY DEF ChannelInv
<1>2. ASSUME NEW r \in Runs, NEW to, Goes(r, to), to \notin {"idle", "refused"}
      PROVE  Accepted(p)'
    BY <1>1, <1>2 DEF Accepted, Goes, Tables
<1>3. CASE \E r \in Runs : Ask(r)
  <2>1. PICK r \in Runs : Ask(r)
      BY <1>3
  <2>2. PICK s : spec' = [spec EXCEPT ![r] = s]
      BY <2>1 DEF Ask
  <2>3. PICK to : Goes(r, to)
      BY <2>1 DEF Ask
  <2>4. p # r
      BY <2>1 DEF Ask, Accepted
  <2> QED BY <1>1, <2>2, <2>3, <2>4 DEF Accepted, Goes, Tables
<1>4. CASE ChannelStep
  <2>1. spec' = spec
      BY <1>4 DEF ChannelStep, Create, Pull, Observe, Address, Ends, Terminate, ForceRemove,
                  PluginStops, PluginStarts, Other
  <2>2. ASSUME NEW r \in Runs,
               \/ Create(r) \/ Pull(r) \/ Observe(r) \/ Address(r) \/ Ends(r)
               \/ Terminate(r) \/ ForceRemove(r)
        PROVE  Accepted(p)'
    <3>1. CASE Create(r)
      <4>1. Goes(r, "failed") \/ Goes(r, "pull") \/ Goes(r, "created")
          BY <3>1 DEF Create
      <4> QED BY <1>2, <4>1
    <3>2. CASE Pull(r)
      <4>1. Goes(r, "failed") \/ Goes(r, "create")
          BY <3>2 DEF Pull
      <4> QED BY <1>2, <4>1
    <3>3. CASE Observe(r)
      <4>1. Goes(r, "failed") \/ Goes(r, "attach")
          BY <3>3 DEF Observe
      <4> QED BY <1>2, <4>1
    <3>4. CASE Address(r)
      <4>1. Goes(r, "failed") \/ Goes(r, "wait") \/ Goes(r, "start") \/ Goes(r, "running")
          BY <3>4 DEF Address, After
      <4> QED BY <1>2, <4>1
    <3>5. CASE Ends(r)
        BY <1>1, <3>5 DEF Ends, Accepted, Tables
    <3>6. CASE Terminate(r)
        BY <1>2, <3>6 DEF Terminate
    <3>7. CASE ForceRemove(r)
        BY <1>2, <3>7 DEF ForceRemove
    <3> QED BY <2>2, <3>1, <3>2, <3>3, <3>4, <3>5, <3>6, <3>7
  <2>3. ASSUME step' = step PROVE Accepted(p)'
      BY <2>3 DEF Accepted
  <2> QED BY <1>4, <2>1, <2>2, <2>3 DEF ChannelStep, PluginStops, PluginStarts, Other
<1> QED BY <1>3, <1>4

\* A run on the internal network is the dependency scanner's.
LEMMA OnlineIsOsv ==
    ASSUME ChannelInv, NEW r \in Runs, Online(r)
    PROVE  Accepted(r) /\ spec[r].image = Osv
<1>1. Judged(r) /\ Built(r) /\ Exists(r) /\ container[r].body.network = "scanners-internal"
    BY DEF ChannelInv, Online, Exists, Has
<1>2. Accepted(r) /\ container[r].body = Argv(spec[r]) /\ Policy(spec[r])
    BY <1>1 DEF Built, Judged
<1>3. spec[r].network = "scanners-internal"
    BY <1>1, <1>2 DEF Argv
<1> QED BY <1>2, <1>3 DEF Policy, Executions

BoundaryInv == ChannelInv /\ EgressInv /\ Origins

LEMMA BoundaryInvInit == Init => BoundaryInv
<1> SUFFICES ASSUME Init PROVE BoundaryInv
    OBVIOUS
<1>1. Origins
    BY DEF Init, EgressInit, NoConn, Origins, Origin
<1> QED BY <1>1, ChannelInvInit, EgressInvInit DEF Init, BoundaryInv

LEMMA BoundaryInvStep == BoundaryInv /\ [Next]_vars => BoundaryInv'
<1> SUFFICES ASSUME BoundaryInv, [Next]_vars PROVE BoundaryInv'
    OBVIOUS
<1>0. ChannelInv /\ EgressInv /\ Origins
    BY DEF BoundaryInv
<1>1. CASE ((\E r \in Runs : Ask(r)) \/ ChannelStep) /\ UNCHANGED egressVars
  <2>1. ChannelInv' /\ EgressInv'
      BY <1>0, <1>1, ChannelInvStep, EgressInvStep
  <2>2. ASSUME NEW c \in Conns PROVE Origin(conn[c])'
    <3>1. Origin(conn[c]) /\ conn' = conn
        BY <1>0, <1>1 DEF Origins, egressVars
    <3>2. \A p \in Runs : Accepted(p) => Accepted(p)' /\ spec'[p] = spec[p]
        BY <1>0, <1>1, StaysAccepted
    <3> QED BY <3>1, <3>2 DEF Origin, Accepted
  <2> QED BY <2>1, <2>2 DEF BoundaryInv, Origins
<1>2. CASE (\E c \in Conns, id \in Runs \cup {Stray} : Opens(c, id)) /\ UNCHANGED channelVars
  <2>1. PICK c \in Conns, id \in Runs \cup {Stray} : Opens(c, id)
      BY <1>2
  <2>2. ChannelInv' /\ EgressInv'
      BY <1>0, <1>2, <2>1, ChannelInvStep, EgressInvStep DEF Opens
  <2>3. ASSUME NEW d \in Conns PROVE Origin(conn[d])'
    <3>1. UNCHANGED <<step, spec>>
        BY <1>2 DEF channelVars
    <3>2. CASE conn'[d] = conn[d]
        BY <1>0, <3>1, <3>2 DEF Origins, Origin, Accepted
    <3>3. CASE conn'[d] = [at |-> "head", from |-> id] /\ Online(id)
      <4>1. id \in Runs => Accepted(id) /\ spec[id].image = Osv
          BY <1>0, <3>3, OnlineIsOsv
      <4> QED BY <3>1, <3>3, <4>1 DEF Origin, Accepted
    <3>4. conn' = [conn EXCEPT ![c] = [at |-> "head", from |-> id]] /\ Online(id)
        BY <2>1 DEF Opens, Accept, Becomes
    <3> QED BY <1>0, <3>2, <3>3, <3>4 DEF EgressInv
  <2> QED BY <2>2, <2>3 DEF BoundaryInv, Origins
<1>3. CASE EgressStep /\ UNCHANGED channelVars
  <2>1. ChannelInv' /\ EgressInv'
      BY <1>0, <1>3, ChannelInvStep, EgressInvStep
  <2>2. UNCHANGED <<step, spec>>
      BY <1>3 DEF channelVars
  <2>3. ASSUME NEW d \in Conns PROVE Origin(conn[d])'
    <3>1. CASE conn'[d] = conn[d]
        BY <1>0, <2>2, <3>1 DEF Origins, Origin, Accepted
    <3>2. CASE conn'[d] # conn[d]
      <4>1. PICK c \in Conns : \E s : Follows(c, s) /\ Becomes(c, s)
          BY <1>0, <1>3, <3>2, EgressMoves
      <4>2. PICK s : Follows(c, s) /\ conn' = [conn EXCEPT ![c] = s]
          BY <4>1 DEF Becomes
      <4>3. conn'[d] = s /\ c = d
          BY <1>0, <3>2, <4>2 DEF EgressInv
      <4>4. Origin(conn[d])
          BY <1>0 DEF Origins
      <4> QED BY <2>2, <4>2, <4>3, <4>4 DEF Follows, Origin, Accepted
    <3> QED BY <3>1, <3>2
  <2> QED BY <2>1, <2>3 DEF BoundaryInv, Origins
<1>4. CASE UNCHANGED vars
  <2>1. ChannelInv' /\ EgressInv'
      BY <1>0, <1>4, ChannelInvStep, EgressInvStep DEF vars
  <2>2. UNCHANGED <<step, spec, conn>>
      BY <1>4 DEF vars, channelVars, egressVars
  <2>3. Origins'
      BY <1>0, <2>2 DEF Origins, Origin, Accepted
  <2> QED BY <2>1, <2>3 DEF BoundaryInv
<1> QED BY <1>1, <1>2, <1>3, <1>4 DEF Next, Asks

LEMMA BoundaryInvHolds == Spec => []BoundaryInv
BY BoundaryInvInit, BoundaryInvStep, PTL DEF Spec

-------------------------------------------------------------------------------
\* Whatever the sandbox is asked to run, whatever else is sent over the channel and
\* whenever the plugin restarts, and whatever is asked of the proxy and the resolver
\* answers: a run's container is confined in everything the daemon reads of its
\* request, anybody else's in every field the plugin looks at; every connection that
\* is open is to a public address for an approved name; and of the runs only the
\* dependency scanner's talks (create_policy, enforce_execution_policy, docker_argv
\* and egress_proxy.rs together). Of what a request of somebody else says where the
\* plugin does not look it claims nothing: see DeniedByDefault.
THEOREM BoundaryAlwaysHolds == Spec => []BoundaryHolds
<1>1. BoundaryInv => BoundaryHolds
  <2>1. BoundaryInv => OnlyDependencyScanTalks
      BY DEF BoundaryInv, Origins, Origin, OnlyDependencyScanTalks, Serving
  <2> QED BY <2>1, ChannelContains, EgressApproves DEF BoundaryInv, BoundaryHolds
<1> QED BY <1>1, BoundaryInvHolds, PTL

\* No request over the channel, and no order of them across restarts of the plugin,
\* changes a container that was not created over it (target_policy, observe).
THEOREM NobodyElseIsTouched == Spec => OthersUntouched
<1>1. BoundaryInv /\ [Next]_vars => [\A id \in Foreign : container'[id] = container[id]]_channelVars
  <2> SUFFICES ASSUME BoundaryInv, [Next]_vars
               PROVE  \A id \in Foreign : container'[id] = container[id]
      OBVIOUS
  <2>1. (\E r \in Runs : Ask(r)) \/ ChannelStep \/ UNCHANGED channelVars
      BY DEF Next, Asks, vars
  <2> QED BY <2>1, ForeignKept DEF BoundaryInv
<1> QED BY <1>1, BoundaryInvHolds, PTL DEF Spec, OthersUntouched

\* With the backend's certificate among those the plugin admits, as it is deployed
\* (docker-compose.yml:63), a container of a run can be removed whenever the plugin
\* answers, also after a restart in which it forgot every identifier (target_policy).
THEOREM RunsCanBeRemoved == ASSUME "firecrow-backend" \in AllowedCns PROVE Spec => []Removable
<1>1. Removable
    BY RemovalAllowed DEF Removable
<1> QED BY <1>1, PTL
===============================================================================
