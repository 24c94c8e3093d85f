------------------------ MODULE AcoRoutingProperties -------------------------
(***************************************************************************)
(* What AcoRouting has to guarantee, and what the comments of the code say *)
(* of it.  The properties in the second part are contradicted by the code: *)
(* the runs that check them expect the counterexample.                     *)
(***************************************************************************)
EXTENDS AcoRouting

SameAnt(f, g) == f.src = g.src /\ f.id = g.id

SameErrand(a, b) == a.src = b.src /\ a.dst = b.dst

Arrived(f) == f \in air /\ f \notin air'

\* At most one backward ant of a discovery is in flight at any time: it is a token
\* that walks home (aco-routing-protocol.cc RecvAco), although nothing in the B-ANT
\* branch looks for duplicates: it rests on the duplicate filter of the F-ANT branch.
SingleBackwardAnt ==
    \A f, g \in air :
        f.kind = "B-ANT" /\ g.kind = "B-ANT" /\ SameAnt(f, g) => f = g

\* Every ant in flight is one its source launched, for that destination, and a
\* backward ant was answered by a destination that did receive the forward one
\* (RecvAco copies source, destination and id from frame to frame).
AntsAuthentic ==
    \A f \in air : f.kind # "DATA" =>
        /\ \E a \in ants : a.src = f.src /\ a.dst = f.dst /\ a.id = f.id
        /\ f.kind = "B-ANT" => <<f.src, f.id>> \in visited[f.dst]

\* A route never leads to a node that has no idea of the destination: the next hop
\* is the destination itself or a node that has had an entry for it, and never the
\* node that holds the route (RecvAco, both branches: "sender" becomes the next hop).
NextHopKnewRoute ==
    \A n, d \in Nodes : HasRoute(rtable[n], d) =>
        LET hop == rtable[n][d].nextHop
        IN  hop # n /\ (hop = d \/ d \in known[hop])

\* A node never puts the same forward ant on the air twice, except its own: each
\* transmission is a launch with a fresh id or goes with the ant's key entering
\* m_seenAnts, whichever handler runs (RecvAco, RouteOutput nested in it, timers).
StormBound ==
    [][\A f \in air' \ air : f.kind = "F-ANT" =>
          \/ f.ipSrc = f.src /\ f.id = requestId[f.src] + 1 /\ f.id = requestId'[f.src]
          \/ f.id \notin seenAnts[f.ipSrc] /\ f.id \in seenAnts'[f.ipSrc]]_vars

\* A table entry of any node, seen as the abstract route of RouteLifecycle.
Route(n, d) ==
    INSTANCE RouteLifecycle WITH
        state <- IF HasRoute(rtable[n], d) THEN rtable[n][d].flag ELSE "UNKNOWN",
        expires <- IF HasRoute(rtable[n], d) THEN rtable[n][d].lifeTime ELSE 0

\* The table of every node implements the abstract life of a route, through every
\* handler: lookups that purge, breadcrumbs, reinforcement, evaporation and deletion.
\* (Every Route(n, d)!LifeSpec at once, in the form TLC evaluates.)
RoutesAgeAsPromised ==
    /\ \A n, d \in Nodes : Route(n, d)!LifeInit
    /\ [][\A n, d \in Nodes : [Route(n, d)!LifeNext]_(Route(n, d)!lifeVars)]_vars

\* The ant with number i of node s, seen as the abstract ant of AntDiscovery.
Goals(s, i) == {a.dst : a \in {b \in ants : b.src = s /\ b.id = i}}

Reached(s, i) == {n \in Nodes : <<s, i>> \in visited[n]}

AnswerState(s, i) ==
    IF Goals(s, i) \cap Reached(s, i) = {} THEN "none"
    ELSE IF \E f \in air : f.kind = "B-ANT" /\ f.src = s /\ f.id = i THEN "walking"
    ELSE "over"

Ant(s, i) ==
    INSTANCE AntDiscovery WITH
        goals <- Goals(s, i),
        reached <- Reached(s, i),
        answer <- AnswerState(s, i)

\* Every ant of every node implements the abstract discovery: whatever is lost, doubled by
\* the radio's broadcasts or started from inside a handler, the goal answers once.
\* (Every Ant(s, i)!AntSpec at once; MaxSends bounds the numbers TLC looks at.)
AntsAnsweredOnce ==
    /\ \A s \in Nodes, i \in 1..MaxSends : Ant(s, i)!AntInit
    /\ [][\A s \in Nodes, i \in 1..MaxSends : [Ant(s, i)!AntNext]_(Ant(s, i)!antVars)]_vars

\* A node launches at most two ants for one destination in any second, the one a
\* timer sends and the one the next miss sends (RouteOutput, RouteRequestTimerExpire):
\* of three, the last leaves at least a second after the first.
AntRateBounded ==
    \A a, b, c \in ants :
        SameErrand(a, b) /\ SameErrand(b, c) /\ a.id < b.id /\ b.id < c.id =>
            a.at + TicksPerSecond <= c.at

\* Following VALID routes for d runs in a circle: every node of S sends on to one of S,
\* and is the next hop of one of S.
Circle(S, d) ==
    /\ S # {}
    /\ \A n \in S : n # d /\ HasValidRoute(rtable[n], d) /\ rtable[n][d].nextHop \in S
    /\ \A n \in S : \E m \in S : rtable[m][d].nextHop = n

OneAsker == \A a, b \in ants : a.src = b.src

\* As long as one node only has launched ants, for however many destinations and however
\* often, and no route can have expired, following VALID routes never runs in a circle
\* (RecvAco: breadcrumbs and forward routes form trees).  Neither condition can go: two
\* floods or an expired breadcrumb make a circle of two.
LoopFree ==
    now <= RouteLifetime /\ OneAsker =>
        \A d \in Nodes, S \in SUBSET Nodes : ~Circle(S, d)

\* Under the same conditions the breadcrumbs outlive the answers: whoever a backward ant is
\* handed to is its source or still has a VALID breadcrumb to it (RecvAco drops the ant
\* otherwise), whatever lookups, deletions and other answers came between.  (RouteOutput
\* can still lose the ant, for a route to the next hop that has faded below 0.1.)
AnswersFindTheWay ==
    now <= RouteLifetime /\ OneAsker =>
        \A f \in air : f.kind = "B-ANT" =>
            f.ipDst = f.src \/ HasValidRoute(rtable[f.ipDst], f.src)

\* The floods of one asker never shadow each other, in whatever order their copies arrive:
\* an F-ANT is thrown away only by a node that has processed that same ant (RecvAco; the
\* unconditional DuplicatesOnly below fails as soon as two nodes ask).
OwnFloodsUnshadowed ==
    [][OneAsker => \A f \in air :
          (Arrived(f) /\ f.kind = "F-ANT" /\ visited' = visited) =>
              <<f.src, f.id>> \in visited[f.to]]_vars

\* While no entry can have expired, a homecoming backward ant leaves its source with a
\* VALID route, whoever else asks (RecvAco; HomecomingEstablishesRoute below fails once an
\* INVALID entry can be found).
YoungHomecomings ==
    [][now <= RouteLifetime => \A f \in air :
          (Arrived(f) /\ f.kind = "B-ANT" /\ f.to = f.src /\ f.ipDst = f.src) =>
              HasValidRoute(rtable'[f.src], f.dst)]_vars

\* The air falls silent again and again until the first lifetime is over, when one node asks:
\* floods end, answers come home or are lost, packets do not run in circles.  (Once routes
\* have expired circles may form, and the TTL that ends them is not modelled.)
AirFallsSilent == []<>(now <= RouteLifetime /\ OneAsker => air = {})

\* No route can have expired, and none can have faded: evaporation takes at most half, and
\* three evaporations leave an eighth of 1.0, the fourth may leave less than 0.1.
AllRoutesUsable == now < 4 * TicksPerSecond /\ now <= RouteLifetime

\* In a connected network that loses no frame, every discovery brings its requester a route
\* while one node asks and no route can have faded or expired, whatever timers, evaporation
\* and other floods come between: flood, answer and the whole walk back, nested
\* RouteOutputs included (RecvAco, SendRequest).  Later it need not (DestinationAnswers
\* and HomecomingEstablishesRoute below).
DiscoveryCompletes ==
    \A n \in Requesters, d \in Targets : n # d =>
        (addressReqTimer[n][d] # NoTimer ~>
            HasValidRoute(rtable[n], d) \/ ~AllRoutesUsable \/ ~OneAsker)

-----------------------------------------------------------------------------
\* What the proofs need besides, to make those invariants inductive.

\* m_requestId numbers the ants of a node without repetition.
AntsNumbered ==
    /\ \A a \in ants : a.id <= requestId[a.src]
    /\ \A a, b \in ants : SameAnt(a, b) => a = b

\* A broadcast frame is addressed to whoever hears it; a processed ant is in the
\* duplicate filter.
FilterCovers ==
    /\ \A f \in air : f.kind = "F-ANT" => f.ipDst = f.to
    /\ \A n \in Nodes : \A v \in visited[n] : SeenKey(v[1], v[2]) \in seenAnts[n]

\* Nobody sends to himself.  Who hands an ant over has a route to where the ant comes from:
\* to the source of a forward ant, to the destination of a backward one; and a backward
\* ant is handed to its source or to somebody who has had a route there.
Trail(f) ==
    /\ f.ipSrc # f.ipDst
    /\ f.kind = "F-ANT" => f.ipSrc = f.src \/ f.src \in known[f.ipSrc]
    /\ f.kind = "B-ANT" =>
          /\ f.ipSrc = f.dst \/ f.dst \in known[f.ipSrc]
          /\ f.ipDst = f.src \/ f.src \in known[f.ipDst]

TrailsKnown == \A f \in air : Trail(f)

\* The retry bookkeeping of RouteRequestTimerExpire is never in use: no entry is ever
\* IN_SEARCH and none has counted a request.
NoRetryBookkeeping ==
    \A n, d \in Nodes : HasRoute(rtable[n], d) =>
        rtable[n][d].flag # "IN_SEARCH" /\ rtable[n][d].reqCount = 0

\* The inductive invariant.
IndInv ==
    /\ TypeOK
    /\ AntsNumbered
    /\ AntsAuthentic
    /\ FilterCovers
    /\ SingleBackwardAnt
    /\ TrailsKnown
    /\ NextHopKnewRoute
    /\ NoRetryBookkeeping

\* Nobody searches for himself, and a running search began with an ant.
SearchesLaunched ==
    /\ \A a \in ants : a.src # a.dst
    /\ \A n, d \in Nodes : addressReqTimer[n][d] # NoTimer =>
           n # d /\ \E a \in ants : a.src = n

\* Why AntRateBounded is kept: ants leave in the order of their ids, a running timer is
\* a second behind every ant, and when it is not running only the last ant is recent.
RateInv ==
    /\ \A a \in ants : a.at <= now
    /\ \A n, d \in Nodes : LET mine == {a \in ants : a.src = n /\ a.dst = d} IN
           IF addressReqTimer[n][d] # NoTimer
           THEN /\ now <= addressReqTimer[n][d]
                /\ \A a \in mine : a.at + TicksPerSecond <= addressReqTimer[n][d]
           ELSE \A a, b \in mine : a.id < b.id => a.at + TicksPerSecond <= now
    /\ AntRateBounded

\* Before the first lifetime is over every entry is VALID and has that much to live.
FreshTable(T) ==
    \A d \in Nodes : HasRoute(T, d) => T[d].flag = "VALID" /\ T[d].lifeTime >= RouteLifetime

RoutesFresh == now <= RouteLifetime => \A n \in Nodes : FreshTable(rtable[n])

\* m is one step closer to s than n, by m's own table: n is m's way back.
WayBack(n, m, s) == m # s /\ HasRoute(rtable[m], s) /\ rtable[m][s].nextHop = n

\* The four facts that make the routes of a network where only s asks a tree: who ever
\* had a breadcrumb to s has it still, breadcrumbs run in no circle, and a forward route,
\* or the answer that brings one, runs against a breadcrumb.
Tree(s) ==
    /\ \A n \in Nodes \ {s} : s \in known[n] => HasRoute(rtable[n], s)
    /\ \A S \in SUBSET Nodes : ~Circle(S, s)
    /\ \A n \in Nodes, d \in Nodes \ {s} : n # d /\ HasRoute(rtable[n], d) =>
           rtable[n][d].nextHop = d \/ WayBack(n, rtable[n][d].nextHop, s)
    /\ \A f \in air : f.kind = "B-ANT" => f.ipSrc = f.dst \/ WayBack(f.ipDst, f.ipSrc, s)

\* The filter holds nothing but the keys of processed ants, and only launched ants are
\* processed.
FilterHonest ==
    \A n \in Nodes :
        /\ \A v \in visited[n] : \E a \in ants : a.src = v[1] /\ a.id = v[2]
        /\ \A k \in seenAnts[n] : \E v \in visited[n] : SeenKey(v[1], v[2]) = k

Alone(s) == now <= RouteLifetime /\ \A a \in ants : a.src = s

LoopInv ==
    /\ SearchesLaunched
    /\ RoutesFresh
    /\ \A s \in Nodes : Alone(s) => Tree(s)

-----------------------------------------------------------------------------
\* "Prevent infinite broadcast storms using a unique combination of Src IP and Ant
\* ID": an F-ANT is thrown away only by a node that has processed that same ant.
DuplicatesOnly ==
    [][\A f \in air :
          (Arrived(f) /\ f.kind = "F-ANT" /\ visited' = visited) =>
              <<f.src, f.id>> \in visited[f.to]]_vars

\* "Add direct 1-hop route to the neighbor so B-ANTs can step backwards": the
\* destination's answer leaves in the step that processes the forward ant.
DestinationAnswers ==
    [][\A f \in air :
          (Arrived(f) /\ f.kind = "F-ANT" /\ f.to = f.dst /\ visited' # visited) =>
              \E g \in air' : g.kind = "B-ANT" /\ SameAnt(f, g)]_vars

\* "THE B-ANT MADE IT BACK HOME! Multi-hop route is established!": the source of a
\* discovery has a VALID route once its backward ant is processed.
HomecomingEstablishesRoute ==
    [][\A f \in air :
          (Arrived(f) /\ f.kind = "B-ANT" /\ f.to = f.src /\ f.ipDst = f.src) =>
              HasValidRoute(rtable'[f.src], f.dst)]_vars

\* README: "Data packets follow strongest pheromone path": a VALID route moves to
\* another next hop only for a deposit that outweighs what the old one has gathered.
StrongestPathKept ==
    [][\A n, d \in Nodes :
          LET old == rtable[n][d]
              new == rtable'[n][d]
          IN  (HasValidRoute(rtable[n], d) /\ HasValidRoute(rtable'[n], d)
                  /\ new.nextHop # old.nextHop) =>
                 new.pheromone - old.pheromone >= old.pheromone]_vars
=============================================================================
