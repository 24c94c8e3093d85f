---------------------------- MODULE AcoNeighbors -----------------------------
(***************************************************************************)
(* The neighbour list (src/aco/model/aco-neighbor.{h,cc}): who has been    *)
(* heard of lately, and a report through m_handleLinkFailure when a link   *)
(* is lost, by silence or by a transmission error.                         *)
(*                                                                         *)
(* The vector holds one entry for each address, in no order that matters,  *)
(* so it is a set of entries; each carries the number of its link, counted *)
(* from the first, so that links opened again can be told apart.  The      *)
(* member "close" is set and acted upon in one event and never seen        *)
(* between events: it is the set of entries that ProcessTxError closes.    *)
(***************************************************************************)
EXTENDS Integers

CONSTANTS
    Addrs,       \* addresses of the neighbours
    Macs,        \* their hardware addresses
    NoMac,       \* Mac48Address(): not known to any ARP cache
    Delay,       \* the delay of m_ntimer
    Lifetimes,   \* the lifetimes Update is called with
    MaxOpened,   \* bound: links opened in a behaviour
    MaxTime      \* bound: the last instant

ASSUME NeighborsAssumption ==
    /\ NoMac \notin Macs
    /\ Delay \in Nat \ {0}
    /\ Lifetimes \subseteq Nat
    /\ MaxOpened \in Nat /\ MaxTime \in Nat

VARIABLES
    now,        \* Simulator::Now()
    nb,         \* m_nb
    ntimer,     \* m_ntimer: the instant it expires, or NotRunning
    opened,     \* history: how many links have been opened
    promises,   \* history: until when each link was said to live
    down,       \* history: the links reported to m_handleLinkFailure
    cleared,    \* history: the links removed by Clear
    rearmed     \* history: when ScheduleTimer was last called

neighborsVars == <<now, nb, ntimer, opened, promises, down, cleared, rearmed>>

NotRunning == -1

Neighbor == [addr : Addrs, mac : Macs \cup {NoMac}, expire : Nat, link : Nat]

NeighborsTypeOK ==
    /\ now \in Nat
    /\ nb \subseteq Neighbor
    /\ ntimer \in (now .. now + Delay) \cup {NotRunning}
    /\ opened \in Nat
    /\ promises \subseteq [link : Nat, until : Nat]
    /\ down \subseteq Nat
    /\ cleared \subseteq Nat
    /\ rearmed \in Nat

NeighborsInit ==
    /\ now = 0 /\ nb = {} /\ ntimer = NotRunning
    /\ opened = 0 /\ promises = {} /\ down = {} /\ cleared = {} /\ rearmed = 0

-----------------------------------------------------------------------------
\* The predicate CloseNeighbor.
Closed(e, broken) == e.expire < now \/ e \in broken

\* What becomes of the timer when N is purged: only a list that is not empty sets it
\* again.  (Mutants: nothing does; the delay is taken for an instant.)
TimerLeftAlone(N, timer) == timer

TimerAtDelay(N, timer) == IF N = {} THEN timer ELSE Delay

TimerAfter(N, timer) == IF N = {} THEN timer ELSE now + Delay

\* Mutant: what is reported is tested apart from what is erased, and without "close".
ReportExpired(N, broken, timer) ==
    /\ nb' = {e \in N : ~Closed(e, broken)}
    /\ down' = down \cup {e.link : e \in {f \in N : Closed(f, {})}}
    /\ ntimer' = TimerAfter(N, timer)

\* Purge of the list N, with the entries "broken" marked closed and m_ntimer at "timer".
Purge(N, broken, timer) ==
    LET lost == {e \in N : Closed(e, broken)}
    IN  /\ nb' = N \ lost
        /\ down' = down \cup {e.link : e \in lost}
        /\ ntimer' = TimerAfter(N, timer)

\* IsNeighbor and GetExpireTime.
Lookup ==
    /\ Purge(nb, {}, ntimer)
    /\ UNCHANGED <<now, opened, promises, cleared, rearmed>>

Heard(a) == {e \in nb : e.addr = a}

Longer(s, t) == IF s > t THEN s ELSE t

\* LookupMacAddress asks the ARP caches: the address is resolved now, or not yet.
LookupMacAddress == Macs \cup {NoMac}

\* The entry e after another Update.  (Mutant: the latest lifetime wins, not the longest.)
Overwritten(e, until, mac) ==
    [e EXCEPT !.expire = until, !.mac = IF @ = NoMac THEN mac ELSE @]

Refreshed(e, until, mac) ==
    [e EXCEPT !.expire = Longer(until, @), !.mac = IF @ = NoMac THEN mac ELSE @]

\* Update of a listed neighbour, even of one whose time is over and whose end has not
\* been noticed: no Purge.
Refresh(a, until, mac) ==
    \E e \in Heard(a) :
        /\ nb' = (nb \ {e}) \cup {Refreshed(e, until, mac)}
        /\ promises' = promises \cup {[link |-> e.link, until |-> until]}
        /\ UNCHANGED <<now, ntimer, opened, down, cleared, rearmed>>

\* Update of a neighbour not listed.
Open(a, until, mac) ==
    LET new == [addr |-> a, mac |-> mac, expire |-> until, link |-> opened + 1]
    IN  /\ Heard(a) = {}
        /\ opened < MaxOpened
        /\ opened' = opened + 1
        /\ promises' = promises \cup {[link |-> opened + 1, until |-> until]}
        /\ Purge(nb \cup {new}, {}, ntimer)
        /\ UNCHANGED <<now, cleared, rearmed>>

Update(a, lifetime) ==
    \E mac \in LookupMacAddress :
        Refresh(a, now + lifetime, mac) \/ Open(a, now + lifetime, mac)

\* The neighbours a transmission error to mac closes.
Broken(mac) == {e \in nb : e.mac = mac}

ProcessTxError(mac) ==
    /\ Purge(nb, Broken(mac), ntimer)
    /\ UNCHANGED <<now, opened, promises, cleared, rearmed>>

\* m_ntimer expires and calls Purge.
TimerExpires ==
    /\ ntimer = now
    /\ Purge(nb, {}, NotRunning)
    /\ UNCHANGED <<now, opened, promises, cleared, rearmed>>

\* The timer starts over, without a Purge.
ScheduleTimer ==
    /\ ntimer' = now + Delay
    /\ rearmed' = now
    /\ UNCHANGED <<now, nb, opened, promises, down, cleared>>

Clear ==
    /\ nb' = {}
    /\ cleared' = cleared \cup {e.link : e \in nb}
    /\ UNCHANGED <<now, ntimer, opened, promises, down, rearmed>>

NeighborsTick ==
    /\ now < MaxTime
    /\ ntimer # now
    /\ now' = now + 1
    /\ UNCHANGED <<nb, ntimer, opened, promises, down, cleared, rearmed>>

NeighborsNext ==
    \/ Lookup
    \/ \E a \in Addrs, t \in Lifetimes : Update(a, t)
    \/ \E mac \in Macs : ProcessTxError(mac)
    \/ TimerExpires
    \/ ScheduleTimer
    \/ Clear
    \/ NeighborsTick

NeighborsSpec == NeighborsInit /\ [][NeighborsNext]_neighborsVars

-----------------------------------------------------------------------------
\* A lost link is noticed at most Delay after the neighbour's time is over, whoever
\* else calls Purge and restarts the timer: the timer is never lost while somebody is
\* listed (Purge sets it again only if the list is not empty).  ScheduleTimer, which
\* restarts it without a Purge, is the one call that puts the notice off.
NoticedInTime == \A e \in nb : now <= Longer(e.expire, rearmed) + Delay

\* Every link ever opened is listed, was reported as lost or was cleared, exactly one
\* of the three, and an address has one link at a time (Update, Purge).
LinksAccounted ==
    LET listed == {e.link : e \in nb}
    IN  /\ listed \cup down \cup cleared = 1..opened
        /\ listed \cap down = {} /\ listed \cap cleared = {} /\ down \cap cleared = {}
        /\ \A e, f \in nb : e.link = f.link \/ e.addr = f.addr => e = f

\* A link is given up while the longest promise of its Updates still runs only for a
\* transmission error: its hardware address was known, and nobody with that hardware
\* address is kept (ProcessTxError; Update takes the longer lifetime).
PromisesKept ==
    [][\A e \in nb :
          (e.link \in down' \ down /\ \E p \in promises : p.link = e.link /\ p.until >= now) =>
              e.mac # NoMac /\ \A f \in nb' : f.mac # e.mac]_neighborsVars
=============================================================================
