------------------------- MODULE AcoNeighborsProofs --------------------------
(***************************************************************************)
(* Proofs about AcoNeighbors, for any neighbours, lifetimes and delay.     *)
(*                                                                         *)
(* Every operation but three (Refresh, ScheduleTimer, Clear) is a purge of *)
(* a list that accounts for every link (Accounts): the list as it is, or   *)
(* with one link opened.                                                   *)
(***************************************************************************)
EXTENDS AcoNeighbors, TLAPS

\* The timer runs while somebody is listed, and is set early enough.
TimerRuns ==
    \A e \in nb : ntimer # NotRunning /\ ntimer <= Longer(e.expire, rearmed) + Delay

\* The entry of a link lives as long as any Update has promised.
PromisesCovered ==
    \A p \in promises : p.link <= opened /\ \A e \in nb : p.link = e.link => p.until <= e.expire

NeighborsInv ==
    /\ NeighborsTypeOK
    /\ LinksAccounted
    /\ TimerRuns
    /\ PromisesCovered

\* N may be purged once "op" links have been opened and "pr" promised.
Accounts(N, op, pr) ==
    /\ N \subseteq Neighbor /\ op \in Nat /\ pr \subseteq [link : Nat, until : Nat]
    /\ {e.link : e \in N} \cup down \cup cleared = 1..op
    /\ {e.link : e \in N} \cap down = {} /\ {e.link : e \in N} \cap cleared = {}
    /\ down \cap cleared = {}
    /\ \A e, f \in N : e.link = f.link \/ e.addr = f.addr => e = f
    /\ \A p \in pr : p.link <= op /\ \A e \in N : p.link = e.link => p.until <= e.expire

LEMMA LongerType ==
    \A s, t \in Nat : Longer(s, t) \in Nat /\ Longer(s, t) >= s /\ Longer(s, t) >= t
BY DEF Longer

LEMMA PurgeInv ==
    ASSUME NeighborsInv, NEW N, NEW broken, NEW timer \in (now .. now + Delay) \cup {NotRunning},
           Accounts(N, opened', promises'), Purge(N, broken, timer),
           UNCHANGED <<now, cleared, rearmed>>
    PROVE  NeighborsInv'
<1> DEFINE lost == {e \in N : Closed(e, broken)}
<1>0. /\ now \in Nat /\ Delay \in Nat /\ rearmed \in Nat
      /\ cleared \subseteq Nat /\ down \subseteq Nat
  BY NeighborsAssumption DEF NeighborsInv, NeighborsTypeOK
<1>1. /\ nb' = N \ lost /\ down' = down \cup {e.link : e \in lost}
      /\ ntimer' = TimerAfter(N, timer)
  BY DEF Purge
<1>2. \A e \in N : e.link \in Nat /\ e.expire \in Nat
  BY DEF Accounts, Neighbor
<1>3. \A e \in nb' : e \in N /\ e.expire >= now
  BY <1>0, <1>1, <1>2 DEF Closed
<1>4. NeighborsTypeOK'
  <2>1. nb' \subseteq Neighbor /\ opened' \in Nat /\ promises' \subseteq [link : Nat, until : Nat]
    BY <1>1 DEF Accounts
  <2>2. down' \subseteq Nat
    BY <1>0, <1>1, <1>2
  <2>3. ntimer' \in (now .. now + Delay) \cup {NotRunning}
    BY <1>0, <1>1 DEF TimerAfter
  <2> QED BY <1>0, <2>1, <2>2, <2>3 DEF NeighborsTypeOK
<1>5. LinksAccounted'
  <2> DEFINE kept == {e.link : e \in N \ lost}
             gone == {e.link : e \in lost}
  <2>1. {e.link : e \in N} = kept \cup gone
    OBVIOUS
  <2>2. kept \cap gone = {}
    BY DEF Accounts
  <2>3. kept \cup (down \cup gone) \cup cleared = 1..opened'
    BY <2>1 DEF Accounts
  <2>4. kept \cap (down \cup gone) = {} /\ kept \cap cleared = {} /\ (down \cup gone) \cap cleared = {}
    BY <2>1, <2>2 DEF Accounts
  <2>5. \A e, f \in nb' : e.link = f.link \/ e.addr = f.addr => e = f
    BY <1>3 DEF Accounts
  <2>6. {e.link : e \in nb'} = kept /\ down' = down \cup gone /\ cleared' = cleared
    BY <1>1
  <2> HIDE DEF kept, gone
  <2> QED BY <2>3, <2>4, <2>5, <2>6 DEF LinksAccounted
<1>6. TimerRuns'
  <2> SUFFICES ASSUME NEW e \in nb'
               PROVE  ntimer' # NotRunning /\ ntimer' <= Longer(e.expire, rearmed') + Delay
    BY DEF TimerRuns
  <2>1. ntimer' = now + Delay
    BY <1>1, <1>3 DEF TimerAfter
  <2>2. Longer(e.expire, rearmed) \in Nat /\ Longer(e.expire, rearmed) >= e.expire
    BY <1>0, <1>2, <1>3, LongerType
  <2> QED BY <1>0, <1>2, <1>3, <2>1, <2>2 DEF NotRunning
<1>7. PromisesCovered'
  BY <1>3 DEF Accounts, PromisesCovered
<1> QED BY <1>4, <1>5, <1>6, <1>7 DEF NeighborsInv

LEMMA ListAccounts == ASSUME NeighborsInv PROVE Accounts(nb, opened, promises)
BY DEF NeighborsInv, NeighborsTypeOK, LinksAccounted, PromisesCovered, Accounts

LEMMA OpenAccounts ==
    ASSUME NeighborsInv, NEW a \in Addrs, NEW until \in Nat, NEW mac \in LookupMacAddress,
           Open(a, until, mac)
    PROVE  \E N : Accounts(N, opened', promises') /\ Purge(N, {}, ntimer)
<1> DEFINE new == [addr |-> a, mac |-> mac, expire |-> until, link |-> opened + 1]
           N == nb \cup {new}
<1>1. /\ opened \in Nat /\ nb \subseteq Neighbor /\ promises \subseteq [link : Nat, until : Nat]
      /\ down \subseteq Nat /\ cleared \subseteq Nat
  BY DEF NeighborsInv, NeighborsTypeOK
<1>2. /\ opened' = opened + 1
      /\ promises' = promises \cup {[link |-> opened + 1, until |-> until]}
      /\ Purge(N, {}, ntimer) /\ Heard(a) = {}
  BY DEF Open
<1>3. new \in Neighbor
  BY <1>1 DEF Neighbor, LookupMacAddress
<1>4. new.link = opened + 1 /\ new.addr = a /\ new.expire = until
  OBVIOUS
<1>5. /\ {e.link : e \in nb} \cup down \cup cleared = 1..opened
      /\ {e.link : e \in nb} \cap down = {} /\ {e.link : e \in nb} \cap cleared = {}
      /\ down \cap cleared = {}
      /\ \A e, f \in nb : e.link = f.link \/ e.addr = f.addr => e = f
  BY DEF NeighborsInv, LinksAccounted
<1> HIDE DEF new
<1>6. {e.link : e \in N} = {e.link : e \in nb} \cup {opened + 1}
  BY <1>4
<1>7. 1..opened' = (1..opened) \cup {opened + 1}
  BY <1>1, <1>2
<1>8. opened + 1 \notin 1..opened
  BY <1>1
<1>9. \A e, f \in N : e.link = f.link \/ e.addr = f.addr => e = f
  <2>1. \A e \in nb : e.link # new.link
    BY <1>4, <1>5, <1>8
  <2>2. \A e \in nb : e.addr # new.addr
    BY <1>2, <1>4 DEF Heard
  <2> QED BY <1>5, <2>1, <2>2
<1>10. \A p \in promises' : p.link <= opened' /\ \A e \in N : p.link = e.link => p.until <= e.expire
  <2> SUFFICES ASSUME NEW p \in promises'
               PROVE  p.link <= opened' /\ \A e \in N : p.link = e.link => p.until <= e.expire
    OBVIOUS
  <2>1. CASE p \in promises
    BY <1>1, <1>2, <1>4, <2>1 DEF NeighborsInv, PromisesCovered
  <2>2. CASE p = [link |-> opened + 1, until |-> until]
    <3>1. \A e \in nb : e.link # opened + 1
      BY <1>5, <1>8
    <3> QED BY <1>1, <1>2, <1>4, <2>2, <3>1
  <2> QED BY <1>2, <2>1, <2>2
<1>11. promises' \subseteq [link : Nat, until : Nat]
  BY <1>1, <1>2
<1>12. Accounts(N, opened', promises')
  <2>1. N \subseteq Neighbor /\ opened' \in Nat
    BY <1>1, <1>2, <1>3
  <2>2. {e.link : e \in N} \cup down \cup cleared = 1..opened'
    BY <1>5, <1>6, <1>7
  <2>3. {e.link : e \in N} \cap down = {} /\ {e.link : e \in N} \cap cleared = {}
    BY <1>5, <1>6, <1>8
  <2> HIDE DEF N
  <2> QED BY <1>5, <1>9, <1>10, <1>11, <2>1, <2>2, <2>3 DEF Accounts
<1> QED BY <1>2, <1>12

LEMMA RefreshInv ==
    ASSUME NeighborsInv, NEW a \in Addrs, NEW until \in Nat, NEW mac \in LookupMacAddress,
           Refresh(a, until, mac)
    PROVE  NeighborsInv'
<1>1. PICK e \in Heard(a) :
        /\ nb' = (nb \ {e}) \cup {Refreshed(e, until, mac)}
        /\ promises' = promises \cup {[link |-> e.link, until |-> until]}
        /\ UNCHANGED <<now, ntimer, opened, down, cleared, rearmed>>
  BY DEF Refresh
<1> DEFINE new == Refreshed(e, until, mac)
<1>2. e \in nb /\ e \in Neighbor /\ e.expire \in Nat /\ e.link \in Nat
  BY <1>1 DEF Heard, NeighborsInv, NeighborsTypeOK, Neighbor
<1>3. /\ new \in Neighbor /\ new.link = e.link /\ new.addr = e.addr
      /\ new.expire = Longer(until, e.expire)
  BY <1>2, LongerType DEF Neighbor, Refreshed, LookupMacAddress
<1>4. new.expire \in Nat /\ new.expire >= until /\ new.expire >= e.expire
  BY <1>2, <1>3, LongerType
<1> HIDE DEF new
<1>5. nb' = (nb \ {e}) \cup {new}
  BY <1>1 DEF new
<1>6. NeighborsTypeOK'
  BY <1>1, <1>2, <1>3, <1>5 DEF NeighborsInv, NeighborsTypeOK
<1>7. LinksAccounted'
  <2>1. {f.link : f \in nb'} = {f.link : f \in nb}
    BY <1>2, <1>3, <1>5
  <2>2. \A f, g \in nb' : f.link = g.link \/ f.addr = g.addr => f = g
    BY <1>2, <1>3, <1>5 DEF NeighborsInv, LinksAccounted
  <2>3. down' = down /\ cleared' = cleared /\ opened' = opened
    BY <1>1
  <2> QED BY <2>1, <2>2, <2>3 DEF NeighborsInv, LinksAccounted
<1>8. TimerRuns'
  <2> SUFFICES ASSUME NEW f \in nb'
               PROVE  ntimer # NotRunning /\ ntimer <= Longer(f.expire, rearmed) + Delay
    BY <1>1 DEF TimerRuns
  <2>0. rearmed \in Nat /\ Delay \in Nat /\ ntimer \in Nat \cup {NotRunning}
    <3>1. now \in Nat /\ Delay \in Nat
      BY NeighborsAssumption DEF NeighborsInv, NeighborsTypeOK
    <3> QED BY <3>1 DEF NeighborsInv, NeighborsTypeOK
  <2>1. CASE f \in nb
    BY <2>1 DEF NeighborsInv, TimerRuns
  <2>2. CASE f = new
    <3>1. ntimer # NotRunning /\ ntimer <= Longer(e.expire, rearmed) + Delay
      BY <1>2 DEF NeighborsInv, TimerRuns
    <3>2. Longer(e.expire, rearmed) <= Longer(new.expire, rearmed)
      BY <1>2, <1>4, <2>0 DEF Longer
    <3>3. Longer(e.expire, rearmed) \in Nat /\ Longer(new.expire, rearmed) \in Nat
      BY <1>2, <1>4, <2>0, LongerType
    <3> QED BY <2>0, <2>2, <3>1, <3>2, <3>3 DEF NotRunning
  <2> QED BY <1>5, <2>1, <2>2
<1>9. PromisesCovered'
  <2> SUFFICES ASSUME NEW p \in promises'
               PROVE  p.link <= opened /\ \A f \in nb' : p.link = f.link => p.until <= f.expire
    BY <1>1 DEF PromisesCovered
  <2>0. opened \in Nat /\ e.link \in 1..opened
    BY <1>2 DEF NeighborsInv, NeighborsTypeOK, LinksAccounted
  <2>1. CASE p \in promises
    <3>1. p.link <= opened /\ \A f \in nb : p.link = f.link => p.until <= f.expire
      BY <2>1 DEF NeighborsInv, PromisesCovered
    <3>2. p.until \in Nat
      BY <2>1 DEF NeighborsInv, NeighborsTypeOK
    <3> QED BY <1>2, <1>3, <1>4, <1>5, <3>1, <3>2
  <2>2. CASE p = [link |-> e.link, until |-> until]
    <3>1. \A f \in nb \ {e} : f.link # e.link
      BY <1>2 DEF NeighborsInv, LinksAccounted
    <3> QED BY <1>3, <1>4, <1>5, <2>0, <2>2, <3>1
  <2> QED BY <1>1, <2>1, <2>2
<1> QED BY <1>6, <1>7, <1>8, <1>9 DEF NeighborsInv

LEMMA ScheduleTimerInv == ASSUME NeighborsInv, ScheduleTimer PROVE NeighborsInv'
<1>0. now \in Nat /\ Delay \in Nat /\ nb \subseteq Neighbor
  BY NeighborsAssumption DEF NeighborsInv, NeighborsTypeOK
<1>1. NeighborsTypeOK'
  BY <1>0 DEF NeighborsInv, NeighborsTypeOK, ScheduleTimer
<1>2. TimerRuns'
  <2> SUFFICES ASSUME NEW e \in nb'
               PROVE  ntimer' # NotRunning /\ ntimer' <= Longer(e.expire, rearmed') + Delay
    BY DEF TimerRuns
  <2>1. ntimer' = now + Delay /\ rearmed' = now /\ e.expire \in Nat
    BY <1>0 DEF ScheduleTimer, Neighbor
  <2>2. Longer(e.expire, now) \in Nat /\ Longer(e.expire, now) >= now
    BY <1>0, <2>1, LongerType
  <2> QED BY <1>0, <2>1, <2>2 DEF NotRunning
<1>3. LinksAccounted' /\ PromisesCovered'
  BY DEF ScheduleTimer, NeighborsInv, LinksAccounted, PromisesCovered
<1> QED BY <1>1, <1>2, <1>3 DEF NeighborsInv

LEMMA ClearInv == ASSUME NeighborsInv, Clear PROVE NeighborsInv'
<1>0. now \in Nat /\ Delay \in Nat /\ \A e \in nb : e.link \in Nat
  BY NeighborsAssumption DEF NeighborsInv, NeighborsTypeOK, Neighbor
<1>1. NeighborsTypeOK'
  BY <1>0 DEF NeighborsInv, NeighborsTypeOK, Clear
<1>2. LinksAccounted'
  BY DEF NeighborsInv, LinksAccounted, Clear
<1>3. TimerRuns' /\ PromisesCovered'
  BY DEF NeighborsInv, TimerRuns, PromisesCovered, Clear
<1> QED BY <1>1, <1>2, <1>3 DEF NeighborsInv

LEMMA TickInv == ASSUME NeighborsInv, NeighborsTick PROVE NeighborsInv'
<1>0. now \in Nat /\ Delay \in Nat
  BY NeighborsAssumption DEF NeighborsInv, NeighborsTypeOK
<1>1. NeighborsTypeOK'
  BY <1>0 DEF NeighborsInv, NeighborsTypeOK, NeighborsTick
<1>2. LinksAccounted' /\ TimerRuns' /\ PromisesCovered'
  BY DEF NeighborsInv, LinksAccounted, TimerRuns, PromisesCovered, NeighborsTick
<1> QED BY <1>1, <1>2 DEF NeighborsInv

\* The handlers that purge the list as it is.
LEMMA PurgesInv ==
    ASSUME NeighborsInv, Lookup \/ (\E mac \in Macs : ProcessTxError(mac)) \/ TimerExpires
    PROVE  NeighborsInv'
<1>0. ntimer \in (now .. now + Delay) \cup {NotRunning}
  BY DEF NeighborsInv, NeighborsTypeOK
<1>1. Accounts(nb, opened', promises') /\ UNCHANGED <<now, cleared, rearmed>>
  BY ListAccounts DEF Lookup, ProcessTxError, TimerExpires
<1>2. \E broken, timer :
        timer \in (now .. now + Delay) \cup {NotRunning} /\ Purge(nb, broken, timer)
  BY <1>0 DEF Lookup, ProcessTxError, TimerExpires
<1> QED BY <1>1, <1>2, PurgeInv

LEMMA UpdateInv ==
    ASSUME NeighborsInv, NEW a \in Addrs, NEW t \in Lifetimes, Update(a, t)
    PROVE  NeighborsInv'
<1>0. now + t \in Nat /\ ntimer \in (now .. now + Delay) \cup {NotRunning}
  BY NeighborsAssumption DEF NeighborsInv, NeighborsTypeOK
<1>1. PICK mac \in LookupMacAddress : Refresh(a, now + t, mac) \/ Open(a, now + t, mac)
  BY DEF Update
<1>2. CASE Refresh(a, now + t, mac)
  BY <1>0, <1>2, RefreshInv
<1>3. CASE Open(a, now + t, mac)
  <2>1. UNCHANGED <<now, cleared, rearmed>>
    BY <1>3 DEF Open
  <2> QED BY <1>0, <1>3, <2>1, OpenAccounts, PurgeInv
<1> QED BY <1>1, <1>2, <1>3

LEMMA NeighborsNextInv == NeighborsInv /\ [NeighborsNext]_neighborsVars => NeighborsInv'
<1> SUFFICES ASSUME NeighborsInv, [NeighborsNext]_neighborsVars PROVE NeighborsInv'
  OBVIOUS
<1>1. CASE Lookup \/ (\E mac \in Macs : ProcessTxError(mac)) \/ TimerExpires
  BY <1>1, PurgesInv
<1>2. CASE \E a \in Addrs, t \in Lifetimes : Update(a, t)
  BY <1>2, UpdateInv
<1>3. CASE ScheduleTimer
  BY <1>3, ScheduleTimerInv
<1>4. CASE Clear
  BY <1>4, ClearInv
<1>5. CASE NeighborsTick
  BY <1>5, TickInv
<1>6. CASE UNCHANGED neighborsVars
  BY <1>6 DEF neighborsVars, NeighborsInv, NeighborsTypeOK, LinksAccounted, TimerRuns,
              PromisesCovered
<1> QED BY <1>1, <1>2, <1>3, <1>4, <1>5, <1>6 DEF NeighborsNext

LEMMA NeighborsInvariance == NeighborsSpec => []NeighborsInv
<1>1. NeighborsInit => NeighborsInv
  BY DEF NeighborsInit, NeighborsInv, NeighborsTypeOK, LinksAccounted, TimerRuns, PromisesCovered
<1> QED BY <1>1, NeighborsNextInv, PTL DEF NeighborsSpec

-----------------------------------------------------------------------------
\* A lost link is noticed at most Delay after the neighbour's time, or after the last
\* ScheduleTimer, in every reachable state: the timer is set and not in the past.
THEOREM SilenceIsNoticed == NeighborsSpec => []NoticedInTime
<1>1. NeighborsInv => NoticedInTime
  <2> SUFFICES ASSUME NeighborsInv, NEW e \in nb
               PROVE  now <= Longer(e.expire, rearmed) + Delay
    BY DEF NoticedInTime
  <2>1. now \in Nat /\ Delay \in Nat /\ rearmed \in Nat /\ e.expire \in Nat
    BY NeighborsAssumption DEF NeighborsInv, NeighborsTypeOK, Neighbor
  <2>2. ntimer \in now .. now + Delay /\ ntimer <= Longer(e.expire, rearmed) + Delay
    BY DEF NeighborsInv, NeighborsTypeOK, TimerRuns
  <2>3. Longer(e.expire, rearmed) \in Nat
    BY <2>1, LongerType
  <2> QED BY <2>1, <2>2, <2>3
<1> QED BY <1>1, NeighborsInvariance, PTL

\* Every link opened is listed, reported or cleared, exactly one of them.
THEOREM NoLinkForgotten == NeighborsSpec => []LinksAccounted
<1>1. NeighborsInv => LinksAccounted
  BY DEF NeighborsInv
<1> QED BY <1>1, NeighborsInvariance, PTL

\* The neighbour list, its timer and the history of links keep their types.
THEOREM NeighborsTypeCorrect == NeighborsSpec => []NeighborsTypeOK
<1>1. NeighborsInv => NeighborsTypeOK
  BY DEF NeighborsInv
<1> QED BY <1>1, NeighborsInvariance, PTL

\* A link whose promise still runs is given up only for a transmission error.
LEMMA NextKeepsPromises ==
    ASSUME NeighborsInv, [NeighborsNext]_neighborsVars,
           NEW e \in nb, e.link \in down' \ down,
           NEW p \in promises, p.link = e.link, p.until >= now
    PROVE  e.mac # NoMac /\ \A f \in nb' : f.mac # e.mac
<1>0. /\ now \in Nat /\ p.until \in Nat /\ e.expire \in Nat
      /\ p.until <= e.expire
      /\ \A f \in nb : f.link = e.link => f = e
  BY DEF NeighborsInv, NeighborsTypeOK, Neighbor, PromisesCovered, LinksAccounted
<1>1. ~Closed(e, {})
  BY <1>0 DEF Closed
<1>2. CASE Lookup \/ TimerExpires
  BY <1>0, <1>1, <1>2 DEF Lookup, TimerExpires, Purge
<1>3. CASE \E a \in Addrs, t \in Lifetimes : Update(a, t)
  <2>1. PICK a \in Addrs, t \in Lifetimes, mac \in LookupMacAddress :
          Refresh(a, now + t, mac) \/ Open(a, now + t, mac)
    BY <1>3 DEF Update
  <2>2. CASE Refresh(a, now + t, mac)
    BY <2>2 DEF Refresh
  <2>3. CASE Open(a, now + t, mac)
    <3> DEFINE new == [addr |-> a, mac |-> mac, expire |-> now + t, link |-> opened + 1]
    <3>1. Purge(nb \cup {new}, {}, ntimer)
      BY <2>3 DEF Open
    <3>2. PICK f \in nb \cup {new} : f.link = e.link /\ Closed(f, {})
      BY <3>1 DEF Purge
    <3>3. e.link \in 1..opened /\ opened \in Nat
      BY DEF NeighborsInv, NeighborsTypeOK, LinksAccounted
    <3>4. f \in nb
      BY <3>2, <3>3
    <3> QED BY <1>0, <1>1, <3>2, <3>4
  <2> QED BY <2>1, <2>2, <2>3
<1>4. CASE \E mac \in Macs : ProcessTxError(mac)
  <2>1. PICK mac \in Macs : Purge(nb, Broken(mac), ntimer)
    BY <1>4 DEF ProcessTxError
  <2>2. PICK f \in nb : f.link = e.link /\ Closed(f, Broken(mac))
    BY <2>1 DEF Purge
  <2>3. e \in Broken(mac)
    BY <1>0, <1>1, <2>2 DEF Closed
  <2>4. e.mac = mac /\ mac # NoMac
    BY <2>3, NeighborsAssumption DEF Broken
  <2>5. \A g \in nb' : g \in nb /\ g \notin Broken(mac)
    BY <2>1 DEF Purge, Closed
  <2> QED BY <2>4, <2>5 DEF Broken
<1>5. CASE ScheduleTimer \/ Clear \/ NeighborsTick \/ UNCHANGED neighborsVars
  BY <1>5 DEF ScheduleTimer, Clear, NeighborsTick, neighborsVars
<1> QED BY <1>2, <1>3, <1>4, <1>5 DEF NeighborsNext

\* The same of every step of every behaviour.
THEOREM OnlyErrorsBreakPromises == NeighborsSpec => PromisesKept
<1>1. NeighborsInv /\ [NeighborsNext]_neighborsVars =>
        [\A e \in nb :
           (e.link \in down' \ down /\ \E p \in promises : p.link = e.link /\ p.until >= now) =>
               e.mac # NoMac /\ \A f \in nb' : f.mac # e.mac]_neighborsVars
  BY NextKeepsPromises
<1> QED BY <1>1, NeighborsInvariance, PTL DEF NeighborsSpec, PromisesKept
=============================================================================
