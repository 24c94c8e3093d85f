-------------------------- MODULE AcoIdCacheProofs ---------------------------
(***************************************************************************)
(* Proofs about AcoIdCache, for any addresses, identifiers and lifetimes.  *)
(*                                                                         *)
(* Time only grows, so what a purge has erased is dead for the filter too: *)
(* the cache holds at least everything that is still alive.                *)
(***************************************************************************)
EXTENDS AcoIdCache, TLAPS

\* The cache is made of accepted identifiers and misses none that is alive.
RemembersAlive ==
    /\ idCache \subseteq accepted
    /\ \A a \in accepted : a.expire >= now => a \in idCache

IdCacheInv == IdCacheTypeOK /\ RemembersAlive

\* Searching the purged cache finds what the filter holds to be alive.
LEMMA SearchIsExact ==
    ASSUME IdCacheInv, NEW k
    PROVE  Filter!Alive(k) <=> \E u \in Unexpired(idCache) : u.key = k
BY DEF IdCacheInv, RemembersAlive, Filter!Alive, Unexpired

LEMMA PushedType ==
    ASSUME IdCacheTypeOK, NEW c \in Contexts, NEW i \in Ids
    PROVE  Pushed(<<c, i>>) \in UniqueId
BY IdCacheAssumption DEF IdCacheTypeOK, UniqueId, Pushed

LEMMA InitInv == IdCacheInit => IdCacheInv
<1> SUFFICES ASSUME IdCacheInit PROVE IdCacheInv
  OBVIOUS
<1>1. answer \in BOOLEAN
  BY Zenon DEF IdCacheInit
<1>2. now \in Nat /\ idCache \subseteq UniqueId /\ accepted \subseteq UniqueId
  BY DEF IdCacheInit
<1>3. lifetime \in Lifetimes /\ RemembersAlive
  BY DEF IdCacheInit, RemembersAlive
<1> QED BY <1>1, <1>2, <1>3 DEF IdCacheInv, IdCacheTypeOK

LEMMA NextInv == IdCacheInv /\ [IdCacheNext]_idCacheVars => IdCacheInv'
<1> SUFFICES ASSUME IdCacheInv, [IdCacheNext]_idCacheVars
             PROVE  IdCacheInv'
  OBVIOUS
<1> USE DEF IdCacheInv, RemembersAlive
<1>1. ASSUME NEW c \in Contexts, NEW i \in Ids, IsDuplicate(c, i)
      PROVE  IdCacheInv'
  <2>1. Unexpired(idCache) \subseteq idCache /\ now' = now /\ lifetime' = lifetime
    BY <1>1 DEF Unexpired, IsDuplicate
  <2>2. CASE idCache' = Unexpired(idCache) /\ accepted' = accepted /\ answer' = TRUE
    BY <2>1, <2>2 DEF IdCacheTypeOK, Unexpired
  <2>3. CASE /\ idCache' = Unexpired(idCache) \cup {Pushed(<<c, i>>)}
             /\ accepted' = accepted \cup {Pushed(<<c, i>>)} /\ answer' = FALSE
    <3>1. IdCacheTypeOK'
      BY <2>1, <2>3, PushedType DEF IdCacheTypeOK
    <3>2. RemembersAlive'
      BY <2>1, <2>3 DEF Unexpired
    <3> QED BY <3>1, <3>2
  <2> QED BY <1>1, <2>2, <2>3 DEF IsDuplicate
<1>2. CASE PurgeIds
  BY <1>2 DEF PurgeIds, IdCacheTypeOK, Unexpired
<1>3. ASSUME NEW t \in Lifetimes, SetLifetime(t)
      PROVE  IdCacheInv'
  BY <1>3 DEF SetLifetime, IdCacheTypeOK
<1>4. CASE IdCacheTick
  <2>1. IdCacheTypeOK'
    BY <1>4 DEF IdCacheTick, IdCacheTypeOK
  <2>2. \A a \in accepted : a.expire \in Nat
    BY DEF IdCacheTypeOK, UniqueId
  <2>3. RemembersAlive'
    BY <1>4, <2>2 DEF IdCacheTick, IdCacheTypeOK
  <2> QED BY <2>1, <2>3
<1>5. CASE UNCHANGED idCacheVars
  BY <1>5 DEF idCacheVars, IdCacheTypeOK
<1> QED BY <1>1, <1>2, <1>3, <1>4, <1>5 DEF IdCacheNext

LEMMA IdCacheInvariance == IdCacheSpec => []IdCacheInv
BY InitInv, NextInv, PTL DEF IdCacheSpec

\* What the cache keeps, with expiries that are instants (UniqueId, IsDuplicate).
THEOREM IdCacheTypeCorrect == IdCacheSpec => []IdCacheTypeOK
<1>1. IdCacheInv => IdCacheTypeOK
  BY DEF IdCacheInv
<1> QED BY <1>1, IdCacheInvariance, PTL

-----------------------------------------------------------------------------
LEMMA StepFilters ==
    IdCacheInv /\ [IdCacheNext]_idCacheVars => [Filter!FilterNext]_(Filter!filterVars)
<1> SUFFICES ASSUME IdCacheInv, [IdCacheNext]_idCacheVars
             PROVE  [Filter!FilterNext]_(Filter!filterVars)
  OBVIOUS
<1> USE DEF Filter!filterVars
<1>1. ASSUME NEW c \in Contexts, NEW i \in Ids, IsDuplicate(c, i)
      PROVE  Filter!Ask(<<c, i>>)
  <2>1. Filter!Alive(<<c, i>>) <=> \E u \in Unexpired(idCache) : u.key = <<c, i>>
    BY SearchIsExact
  <2>2. Pushed(<<c, i>>) = [key |-> <<c, i>>, expire |-> now + lifetime]
    BY IdCacheAssumption DEF Pushed, IdCacheInv, IdCacheTypeOK
  <2>3. CASE Filter!Alive(<<c, i>>)
    <3>1. answer' = TRUE /\ accepted' = accepted /\ UNCHANGED <<now, lifetime>>
      BY <1>1, <2>1, <2>3 DEF IsDuplicate
    <3>2. answer' = Filter!Alive(<<c, i>>)
      BY <2>3, <3>1, Zenon DEF Filter!Alive
    <3> QED BY <2>3, <3>1, <3>2, Zenon DEF Filter!Ask
  <2>4. CASE ~Filter!Alive(<<c, i>>)
    <3>1. /\ answer' = FALSE /\ UNCHANGED <<now, lifetime>>
          /\ accepted' = accepted \cup {Pushed(<<c, i>>)}
      BY <1>1, <2>1, <2>4 DEF IsDuplicate
    <3>2. answer' = Filter!Alive(<<c, i>>)
      BY <2>4, <3>1, Zenon DEF Filter!Alive
    <3> QED BY <2>2, <2>4, <3>1, <3>2, Zenon DEF Filter!Ask
  <2> QED BY <2>3, <2>4
<1>2. CASE PurgeIds
  BY <1>2 DEF PurgeIds
<1>3. ASSUME NEW t \in Lifetimes, SetLifetime(t)
      PROVE  Filter!ChangeLifetime
  BY <1>3 DEF SetLifetime, Filter!ChangeLifetime
<1>4. CASE IdCacheTick
  BY <1>4 DEF IdCacheTick, Filter!FilterNext, Filter!Wait
<1>5. CASE UNCHANGED idCacheVars
  BY <1>5 DEF idCacheVars
<1> QED
  <2>1. \A c \in Contexts, i \in Ids : <<c, i>> \in Contexts \X Ids
    OBVIOUS
  <2> QED BY <1>1, <1>2, <1>3, <1>4, <1>5, <2>1 DEF IdCacheNext, Filter!FilterNext

\* The purging cache implements the filter that never forgets (IsDuplicate, Purge,
\* SetLifetime, DuplicatePacketDetection).
THEOREM CacheIsAFilter == IdCacheSpec => FiltersDuplicates
<1>1. IdCacheInit => Filter!FilterInit
  BY DEF IdCacheInit, Filter!FilterInit
<1> QED BY <1>1, StepFilters, IdCacheInvariance, PTL DEF IdCacheSpec, FiltersDuplicates, Filter!FilterSpec
=============================================================================
