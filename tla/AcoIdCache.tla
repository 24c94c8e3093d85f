----------------------------- MODULE AcoIdCache ------------------------------
(***************************************************************************)
(* The cache of identifiers (src/aco/model/aco-id-cache.{h,cc}) and the    *)
(* detection of duplicate packets that is a call of it (aco-dpd.cc).  The  *)
(* vector is searched for equality only, so it is a set; an identifier is  *)
(* the pair of an address and a number.                                    *)
(***************************************************************************)
EXTENDS Integers

CONSTANTS
    Contexts,    \* source addresses
    Ids,         \* identifiers, in the 32 bits that the cache keeps of them
    Lifetimes,   \* the values m_lifetime may be given
    MaxTime      \* bound: the last instant

ASSUME IdCacheAssumption == Lifetimes \subseteq Nat /\ MaxTime \in Nat

VARIABLES
    now,         \* Simulator::Now()
    idCache,     \* m_idCache
    lifetime,    \* m_lifetime
    accepted,    \* history: everything IsDuplicate has pushed
    answer       \* what IsDuplicate returned last

idCacheVars == <<now, idCache, lifetime, accepted, answer>>

UniqueId == [key : Contexts \X Ids, expire : Nat]

IdCacheTypeOK ==
    /\ now \in Nat
    /\ idCache \subseteq UniqueId
    /\ lifetime \in Lifetimes
    /\ accepted \subseteq UniqueId
    /\ answer \in BOOLEAN

IdCacheInit ==
    /\ now = 0 /\ idCache = {} /\ lifetime \in Lifetimes
    /\ accepted = {} /\ answer = FALSE

\* IsExpired: strictly after its time.  (Mutant: at its time.)
UnexpiredBefore(C) == {u \in C : u.expire > now}

Unexpired(C) == {u \in C : u.expire >= now}

\* What is pushed for the key k.  (Mutant: the time left instead of the instant.)
TimeLeft(k) == [key |-> k, expire |-> lifetime - now]

Pushed(k) == [key |-> k, expire |-> lifetime + now]

IsDuplicate(context, id) ==
    LET k == <<context, id>>
        C == Unexpired(idCache)
    IN  /\ \/ /\ \E u \in C : u.key = k
              /\ answer' = TRUE
              /\ idCache' = C
              /\ UNCHANGED accepted
           \/ /\ \A u \in C : u.key # k
              /\ answer' = FALSE
              /\ idCache' = C \cup {Pushed(k)}
              /\ accepted' = accepted \cup {Pushed(k)}
        /\ UNCHANGED <<now, lifetime>>

\* GetSize, and Purge itself, which is public.
PurgeIds ==
    /\ idCache' = Unexpired(idCache)
    /\ UNCHANGED <<now, lifetime, accepted, answer>>

SetLifetime(t) ==
    /\ lifetime' = t
    /\ UNCHANGED <<now, idCache, accepted, answer>>

IdCacheTick ==
    /\ now < MaxTime
    /\ now' = now + 1
    /\ UNCHANGED <<idCache, lifetime, accepted, answer>>

IdCacheNext ==
    \/ \E c \in Contexts, i \in Ids : IsDuplicate(c, i)
    \/ PurgeIds
    \/ \E t \in Lifetimes : SetLifetime(t)
    \/ IdCacheTick

IdCacheSpec == IdCacheInit /\ [][IdCacheNext]_idCacheVars

-----------------------------------------------------------------------------
\* The cache answers like a filter that never forgets anything: purging what has
\* expired, whenever it happens and with whatever lifetimes entries were pushed, is
\* not to be noticed (IsDuplicate, Purge, SetLifetime).
Filter == INSTANCE DuplicateFilter WITH Keys <- Contexts \X Ids

FiltersDuplicates == Filter!FilterSpec
=============================================================================
