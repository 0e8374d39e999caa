----------------------------- MODULE ReadThrough -----------------------------
(***************************************************************************)
(* The read-through cache (apps/api/src/redis/redis-cache.ts): several API  *)
(* instances over one Redis, each sharing a miss among its own callers.     *)
(* The source behind the loaders changes; Redis and the loaders may fail at *)
(* any call.  JavaScript runs one callback at a time, so a step is what     *)
(* runs between two awaits.  A value is the version of what it was loaded   *)
(* from, 0 being an empty answer.                                           *)
(***************************************************************************)
EXTENDS Naturals, Sequences, FiniteSets, SequencesExt

CONSTANTS
    Keys,
    Instances,
    Ttl, MissTtl,      \* seconds, as ticks of the clock
    LoadTime,          \* what a piece of work takes at most, in ticks
    MaxWorks,          \* bound: the pieces of work ever begun
    MaxTicks,          \* bound: the clock
    MaxUpdates         \* bound: changes of the source

ASSUME ReadThroughAssumption ==
    /\ Ttl \in Nat \ {0} /\ MissTtl \in Nat \ {0} /\ LoadTime \in Nat
    /\ MaxWorks \in Nat /\ MaxTicks \in Nat /\ MaxUpdates \in Nat

VARIABLES
    source,        \* the version behind each key
    replacedAt,    \* when each version of a key was replaced
    entries,       \* Redis
    emptyTtl,      \* what each key's callers keep an empty answer for: a TTL
                   \* of its own, or no other than a value's
    works,         \* the promises: what was asked for, and where they are
    loadsInFlight, \* each instance's map of keys to promises
    now, updates

ReadThroughVars ==
    <<source, replacedAt, entries, emptyTtl, works, loadsInFlight, now, updates>>

Versions == 0 .. MaxUpdates + 1
NoEntry == [version |-> 0, expiresAt |-> 0]
IsHeld(k) == entries[k] # NoEntry
Miss == {}      \* what a read found: the version, as a set

NoWork == 0
Ended(w) == works[w].at = "ended"

(* The hit's TTL, or the key's for an empty answer: the shorter one of      *)
(* cachedArray and of a caller of cached that names it; else the same.      *)
ttlFor(k, version) == IF version = 0 THEN emptyTtl[k] ELSE Ttl

(***************************************************************************)
(* Calls.                                                                   *)
(***************************************************************************)
QuietSource == UNCHANGED <<source, replacedAt, emptyTtl, now, updates>>

Begin(i, items) ==
    /\ Len(works) < MaxWorks
    /\ works' = Append(works, [instance |-> i, items |-> items, at |-> "reading",
                               found |-> [n \in DOMAIN items |-> Miss],
                               loaded |-> <<>>, since |-> now])

(* A caller gets the promise under way for the key, which changes nothing,  *)
(* or begins one.                                                           *)
singleFlight(i, k) ==
    /\ loadsInFlight[i][k] = NoWork
    /\ Begin(i, <<k>>)
    /\ loadsInFlight' = [loadsInFlight EXCEPT ![i][k] = Len(works) + 1]

(* cached and cachedArray.                                                  *)
Cached(i, k) ==
    /\ singleFlight(i, k)
    /\ QuietSource /\ UNCHANGED entries

(* cachedMany: nothing is shared, none is asked for no items, and all that  *)
(* is loaded is pinned for the request's one TTL.                           *)
CachedMany(i, items) ==
    /\ \A n \in DOMAIN items : emptyTtl[items[n]] = Ttl
    /\ Begin(i, items)
    /\ QuietSource /\ UNCHANGED <<entries, loadsInFlight>>

IsMany(w) == Len(works[w].items) > 1

(* read and readMemos: an unreachable Redis is a miss of every key.         *)
Read(w) ==
    /\ works[w].at = "reading"
    /\ \E isUp \in BOOLEAN :
         LET items == works[w].items
             found == [n \in DOMAIN items |->
                         IF isUp /\ IsHeld(items[n]) THEN {entries[items[n]].version} ELSE Miss] IN
         works' = [works EXCEPT ![w].found = found,
                     ![w].at = IF \E n \in DOMAIN found : found[n] = Miss
                                 THEN "loading" ELSE "landing"]
    /\ QuietSource /\ UNCHANGED <<entries, loadsInFlight>>

Missing(w) ==
    {works[w].items[n] : n \in {m \in DOMAIN works[w].items : works[w].found[m] = Miss}}

(* The loader answers: for many, in an order of its own, and short.         *)
Loads(w) ==
    /\ works[w].at = "loading"
    /\ \E some \in SUBSET Missing(w) :
         /\ ~IsMany(w) => some = Missing(w)
         /\ \E loaded \in SetToSeqs(some) :
              works' = [works EXCEPT ![w].at = "writing",
                          ![w].loaded = [n \in DOMAIN loaded |->
                              [key |-> loaded[n], version |-> source[loaded[n]]]]]
    /\ QuietSource /\ UNCHANGED <<entries, loadsInFlight>>

NothingLeft(w) == [works[w] EXCEPT !.at = "ended", !.found = <<>>, !.loaded = <<>>, !.since = 0]

(* Mutant of EndOf: a promise that failed stays in the map.                 *)
EndOnlyAnswered(w) ==
    /\ works' = [works EXCEPT ![w] = NothingLeft(w)]
    /\ loadsInFlight' = [i \in Instances |-> [k \in Keys |->
         IF loadsInFlight[i][k] = w /\ works[w].at = "landing" THEN NoWork
         ELSE loadsInFlight[i][k]]]

(* finally: the promise leaves the map, answered or not.                    *)
EndOf(w) ==
    /\ works' = [works EXCEPT ![w] = NothingLeft(w)]
    /\ loadsInFlight' = [i \in Instances |-> [k \in Keys |->
         IF loadsInFlight[i][k] = w THEN NoWork ELSE loadsInFlight[i][k]]]

LoaderFails(w) ==
    /\ works[w].at = "loading"
    /\ EndOf(w)
    /\ QuietSource /\ UNCHANGED entries

(* Mutant of Pinned: only an empty answer is given an expiry.               *)
PinnedForGood(k, version) ==
    [version |-> version,
     expiresAt |-> IF version = 0 THEN now + ttlFor(k, version) ELSE MaxTicks + 1]

Pinned(k, version) == [version |-> version, expiresAt |-> now + ttlFor(k, version)]

(* write and writeMemos: one transaction, or nothing.                       *)
Write(w) ==
    LET loaded == works[w].loaded IN
    /\ works[w].at = "writing"
    /\ \E isUp \in BOOLEAN :
         entries' = [k \in Keys |->
           IF isUp /\ \E n \in DOMAIN loaded : loaded[n].key = k
             THEN Pinned(k, loaded[CHOOSE n \in DOMAIN loaded : loaded[n].key = k].version)
             ELSE entries[k]]
    /\ works' = [works EXCEPT ![w].at = "landing"]
    /\ QuietSource /\ UNCHANGED loadsInFlight

(* Mutant of ValueOf: the loaded values are paired by position.             *)
ValueByPosition(w, n) ==
    LET work == works[w]
        before == Cardinality({m \in 1 .. n : work.found[m] = Miss}) IN
    IF work.found[n] # Miss
      THEN {[key |-> work.items[n], version |-> v] : v \in work.found[n]}
    ELSE {work.loaded[m] : m \in DOMAIN work.loaded \intersect {before}}

(* An item nothing was loaded for drops out.                                *)
ValueOf(w, n) ==
    LET work == works[w] IN
    IF work.found[n] # Miss
      THEN {[key |-> work.items[n], version |-> v] : v \in work.found[n]}
    ELSE {work.loaded[m] : m \in {l \in DOMAIN work.loaded :
                                    work.loaded[l].key = work.items[n]}}

Answered(w) == {n \in DOMAIN works[w].items : ValueOf(w, n) # {}}

Rank(n, positions) == Cardinality(positions \intersect 1 .. n)

(* The items' values in the request's order, the missing ones filtered out. *)
CachedAnswer(w) ==
    [m \in 1 .. Cardinality(Answered(w)) |->
       CHOOSE value \in ValueOf(w, CHOOSE n \in Answered(w) : Rank(n, Answered(w)) = m) : TRUE]

Lands(w) ==
    /\ works[w].at = "landing"
    /\ EndOf(w)
    /\ QuietSource /\ UNCHANGED entries

(***************************************************************************)
(* The source and the clock.  No work outlasts LoadTime: Redis and the      *)
(* loaders' HTTP calls time out.                                            *)
(***************************************************************************)
SourceChanges(k) ==
    /\ updates < MaxUpdates /\ updates' = updates + 1
    /\ \E version \in {0, updates' + 1} \ {source[k]} :
         source' = [source EXCEPT ![k] = version]
    /\ replacedAt' = [replacedAt EXCEPT ![k][source[k]] = now]
    /\ UNCHANGED <<entries, emptyTtl, works, loadsInFlight, now>>

Tick ==
    /\ now < MaxTicks /\ now' = now + 1
    /\ \A w \in DOMAIN works : Ended(w) \/ now < works[w].since + LoadTime
    /\ entries' = [k \in Keys |-> IF entries[k].expiresAt > now' THEN entries[k] ELSE NoEntry]
    /\ UNCHANGED <<source, replacedAt, emptyTtl, works, loadsInFlight, updates>>

Pairs == {items \in [1 .. 2 -> Keys] : items[1] # items[2]}

(* One key has nothing behind it, the others have.                          *)
ReadThroughInit ==
    /\ \E empty \in Keys : source = [k \in Keys |-> IF k = empty THEN 0 ELSE 1]
    /\ replacedAt = [k \in Keys |-> [version \in Versions |-> 0]]
    /\ entries = [k \in Keys |-> NoEntry] /\ emptyTtl \in [Keys -> {MissTtl, Ttl}]
    /\ works = <<>>
    /\ loadsInFlight = [i \in Instances |-> [k \in Keys |-> NoWork]]
    /\ now = 0 /\ updates = 0

ReadThroughNext ==
    \/ \E i \in Instances :
         \/ \E k \in Keys : Cached(i, k)
         \/ \E items \in Pairs : CachedMany(i, items)
    \/ \E w \in DOMAIN works : Read(w) \/ Loads(w) \/ LoaderFails(w) \/ Write(w) \/ Lands(w)
    \/ \E k \in Keys : SourceChanges(k)
    \/ Tick

ReadThroughSpec == ReadThroughInit /\ [][ReadThroughNext]_ReadThroughVars

(***************************************************************************)
(* Properties.                                                              *)
(***************************************************************************)

(* Every variable has its type, no entry outlives its expiry, and none is   *)
(* kept for longer than its key's callers say, an empty answer no longer    *)
(* than the shorter TTL where they name one.                                *)
ReadThroughTypeOK ==
    /\ source \in [Keys -> Versions] /\ replacedAt \in [Keys -> [Versions -> 0 .. MaxTicks]]
    /\ entries \in [Keys -> [version : Versions, expiresAt : Nat]]
    /\ \A k \in Keys : IsHeld(k) =>
         /\ entries[k].expiresAt > now
         /\ entries[k].expiresAt <= now + ttlFor(k, entries[k].version)
    /\ emptyTtl \in [Keys -> {MissTtl, Ttl}]
    /\ \A w \in DOMAIN works :
         /\ works[w].instance \in Instances /\ works[w].items \in Seq(Keys)
         /\ works[w].at \in {"reading", "loading", "writing", "landing", "ended"}
         /\ works[w].found \in Seq(SUBSET Versions)
         /\ works[w].loaded \in Seq([key : Keys, version : Versions])
         /\ works[w].since \in 0 .. MaxTicks
    /\ loadsInFlight \in [Instances -> [Keys -> 0 .. Len(works)]]
    /\ Len(works) <= MaxWorks
    /\ now \in 0 .. MaxTicks /\ updates \in 0 .. MaxUpdates

(* "Shares a miss within this process": an instance never loads one key     *)
(* twice at once, and its callers at that moment get the one answer.  What  *)
(* they share is under way, and for that key: neither a loader nor a Redis  *)
(* that fails leaves a key that every later caller is refused on.           *)
FlightsAreShared ==
    /\ \A i \in Instances, k \in Keys :
         loadsInFlight[i][k] # NoWork =>
           /\ ~Ended(loadsInFlight[i][k])
           /\ works[loadsInFlight[i][k]].items = <<k>>
    /\ \A v, w \in DOMAIN works :
         /\ v # w /\ ~IsMany(v) /\ ~IsMany(w) /\ works[v].items = works[w].items
         /\ works[v].instance = works[w].instance
         => Ended(v) \/ Ended(w)

(* What cachedMany answers follows the request's order, and each value is   *)
(* of the item it stands for, the only one held for it, though some were    *)
(* cached, and the loader answered the others short and in an order of its  *)
(* own.                                                                     *)
AnswersPairUp ==
    \A w \in DOMAIN works :
      works[w].at = "landing" =>
        LET items == works[w].items
            loaded == {works[w].loaded[n].key : n \in DOMAIN works[w].loaded}
            held == {n \in DOMAIN items : works[w].found[n] # Miss \/ items[n] \in loaded} IN
        /\ Len(CachedAnswer(w)) = Cardinality(held)
        /\ \A n \in held :
             /\ CachedAnswer(w)[Rank(n, held)].key = items[n]
             /\ \A value \in ValueOf(w, n) : value = CachedAnswer(w)[Rank(n, held)]

(* However writes of several instances, their failures and the expiries     *)
(* fall, a cached answer was the source's no longer ago than its TTL and    *)
(* the two pieces of work it passed through take: an empty one's, where the *)
(* key's callers name a shorter one for it, is that one.                    *)
StalenessIsBounded ==
    \A w \in DOMAIN works :
      works[w].at = "landing" =>
        \A n \in DOMAIN works[w].items :
          \A value \in ValueOf(w, n) :
            \/ source[value.key] = value.version
            \/ now <= replacedAt[value.key][value.version]
                        + ttlFor(value.key, value.version) + 2 * LoadTime
==============================================================================
