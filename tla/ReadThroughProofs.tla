-------------------------- MODULE ReadThroughProofs --------------------------
(***************************************************************************)
(* Proofs about ReadThrough, for any keys, instances, times to live and     *)
(* durations: an instance never works twice at once for one key, and what   *)
(* a call answers was behind its key no longer ago than the time to live    *)
(* and two pieces of work.                                                  *)
(***************************************************************************)
EXTENDS ReadThrough, FiniteSetTheorems, SequenceTheorems, TLAPS

Loaded == [key : Keys, version : Versions]

Stages == {"reading", "loading", "writing", "landing", "ended"}

Works == [instance : Instances, items : Seq(Keys), at : Stages,
          found : Seq(SUBSET Versions), loaded : Seq(Loaded), since : 0 .. MaxTicks]

(* The version was behind the key at t - slack, or since.                   *)
Recent(k, version, t, slack) ==
    source[k] = version \/ t <= replacedAt[k][version] + slack

(* A piece of work is for one key or two, is under way for no longer than   *)
(* LoadTime, and what it found or loaded is no older than it: what it found *)
(* in Redis, by the entry's time to live and the work that wrote it.  It    *)
(* holds one value at most of each item.                                    *)
WorkOK(work) ==
    /\ Len(work.items) \in 1 .. 2
    /\ \A n \in DOMAIN work.found : \A u, v \in work.found[n] : u = v
    /\ \A m, n \in DOMAIN work.loaded : work.loaded[m].key = work.loaded[n].key => m = n
    /\ work.at # "ended" =>
         /\ work.since <= now /\ now <= work.since + LoadTime
         /\ DOMAIN work.found = DOMAIN work.items
    /\ work.at = "ended" => work.found = <<>> /\ work.loaded = <<>>
    /\ \A n \in DOMAIN work.found : \A version \in work.found[n] :
         Recent(work.items[n], version, work.since, ttlFor(work.items[n], version) + LoadTime)
    /\ \A n \in DOMAIN work.loaded :
         Recent(work.loaded[n].key, work.loaded[n].version, work.since, 0)

(* An entry is of its key, and expires a time to live after the end of the  *)
(* work that wrote it.                                                      *)
EntryOK(k) ==
    IsHeld(k) =>
      /\ now < entries[k].expiresAt
      /\ entries[k].expiresAt <= now + ttlFor(k, entries[k].version)
      /\ Recent(k, entries[k].version, entries[k].expiresAt,
                ttlFor(k, entries[k].version) + LoadTime)

ClockOK ==
    /\ source \in [Keys -> Versions] /\ replacedAt \in [Keys -> [Versions -> 0 .. MaxTicks]]
    /\ now \in 0 .. MaxTicks /\ updates \in 0 .. MaxUpdates
    /\ emptyTtl \in [Keys -> {MissTtl, Ttl}]

EntriesOK ==
    /\ entries \in [Keys -> [version : Versions, expiresAt : Nat]]
    /\ \A k \in Keys : EntryOK(k)

WorksOK ==
    /\ works \in Seq(Works) /\ Len(works) <= MaxWorks
    /\ \A w \in DOMAIN works : WorkOK(works[w])

(* The map of an instance holds its work for the one key, while it lasts.   *)
FlightsOK ==
    /\ loadsInFlight \in [Instances -> [Keys -> 0 .. Len(works)]]
    /\ \A i \in Instances, k \in Keys :
         LET w == loadsInFlight[i][k] IN
         w # NoWork => ~Ended(w) /\ works[w].items = <<k>> /\ works[w].instance = i
    /\ \A w \in DOMAIN works :
         ~Ended(w) /\ ~IsMany(w) =>
           loadsInFlight[works[w].instance][works[w].items[1]] = w

(* The inductive invariant.                                                 *)
ReadThroughInv == ClockOK /\ EntriesOK /\ WorksOK /\ FlightsOK

-----------------------------------------------------------------------------
(* A piece of work of the sequence.                                         *)
LEMMA WorkIsWork ==
    ASSUME WorksOK, NEW w \in DOMAIN works
    PROVE  /\ works[w] \in Works /\ WorkOK(works[w])
           /\ works[w].items[1] \in Keys /\ DOMAIN works[w].items = 1 .. Len(works[w].items)
<1>1. works[w] \in Works /\ WorkOK(works[w])
    BY LenProperties, ElementOfSeq DEF WorksOK
<1>2. works[w].items \in Seq(Keys) /\ Len(works[w].items) \in 1 .. 2
    BY <1>1 DEF Works, WorkOK
<1> QED BY <1>1, <1>2, LenProperties, ElementOfSeq

(* A key's entries have a time to live, for an empty answer too.            *)
LEMMA TtlIsTime ==
    ASSUME ClockOK, NEW k \in Keys, NEW version
    PROVE  ttlFor(k, version) \in Nat \ {0}
BY ReadThroughAssumption DEF ClockOK, ttlFor

(* What the invariant says of the properties.                               *)
LEMMA InvTypes == ReadThroughInv => ReadThroughTypeOK
<1> SUFFICES ASSUME ReadThroughInv PROVE ReadThroughTypeOK
    OBVIOUS
<1> USE DEF ReadThroughInv
<1>1. \A k \in Keys : IsHeld(k) =>
        /\ entries[k].expiresAt > now
        /\ entries[k].expiresAt <= now + ttlFor(k, entries[k].version)
    BY DEF EntriesOK, EntryOK
<1>2. \A w \in DOMAIN works : works[w] \in Works
    BY WorkIsWork
<1> QED BY <1>1, <1>2 DEF ReadThroughTypeOK, ClockOK, EntriesOK, WorksOK, FlightsOK,
          Works, Stages, Loaded

LEMMA InvShares == ReadThroughInv => FlightsAreShared
<1> SUFFICES ASSUME ReadThroughInv PROVE FlightsAreShared
    OBVIOUS
<1> USE DEF ReadThroughInv
<1>1. \A i \in Instances, k \in Keys :
        loadsInFlight[i][k] # NoWork =>
          /\ ~Ended(loadsInFlight[i][k])
          /\ works[loadsInFlight[i][k]].items = <<k>>
    BY DEF FlightsOK
<1>2. ASSUME NEW v \in DOMAIN works, NEW w \in DOMAIN works, v # w,
             ~IsMany(v), ~IsMany(w), works[v].items = works[w].items,
             works[v].instance = works[w].instance
      PROVE  Ended(v) \/ Ended(w)
    BY <1>2 DEF FlightsOK
<1> QED BY <1>1, <1>2 DEF FlightsAreShared

LEMMA InvBounds == ReadThroughInv => StalenessIsBounded
<1> SUFFICES ASSUME ReadThroughInv, NEW w \in DOMAIN works, works[w].at = "landing",
                    NEW n \in DOMAIN works[w].items, NEW value \in ValueOf(w, n)
             PROVE  \/ source[value.key] = value.version
                    \/ now <= replacedAt[value.key][value.version]
                                + ttlFor(value.key, value.version) + 2 * LoadTime
    BY DEF StalenessIsBounded
<1> USE DEF ReadThroughInv
<1>1. /\ works[w] \in Works /\ WorkOK(works[w])
      /\ works[w].since \in Nat /\ now <= works[w].since + LoadTime
      /\ n \in DOMAIN works[w].found
    BY WorkIsWork DEF WorkOK, Works
<1>2. PICK k \in Keys, version \in Versions :
        /\ value.key = k /\ value.version = version
        /\ Recent(k, version, works[w].since, ttlFor(k, version) + LoadTime)
  <2>1. CASE works[w].found[n] # Miss
    <3>1. PICK v \in works[w].found[n] : value = [key |-> works[w].items[n], version |-> v]
        BY <2>1 DEF ValueOf
    <3>2. works[w].items[n] \in Keys /\ v \in Versions
        BY <1>1 DEF Works
    <3> QED BY <3>1, <3>2, <1>1 DEF WorkOK
  <2>2. CASE works[w].found[n] = Miss
    <3>1. PICK m \in DOMAIN works[w].loaded : value = works[w].loaded[m]
        BY <2>2 DEF ValueOf
    <3>2. value \in Loaded
        BY <3>1, <1>1 DEF Works
    <3>3. Recent(value.key, value.version, works[w].since, 0)
        BY <3>1, <1>1 DEF WorkOK
    <3>4. replacedAt[value.key][value.version] \in Nat
        BY <3>2 DEF ClockOK, Loaded
    <3>5. ttlFor(value.key, value.version) + LoadTime \in Nat
        BY <3>2, TtlIsTime, ReadThroughAssumption DEF Loaded
    <3> QED BY <1>1, <3>2, <3>3, <3>4, <3>5 DEF Recent, Loaded
  <2> QED BY <2>1, <2>2
<1>3. now \in Nat /\ replacedAt[k][version] \in Nat /\ ttlFor(k, version) \in Nat
    BY TtlIsTime, ReadThroughAssumption DEF ClockOK
<1> QED BY <1>1, <1>2, <1>3, ReadThroughAssumption DEF Recent

(* The places of positions in a set of them are 1, 2, ... with no gap left  *)
(* and none shared.                                                         *)
LEMMA RankOrders ==
    ASSUME NEW positions, IsFiniteSet(positions), positions \subseteq Nat \ {0}
    PROVE  /\ \A n \in positions : Rank(n, positions) \in 1 .. Cardinality(positions)
           /\ \A m, n \in positions : Rank(m, positions) = Rank(n, positions) => m = n
<1>1. ASSUME NEW n \in positions
      PROVE  /\ IsFiniteSet(positions \intersect 1 .. n)
             /\ Rank(n, positions) \in 1 .. Cardinality(positions)
  <2>1. /\ IsFiniteSet(positions \intersect 1 .. n)
        /\ Cardinality(positions \intersect 1 .. n) <= Cardinality(positions)
    BY FS_Intersection
  <2>2. positions \intersect 1 .. n # {}
    OBVIOUS
  <2>3. Cardinality(positions \intersect 1 .. n) # 0
    BY <2>1, <2>2, FS_EmptySet
  <2>4. Cardinality(positions) \in Nat /\ Cardinality(positions \intersect 1 .. n) \in Nat
    BY <2>1, FS_CardinalityType
  <2> QED BY <2>1, <2>3, <2>4 DEF Rank
<1>2. ASSUME NEW m \in positions, NEW n \in positions, m < n
      PROVE  Rank(m, positions) # Rank(n, positions)
  <2> DEFINE upToM == positions \intersect 1 .. m
             upToN == positions \intersect 1 .. n
  <2>1. upToM \subseteq upToN /\ n \in upToN /\ n \notin upToM
    BY <1>2
  <2>2. IsFiniteSet(upToN)
    BY <1>1
  <2> HIDE DEF upToM, upToN
  <2>3. Cardinality(upToM) # Cardinality(upToN)
    BY <2>1, <2>2, FS_Subset
  <2> QED BY <2>3 DEF Rank, upToM, upToN
<1>3. ASSUME NEW m \in positions, NEW n \in positions, Rank(m, positions) = Rank(n, positions)
      PROVE  m = n
  <2>1. m \in Nat /\ n \in Nat
    OBVIOUS
  <2>2. ~(m < n) /\ ~(n < m)
    BY <1>2, <1>3
  <2> QED BY <2>1, <2>2
<1> QED BY <1>1, <1>3

(* An item is answered for exactly when it was found or loaded, and with    *)
(* the one value of it.                                                     *)
LEMMA ValueStands ==
    ASSUME ReadThroughInv, NEW w \in DOMAIN works, works[w].at = "landing",
           NEW n \in DOMAIN works[w].items
    PROVE  LET loaded == {works[w].loaded[m].key : m \in DOMAIN works[w].loaded} IN
           /\ n \in Answered(w) <=> works[w].found[n] # Miss \/ works[w].items[n] \in loaded
           /\ \A value \in ValueOf(w, n) : value.key = works[w].items[n]
           /\ \A u, v \in ValueOf(w, n) : u = v
<1>1. WorkOK(works[w]) /\ n \in DOMAIN works[w].found
    BY WorkIsWork DEF ReadThroughInv, WorkOK
<1>2. CASE works[w].found[n] # Miss
  <2>1. ValueOf(w, n) = {[key |-> works[w].items[n], version |-> v] : v \in works[w].found[n]}
    BY <1>2 DEF ValueOf
  <2>2. ValueOf(w, n) # {}
    BY <2>1, <1>2 DEF Miss
  <2>3. \A u, v \in works[w].found[n] : u = v
    BY <1>1 DEF WorkOK
  <2> QED BY <1>2, <2>1, <2>2, <2>3 DEF Answered
<1>3. CASE works[w].found[n] = Miss
  <2>1. ValueOf(w, n) = {works[w].loaded[m] : m \in {l \in DOMAIN works[w].loaded :
                             works[w].loaded[l].key = works[w].items[n]}}
    BY <1>3 DEF ValueOf
  <2>2. \A l, m \in DOMAIN works[w].loaded :
          works[w].loaded[l].key = works[w].loaded[m].key => l = m
    BY <1>1 DEF WorkOK
  <2> QED BY <1>3, <2>1, <2>2 DEF Answered
<1> QED BY <1>2, <1>3

(* The answer at an answered item's place is that item's value.             *)
LEMMA AnswerAtRank ==
    ASSUME ReadThroughInv, NEW w \in DOMAIN works, works[w].at = "landing",
           NEW n \in Answered(w)
    PROVE  /\ IsFiniteSet(Answered(w)) /\ Cardinality(Answered(w)) \in Nat
           /\ CachedAnswer(w)[Rank(n, Answered(w))] \in ValueOf(w, n)
<1> DEFINE held == Answered(w)
           nth(m) == CHOOSE k \in held : Rank(k, held) = m
           rank == Rank(n, held)
<1>1. /\ Len(works[w].items) \in Nat
      /\ DOMAIN works[w].items = 1 .. Len(works[w].items)
    BY WorkIsWork DEF ReadThroughInv, WorkOK
<1>2. IsFiniteSet(1 .. Len(works[w].items))
    BY <1>1, FS_Interval
<1>3. held \subseteq 1 .. Len(works[w].items) /\ ValueOf(w, n) # {} /\ n \in held
    BY <1>1 DEF Answered
<1>4. CachedAnswer(w) = [m \in 1 .. Cardinality(held) |->
                           CHOOSE value \in ValueOf(w, nth(m)) : TRUE]
    BY DEF CachedAnswer
<1> HIDE DEF held
<1>5. IsFiniteSet(held) /\ held \subseteq Nat \ {0} /\ Cardinality(held) \in Nat
  <2>1. held \subseteq Nat \ {0}
    BY <1>1, <1>3
  <2>2. IsFiniteSet(held)
    BY <1>2, <1>3, FS_Subset
  <2> QED BY <2>1, <2>2, FS_CardinalityType
<1>6. /\ rank \in 1 .. Cardinality(held)
      /\ \A k \in held : Rank(k, held) = rank => k = n
    BY <1>3, <1>5, RankOrders
<1>7. nth(rank) = n
    BY <1>3, <1>6
<1> HIDE DEF nth, rank
<1>8. CachedAnswer(w)[rank] \in ValueOf(w, n)
    BY <1>3, <1>4, <1>6, <1>7
<1> QED BY <1>5, <1>8 DEF held, rank

LEMMA InvPairs == ReadThroughInv => AnswersPairUp
<1> SUFFICES ASSUME ReadThroughInv, NEW w \in DOMAIN works, works[w].at = "landing"
             PROVE  LET items == works[w].items
                        loaded == {works[w].loaded[n].key : n \in DOMAIN works[w].loaded}
                        held == {n \in DOMAIN items :
                                   works[w].found[n] # Miss \/ items[n] \in loaded} IN
                    /\ Len(CachedAnswer(w)) = Cardinality(held)
                    /\ \A n \in held :
                         /\ CachedAnswer(w)[Rank(n, held)].key = items[n]
                         /\ \A value \in ValueOf(w, n) : value = CachedAnswer(w)[Rank(n, held)]
    BY DEF AnswersPairUp
<1> DEFINE items == works[w].items
           loaded == {works[w].loaded[n].key : n \in DOMAIN works[w].loaded}
           held == {n \in DOMAIN items : works[w].found[n] # Miss \/ items[n] \in loaded}
<1>1. Answered(w) \subseteq DOMAIN items
    BY DEF Answered
<1>2. held = Answered(w)
    BY <1>1, ValueStands
<1>3. Cardinality(Answered(w)) \in Nat
  <2>1. IsFiniteSet(1 .. Len(items)) /\ DOMAIN items = 1 .. Len(items)
    BY WorkIsWork, FS_Interval DEF ReadThroughInv, WorkOK
  <2> QED BY <1>1, <2>1, FS_Subset, FS_CardinalityType
<1>4. Len(CachedAnswer(w)) = Cardinality(held)
  <2> DEFINE valueAt(m) == CHOOSE value \in ValueOf(w, CHOOSE n \in Answered(w) :
                                Rank(n, Answered(w)) = m) : TRUE
             size == Cardinality(Answered(w))
  <2>1. CachedAnswer(w) = [m \in 1 .. size |-> valueAt(m)] /\ size \in Nat
    BY <1>3 DEF CachedAnswer
  <2> HIDE DEF valueAt, size
  <2>2. Len(CachedAnswer(w)) = size
    BY <2>1
  <2> QED BY <2>2, <1>2 DEF size
<1>5. ASSUME NEW n \in Answered(w)
      PROVE  LET answer == CachedAnswer(w)[Rank(n, Answered(w))] IN
             answer.key = items[n] /\ \A value \in ValueOf(w, n) : value = answer
    BY <1>1, <1>5, AnswerAtRank, ValueStands
<1> QED BY <1>2, <1>4, <1>5

-----------------------------------------------------------------------------
LEMMA InitHolds == ReadThroughInit => ReadThroughInv
<1> SUFFICES ASSUME ReadThroughInit PROVE ReadThroughInv
    OBVIOUS
<1>1. ClockOK
    BY ReadThroughAssumption DEF ReadThroughInit, ClockOK, Versions
<1>2. EntriesOK
    BY ReadThroughAssumption DEF ReadThroughInit, EntriesOK, EntryOK, IsHeld, NoEntry, Versions
<1>3. works = <<>> /\ Len(works) = 0 /\ DOMAIN works = {} /\ works \in Seq(Works)
    BY DEF ReadThroughInit
<1>4. WorksOK
    BY <1>3, ReadThroughAssumption DEF WorksOK
<1>5. FlightsOK
    BY <1>3 DEF ReadThroughInit, FlightsOK, NoWork
<1> QED BY <1>1, <1>2, <1>4, <1>5 DEF ReadThroughInv

(* Work replaced by what it has become.                                     *)
LEMMA Replaced ==
    ASSUME works \in Seq(Works), NEW w \in DOMAIN works, NEW work \in Works,
           works' = [works EXCEPT ![w] = work]
    PROVE  /\ works' \in Seq(Works) /\ Len(works') = Len(works)
           /\ DOMAIN works' = DOMAIN works
           /\ works'[w] = work
           /\ \A v \in DOMAIN works : v # w => works'[v] = works[v]
<1>1. w \in 1 .. Len(works)
    BY LenProperties
<1> QED BY <1>1, ExceptSeq, LenProperties

(* What changes in works when nothing else of the invariant does.           *)
LEMMA OneWorkOK ==
    ASSUME WorksOK, NEW w \in DOMAIN works, NEW work \in Works,
           works' = [works EXCEPT ![w] = work], WorkOK(work),
           UNCHANGED <<source, replacedAt, emptyTtl, now>>
    PROVE  WorksOK'
<1>1. /\ works' \in Seq(Works) /\ Len(works') = Len(works)
      /\ DOMAIN works' = DOMAIN works /\ works'[w] = work
      /\ \A v \in DOMAIN works : v # w => works'[v] = works[v]
    BY Replaced DEF WorksOK
<1>2. \A v \in DOMAIN works' : WorkOK(works'[v])
    BY <1>1 DEF WorksOK
<1>3. \A v \in DOMAIN works' : WorkOK(works[v])' <=> WorkOK(works'[v])
    BY DEF WorkOK, Recent, ttlFor
<1> QED BY <1>1, <1>2, <1>3 DEF WorksOK

(* The map, when a piece of work goes on.                                   *)
LEMMA FlightGoesOn ==
    ASSUME WorksOK, FlightsOK, NEW w \in DOMAIN works, NEW work \in Works,
           works' = [works EXCEPT ![w] = work], UNCHANGED loadsInFlight,
           work.instance = works[w].instance, work.items = works[w].items,
           works[w].at # "ended", work.at # "ended"
    PROVE  FlightsOK'
<1>1. /\ Len(works') = Len(works)
      /\ DOMAIN works' = DOMAIN works /\ works'[w] = work
      /\ \A v \in DOMAIN works : v # w => works'[v] = works[v]
    BY Replaced DEF WorksOK
<1>2. \A v \in DOMAIN works :
        /\ works'[v].instance = works[v].instance /\ works'[v].items = works[v].items
        /\ works'[v].at = "ended" <=> works[v].at = "ended"
    BY <1>1
<1>3. DOMAIN works = 1 .. Len(works) /\ Len(works) \in Nat
    BY LenProperties DEF WorksOK
<1> QED BY <1>1, <1>2, <1>3 DEF FlightsOK, Ended, IsMany, NoWork

-----------------------------------------------------------------------------
(* Calls.                                                                   *)
LEMMA BeginKeeps ==
    ASSUME ReadThroughInv, NEW i \in Instances, NEW items \in Seq(Keys),
           Len(items) \in 1 .. 2, Begin(i, items),
           QuietSource, UNCHANGED entries
    PROVE  /\ ClockOK' /\ EntriesOK' /\ WorksOK'
           /\ Len(works') = Len(works) + 1 /\ DOMAIN works' = 1 .. Len(works) + 1
           /\ \A w \in DOMAIN works : works'[w] = works[w]
           /\ LET new == works'[Len(works) + 1] IN
              new.instance = i /\ new.items = items /\ new.at = "reading"
<1> USE DEF ReadThroughInv
<1> DEFINE new == [instance |-> i, items |-> items, at |-> "reading",
                   found |-> [n \in DOMAIN items |-> Miss], loaded |-> <<>>, since |-> now]
<1>1. Len(works) < MaxWorks /\ works' = Append(works, new)
    BY DEF Begin
<1>2. new \in Works
  <2>1. [n \in DOMAIN items |-> Miss] \in Seq(SUBSET Versions)
    BY DEF Miss
  <2> QED BY <2>1 DEF Works, Stages, ClockOK
<1>3. /\ WorkOK(new) /\ new.instance = i /\ new.items = items /\ new.at = "reading"
    BY ReadThroughAssumption DEF WorkOK, Miss, ClockOK
<1> HIDE DEF new
<1>4. /\ works' \in Seq(Works) /\ Len(works') = Len(works) + 1
      /\ DOMAIN works' = 1 .. Len(works) + 1 /\ DOMAIN works = 1 .. Len(works)
      /\ \A w \in DOMAIN works : works'[w] = works[w]
      /\ works'[Len(works) + 1] = new /\ Len(works) \in Nat
    BY <1>1, <1>2, AppendProperties, LenProperties DEF WorksOK
<1>5. \A w \in DOMAIN works' : WorkOK(works'[w])
    BY <1>3, <1>4 DEF WorksOK
<1>6. \A w \in DOMAIN works' : WorkOK(works[w])' <=> WorkOK(works'[w])
    BY DEF WorkOK, Recent, ttlFor, QuietSource
<1>7. WorksOK'
    BY <1>1, <1>4, <1>5, <1>6, ReadThroughAssumption DEF WorksOK
<1>8. ClockOK' /\ EntriesOK'
    BY DEF QuietSource, ClockOK, EntriesOK, EntryOK, IsHeld, Recent, ttlFor
<1> QED BY <1>3, <1>4, <1>7, <1>8

LEMMA CachedKeeps ==
    ASSUME ReadThroughInv, NEW i \in Instances, NEW k \in Keys, Cached(i, k)
    PROVE  ReadThroughInv'
<1> USE DEF ReadThroughInv
<1>1. /\ loadsInFlight[i][k] = NoWork /\ Begin(i, <<k>>) /\ QuietSource /\ UNCHANGED entries
      /\ loadsInFlight' = [loadsInFlight EXCEPT ![i][k] = Len(works) + 1]
    BY DEF Cached, singleFlight
<1>2. <<k>> \in Seq(Keys) /\ Len(<<k>>) = 1 /\ <<k>>[1] = k
    OBVIOUS
<1>3. /\ ClockOK' /\ EntriesOK' /\ WorksOK'
      /\ Len(works') = Len(works) + 1 /\ DOMAIN works' = 1 .. Len(works) + 1
      /\ \A w \in DOMAIN works : works'[w] = works[w]
      /\ LET new == works'[Len(works) + 1] IN
         new.instance = i /\ new.items = <<k>> /\ new.at = "reading"
  <2> DEFINE items == <<k>>
  <2>1. items \in Seq(Keys) /\ Len(items) \in 1 .. 2 /\ Begin(i, items)
    BY <1>1, <1>2
  <2> HIDE DEF items
  <2>2. /\ ClockOK' /\ EntriesOK' /\ WorksOK'
        /\ Len(works') = Len(works) + 1 /\ DOMAIN works' = 1 .. Len(works) + 1
        /\ \A w \in DOMAIN works : works'[w] = works[w]
        /\ LET new == works'[Len(works) + 1] IN
           new.instance = i /\ new.items = items /\ new.at = "reading"
    BY <1>1, <2>1, BeginKeeps
  <2> QED BY <2>2 DEF items
<1>4. DOMAIN works = 1 .. Len(works) /\ Len(works) \in Nat
    BY LenProperties DEF WorksOK
<1>5. /\ loadsInFlight' \in [Instances -> [Keys -> 0 .. Len(works')]]
      /\ loadsInFlight'[i][k] = Len(works) + 1
      /\ \A j \in Instances, l \in Keys :
           j # i \/ l # k => loadsInFlight'[j][l] = loadsInFlight[j][l]
    BY <1>1, <1>3, <1>4 DEF FlightsOK
<1>6. ASSUME NEW j \in Instances, NEW l \in Keys, loadsInFlight'[j][l] # NoWork
      PROVE  LET w == loadsInFlight'[j][l] IN
             works'[w].at # "ended" /\ works'[w].items = <<l>> /\ works'[w].instance = j
  <2>1. CASE j = i /\ l = k
    BY <2>1, <1>3, <1>5
  <2>2. CASE j # i \/ l # k
    BY <2>2, <1>3, <1>4, <1>5, <1>6 DEF FlightsOK, Ended, NoWork
  <2> QED BY <2>1, <2>2
<1>7. ASSUME NEW w \in DOMAIN works', works'[w].at # "ended", ~(Len(works'[w].items) > 1)
      PROVE  loadsInFlight'[works'[w].instance][works'[w].items[1]] = w
  <2>1. CASE w = Len(works) + 1
    BY <2>1, <1>2, <1>3, <1>5
  <2>2. CASE w # Len(works) + 1
    <3>1. w \in DOMAIN works /\ works'[w] = works[w] /\ w # NoWork
        BY <2>2, <1>3, <1>4 DEF NoWork
    <3>2. loadsInFlight[works[w].instance][works[w].items[1]] = w
        BY <3>1, <1>7 DEF FlightsOK, Ended, IsMany
    <3>3. works[w].instance \in Instances /\ works[w].items[1] \in Keys
        BY <3>1, WorkIsWork DEF Works
    <3> QED BY <3>1, <3>2, <3>3, <1>1, <1>5
  <2> QED BY <2>1, <2>2
<1>8. FlightsOK'
    BY <1>5, <1>6, <1>7 DEF FlightsOK, Ended, IsMany
<1> QED BY <1>3, <1>8

LEMMA CachedManyKeeps ==
    ASSUME ReadThroughInv, NEW i \in Instances, NEW items \in Pairs, CachedMany(i, items)
    PROVE  ReadThroughInv'
<1> USE DEF ReadThroughInv
<1>1. items \in Seq(Keys) /\ Len(items) = 2
  <2>1. items \in [1 .. 2 -> Keys]
    BY DEF Pairs
  <2>2. items = <<items[1], items[2]>>
    BY <2>1
  <2>3. <<items[1], items[2]>> \in Seq(Keys) /\ Len(<<items[1], items[2]>>) = 2
    BY <2>1
  <2> QED BY <2>2, <2>3
<1>2. Begin(i, items) /\ QuietSource /\ UNCHANGED <<entries, loadsInFlight>>
    BY DEF CachedMany
<1>3. /\ ClockOK' /\ EntriesOK' /\ WorksOK'
      /\ Len(works') = Len(works) + 1 /\ DOMAIN works' = 1 .. Len(works) + 1
      /\ \A w \in DOMAIN works : works'[w] = works[w]
      /\ works'[Len(works) + 1].items = items
    BY <1>1, <1>2, BeginKeeps
<1>4. DOMAIN works = 1 .. Len(works) /\ Len(works) \in Nat
    BY LenProperties DEF WorksOK
<1>5. /\ loadsInFlight' \in [Instances -> [Keys -> 0 .. Len(works')]]
      /\ \A j \in Instances, l \in Keys :
           loadsInFlight[j][l] # NoWork => loadsInFlight[j][l] \in DOMAIN works
    BY <1>2, <1>3, <1>4 DEF FlightsOK, NoWork
<1>6. ASSUME NEW w \in DOMAIN works'
      PROVE  w \in DOMAIN works \/ Len(works'[w].items) > 1
  <2>1. w \in DOMAIN works \/ w = Len(works) + 1
    BY <1>3, <1>4
  <2>2. w = Len(works) + 1 => works'[w].items = items /\ Len(items) > 1
    BY <1>1, <1>3
  <2> QED BY <2>1, <2>2
<1>7. FlightsOK'
    BY <1>2, <1>3, <1>5, <1>6 DEF FlightsOK, Ended, IsMany
<1> QED BY <1>3, <1>7

-----------------------------------------------------------------------------
(* The steps of a piece of work.                                            *)
LEMMA ReadKeeps ==
    ASSUME ReadThroughInv, NEW w \in DOMAIN works, Read(w)
    PROVE  ReadThroughInv'
<1> USE DEF ReadThroughInv
<1> DEFINE items == works[w].items
           foundOf(isUp) == [n \in DOMAIN items |->
             IF isUp /\ IsHeld(items[n]) THEN {entries[items[n]].version} ELSE Miss]
           atOf(found) == IF \E n \in DOMAIN found : found[n] = Miss THEN "loading" ELSE "landing"
<1>1. PICK isUp \in BOOLEAN :
        works' = [works EXCEPT ![w].found = foundOf(isUp), ![w].at = atOf(foundOf(isUp))]
    BY DEF Read
<1> DEFINE found == foundOf(isUp)
           work == [works[w] EXCEPT !.found = found, !.at = atOf(found)]
<1>2. /\ works[w].at = "reading" /\ works' = [works EXCEPT ![w] = work]
      /\ UNCHANGED <<source, replacedAt, emptyTtl, now, updates, entries, loadsInFlight>>
    BY <1>1 DEF Read, QuietSource
<1>3. works[w] \in Works /\ WorkOK(works[w])
    BY WorkIsWork
<1>4. /\ items \in Seq(Keys) /\ Len(items) \in Nat /\ DOMAIN items = 1 .. Len(items)
      /\ \A n \in DOMAIN items : items[n] \in Keys
    BY <1>3, LenProperties, ElementOfSeq DEF Works
<1>5. found \in Seq(SUBSET Versions) /\ DOMAIN found = DOMAIN items
  <2>1. \A n \in 1 .. Len(items) : found[n] \in SUBSET Versions
    BY <1>4 DEF EntriesOK, Miss
  <2>2. found \in [1 .. Len(items) -> SUBSET Versions]
    BY <1>4, <2>1
  <2> QED BY <1>4, <2>2, SeqDef
<1>6. atOf(found) \in {"loading", "landing"}
    OBVIOUS
<1>7. \A n \in DOMAIN found : \A version \in found[n] :
        Recent(items[n], version, works[w].since, ttlFor(items[n], version) + LoadTime)
  <2> SUFFICES ASSUME NEW n \in DOMAIN found, NEW version \in found[n]
               PROVE  Recent(items[n], version, works[w].since, ttlFor(items[n], version) + LoadTime)
    OBVIOUS
  <2>1. /\ items[n] \in Keys /\ IsHeld(items[n]) /\ version = entries[items[n]].version
    BY <1>4, <1>5 DEF Miss
  <2>2. /\ version \in Versions /\ entries[items[n]].expiresAt \in Nat
        /\ replacedAt[items[n]][version] \in Nat
    BY <2>1 DEF EntriesOK, ClockOK
  <2>3. works[w].since <= now /\ works[w].since \in Nat /\ now \in Nat
    BY <1>2, <1>3 DEF WorkOK, Works, ClockOK
  <2>4. EntryOK(items[n])
    BY <2>1 DEF EntriesOK
  <2>5. ttlFor(items[n], version) + LoadTime \in Nat
    BY <2>1, TtlIsTime, ReadThroughAssumption
  <2> QED BY <2>1, <2>2, <2>3, <2>4, <2>5 DEF EntryOK, Recent
<1>one. \A n \in DOMAIN found : \A u, v \in found[n] : u = v
    BY DEF Miss
<1> HIDE DEF found, atOf, foundOf
<1>8. /\ work \in Works /\ work.at # "ended" /\ work.found = found
      /\ work.items = items /\ work.instance = works[w].instance
      /\ work.loaded = works[w].loaded /\ work.since = works[w].since
    BY <1>3, <1>5, <1>6 DEF Works, Stages
<1>9. WorkOK(work)
    BY <1>2, <1>3, <1>5, <1>7, <1>8, <1>one DEF WorkOK
<1> HIDE DEF work
<1>10. WorksOK' /\ FlightsOK'
    BY <1>2, <1>8, <1>9, OneWorkOK, FlightGoesOn
<1>11. ClockOK' /\ EntriesOK'
    BY <1>2 DEF ClockOK, EntriesOK, EntryOK, IsHeld, Recent, ttlFor
<1> QED BY <1>10, <1>11

LEMMA MissingIsFinite ==
    ASSUME WorksOK, NEW w \in DOMAIN works, works[w].at # "ended"
    PROVE  IsFiniteSet(Missing(w)) /\ Missing(w) \subseteq Keys
<1>1. works[w] \in Works /\ WorkOK(works[w])
    BY WorkIsWork
<1>2. /\ works[w].items \in Seq(Keys) /\ Len(works[w].items) \in 1 .. 2
      /\ DOMAIN works[w].items = 1 .. Len(works[w].items)
      /\ \A n \in DOMAIN works[w].items : works[w].items[n] \in Keys
    BY <1>1, LenProperties, ElementOfSeq DEF Works, WorkOK
<1>3. Missing(w) \subseteq Keys /\ Missing(w) \subseteq {works[w].items[1], works[w].items[2]}
    BY <1>2 DEF Missing
<1>4. \A a, b : IsFiniteSet(({} \union {a}) \union {b})
    BY FS_EmptySet, FS_AddElement
<1>5. IsFiniteSet({works[w].items[1], works[w].items[2]})
    BY <1>4
<1>6. IsFiniteSet(Missing(w))
    BY <1>3, <1>5, FS_Subset
<1> QED BY <1>3, <1>6

LEMMA LoadsKeeps ==
    ASSUME ReadThroughInv, NEW w \in DOMAIN works, Loads(w)
    PROVE  ReadThroughInv'
<1> USE DEF ReadThroughInv
<1> DEFINE loadedOf(keys) ==
             [n \in DOMAIN keys |-> [key |-> keys[n], version |-> source[keys[n]]]]
<1>1. PICK some \in SUBSET Missing(w) : \E keys \in SetToSeqs(some) :
        works' = [works EXCEPT ![w].at = "writing", ![w].loaded = loadedOf(keys)]
    BY DEF Loads
<1>2. PICK keys \in SetToSeqs(some) :
        works' = [works EXCEPT ![w].at = "writing", ![w].loaded = loadedOf(keys)]
    BY <1>1
<1> DEFINE loaded == loadedOf(keys)
           work == [works[w] EXCEPT !.at = "writing", !.loaded = loaded]
<1>3. /\ works[w].at = "loading" /\ works' = [works EXCEPT ![w] = work]
      /\ UNCHANGED <<source, replacedAt, emptyTtl, now, updates, entries, loadsInFlight>>
    BY <1>2 DEF Loads, QuietSource
<1>4. works[w] \in Works /\ WorkOK(works[w])
    BY WorkIsWork
<1>5. some \subseteq Keys /\ Cardinality(some) \in Nat
    BY <1>3, MissingIsFinite, FS_Subset, FS_CardinalityType
<1>6. keys \in [1 .. Cardinality(some) -> some]
    BY DEF SetToSeqs
<1>7. /\ loaded \in Seq(Loaded)
      /\ \A n \in DOMAIN loaded : source[loaded[n].key] = loaded[n].version
  <2>1. loaded \in [1 .. Cardinality(some) -> Loaded]
    BY <1>5, <1>6 DEF Loaded, ClockOK
  <2>2. loaded \in Seq(Loaded)
    BY <2>1, <1>5, SeqDef
  <2> QED BY <2>2
<1>one. \A m, n \in DOMAIN loaded : loaded[m].key = loaded[n].key => m = n
  <2>1. \A m, n \in DOMAIN keys : keys[m] = keys[n] => m = n
    BY DEF SetToSeqs
  <2> QED BY <2>1
<1> HIDE DEF loaded, loadedOf
<1>8. /\ work \in Works /\ work.at # "ended" /\ work.loaded = loaded
      /\ work.items = works[w].items /\ work.instance = works[w].instance
      /\ work.found = works[w].found /\ work.since = works[w].since
    BY <1>4, <1>7 DEF Works, Stages
<1>9. WorkOK(work)
    BY <1>3, <1>4, <1>7, <1>8, <1>one DEF WorkOK, Recent, ttlFor
<1> HIDE DEF work
<1>10. WorksOK' /\ FlightsOK'
    BY <1>3, <1>8, <1>9, OneWorkOK, FlightGoesOn
<1>11. ClockOK' /\ EntriesOK'
    BY <1>3 DEF ClockOK, EntriesOK, EntryOK, IsHeld, Recent, ttlFor
<1> QED BY <1>10, <1>11

LEMMA WriteKeeps ==
    ASSUME ReadThroughInv, NEW w \in DOMAIN works, Write(w)
    PROVE  ReadThroughInv'
<1> USE DEF ReadThroughInv
<1> DEFINE loaded == works[w].loaded
           work == [works[w] EXCEPT !.at = "landing"]
<1>1. /\ works[w].at = "writing" /\ works' = [works EXCEPT ![w] = work]
      /\ UNCHANGED <<source, replacedAt, emptyTtl, now, updates, loadsInFlight>>
    BY DEF Write, QuietSource
<1>2. PICK isUp \in BOOLEAN :
        entries' = [k \in Keys |->
          IF isUp /\ \E n \in DOMAIN loaded : loaded[n].key = k
            THEN Pinned(k, loaded[CHOOSE n \in DOMAIN loaded : loaded[n].key = k].version)
            ELSE entries[k]]
    BY DEF Write
<1>3. works[w] \in Works /\ WorkOK(works[w])
    BY WorkIsWork
<1>4. /\ works[w].since \in Nat /\ now \in Nat /\ now <= works[w].since + LoadTime
      /\ \A n \in DOMAIN loaded :
           /\ loaded[n] \in Loaded
           /\ Recent(loaded[n].key, loaded[n].version, works[w].since, 0)
  <2>1. loaded \in Seq(Loaded)
    BY <1>3 DEF Works
  <2> QED BY <2>1, <1>1, <1>3 DEF WorkOK, Works, ClockOK
<1>5. ASSUME NEW k \in Keys
      PROVE  entries'[k] \in [version : Versions, expiresAt : Nat] /\ EntryOK(k)'
  <2>1. CASE entries'[k] = entries[k]
    BY <2>1, <1>1 DEF EntriesOK, EntryOK, IsHeld, Recent, ttlFor
  <2>2. CASE \E n \in DOMAIN loaded : /\ loaded[n].key = k
                                        /\ entries'[k] = Pinned(k, loaded[n].version)
    <3>1. PICK n \in DOMAIN loaded : loaded[n].key = k /\ entries'[k] = Pinned(k, loaded[n].version)
        BY <2>2
    <3> DEFINE version == loaded[n].version
    <3>2. /\ version \in Versions /\ Recent(k, version, works[w].since, 0)
          /\ replacedAt[k][version] \in Nat /\ ttlFor(k, version) \in Nat \ {0}
        BY <3>1, <1>4, ReadThroughAssumption DEF Loaded, ClockOK, ttlFor
    <3>3. entries'[k].version = version /\ entries'[k].expiresAt = now + ttlFor(k, version)
        BY <3>1 DEF Pinned
    <3>4. Recent(k, version, now + ttlFor(k, version), ttlFor(k, version) + LoadTime)
        BY <3>2, <1>4, ReadThroughAssumption DEF Recent, ttlFor
    <3> HIDE DEF version
    <3>5. entries'[k] \in [version : Versions, expiresAt : Nat]
        BY <3>1, <3>2, <1>4 DEF Pinned, version
    <3>6. EntryOK(k)'
        BY <3>2, <3>3, <3>4, <1>1, <1>4 DEF EntryOK, Recent, ttlFor
    <3> QED BY <3>5, <3>6
  <2> QED BY <2>1, <2>2, <1>2
<1>6. EntriesOK'
  <2>1. DOMAIN entries' = Keys /\ entries' = [k \in Keys |-> entries'[k]]
    BY <1>2
  <2> QED BY <2>1, <1>5 DEF EntriesOK
<1>7. /\ work \in Works /\ work.at # "ended" /\ work.loaded = works[w].loaded
      /\ work.items = works[w].items /\ work.instance = works[w].instance
      /\ work.found = works[w].found /\ work.since = works[w].since
    BY <1>3 DEF Works, Stages
<1>8. WorkOK(work)
    BY <1>1, <1>3, <1>7 DEF WorkOK
<1> HIDE DEF work
<1>9. WorksOK' /\ FlightsOK'
    BY <1>1, <1>7, <1>8, OneWorkOK, FlightGoesOn
<1>10. ClockOK'
    BY <1>1 DEF ClockOK
<1> QED BY <1>6, <1>9, <1>10

(* However a promise ends, it leaves the map.                               *)
LEMMA EndKeeps ==
    ASSUME ReadThroughInv, NEW w \in DOMAIN works, EndOf(w), works[w].at # "ended",
           QuietSource, UNCHANGED entries
    PROVE  ReadThroughInv'
<1> USE DEF ReadThroughInv
<1> DEFINE work == NothingLeft(w)
<1>1. /\ works' = [works EXCEPT ![w] = work]
      /\ UNCHANGED <<source, replacedAt, emptyTtl, now, updates, entries>>
    BY DEF EndOf, QuietSource
<1>2. works[w] \in Works /\ WorkOK(works[w])
    BY WorkIsWork
<1>3. /\ work \in Works /\ work.at = "ended" /\ work.items = works[w].items
      /\ work.found = <<>> /\ work.loaded = <<>>
  <2>1. 0 \in 0 .. MaxTicks /\ "ended" \in Stages
    BY ReadThroughAssumption DEF Stages
  <2>2. <<>> \in Seq(SUBSET Versions) /\ <<>> \in Seq(Loaded)
    BY EmptySeq
  <2>3. work = [works[w] EXCEPT !.at = "ended", !.found = <<>>, !.loaded = <<>>, !.since = 0]
    BY DEF NothingLeft
  <2> HIDE DEF work
  <2> QED BY <1>2, <2>1, <2>2, <2>3 DEF Works
<1>4. WorkOK(work)
    BY <1>2, <1>3 DEF WorkOK
<1> HIDE DEF work
<1>5. /\ Len(works') = Len(works) /\ DOMAIN works' = DOMAIN works /\ works'[w] = work
      /\ \A v \in DOMAIN works : v # w => works'[v] = works[v]
    BY <1>1, <1>3, Replaced DEF WorksOK
<1>6. DOMAIN works = 1 .. Len(works) /\ Len(works) \in Nat
    BY LenProperties DEF WorksOK
<1>7. /\ loadsInFlight' \in [Instances -> [Keys -> 0 .. Len(works')]]
      /\ \A i \in Instances, k \in Keys :
           loadsInFlight'[i][k] = IF loadsInFlight[i][k] = w THEN NoWork ELSE loadsInFlight[i][k]
    BY <1>5, <1>6 DEF EndOf, FlightsOK, NoWork
<1>8. \A v \in DOMAIN works : works[v].instance \in Instances /\ works[v].items[1] \in Keys
    BY WorkIsWork DEF Works
<1>9. FlightsOK'
  <2>1. ASSUME NEW i \in Instances, NEW k \in Keys, loadsInFlight'[i][k] # NoWork
        PROVE  LET v == loadsInFlight'[i][k] IN
               works'[v].at # "ended" /\ works'[v].items = <<k>> /\ works'[v].instance = i
    BY <2>1, <1>5, <1>6, <1>7 DEF FlightsOK, Ended, NoWork
  <2>2. ASSUME NEW v \in DOMAIN works', works'[v].at # "ended", ~(Len(works'[v].items) > 1)
        PROVE  loadsInFlight'[works'[v].instance][works'[v].items[1]] = v
    <3>1. v # w /\ v \in DOMAIN works /\ works'[v] = works[v]
        BY <2>2, <1>3, <1>5
    <3>2. loadsInFlight[works[v].instance][works[v].items[1]] = v
        BY <3>1, <2>2 DEF FlightsOK, Ended, IsMany
    <3> QED BY <3>1, <3>2, <1>7, <1>8
  <2> QED BY <2>1, <2>2, <1>7 DEF FlightsOK, Ended, IsMany
<1>10. WorksOK'
    BY <1>1, <1>3, <1>4, OneWorkOK
<1>11. ClockOK' /\ EntriesOK'
    BY <1>1 DEF ClockOK, EntriesOK, EntryOK, IsHeld, Recent, ttlFor
<1> QED BY <1>9, <1>10, <1>11

-----------------------------------------------------------------------------
(* The source and the clock.  A version that was behind its key lately      *)
(* stays so when the source moves on.                                       *)
LEMMA SourceKeeps ==
    ASSUME ReadThroughInv, NEW k \in Keys, SourceChanges(k)
    PROVE  ReadThroughInv'
<1> USE DEF ReadThroughInv
<1>1. /\ updates < MaxUpdates /\ updates' = updates + 1
      /\ replacedAt' = [replacedAt EXCEPT ![k][source[k]] = now]
      /\ UNCHANGED <<entries, emptyTtl, works, loadsInFlight, now>>
    BY DEF SourceChanges
<1>2. PICK version \in {0, updates' + 1} : source' = [source EXCEPT ![k] = version]
    BY DEF SourceChanges
<1>3. /\ version \in Versions /\ now \in 0 .. MaxTicks /\ MaxTicks \in Nat
      /\ updates' \in 0 .. MaxUpdates
    BY <1>1, ReadThroughAssumption DEF Versions, ClockOK
<1>4. ClockOK'
    BY <1>1, <1>2, <1>3 DEF ClockOK
<1>5. ASSUME NEW l \in Keys, NEW v \in Versions, NEW t \in Nat, NEW slack \in Nat,
             Recent(l, v, t, slack), t <= now + slack
      PROVE  Recent(l, v, t, slack)'
  <2>1. CASE l = k /\ source[k] = v
    <3>1. replacedAt'[l][v] = now
        BY <2>1, <1>1 DEF ClockOK
    <3> QED BY <3>1, <1>5 DEF Recent, ttlFor
  <2>2. CASE ~(l = k /\ source[k] = v)
    <3>1. replacedAt'[l][v] = replacedAt[l][v] /\ (source[l] = v => source'[l] = v)
        BY <2>2, <1>1, <1>2 DEF ClockOK
    <3> QED BY <3>1, <1>5 DEF Recent, ttlFor
  <2> QED BY <2>1, <2>2
<1>6. EntriesOK'
  <2> SUFFICES ASSUME NEW l \in Keys, IsHeld(l)
               PROVE  Recent(l, entries[l].version, entries[l].expiresAt,
                             ttlFor(l, entries[l].version) + LoadTime)'
    BY <1>1 DEF EntriesOK, EntryOK, IsHeld, ttlFor
  <2> DEFINE v == entries[l].version
             t == entries[l].expiresAt
             slack == ttlFor(l, v) + LoadTime
  <2>1. /\ v \in Versions /\ t \in Nat /\ slack \in Nat
        /\ Recent(l, v, t, slack) /\ t <= now + slack
    BY <1>3, TtlIsTime, ReadThroughAssumption DEF EntriesOK, EntryOK
  <2> HIDE DEF slack
  <2>2. source'[l] = v \/ t <= replacedAt'[l][v] + slack
    BY <2>1, <1>5 DEF Recent, ttlFor
  <2> QED BY <2>2, <1>1 DEF Recent, slack, ttlFor
<1>7. ASSUME NEW w \in DOMAIN works PROVE WorkOK(works[w])'
  <2>1. works[w] \in Works /\ WorkOK(works[w])
    BY WorkIsWork
  <2>2. /\ works[w].since \in Nat /\ now \in Nat
        /\ works[w].found \in Seq(SUBSET Versions) /\ works[w].loaded \in Seq(Loaded)
        /\ \A n \in DOMAIN works[w].items : works[w].items[n] \in Keys
    BY <2>1, <1>3 DEF Works
  <2>3. \A n \in DOMAIN works[w].found : works[w].found[n] \subseteq Versions
    BY <2>2
  <2>4. \A n \in DOMAIN works[w].loaded : works[w].loaded[n] \in Loaded
    BY <2>2
  <2>5. CASE works[w].at = "ended"
    <3>1. DOMAIN works[w].found = {} /\ DOMAIN works[w].loaded = {}
        BY <2>1, <2>5 DEF WorkOK
    <3> QED BY <2>1, <2>5, <3>1, <1>1 DEF WorkOK
  <2>6. CASE works[w].at # "ended"
    <3>1. works[w].since <= now /\ DOMAIN works[w].found = DOMAIN works[w].items
        BY <2>1, <2>6 DEF WorkOK
    <3>2. ASSUME NEW n \in DOMAIN works[w].found, NEW v \in works[w].found[n]
          PROVE  Recent(works[w].items[n], v, works[w].since,
                         ttlFor(works[w].items[n], v) + LoadTime)'
      <4> DEFINE slack == ttlFor(works[w].items[n], v) + LoadTime
      <4>1. /\ v \in Versions /\ slack \in Nat
            /\ Recent(works[w].items[n], v, works[w].since, slack)
        <5>1. works[w].items[n] \in Keys
            BY <2>2, <3>1
        <5>2. ttlFor(works[w].items[n], v) \in Nat
            BY <5>1, TtlIsTime
        <5>3. Recent(works[w].items[n], v, works[w].since, slack)
            BY <2>1 DEF WorkOK
        <5> QED BY <2>3, <5>2, <5>3, ReadThroughAssumption
      <4>2. works[w].items[n] \in Keys /\ works[w].since <= now + slack
        BY <2>2, <3>1, <4>1
      <4> HIDE DEF slack
      <4>3. \/ source'[works[w].items[n]] = v
            \/ works[w].since <= replacedAt'[works[w].items[n]][v] + slack
        BY <1>5, <2>2, <4>1, <4>2 DEF Recent, ttlFor
      <4> QED BY <4>3, <1>1 DEF Recent, slack, ttlFor
    <3>3. ASSUME NEW n \in DOMAIN works[w].loaded
          PROVE  Recent(works[w].loaded[n].key, works[w].loaded[n].version, works[w].since, 0)'
      <4> DEFINE k1 == works[w].loaded[n].key
                 v1 == works[w].loaded[n].version
      <4>1. k1 \in Keys /\ v1 \in Versions /\ Recent(k1, v1, works[w].since, 0)
        BY <2>1, <2>4 DEF WorkOK, Loaded
      <4>2. source'[k1] = v1 \/ works[w].since <= replacedAt'[k1][v1] + 0
        BY <1>5, <2>2, <3>1, <4>1 DEF Recent, ttlFor
      <4> QED BY <4>2, <1>1 DEF Recent, ttlFor
    <3> QED BY <2>1, <2>6, <3>2, <3>3, <1>1 DEF WorkOK
  <2> QED BY <2>5, <2>6
<1>8. WorksOK' /\ FlightsOK'
    BY <1>1, <1>7 DEF WorksOK, FlightsOK, Ended, IsMany
<1> QED BY <1>4, <1>6, <1>8

LEMMA TickKeeps ==
    ASSUME ReadThroughInv, Tick
    PROVE  ReadThroughInv'
<1> USE DEF ReadThroughInv
<1>1. /\ now < MaxTicks /\ now' = now + 1 /\ now \in Nat /\ MaxTicks \in Nat
      /\ \A w \in DOMAIN works : Ended(w) \/ now < works[w].since + LoadTime
      /\ UNCHANGED <<source, replacedAt, emptyTtl, works, loadsInFlight, updates>>
    BY ReadThroughAssumption DEF Tick, ClockOK
<1>2. entries' = [k \in Keys |-> IF entries[k].expiresAt > now' THEN entries[k] ELSE NoEntry]
    BY DEF Tick
<1>3. NoEntry \in [version : Versions, expiresAt : Nat]
    BY ReadThroughAssumption DEF NoEntry, Versions
<1>4. EntriesOK'
  <2>1. entries' \in [Keys -> [version : Versions, expiresAt : Nat]]
    BY <1>2, <1>3 DEF EntriesOK
  <2>2. ASSUME NEW k \in Keys, entries'[k] # NoEntry
        PROVE  /\ entries'[k] = entries[k] /\ now' < entries[k].expiresAt
               /\ EntryOK(k) /\ IsHeld(k)
               /\ entries[k].version \in Versions /\ entries[k].expiresAt \in Nat
    BY <2>2, <1>2 DEF EntriesOK, IsHeld
  <2>3. ASSUME NEW k \in Keys PROVE EntryOK(k)'
    <3>1. ttlFor(k, entries[k].version) \in Nat /\ ttlFor(k, entries[k].version)'
              = ttlFor(k, entries'[k].version)
        BY <1>1, TtlIsTime DEF ttlFor
    <3> QED BY <3>1, <2>2, <1>1, ReadThroughAssumption DEF EntryOK, IsHeld, Recent, ttlFor
  <2> QED BY <2>1, <2>3 DEF EntriesOK
<1>5. ASSUME NEW w \in DOMAIN works PROVE WorkOK(works[w])'
  <2>1. works[w] \in Works /\ WorkOK(works[w])
    BY WorkIsWork
  <2>2. works[w].since \in Nat
    BY <2>1 DEF Works
  <2> QED BY <2>1, <2>2, <1>1, ReadThroughAssumption DEF WorkOK, Recent, ttlFor, Ended
<1>6. WorksOK' /\ FlightsOK'
    BY <1>1, <1>5 DEF WorksOK, FlightsOK, Ended, IsMany
<1>7. ClockOK'
    BY <1>1 DEF ClockOK
<1> QED BY <1>4, <1>6, <1>7

-----------------------------------------------------------------------------
(* Every step keeps the invariant.                                          *)
LEMMA StepHolds ==
    ASSUME ReadThroughInv, [ReadThroughNext]_ReadThroughVars
    PROVE  ReadThroughInv'
<1>1. CASE UNCHANGED ReadThroughVars
  <2>1. UNCHANGED <<source, replacedAt, emptyTtl, entries, works, loadsInFlight, now, updates>>
    BY <1>1 DEF ReadThroughVars
  <2>2. ClockOK' /\ EntriesOK' /\ FlightsOK'
    BY <2>1 DEF ReadThroughInv, ClockOK, EntriesOK, EntryOK, IsHeld, Recent, ttlFor, FlightsOK, Ended, IsMany
  <2>3. \A w \in DOMAIN works : WorkOK(works[w]) => WorkOK(works[w])'
    BY <2>1 DEF WorkOK, Recent, ttlFor
  <2>4. WorksOK'
    BY <2>1, <2>3 DEF ReadThroughInv, WorksOK
  <2> QED BY <2>2, <2>4 DEF ReadThroughInv
<1>2. ASSUME NEW w \in DOMAIN works, LoaderFails(w) \/ Lands(w)
      PROVE  ReadThroughInv'
    BY <1>2, EndKeeps DEF LoaderFails, Lands
<1> QED BY <1>1, <1>2, CachedKeeps, CachedManyKeeps, ReadKeeps, LoadsKeeps, WriteKeeps,
          SourceKeeps, TickKeeps DEF ReadThroughNext

THEOREM ReadThroughInvariant == ReadThroughSpec => []ReadThroughInv
BY InitHolds, StepHolds, PTL DEF ReadThroughSpec

(* Every variable keeps its type; no entry outlives its expiry, and none is *)
(* kept for longer than its key's callers say: an empty answer for the      *)
(* shorter time where they name one (ttlFor and cachedArray), and whatever  *)
(* a batch loaded for the one time of its request (redis-cache.ts).         *)
THEOREM ReadThroughTypeCorrect == ReadThroughSpec => []ReadThroughTypeOK
BY ReadThroughInvariant, InvTypes, PTL

(* singleFlight: what an instance's callers share is under way and for      *)
(* their key, and one instance never works twice at once for one key; a     *)
(* failed loader leaves no key behind.                                      *)
THEOREM OneFlightPerKey == ReadThroughSpec => []FlightsAreShared
BY ReadThroughInvariant, InvShares, PTL

(* cachedMany answers in the request's order, each value for the item it    *)
(* is of and the only one held for it, though some were found in Redis and  *)
(* the loader answered the others short and in an order of its own.         *)
THEOREM AnswersFollowTheRequest == ReadThroughSpec => []AnswersPairUp
BY ReadThroughInvariant, InvPairs, PTL

(* cached, cachedArray and cachedMany: however writes, failures and expiries *)
(* fall, an answer was the source's no longer ago than its time to live and *)
(* the two pieces of work it passed through; an empty one's time to live is *)
(* the shorter one only where the key's callers name one.                   *)
THEOREM AnswersAreRecent == ReadThroughSpec => []StalenessIsBounded
BY ReadThroughInvariant, InvBounds, PTL
=============================================================================
