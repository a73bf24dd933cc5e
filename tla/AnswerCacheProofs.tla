-------------------------- MODULE AnswerCacheProofs --------------------------
(***************************************************************************)
(* Proofs about AnswerCache, for every set of requests, every size and     *)
(* every time to live.  What an entry says does not depend on the order in *)
(* which keys were used, so the two are looked at one after the other.     *)
(***************************************************************************)
EXTENDS AnswerCache, ListLemmas

\* What EntriesFit says, of any dictionary of entries.
Sound(entry) ==
    /\ entry \in [Key -> Entry \cup {NoEntry}]
    /\ \A k \in Key : entry[k] # NoEntry => EntryFits(k, entry[k])

\* A dictionary whose every entry is one of a sound dictionary is sound.
LEMMA KeepingIsSound ==
    ASSUME NEW old, Sound(old),
           NEW new, new \in [Key -> Entry \cup {NoEntry}],
           \A k \in Key : new[k] \in {old[k], NoEntry}
    PROVE  Sound(new)
BY DEF Sound

\* Dropping a key keeps a dictionary sound.
LEMMA DropIsSound ==
    ASSUME NEW c, Sound(c.entry), NEW k
    PROVE  Sound(Drop(c, k).entry)
<1>1. Drop(c, k).entry = [c.entry EXCEPT ![k] = NoEntry]
  BY DEF Drop
<1>2. [c.entry EXCEPT ![k] = NoEntry] \in [Key -> Entry \cup {NoEntry}]
  BY DEF Sound
<1>3. \A j \in Key : [c.entry EXCEPT ![k] = NoEntry][j] \in {c.entry[j], NoEntry}
  BY DEF Sound
<1> QED BY <1>1, <1>2, <1>3, KeepingIsSound

\* Reading keeps a dictionary sound.
LEMMA GetIsSound ==
    ASSUME NEW c, Sound(c.entry), NEW k
    PROVE  Sound(Get(c, k).entry)
<1>1. CASE IsHit(c, k)
  <2>1. Get(c, k).entry = c.entry
    BY <1>1 DEF Get
  <2> QED BY <2>1
<1>2. CASE ~IsHit(c, k)
  BY <1>2, DropIsSound DEF Get
<1> QED BY <1>1, <1>2

\* Storing an entry that fits its key keeps a dictionary sound.
LEMMA PutIsSound ==
    ASSUME NEW c, Sound(c.entry), clock \in Nat,
           NEW k \in Key, NEW answer \in Answer, NEW ttl \in Nat,
           EntryFits(k, [answer |-> answer, expires |-> clock + ttl])
    PROVE  Sound(Put(c, k, answer, ttl).entry)
<1> DEFINE e == [answer |-> answer, expires |-> clock + ttl]
           d == [order |-> UsedLast(c.order, k), entry |-> [c.entry EXCEPT ![k] = e]]
<1>1. e \in Entry
  BY DEF Entry
<1>2. Sound(d.entry)
  <2>1. d.entry = [c.entry EXCEPT ![k] = e]
    OBVIOUS
  <2> HIDE DEF e, d
  <2>2. d.entry \in [Key -> Entry \cup {NoEntry}]
    BY <2>1, <1>1 DEF Sound
  <2>3. ASSUME NEW j \in Key, d.entry[j] # NoEntry
        PROVE  EntryFits(j, d.entry[j])
    <3>1. CASE j = k
      <4>1. d.entry[j] = e
        BY <2>1, <3>1 DEF Sound
      <4> QED BY <4>1, <3>1 DEF e
    <3>2. CASE j # k
      BY <2>1, <2>3, <3>2 DEF Sound
    <3> QED BY <3>1, <3>2
  <2> QED BY <2>2, <2>3 DEF Sound
<1>3. Put(c, k, answer, ttl) = Evict(d)
  BY DEF Put
<1> HIDE DEF d
<1> QED BY <1>2, <1>3, DropIsSound DEF Evict

\* Every request has both of its keys among the keys.
LEMMA KeysOfARequest ==
    ASSUME NEW r \in Request
    PROVE  ExactKey(r) \in Key /\ ParaphraseKey(r) \in Key
BY DEF Key

\* The two writes of an answer keep a dictionary sound.
LEMMA RememberedIsSound ==
    ASSUME NEW c, Sound(c.entry), clock \in Nat,
           NEW r \in Request, NEW fresh \in Flags(r)
    PROVE  Sound(Remembered(c, r, [req |-> r, fresh |-> fresh, stored |-> clock]).entry)
<1> DEFINE a == [req |-> r, fresh |-> fresh, stored |-> clock]
           exact == Put(c, ExactKey(r), a, TTL(a))
<1>1. r.fresh \in BOOLEAN /\ fresh \in BOOLEAN /\ (r.fresh => fresh)
  BY CacheAssumption DEF CacheAssumption, Flags
<1>2. a \in Answer
  BY <1>1 DEF Answer
<1>3. TTL(a) \in Nat /\ DefaultTTL \in Nat
  BY CacheAssumption DEF CacheAssumption, TTL
<1>4. EntryFits(ExactKey(r), [answer |-> a, expires |-> clock + TTL(a)])
  BY <1>1, <1>3 DEF EntryFits
<1>5. Sound(exact.entry)
  BY <1>2, <1>3, <1>4, PutIsSound, KeysOfARequest
<1>6. CASE r.fresh \/ fresh
  BY <1>5, <1>6 DEF Remembered
<1>7. CASE ~(r.fresh \/ fresh)
  <2>1. EntryFits(ParaphraseKey(r), [answer |-> a, expires |-> clock + DefaultTTL])
    BY <1>1, <1>3, <1>7 DEF EntryFits, TTL
  <2> HIDE DEF exact
  <2>2. Sound(Put(exact, ParaphraseKey(r), a, DefaultTTL).entry)
    BY <1>2, <1>3, <1>5, <2>1, PutIsSound, KeysOfARequest
  <2> USE DEF exact
  <2> QED BY <2>2, <1>7 DEF Remembered
<1> QED BY <1>6, <1>7

\* A hit serves an answer that has not expired, under a key of the request.
LEMMA HitsAreRight ==
    ASSUME Sound(cache.entry), clock \in Nat,
           NEW r \in Request, NEW kind \in {"exact", "paraphrase"},
           NEW k \in Key, IsHit(cache, k), Hit(kind, r, k),
           \/ k = ExactKey(r)
           \/ k = ParaphraseKey(r) /\ ~r.fresh
    PROVE  AnswersExpire' /\ HitsFitTheRequest'
<1> DEFINE e == cache.entry[k]
<1>1. /\ e \in Entry /\ EntryFits(k, e) /\ clock <= e.expires
  BY DEF IsHit, Sound
<1>2. reply' = [kind |-> kind, req |-> r, answer |-> e.answer, at |-> clock]
  BY DEF Hit
<1>3. /\ e.expires \in Nat /\ e.answer.stored \in Nat
      /\ e.answer.req \in Request /\ e.answer.fresh \in BOOLEAN
      /\ TTL(e.answer) \in Nat
  BY <1>1, CacheAssumption DEF Entry, Answer, CacheAssumption, TTL
<1>4. /\ e.expires <= e.answer.stored + TTL(e.answer)
      /\ e.answer.req.fresh => e.answer.fresh
      /\ \/ k = ExactKey(e.answer.req)
         \/ k = ParaphraseKey(e.answer.req) /\ ~e.answer.fresh
  BY <1>1 DEF EntryFits
<1> HIDE DEF e
<1>5. \/ /\ k = ExactKey(r) /\ k = ExactKey(e.answer.req)
      \/ /\ k = ParaphraseKey(r) /\ k = ParaphraseKey(e.answer.req)
         /\ ~r.fresh /\ ~e.answer.fresh
  BY <1>4 DEF ExactKey, ParaphraseKey
<1>6. /\ e.answer.req.scope = r.scope
      /\ Form[e.answer.req.query] = Form[r.query]
      /\ r.fresh => e.answer.req.fresh
      /\ r.fresh \/ e.answer.fresh => e.answer.req.query = r.query
  BY <1>5 DEF ExactKey, ParaphraseKey
<1>7. HitsFitTheRequest'
  BY <1>2, <1>6 DEF HitsFitTheRequest
<1>8. clock <= e.answer.stored + TTL(e.answer)
  BY <1>1, <1>3, <1>4 DEF e
<1>9. r.fresh => TTL(e.answer) = FreshnessTTL
  BY <1>4, <1>6 DEF TTL
<1>10. AnswersExpire'
  BY <1>2, <1>8, <1>9 DEF AnswersExpire, TTL
<1> QED BY <1>7, <1>10

\* Nothing is claimed of a step that serves nothing.
LEMMA NoReplyIsRight ==
    ASSUME reply' = NoReply
    PROVE  AnswersExpire' /\ HitsFitTheRequest'
BY DEF AnswersExpire, HitsFitTheRequest

-----------------------------------------------------------------------------
\* The invariant, with what it says of the entries in one piece.
LEMMA InvariantShape ==
    CacheInvariant <=> /\ clock \in Nat
                       /\ asking \in [Worker -> Request \cup {NoRequest}]
                       /\ Sound(cache.entry)
                       /\ AnswersExpire
                       /\ HitsFitTheRequest
BY DEF CacheInvariant, EntriesFit, Sound

\* The empty cache has no entry that could be wrong.
LEMMA InitInvariant == Init => CacheInvariant
<1> SUFFICES ASSUME Init PROVE CacheInvariant
  OBVIOUS
<1>1. cache.entry = [k \in Key |-> NoEntry]
  BY DEF Init, EmptyCache
<1>2. Sound(cache.entry)
  BY <1>1 DEF Sound
<1>3. clock \in Nat /\ asking \in [Worker -> Request \cup {NoRequest}]
  BY DEF Init
<1>4. AnswersExpire /\ HitsFitTheRequest
  BY DEF Init, AnswersExpire, HitsFitTheRequest
<1> QED BY <1>2, <1>3, <1>4, InvariantShape

\* Every step of every request preserves the invariant.
LEMMA NextInvariant == CacheInvariant /\ [Next]_vars => CacheInvariant'
<1> SUFFICES ASSUME CacheInvariant, [Next]_vars PROVE CacheInvariant'
  OBVIOUS
<1> DEFINE Safe == /\ clock' \in Nat
                   /\ asking' \in [Worker -> Request \cup {NoRequest}]
                   /\ Sound(cache'.entry)
                   /\ AnswersExpire' /\ HitsFitTheRequest'
<1>i. /\ clock \in Nat /\ asking \in [Worker -> Request \cup {NoRequest}]
      /\ Sound(cache.entry) /\ AnswersExpire /\ HitsFitTheRequest
  BY InvariantShape
<1>s. SUFFICES Safe
  BY DEF CacheInvariant, EntriesFit, Sound
<1>1. ASSUME NEW r \in Request, ServeExact(r)
      PROVE  Safe
  <2>1. IsHit(cache, ExactKey(r)) /\ Hit("exact", r, ExactKey(r))
    BY <1>1 DEF ServeExact
  <2>2. AnswersExpire' /\ HitsFitTheRequest'
    BY <1>i, <2>1, HitsAreRight, KeysOfARequest
  <2>3. Sound(cache'.entry) /\ clock' = clock /\ asking' = asking
    BY <1>1, <1>i, GetIsSound DEF ServeExact
  <2> QED BY <1>i, <2>2, <2>3
<1>2. ASSUME NEW r \in Request, ServeParaphrase(r)
      PROVE  Safe
  <2>1. IsHit(cache, ParaphraseKey(r)) /\ Hit("paraphrase", r, ParaphraseKey(r)) /\ ~r.fresh
    BY <1>2 DEF ServeParaphrase
  <2>2. AnswersExpire' /\ HitsFitTheRequest'
    BY <1>i, <2>1, HitsAreRight, KeysOfARequest
  <2>3. Sound(Get(cache, ExactKey(r)).entry)
    BY <1>i, GetIsSound
  <2>4. Sound(Get(Get(cache, ExactKey(r)), ParaphraseKey(r)).entry)
    BY <2>3, GetIsSound
  <2> QED BY <1>2, <1>i, <2>2, <2>4 DEF ServeParaphrase
<1>3. ASSUME NEW w \in Worker, NEW r \in Request, Miss(w, r)
      PROVE  Safe
  <2>1. Sound(Get(cache, ExactKey(r)).entry)
    BY <1>i, GetIsSound
  <2>2. Sound(Get(Get(cache, ExactKey(r)), ParaphraseKey(r)).entry)
    BY <2>1, GetIsSound
  <2>3. Sound(cache'.entry) /\ clock' = clock /\ reply' = NoReply
    BY <1>3, <2>1, <2>2 DEF Miss
  <2>4. asking' \in [Worker -> Request \cup {NoRequest}]
    BY <1>3, <1>i DEF Miss
  <2> QED BY <1>i, <2>3, <2>4, NoReplyIsRight
<1>4. ASSUME NEW w \in Worker, Remember(w)
      PROVE  Safe
  <2>1. asking[w] \in Request
    BY <1>4, <1>i DEF Remember
  <2>2. PICK fresh \in Flags(asking[w]) :
           cache' = Remembered(cache, asking[w],
                               [req |-> asking[w], fresh |-> fresh, stored |-> clock])
    BY <1>4 DEF Remember
  <2>3. Sound(cache'.entry)
    BY <1>i, <2>1, <2>2, RememberedIsSound
  <2>4. /\ clock' = clock /\ reply' = NoReply
        /\ asking' \in [Worker -> Request \cup {NoRequest}]
    BY <1>4, <1>i DEF Remember
  <2> QED BY <1>i, <2>3, <2>4, NoReplyIsRight
<1>5. ASSUME NEW w \in Worker, End(w)
      PROVE  Safe
  <2>1. /\ clock' = clock /\ reply' = NoReply /\ cache' = cache
        /\ asking' \in [Worker -> Request \cup {NoRequest}]
    BY <1>5, <1>i DEF End
  <2> QED BY <1>i, <2>1, NoReplyIsRight
<1>6. CASE Tick
  <2>1. clock' \in Nat /\ reply' = NoReply /\ cache' = cache /\ asking' = asking
    BY <1>6, <1>i DEF Tick
  <2> QED BY <1>i, <2>1, NoReplyIsRight
<1>7. CASE UNCHANGED vars
  BY <1>7, <1>i DEF vars, AnswersExpire, HitsFitTheRequest
<1> QED BY <1>1, <1>2, <1>3, <1>4, <1>5, <1>6, <1>7 DEF Next

\* Every entry of the cache fits its key and expires on time, and so does
\* every hit, in every reachable state.
THEOREM CacheInvariantHolds == Spec => []CacheInvariant
BY InitInvariant, NextInvariant, PTL DEF Spec

\* No answer outlives its time to live (ContentAddressedCache.get), however
\* requests overlap, for every size of the cache and every pair of times.
THEOREM AnswersDoExpire == Spec => []AnswersExpire
<1>1. CacheInvariant => AnswersExpire
  BY DEF CacheInvariant
<1> QED BY <1>1, CacheInvariantHolds, PTL

\* No hit crosses a scope, a demand for freshness or, from a freshness route,
\* a wording (content_key and paraphrase_content_key), for every set of
\* requests and every paraphrase form.
THEOREM HitsDoFit == Spec => []HitsFitTheRequest
<1>1. CacheInvariant => HitsFitTheRequest
  BY DEF CacheInvariant
<1> QED BY <1>1, CacheInvariantHolds, PTL

-----------------------------------------------------------------------------
(***************************************************************************)
(* The order of use.                                                       *)
(***************************************************************************)

CacheType == [order : Seq(Key), entry : [Key -> Entry \cup {NoEntry}]]

\* The keys in the order of use are the keys with an entry, each once.
Ordered(c) ==
    /\ c \in CacheType
    /\ IsInjective(c.order)
    /\ ToSet(c.order) = {k \in Key : c.entry[k] # NoEntry}

\* An entry is not the mark for having none.
LEMMA EntriesAreEntries == NoEntry \notin Entry
<1>1. NoEntry.expires = -1
  BY DEF NoEntry
<1>2. \A e \in Entry : e.expires \in Nat
  BY DEF Entry
<1> QED BY <1>1, <1>2

\* What Ordered says of the parts of a cache.
LEMMA CacheParts ==
    ASSUME NEW c, Ordered(c)
    PROVE  /\ c.order \in Seq(Key) /\ c.entry \in [Key -> Entry \cup {NoEntry}]
           /\ ToSet(c.order) \subseteq Key
BY DEF Ordered, CacheType

\* Moving a key to the end keeps it in the order once, and the others as often.
LEMMA UsedLastWorks ==
    ASSUME NEW order \in Seq(Key), IsInjective(order), NEW k \in Key
    PROVE  /\ UsedLast(order, k) \in Seq(Key)
           /\ IsInjective(UsedLast(order, k))
           /\ ToSet(UsedLast(order, k)) = ToSet(order) \cup {k}
           /\ Len(UsedLast(order, k)) <= Len(order) + 1
           /\ k \in ToSet(order) => Len(UsedLast(order, k)) = Len(order)
<1> DEFINE kept == Keep(order, Key \ {k})
           new == UsedLast(order, k)
<1>1. /\ kept \in Seq(Key) /\ Len(kept) <= Len(order)
      /\ ToSet(kept) = ToSet(order) \cap (Key \ {k}) /\ IsInjective(kept)
  BY KeepProperties
<1>2. new = Append(kept, k)
  BY DEF UsedLast
<1>3. ToSet(order) \subseteq Key
  BY ElementsTyped
<1> HIDE DEF kept, new
<1>4. new \in Seq(Key) /\ ToSet(new) = ToSet(kept) \cup {k} /\ IsInjective(new)
  BY <1>1, <1>2, AppendSet, InjectiveAppend
<1>5. Len(new) = Len(kept) + 1 /\ Len(kept) \in Nat /\ Len(order) \in Nat
  BY <1>1, <1>2, AppendProperties, LenProperties
<1>6. ToSet(new) = ToSet(order) \cup {k}
  BY <1>1, <1>3, <1>4
<1>7. ASSUME k \in ToSet(order) PROVE Len(new) = Len(order)
  <2>1. ToSet(new) = ToSet(order)
    BY <1>6, <1>7
  <2> QED BY <1>4, <2>1, InjectiveSize
<1> QED BY <1>1, <1>4, <1>5, <1>6, <1>7 DEF new

\* Dropping a key takes it, and nothing else, out of order and dictionary.
LEMMA DropIsOrdered ==
    ASSUME NEW c, Ordered(c), NEW k \in Key
    PROVE  /\ Ordered(Drop(c, k))
           /\ Len(Drop(c, k).order) <= Len(c.order)
           /\ k \in ToSet(c.order) => Len(Drop(c, k).order) = Len(c.order) - 1
<1> DEFINE kept == Keep(c.order, Key \ {k})
           d == Drop(c, k)
<1>1. c.order \in Seq(Key) /\ c.entry \in [Key -> Entry \cup {NoEntry}]
      /\ ToSet(c.order) \subseteq Key /\ IsInjective(c.order)
  BY CacheParts DEF Ordered
<1>2. /\ kept \in Seq(Key) /\ Len(kept) <= Len(c.order)
      /\ ToSet(kept) = ToSet(c.order) \cap (Key \ {k}) /\ IsInjective(kept)
  BY <1>1, KeepProperties
<1>3. d = [order |-> kept, entry |-> [c.entry EXCEPT ![k] = NoEntry]]
  BY DEF Drop
<1> HIDE DEF kept, d
<1>4. d.order = kept /\ d.entry = [c.entry EXCEPT ![k] = NoEntry]
  BY <1>3
<1>5. d \in CacheType
  BY <1>1, <1>2, <1>3 DEF CacheType
<1>6. ToSet(d.order) = {j \in Key : d.entry[j] # NoEntry}
  <2>1. ToSet(c.order) = {j \in Key : c.entry[j] # NoEntry}
    BY DEF Ordered
  <2> QED BY <1>1, <1>2, <1>4, <2>1
<1>7. Ordered(d)
  BY <1>2, <1>4, <1>5, <1>6 DEF Ordered
<1>8. ASSUME k \in ToSet(c.order) PROVE Len(d.order) = Len(c.order) - 1
  <2>1. ToSet(kept) = ToSet(c.order) \ {k}
    BY <1>1, <1>2
  <2>2. /\ IsFiniteSet(ToSet(c.order)) /\ Cardinality(ToSet(c.order)) = Len(c.order)
        /\ Cardinality(ToSet(kept)) = Len(kept)
    BY <1>1, <1>2, InjectiveSize
  <2>3. Cardinality(ToSet(c.order) \ {k}) = Cardinality(ToSet(c.order)) - 1
    BY <1>8, <2>2, FS_RemoveElement
  <2> QED BY <1>4, <2>1, <2>2, <2>3
<1> QED BY <1>2, <1>4, <1>7, <1>8 DEF d

\* Reading keeps the order in step with the entries, and adds nothing.
LEMMA GetIsOrdered ==
    ASSUME NEW c, Ordered(c), NEW k \in Key
    PROVE  Ordered(Get(c, k)) /\ Len(Get(c, k).order) <= Len(c.order)
<1>1. CASE IsHit(c, k)
  <2> DEFINE d == Get(c, k)
  <2>1. d = [c EXCEPT !.order = UsedLast(@, k)]
    BY <1>1 DEF Get
  <2>2. c \in CacheType /\ IsInjective(c.order) /\ c.order \in Seq(Key)
        /\ ToSet(c.order) = {j \in Key : c.entry[j] # NoEntry}
    BY CacheParts DEF Ordered
  <2>3. k \in ToSet(c.order)
    BY <1>1, <2>2 DEF IsHit
  <2>4. /\ UsedLast(c.order, k) \in Seq(Key) /\ IsInjective(UsedLast(c.order, k))
        /\ ToSet(UsedLast(c.order, k)) = ToSet(c.order) \cup {k}
        /\ Len(UsedLast(c.order, k)) = Len(c.order)
    BY <2>2, <2>3, UsedLastWorks
  <2> HIDE DEF d
  <2>5. d.order = UsedLast(c.order, k) /\ d.entry = c.entry /\ d \in CacheType
    BY <2>1, <2>2, <2>4 DEF CacheType
  <2>6. Ordered(d)
    BY <2>2, <2>3, <2>4, <2>5 DEF Ordered
  <2>7. Len(c.order) \in Nat
    BY <2>2, LenProperties
  <2> QED BY <2>4, <2>5, <2>6, <2>7 DEF d
<1>2. CASE ~IsHit(c, k)
  BY <1>2, DropIsOrdered DEF Get
<1> QED BY <1>1, <1>2

\* Storing keeps the order in step with the entries, and within max_size: if
\* the key is one too many, the least recently used one goes.
LEMMA PutIsOrdered ==
    ASSUME NEW c, Ordered(c), Len(c.order) <= MaxSize, clock \in Nat,
           NEW k \in Key, NEW answer \in Answer, NEW ttl \in Nat
    PROVE  Ordered(Put(c, k, answer, ttl)) /\ Len(Put(c, k, answer, ttl).order) <= MaxSize
<1> DEFINE e == [answer |-> answer, expires |-> clock + ttl]
           new == UsedLast(c.order, k)
           d == [order |-> new, entry |-> [c.entry EXCEPT ![k] = e]]
<1>1. e \in Entry /\ e # NoEntry
  <2>1. e \in Entry
    BY DEF Entry
  <2> QED BY <2>1, EntriesAreEntries
<1>2. Put(c, k, answer, ttl) = Evict(d)
  BY DEF Put
<1>3. c.order \in Seq(Key) /\ c.entry \in [Key -> Entry \cup {NoEntry}]
      /\ ToSet(c.order) \subseteq Key /\ IsInjective(c.order)
      /\ ToSet(c.order) = {j \in Key : c.entry[j] # NoEntry}
  BY CacheParts DEF Ordered
<1>4. /\ new \in Seq(Key) /\ IsInjective(new) /\ ToSet(new) = ToSet(c.order) \cup {k}
      /\ Len(new) <= Len(c.order) + 1
  BY <1>3, UsedLastWorks
<1>5. d.order = new /\ d.entry = [c.entry EXCEPT ![k] = e]
  OBVIOUS
<1> HIDE DEF e, new
<1>6. d \in CacheType
  BY <1>1, <1>3, <1>4 DEF CacheType
<1> HIDE DEF d
<1>7. Ordered(d)
  <2>1. ASSUME NEW j \in Key PROVE d.entry[j] # NoEntry <=> c.entry[j] # NoEntry \/ j = k
    BY <1>1, <1>3, <1>5
  <2>2. ToSet(d.order) = {j \in Key : d.entry[j] # NoEntry}
    BY <1>3, <1>4, <1>5, <2>1
  <2> QED BY <1>4, <1>5, <1>6, <2>2 DEF Ordered
<1>8. Len(d.order) \in Nat /\ Len(d.order) <= MaxSize + 1 /\ MaxSize \in Nat
  <2>1. Len(c.order) \in Nat /\ Len(new) \in Nat /\ MaxSize \in Nat
    BY <1>3, <1>4, CacheAssumption, LenProperties
  <2> QED BY <1>4, <1>5, <2>1
<1>9. CASE Len(d.order) > MaxSize
  <2>1. d.order \in Seq(Key) /\ d.order # <<>>
    BY <1>4, <1>5, <1>8, <1>9
  <2>2. Head(d.order) \in Key /\ Head(d.order) \in ToSet(d.order)
    BY <2>1, TailSet
  <2>3. Evict(d) = Drop(d, Head(d.order))
    BY <1>9 DEF Evict
  <2>4. Ordered(Drop(d, Head(d.order))) /\ Len(Drop(d, Head(d.order)).order) = Len(d.order) - 1
    BY <1>7, <2>2, DropIsOrdered
  <2> QED BY <1>2, <1>8, <2>3, <2>4
<1>10. CASE ~(Len(d.order) > MaxSize)
  <2>1. Evict(d) = d
    BY <1>10 DEF Evict
  <2> QED BY <1>2, <1>7, <1>8, <1>10, <2>1
<1> QED BY <1>9, <1>10

\* The two writes of an answer keep order and size.
LEMMA RememberedIsOrdered ==
    ASSUME NEW c, Ordered(c), Len(c.order) <= MaxSize, clock \in Nat,
           NEW r \in Request, NEW fresh \in Flags(r)
    PROVE  LET d == Remembered(c, r, [req |-> r, fresh |-> fresh, stored |-> clock])
           IN  Ordered(d) /\ Len(d.order) <= MaxSize
<1> DEFINE a == [req |-> r, fresh |-> fresh, stored |-> clock]
           exact == Put(c, ExactKey(r), a, TTL(a))
           both == Put(exact, ParaphraseKey(r), a, DefaultTTL)
           d == Remembered(c, r, a)
<1>1. d = exact \/ d = both
  BY DEF Remembered
<1>2. a \in Answer
  <2>1. fresh \in BOOLEAN
    BY CacheAssumption DEF Flags
  <2> QED BY <2>1 DEF Answer
<1>3. TTL(a) \in Nat /\ DefaultTTL \in Nat
  BY CacheAssumption DEF TTL
<1>4. ExactKey(r) \in Key /\ ParaphraseKey(r) \in Key
  BY KeysOfARequest
<1> HIDE DEF a, d
<1>5. Ordered(exact) /\ Len(exact.order) <= MaxSize
  BY <1>2, <1>3, <1>4, PutIsOrdered
<1> HIDE DEF exact
<1>6. Ordered(both) /\ Len(both.order) <= MaxSize
  BY <1>2, <1>3, <1>4, <1>5, PutIsOrdered
<1> QED BY <1>1, <1>5, <1>6 DEF a, d

\* TypeOK, with what it says of the order of use in one piece.
Typed ==
    /\ clock \in 0..Horizon
    /\ Ordered(cache) /\ Len(cache.order) <= MaxSize
    /\ asking \in [Worker -> Request \cup {NoRequest}]
    /\ reply.kind \in {"none", "exact", "paraphrase"}

\* Every step keeps the order of use in step with the entries.
LEMMA TypedStep ==
    ASSUME Typed, [Next]_vars
    PROVE  Typed'
<1>1. /\ clock \in Nat /\ Horizon \in Nat /\ clock \in 0..Horizon
      /\ Ordered(cache) /\ Len(cache.order) <= MaxSize
      /\ Len(cache.order) \in Nat /\ MaxSize \in Nat
      /\ asking \in [Worker -> Request \cup {NoRequest}]
      /\ reply.kind \in {"none", "exact", "paraphrase"}
  BY CacheAssumption, CacheParts, LenProperties DEF Typed
<1>2. ASSUME NEW c, Ordered(c), Len(c.order) <= MaxSize, NEW r \in Request
      PROVE  /\ Ordered(Get(c, ExactKey(r))) /\ Len(Get(c, ExactKey(r)).order) <= MaxSize
             /\ Ordered(Get(c, ParaphraseKey(r)))
             /\ Len(Get(c, ParaphraseKey(r)).order) <= MaxSize
  <2>1. /\ Ordered(Get(c, ExactKey(r))) /\ Len(Get(c, ExactKey(r)).order) <= Len(c.order)
        /\ Ordered(Get(c, ParaphraseKey(r)))
        /\ Len(Get(c, ParaphraseKey(r)).order) <= Len(c.order)
    BY <1>2, GetIsOrdered, KeysOfARequest
  <2>2. /\ Len(c.order) \in Nat
        /\ Len(Get(c, ExactKey(r)).order) \in Nat
        /\ Len(Get(c, ParaphraseKey(r)).order) \in Nat
    BY <1>2, <2>1, CacheParts, LenProperties
  <2> QED BY <1>1, <1>2, <2>1, <2>2
<1> DEFINE TwoReads(r) == Get(Get(cache, ExactKey(r)), ParaphraseKey(r))
<1>3. ASSUME NEW r \in Request
      PROVE  Ordered(TwoReads(r)) /\ Len(TwoReads(r).order) <= MaxSize
  <2> DEFINE one == Get(cache, ExactKey(r))
  <2>1. Ordered(one) /\ Len(one.order) <= MaxSize
    BY <1>1, <1>2
  <2> HIDE DEF one
  <2>2. Ordered(Get(one, ParaphraseKey(r))) /\ Len(Get(one, ParaphraseKey(r)).order) <= MaxSize
    BY <1>2, <2>1
  <2> QED BY <2>2 DEF one
<1> HIDE DEF TwoReads
<1>4. ASSUME NEW r \in Request, ServeExact(r) PROVE Typed'
  <2>1. /\ cache' = Get(cache, ExactKey(r)) /\ clock' = clock /\ asking' = asking
        /\ reply'.kind = "exact"
    BY <1>4 DEF ServeExact, Hit
  <2>2. Ordered(cache') /\ Len(cache'.order) <= MaxSize
    BY <1>1, <1>2, <2>1
  <2> QED BY <1>1, <2>1, <2>2 DEF Typed
<1>5. ASSUME NEW r \in Request, ServeParaphrase(r) PROVE Typed'
  <2>1. /\ cache' = TwoReads(r) /\ clock' = clock /\ asking' = asking
        /\ reply'.kind = "paraphrase"
    BY <1>5 DEF ServeParaphrase, Hit, TwoReads
  <2>2. Ordered(cache') /\ Len(cache'.order) <= MaxSize
    BY <1>3, <2>1
  <2> QED BY <1>1, <2>1, <2>2 DEF Typed
<1>6. ASSUME NEW w \in Worker, NEW r \in Request, Miss(w, r) PROVE Typed'
  <2>1. /\ cache' = (IF r.fresh THEN Get(cache, ExactKey(r)) ELSE TwoReads(r))
        /\ clock' = clock /\ reply'.kind = "none"
        /\ asking' = [asking EXCEPT ![w] = r]
    BY <1>6 DEF Miss, NoReply, TwoReads
  <2>2. Ordered(cache') /\ Len(cache'.order) <= MaxSize
    BY <1>1, <1>2, <1>3, <2>1
  <2> QED BY <1>1, <2>1, <2>2 DEF Typed
<1>7. ASSUME NEW w \in Worker, Remember(w) PROVE Typed'
  <2>1. asking[w] \in Request
    BY <1>1, <1>7 DEF Remember
  <2>2. PICK fresh \in Flags(asking[w]) :
           cache' = Remembered(cache, asking[w],
                               [req |-> asking[w], fresh |-> fresh, stored |-> clock])
    BY <1>7 DEF Remember
  <2>3. Ordered(cache') /\ Len(cache'.order) <= MaxSize
    BY <1>1, <2>1, <2>2, RememberedIsOrdered
  <2>4. clock' = clock /\ reply'.kind = "none" /\ asking' \in [Worker -> Request \cup {NoRequest}]
    BY <1>1, <1>7 DEF Remember, NoReply
  <2> QED BY <1>1, <2>3, <2>4 DEF Typed
<1>8. ASSUME NEW w \in Worker, End(w) PROVE Typed'
  <2>1. /\ clock' = clock /\ reply'.kind = "none" /\ cache' = cache
        /\ asking' \in [Worker -> Request \cup {NoRequest}]
    BY <1>1, <1>8 DEF End, NoReply
  <2> QED BY <1>1, <2>1 DEF Typed
<1>9. CASE Tick
  <2>1. clock' \in 0..Horizon /\ reply'.kind = "none" /\ cache' = cache /\ asking' = asking
    BY <1>1, <1>9 DEF Tick, NoReply
  <2> QED BY <1>1, <2>1 DEF Typed
<1>10. CASE UNCHANGED vars
  BY <1>1, <1>10 DEF vars, Typed
<1> QED BY <1>4, <1>5, <1>6, <1>7, <1>8, <1>9, <1>10 DEF Next

\* The order of use and the entries never part, and there are never more of
\* them than max_size (ContentAddressedCache._evict), for every size.
THEOREM TypeCorrect == Spec => []TypeOK
<1>1. Init => Typed
  <2> SUFFICES ASSUME Init PROVE Typed
    OBVIOUS
  <2>1. cache = [order |-> <<>>, entry |-> [k \in Key |-> NoEntry]]
    BY DEF Init, EmptyCache
  <2>2. cache \in CacheType
    BY <2>1 DEF CacheType
  <2>3. cache.order = <<>> /\ \A k \in Key : cache.entry[k] = NoEntry
    BY <2>1
  <2>4. Ordered(cache)
    BY <2>2, <2>3, NothingInEmpty DEF Ordered
  <2>5. Len(cache.order) <= MaxSize /\ 0 \in 0..Horizon
    BY <2>3, CacheAssumption
  <2> QED BY <2>4, <2>5 DEF Init, Typed, NoReply
<1>2. Typed /\ [Next]_vars => Typed'
  BY TypedStep
<1>3. Typed => TypeOK
  <2> SUFFICES ASSUME Typed PROVE TypeOK
    OBVIOUS
  <2>1. cache.entry \in [Key -> Entry \cup {NoEntry}]
    BY CacheParts DEF Typed
  <2> QED BY <2>1 DEF Typed, TypeOK, Ordered
<1> QED BY <1>1, <1>2, <1>3, PTL DEF Spec

=============================================================================
