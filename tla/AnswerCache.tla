------------------------------ MODULE AnswerCache ------------------------------
(***************************************************************************)
(* The content-addressed cache in front of the pipeline                    *)
(* (src/app/services/cache.py) and the requests that share it: layer 2 of  *)
(* QueryOrchestrator.answer reads it, and each request that goes on to the *)
(* slow path writes its answer back when it ends.  Requests run            *)
(* concurrently on one event loop: a request is switched out only between  *)
(* its lookup and its end, so the lookup is one step and so is the end,    *)
(* with both of its writes.  What happens between the two is QueryLoop's.  *)
(*                                                                         *)
(* A key is what it is computed from; SHA-256 is taken to be injective.    *)
(* Inputs that are in both keys alike (dataset, NodeSets, model, policy    *)
(* version, user) are one scope.                                           *)
(***************************************************************************)
EXTENDS Lists, SequencesExt

CONSTANTS
    Request,       \* the requests callers may send
    Form,          \* the paraphrase form of each query
    RouteFresh,    \* the freshness flags a query may be routed with
    Worker,        \* bound: requests in flight at a time
    MaxSize,       \* max_size
    DefaultTTL,    \* default_ttl_s
    FreshnessTTL,  \* freshness_ttl_s
    Horizon        \* bound: the clock stops here

ASSUME CacheAssumption ==
    /\ Request \subseteq [query : DOMAIN Form, scope : STRING, fresh : BOOLEAN]
    /\ RouteFresh \in [DOMAIN Form -> SUBSET BOOLEAN]
    /\ MaxSize \in Nat /\ DefaultTTL \in Nat /\ FreshnessTTL \in Nat
    /\ Horizon \in Nat

VARIABLES
    clock,   \* time.monotonic()
    cache,   \* the OrderedDict: its keys in order of use, and its entries
    asking,  \* the request each worker is on its way with
    reply    \* the cache hit of the last step, or none

vars == <<clock, cache, asking, reply>>

-----------------------------------------------------------------------------
(***************************************************************************)
(* Keys and entries.                                                       *)
(***************************************************************************)

ExactKey(r) == [kind |-> "exact", text |-> r.query, scope |-> r.scope, fresh |-> r.fresh]

\* No freshness field: answers that are sensitive to it have no such key.
ParaphraseKey(r) ==
    [kind |-> "paraphrase", text |-> Form[r.query], scope |-> r.scope, fresh |-> FALSE]

Key == {ExactKey(r) : r \in Request} \cup {ParaphraseKey(r) : r \in Request}

\* An answer: the request it was made for, the freshness flag of its route,
\* and (history) when it was stored.
Answer == [req : Request, fresh : BOOLEAN, stored : Nat]

Entry == [answer : Answer, expires : Nat]

NoEntry == [expires |-> -1]

NoRequest == [query |-> "none"]

NoReply == [kind |-> "none"]

EmptyCache == [order |-> <<>>, entry |-> [k \in Key |-> NoEntry]]

-----------------------------------------------------------------------------
(***************************************************************************)
(* The operations of the cache.                                            *)
(***************************************************************************)

Drop(c, k) ==
    [order |-> Keep(c.order, Key \ {k}), entry |-> [c.entry EXCEPT ![k] = NoEntry]]

UsedLast(order, k) == Append(Keep(order, Key \ {k}), k)

IsHit(c, k) == c.entry[k] # NoEntry /\ clock <= c.entry[k].expires

FaultyGet(c, k) ==
    IF ~IsHit(c, k) THEN Drop(c, k)
    ELSE [c EXCEPT !.order = UsedLast(@, k), !.entry[k].expires = clock + DefaultTTL]

\* get: an entry past its time is deleted, a live one becomes the last used.
Get(c, k) ==
    IF ~IsHit(c, k) THEN Drop(c, k)
    ELSE [c EXCEPT !.order = UsedLast(@, k)]

FaultyEvict(c) == IF Len(c.order) > MaxSize THEN [c EXCEPT !.order = Tail(@)] ELSE c

\* A put adds at most one key, so the loop of _evict runs at most once.
Evict(c) == IF Len(c.order) > MaxSize THEN Drop(c, Head(c.order)) ELSE c

Put(c, k, answer, ttl) ==
    Evict([order |-> UsedLast(c.order, k),
           entry |-> [c.entry EXCEPT ![k] = [answer |-> answer, expires |-> clock + ttl]]])

-----------------------------------------------------------------------------
(***************************************************************************)
(* Requests.                                                               *)
(***************************************************************************)

Init ==
    /\ clock = 0
    /\ cache = EmptyCache
    /\ asking = [w \in Worker |-> NoRequest]
    /\ reply = NoReply

Hit(kind, r, k) ==
    reply' = [kind |-> kind, req |-> r, answer |-> cache.entry[k].answer, at |-> clock]

ServeExact(r) ==
    /\ IsHit(cache, ExactKey(r))
    /\ Hit("exact", r, ExactKey(r))
    /\ cache' = Get(cache, ExactKey(r))
    /\ UNCHANGED <<clock, asking>>

\* A request that demands freshness never looks here.
ServeParaphrase(r) ==
    /\ ~IsHit(cache, ExactKey(r))
    /\ ~r.fresh
    /\ IsHit(cache, ParaphraseKey(r))
    /\ Hit("paraphrase", r, ParaphraseKey(r))
    /\ cache' = Get(Get(cache, ExactKey(r)), ParaphraseKey(r))
    /\ UNCHANGED <<clock, asking>>

Miss(w, r) ==
    /\ asking[w] = NoRequest
    /\ ~IsHit(cache, ExactKey(r))
    /\ ~r.fresh => ~IsHit(cache, ParaphraseKey(r))
    /\ asking' = [asking EXCEPT ![w] = r]
    /\ cache' = IF r.fresh THEN Get(cache, ExactKey(r))
                ELSE Get(Get(cache, ExactKey(r)), ParaphraseKey(r))
    /\ reply' = NoReply
    /\ UNCHANGED clock

TTL(answer) == IF answer.fresh THEN FreshnessTTL ELSE DefaultTTL

\* The freshness flag a request may end up with on its route: the caller's
\* demand is never dropped.
Flags(r) == IF r.fresh THEN {TRUE} ELSE RouteFresh[r.query]

FaultyRemembered(c, r, answer) ==
    LET exact == Put(c, ExactKey(r), answer, TTL(answer)) IN
    IF r.fresh THEN exact ELSE Put(exact, ParaphraseKey(r), answer, DefaultTTL)

\* The two writes of an accepted answer that is not degraded.
Remembered(c, r, answer) ==
    LET exact == Put(c, ExactKey(r), answer, TTL(answer)) IN
    IF r.fresh \/ answer.fresh THEN exact
    ELSE Put(exact, ParaphraseKey(r), answer, DefaultTTL)

\* The slow path ends in an answer that is kept.
Remember(w) ==
    LET r == asking[w] IN
    /\ r # NoRequest
    /\ \E fresh \in Flags(r) :
          cache' = Remembered(cache, r, [req |-> r, fresh |-> fresh, stored |-> clock])
    /\ asking' = [asking EXCEPT ![w] = NoRequest]
    /\ reply' = NoReply
    /\ UNCHANGED clock

\* The request ends and nothing is kept: Tier 0 answered it, it was refused,
\* it raised, or its evidence was degraded.
End(w) ==
    /\ asking[w] # NoRequest
    /\ asking' = [asking EXCEPT ![w] = NoRequest]
    /\ reply' = NoReply
    /\ UNCHANGED <<clock, cache>>

Tick ==
    /\ clock < Horizon
    /\ clock' = clock + 1
    /\ reply' = NoReply
    /\ UNCHANGED <<cache, asking>>

Next ==
    \/ \E r \in Request : ServeExact(r) \/ ServeParaphrase(r)
    \/ \E w \in Worker, r \in Request : Miss(w, r)
    \/ \E w \in Worker : Remember(w) \/ End(w)
    \/ Tick

Spec == Init /\ [][Next]_vars
-----------------------------------------------------------------------------
(***************************************************************************)
(* Properties.                                                             *)
(***************************************************************************)

\* The keys in the order of use are the keys with an entry, each once, and
\* never more of them than max_size.
TypeOK ==
    /\ clock \in 0..Horizon
    /\ cache.entry \in [Key -> Entry \cup {NoEntry}]
    /\ IsInjective(cache.order) /\ Len(cache.order) <= MaxSize
    /\ ToSet(cache.order) = {k \in Key : cache.entry[k] # NoEntry}
    /\ asking \in [Worker -> Request \cup {NoRequest}]
    /\ reply.kind \in {"none", "exact", "paraphrase"}

\* However often an answer is read, however the requests for it overlap and
\* whichever of them wrote last, it is served no longer than the time to live
\* of its kind of route after it was stored; a caller who demands freshness
\* gets nothing older than the shorter one.
AnswersExpire ==
    reply # NoReply =>
        /\ reply.at <= reply.answer.stored + TTL(reply.answer)
        /\ reply.req.fresh => reply.at <= reply.answer.stored + FreshnessTTL

\* A hit was made for the same scope and the same words; a caller who demands
\* freshness is served only answers made under that demand, and an answer from
\* a freshness route reaches no other wording than its own.
HitsFitTheRequest ==
    reply # NoReply =>
        LET made == reply.answer.req IN
        /\ made.scope = reply.req.scope
        /\ Form[made.query] = Form[reply.req.query]
        /\ reply.req.fresh => made.fresh
        /\ reply.req.fresh \/ reply.answer.fresh => made.query = reply.req.query

-----------------------------------------------------------------------------
(***************************************************************************)
(* Why the properties hold: what is true of every entry at all times.      *)
(***************************************************************************)

\* An entry expires its own time to live after it was stored, and was made
\* for a request with its key.
EntryFits(k, e) ==
    /\ e.expires <= e.answer.stored + TTL(e.answer)
    /\ e.answer.req.fresh => e.answer.fresh
    /\ \/ k = ExactKey(e.answer.req)
       \/ k = ParaphraseKey(e.answer.req) /\ ~e.answer.fresh

EntriesFit ==
    \A k \in Key : cache.entry[k] # NoEntry => EntryFits(k, cache.entry[k])

\* The properties above, strengthened until every step preserves them.
CacheInvariant ==
    /\ clock \in Nat
    /\ cache.entry \in [Key -> Entry \cup {NoEntry}]
    /\ asking \in [Worker -> Request \cup {NoRequest}]
    /\ EntriesFit
    /\ AnswersExpire
    /\ HitsFitTheRequest

-----------------------------------------------------------------------------
(***************************************************************************)
(* What the documents say of the cache and the code does not do.           *)
(***************************************************************************)

\* The paraphrase cache is never used on freshness routes.
ParaphraseAvoidsFreshRoutes ==
    reply.kind = "paraphrase" => FALSE \in RouteFresh[reply.req.query]

=============================================================================
