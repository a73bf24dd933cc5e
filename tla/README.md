# Roubaix in TLA+

This directory is a verification development of Roubaix, the query pipeline in
`src/app`: TLA+ modules translated from its code, TLC configurations that check
them on small instances, and TLAPS proofs that carry the most important results
to every value of the parameters. Paths below are relative to `src/`; line
numbers name the code a definition stands for, and `PROJECT.json` holds the full
map, the hazards, the runs with their mutants, the findings and the theorems.

## 1. The system

A request is answered by `QueryOrchestrator.answer`
(`app/services/orchestrator.py:76-485`) in layers: the resident graph (Tier 0),
the answer cache, and the slow path, which is a bounded loop of retrieve, pack,
decide, followed by a budget gate, synthesis, and write-back. Everything runs on
one asyncio event loop: between two awaits nothing interleaves.

| Component | State | Operations | Correct when |
|---|---|---|---|
| Query loop (`services/orchestrator.py`) | route, attempted modes, retry count, latches, evidence of the last retrieval | `answer`, `_fail_closed` | bounded retrievals; accepts only live, non-empty, dated-where-demanded evidence; always ends |
| Runtime controller (`services/runtime_controller.py`) | none (a policy over the loop's state) | `decide` with eight checks, ladder, widening, check-error policies | no mode twice but for one widening; the freshness demand survives every hop |
| Evidence packer (`services/evidence.py`) | none | `pack` | nothing lost uncounted; budgets kept; least evidential cut first |
| Sufficiency gate (`services/sufficiency.py`) | the latch of a failed scorer, shared by all requests | `check` | a verdict over the set, never made worse by evidence the controller asked for |
| Cognee client (`integrations/cognee_client.py`) | one remote session, shared by all requests | `search`, `ingest`, `aclose` | every search ends; acknowledgements are true; sessions bounded |
| Answer cache (`services/cache.py`, keys in `services/normalizer.py`) | an LRU of entries with expiry | `get`, `put` | answers expire; a hit fits the request in scope, freshness and wording |
| Resident graph (`services/memgraph.py`, `services/graph_answerer.py`) | an LRU of nodes with two adjacency lists | add, promote, resolve, path, neighbours, snapshot, warm load | lists agree; answers are traversals of stored edges; bounded; restored by a restart |
| Service lifespan (`api/main.py`) | the above, and the snapshot file | start, shutdown, crash | a snapshot is never torn |
| Routers and scope (`services/router.py`, `services/scoping.py`, `integrations/dspy_program.py`) | none | `route`, `derive` | monotone in the signals; confident only with a margin; the loop is handed what it was made for; forgiven words anchor no scope |
| Decomposition (`services/decomposition.py`) | none | decompose, merge | degraded parts never blend into live evidence |
| Synthesizer (`services/synthesizer.py`) | none | one LLM call | its failure refuses, and remembers nothing |
| Router workflow (`workflows/`, `workers/`) | Temporal's: what has been completed | three activities and an answer | ends in spite of crashes and silence; what the caller asked for survives the hand-over |
| Cognee setup and stand-up (`integrations/cognee_setup.py`, `scripts/live_stack.py`) | the process environment; databases, report, exit code | resolve, bridge, migrate; preflight, profile, seed, smoke, report | what the operator set survives; outcomes are earned |
| Nexus services, tracing, metrics, GEPA, evals, other scripts | none, or write-only | | not modelled, see section 8 |

Interactions: the loop calls router, client, packer, controller and synthesizer;
it reads cache and resident graph before and writes both after. Cache, resident
graph, client session and scorer latch are the state requests share. The workflow
is a second way through router, client and packer, without loop or cache; the
setup runs before the client is first used, in the service and in the stand-up.

What is hard: long sequences of escalations whose bound no single line states;
evidence re-packed after it was validated; placeholders standing in for a
substrate that is down; partial failure of parallel sub-queries; concurrent
misses of one key; LRU bounds in the middle of compound updates; a crash inside a
save; two first requests connecting at once; an `aclose` that overlaps requests;
a service that accepts a request and never answers; a worker that dies between two
activities; keys, endpoints and providers that come from the environment, a file
and a profile, each by its own order of preference.

## 2. Modules

| Module | Models | Lines of code |
|---|---|---|
| `Routes` | the modes, and which routes each router may hand to the loop | `router.py:103-382`, `dspy_program.py:179-224` |
| `RuntimeController` (extends it) | deployment, ladder, the checks of `_decide` as predicates, the packs a decision may meet | `runtime_controller.py:95-394` |
| `QueryLoop` (extends it) | the slow path of one request, one action per branch | `orchestrator.py:197-541` |
| `AnswerContract` | abstract: what a caller of the slow path is promised | |
| `MCQueryLoop` | the loop with its mapping to the contract | |
| `QueryLoopProofs` | theorems about the loop | |
| `Lists`, `ListLemmas` | the list comprehension and the sum of the code, and what is proved of them | `memgraph.py:226-241`, `router.py:253-260` |
| `EvidencePacking`, `MCEvidencePacking`, `EvidencePackingProofs` | packer, gate, widening and the cost-ceiling trim, over the rounds of a request; the comparison with what the loop assumes of packs | `evidence.py:37-166`, `sufficiency.py:151-298`, `orchestrator.py:322-342` |
| `Router` (extends `Routes`) | the scored rules, the scope, the learned second stage, as operators | `router.py:34-363`, `scoping.py:51-83`, `dspy_program.py:73-224` |
| `RouterWorkflow`, `MCRouter`, `RouterProofs` | the durable pipeline under crashes, lost attempts and time-outs; the properties of `Router` for every request that arrives | `router_workflow.py:26-150`, `router_worker.py:24-44` |
| `StandUp`, `MCStandUp`, `StandUpProofs` | the environment of Cognee from the service's start or the stand-up script, to the report and exit code | `cognee_setup.py:30-206`, `live_stack.py:107-444` |
| `CogneeClient`, `CogneeClientProofs` | concurrent operations on the client, one step per await | `cognee_client.py:19-326` |
| `AnswerCache`, `MCAnswerCache`, `AnswerCacheProofs` | the cache and the concurrent requests that share it | `cache.py:16-74`, `normalizer.py:128-242`, `orchestrator.py:85-146,453-484` |
| `MemGraph` | the resident graph as operators | `memgraph.py:48-241` |
| `ResidentGraph` (extends it), `ResidentGraphProofs` | the graph through startup, questions, learning, saves and crashes | `memgraph.py:244-407`, `graph_answerer.py:73-158`, `main.py:48-69` |
| `Knowledge`, `MCResidentGraph` | abstract: a bounded set of nodes and the edges among them; the mapping | |

Modules that compose: `QueryLoop` is built from `RuntimeController`,
`ResidentGraph` from `MemGraph`, `RouterWorkflow` from `Router`. Three seams between
components are shown rather than assumed, two of them by proof. `RoutesFitTheLoop` says that every decision of
the rules and of the learned stage, whatever the program predicts, is one of the
`RuleRoutes` and `LearnedRoutes` the loop starts from. `PacksFitTheLoop` says that what
`EvidencePacking` packs and trims is in the sets `LiveEvidence` and `Repacked` the loop chooses from, and that an
empty pack is judged insufficient as the loop has it. `SearchesEnd` shows what
the loop's fairness rests on: a retrieval always comes back.

A definition named `Faulty...` is used by no specification. It is the definition
that follows it with a plausible bug put in (a dropped guard, a forgotten reset,
a check keyed on the wrong thing), kept to show which property notices: for every
property of a passing run `PROJECT.json` names one under "mutants", and with it
substituted TLC finds the property violated.

### Correspondence

*QueryLoop.* `pc` is where `answer` is: `retrieve`, `decide`, `budget`,
`synthesize`, or one of the ends `accepted`, `refused` (`_fail_closed`) and
`raised`. `route`, `attempted`, `retryCount`, `widened`, `decomposed` and `packed`
are the method's locals. `raw` and `reruns` are history. The substrate, the
decomposer, the gate's verdict, the clock (`late`) and the LLM provider are
choices among everything they can return. Each action from
`EscalateCapabilityGap` to `EscalateShortfall` is one return of `_decide`, in the
method's order, with its effect in the loop.

*EvidencePacking.* A text is what its fingerprint tells apart; its cost, the
keywords the gate finds in it (`Covers`) and the ones the packer finds
(`Matches`) are constants. The two differ: the packer splits at white space
(`evidence.py:45`), the gate replaces punctuation first (`sufficiency.py:184`).
`Pack` is the method; `Trim` is the second pack under a cost ceiling, which has no
keywords; `Judge` is `check` with the scorer's latch.

*CogneeClient.* `client` is `_remote_client`; `task[w]` is the await coroutine `w`
is suspended at. A step runs from one await to the next, so `Connected`
(`serve()` returns) assigns the session whatever is there by then. `live` is which
sessions are open at the service. The embedded SDK and a process with nothing
configured are the other deployments.

*AnswerCache.* `Miss` is the lookup of a request that goes on, `Remember` its end
with both of its writes; what lies between belongs to `QueryLoop`. Keys are what
they are computed from: SHA-256 is taken to be injective.

*ResidentGraph.* Every method of the graph is synchronous, so one step; the save
is cut into `WriteTmp` and `Replace` because a crash can fall between them. A
crash is the `Stop` step, possible at any point. `site` is what surrounds a service
and never changes: its seed file, its store, what texts come back, whether it has a
snapshot path. The store may be out of reach at any start; `alone` (history) says that a
start had nothing to load but the snapshot. `TripletItem` is what becomes of a text on
its way to `promote`: the client makes it the object of a triplet
(`cognee_results.py:50-54`), the packer prints the three fields, so it is a line of
three tokens only if the text is one word.

*QueryLoop's deployments.* `deployment` is what the process was started with
(settings, policy, router, attempt ceiling, decomposer, graph): `Init` chooses it
from `Deployments` and no step changes it.

*Router.* A request is which signals its text matches, which of the matches are
negated, whether its raw text is Cypher, and its stemmed words. Weights and scores
are in halves, so `MIN_SCORE` 2.0 is 4. `Prediction` is all the program can come back
with: nothing usable, or a mode with a budget that may be no number or out of range.

*RouterWorkflow.* `step` is the activity the workflow awaits, `attempt` what the
server knows of it: `scheduled`, `running`, or `lost` with its worker. `TimeOut` is
the start-to-close time-out, after which Temporal's default policy makes another
attempt without limit; `SearchTimesOut` is the client's own time-out, which comes
first only if `retrieval_timeout_s` is below the 30 s of the activity
(`router_workflow.py:131`). `RouteInput` is what is left
of the request: everything but the caller's NodeSets.

*StandUp.* `given` is what a start finds (environment, `.env` file, command line,
host), `env` is `os.environ`. Values are named for the provider a key came from or
an endpoint leads to. `phase` goes preflight, configure, seed, smoke; the service
starts at configure and ends there. `touched` is what would have to be cleaned up.

## 3. Runs

| Run | Question | Bounds |
|---|---|---|
| `query_loop` | In three deployments: bounded attempts, no repeated mode, answers only from live, non-empty and (on freshness routes) dated evidence, nothing made of stubs remembered, the inductive invariant of the proofs, and `AnswerContract` implemented with its liveness | packs of 3 or more items alike; learned budgets 4 and 12; the three deployments below |
| `evidence_packing` | Packing, judging, widening, trimming: nothing lost, budgets kept, cuts in order, widening never worse off, packs fit the loop | retrievals of up to 4 items over 6 texts and a blank |
| `cognee_client` | Sessions, acknowledgements, time-outs, with overlapping closes, in each deployment | 3 coroutines, 4 sessions |
| `answer_cache` | Concurrent requests, a full cache, a moving clock: answers expire, hits fit | 2 in flight, 4 questions, room for 3 entries, clock to 3 |
| `resident_graph` | Load, learn, ask, evict, save, crash, restart in every order: lists agree, answers sound, edges stated, what `promote` took answered with, snapshots never torn and restored, implements `Knowledge` | 7 names, room for 4, paths of 2 hops; a crowded site and one that lives off its snapshot when its store is out of reach |
| `router` | Routes are monotone in the signals, confident only with a margin, within what the loop starts from; stop words anchor nothing; the workflow stays fresh and ends | all queries of up to 2 signals, one of them perhaps negated (`SignalsPullTheirWay` adds a third); all queries over 4 words under every contract; 1 crash; time-outs of 20 and 60 against 30 |
| `stand_up` | What the operator set survives; keys and endpoints the bridge chooses are one provider's; exit codes and the quality stamp are earned | every combination of 4 keys and 2 endpoints, of providers, and of missing prerequisites; 3 smoke modes |
| `path_chain`, `learning_contract`, `dated_answers`, `paraphrase_routes`, `workflow_scope` | what a document says and the code does not do (section 6) | as the passing run, with fewer sites, deployments or situations |

Why these bounds are enough. *MaxItems* 3: the loop compares the number of items
with 0, with 1 (a pack over budget has one) and with the thinness threshold, which
is 1 for a budget of 4 and 3 for 12. *Deployments*: the default settings with the
learned router, which may leave any request to the rules (`MAX_ATTEMPTS` 6, above the
five retrievals the ladder admits, which is proved for every value); the evals'
fixed-mode router with stub evidence and checks that fail open; a bare service
that does not validate freshness and whose checks raise. The bare service has an attempt
ceiling of 2. No real one has: `MAX_ATTEMPTS` is the constant 6 (`orchestrator.py:43`) and
`AttemptsBounded` shows it is never reached, so the value is there only for the branch
behind the loop to be taken, and no property's mutant rests on it. *Worker* 3 in the client: two connect at once while a third
closes, which is what it takes to lose a session, close it late, or clear a newer
one; *MaxSessions* 4 lets them connect again after a close. *Retrievals* of four
items against budgets of 2 and 3 reach all of: duplicates, a blank, a first item
over the token budget, a skip followed by a fit, a widening that lets more in.
`ThinBelow` and `TokenFloor` are scaled to those sizes. *AnswerCache*: 3 entries
for requests that write two keys each makes a put evict, also its own request's
other entry; the clock passes both times to live. *ResidentGraph*: 7 names in room
for 4; the seed fills the graph, so the first edge of `MCStore` costs two nodes; a second
leads into the same node and a third joins two spellings of one name. The texts are two
single words, which become edges from "context", and a triplet, which becomes five tokens.
The other site has an edge and its reverse and learns one more, so a save after any
order of use is restored in every order when the store is out of reach. *Router*: a
decision compares the winner with one other mode at a time, and a third signal is
what can change it; every pair of modes and of weights occurs. One crash loses any
one attempt, and each attempt lost is like the first. *StandUp*: a variable is unset,
blank or set, which is all the code tells apart, and the groups of variables that are
read together are enumerated together. The index of `MCRouter` has an alias of two
words and one without words; `ScopeSurvivesParaphrase` speaks of indexes whose aliases
have no stop word in them (see section 6).

Deadlock is checked in every run: a request that has ended stays so (`Done`), a cache
whose clock has reached `Horizon` still serves, a process that is down starts again,
a client can always begin something, and a workflow or a start that has ended stays
so.

## 4. Fairness

`QueryLoop` assumes `WF_vars(Next)`: a coroutine that can go on does. Each of its
awaits is bounded in the code: a retrieval by `asyncio.wait_for` with
`retrieval_timeout_s` (`cognee_client.py:118-127`), the LLM call by the
time-outs of the synthesizer's HTTP client (`synthesizer.py:160`; they bound each phase
of the call, so a provider that sends its answer byte by byte is outside this
assumption). For retrievals that is not taken on trust:
`CogneeClient` assumes only that a timer fires (`WF_vars(SearchTimesOut(w))`),
nothing of the service, and `SearchesEnd` follows. `RouterWorkflow` assumes that a
worker that is up polls and runs what it took (`router_worker.py:40`), that the timers
of the search and of the server fire, and that a dead worker is started again; nothing
of the service, and nothing of when the worker dies. `WorkflowEnds` has the premise
`searchTimeout < RetrieveTimeout`: the setting has no upper bound, and above it no
attempt of `retrieve_and_pack` on a silent service is ever completed. Ingestion has no time-out and
no property says that it ends. `AnswerCache`, `ResidentGraph`,
`EvidencePacking` and `StandUp` state safety only and assume no fairness.

## 5. What is proved

Assumptions: the named `ASSUME`s of the modules (`ControllerAssumption`,
`LoopAssumption`, `CacheAssumption`, `ClientAssumption`, `RouterAssumption`,
`WorkflowAssumption`, `StandUpAssumption`, `SiteAssumption`, `GraphAssumption`,
`PackingAssumption`), which give the constants their types and, in `EvidencePacking`, say that
a text costs at least a token and that what the packer matches the gate matches too, and what each theorem's statement adds. Every proof is for
all values of the constants.

**QueryLoop** (`QueryLoopProofs`). None of the properties is inductive alone: the
bound of five retrievals comes from the shape of the ladder. `LoopInvariant`
adds what is missing. `RungsOnly`: every attempted mode is the routed one or one of
the three modes an escalation leads to, so there are at most four. `Accounting`:
attempts are the attempted modes plus the reruns, and there is at most one, paid
for by the widening latch. `NextModeIsNew`: what is about to be retrieved is new or
is that rerun. `FlagIsTrue` and `EvidenceInHand` tie the pack's flags to what the
backend returned and to what got past the decision. `LoopInvariantHolds` is the
inductive theorem; from it follow type correctness (`TypeCorrect`),
`AttemptsAreBounded`, `NoModeIsRepeated`, `AnswersAreGrounded`,
`AnswersAreNotEmpty`, `FreshnessSurvives`, `FreshAnswersWereValidated`,
`TemporalIsNotParaphrased` (by `TemporalIsFresh`: outside the evals, a route that leads
through TEMPORAL is a freshness route) and `OnlyLiveIsRemembered`. `LoopKeepsContract`
shows that the initial states and every step map to `AnswerContract` in every
deployment; under the fail-open policy evidence is fit once it was looked at.

**AnswerCache** (`AnswerCacheProofs`). `CacheInvariant`: every entry fits its key
(scope, freshness, wording) and expires no later than its time to live after it
was stored. Eviction and dropping take entries away, which keeps this; a hit
returns an entry, which gives `AnswersDoExpire` and `HitsDoFit`. `TypeCorrect` rests on
`Ordered`: the keys in the order of use are exactly the keys with an entry, each once,
which is what lets an eviction make room. Any number of
requests in flight, any sizes and times.

**CogneeClient** (`CogneeClientProofs`). `SessionsBounded` counts something that
only grows, and needs to know that it cannot go on growing: `SessionCount` says that
until the first `aclose` the sessions given out and the coroutines still connecting
together are no more than the coroutines, because once a session is there nobody
begins to connect. `OnlyRemoteConnects`, `BuiltIsPending` and `CloseIsCounted`
relate tasks to the rest. `ClientInvariantHolds` is the inductive theorem; from it
`TypeCorrect`, `SessionsAreBounded`, `AcksTellTheTruth`, and `NoSessionIsDead`, of a client
that is closed while in use. The
lemmas that end in `KeepsInvariant` hold one case of the step each;
`FewerConnecting` is the counting.

**StandUp** (`StandUpProofs`). `PhaseInvariant` ties what was touched, the smoke
outcomes, the report and the exit code to the phase, and the environment to what was
given. That bridging twice changes nothing (`BridgeSettles`, `ConfiguringSettles`)
rests on the bridge resolving every key to itself once it is set; that settings survive
(`ShellSurvives`) on `setdefault` and on the migration being the one write that is not.
`ExplicitSettingsDoSurvive` and `OutcomesAreAlwaysEarned` follow, for every set of
situations and of smoke modes. `BridgedPairsDoFit`: where none of the four variables is
set, each gets what the bridge resolves from the settings (`PairsFit`), and the two
conditions on the OpenRouter and the OpenAI key that pick an endpoint pick its key too.

**ResidentGraph** (`ResidentGraphProofs`). The inductive invariant is `IInv`, in three
parts. `Shape`: the eviction order holds no node twice and is within `MaxNodes`, both
lists of every node agree with the lists at the other ends, and every edge anywhere (in
memory, still to be loaded, in either file) was stated by a source. Evicting a node
without scrubbing its neighbours' lists would break the agreement, so the lemmas are about
the whole `AddEdge`. `Saved`: what is on disk is what was in the graph, and what a restart
has loaded and has yet to load are together what was saved; it adds that the nodes loaded
so far are among the nodes saved, because that is why no eviction takes place meanwhile.
`Lessons`: the edge of the line last promoted is there. From `IInv` follow `TypeCorrect`,
`AdjacencyAlwaysAgrees`, `EdgesAreStated`, `RestartsRestore`, `SnapshotsAreNeverTorn` and,
with what the answerer does of an edge that is there, `PromotionsAreAnswered`: the only
evictions a promotion causes are those of other nodes, if there is room for two.
`GraphImplementsKnowledge` maps each step to one of `Knowledge` or to a
stutter. `EveryAnswerIsSound` is the correctness of the breadth-first search:
`Within(g, a, i)` are the nodes at most i edges from a; `Searched` holds between hops (what
was seen is `Within(g, a, i)`, each frontier node has a trail of i edges, every node that
still leads out of what was seen is on the frontier), `Hopping` in the middle of one, and
the goal is found at the first distance at which it is there. `Answers` says that only a
service that is up has an answer; that the answer stays sound needs that no step
both changes the graph and keeps the answer.

**EvidencePacking** (`EvidencePackingProofs`). The lemmas follow the method:
`DedupedWorks` (each text once, in rank order), `ByEvidentialityWorks` (the same texts,
from most to least evidential), `FillWorks` by induction over what is offered. The
induction needs three things at once: `Packs` (each text offered so far is packed or
counted, the tokens are the sum of the costs, only a single item may be too large),
`Notes` (the best one withheld) and `Prefers` (a text withheld found the pack full of
texts at least as evidential, or did not fit beside those). `PackFits` carries this to
the states, and `VerdictFits` says what the verdict and a widening have to do with the
pack. From `PackingInvariant` follow `NothingGetsLost`, `BudgetsAreKept`,
`TheCutIsRight`, `WideningLosesNothing` and `PacksDoFitTheLoop`. The last one closes a
seam: `LoopInvariantHolds` is about every pack in `LiveEvidence` and `Repacked`, and
every pack is in there.

**Router** (`RouterProofs`). `WorkflowsStayFresh`: what the activity is handed is as fresh as
the request (`InputIsAsFresh`), the rules send a fresh request to TEMPORAL or CYPHER
(`RuleRoutesOnly`), and no crash, loss or further attempt touches a route once it is
there. `ScopesSurviveParaphrase`: an alias without stop words is in a query
or not, whatever stop words come and go. The other three need that the scores are sums and
that of the eligible modes one beats the others (`WinnerWins`: scores have a bound, no two
modes cost the same). `ConfidenceHasAMargin`: twice the runner-up is the runner-up and 1.0
more, since a runner-up below 1.0 counts as 1.0. `EverySignalPulls`: a signal raises the
score of its own mode and of no other (`OneSignalMore`), so a third mode that came to win
would have won before. `RoutesDoFitTheLoop`: with the clamp of the budget, every decision
is among the routes `LoopInvariantHolds` starts from.

**Lists and sums** (`Lists`, `ListLemmas`). The library states induction, recursion and
what filters and folds do in theorems that take an operator, which the prover cannot
instantiate. The models therefore use `Keep` (a filter whose test is a set),
recursions over an interval (`f[i \in 0..n]`) and `Total` (a sum counted one by one), and
`ListLemmas` derives what is needed from a well-founded minimum: `NatSet` and `UpTo` are
induction in the form "a set with 0 in it that is closed under successors", `Recursion`
says that a recursion over an interval has a solution, and `KeepProperties`,
`FlattenedSet`, `TotalAdds`, `MaxWorks` and the rest say what the definitions compute.

**Only model-checked.** Liveness (`SearchesEnd`, `WorkflowEnds`, the liveness half of
`KeepsContract`): out of the prover's reach. Every invariant of a passing run is stated by
a theorem.

## 6. Findings

Five runs find a statement of the repository violated by what the code does; the
details are under "findings" in `PROJECT.json`.

- `path_chain`: the chain a path answer prints assumes every edge was walked
  forwards; for an edge walked backwards it names a link that is no edge
  (`graph_answerer.py:111`).
- `learning_contract`: the Cognee client wraps every triplet text, so a triplet that
  states an edge is a line of five tokens by the time `promote` sees it, and is skipped
  (`cognee_results.py:50`).
- `dated_answers`: the cost-ceiling re-pack comes after the freshness check and
  can drop the only dated item (`orchestrator.py:333`).
- `paraphrase_routes`: the paraphrase cache is read before routing, so a question
  that would be routed as freshness-sensitive is served from it
  (`orchestrator.py:101`).
- `workflow_scope`: the durable workflow drops the caller's `node_sets` on the way to its
  router and retrieves under a derived scope or none (`router_workflow.py:26-31`), although
  "a caller-supplied scope always wins" (`scoping.py:19`).

Seen while modelling, checked by no run:

- a text of one word is wrapped into a line of exactly three tokens, "context contains
  word", which `promote` stores; Tier 0 then answers that two such words are connected,
  through "context" (`cognee_results.py:52`), although it is never to guess
  (`graph_answerer.py:14`);
- with an operator's own `EMBEDDING_API_KEY` (or `LLM_API_KEY`), no OpenAI key and an
  OpenRouter key, `EMBEDDING_ENDPOINT` is pointed at OpenRouter and the other provider's key
  sent there (`cognee_setup.py:84-89`), although it "has to follow the embedding *key*"
  (`cognee_setup.py:77`): `BridgedPairsFit` speaks of what the bridge is left to choose;
- the packer scores an item by its white-space tokens, the gate by normalized ones,
  although `evidence.py:38-40` says they match alike: "graph." earns nothing from the
  packer for the keyword "graph";
- `_remote` says it connects once (`cognee_client.py:87`); two first searches
  connect twice and one session is never closed. Nothing in the service calls
  `CogneeClient.aclose` (`main.py:60-69` closes the synthesizer only): `NoDeadSession` is
  a part of the client's invariant that no request depends on;
- the latency ceiling is checked after the capability and freshness escalations
  (`runtime_controller.py:205-276`), and those ignore `max_retries`;
- `merge_results` drops `degraded_kind`, so a capability gap of a decomposed search
  does not escalate (`decomposition.py:141-143`); the decomposer may be consulted in
  more than one round (`orchestrator.py:214`);
- a completion without content comes back as an accepted placeholder text
  (`synthesizer.py:169-177`), and a body that is JSON but no object makes `answer` raise
  (`synthesizer.py:132`);
- an index whose alias has a stop word in it ("on-call") makes two questions with one
  paraphrase form anchor different scopes, so a paraphrase hit can cross a derived scope,
  which `normalizer.py:221-223` and `README.md:88` exclude for scopes;
- the exact key is made of the normalized query, the Cypher test of the raw one
  (`router.py:266`): a Cypher string and the same words without its punctuation share an
  entry;
- the workflow accepts whatever evidence it got, placeholders included
  (`router_workflow.py:141-143`), which is the drift `docs/roadmap.md:272-279` describes;
- `--allow-mock-embeddings` can never take effect: preflight refuses without an LLM key,
  and an LLM key is an embedding key (`cognee_setup.py:49`), so `live_stack.py:273` is
  never true;
- a blank `LLM_API_KEY` passes preflight and is reported as overridden, but
  `setdefault` leaves it blank (`cognee_setup.py:115`);
- a stand-up exits 0 with modes that broke (only the stamp says so), and a backend that
  supports no mode at all is stamped meaningful (`live_stack.py:350`);
- a `GRAPH_DATABASE_PROVIDER` or `COGNEE_API_KEY` in the `.env` file is not seen by the
  stand-up (`live_stack.py:177`, `266`); with a remote service configured it seeds the
  local store and searches the remote one (`live_stack.py:291-296`);
- `save_snapshot` does not keep the order of use of nodes without outgoing edges
  (`memgraph.py:203`), and a warm load after the snapshot can evict the learned edges
  it restored (`main.py:59`);
- Tier 0 ignores freshness, dataset, NodeSets and user; the cache key ignores the
  cost and latency ceilings (`orchestrator.py:86-90`);
- a widened search that withholds items may cover fewer keywords than the set it
  replaces, which is why `WideningKeepsEvidence` speaks of packs that withhold
  nothing; and the packer's fill is greedy, which is why `CutsLeastEvidential`
  allows an item that does not fit to be passed over;
- `UnboundedPacker.pack` (`evals/baselines.py`) does not take the
  `query_keywords` the orchestrator passes.

## 7. Abstractions

Strings are model values: queries, scopes, texts, node names (a node is a
canonical key). Packs in the loop are records of the flags its checks read. A
cancelled `serve()` is taken to open no session. A widened search returns an
extension of what the narrower one returned; the substrate that re-ranks is
outside `WideningKeepsEvidence`. `Keyword` is a set of positions, so a repeated
word counts as often as the code counts it. The clock of the cache stops at
`Horizon`. A scope in the cache is one value: the payload of a key joins its fields, and the
NodeSets in one of them, by separators it does not escape (`normalizer.py:197-206`), and
whether two requests could spell one payload is outside the model. `AnswersExpire` counts
from the time of the store, as the code does, so it says nothing of how old the evidence
was by then. `CutsLeastEvidential` speaks of the packer's own score, not of the gate's, and
`WideningKeepsEvidence` of the deterministic tier of the gate, not of its scorer. Telemetry, logging, wording and provenance are left out.

## 8. Not modelled, and the plan

Not modelled: Nexus services (interfaces without behaviour), tracing and metrics
(nothing reads them), GEPA and the evals (offline measurement; their fixed-mode router
is in `Routes`), the scripts other than `live_stack.py` (straight-line drivers). The
learned router's LM, the decomposer's LM, the SDK, Temporal's server and the service are
external. Regular expressions, stemming and the flattening of payloads are abstracted.

What would come next, in order:

1. **Decomposition**: parallel sub-queries with partial failure and time-outs at the level
   of items, shown to yield what `MergeResults` assumes.
2. **Concurrent composition**: several `QueryLoop` requests over one client, one
   cache and one graph, at the level of their contracts.
3. **Eval gates**: when `evals/report.py` may say PASS, FAIL or UNKNOWN.
4. **Proofs**: the seams as one theorem, a loop whose routes are those of `Router` and
   whose packs are those of `EvidencePacking` implementing `QueryLoop`; and, for the
   cache, that what an eviction takes was expired or least recently used.
