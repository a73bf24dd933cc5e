------------------------------- MODULE StandUp --------------------------------
(***************************************************************************)
(* How a process gets a configured Cognee: the bridge from Roubaix's names *)
(* to Cognee's environment in src/app/integrations/cognee_setup.py, called *)
(* by the service at start-up, and around it the stand-up of               *)
(* src/scripts/live_stack.py: preflight, profile, seed, one smoke search   *)
(* per mode, report.                                                       *)
(*                                                                         *)
(* A variable of the environment is unset, blank or set; a key is named    *)
(* for the provider that issued it, an endpoint for the one it leads to.   *)
(* Variables bridged from one plain setting are stood for by LLM_MODEL.    *)
(***************************************************************************)
EXTENDS Integers, Sequences

CONSTANTS
    Givens,     \* bound: the situations looked at
    SmokeModes  \* SMOKE_MODES, in order

Key == {"LLM_API_KEY", "OPENROUTER_API_KEY", "OPENAI_API_KEY", "EMBEDDING_API_KEY"}

EnvVar == Key \cup {"LLM_ENDPOINT", "EMBEDDING_ENDPOINT", "LLM_MODEL", "COGNEE_API_KEY",
                    "GRAPH_DATABASE_PROVIDER", "MOCK_EMBEDDING"}

\* The variables that Settings reads, from the environment or the .env file.
SettingVar == {"OPENROUTER_API_KEY", "OPENAI_API_KEY", "GRAPH_DATABASE_PROVIDER"}

Value == {"unset", "blank", "llm", "openrouter", "openai", "embedding", "custom", "cloud",
          "default", "kuzu", "turso", "postgres", "pggraph", "true"}

\* What a start finds: the environment and the .env file, the command line, the
\* prerequisites that the host lacks, and ROUBAIX_COGNEE_SETUP.
Given == [entry : {"service", "stand_up"}, shell : [EnvVar -> Value],
          dotenv : [SettingVar -> Value], allowMock : BOOLEAN, preflightOnly : BOOLEAN,
          absent : SUBSET {"cognee_sdk", "s3fs", "llm_egress"}, enabled : BOOLEAN]

ASSUME StandUpAssumption ==
    /\ Givens \subseteq Given
    /\ Len(SmokeModes) > 0

VARIABLES
    given,    \* what this start found
    phase,    \* what it does next, or "done"
    env,      \* os.environ
    handed,   \* the provider given to cognee.config.set, or "unset"
    touched,  \* what the start has left behind
    smoke,    \* the outcomes of the smoke searches so far
    report,   \* what the report says, or NoReport
    exit      \* the exit code, or -1; the service has none

vars == <<given, phase, env, handed, touched, smoke, report, exit>>

NoReport == [written |-> FALSE]

IsSet(value) == value \notin {"unset", "blank"}

\* settings.<v>, read once, when the settings were imported: an environment
\* variable, even a blank one, hides the file.
Setting(v) == IF given.shell[v] # "unset" THEN given.shell[v] ELSE given.dotenv[v]

Or(value, other) == IF IsSet(value) THEN value ELSE other

\* os.getenv(v) or settings.<v>
Either(e, v) == Or(e[v], Setting(v))

LLMKey(e) ==
    Or(e["LLM_API_KEY"], Or(Either(e, "OPENROUTER_API_KEY"), Either(e, "OPENAI_API_KEY")))

FaultyEmbeddingKey(e) == Or(e["EMBEDDING_API_KEY"], LLMKey(e))

EmbeddingKey(e) == Or(e["EMBEDDING_API_KEY"], Or(Either(e, "OPENAI_API_KEY"), LLMKey(e)))

-----------------------------------------------------------------------------
(***************************************************************************)
(* configure_cognee.                                                       *)
(***************************************************************************)

\* What each of Cognee's variables would be bridged from.
Bridge(e) ==
    LET viaOpenRouter == IsSet(Either(e, "OPENROUTER_API_KEY"))
        openAI == IsSet(Either(e, "OPENAI_API_KEY")) IN
    [LLM_API_KEY |-> LLMKey(e),
     LLM_ENDPOINT |-> IF viaOpenRouter THEN "openrouter" ELSE "unset",
     LLM_MODEL |-> "default",
     EMBEDDING_API_KEY |-> EmbeddingKey(e),
     EMBEDDING_ENDPOINT |-> IF viaOpenRouter /\ ~openAI THEN "openrouter" ELSE "unset",
     GRAPH_DATABASE_PROVIDER |-> Setting("GRAPH_DATABASE_PROVIDER")]

\* Only what is not set is overridden, and blank is not set.
Overrides(e) ==
    [v \in {v \in DOMAIN Bridge(e) : ~IsSet(e[v]) /\ IsSet(Bridge(e)[v])} |-> Bridge(e)[v]]

FaultySetDefaults(e, values) ==
    [v \in EnvVar |-> IF v \in DOMAIN values THEN values[v] ELSE e[v]]

\* os.environ.setdefault for each of the values: what is blank stays blank.
SetDefaults(e, values) ==
    [v \in EnvVar |-> IF v \in DOMAIN values /\ e[v] = "unset" THEN values[v] ELSE e[v]]

\* The retired provider is rewritten, whoever asked for it.
Migrate(e) ==
    LET provider == IF e["GRAPH_DATABASE_PROVIDER"] = "unset"
                    THEN Setting("GRAPH_DATABASE_PROVIDER")
                    ELSE e["GRAPH_DATABASE_PROVIDER"] IN
    IF provider = "pggraph" THEN [e EXCEPT !["GRAPH_DATABASE_PROVIDER"] = "postgres"] ELSE e

HasCognee == given.enabled /\ "cognee_sdk" \notin given.absent

\* Without the SDK the bridge is all that happens; disabled, not even that.
Configured(e) ==
    LET bridged == SetDefaults(e, Overrides(e)) IN
    IF ~given.enabled THEN e ELSE IF HasCognee THEN Migrate(bridged) ELSE bridged

\* Read back from the environment, for Migrate's sake.
HandedProvider(e) ==
    LET provider == Either(e, "GRAPH_DATABASE_PROVIDER") IN
    IF HasCognee /\ IsSet(provider) THEN provider ELSE "unset"

Configure ==
    /\ phase = "configure"
    /\ env' = Configured(env)
    /\ handed' = HandedProvider(env')
    /\ phase' = IF given.entry = "service" THEN "done" ELSE "seed"
    /\ UNCHANGED <<given, touched, smoke, report, exit>>

-----------------------------------------------------------------------------
(***************************************************************************)
(* live_stack.main.                                                        *)
(***************************************************************************)

\* The checks of preflight that fail; that of the graph store never does.
Missing(e) ==
    given.absent
    \cup (IF IsSet(LLMKey(e)) THEN {} ELSE {"llm_key"})
    \cup (IF IsSet(e["COGNEE_API_KEY"]) THEN {"cognee_cloud"} ELSE {})
    \cup (IF IsSet(EmbeddingKey(e)) \/ given.allowMock \/ e["MOCK_EMBEDDING"] = "true"
          THEN {} ELSE {"embeddings"})

Refuse ==
    /\ phase = "preflight"
    /\ given.preflightOnly \/ Missing(env) # {}
    /\ exit' = IF Missing(env) # {} THEN 2 ELSE 0
    /\ phase' = "done"
    /\ UNCHANGED <<given, env, handed, touched, smoke, report>>

Profile(e) ==
    IF given.allowMock /\ ~IsSet(EmbeddingKey(e))
    THEN [GRAPH_DATABASE_PROVIDER |-> "kuzu", MOCK_EMBEDDING |-> "true"]
    ELSE [GRAPH_DATABASE_PROVIDER |-> "kuzu"]

ApplyProfile ==
    /\ phase = "preflight"
    /\ ~given.preflightOnly
    /\ Missing(env) = {}
    /\ env' = SetDefaults(env, Profile(env))
    /\ touched' = {"work_dir"}
    /\ phase' = "configure"
    /\ UNCHANGED <<given, handed, smoke, report, exit>>

Mocked == env["MOCK_EMBEDDING"] = "true"

\* cognee.add, cognee.cognify and embed_triplets, which never raises.  What is
\* known of cognify is that it needs a key for the LLM.
Seed ==
    /\ phase = "seed"
    /\ IsSet(env["LLM_API_KEY"])
    /\ touched' = touched \cup {"add", "cognify"}
    /\ phase' = "smoke"
    /\ UNCHANGED <<given, env, handed, smoke, report, exit>>

\* Any of them, or the import of a broken package, raises: that is a report too.
SeedFails ==
    /\ phase = "seed"
    /\ touched' \in {touched, touched \cup {"add"}}
    /\ report' = [written |-> TRUE, failed |-> TRUE, quality |-> FALSE]
    /\ exit' = 1
    /\ phase' = "done"
    /\ UNCHANGED <<given, env, handed, smoke>>

\* A search never raises: it is live, beyond the backend, or degraded.
SmokeSearch ==
    /\ phase = "smoke"
    /\ Len(smoke) < Len(SmokeModes)
    /\ \E outcome \in {"live", "capability", "failure"} : smoke' = Append(smoke, outcome)
    /\ UNCHANGED <<given, phase, env, handed, touched, report, exit>>

FaultyQuality == (\E i \in DOMAIN smoke : smoke[i] = "live") /\ ~Mocked

\* A mode that this backend never had does not count against it.
Quality == (\A i \in DOMAIN smoke : smoke[i] # "failure") /\ ~Mocked

\* A broken mode stamps the report, and is not a failure of the start.
WriteReport ==
    /\ phase = "smoke"
    /\ Len(smoke) = Len(SmokeModes)
    /\ report' = [written |-> TRUE, failed |-> FALSE, quality |-> Quality]
    /\ exit' = 0
    /\ phase' = "done"
    /\ UNCHANGED <<given, env, handed, touched, smoke>>

Init ==
    /\ given \in Givens
    /\ phase = IF given.entry = "service" THEN "configure" ELSE "preflight"
    /\ env = given.shell
    /\ handed = "unset"
    /\ touched = {}
    /\ smoke = <<>>
    /\ report = NoReport
    /\ exit = -1

Done == phase = "done" /\ UNCHANGED vars

Next ==
    \/ Refuse \/ ApplyProfile \/ Configure \/ Seed \/ SeedFails \/ SmokeSearch \/ WriteReport
    \/ Done

Spec == Init /\ [][Next]_vars
-----------------------------------------------------------------------------
(***************************************************************************)
(* Properties.                                                             *)
(***************************************************************************)

\* One command, explicit outcomes: a stand-up that refuses has touched nothing;
\* one that exits 0 has seeded the corpus and searched in every mode with a key
\* that the LLM can be called with; and a report that vouches for quality was
\* made with real vectors, real keys and no mode that broke.
OutcomesAreEarned ==
    /\ touched # {} => Missing(given.shell) = {} /\ ~given.preflightOnly
    /\ exit = 2 => touched = {}
    /\ exit = 0 /\ touched # {} =>
          /\ "cognify" \in touched
          /\ Len(smoke) = Len(SmokeModes)
          /\ IsSet(env["LLM_API_KEY"])
    /\ report.written /\ report.quality =>
          /\ exit = 0
          /\ given.shell["MOCK_EMBEDDING"] # "true"
          /\ IsSet(EmbeddingKey(env))
          /\ \A i \in DOMAIN smoke : smoke[i] # "failure"

\* What the operator set stays as set, through profile, bridge and migration,
\* but for the retired provider; Cognee is given the provider that the
\* environment names, never the retired one; and bridging a second time would
\* change nothing.
ExplicitSettingsSurvive ==
    /\ \A v \in EnvVar :
          IsSet(given.shell[v]) =>
              \/ env[v] = given.shell[v]
              \/ given.shell[v] = "pggraph" /\ env[v] = "postgres"
    /\ handed # "pggraph"
    /\ IsSet(handed) => handed = env["GRAPH_DATABASE_PROVIDER"]
    /\ phase \in {"seed", "smoke"} \/ (phase = "done" /\ given.entry = "service") =>
          Configured(env) = env

\* Each provider's key is in the variable named for the provider.
KeysAreNamed ==
    /\ Setting("OPENROUTER_API_KEY") \in {"unset", "blank", "openrouter"}
    /\ Setting("OPENAI_API_KEY") \in {"unset", "blank", "openai"}

\* The endpoint has to follow the key: what the bridge is left to choose, it
\* chooses from one provider, for the LLM and for embeddings, whichever keys came
\* from the environment and which from the .env file.
BridgedPairsFit ==
    /\ KeysAreNamed
    /\ \A v \in {"LLM_API_KEY", "LLM_ENDPOINT", "EMBEDDING_API_KEY", "EMBEDDING_ENDPOINT"} :
          given.shell[v] = "unset"
    =>  /\ env["LLM_ENDPOINT"] = "openrouter" <=> env["LLM_API_KEY"] = "openrouter"
        /\ env["EMBEDDING_ENDPOINT"] = "openrouter"
                <=> env["EMBEDDING_API_KEY"] = "openrouter"
===============================================================================
