------------------------------ MODULE MCStandUp -------------------------------
(***************************************************************************)
(* StandUp for model checking: every combination of keys and endpoints,    *)
(* every choice of graph provider, every missing prerequisite.             *)
(***************************************************************************)
EXTENDS StandUp

MCSmokeModes == <<"CHUNKS", "TRIPLET_COMPLETION", "CYPHER">>

NothingSet == [v \in EnvVar |-> "unset"]

NoFile == [v \in SettingVar |-> "unset"]

\* A stand-up with OpenRouter's key in the .env file.
Usual == [entry |-> "stand_up", shell |-> NothingSet,
          dotenv |-> [NoFile EXCEPT !["OPENROUTER_API_KEY"] = "openrouter"],
          allowMock |-> FALSE, preflightOnly |-> FALSE, absent |-> {}, enabled |-> TRUE]

Shells ==
    {[NothingSet EXCEPT
         !["LLM_API_KEY"] = llm, !["LLM_ENDPOINT"] = endpoint,
         !["EMBEDDING_API_KEY"] = embedding, !["EMBEDDING_ENDPOINT"] = embedder,
         !["OPENROUTER_API_KEY"] = openrouter, !["OPENAI_API_KEY"] = openai] :
        llm \in {"unset", "blank", "llm"}, endpoint \in {"unset", "custom"},
        embedding \in {"unset", "blank", "embedding"}, embedder \in {"unset", "custom"},
        openrouter \in {"unset", "blank", "openrouter"}, openai \in {"unset", "openai"}}

Keys ==
    {[Usual EXCEPT !.shell = shell, !.entry = entry, !.allowMock = mock,
                   !.dotenv = [NoFile EXCEPT !["OPENROUTER_API_KEY"] = openrouter]] :
        shell \in Shells, entry \in {"service", "stand_up"}, mock \in BOOLEAN,
        openrouter \in {"unset", "openrouter"}}

Providers ==
    {[Usual EXCEPT !.shell["GRAPH_DATABASE_PROVIDER"] = provider,
                   !.shell["MOCK_EMBEDDING"] = mock,
                   !.dotenv["GRAPH_DATABASE_PROVIDER"] = setting,
                   !.entry = entry, !.enabled = enabled] :
        provider \in {"unset", "blank", "turso", "pggraph"}, mock \in {"unset", "true"},
        setting \in {"unset", "kuzu", "pggraph"},
        entry \in {"service", "stand_up"}, enabled \in BOOLEAN}

Hosts ==
    {[Usual EXCEPT !.absent = absent, !.preflightOnly = only, !.entry = entry,
                   !.shell["COGNEE_API_KEY"] = cloud] :
        absent \in SUBSET {"cognee_sdk", "s3fs", "llm_egress"}, only \in BOOLEAN,
        entry \in {"service", "stand_up"},
        cloud \in {"unset", "cloud"}}

MCGivens == Keys \cup Providers \cup Hosts
===============================================================================
