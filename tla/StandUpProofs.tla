---------------------------- MODULE StandUpProofs -----------------------------
(***************************************************************************)
(* Proofs about StandUp, for every environment, .env file, command line    *)
(* and host, and every list of modes.  The argument: at each phase the     *)
(* environment is a known function of the one the start found (profile,    *)
(* then bridge, then migration), and what that function does to a variable *)
(* is looked at one variable at a time.                                    *)
(***************************************************************************)
EXTENDS StandUp, TLAPS

\* The environment that configure_cognee finds.
Profiled ==
    IF given.entry = "service" THEN given.shell ELSE SetDefaults(given.shell, Profile(given.shell))

Untouched == touched = {} /\ report = NoReport

Seeding ==
    /\ given.entry = "stand_up"
    /\ Missing(given.shell) = {} /\ ~given.preflightOnly
    /\ env = Configured(Profiled)
    /\ handed = HandedProvider(env)
    /\ report = NoReport /\ exit = -1

Finished ==
    \/ /\ given.entry = "service"
       /\ env = Configured(Profiled) /\ handed = HandedProvider(env)
       /\ Untouched /\ exit = -1
    \/ given.entry = "stand_up" /\ env = given.shell /\ handed = "unset" /\ Untouched
    \/ /\ given.entry = "stand_up"
       /\ Missing(given.shell) = {} /\ ~given.preflightOnly
       /\ env = Configured(Profiled) /\ handed = HandedProvider(env)
       /\ \/ exit = 1 /\ ~report.quality
          \/ /\ exit = 0
             /\ "cognify" \in touched /\ IsSet(env["LLM_API_KEY"])
             /\ Len(smoke) = Len(SmokeModes)
             /\ report.quality => Quality

\* What each phase has behind it.
PhaseInvariant ==
    /\ given \in Given
    /\ \/ phase = "preflight" /\ given.entry = "stand_up" /\ env = given.shell
          /\ handed = "unset" /\ Untouched /\ exit = -1
       \/ phase = "configure" /\ given.entry = "service" /\ env = given.shell
          /\ handed = "unset" /\ Untouched /\ exit = -1
       \/ phase = "configure" /\ given.entry = "stand_up" /\ env = Profiled
          /\ Missing(given.shell) = {} /\ ~given.preflightOnly
          /\ handed = "unset" /\ report = NoReport /\ exit = -1
       \/ phase = "seed" /\ Seeding
       \/ phase = "smoke" /\ Seeding /\ "cognify" \in touched /\ IsSet(env["LLM_API_KEY"])
       \/ phase = "done" /\ Finished

-----------------------------------------------------------------------------
(***************************************************************************)
(* The environment.                                                        *)
(***************************************************************************)

Bridged == {"LLM_API_KEY", "LLM_ENDPOINT", "LLM_MODEL", "EMBEDDING_API_KEY",
            "EMBEDDING_ENDPOINT", "GRAPH_DATABASE_PROVIDER"}

\* Setting a default leaves alone what is there, blank or not.
LEMMA DefaultsKeep ==
    ASSUME NEW e, NEW d, NEW v \in EnvVar, e[v] # "unset"
    PROVE  SetDefaults(e, d)[v] = e[v]
  BY DEF SetDefaults

\* What bridging and migrating make of each variable.
LEMMA OverriddenVariables ==
    ASSUME NEW e
    PROVE  DOMAIN Overrides(e) = {v \in Bridged : ~IsSet(e[v]) /\ IsSet(Bridge(e)[v])}
  BY DEF Overrides, Bridge, Bridged

\* What is overridden, is by the value the bridge resolved.
LEMMA OverrideValue ==
    ASSUME NEW e, NEW v \in DOMAIN Overrides(e)
    PROVE  Overrides(e)[v] = Bridge(e)[v]
  BY DEF Overrides

\* What bridging leaves in a variable.
LEMMA BridgedVariable ==
    ASSUME NEW e, NEW v \in EnvVar
    PROVE  SetDefaults(e, Overrides(e))[v] =
             IF v \in Bridged /\ e[v] = "unset" /\ IsSet(Bridge(e)[v])
             THEN Bridge(e)[v] ELSE e[v]
  <1>1. v \in DOMAIN Overrides(e) <=> v \in Bridged /\ ~IsSet(e[v]) /\ IsSet(Bridge(e)[v])
    BY OverriddenVariables
  <1>2. e[v] = "unset" => ~IsSet(e[v])
    BY DEF IsSet
  <1> QED
    BY <1>1, <1>2, OverrideValue DEF SetDefaults

\* What configuring leaves in a variable.
LEMMA ConfiguredVariable ==
    ASSUME NEW e, NEW v \in EnvVar, given.enabled,
           NEW b, b = SetDefaults(e, Overrides(e))
    PROVE  /\ v # "GRAPH_DATABASE_PROVIDER" => Configured(e)[v] = b[v]
           /\ v = "GRAPH_DATABASE_PROVIDER" =>
                 \/ Configured(e)[v] = b[v]
                 \/ HasCognee /\ Configured(e)[v] = "postgres"
                    /\ "pggraph" = IF b[v] = "unset" THEN Setting(v) ELSE b[v]
  <1>1. DOMAIN b = EnvVar
    BY DEF SetDefaults
  <1> QED
    BY <1>1 DEF Configured, Migrate

\* A configured environment does not name the retired provider where there is a
\* Cognee to name it to.
LEMMA ProviderIsMigrated ==
    ASSUME NEW e, HasCognee, e["GRAPH_DATABASE_PROVIDER"] = "blank" => ~IsSet(Setting("GRAPH_DATABASE_PROVIDER"))
    PROVE  LET c == Configured(e)["GRAPH_DATABASE_PROVIDER"] IN
           /\ c # "pggraph"
           /\ ~IsSet(c) => ~IsSet(Setting("GRAPH_DATABASE_PROVIDER"))
  <1> DEFINE g == "GRAPH_DATABASE_PROVIDER"
             b == SetDefaults(e, Overrides(e))
  <1>1. g \in EnvVar /\ g \in Bridged
    BY DEF EnvVar, Bridged
  <1>2. b[g] = IF e[g] = "unset" /\ IsSet(Setting(g)) THEN Setting(g) ELSE e[g]
    BY <1>1, BridgedVariable DEF Bridge
  <1>3. b[g] = "unset" => ~IsSet(Setting(g))
    BY <1>2 DEF IsSet
  <1>4. ~IsSet(b[g]) => ~IsSet(Setting(g))
    BY <1>2, <1>3 DEF IsSet
  <1>5. DOMAIN b = EnvVar
    BY DEF SetDefaults
  <1>6. Configured(e) = Migrate(b)
    BY DEF Configured, HasCognee
  <1>7. CASE b[g] = "pggraph"
    <2>1. Configured(e)[g] = "postgres"
      BY <1>1, <1>5, <1>6, <1>7 DEF Migrate
    <2> QED
      BY <2>1 DEF IsSet
  <1>8. CASE b[g] # "pggraph"
    <2>1. Configured(e) = b
      BY <1>3, <1>6, <1>8 DEF Migrate, IsSet
    <2> QED
      BY <2>1, <1>4, <1>8
  <1> QED
    BY <1>7, <1>8

\* Bridging twice is bridging once: what the first time could not set, the second
\* cannot either.
LEMMA BridgeSettles ==
    ASSUME NEW e, given.enabled, NEW v \in Bridged, Configured(e)[v] = "unset"
    PROVE  ~IsSet(Bridge(Configured(e))[v])
  <1> DEFINE c == Configured(e)
             b == SetDefaults(e, Overrides(e))
  <1>1. v \in EnvVar
    BY DEF Bridged, EnvVar, Key
  <1>2. b[v] = "unset"
    BY <1>1, ConfiguredVariable
  <1>3. e[v] = "unset" /\ ~IsSet(Bridge(e)[v])
    BY <1>1, <1>2, BridgedVariable DEF IsSet
  <1>4. \A k \in {"OPENROUTER_API_KEY", "OPENAI_API_KEY"} : c[k] = e[k]
    <2>1. TAKE k \in {"OPENROUTER_API_KEY", "OPENAI_API_KEY"}
    <2>2. k \in EnvVar /\ k \notin Bridged
      BY DEF EnvVar, Key, Bridged
    <2>3. b[k] = e[k]
      BY <2>2, BridgedVariable
    <2>4. c[k] = b[k]
      BY <2>2, ConfiguredVariable DEF Bridged
    <2> QED
      BY <2>3, <2>4
  <1>5. /\ Either(c, "OPENROUTER_API_KEY") = Either(e, "OPENROUTER_API_KEY")
        /\ Either(c, "OPENAI_API_KEY") = Either(e, "OPENAI_API_KEY")
    BY <1>4 DEF Either
  <1>6. c["LLM_API_KEY"] = e["LLM_API_KEY"] \/ IsSet(LLMKey(e))
    <2>1. Bridge(e)["LLM_API_KEY"] = LLMKey(e) /\ "LLM_API_KEY" \in EnvVar
      BY DEF Bridge, EnvVar, Key
    <2>2. b["LLM_API_KEY"] = e["LLM_API_KEY"] \/ IsSet(LLMKey(e))
      BY <2>1, BridgedVariable
    <2>3. c["LLM_API_KEY"] = b["LLM_API_KEY"]
      BY <2>1, ConfiguredVariable
    <2> QED
      BY <2>2, <2>3
  <1>7. ~IsSet(LLMKey(e)) => ~IsSet(LLMKey(c))
    BY <1>5, <1>6 DEF LLMKey, Or
  <1>8. CASE v = "LLM_API_KEY"
    BY <1>3, <1>7, <1>8 DEF Bridge
  <1>9. CASE v = "EMBEDDING_API_KEY"
    <2>1. ~IsSet(EmbeddingKey(e))
      BY <1>3, <1>9 DEF Bridge
    <2>2. ~IsSet(Either(e, "OPENAI_API_KEY")) /\ ~IsSet(LLMKey(e))
      BY <2>1 DEF EmbeddingKey, Or
    <2>3. ~IsSet(c["EMBEDDING_API_KEY"])
      BY <1>9 DEF IsSet
    <2>4. ~IsSet(EmbeddingKey(c))
      BY <1>5, <1>7, <2>2, <2>3 DEF EmbeddingKey, Or
    <2> QED
      BY <2>4, <1>9 DEF Bridge
  <1>10. CASE v \in Bridged \ {"LLM_API_KEY", "EMBEDDING_API_KEY"}
    BY <1>3, <1>5, <1>10 DEF Bridge, Bridged
  <1> QED
    BY <1>8, <1>9, <1>10

\* Configuring what is configured changes nothing.
LEMMA ConfiguringSettles ==
    ASSUME NEW e,
           e["GRAPH_DATABASE_PROVIDER"] = "blank" => ~IsSet(Setting("GRAPH_DATABASE_PROVIDER")),
           DOMAIN e = EnvVar, e = [v \in EnvVar |-> e[v]]
    PROVE  Configured(Configured(e)) = Configured(e)
  <1>1. CASE ~given.enabled
    BY <1>1 DEF Configured
  <1>2. CASE given.enabled
    <2> DEFINE c == Configured(e)
               d == SetDefaults(c, Overrides(c))
    <2>1. c = [v \in EnvVar |-> c[v]]
      BY <1>2 DEF Configured, Migrate, SetDefaults
    <2>2. \A v \in EnvVar : d[v] = c[v]
      BY <1>2, BridgedVariable, BridgeSettles
    <2>3. d = c
      <3>1. d = [v \in EnvVar |-> d[v]]
        BY DEF SetDefaults
      <3> QED
        BY <2>1, <2>2, <3>1
    <2>4. HasCognee => Migrate(c) = c
      <3>1. SUFFICES ASSUME HasCognee PROVE Migrate(c) = c
        OBVIOUS
      <3>2. /\ c["GRAPH_DATABASE_PROVIDER"] # "pggraph"
            /\ ~IsSet(c["GRAPH_DATABASE_PROVIDER"]) => ~IsSet(Setting("GRAPH_DATABASE_PROVIDER"))
        BY <3>1, ProviderIsMigrated
      <3> QED
        BY <3>2 DEF Migrate, IsSet
    <2>5. Configured(c) = IF HasCognee THEN Migrate(d) ELSE d
      BY <1>2 DEF Configured
    <2> HIDE DEF c, d
    <2>6. Configured(c) = c
      BY <2>3, <2>4, <2>5
    <2> QED
      BY <2>6 DEF c
  <1> QED
    BY <1>1, <1>2

\* What was set stays, but for the retired provider.
LEMMA SettingsSurviveConfiguring ==
    ASSUME NEW e, NEW v \in EnvVar, IsSet(e[v])
    PROVE  \/ Configured(e)[v] = e[v]
           \/ e[v] = "pggraph" /\ Configured(e)[v] = "postgres"
  <1>1. CASE given.enabled
    <2> DEFINE b == SetDefaults(e, Overrides(e))
    <2>1. e[v] # "unset"
      BY DEF IsSet
    <2>2. b[v] = e[v]
      BY <2>1, DefaultsKeep
    <2> QED
      BY <1>1, <2>1, <2>2, ConfiguredVariable
  <1>2. CASE ~given.enabled
    BY <1>2 DEF Configured
  <1> QED
    BY <1>1, <1>2

-----------------------------------------------------------------------------
(***************************************************************************)
(* The phases.                                                             *)
(***************************************************************************)

\* The invariant holds as a start begins.
LEMMA InitPhase == Init => PhaseInvariant
  BY StandUpAssumption DEF Init, PhaseInvariant, Untouched, NoReport, Given

\* What the operators that do not mention the environment mean after a step that
\* leaves what was given alone.
LEMMA PhaseStep == PhaseInvariant /\ [Next]_vars => PhaseInvariant'
  <1> SUFFICES ASSUME PhaseInvariant, [Next]_vars
               PROVE  PhaseInvariant'
    OBVIOUS
  <1>1. given' = given /\ given \in Given
    BY DEF Next, vars, PhaseInvariant, Refuse, ApplyProfile, Configure, Seed, SeedFails,
           SmokeSearch, WriteReport, Done
  <1>2. Profiled' = Profiled
    BY <1>1 DEF Profiled, SetDefaults, Profile, EmbeddingKey, LLMKey, Either, Setting
  <1>3. Missing(given.shell)' = Missing(given.shell)
    BY <1>1 DEF Missing, EmbeddingKey, LLMKey, Either, Setting
  <1>4. (Configured(Profiled))' = Configured(Profiled)
    <2> DEFINE b == SetDefaults(Profiled, Overrides(Profiled))
    <2>1. (Bridge(Profiled))' = Bridge(Profiled)
      BY <1>1, <1>2 DEF Bridge, EmbeddingKey, LLMKey, Either, Setting
    <2>2. (Overrides(Profiled))' = Overrides(Profiled)
      BY <1>2, <2>1 DEF Overrides
    <2>3. b' = b
      BY <1>2, <2>2 DEF SetDefaults
    <2>4. Setting("GRAPH_DATABASE_PROVIDER")' = Setting("GRAPH_DATABASE_PROVIDER")
      BY <1>1 DEF Setting
    <2>5. (Migrate(b))' = Migrate(b)
      BY <2>3, <2>4 DEF Migrate
    <2>6. HasCognee' <=> HasCognee
      BY <1>1 DEF HasCognee
    <2> HIDE DEF b
    <2> QED
      BY <1>1, <1>2, <2>3, <2>5, <2>6 DEF Configured, b
  <1>5. env' = env => HandedProvider(env)' = HandedProvider(env)
    BY <1>1 DEF HandedProvider, HasCognee, Either, Setting
  <1>6. ASSUME UNCHANGED vars PROVE PhaseInvariant'
    BY <1>1, <1>2, <1>3, <1>4, <1>5, <1>6
       DEF vars, PhaseInvariant, Seeding, Finished, Untouched, Quality, Mocked
  <1>7. CASE Refuse
    BY <1>1, <1>7 DEF Refuse, PhaseInvariant, Finished, Untouched
  <1>8. CASE ApplyProfile
    <2>1. Profiled = SetDefaults(given.shell, Profile(given.shell))
      BY <1>8 DEF ApplyProfile, PhaseInvariant, Profiled
    <2> QED
      BY <1>1, <1>2, <1>3, <1>8, <2>1 DEF ApplyProfile, PhaseInvariant, Untouched
  <1>9. CASE Configure
    <2>1. env = Profiled
      BY <1>9 DEF Configure, PhaseInvariant, Profiled
    <2>2. env' = Configured(Profiled) /\ handed' = HandedProvider(env')
      BY <1>9, <2>1 DEF Configure
    <2>3. HandedProvider(env)' = HandedProvider(env')
      BY <1>1 DEF HandedProvider, HasCognee, Either, Setting
    <2> QED
      BY <1>1, <1>2, <1>3, <1>4, <1>9, <2>2, <2>3
         DEF Configure, PhaseInvariant, Seeding, Finished, Untouched
  <1>10. CASE Seed
    BY <1>1, <1>2, <1>3, <1>4, <1>5, <1>10 DEF Seed, PhaseInvariant, Seeding
  <1>11. CASE SeedFails
    BY <1>1, <1>2, <1>3, <1>4, <1>5, <1>11 DEF SeedFails, PhaseInvariant, Seeding, Finished
  <1>12. CASE SmokeSearch
    BY <1>1, <1>2, <1>3, <1>4, <1>5, <1>12 DEF SmokeSearch, PhaseInvariant, Seeding
  <1>13. CASE WriteReport
    BY <1>1, <1>2, <1>3, <1>4, <1>5, <1>13
       DEF WriteReport, PhaseInvariant, Seeding, Finished, Quality, Mocked
  <1> QED
    BY <1>6, <1>7, <1>8, <1>9, <1>10, <1>11, <1>12, <1>13 DEF Next, Done

\* Every phase has behind it what the one before left, whatever a start finds.
THEOREM PhasesHold == Spec => []PhaseInvariant
  BY InitPhase, PhaseStep, PTL DEF Spec

\* The environment is the one found, the profiled one, or that one configured.
LEMMA Environments ==
    ASSUME PhaseInvariant
    PROVE  /\ env \in {given.shell, Profiled, Configured(Profiled)}
           /\ handed # "unset" => env = Configured(Profiled) /\ handed = HandedProvider(env)
           /\ phase \in {"seed", "smoke"} \/ (phase = "done" /\ given.entry = "service") =>
                 env = Configured(Profiled)
  BY DEF PhaseInvariant, Seeding, Finished

\* The profile keeps what is set in the environment.
LEMMA ProfileKeeps ==
    ASSUME given \in Given
    PROVE  /\ DOMAIN Profiled = EnvVar /\ Profiled = [v \in EnvVar |-> Profiled[v]]
           /\ \A v \in EnvVar : given.shell[v] # "unset" => Profiled[v] = given.shell[v]
           /\ Profiled["GRAPH_DATABASE_PROVIDER"] = "blank" =>
                 ~IsSet(Setting("GRAPH_DATABASE_PROVIDER"))
  <1> DEFINE g == "GRAPH_DATABASE_PROVIDER"
             p == Profile(given.shell)
  <1>1. given.shell \in [EnvVar -> Value] /\ g \in EnvVar
    BY DEF Given, EnvVar
  <1>2. \A v \in EnvVar : given.shell[v] # "unset" => SetDefaults(given.shell, p)[v] = given.shell[v]
    BY DefaultsKeep
  <1>3. SetDefaults(given.shell, p)[g] = "blank" => given.shell[g] = "blank"
    BY <1>1 DEF SetDefaults, Profile
  <1>4. given.shell[g] = "blank" => ~IsSet(Setting(g))
    BY DEF Setting, IsSet
  <1> QED
    BY <1>1, <1>2, <1>3, <1>4 DEF Profiled, SetDefaults

\* What the operator set in the shell survives bridging and profile.
LEMMA ShellSurvives ==
    ASSUME PhaseInvariant, NEW v \in EnvVar, IsSet(given.shell[v])
    PROVE  \/ env[v] = given.shell[v]
           \/ given.shell[v] = "pggraph" /\ env[v] = "postgres"
  <1>1. Profiled[v] = given.shell[v]
    BY ProfileKeeps DEF PhaseInvariant, IsSet
  <1> QED
    BY <1>1, Environments, SettingsSurviveConfiguring

\* What the operator set stays as set, Cognee is given the provider that the
\* environment names and never the retired one, and bridging settles.
THEOREM ExplicitSettingsDoSurvive == Spec => []ExplicitSettingsSurvive
  <1>1. PhaseInvariant => ExplicitSettingsSurvive
    <2> SUFFICES ASSUME PhaseInvariant
                 PROVE  ExplicitSettingsSurvive
      OBVIOUS
    <2> DEFINE c == Configured(Profiled)["GRAPH_DATABASE_PROVIDER"]
    <2>1. handed # "unset" =>
             handed # "pggraph" /\ handed = env["GRAPH_DATABASE_PROVIDER"]
      <3> SUFFICES ASSUME handed # "unset"
                   PROVE  handed # "pggraph" /\ handed = env["GRAPH_DATABASE_PROVIDER"]
        OBVIOUS
      <3>1. HasCognee /\ handed = Either(Configured(Profiled), "GRAPH_DATABASE_PROVIDER") /\ IsSet(handed)
        BY Environments DEF HandedProvider
      <3>2. c # "pggraph" /\ (~IsSet(c) => ~IsSet(Setting("GRAPH_DATABASE_PROVIDER")))
        BY <3>1, ProfileKeeps, ProviderIsMigrated DEF PhaseInvariant
      <3>3. handed = c
        BY <3>1, <3>2 DEF Either, Or
      <3> QED
        BY <3>2, <3>3, Environments
    <2>2. Configured(Configured(Profiled)) = Configured(Profiled)
      BY ProfileKeeps, ConfiguringSettles DEF PhaseInvariant
    <2> HIDE DEF c
    <2>3. "unset" # "pggraph" /\ ~IsSet("unset")
      BY DEF IsSet
    <2> QED
      BY <2>1, <2>2, <2>3, ShellSurvives, Environments DEF ExplicitSettingsSurvive
  <1> QED
    BY <1>1, PhasesHold, PTL

\* A refusal touches nothing, exit 0 means seeded and searched in every mode, and
\* a report that vouches for quality was made with real vectors and no broken mode.
THEOREM OutcomesAreAlwaysEarned == Spec => []OutcomesAreEarned
  <1>1. PhaseInvariant => OutcomesAreEarned
    <2> SUFFICES ASSUME PhaseInvariant
                 PROVE  OutcomesAreEarned
      OBVIOUS
    <2>1. touched # {} => Missing(given.shell) = {} /\ ~given.preflightOnly
      BY DEF PhaseInvariant, Seeding, Finished, Untouched
    <2>2. exit = 2 => touched = {}
      BY DEF PhaseInvariant, Seeding, Finished, Untouched
    <2>3. exit = 0 /\ touched # {} =>
             "cognify" \in touched /\ Len(smoke) = Len(SmokeModes) /\ IsSet(env["LLM_API_KEY"])
      BY DEF PhaseInvariant, Seeding, Finished, Untouched
    <2>4. ASSUME report.written, report.quality
          PROVE  exit = 0 /\ IsSet(env["LLM_API_KEY"]) /\ Quality
      BY <2>4 DEF PhaseInvariant, Seeding, Finished, Untouched, NoReport
    <2>5. Quality => given.shell["MOCK_EMBEDDING"] # "true"
      <3>1. SUFFICES ASSUME given.shell["MOCK_EMBEDDING"] = "true" PROVE Mocked
        BY DEF Quality
      <3>2. "MOCK_EMBEDDING" \in EnvVar /\ IsSet("true") /\ "true" # "pggraph"
        BY DEF EnvVar, IsSet
      <3> QED
        BY <3>1, <3>2, ShellSurvives DEF Mocked
    <2>6. IsSet(env["LLM_API_KEY"]) => IsSet(EmbeddingKey(env))
      BY DEF EmbeddingKey, LLMKey, Or
    <2> QED
      BY <2>1, <2>2, <2>3, <2>4, <2>5, <2>6 DEF OutcomesAreEarned, Quality
  <1> QED
    BY <1>1, PhasesHold, PTL
\* The four variables that a key travels by.
Pairs == {"LLM_API_KEY", "LLM_ENDPOINT", "EMBEDDING_API_KEY", "EMBEDDING_ENDPOINT"}

\* Bridged from an environment that has none of the four, a key and its endpoint
\* are one provider's.
LEMMA PairsFit ==
    ASSUME given \in Given, given.enabled, KeysAreNamed,
           \A v \in Pairs : Profiled[v] = "unset"
    PROVE  LET c == Configured(Profiled) IN
           /\ c["LLM_ENDPOINT"] = "openrouter" <=> c["LLM_API_KEY"] = "openrouter"
           /\ c["EMBEDDING_ENDPOINT"] = "openrouter"
                  <=> c["EMBEDDING_API_KEY"] = "openrouter"
<1> DEFINE c == Configured(Profiled)
           b == SetDefaults(Profiled, Overrides(Profiled))
<1>1. \A k \in {"OPENROUTER_API_KEY", "OPENAI_API_KEY"} :
          IsSet(Either(Profiled, k)) => Either(Profiled, k) = Setting(k)
  <2>1. TAKE k \in {"OPENROUTER_API_KEY", "OPENAI_API_KEY"}
  <2>2. k \in EnvVar
    BY DEF EnvVar, Key
  <2>3. Profiled[k] = given.shell[k]
    BY <2>2 DEF Profiled, SetDefaults, Profile
  <2> QED BY <2>3 DEF Either, Or, Setting, IsSet
<1>2. /\ IsSet(Either(Profiled, "OPENROUTER_API_KEY")) =>
             Either(Profiled, "OPENROUTER_API_KEY") = "openrouter"
      /\ IsSet(Either(Profiled, "OPENAI_API_KEY")) =>
             Either(Profiled, "OPENAI_API_KEY") = "openai"
  BY <1>1 DEF KeysAreNamed, IsSet
<1>3. \A v \in Pairs :
          c[v] = IF IsSet(Bridge(Profiled)[v]) THEN Bridge(Profiled)[v] ELSE "unset"
  <2>1. TAKE v \in Pairs
  <2>2. v \in EnvVar /\ v \in Bridged /\ v # "GRAPH_DATABASE_PROVIDER"
    BY DEF Pairs, EnvVar, Key, Bridged
  <2>3. c[v] = b[v]
    BY <2>2, ConfiguredVariable
  <2>4. b[v] = IF IsSet(Bridge(Profiled)[v]) THEN Bridge(Profiled)[v] ELSE Profiled[v]
    BY <2>2, BridgedVariable
  <2> QED BY <2>3, <2>4
<1>4. ~IsSet("unset") /\ IsSet("openrouter") /\ IsSet("openai") /\ "openai" # "openrouter"
  BY DEF IsSet
<1>5. \A v \in Pairs : ~IsSet(Profiled[v])
  BY <1>4
<1> HIDE DEF c, b
<1>6. c["LLM_ENDPOINT"] = "openrouter" <=> c["LLM_API_KEY"] = "openrouter"
  BY <1>2, <1>3, <1>4, <1>5 DEF Pairs, Bridge, LLMKey, Or
<1>7. c["EMBEDDING_ENDPOINT"] = "openrouter" <=> c["EMBEDDING_API_KEY"] = "openrouter"
  BY <1>2, <1>3, <1>4, <1>5 DEF Pairs, Bridge, EmbeddingKey, LLMKey, Or
<1> QED BY <1>6, <1>7 DEF c

\* What the bridge is left to choose, it chooses from one provider: no key of
\* OpenRouter's is sent elsewhere, and no other key to OpenRouter.
THEOREM BridgedPairsDoFit == Spec => []BridgedPairsFit
<1>1. PhaseInvariant => BridgedPairsFit
  <2> SUFFICES ASSUME PhaseInvariant, KeysAreNamed,
                      \A v \in Pairs : given.shell[v] = "unset"
               PROVE  /\ env["LLM_ENDPOINT"] = "openrouter"
                             <=> env["LLM_API_KEY"] = "openrouter"
                      /\ env["EMBEDDING_ENDPOINT"] = "openrouter"
                             <=> env["EMBEDDING_API_KEY"] = "openrouter"
    BY DEF BridgedPairsFit, Pairs
  <2>1. given \in Given
    BY DEF PhaseInvariant
  <2>2. \A v \in Pairs : Profiled[v] = "unset"
    <3>1. TAKE v \in Pairs
    <3>2. v \in EnvVar /\ v \notin DOMAIN Profile(given.shell)
      BY DEF Pairs, EnvVar, Key, Profile
    <3> QED BY <3>2 DEF Profiled, SetDefaults
  <2>3. CASE env = given.shell
    BY <2>3 DEF Pairs
  <2>4. CASE env = Profiled
    BY <2>2, <2>4 DEF Pairs
  <2>5. CASE env = Configured(Profiled) /\ given.enabled
    BY <2>1, <2>2, <2>5, PairsFit
  <2>6. CASE env = Configured(Profiled) /\ ~given.enabled
    <3>1. env = Profiled
      BY <2>6 DEF Configured
    <3> QED BY <2>2, <3>1 DEF Pairs
  <2> QED BY <2>3, <2>4, <2>5, <2>6, Environments
<1> QED BY <1>1, PhasesHold, PTL
===============================================================================
