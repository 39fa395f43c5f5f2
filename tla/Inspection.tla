----------------------------- MODULE Inspection -----------------------------
(***************************************************************************)
(* What the platform concludes from a project: the inspector's profile,    *)
(* the adoption plan made from it, the runtime that the adapters detect,   *)
(* and the configuration planned for it.                                   *)
(*                                                                         *)
(* A snapshot is the set of things the detectors look for: files, by the   *)
(* name they are matched with, and contents, by the word that is searched. *)
(* Where several files have one name, the first by path counts; a snapshot *)
(* has at most the one at the root and the one below it that differ.       *)
(* Confidences are in hundredths.                                          *)
(***************************************************************************)
EXTENDS Naturals, Sequences, SequencesExt, FiniteSets

CONSTANTS
  Snapshot,    \* the projects that are inspected
  Finding,     \* the findings plugins may come up with
  MaxFindings  \* bound: findings of all plugins together

VARIABLES
  snapshot,    \* the project under inspection; nothing changes it
  stage,       \* how far inspect has come
  builder,     \* ProfileBuilder
  heard,       \* the number of findings applied
  plan,        \* AdoptionPlan: <<kind, subject>> pairs
  runtime,     \* DetectedRuntime
  config       \* RuntimeConfig planned last

inspection == <<snapshot, stage, builder, heard, plan, runtime, config>>

None == "none"

-----------------------------------------------------------------------------
(***************************************************************************)
(* The builder: two fields that keep their first value and collect rivals, *)
(* and the facts, the unknowns and the stages that left evidence.          *)
(***************************************************************************)
FieldState == [value |-> None, confidence |-> 0, candidates |-> {}]

ProfileBuilder ==
  [ container |-> FALSE, language |-> FieldState, framework |-> FieldState,
    facts |-> {}, unknowns |-> {}, evidence |-> {} ]

push_evidence(b, st) == [b EXCEPT !.evidence = @ \cup {st}]

push_facts(b, st, facts) ==
  [b EXCEPT !.facts = @ \cup facts,
            !.evidence = @ \cup (IF facts = {} THEN {} ELSE {st})]

push_fact(b, st, name, value) == push_facts(b, st, {<<name, value>>})

\* Mutation of set_field: the better claim replaces the worse.
set_field_best(b, st, field, value, confidence) ==
  push_evidence(
    [b EXCEPT ![field] =
       IF @.confidence <= confidence
       THEN [@ EXCEPT !.value = value, !.confidence = confidence]
       ELSE @],
    st)

set_field(b, st, field, value, confidence) ==
  LET target == b[field]
      claimed == IF target.value = None
                 THEN [target EXCEPT !.value = value, !.confidence = confidence]
                 ELSE [target EXCEPT !.candidates = @ \cup {<<value, confidence>>}]
  IN push_evidence([b EXCEPT ![field] = claimed], st)

\* Entrypoint hints are only evidence unless they are more confident.
Hint(b, st, field, value, confidence) ==
  IF b[field].confidence < confidence
  THEN set_field(b, st, field, value, confidence)
  ELSE push_evidence(b, st)

(* What a detector states and claims where it finds what it looks for. *)

States(condition, name, value) == IF condition THEN {<<name, value>>} ELSE {}

Claims(b, condition, value, confidence) ==
  IF condition
  THEN set_field(b, "framework_convention", "framework", value, confidence)
  ELSE b

\* Of alternatives <<condition, ...>>, the first that holds.
Some(alternatives) == \E i \in DOMAIN alternatives : alternatives[i][1]

First(alternatives) ==
  alternatives[Min({i \in DOMAIN alternatives : alternatives[i][1]})]

-----------------------------------------------------------------------------
(* The detectors, in the order of inspect. *)

\* The base image of the first FROM, by the language it suggests, if any.
Bases(s) ==
  <<<<"FROM node" \in s, "node">>, <<"FROM dotnet" \in s, "dotnet">>,
    <<"FROM python" \in s, "python">>, <<"FROM rust" \in s, "rust">>>>

HasFrom(s) == "FROM other" \in s \/ Some(Bases(s))

detect_docker(s, b) ==
  LET present == push_evidence([b EXCEPT !.container = TRUE], "dockerfile")
  IN IF "Dockerfile" \notin s THEN b
     ELSE IF Some(Bases(s))
          THEN set_field(present, "dockerfile", "language", First(Bases(s))[2], 90)
          ELSE [present EXCEPT !.unknowns = @ \cup {"docker_base_language"}]

detect_compose(s, b) ==
  push_facts(b, "compose", States("compose.yml" \in s, "compose", "present"))

\* The files that are manifests of a language.
Manifests ==
  [ node |-> {"package.json", "web/package.json"},
    dotnet |-> {"app.csproj", "app.sln", "global.json"},
    python |-> {"requirements.txt", "setup.cfg"},
    rust |-> {"Cargo.toml"} ]

HasManifest(s, language) == Manifests[language] \cap s # {}

\* A manifest claims its language, and the first framework found in it.
apply_manifest_hit(s, b, language, frameworks) ==
  LET hit == set_field(b, "manifest", "language", language, 100)
  IN IF ~HasManifest(s, language) THEN b
     ELSE IF Some(frameworks)
          THEN set_field(hit, "manifest", "framework",
                         First(frameworks)[2], First(frameworks)[3])
          ELSE hit

detect_node_framework(s) ==
  <<<<"next" \in s, "next.js", 90>>, <<"nestjs" \in s, "nestjs", 90>>,
    <<"expo" \in s, "expo", 90>>, <<"express" \in s, "express", 90>>,
    <<"react" \in s, "react", 70>>>>

DotNetFramework(s) ==
  <<<<"Sdk.Web" \in s, "aspnetcore", 90>>,
    <<{"Sdk", "app.sln"} \cap s # {}, "dotnet-sdk", 70>>>>

PythonFramework(s) ==
  <<<<"django" \in s, "django", 90>>, <<"fastapi" \in s, "fastapi", 90>>,
    <<"flask" \in s, "flask", 90>>>>

RustFramework(s) ==
  <<<<"axum" \in s, "axum", 90>>, <<"actix-web" \in s, "actix-web", 90>>,
    <<"rocket" \in s, "rocket", 90>>>>

detect_manifests(s, b) ==
  LET node == apply_manifest_hit(s, b, "node", detect_node_framework(s))
      dotnet == apply_manifest_hit(s, node, "dotnet", DotNetFramework(s))
      python == apply_manifest_hit(s, dotnet, "python", PythonFramework(s))
      rust == apply_manifest_hit(s, python, "rust", RustFramework(s))
  IN push_facts(rust, "manifest", States(".git" \in s, "git", "present"))

\* Names are compared with the last segment of a path, so the convention that
\* is listed as src/main.rs matches no file.
Conventions ==
  <<<<"next.config.js", "next.js", 80>>, <<"manage.py", "django", 80>>,
    <<"Program.cs", "aspnetcore", 60>>, <<"main.py", "fastapi", 50>>>>

detect_framework_conventions(s, b) ==
  LET Corroborate(c, v) ==
        IF v[1] \in s THEN Hint(c, "framework_convention", "framework", v[2], v[3])
        ELSE c
      next == Corroborate(b, Conventions[1])
      django == Corroborate(next, Conventions[2])
      aspnet == Corroborate(django, Conventions[3])
  IN Corroborate(aspnet, Conventions[4])

Settings(s) == {"settings.py", "shop/settings.py"} \cap s # {}

FastApiEntry(s) == {"main.py", "FastAPI()"} \subseteq s

\* What the deep conventions state of tooling.
Tooling(s) ==
  States("manage.py" \in s, "migration_runner", "manage.py")
  \cup States("manage.py" \in s, "test_runner", "manage.py")
  \cup States("alembic.ini" \in s, "migration_runner", "alembic")
  \cup States({"tests/", "pytest"} \cap s # {}, "test_runner", "pytest")
  \cup (IF {"Cargo.toml", "sqlx"} \subseteq s
        THEN {<<"migration_runner", "sqlx">>}
        ELSE IF {"diesel", "diesel.toml"} \cap s # {}
        THEN {<<"migration_runner", "diesel">>}
        ELSE States({"Cargo.toml", "migrations/"} \subseteq s,
                    "migration_runner", "unresolved"))
  \cup States({"Cargo.toml", "[workspace]"} \subseteq s, "workspace", "cargo")
  \cup States("eas.json" \in s, "build_profile", "eas")

detect_deep_framework_conventions(s, b) ==
  LET settings == Claims(b, Settings(s), "django", 85)
      django == Claims(settings, Settings(s) /\ {"manage.py", "migrations/"} \subseteq s,
                       "django", 95)
      fastapi == Claims(django, FastApiEntry(s), "fastapi", 85)
      axum == Claims(fastapi, {"src/main.rs", "use axum"} \subseteq s, "axum", 85)
      expo == Claims(axum, {"app/", "app.json"} \subseteq s, "expo", 85)
  IN push_facts(expo, "framework_convention", Tooling(s))

\* Files named .env.local and the like are meant to be found too, but are
\* looked for among the files with no name at all.
detect_configuration(s, b) ==
  push_facts(b, "configuration",
    States({"GOOGLE_CLIENT_ID", "accounts.google.com oauth"} \cap s # {},
           "auth_provider", "google-oauth")
    \cup States("GITHUB_CLIENT_ID" \in s, "auth_provider", "github-oauth")
    \cup States(".env" \in s, "configuration", ".env")
    \cup States("appsettings.json" \in s, "configuration", "appsettings.json"))

detect_ci(s, b) ==
  push_facts(b, "ci",
    States(".github/workflows/ci.yml" \in s, "ci", "github-actions")
    \cup States(".gitlab-ci.yml" \in s, "ci", "gitlab-ci"))

\* The languages that source files hint at, and how confidently.
Hints(s) ==
  (IF {"index.ts", "next.config.js"} \cap s # {} THEN {<<"node", 30>>} ELSE {})
  \cup (IF "Program.cs" \in s THEN {<<"dotnet", 30>>} ELSE {})
  \cup (IF {"main.py", "manage.py"} \cap s # {} \/ Settings(s)
        THEN {<<"python", 30>>} ELSE {})
  \cup (IF "src/main.rs" \in s THEN {<<"rust", 30>>} ELSE {})

\* Source files are weak hints: rivals for a field that has no value.
detect_source_fallback(s, b) ==
  IF b.language.value # None THEN b
  ELSE [b EXCEPT !.language.candidates = @ \cup Hints(s),
                 !.evidence = @ \cup (IF Hints(s) = {} THEN {} ELSE {"source"})]

Detectors == 8

Detect(n, s, b) ==
  CASE n = 1 -> detect_docker(s, b)
    [] n = 2 -> detect_compose(s, b)
    [] n = 3 -> detect_manifests(s, b)
    [] n = 4 -> detect_framework_conventions(s, b)
    [] n = 5 -> detect_deep_framework_conventions(s, b)
    [] n = 6 -> detect_configuration(s, b)
    [] n = 7 -> detect_ci(s, b)
    [] n = 8 -> detect_source_fallback(s, b)

-----------------------------------------------------------------------------
Disputed(f) ==
  f.value # None /\ \E c \in f.candidates : c[1] # f.value /\ c[2] >= f.confidence

finish_deterministic(b) ==
  LET Settled(f) == IF Disputed(f) THEN [f EXCEPT !.value = None] ELSE f
  IN [b EXCEPT
        !.unknowns = @ \cup {field \in {"language", "framework"} : Disputed(b[field])},
        !.language = Settled(b.language),
        !.framework = Settled(b.framework)]

\* Mutation of apply_plugin: a finding fills a field that has no value.
apply_plugin_fills(b, f) ==
  IF f.field \in {"language", "framework"}
  THEN set_field(b, "plugin", f.field, f.value, f.confidence)
  ELSE push_fact(b, "plugin", f.field, f.value)

apply_plugin(b, f) ==
  IF f.field \notin {"language", "framework"}
  THEN push_fact(b, "plugin", f.field, f.value)
  ELSE LET current == b[f.field] IN
       CASE current.value = None ->
              push_evidence(
                [b EXCEPT ![f.field].candidates =
                   @ \cup {<<f.value, f.confidence>>}], "plugin")
         [] current.value # None /\ current.value = f.value ->
              push_evidence(b, "plugin")
         [] current.value \notin {None, f.value}
              /\ f.confidence >= current.confidence ->
              push_evidence([b EXCEPT !.unknowns = @ \cup {f.field},
                                      ![f.field].value = None], "plugin")
         [] OTHER -> push_fact(b, "plugin", "candidate", f.value)

build(b) ==
  [b EXCEPT !.unknowns =
     @ \cup {field \in {"language", "framework"} : b[field].value = None}]

-----------------------------------------------------------------------------
(* The adoption plan. *)

generate(b) ==
  {<<"KEEP", f>> : f \in {g \in b.facts :
                            g[1] \in {"auth_provider", "ci", "compose", "git"}}}
  \cup (IF b.container THEN {<<"KEEP", <<"dockerfile", "present">>>>} ELSE {})
  \cup {<<"ADOPT", <<"platform", c>>>> :
          c \in {"secrets", "previews", "deployment", "logs"}}
  \cup {<<"ADOPT", f>> : f \in {g \in b.facts :
                            g[1] \in {"migration_runner", "test_runner"}}}
  \cup {<<"OPTIONAL_MIGRATION", <<"storage", "framework">>>>}

-----------------------------------------------------------------------------
(* The runtime adapters, which look at the same project on their own. *)

\* A framework is one whose layout was resolved (Tier 3); tiers below are not
\* told apart.
Detected(kind, framework) == [kind |-> kind, framework |-> framework]

detect_expo(s) ==
  IF {"package.json", "expo", "app.json"} \subseteq s
  THEN {Detected("expo", IF {"app/", "eas.json"} \cap s # {} THEN "expo" ELSE None)}
  ELSE {}

detect_node(s) == IF "package.json" \in s THEN {Detected("node", None)} ELSE {}

detect_dotnet(s) ==
  IF {"app.csproj", "app.sln"} \cap s # {} THEN {Detected("dotnet", None)} ELSE {}

detect_django(s) ==
  {"manage.py", "shop/settings.py", "migrations/"} \subseteq s
    /\ "settings.py" \notin s

detect_fastapi(s) ==
  FastApiEntry(s) /\ {"uvicorn", "alembic.ini", "pytest", "tests/"} \cap s # {}

detect_python(s) ==
  IF "requirements.txt" \notin s THEN {}
  ELSE IF detect_django(s) THEN {Detected("python", "django")}
  ELSE IF detect_fastapi(s) THEN {Detected("python", "fastapi")}
  ELSE {Detected("python", None)}

detect_rust(s) ==
  LET tooling == {"sqlx", "diesel", "diesel.toml", "migrations/"} \cap s # {} IN
  IF "Cargo.toml" \notin s THEN {}
  ELSE IF {"axum", "src/main.rs"} \subseteq s /\ tooling
  THEN {Detected("rust", "axum")}
  ELSE IF {"[workspace]", "migrations/"} \subseteq s /\ {"sqlx", "diesel"} \cap s # {}
  THEN {Detected("rust", "rust")}
  ELSE {Detected("rust", None)}

detect_generic(s) ==
  IF "Dockerfile" \in s /\ HasFrom(s) THEN {Detected("generic", None)} ELSE {}

Unsupported == Detected(None, None)

detect_runtime(s) ==
  LET adapters == <<detect_expo(s), detect_node(s), detect_dotnet(s),
                    detect_python(s), detect_rust(s), detect_generic(s)>>
      found == {i \in DOMAIN adapters : adapters[i] # {}}
  IN IF found = {} THEN Unsupported ELSE CHOOSE d \in adapters[Min(found)] : TRUE

-----------------------------------------------------------------------------
(* prepare: the configuration of a detected runtime for one profile. *)

\* Only Expo has no production image.  Port 0 and limits that do not validate
\* are refused, which plans nothing; commands and paths are left out.
prepare(d, profile) ==
  [ kind |-> d.kind,
    profile |-> profile,
    image |-> profile = "production" /\ d.kind # "expo" ]

NoConfig == prepare(Unsupported, "development")

-----------------------------------------------------------------------------
InspectionInit ==
  /\ snapshot \in Snapshot
  /\ stage = 0
  /\ builder = ProfileBuilder
  /\ heard = 0
  /\ plan = {}
  /\ runtime = Unsupported
  /\ config = NoConfig

RunDetector ==
  /\ stage < Detectors
  /\ stage' = stage + 1
  /\ builder' = Detect(stage + 1, snapshot, builder)
  /\ UNCHANGED <<snapshot, heard, plan, runtime, config>>

Finish ==
  /\ stage = Detectors
  /\ stage' = Detectors + 1
  /\ builder' = finish_deterministic(builder)
  /\ UNCHANGED <<snapshot, heard, plan, runtime, config>>

Hear ==
  /\ stage = Detectors + 1
  /\ heard < MaxFindings
  /\ heard' = heard + 1
  /\ \E f \in Finding : builder' = apply_plugin(builder, f)
  /\ UNCHANGED <<snapshot, stage, plan, runtime, config>>

\* The profile is handed out; the plan is made from it.
Conclude ==
  /\ stage = Detectors + 1
  /\ stage' = Detectors + 2
  /\ builder' = build(builder)
  /\ plan' = generate(builder')
  /\ runtime' = detect_runtime(snapshot)
  /\ UNCHANGED <<snapshot, heard, config>>

Prepare ==
  /\ stage = Detectors + 2
  /\ runtime # Unsupported
  /\ \E profile \in {"development", "production"} :
       config' = prepare(runtime, profile)
  /\ UNCHANGED <<snapshot, stage, builder, heard, plan, runtime>>

InspectionNext == RunDetector \/ Finish \/ Hear \/ Conclude \/ Prepare

-----------------------------------------------------------------------------
Done == stage = Detectors + 2

(***************************************************************************)
(* Plugins decide nothing: once the deterministic stages are over, a field *)
(* keeps its value or loses it.  (apply_plugin, build)                     *)
(***************************************************************************)
PluginsNeverDecide ==
  [][stage > Detectors =>
       \A field \in {"language", "framework"} :
         builder'[field].value \in {builder[field].value, None}]_inspection

(***************************************************************************)
(* The two detectors agree: a native runtime is never of another language  *)
(* than the one the profile names.  (inspect, detect_runtime)              *)
(***************************************************************************)
RuntimeMatchesLanguage ==
  (Done /\ runtime.kind \notin {None, "generic"}) =>
    builder.language.value \in
      {None, IF runtime.kind = "expo" THEN "node" ELSE runtime.kind}
=============================================================================
