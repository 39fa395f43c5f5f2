------------------------------ MODULE MCParts ------------------------------
(***************************************************************************)
(* Agent session, plugins, worktrees, application store, evidence, the     *)
(* verifier, the secret store and the inspector for TLC.  They share no    *)
(* state and none calls another, so every behaviour of all of them is an   *)
(* interleaving of a behaviour of each; a behaviour here is one of the     *)
(* part in focus, with the others at rest.                                 *)
(***************************************************************************)
EXTENDS AgentSession, Plugins, Worktrees, Records, Evidence, Secrets,
        Inspection, TLC

Permuted == Permutations(Session)

-----------------------------------------------------------------------------
(***************************************************************************)
(* Projects: every combination of up to two of the things the detectors    *)
(* look for, in which contents come with the file they are in, and the     *)
(* complete layouts of the frameworks with up to one thing more, each with *)
(* or without a base image or a manifest beside it.                        *)
(***************************************************************************)
Files ==
  { "Dockerfile", "compose.yml", "package.json", "web/package.json",
    "app.csproj", "app.sln", "global.json", "requirements.txt", "setup.cfg",
    "Cargo.toml", ".git", "next.config.js", "manage.py", "Program.cs",
    "main.py", "settings.py", "shop/settings.py", "migrations/",
    "alembic.ini", "tests/", "src/main.rs", "diesel.toml", "eas.json", "app/",
    "app.json", ".env", "appsettings.json", ".github/workflows/ci.yml",
    ".gitlab-ci.yml", "index.ts" }

\* The file a content is searched in.
Host ==
  {"FROM node", "FROM dotnet", "FROM python", "FROM rust", "FROM other"}
    \X {"Dockerfile"}
  \cup {"next", "nestjs", "expo", "express", "react"}
         \X {"package.json", "web/package.json"}
  \cup {"Sdk.Web", "Sdk"} \X {"app.csproj", "global.json"}
  \cup {"django", "fastapi", "flask", "uvicorn", "pytest"}
         \X {"requirements.txt", "setup.cfg"}
  \cup {"axum", "actix-web", "rocket", "sqlx", "diesel", "[workspace]"}
         \X {"Cargo.toml"}
  \cup {"FastAPI()"} \X {"main.py"}
  \cup {"use axum"} \X {"src/main.rs"}
  \cup {"GOOGLE_CLIENT_ID", "GITHUB_CLIENT_ID", "accounts.google.com oauth"}
         \X {".env"}

\* A marker: a file, or a content with the file that holds it.
Marker == { {f} : f \in Files } \cup { {h[1], h[2]} : h \in Host }

Layout ==
  { {"requirements.txt", "django", "manage.py", "shop/settings.py", "migrations/"},
    {"requirements.txt", "fastapi", "main.py", "FastAPI()", "alembic.ini"},
    {"Cargo.toml", "axum", "src/main.rs", "use axum", "sqlx"},
    {"Cargo.toml", "[workspace]", "diesel", "migrations/"},
    {"package.json", "expo", "app.json", "app/", "eas.json"} }

MCSnapshot ==
  { l \cup m \cup n :
      l \in Marker \cup Layout, m \in Marker \cup {{}},
      n \in {{}, {"Dockerfile", "FROM python"}, {"package.json"},
             {"requirements.txt"}, {"Cargo.toml", "axum"}} }

MCFinding ==
  { [field |-> "language", value |-> "rust", confidence |-> 100],
    [field |-> "language", value |-> "node", confidence |-> 40],
    [field |-> "framework", value |-> "django", confidence |-> 90],
    [field |-> "workspace", value |-> "plugin", confidence |-> 0] }

-----------------------------------------------------------------------------
VARIABLE focus

Part ==
  { "agent", "plugins", "worktrees", "records", "retention", "verifier",
    "secrets", "inspection" }

vars ==
  <<focus, agent, plugins, worktrees, records, retention, verification,
    secret_vars, inspection>>

Init ==
  /\ focus \in Part
  /\ AgentInit
  /\ PluginsInit
  /\ WorktreesInit
  /\ RecordsInit
  /\ EvidenceInit
  /\ SecretsInit
  /\ InspectionInit
  /\ focus # "inspection" => snapshot = {".git"}

\* Everything but one part is as it was.
AtRest(part) ==
  /\ part # "agent" => UNCHANGED agent
  /\ part # "plugins" => UNCHANGED plugins
  /\ part # "worktrees" => UNCHANGED worktrees
  /\ part # "records" => UNCHANGED records
  /\ part # "retention" => UNCHANGED retention
  /\ part # "verifier" => UNCHANGED verification
  /\ part # "secrets" => UNCHANGED secret_vars
  /\ part # "inspection" => UNCHANGED inspection

Next ==
  /\ \/ focus = "agent" /\ AgentNext
     \/ focus = "plugins" /\ PluginsNext
     \/ focus = "worktrees" /\ WorktreesNext
     \/ focus = "records" /\ RecordsNext
     \/ focus = "retention" /\ RetentionNext
     \/ focus = "verifier" /\ VerifierNext
     \/ focus = "secrets" /\ SecretsNext
     \/ focus = "inspection" /\ InspectionNext
  /\ UNCHANGED focus
  /\ AtRest(focus)

Spec == Init /\ [][Next]_vars
=============================================================================
