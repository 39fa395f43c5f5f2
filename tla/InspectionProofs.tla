-------------------------- MODULE InspectionProofs --------------------------
(***************************************************************************)
(* The inspector, for every project and all that plugins may find.         *)
(*                                                                         *)
(* A field keeps its first value, and what rivals claim is kept beside it. *)
(* So whatever else was found before, a manifest leaves its language as    *)
(* the value or among the rivals, and as no claim is surer than a manifest *)
(* the rival then makes the field unknown.  A native runtime is detected   *)
(* only where there is a manifest of its language.                         *)
(***************************************************************************)
EXTENDS Inspection, TLAPS

IsField(f) ==
  /\ DOMAIN f = {"value", "confidence", "candidates"}
  /\ f.confidence \in 0 .. 100

IsBuilder(b) ==
  /\ DOMAIN b = { "container", "language", "framework", "facts", "unknowns", "evidence" }
  /\ IsField(b.language)
  /\ IsField(b.framework)

\* A field that has a value keeps it, and all of its rivals.
Grown(f, g) ==
  f.value # None =>
    /\ g.value = f.value /\ g.confidence = f.confidence
    /\ f.candidates \subseteq g.candidates

\* The language was claimed by a manifest.
Noted(f, language) ==
  \/ f.value = language
  \/ f.value # None /\ <<language, 100>> \in f.candidates

\* A stage of the inspection leaves a builder and what was found before it.
Keeps(b, c) == IsBuilder(c) /\ Grown(b.language, c.language)

Language == {"node", "dotnet", "python", "rust"}

-----------------------------------------------------------------------------
(* The builder's operations. *)

\* A detector that changes nothing takes nothing back.
LEMMA KeepsReflexive == ASSUME NEW b, IsBuilder(b) PROVE Keeps(b, b)
BY DEF Keeps, Grown

\* Detectors that take nothing back take nothing back one after the other.
LEMMA KeepsTransitive ==
  ASSUME NEW b, NEW c, NEW d, Keeps(b, c), Keeps(c, d)
  PROVE  Keeps(b, d)
BY DEF Keeps, Grown

\* What a manifest claimed stays the value or a rival of it.
LEMMA NotedStays ==
  ASSUME NEW b, NEW c, Keeps(b, c), NEW l \in Language, Noted(b.language, l)
  PROVE  Noted(c.language, l)
BY DEF Keeps, Grown, Noted, Language, None

\* push_evidence leaves language and framework alone.
LEMMA EvidenceKeeps ==
  ASSUME NEW b, IsBuilder(b), NEW st
  PROVE  /\ IsBuilder(push_evidence(b, st))
         /\ push_evidence(b, st).language = b.language
         /\ push_evidence(b, st).framework = b.framework
BY DEF push_evidence, IsBuilder

\* push_facts leaves language and framework alone.
LEMMA FactsKeep ==
  ASSUME NEW b, IsBuilder(b), NEW st, NEW facts
  PROVE  /\ IsBuilder(push_facts(b, st, facts))
         /\ push_facts(b, st, facts).language = b.language
         /\ push_facts(b, st, facts).framework = b.framework
         /\ Keeps(b, push_facts(b, st, facts))
<1>1. /\ IsBuilder(push_facts(b, st, facts))
      /\ push_facts(b, st, facts).language = b.language
      /\ push_facts(b, st, facts).framework = b.framework
  BY DEF push_facts, IsBuilder
<1>2. QED
  BY <1>1 DEF Keeps, Grown

\* A builder with one field replaced.
LEMMA FieldReplaced ==
  ASSUME NEW b, IsBuilder(b), NEW field \in {"language", "framework"}, NEW g, IsField(g)
  PROVE  LET d == [b EXCEPT ![field] = g] IN
         /\ IsBuilder(d)
         /\ field = "language" => d.language = g /\ d.framework = b.framework
         /\ field = "framework" => d.framework = g /\ d.language = b.language
BY DEF IsBuilder

\* The first claim is the value, a later one a rival (ProfileBuilder::set_field).
LEMMA ClaimKeeps ==
  ASSUME NEW b, IsBuilder(b), NEW st, NEW field \in {"language", "framework"},
         NEW value, NEW confidence \in 0 .. 100
  PROVE  /\ IsBuilder(set_field(b, st, field, value, confidence))
         /\ Keeps(b, set_field(b, st, field, value, confidence))
         /\ field = "language" /\ confidence = 100 =>
              Noted(set_field(b, st, field, value, confidence).language, value)
<1> DEFINE f == b[field]
           g == IF f.value = None
                THEN [f EXCEPT !.value = value, !.confidence = confidence]
                ELSE [f EXCEPT !.candidates = @ \cup {<<value, confidence>>}]
           d == [b EXCEPT ![field] = g]
           c == set_field(b, st, field, value, confidence)
<1>1. IsField(f)
  BY DEF IsBuilder
<1>2. /\ IsField(g)
      /\ Grown(f, g)
      /\ confidence = 100 => Noted(g, value)
  <2>1. CASE f.value = None
    <3>1. g = [f EXCEPT !.value = value, !.confidence = confidence]
      BY <2>1
    <3>2. IsField(g) /\ g.value = value
      BY <1>1, <3>1, Zenon DEF IsField
    <3>3. QED
      BY <2>1, <3>2 DEF Grown, Noted
  <2>2. CASE f.value # None
    <3>1. g = [f EXCEPT !.candidates = @ \cup {<<value, confidence>>}]
      BY <2>2
    <3>2. /\ IsField(g) /\ g.value = f.value /\ g.confidence = f.confidence
          /\ g.candidates = f.candidates \cup {<<value, confidence>>}
      BY <1>1, <3>1, Zenon DEF IsField
    <3>3. QED
      BY <2>2, <3>2 DEF Grown, Noted
  <2>3. QED
    BY <2>1, <2>2, Zenon
<1>3. c = push_evidence(d, st)
  BY DEF set_field
<1> HIDE DEF g, c
<1>4. /\ IsBuilder(d)
      /\ field = "language" => d.language = g
      /\ field # "language" => d.language = b.language
  BY <1>2, FieldReplaced
<1> HIDE DEF d, f
<1>5. IsBuilder(c) /\ c.language = d.language
  BY <1>3, <1>4, EvidenceKeeps
<1>6. Keeps(b, c)
  <2>1. CASE field = "language"
    BY <2>1, <1>2, <1>4, <1>5 DEF Keeps, f
  <2>2. CASE field # "language"
    BY <2>2, <1>4, <1>5 DEF Keeps, Grown
  <2>3. QED
    BY <2>1, <2>2
<1>7. field = "language" /\ confidence = 100 => Noted(c.language, value)
  BY <1>2, <1>4, <1>5
<1>8. QED
  BY <1>5, <1>6, <1>7 DEF c

-----------------------------------------------------------------------------
(* The detectors: none takes back what an earlier one found. *)

\* One of the alternatives that hold is the first (six are the most there are).
LEMMA FirstIsOne ==
  ASSUME NEW S, S \subseteq 1 .. 6, S # {}
  PROVE  Min(S) \in S
<1>1. \E i \in S : \A j \in S : i <= j
  <2>1. CASE 1 \in S
    BY <2>1
  <2>2. CASE 1 \notin S /\ 2 \in S
    BY <2>2
  <2>3. CASE 1 \notin S /\ 2 \notin S /\ 3 \in S
    BY <2>3
  <2>4. CASE 1 \notin S /\ 2 \notin S /\ 3 \notin S /\ 4 \in S
    BY <2>4
  <2>5. CASE 1 \notin S /\ 2 \notin S /\ 3 \notin S /\ 4 \notin S /\ 5 \in S
    BY <2>5
  <2>6. CASE 1 \notin S /\ 2 \notin S /\ 3 \notin S /\ 4 \notin S /\ 5 \notin S
    <3>1. PICK i \in S : TRUE
      BY Zenon
    <3>2. \A j \in S : j = 6
      BY <2>6
    <3>3. i <= 6 /\ i = 6
      BY <3>1, <3>2
    <3>4. QED
      BY <3>1, <3>2, <3>3
  <2>7. QED
    BY <2>1, <2>2, <2>3, <2>4, <2>5, <2>6
<1>2. QED
  BY <1>1, Zenon DEF Min

\* A list of frameworks that a manifest may claim.
FrameworkList(frameworks) ==
  /\ DOMAIN frameworks \subseteq 1 .. 6
  /\ \A i \in DOMAIN frameworks : frameworks[i][3] \in 0 .. 100

\* The framework that a manifest names is one choice of a list.
LEMMA FrameworksAreLists ==
  ASSUME NEW s
  PROVE  /\ FrameworkList(detect_node_framework(s)) /\ FrameworkList(DotNetFramework(s))
         /\ FrameworkList(PythonFramework(s)) /\ FrameworkList(RustFramework(s))
<1>1. FrameworkList(detect_node_framework(s))
  BY DEF FrameworkList, detect_node_framework
<1>2. FrameworkList(DotNetFramework(s))
  BY DEF FrameworkList, DotNetFramework
<1>3. FrameworkList(PythonFramework(s))
  BY DEF FrameworkList, PythonFramework
<1>4. FrameworkList(RustFramework(s))
  BY DEF FrameworkList, RustFramework
<1>5. QED
  BY <1>1, <1>2, <1>3, <1>4

\* A manifest's language is noted, whatever was claimed before it
\* (apply_manifest_hit).
LEMMA ManifestKeeps ==
  ASSUME NEW s, NEW b, IsBuilder(b), NEW l \in Language,
         NEW frameworks, FrameworkList(frameworks)
  PROVE  /\ IsBuilder(apply_manifest_hit(s, b, l, frameworks))
         /\ Keeps(b, apply_manifest_hit(s, b, l, frameworks))
         /\ HasManifest(s, l) => Noted(apply_manifest_hit(s, b, l, frameworks).language, l)
<1> DEFINE c == apply_manifest_hit(s, b, l, frameworks)
           hit == set_field(b, "manifest", "language", l, 100)
           first == First(frameworks)
<1>1. Keeps(b, hit) /\ Noted(hit.language, l) /\ IsBuilder(hit)
  BY ClaimKeeps
<1>2. CASE ~HasManifest(s, l)
  <2>1. c = b
    BY <1>2 DEF apply_manifest_hit
  <2>2. QED
    BY <1>2, <2>1, KeepsReflexive
<1>3. CASE HasManifest(s, l) /\ Some(frameworks)
  <2>1. c = set_field(hit, "manifest", "framework", first[2], first[3])
    BY <1>3 DEF apply_manifest_hit
  <2>2. first[3] \in 0 .. 100
    <3> DEFINE S == {i \in DOMAIN frameworks : frameworks[i][1]}
    <3>1. S # {} /\ S \subseteq 1 .. 6 /\ S \subseteq DOMAIN frameworks
      BY <1>3 DEF Some, FrameworkList
    <3>2. first = frameworks[Min(S)]
      BY DEF First
    <3> HIDE DEF S, first
    <3>3. Min(S) \in DOMAIN frameworks
      BY <3>1, FirstIsOne, Zenon
    <3>4. QED
      BY <3>2, <3>3, Zenon DEF FrameworkList
  <2> HIDE DEF c, hit, first
  <2>3. Keeps(hit, c) /\ IsBuilder(c)
    BY <1>1, <2>1, <2>2, ClaimKeeps, Zenon
  <2>4. QED
    BY <1>1, <2>3, KeepsTransitive, NotedStays, Zenon DEF c
<1>4. CASE HasManifest(s, l) /\ ~Some(frameworks)
  <2>1. c = hit
    BY <1>4 DEF apply_manifest_hit
  <2>2. QED
    BY <1>1, <2>1
<1>5. QED
  BY <1>2, <1>3, <1>4, Zenon

\* Whatever came first, each manifest's language is noted (detect_manifests).
LEMMA ManifestsKeep ==
  ASSUME NEW s, NEW b, IsBuilder(b)
  PROVE  /\ Keeps(b, detect_manifests(s, b))
         /\ \A l \in Language :
              HasManifest(s, l) => Noted(detect_manifests(s, b).language, l)
<1> DEFINE node == apply_manifest_hit(s, b, "node", detect_node_framework(s))
           dotnet == apply_manifest_hit(s, node, "dotnet", DotNetFramework(s))
           python == apply_manifest_hit(s, dotnet, "python", PythonFramework(s))
           rust == apply_manifest_hit(s, python, "rust", RustFramework(s))
           c == detect_manifests(s, b)
<1>l. "node" \in Language /\ "dotnet" \in Language /\ "python" \in Language /\ "rust" \in Language
  BY DEF Language
<1>5. c = push_facts(rust, "manifest", States(".git" \in s, "git", "present"))
  BY DEF detect_manifests
<1>1. IsBuilder(node) /\ Keeps(b, node) /\ (HasManifest(s, "node") => Noted(node.language, "node"))
  BY <1>l, ManifestKeeps, FrameworksAreLists
<1> HIDE DEF node
<1>2. /\ IsBuilder(dotnet) /\ Keeps(node, dotnet)
      /\ HasManifest(s, "dotnet") => Noted(dotnet.language, "dotnet")
  BY <1>1, <1>l, ManifestKeeps, FrameworksAreLists
<1> HIDE DEF dotnet
<1>3. /\ IsBuilder(python) /\ Keeps(dotnet, python)
      /\ HasManifest(s, "python") => Noted(python.language, "python")
  BY <1>2, <1>l, ManifestKeeps, FrameworksAreLists
<1> HIDE DEF python
<1>4. /\ IsBuilder(rust) /\ Keeps(python, rust)
      /\ HasManifest(s, "rust") => Noted(rust.language, "rust")
  BY <1>3, <1>l, ManifestKeeps, FrameworksAreLists
<1> HIDE DEF rust, c
<1>6. Keeps(rust, c)
  BY <1>4, <1>5, FactsKeep
<1>7. Keeps(python, c) /\ Keeps(dotnet, c) /\ Keeps(node, c)
  <2>1. Keeps(python, c)
    BY <1>4, <1>6, KeepsTransitive
  <2>2. Keeps(dotnet, c)
    BY <1>3, <2>1, KeepsTransitive
  <2>3. QED
    BY <1>2, <2>1, <2>2, KeepsTransitive
<1>8. Keeps(b, c)
  BY <1>1, <1>7, KeepsTransitive
<1>9. ASSUME NEW l \in Language, HasManifest(s, l) PROVE Noted(c.language, l)
  <2>1. CASE l = "node"
    BY <2>1, <1>9, <1>1, <1>7, NotedStays
  <2>2. CASE l = "dotnet"
    BY <2>2, <1>9, <1>2, <1>7, NotedStays
  <2>3. CASE l = "python"
    BY <2>3, <1>9, <1>3, <1>7, NotedStays
  <2>4. CASE l = "rust"
    BY <2>4, <1>9, <1>4, <1>6, NotedStays
  <2>5. QED
    BY <2>1, <2>2, <2>3, <2>4 DEF Language
<1>10. QED
  BY <1>8, <1>9 DEF c

\* The container file takes nothing back.
LEMMA DockerKeeps ==
  ASSUME NEW s, NEW b, IsBuilder(b)
  PROVE  Keeps(b, detect_docker(s, b))
<1> DEFINE with == [b EXCEPT !.container = TRUE]
           present == push_evidence(with, "dockerfile")
           c == detect_docker(s, b)
<1>1. CASE "Dockerfile" \notin s
  <2>1. c = b
    BY <1>1 DEF detect_docker
  <2>2. QED
    BY <2>1, KeepsReflexive
<1>2. CASE "Dockerfile" \in s
  <2>1. c = IF Some(Bases(s))
            THEN set_field(present, "dockerfile", "language", First(Bases(s))[2], 90)
            ELSE [present EXCEPT !.unknowns = @ \cup {"docker_base_language"}]
    BY <1>2 DEF detect_docker
  <2>2. IsBuilder(with) /\ with.language = b.language
    BY DEF IsBuilder
  <2> HIDE DEF c, with
  <2>3. IsBuilder(present) /\ present.language = b.language
    BY <2>2, EvidenceKeeps
  <2> HIDE DEF present
  <2>4. Keeps(present, c)
    <3>1. CASE Some(Bases(s))
      BY <3>1, <2>1, <2>3, ClaimKeeps
    <3>2. CASE ~Some(Bases(s))
      <4>1. c = [present EXCEPT !.unknowns = @ \cup {"docker_base_language"}]
        BY <3>2, <2>1
      <4>2. IsBuilder(c) /\ c.language = present.language
        BY <4>1, <2>3 DEF IsBuilder
      <4>3. QED
        BY <4>2 DEF Keeps, Grown
    <3>3. QED
      BY <3>1, <3>2
  <2>5. QED
    BY <2>3, <2>4 DEF Keeps, c
<1>3. QED
  BY <1>1, <1>2

\* A hint at a framework takes nothing back.
LEMMA HintKeeps ==
  ASSUME NEW b, IsBuilder(b), NEW st, NEW value, NEW confidence \in 0 .. 100
  PROVE  /\ IsBuilder(Hint(b, st, "framework", value, confidence))
         /\ Keeps(b, Hint(b, st, "framework", value, confidence))
<1>1. /\ IsBuilder(set_field(b, st, "framework", value, confidence))
      /\ Keeps(b, set_field(b, st, "framework", value, confidence))
  BY ClaimKeeps, Zenon
<1>2. IsBuilder(push_evidence(b, st)) /\ Keeps(b, push_evidence(b, st))
  BY EvidenceKeeps DEF Keeps, Grown
<1>3. QED
  BY <1>1, <1>2 DEF Hint

\* The conventions of the frameworks take nothing back.
LEMMA ConventionsKeep ==
  ASSUME NEW s, NEW b, IsBuilder(b)
  PROVE  Keeps(b, detect_framework_conventions(s, b))
<1> DEFINE Corroborate(c, v) ==
             IF v[1] \in s THEN Hint(c, "framework_convention", "framework", v[2], v[3])
             ELSE c
           next == Corroborate(b, Conventions[1])
           django == Corroborate(next, Conventions[2])
           aspnet == Corroborate(django, Conventions[3])
           fastapi == Corroborate(aspnet, Conventions[4])
<1>1. ASSUME NEW c, IsBuilder(c), NEW i \in 1 .. 4
      PROVE  IsBuilder(Corroborate(c, Conventions[i])) /\ Keeps(c, Corroborate(c, Conventions[i]))
  <2>1. Conventions[i][3] \in 0 .. 100
    BY DEF Conventions
  <2>2. QED
    BY <1>1, <2>1, HintKeeps, KeepsReflexive, Zenon
<1>2. detect_framework_conventions(s, b) = fastapi
  BY Zenon DEF detect_framework_conventions
<1> HIDE DEF Corroborate
<1>3. IsBuilder(next) /\ Keeps(b, next)
  BY <1>1
<1> HIDE DEF next
<1>4. IsBuilder(django) /\ Keeps(next, django)
  BY <1>1, <1>3
<1> HIDE DEF django
<1>5. IsBuilder(aspnet) /\ Keeps(django, aspnet)
  BY <1>1, <1>4
<1> HIDE DEF aspnet
<1>6. Keeps(aspnet, fastapi)
  BY <1>1, <1>5
<1> HIDE DEF fastapi
<1>7. Keeps(b, django) /\ Keeps(django, fastapi)
  BY <1>3, <1>4, <1>5, <1>6, KeepsTransitive, Zenon
<1>8. QED
  BY <1>2, <1>7, KeepsTransitive

\* A claim made on a condition takes nothing back.
LEMMA ClaimsKeep ==
  ASSUME NEW b, IsBuilder(b), NEW condition, NEW value, NEW confidence \in 0 .. 100
  PROVE  /\ IsBuilder(Claims(b, condition, value, confidence))
         /\ Keeps(b, Claims(b, condition, value, confidence))
<1>1. CASE condition
  <2>1. Claims(b, condition, value, confidence) =
          set_field(b, "framework_convention", "framework", value, confidence)
    BY <1>1, Zenon DEF Claims
  <2>2. QED
    BY <2>1, ClaimKeeps, Zenon
<1>2. CASE ~condition
  <2>1. Claims(b, condition, value, confidence) = b
    BY <1>2, Zenon DEF Claims
  <2>2. QED
    BY <2>1, KeepsReflexive, Zenon
<1>3. QED
  BY <1>1, <1>2

\* The deeper conventions take nothing back.
LEMMA DeepConventionsKeep ==
  ASSUME NEW s, NEW b, IsBuilder(b)
  PROVE  Keeps(b, detect_deep_framework_conventions(s, b))
<1> DEFINE settings == Claims(b, Settings(s), "django", 85)
           project == Settings(s) /\ {"manage.py", "migrations/"} \subseteq s
           serves == {"src/main.rs", "use axum"} \subseteq s
           mobile == {"app/", "app.json"} \subseteq s
           django == Claims(settings, project, "django", 95)
           fastapi == Claims(django, FastApiEntry(s), "fastapi", 85)
           axum == Claims(fastapi, serves, "axum", 85)
           expo == Claims(axum, mobile, "expo", 85)
           c == detect_deep_framework_conventions(s, b)
<1>1. c = push_facts(expo, "framework_convention", Tooling(s))
  BY Zenon DEF detect_deep_framework_conventions
<1>2. IsBuilder(settings) /\ Keeps(b, settings)
  BY ClaimsKeep
<1> HIDE DEF settings, project, serves, mobile, c
<1>3. IsBuilder(django) /\ Keeps(settings, django)
  BY <1>2, ClaimsKeep
<1> HIDE DEF django
<1>4. IsBuilder(fastapi) /\ Keeps(django, fastapi)
  BY <1>3, ClaimsKeep
<1> HIDE DEF fastapi
<1>5. IsBuilder(axum) /\ Keeps(fastapi, axum)
  BY <1>4, ClaimsKeep
<1> HIDE DEF axum
<1>6. IsBuilder(expo) /\ Keeps(axum, expo)
  BY <1>5, ClaimsKeep
<1> HIDE DEF expo
<1>7. Keeps(expo, c)
  BY <1>1, <1>6, FactsKeep, Zenon
<1>8. Keeps(b, django) /\ Keeps(django, axum) /\ Keeps(axum, c)
  BY <1>2, <1>3, <1>4, <1>5, <1>6, <1>7, KeepsTransitive
<1>9. Keeps(b, axum)
  BY <1>8, KeepsTransitive, Zenon
<1>10. QED
  BY <1>8, <1>9, KeepsTransitive, Zenon DEF c

\* The guess from source files only adds candidates, and only where no
\* language is known.
LEMMA FallbackKeeps ==
  ASSUME NEW s, NEW b, IsBuilder(b)
  PROVE  Keeps(b, detect_source_fallback(s, b))
<1> DEFINE c == detect_source_fallback(s, b)
           weak == [b.language EXCEPT !.candidates = @ \cup Hints(s)]
           d == [b EXCEPT !.language = weak]
           stages == IF Hints(s) = {} THEN {} ELSE {"source"}
<1>1. CASE b.language.value # None
  BY <1>1, KeepsReflexive DEF detect_source_fallback
<1>2. CASE b.language.value = None
  <2>1. c = [d EXCEPT !.evidence = b.evidence \cup stages]
    BY <1>2 DEF detect_source_fallback
  <2>2. IsField(weak)
    BY Zenon DEF IsBuilder, IsField
  <2> HIDE DEF weak, c, stages
  <2>3. IsBuilder(d)
    BY <2>2 DEF IsBuilder
  <2> HIDE DEF d
  <2>4. IsBuilder(c)
    BY <2>1, <2>3 DEF IsBuilder
  <2>5. QED
    BY <1>2, <2>4 DEF Keeps, Grown, c
<1>3. QED
  BY <1>1, <1>2

\* Every stage of the inspection (Inspector::inspect).
LEMMA DetectKeeps ==
  ASSUME NEW s, NEW b, IsBuilder(b), NEW n \in 1 .. 8
  PROVE  Keeps(b, Detect(n, s, b))
<1>1. Keeps(b, detect_compose(s, b))
  BY FactsKeep, Zenon DEF detect_compose
<1>2. Keeps(b, detect_configuration(s, b))
  BY FactsKeep, Zenon DEF detect_configuration
<1>3. Keeps(b, detect_ci(s, b))
  BY FactsKeep DEF detect_ci
<1>4. Keeps(b, detect_docker(s, b)) /\ Keeps(b, detect_manifests(s, b))
  BY DockerKeeps, ManifestsKeep
<1>5. /\ Keeps(b, detect_framework_conventions(s, b))
      /\ Keeps(b, detect_deep_framework_conventions(s, b))
      /\ Keeps(b, detect_source_fallback(s, b))
  BY ConventionsKeep, DeepConventionsKeep, FallbackKeeps, Zenon
<1>6. QED
  BY <1>1, <1>2, <1>3, <1>4, <1>5 DEF Detect

-----------------------------------------------------------------------------
(* The inspection. *)

\* The language a native runtime is of.
LanguageOf(kind) == IF kind = "expo" THEN "node" ELSE kind

InspectionInv ==
  /\ stage \in 0 .. Detectors + 2
  /\ IsBuilder(builder)
  /\ stage \in 3 .. Detectors =>
       \A l \in Language : HasManifest(snapshot, l) => Noted(builder.language, l)
  /\ stage > Detectors =>
       \A l \in Language : HasManifest(snapshot, l) => builder.language.value \in {l, None}
  /\ Done => runtime = detect_runtime(snapshot)

\* A conflict makes a field unknown, and nothing gives it another value
\* (finish_deterministic).
LEMMA FinishSettles ==
  ASSUME NEW b, IsBuilder(b)
  PROVE  /\ IsBuilder(finish_deterministic(b))
         /\ finish_deterministic(b).language.value =
              IF Disputed(b.language) THEN None ELSE b.language.value
<1> DEFINE Settled(f) == IF Disputed(f) THEN [f EXCEPT !.value = None] ELSE f
           unknowns == b.unknowns \cup {field \in {"language", "framework"} : Disputed(b[field])}
           language == Settled(b.language)
           framework == Settled(b.framework)
           c == finish_deterministic(b)
<1>1. c = [b EXCEPT !.unknowns = unknowns, !.language = language, !.framework = framework]
  BY DEF finish_deterministic
<1>2. ASSUME NEW f, IsField(f)
      PROVE  /\ IsField(Settled(f))
             /\ Settled(f).value = IF Disputed(f) THEN None ELSE f.value
  BY <1>2 DEF IsField
<1> HIDE DEF Settled
<1>3. IsField(language) /\ IsField(framework)
  BY <1>2, Zenon DEF IsBuilder
<1>4. language.value = IF Disputed(b.language) THEN None ELSE b.language.value
  BY <1>2, Zenon DEF IsBuilder
<1> HIDE DEF unknowns, language, framework, c
<1>5. IsBuilder(c) /\ c.language = language
  BY <1>1, <1>3, Zenon DEF IsBuilder
<1>6. QED
  BY <1>4, <1>5 DEF c

\* A noted language is the value of the field, or disputes it: no claim is
\* surer than a manifest's (finish_deterministic).
LEMMA NotedSettles ==
  ASSUME NEW f, IsField(f), NEW l, Noted(f, l)
  PROVE  f.value = l \/ Disputed(f)
<1>1. CASE f.value = l
  BY <1>1
<1>2. CASE f.value # l
  <2>1. f.value # None /\ <<l, 100>> \in f.candidates
    BY <1>2 DEF Noted
  <2>2. <<l, 100>>[1] # f.value /\ <<l, 100>>[2] >= f.confidence
    BY <1>2 DEF IsField
  <2>3. QED
    BY <2>1, <2>2, Zenon DEF Disputed
<1>3. QED
  BY <1>1, <1>2

\* What is left of a builder's fields.
Loses(b, c) ==
  /\ IsBuilder(c)
  /\ \A field \in {"language", "framework"} : c[field].value \in {b[field].value, None}

\* A finding leaves a field its value or takes it (apply_plugin).
LEMMA PluginLoses ==
  ASSUME NEW b, IsBuilder(b), NEW f
  PROVE  Loses(b, apply_plugin(b, f))
<1>s. ASSUME NEW c, IsBuilder(c), c.language = b.language, c.framework = b.framework
      PROVE  Loses(b, c)
  BY <1>s, Zenon DEF Loses
<1>1. ASSUME NEW st, NEW name, NEW value
      PROVE  Loses(b, push_fact(b, st, name, value)) /\ Loses(b, push_evidence(b, st))
  BY <1>s, FactsKeep, EvidenceKeeps DEF push_fact
<1>2. CASE f.field \notin {"language", "framework"}
  BY <1>1, <1>2 DEF apply_plugin
<1>3. CASE f.field \in {"language", "framework"}
  <2> DEFINE current == b[f.field]
             rival == [current EXCEPT !.candidates = @ \cup {<<f.value, f.confidence>>}]
             unknown == [current EXCEPT !.value = None]
  <2>c. IsField(current)
    BY <1>3 DEF IsBuilder
  <2>1. CASE current.value = None
    <3> DEFINE d == [b EXCEPT ![f.field] = rival]
    <3>1. apply_plugin(b, f) = push_evidence(d, "plugin")
      BY <1>3, <2>1 DEF apply_plugin
    <3>2. IsField(rival) /\ rival.value = current.value
      BY <2>c, Zenon DEF IsField
    <3> HIDE DEF rival
    <3>3. /\ IsBuilder(d)
          /\ f.field = "language" => d.language = rival /\ d.framework = b.framework
          /\ f.field = "framework" => d.framework = rival /\ d.language = b.language
      BY <1>3, <3>2, FieldReplaced
    <3> HIDE DEF d
    <3>4. QED
      BY <1>3, <3>1, <3>2, <3>3, EvidenceKeeps DEF Loses
  <2>2. CASE current.value # None /\ current.value = f.value
    BY <1>1, <1>3, <2>2 DEF apply_plugin
  <2>3. CASE current.value # None /\ current.value # f.value /\ f.confidence >= current.confidence
    <3> DEFINE e == [b EXCEPT !.unknowns = @ \cup {f.field}]
               d == [e EXCEPT ![f.field] = unknown]
    <3>1. apply_plugin(b, f) = push_evidence(d, "plugin")
      BY <1>3, <2>3, Zenon DEF apply_plugin
    <3>2. IsField(unknown) /\ unknown.value = None
      BY <2>c, Zenon DEF IsField
    <3>3. IsBuilder(e) /\ e.language = b.language /\ e.framework = b.framework
      BY DEF IsBuilder
    <3> HIDE DEF unknown, e
    <3>4. /\ IsBuilder(d)
          /\ f.field = "language" => d.language = unknown /\ d.framework = b.framework
          /\ f.field = "framework" => d.framework = unknown /\ d.language = b.language
      BY <1>3, <3>2, <3>3, FieldReplaced
    <3> HIDE DEF d
    <3>5. QED
      BY <1>3, <3>1, <3>2, <3>4, EvidenceKeeps DEF Loses
  <2>4. CASE /\ current.value # None /\ current.value # f.value
             /\ ~(f.confidence >= current.confidence)
    BY <1>1, <1>3, <2>4, Zenon DEF apply_plugin
  <2>5. QED
    BY <2>1, <2>2, <2>3, <2>4, Zenon
<1>4. QED
  BY <1>2, <1>3, Zenon

\* build() leaves language and framework as they are.
LEMMA BuildLoses ==
  ASSUME NEW b, IsBuilder(b)
  PROVE  Loses(b, build(b))
<1>1. /\ IsBuilder(build(b))
      /\ build(b).language = b.language /\ build(b).framework = b.framework
  BY DEF build, IsBuilder
<1>2. QED
  BY <1>1 DEF Loses

\* A native runtime is detected only beside a manifest of its language, as a
\* manifest at the root is a manifest (detect_runtime, the adapters' detect).
LEMMA RuntimeHasManifest ==
  ASSUME NEW s, detect_runtime(s).kind \notin {None, "generic"}
  PROVE  /\ LanguageOf(detect_runtime(s).kind) \in Language
         /\ HasManifest(s, LanguageOf(detect_runtime(s).kind))
<1> DEFINE adapters == <<detect_expo(s), detect_node(s), detect_dotnet(s),
                         detect_python(s), detect_rust(s), detect_generic(s)>>
           found == {i \in DOMAIN adapters : adapters[i] # {}}
           d == detect_runtime(s)
<1>1. d = IF found = {} THEN Unsupported ELSE CHOOSE e \in adapters[Min(found)] : TRUE
  BY Zenon DEF detect_runtime
<1>2. DOMAIN adapters = 1 .. 6 /\ found \subseteq 1 .. 6
  OBVIOUS
<1>3. found # {}
  BY <1>1 DEF Unsupported, Detected
<1>4. Min(found) \in 1 .. 6 /\ adapters[Min(found)] # {}
  <2> HIDE DEF adapters
  <2>1. Min(found) \in found
    <3> HIDE DEF found
    <3>1. QED
      BY <1>2, <1>3, FirstIsOne, Zenon
  <2>2. QED
    BY <1>2, <2>1, Zenon
<1>5. d \in adapters[Min(found)]
  BY <1>1, <1>3, <1>4, Zenon
<1> HIDE DEF d, found
<1>6. \/ d \in detect_expo(s) \/ d \in detect_node(s) \/ d \in detect_dotnet(s)
      \/ d \in detect_python(s) \/ d \in detect_rust(s) \/ d \in detect_generic(s)
  BY <1>4, <1>5
<1>7. ASSUME d \in detect_expo(s) \/ d \in detect_node(s)
      PROVE  LanguageOf(d.kind) = "node" /\ HasManifest(s, "node")
  <2>1. d.kind \in {"expo", "node"} /\ "package.json" \in s
    BY <1>7 DEF detect_expo, detect_node, Detected
  <2>2. QED
    BY <2>1, Zenon DEF LanguageOf, HasManifest, Manifests
<1>8. ASSUME d \in detect_dotnet(s)
      PROVE  LanguageOf(d.kind) = "dotnet" /\ HasManifest(s, "dotnet")
  <2>1. d.kind = "dotnet" /\ ("app.csproj" \in s \/ "app.sln" \in s)
    BY <1>8 DEF detect_dotnet, Detected
  <2>2. QED
    BY <2>1, Zenon DEF LanguageOf, HasManifest, Manifests
<1>9. ASSUME d \in detect_python(s)
      PROVE  LanguageOf(d.kind) = "python" /\ HasManifest(s, "python")
  <2>1. d.kind = "python" /\ "requirements.txt" \in s
    BY <1>9 DEF detect_python, Detected
  <2>2. QED
    BY <2>1, Zenon DEF LanguageOf, HasManifest, Manifests
<1>10. ASSUME d \in detect_rust(s)
       PROVE  LanguageOf(d.kind) = "rust" /\ HasManifest(s, "rust")
  <2>1. d.kind = "rust" /\ "Cargo.toml" \in s
    BY <1>10 DEF detect_rust, Detected
  <2>2. QED
    BY <2>1 DEF LanguageOf, HasManifest, Manifests
<1>11. d \notin detect_generic(s)
  BY DEF detect_generic, Detected, d
<1>12. QED
  BY <1>6, <1>7, <1>8, <1>9, <1>10, <1>11 DEF Language, d

\* Every step of an inspection preserves the invariant.
LEMMA InspectionStep == InspectionInv /\ [InspectionNext]_inspection => InspectionInv'
<1> SUFFICES ASSUME InspectionInv, [InspectionNext]_inspection PROVE InspectionInv'
  OBVIOUS
<1>1. CASE RunDetector
  <2>1. /\ stage \in 0 .. 7 /\ stage' = stage + 1 /\ snapshot' = snapshot
        /\ builder' = Detect(stage', snapshot, builder) /\ IsBuilder(builder)
    BY <1>1 DEF RunDetector, InspectionInv, Detectors
  <2>2. stage' \in 1 .. 8 /\ Keeps(builder, builder')
    BY <2>1, DetectKeeps
  <2>3. stage' \in 3 .. 8 =>
          \A l \in Language : HasManifest(snapshot, l) => Noted(builder'.language, l)
    <3>1. CASE stage' = 3
      <4>1. builder' = detect_manifests(snapshot, builder)
        BY <2>1, <3>1 DEF Detect
      <4>2. QED
        BY <2>1, <4>1, ManifestsKeep
    <3>2. CASE stage' \in 4 .. 8
      <4>1. stage \in 3 .. 8
        BY <2>1, <3>2
      <4>2. \A l \in Language : HasManifest(snapshot, l) => Noted(builder.language, l)
        BY <4>1 DEF InspectionInv, Detectors
      <4>3. QED
        BY <2>2, <4>2, NotedStays, Zenon
    <3>3. QED
      BY <3>1, <3>2, <2>2
  <2>4. QED
    BY <2>1, <2>2, <2>3 DEF InspectionInv, Detectors, Done, Keeps
<1>2. CASE Finish
  <2>1. /\ stage = 8 /\ stage' = 9 /\ snapshot' = snapshot
        /\ builder' = finish_deterministic(builder) /\ IsBuilder(builder)
    BY <1>2 DEF Finish, InspectionInv, Detectors
  <2>2. \A l \in Language : HasManifest(snapshot, l) => Noted(builder.language, l)
    BY <2>1 DEF InspectionInv, Detectors
  <2>3. IsField(builder.language)
    BY <2>1 DEF IsBuilder
  <2>4. \A l \in Language : HasManifest(snapshot, l) => builder'.language.value \in {l, None}
    BY <2>1, <2>2, <2>3, FinishSettles, NotedSettles
  <2>5. IsBuilder(builder')
    BY <2>1, FinishSettles
  <2>6. QED
    BY <2>1, <2>4, <2>5 DEF InspectionInv, Detectors, Done
<1>3. ASSUME stage = 9, stage' \in {9, 10}, snapshot' = snapshot, Loses(builder, builder'),
             stage' = 10 => runtime' = detect_runtime(snapshot)
      PROVE  InspectionInv'
  <2>1. builder'.language.value \in {builder.language.value, None} /\ IsBuilder(builder')
    BY <1>3, Zenon DEF Loses
  <2>2. \A l \in Language : HasManifest(snapshot, l) => builder.language.value \in {l, None}
    BY <1>3 DEF InspectionInv, Detectors
  <2>3. QED
    BY <1>3, <2>1, <2>2 DEF InspectionInv, Detectors, Done
<1>4. CASE Hear
  <2>1. PICK f : builder' = apply_plugin(builder, f)
    BY <1>4 DEF Hear
  <2>2. Loses(builder, builder')
    BY <2>1, PluginLoses DEF InspectionInv
  <2>3. QED
    BY <1>3, <1>4, <2>2 DEF Hear, Detectors
<1>5. CASE Conclude
  <2>1. Loses(builder, builder')
    BY <1>5, BuildLoses, Zenon DEF Conclude, InspectionInv
  <2>2. QED
    BY <1>3, <1>5, <2>1 DEF Conclude, Detectors
<1>6. CASE Prepare
  BY <1>6 DEF Prepare, InspectionInv, Done
<1>7. CASE UNCHANGED inspection
  BY <1>7, Zenon DEF inspection, InspectionInv, Done
<1>8. QED
  BY <1>1, <1>2, <1>4, <1>5, <1>6, <1>7 DEF InspectionNext

\* The inductive invariant of the inspection, for every project.
THEOREM InspectionInvariant ==
  InspectionInit /\ [][InspectionNext]_inspection => []InspectionInv
<1>1. InspectionInit => InspectionInv
  BY DEF InspectionInit, InspectionInv, ProfileBuilder, FieldState, IsBuilder, IsField,
     Detectors, Done
<1>2. QED
  BY <1>1, InspectionStep, PTL

\* Where the adapters detect a native runtime, the profile names its language
\* or none, for every project and all findings (inspect, detect_runtime).
THEOREM RuntimesMatchLanguages ==
  InspectionInit /\ [][InspectionNext]_inspection => []RuntimeMatchesLanguage
<1>1. InspectionInv => RuntimeMatchesLanguage
  <2> SUFFICES ASSUME InspectionInv, Done, runtime.kind \notin {None, "generic"}
               PROVE  builder.language.value \in {None, LanguageOf(runtime.kind)}
    BY DEF RuntimeMatchesLanguage, LanguageOf
  <2>1. /\ runtime = detect_runtime(snapshot)
        /\ \A l \in Language : HasManifest(snapshot, l) => builder.language.value \in {l, None}
    BY DEF InspectionInv, Done, Detectors
  <2>2. QED
    BY <2>1, RuntimeHasManifest
<1>2. QED
  BY <1>1, InspectionInvariant, PTL

\* After the deterministic stages no finding gives a field a value: it keeps
\* the one it has or becomes unknown (apply_plugin, build).
THEOREM PluginsDecideNothing ==
  InspectionInit /\ [][InspectionNext]_inspection => PluginsNeverDecide
<1>1. InspectionInv /\ [InspectionNext]_inspection =>
        [stage > Detectors =>
           \A field \in {"language", "framework"} :
             builder'[field].value \in {builder[field].value, None}]_inspection
  <2> SUFFICES ASSUME InspectionInv, [InspectionNext]_inspection, stage > Detectors,
                      NEW field \in {"language", "framework"}
               PROVE  builder'[field].value \in {builder[field].value, None}
    BY Zenon
  <2>1. CASE Hear \/ Conclude
    <3>1. Loses(builder, builder')
      BY <2>1, PluginLoses, BuildLoses, Zenon DEF Hear, Conclude, InspectionInv
    <3>2. QED
      BY <3>1 DEF Loses
  <2>2. CASE Prepare \/ UNCHANGED inspection
    BY <2>2, Zenon DEF Prepare, inspection
  <2>3. ~RunDetector /\ ~Finish
    BY DEF RunDetector, Finish, Detectors, InspectionInv
  <2>4. QED
    BY <2>1, <2>2, <2>3, Zenon DEF InspectionNext
<1>2. QED
  BY <1>1, InspectionInvariant, PTL DEF PluginsNeverDecide
=============================================================================
