--------------------------- MODULE DataFlowProofs ---------------------------
(* Theorems about DataFlow and StepHandlers, for every set of definitions,  *)
(* every body of the trigger and every configuration of the worker.         *)
EXTENDS DataFlow, TLAPS, SequenceTheorems

(* The calls that a run's overrides and its switch for destination writes   *)
(* leave to it, and the outcomes that make no other.                        *)
Spared(e, c) ==
    \/ e.over[c] \in {"enabled", "null"}
    \/ c \in {"http.svg_fetch", "r2.put_object"}
    \/ c = "claude.ai_select_relation" /\ e.over[c] = "plain"

May(e) == {c \in Calls : /\ c \in DestinationWrites => e.writes
                         /\ c \in CallSites => Spared(e, c)}

OutcomeMay(e) == [out : Values, ended : {"ok", "failed"}, did : SUBSET May(e)]

LEMMA GivesMay ==
    ASSUME NEW e, NEW V \in SUBSET Values
    PROVE  Gives(V) \subseteq OutcomeMay(e)
BY DEF Gives, OutcomeMay

LEMMA FailsMay == \A e : Fails \subseteq OutcomeMay(e)
BY DEF Fails, OutcomeMay, Values

LEMMA AfterMay ==
    ASSUME NEW e, NEW O \in SUBSET OutcomeMay(e), NEW c \in May(e)
    PROVE  After(c, O) \subseteq OutcomeMay(e)
BY DEF After, OutcomeMay

LEMMA OverrideMay ==
    ASSUME NEW e, NEW site \in CallSites, NEW plain \in SUBSET OutcomeMay(e),
           NEW dict \in SUBSET OutcomeMay(e), NEW real, e.over[site] \in Responses,
           e.over[site] \in {"enabled", "null"} => real \subseteq OutcomeMay(e)
    PROVE  Override(e, site, plain, dict, real) \subseteq OutcomeMay(e)
BY FailsMay DEF Override, Responses

LEMMA FreeCalls ==
    ASSUME NEW e
    PROVE  {"google.photo", "http.image", "notion.query", "icons.search",
            "icons.record_miss", "http.svg_fetch"} \subseteq May(e)
BY DEF May, Calls, Unlisted, CallSites, DestinationWrites, Spared

LEMMA SiteCalls ==
    ASSUME NEW e, NEW c \in CallSites, Spared(e, c), c \in DestinationWrites => e.writes
    PROVE  c \in May(e)
BY DEF May, Calls

LEMMA WriteCalls ==
    ASSUME NEW e, e.writes
    PROVE  {"property", "notion.page", "r2.put_object"} \subseteq May(e)
BY DEF May, Calls, Unlisted, CallSites, Spared

LEMMA StringTyped == \A v \in Values : String(v) \in Values
BY DEF String, Values

LEMMA WithinTyped == \A v : Within(v) \subseteq Values
BY DEF Within, Values

(* A handler that goes through its call site makes the call of that site    *)
(* only, and only if the editor lets it.                                    *)
LEMMA SiteMay ==
    ASSUME NEW e, NEW site \in CallSites \ DestinationWrites, NEW V \in SUBSET Values,
           NEW W \in SUBSET Values, e.over[site] \in Responses,
           e.over[site] \in {"enabled", "null"}
    PROVE  /\ After(site, Gives(V) \cup Fails) \subseteq OutcomeMay(e)
           /\ After(site, Gives(V)) \subseteq OutcomeMay(e)
           /\ After(site, Gives(V) \cup Gives(W) \cup Fails) \subseteq OutcomeMay(e)
<1>1. site \in May(e)
    BY DEF May, Calls, Spared
<1>2. /\ Gives(V) \cup Fails \subseteq OutcomeMay(e)
      /\ Gives(V) \subseteq OutcomeMay(e)
      /\ Gives(V) \cup Gives(W) \cup Fails \subseteq OutcomeMay(e)
    BY GivesMay, FailsMay
<1>3. \A O \in SUBSET OutcomeMay(e) : After(site, O) \subseteq OutcomeMay(e)
    BY <1>1, AfterMay
<1> QED BY <1>2, <1>3

LEMMA OptimizeInputMay ==
    ASSUME NEW e, e.over \in [CallSites -> Responses], NEW v \in Values
    PROVE  OptimizeInput(v, e) \subseteq OutcomeMay(e)
<1> DEFINE site == "claude.optimize_input"
<1>1. site \in CallSites \ DestinationWrites /\ e.over[site] \in Responses
    BY DEF CallSites, DestinationWrites
<1>2. {"text", "blank"} \subseteq Values /\ {"blank"} \subseteq Values
      /\ {String(v)} \subseteq Values /\ {"text", String(v)} \subseteq Values
    BY StringTyped DEF Values
<1>3. /\ Gives({"text", "blank"}) \subseteq OutcomeMay(e)
      /\ Gives({"blank"}) \subseteq OutcomeMay(e) /\ Gives({String(v)}) \subseteq OutcomeMay(e)
    BY <1>2, GivesMay
<1>4. e.over[site] \in {"enabled", "null"} => Rewrite(v) \subseteq OutcomeMay(e)
    BY <1>1, <1>2, SiteMay DEF Rewrite
<1> QED BY <1>1, <1>3, <1>4, OverrideMay DEF OptimizeInput

LEMMA GooglePlacesLookupMay ==
    ASSUME NEW e, e.over \in [CallSites -> Responses], NEW v \in Values
    PROVE  GooglePlacesLookup(v, e) \subseteq OutcomeMay(e)
<1> DEFINE site == "google_places.lookup"
<1>1. site \in CallSites \ DestinationWrites /\ e.over[site] \in Responses
    BY DEF CallSites, DestinationWrites
<1>2. {"data", "null"} \subseteq Values /\ {"null"} \subseteq Values /\ {"data"} \subseteq Values
    BY DEF Values
<1>3. Gives({"data", "null"}) \subseteq OutcomeMay(e) /\ Gives({"null"}) \subseteq OutcomeMay(e)
    BY <1>2, GivesMay
<1>4. e.over[site] \in {"enabled", "null"} => SearchPlaces \subseteq OutcomeMay(e)
    BY <1>1, <1>2, SiteMay DEF SearchPlaces, PlaceDetails
<1> QED BY <1>1, <1>3, <1>4, OverrideMay DEF GooglePlacesLookup

LEMMA AiConstrainValuesMay ==
    ASSUME NEW e, e.over \in [CallSites -> Responses], NEW s
    PROVE  AiConstrainValues(s, e) \subseteq OutcomeMay(e)
<1> DEFINE site == "claude.ai_constrain_values"
<1>1. site \in CallSites \ DestinationWrites /\ e.over[site] \in Responses
    BY DEF CallSites, DestinationWrites
<1>2. {"data"} \subseteq Values
    BY DEF Values
<1>3. Gives({"data"}) \subseteq OutcomeMay(e)
    BY <1>2, GivesMay
<1>4. e.over[site] \in {"enabled", "null"} => MultiSelect \subseteq OutcomeMay(e)
    BY <1>1, <1>2, SiteMay DEF MultiSelect
<1> QED BY <1>1, <1>3, <1>4, FailsMay, OverrideMay DEF AiConstrainValues

LEMMA AiPromptMay ==
    ASSUME NEW e, e.over \in [CallSites -> Responses], NEW s
    PROVE  AiPrompt(s, e) \subseteq OutcomeMay(e)
<1> DEFINE site == "claude.ai_prompt"
<1>1. site \in CallSites \ DestinationWrites /\ e.over[site] \in Responses
    BY DEF CallSites, DestinationWrites
<1>2. {"text", "blank"} \subseteq Values /\ {"blank"} \subseteq Values
    BY DEF Values
<1>3. Gives({"text", "blank"}) \subseteq OutcomeMay(e) /\ Gives({"blank"}) \subseteq OutcomeMay(e)
    BY <1>2, GivesMay
<1>4. e.over[site] \in {"enabled", "null"} => Completion \subseteq OutcomeMay(e)
    BY <1>1, <1>2, SiteMay DEF Completion
<1> QED BY <1>1, <1>3, <1>4, OverrideMay DEF AiPrompt

(* A response that is no dict is dropped, so the call may be made for it.   *)
LEMMA AiSelectRelationMay ==
    ASSUME NEW e, e.over \in [CallSites -> Responses], NEW s
    PROVE  AiSelectRelation(s, e) \subseteq OutcomeMay(e)
<1> DEFINE site == "claude.ai_select_relation"
           then == IF "claude" \in e.services THEN BestRelation ELSE {}
           real == IF ~s.ready \/ "notion" \notin e.services THEN Gives({"null"})
                   ELSE QueryNotion(then)
<1>1. site \in CallSites /\ site \notin DestinationWrites /\ e.over[site] \in Responses
    BY DEF CallSites, DestinationWrites
<1>2. Gives({"data", "null"}) \subseteq OutcomeMay(e) /\ Gives({"null"}) \subseteq OutcomeMay(e)
    BY GivesMay DEF Values
<1>3. ASSUME e.over[site] \in {"enabled", "null", "plain"}
      PROVE  real \subseteq OutcomeMay(e)
    <2>1. site \in May(e)
        BY <1>1, <1>3, SiteCalls DEF Spared
    <2>2. BestRelation \subseteq OutcomeMay(e)
        BY <2>1, <1>2, AfterMay DEF BestRelation
    <2>3. "notion.query" \in May(e) /\ Gives({"null"}) \cup then \subseteq OutcomeMay(e)
        BY <2>2, <1>2, FreeCalls
    <2>4. QueryNotion(then) \subseteq OutcomeMay(e)
        BY <2>3, AfterMay DEF QueryNotion
    <2> QED BY <2>4, <1>2
<1> HIDE DEF real
<1>4. Override(e, site, real, Gives({"data", "null"}), real) \subseteq OutcomeMay(e)
    BY <1>1, <1>2, <1>3, FailsMay DEF Override, Responses
<1> QED BY <1>4 DEF AiSelectRelation, real

LEMMA PropertySetMay ==
    ASSUME NEW e, NEW s, NEW v
    PROVE  PropertySet(s, v, e) \subseteq OutcomeMay(e)
<1>1. Gives({"null"}) \subseteq OutcomeMay(e)
    BY GivesMay DEF Values
<1>2. e.writes => After("property", Gives({"null"})) \subseteq OutcomeMay(e)
    BY <1>1, WriteCalls, AfterMay
<1> QED BY <1>1, <1>2, FailsMay DEF PropertySet

LEMMA DataTransformMay ==
    ASSUME NEW e, NEW s, s.fallback \in Values, NEW v \in Values
    PROVE  DataTransform(s, v) \subseteq OutcomeMay(e)
<1>1. {IF x = "null" THEN s.fallback ELSE x : x \in Within(v) \cup {v}} \subseteq Values
    BY WithinTyped
<1> QED BY <1>1, GivesMay DEF DataTransform

LEMMA SearchIconsMay ==
    ASSUME NEW e, e.over \in [CallSites -> Responses], NEW v
    PROVE  SearchIcons(v, e) \subseteq OutcomeMay(e)
<1> DEFINE site == "freepik.search_icons"
           real == Gives({"text"})
                   \cup (IF "freepik" \in e.services THEN FreepikIcon ELSE Gives({"null"}))
<1>1. site \in CallSites \ DestinationWrites /\ e.over[site] \in Responses
    BY DEF CallSites, DestinationWrites
<1>2. {"text", "null"} \subseteq Values /\ {"text"} \subseteq Values /\ {"null"} \subseteq Values
    BY DEF Values
<1>3. /\ Gives({"text", "null"}) \subseteq OutcomeMay(e) /\ Gives({"text"}) \subseteq OutcomeMay(e)
      /\ Gives({"null"}) \subseteq OutcomeMay(e)
    BY <1>2, GivesMay
<1>4. e.over[site] \in {"enabled", "null"} => FreepikIcon \subseteq OutcomeMay(e)
    BY <1>1, <1>2, SiteMay DEF FreepikIcon
<1>5. e.over[site] \in {"enabled", "null"} => real \subseteq OutcomeMay(e)
    BY <1>3, <1>4
<1> HIDE DEF real
<1>6. Override(e, site, Gives({"text", "null"}), Gives({"text", "null"}), real)
         \subseteq OutcomeMay(e)
    BY <1>1, <1>3, <1>5, OverrideMay
<1> QED BY <1>3, <1>6 DEF SearchIcons, real

LEMMA SearchIconsIconifyMay ==
    ASSUME NEW e, e.over \in [CallSites -> Responses], NEW v
    PROVE  SearchIconsIconify(v, e) \subseteq OutcomeMay(e)
<1> DEFINE site == "iconify.search_icons"
<1>1. site \in CallSites \ DestinationWrites /\ e.over[site] \in Responses
    BY DEF CallSites, DestinationWrites
<1>2. {"text", "null"} \subseteq Values /\ {"null"} \subseteq Values
    BY DEF Values
<1>3. Gives({"text", "null"}) \subseteq OutcomeMay(e) /\ Gives({"null"}) \subseteq OutcomeMay(e)
    BY <1>2, GivesMay
<1>4. e.over[site] \in {"enabled", "null"} => IconifyIcon \subseteq OutcomeMay(e)
    BY <1>1, <1>2, SiteMay DEF IconifyIcon
<1> QED BY <1>1, <1>3, <1>4, OverrideMay DEF SearchIconsIconify

LEMMA SearchIconLibraryMay ==
    ASSUME NEW e, NEW v
    PROVE  SearchIconLibrary(v, e) \subseteq OutcomeMay(e)
<1>1. Gives({"blank"}) \subseteq OutcomeMay(e) /\ Gives({"text", "blank"}) \subseteq OutcomeMay(e)
    BY GivesMay DEF Values
<1>2. RecordMiss \subseteq OutcomeMay(e)
    BY <1>1, FreeCalls, AfterMay DEF RecordMiss
<1>3. Gives({"text", "blank"}) \cup RecordMiss \subseteq OutcomeMay(e)
    BY <1>1, <1>2
<1>4. SearchCatalog(RecordMiss) \subseteq OutcomeMay(e)
    BY <1>3, FreeCalls, AfterMay DEF SearchCatalog
<1> QED BY <1>1, <1>4 DEF SearchIconLibrary

LEMMA UploadImageMay ==
    ASSUME NEW e, e.over \in [CallSites -> Responses], e.writes \in BOOLEAN, NEW v \in Values
    PROVE  UploadImage(v, e) \subseteq OutcomeMay(e)
<1> DEFINE site == "notion.upload_image"
           upload == IF "notion" \in e.services THEN UploadToNotion ELSE {}
           real(w) ==
               IF ~e.writes \/ e.dry
               THEN IF w = "text" THEN Gives({"payload", "null"})
                    ELSE IF "google" \in e.services THEN PhotoUrl ELSE Gives({"null"})
               ELSE IF w = "text" THEN FetchImage(upload)
                    ELSE IF "google" \in e.services THEN FetchPhoto(upload)
                    ELSE Gives({"null"})
           One(w) ==
               IF w \in {"null", "blank"} THEN Gives({"null"})
               ELSE IF w = "payload" THEN Gives({"payload"})
               ELSE Override(e, site, Gives({"null"}), Gives({"payload", "null"}), real(w))
<1>1. site \in CallSites /\ e.over[site] \in Responses
    BY DEF CallSites
<1>2. /\ Gives({"null"}) \subseteq OutcomeMay(e) /\ Gives({"payload"}) \subseteq OutcomeMay(e)
      /\ Gives({"payload", "null"}) \subseteq OutcomeMay(e)
    BY GivesMay DEF Values
<1>3. PhotoUrl \subseteq OutcomeMay(e)
    BY <1>2, FreeCalls, AfterMay DEF PhotoUrl
<1>4. ASSUME e.over[site] \in {"enabled", "null"}, e.writes
      PROVE  \A w : real(w) \subseteq OutcomeMay(e)
    <2>1. site \in May(e)
        BY <1>1, <1>4, SiteCalls DEF Spared
    <2>2. UploadToNotion \subseteq OutcomeMay(e)
        BY <2>1, <1>2, AfterMay DEF UploadToNotion
    <2>3. Gives({"null"}) \cup upload \subseteq OutcomeMay(e)
        BY <2>2, <1>2
    <2>4. FetchImage(upload) \subseteq OutcomeMay(e) /\ FetchPhoto(upload) \subseteq OutcomeMay(e)
        BY <2>3, FreeCalls, AfterMay DEF FetchImage, FetchPhoto
    <2> QED BY <2>4, <1>2, <1>3
<1>5. e.over[site] \in {"enabled", "null"} => \A w : real(w) \subseteq OutcomeMay(e)
    BY <1>2, <1>3, <1>4
<1> HIDE DEF real
<1>6. \A w : One(w) \subseteq OutcomeMay(e)
    <2> TAKE w
    <2>1. Override(e, site, Gives({"null"}), Gives({"payload", "null"}), real(w))
             \subseteq OutcomeMay(e)
        BY <1>1, <1>2, <1>5, OverrideMay
    <2> QED BY <2>1, <1>2
<1>7. UploadImage(v, e) = UNION {One(w) : w \in IF v = "data" THEN {"null", "text"} ELSE {v}}
    BY DEF UploadImage, real
<1> QED BY <1>6, <1>7

LEMMA SvgEditMay ==
    ASSUME NEW e, e.writes \in BOOLEAN, NEW s, NEW v \in Values
    PROVE  SvgEdit(s, v, e) \subseteq OutcomeMay(e)
<1> DEFINE then(u) == IF e.dry \/ ~e.writes THEN Gives({u})
                      ELSE IF "r2" \in e.services THEN PutObject ELSE {}
           One(u) == IF u # "text" \/ ~s.ready THEN Gives({"blank"})
                     ELSE Gives({"blank"}) \cup FetchSvg(then(u))
<1>1. Gives({"blank"}) \subseteq OutcomeMay(e) /\ Gives({"text"}) \subseteq OutcomeMay(e)
    BY GivesMay DEF Values
<1>2. e.writes => PutObject \subseteq OutcomeMay(e)
    BY <1>1, FailsMay, WriteCalls, AfterMay DEF PutObject
<1>3. Gives({"blank"}) \cup then("text") \subseteq OutcomeMay(e)
    BY <1>1, <1>2
<1> HIDE DEF then
<1>4. FetchSvg(then("text")) \subseteq OutcomeMay(e)
    BY <1>3, FreeCalls, AfterMay DEF FetchSvg
<1>5. \A u : One(u) \subseteq OutcomeMay(e)
    BY <1>1, <1>4
<1>6. SvgEdit(s, v, e)
        = UNION {One(u) : u \in IF v \in {"data", "payload"} THEN {"blank", "text"} ELSE {String(v)}}
    BY DEF SvgEdit, then
<1> QED BY <1>5, <1>6

LEMMA HandleMay ==
    ASSUME NEW e, e.over \in [CallSites -> Responses], e.writes \in BOOLEAN,
           NEW s, s.kind \in Kinds, s.fallback \in Values, NEW v \in Values
    PROVE  Handle(s, v, e) \subseteq OutcomeMay(e)
<1>1. /\ Gives({"null"}) \subseteq OutcomeMay(e) /\ Gives({v}) \subseteq OutcomeMay(e)
      /\ Gives({"text", "blank"}) \subseteq OutcomeMay(e)
    BY GivesMay DEF Values
<1>2. CASE s.kind \in {"optimize", "places", "constrain", "prompt", "relation"}
    BY <1>2, OptimizeInputMay, GooglePlacesLookupMay, AiConstrainValuesMay, AiPromptMay,
       AiSelectRelationMay DEF Handle
<1>3. CASE s.kind \in {"cache_set", "cache_get", "templater", "property_set", "transform"}
    BY <1>1, <1>3, PropertySetMay, DataTransformMay DEF Handle
<1>4. CASE s.kind \in {"icons", "iconify", "library", "upload", "svg"}
    BY <1>4, SearchIconsMay, SearchIconsIconifyMay, SearchIconLibraryMay, UploadImageMay,
       SvgEditMay DEF Handle
<1> QED BY <1>2, <1>3, <1>4 DEF Kinds

-----------------------------------------------------------------------------
(* What the proofs need of a definition: of its steps every two have        *)
(* another id, and its pipelines have one.                                  *)
WellFormed(j) ==
    /\ j \in Seq(Stage)
    /\ \A n \in DOMAIN j : \A m \in DOMAIN j[n].pipes : j[n].pipes[m].steps # <<>>
    /\ \A a, b \in Places(j) : StepIn(j, a).id = StepIn(j, b).id => a = b

LEMMA PlaceIs ==
    ASSUME NEW j, NEW n, NEW m, NEW i
    PROVE  <<n, m, i>> \in Places(j) <=> /\ n \in DOMAIN j /\ m \in DOMAIN j[n].pipes
                                         /\ i \in DOMAIN j[n].pipes[m].steps
BY DEF Places

LEMMA PlaceParts ==
    ASSUME NEW j, NEW a \in Places(j)
    PROVE  /\ a = <<a[1], a[2], a[3]>>
           /\ a[1] \in DOMAIN j /\ a[2] \in DOMAIN j[a[1]].pipes
           /\ a[3] \in DOMAIN PipelineAt(j, a).steps
BY DEF Places, PipelineAt

LEMMA Typed ==
    ASSUME NEW j \in Seq(Stage), NEW n \in DOMAIN j, NEW m \in DOMAIN j[n].pipes
    PROVE  /\ n \in Nat /\ m \in Nat /\ j[n] \in Stage
           /\ n >= 1 /\ n <= Len(j) /\ m >= 1
           /\ DOMAIN j[n].pipes = 1..Len(j[n].pipes)
           /\ j[n].pipes \in Seq(Pipeline) /\ j[n].pipes[m] \in Pipeline
           /\ j[n].pipes[m].steps \in Seq(Step)
           /\ Len(j[n].pipes[m].steps) \in Nat
           /\ DOMAIN j[n].pipes[m].steps = 1..Len(j[n].pipes[m].steps)
<1>1. n \in 1..Len(j) /\ Len(j) \in Nat /\ j[n] \in Stage
    OBVIOUS
<1>2. j[n].pipes \in Seq(Pipeline)
    BY <1>1 DEF Stage
<1>3. DOMAIN j[n].pipes = 1..Len(j[n].pipes) /\ Len(j[n].pipes) \in Nat
      /\ j[n].pipes[m] \in Pipeline
    BY <1>2
<1>4. j[n].pipes[m].steps \in Seq(Step)
    BY <1>3 DEF Pipeline
<1> QED BY <1>1, <1>2, <1>3, <1>4

LEMMA PlaceTyped ==
    ASSUME NEW j \in Seq(Stage), NEW a \in Places(j)
    PROVE  /\ a[1] \in Nat /\ a[2] \in Nat /\ a[3] \in Nat
           /\ a[1] >= 1 /\ a[1] <= Len(j) /\ a[2] >= 1 /\ a[3] >= 1
           /\ a[3] <= Len(PipelineAt(j, a).steps)
           /\ j[a[1]] \in Stage /\ PipelineAt(j, a) \in Pipeline /\ StepIn(j, a) \in Step
<1>1. /\ a[1] \in DOMAIN j /\ a[2] \in DOMAIN j[a[1]].pipes
      /\ a[3] \in DOMAIN j[a[1]].pipes[a[2]].steps
    BY PlaceParts DEF PipelineAt
<1>2. /\ j[a[1]].pipes[a[2]].steps \in Seq(Step) /\ j[a[1]].pipes[a[2]] \in Pipeline
      /\ DOMAIN j[a[1]].pipes[a[2]].steps = 1..Len(j[a[1]].pipes[a[2]].steps)
      /\ Len(j[a[1]].pipes[a[2]].steps) \in Nat
      /\ a[1] \in Nat /\ a[2] \in Nat /\ j[a[1]] \in Stage
      /\ a[1] >= 1 /\ a[1] <= Len(j) /\ a[2] >= 1
    BY <1>1, Typed
<1>3. j[a[1]].pipes[a[2]].steps[a[3]] \in Step
    BY <1>1, <1>2
<1> QED BY <1>1, <1>2, <1>3 DEF PipelineAt, StepIn

LEMMA JobsWellFormed == \A j \in Jobs : WellFormed(j)
<1> SUFFICES ASSUME NEW j \in Jobs PROVE WellFormed(j)
    OBVIOUS
<1>1. j \in Seq(Stage) /\ Validates(j) /\ ApartById(j)
    BY JobsAssumption
<1> QED BY <1>1 DEF WellFormed, Validates, ApartById

LEMMA EmptyWellFormed == WellFormed(<<>>) /\ DOMAIN <<>> = {} /\ Len(<<>>) = 0
<1>1. <<>> \in Seq(Stage) /\ DOMAIN <<>> = {} /\ Len(<<>>) = 0
    OBVIOUS
<1>2. Places(<<>>) = {}
    BY <1>1 DEF Places
<1> QED BY <1>1, <1>2 DEF WellFormed

(* One stage with one of its pipelines, from a step on: its places are      *)
(* those of the definition, moved.                                          *)
LEMMA OnlyWellFormed ==
    ASSUME NEW j, WellFormed(j), NEW c \in Places(j)
    PROVE  WellFormed(<<Only(j[c[1]], c[2], c[3])>>)
<1>1. /\ c[1] \in DOMAIN j /\ c[2] \in DOMAIN j[c[1]].pipes
      /\ c[3] \in DOMAIN j[c[1]].pipes[c[2]].steps
    BY PlaceParts DEF PipelineAt
<1>2. PICK st : st = j[c[1]]
    OBVIOUS
<1>3. PICK pi : pi = st.pipes[c[2]]
    OBVIOUS
<1>4. PICK i : i = c[3]
    OBVIOUS
<1>5. /\ st \in Stage /\ pi \in Pipeline /\ pi.steps \in Seq(Step)
      /\ i \in 1..Len(pi.steps) /\ Len(pi.steps) \in Nat
    BY <1>1, <1>2, <1>3, <1>4, Typed DEF WellFormed
<1>6. PICK sub : sub = SubSeq(pi.steps, i, Len(pi.steps))
    OBVIOUS
<1>7. /\ sub \in Seq(Step) /\ Len(sub) = Len(pi.steps) - i + 1
      /\ \A n \in 1..Len(sub) : sub[n] = pi.steps[n + i - 1]
    <2>1. i <= Len(pi.steps) + 1 /\ i \in 1..(Len(pi.steps) + 1)
          /\ Len(pi.steps) \in (i-1)..Len(pi.steps)
        BY <1>5
    <2>2. /\ sub \in Seq(Step)
          /\ Len(sub) = IF i <= Len(pi.steps) THEN Len(pi.steps) - i + 1 ELSE 0
          /\ \A n \in 1..Len(pi.steps) - i + 1 : sub[n] = pi.steps[i + n - 1]
        BY <1>5, <1>6, <2>1, SubSeqProperties
    <2> QED BY <1>5, <2>2
<1>8. PICK p2 : p2 = [pi EXCEPT !.steps = sub]
    OBVIOUS
<1>9. PICK s2 : s2 = [st EXCEPT !.pipes = <<p2>>]
    OBVIOUS
<1>10. s2 = Only(j[c[1]], c[2], c[3])
    BY <1>2, <1>3, <1>4, <1>6, <1>8, <1>9 DEF Only
<1>11. p2 \in Pipeline /\ p2.steps = sub
    BY <1>5, <1>7, <1>8 DEF Pipeline
<1>12. <<p2>> \in Seq(Pipeline) /\ DOMAIN <<p2>> = {1} /\ <<p2>>[1] = p2
    BY <1>11
<1>13. s2 \in Stage /\ s2.pipes = <<p2>>
    BY <1>5, <1>9, <1>12 DEF Stage
<1>14. PICK k : k = <<s2>>
    OBVIOUS
<1>15. k \in Seq(Stage) /\ DOMAIN k = {1} /\ k[1] = s2
    BY <1>13, <1>14
<1>16. \A n \in DOMAIN k : \A m \in DOMAIN k[n].pipes : k[n].pipes[m].steps # <<>>
    <2>1. sub # <<>>
        <3>1. Len(sub) # 0
            BY <1>5, <1>7
        <3> QED BY <3>1, EmptyWellFormed
    <2> QED BY <2>1, <1>11, <1>12, <1>13, <1>15
<1>17. ASSUME NEW a \in Places(k)
       PROVE  \E n \in 1..Len(sub) :
                 /\ a = <<1, 1, n>> /\ <<c[1], c[2], n + i - 1>> \in Places(j)
                 /\ StepIn(k, a) = StepIn(j, <<c[1], c[2], n + i - 1>>)
    <2>1. /\ a = <<a[1], a[2], a[3]>> /\ a[1] \in DOMAIN k /\ a[2] \in DOMAIN k[a[1]].pipes
          /\ a[3] \in DOMAIN k[a[1]].pipes[a[2]].steps
        BY <1>17, PlaceParts DEF PipelineAt
    <2>2. a[1] = 1 /\ a[2] = 1 /\ k[1].pipes[1].steps = sub /\ a[3] \in DOMAIN sub
        BY <2>1, <1>11, <1>12, <1>13, <1>15
    <2>3. PICK n \in 1..Len(sub) : n = a[3]
        BY <2>2, <1>7
    <2>4. a = <<1, 1, n>>
        BY <2>1, <2>2, <2>3
    <2>5. n + i - 1 \in DOMAIN j[c[1]].pipes[c[2]].steps
        <3>1. n \in Nat /\ n >= 1 /\ n <= Len(pi.steps) - i + 1 /\ i \in Nat /\ i >= 1
            BY <2>3, <1>5, <1>7
        <3>2. n + i - 1 \in 1..Len(pi.steps) /\ DOMAIN pi.steps = 1..Len(pi.steps)
            BY <3>1, <1>5
        <3> QED BY <3>2, <1>2, <1>3
    <2>6. <<c[1], c[2], n + i - 1>> \in Places(j)
        BY <2>5, <1>1, PlaceIs
    <2>7. StepIn(k, a) = sub[n] /\ StepIn(j, <<c[1], c[2], n + i - 1>>) = pi.steps[n + i - 1]
        BY <2>2, <2>3, <1>2, <1>3 DEF StepIn, PipelineAt
    <2> QED BY <2>3, <2>4, <2>6, <2>7, <1>7
<1>18. ASSUME NEW a \in Places(k), NEW b \in Places(k), StepIn(k, a).id = StepIn(k, b).id
       PROVE  a = b
    <2>1. PICK n \in 1..Len(sub) :
                 /\ a = <<1, 1, n>> /\ <<c[1], c[2], n + i - 1>> \in Places(j)
                 /\ StepIn(k, a) = StepIn(j, <<c[1], c[2], n + i - 1>>)
        BY <1>17
    <2>2. PICK m \in 1..Len(sub) :
                 /\ b = <<1, 1, m>> /\ <<c[1], c[2], m + i - 1>> \in Places(j)
                 /\ StepIn(k, b) = StepIn(j, <<c[1], c[2], m + i - 1>>)
        BY <1>17
    <2>3. <<c[1], c[2], n + i - 1>> = <<c[1], c[2], m + i - 1>>
        BY <1>18, <2>1, <2>2 DEF WellFormed
    <2>4. n + i - 1 = m + i - 1
        BY <2>3
    <2>5. n = m
        BY <2>4, <1>5, <1>7
    <2> QED BY <2>1, <2>2, <2>5
<1> QED BY <1>10, <1>14, <1>15, <1>16, <1>18 DEF WellFormed

LEMMA StageWellFormed ==
    ASSUME NEW j, WellFormed(j), NEW n \in DOMAIN j
    PROVE  WellFormed(<<j[n]>>)
<1>1. j[n] \in Stage
    BY DEF WellFormed
<1>2. PICK k : k = <<j[n]>>
    OBVIOUS
<1>3. k \in Seq(Stage) /\ DOMAIN k = {1} /\ k[1] = j[n]
    BY <1>1, <1>2
<1>4. ASSUME NEW a \in Places(k)
      PROVE  /\ a = <<1, a[2], a[3]>> /\ <<n, a[2], a[3]>> \in Places(j)
             /\ StepIn(k, a) = StepIn(j, <<n, a[2], a[3]>>)
    <2>1. /\ a = <<a[1], a[2], a[3]>> /\ a[1] \in DOMAIN k /\ a[2] \in DOMAIN k[a[1]].pipes
          /\ a[3] \in DOMAIN k[a[1]].pipes[a[2]].steps
        BY <1>4, PlaceParts DEF PipelineAt
    <2>2. a[1] = 1 /\ k[a[1]] = j[n]
        BY <2>1, <1>3
    <2>3. <<n, a[2], a[3]>> \in Places(j)
        BY <2>1, <2>2, PlaceIs
    <2> QED BY <2>1, <2>2, <2>3 DEF StepIn, PipelineAt
<1>5. ASSUME NEW a \in Places(k), NEW b \in Places(k), StepIn(k, a).id = StepIn(k, b).id
      PROVE  a = b
    <2>1. <<n, a[2], a[3]>> = <<n, b[2], b[3]>>
        BY <1>4, <1>5 DEF WellFormed
    <2>2. a[2] = b[2] /\ a[3] = b[3]
        BY <2>1
    <2> QED BY <2>2, <1>4
<1> QED BY <1>2, <1>3, <1>5 DEF WellFormed

LEMMA ScopedWellFormed ==
    ASSUME NEW j, WellFormed(j), NEW kind \in {"job", "stage", "pipeline", "step"},
           NEW of \in ScopeIds(j, kind)
    PROVE  WellFormed(Scoped(j, kind, of))
<1> DEFINE Named(a) == IF kind = "step" THEN StepIn(j, a).id = of
                       ELSE PipelineAt(j, a).id = of /\ a[3] = 1
<1>1. CASE kind = "job"
    BY <1>1 DEF Scoped
<1>2. CASE kind = "stage"
    <2>1. \E n \in DOMAIN j : j[n].id = of
        BY <1>2 DEF ScopeIds
    <2>2. PICK n : n = CHOOSE h \in DOMAIN j : j[h].id = of
        OBVIOUS
    <2>3. n \in DOMAIN j
        BY <2>1, <2>2
    <2>4. Scoped(j, kind, of) = <<j[n]>>
        BY <1>2, <2>2 DEF Scoped
    <2> QED BY <2>3, <2>4, StageWellFormed
<1>3. CASE kind \in {"pipeline", "step"}
    <2>1. \E a \in Places(j) : Named(a)
        <3>1. CASE kind = "step"
            BY <3>1 DEF ScopeIds, StepsOf
        <3>2. CASE kind = "pipeline"
            <4>1. PICK a \in Places(j) : PipelineAt(j, a).id = of
                BY <3>2 DEF ScopeIds
            <4>2. /\ a[1] \in DOMAIN j /\ a[2] \in DOMAIN j[a[1]].pipes
                BY PlaceParts
            <4>3. 1 \in DOMAIN j[a[1]].pipes[a[2]].steps
                BY <4>1, PlaceTyped, <4>2, Typed DEF WellFormed, PipelineAt
            <4>4. <<a[1], a[2], 1>> \in Places(j)
                BY <4>2, <4>3, PlaceIs
            <4>5. Named(<<a[1], a[2], 1>>)
                BY <4>1, <3>2 DEF PipelineAt
            <4> QED BY <4>4, <4>5
        <3> QED BY <1>3, <3>1, <3>2
    <2>2. PICK a : a = CHOOSE b \in Places(j) : Named(b)
        OBVIOUS
    <2>3. a \in Places(j)
        BY <2>1, <2>2
    <2>4. Scoped(j, kind, of) = <<Only(j[a[1]], a[2], a[3])>>
        BY <1>3, <2>2 DEF Scoped
    <2> QED BY <2>3, <2>4, OnlyWellFormed
<1> QED BY <1>1, <1>2, <1>3

-----------------------------------------------------------------------------
(* A step is done when its pipeline is past it.                             *)
Done(a) == \/ a[1] < stage
           \/ a[1] = stage /\ (a[3] < at[a[2]].n \/ at[a[2]].pc = "ok")

Parallel(a, b) == a[1] = b[1] /\ a[2] # b[2] /\ job[a[1]].mode = "parallel"

WritePlaces(k) == {a \in Places(job) : StepIn(job, a).kind = "cache_set"
                                       /\ StepIn(job, a).key = k}

Ordered(k) == \A a, b \in WritePlaces(k) : ~Parallel(a, b)

First(k) == IF k \in run.fixtures THEN "fixture" ELSE "nobody"

Untouched == phase \in {"idle", "queued"} =>
    /\ job = <<>> /\ stage = 1 /\ at = Entering(<<>>, 1)
    /\ did = {} /\ reads = {}

(* A pipeline of a sequential stage begins when those before it are through. *)
InTurn == \A p, q \in Pipes :
    job[stage].mode = "sequential" /\ q < p => at[p] = Fresh \/ at[q].pc = "ok"

(* A step that is done left its output, unless its template has none or it  *)
(* failed and the run went on without.                                      *)
HasLeft(s, outs, none) == outs[s.id].by = s.id \/ s.id \in none \/ ~LeavesOutput(s.kind)

OutputsKept == \A a \in Places(job) :
    Done(a) => HasLeft(StepIn(job, a), outputs, emptied)

(* A key holds what it was given first until a step wrote it, then what a   *)
(* step wrote: the last of those that are done, where no two race.          *)
KeyKept(k) ==
    \/ cache[k].by = First(k) /\ \A a \in WritePlaces(k) : ~Done(a)
    \/ \E a \in WritePlaces(k) :
          /\ Done(a) /\ cache[k].by = StepIn(job, a).id
          /\ Ordered(k) => \A b \in WritePlaces(k) : Done(b) => b = a \/ Precedes(b, a)

CacheKept == phase = "running" => \A k \in Keys : KeyKept(k)

(* A test was accepted for the definition it was analyzed with.             *)
WasAccepted == run.test =>
    Accepted(Scoped(run.analyzed, run.kind, run.of), run.kind, run.fixtures, run.over)

-----------------------------------------------------------------------------
Progress == [n : Nat, pc : {"ready", "handler", "ok", "raised"}, input : Values]
Cell     == [value : Values, by : StepIds \cup {"nobody", "fixture"}]

RunOK ==
    /\ run.test \in BOOLEAN /\ run.writes \in BOOLEAN
    /\ run.kind \in {"job", "stage", "pipeline", "step"}
    /\ run.payload \in Values /\ run.fixtures \subseteq Keys
    /\ run.over \in [CallSites -> Responses]

AtOK ==
    /\ at \in [Pipes -> Progress]
    /\ \A p \in Pipes : at[p].n \in DOMAIN job[stage].pipes[p].steps

TypeInv ==
    /\ saved \in Jobs
    /\ deployed \in Deployments
    /\ RunOK
    /\ phase \in {"idle", "queued", "running", "done", "failed"}
    /\ WellFormed(job)
    /\ stage \in Nat /\ 1 <= stage /\ stage <= Len(job) + 1
    /\ AtOK
    /\ outputs \in [StepIds -> Cell] /\ cache \in [Keys -> Cell]
    /\ did \subseteq May(Env)
    /\ emptied \subseteq StepIds
    /\ edits \in 0..MaxEdits
    /\ Untouched

AtPlace(p) == <<stage, p, at[p].n>>

LEMMA FreshTyped ==
    ASSUME NEW j, WellFormed(j), NEW n
    PROVE  /\ Entering(j, n) \in [PipesOf(j, n) -> Progress]
           /\ \A p \in PipesOf(j, n) : 1 \in DOMAIN j[n].pipes[p].steps /\ Fresh.n = 1
                                       /\ Fresh.pc = "ready"
<1>1. Fresh \in Progress /\ Fresh.n = 1 /\ Fresh.pc = "ready"
    BY DEF Fresh, Progress, Values
<1>2. ASSUME NEW p \in PipesOf(j, n)
      PROVE  1 \in DOMAIN j[n].pipes[p].steps
    <2>1. n \in DOMAIN j /\ p \in DOMAIN j[n].pipes
        BY <1>2 DEF PipesOf
    <2>2. j[n].pipes[p].steps \in Seq(Step) /\ j[n].pipes[p].steps # <<>>
        BY <2>1, Typed DEF WellFormed
    <2> QED BY <2>2
<1> QED BY <1>1, <1>2 DEF Entering

LEMMA PipeTyped ==
    ASSUME TypeInv, NEW p \in Pipes
    PROVE  /\ stage \in DOMAIN job /\ p \in DOMAIN job[stage].pipes /\ p \in Nat
           /\ job[stage] \in Stage
           /\ at[p] \in Progress /\ at[p].n \in DOMAIN job[stage].pipes[p].steps
           /\ DOMAIN job[stage].pipes[p].steps = 1..Len(job[stage].pipes[p].steps)
           /\ Len(job[stage].pipes[p].steps) \in Nat
           /\ AtPlace(p) \in Places(job)
           /\ StepIn(job, AtPlace(p)) = StepAt(p) /\ StepAt(p) \in Step
<1>1. stage \in DOMAIN job /\ p \in DOMAIN job[stage].pipes
    BY DEF Pipes, PipesOf
<1>2. at[p] \in Progress /\ at[p].n \in DOMAIN job[stage].pipes[p].steps
    BY DEF TypeInv, AtOK
<1>3. AtPlace(p) \in Places(job)
    BY <1>1, <1>2, PlaceIs DEF AtPlace
<1>4. StepIn(job, AtPlace(p)) = StepAt(p)
    BY DEF StepIn, PipelineAt, AtPlace, StepAt
<1>5. job \in Seq(Stage)
    BY DEF TypeInv, WellFormed
<1> QED BY <1>1, <1>2, <1>3, <1>4, <1>5, Typed, PlaceTyped

LEMMA StepFields ==
    ASSUME NEW s \in Step
    PROVE  /\ s.id \in StepIds /\ s.kind \in Kinds /\ s.key \in Keys /\ s.fallback \in Values
           /\ s.in \in Binding /\ s.late \in Binding
           /\ s.policy \in {"fail", "continue", "continue_with_default"}
BY DEF Step

LEMMA SourceTyped ==
    ASSUME TypeInv, NEW b \in Binding
    PROVE  Source(b).value \in Values /\ Resolved(b) \subseteq Values
<1>1. /\ b.from = "step" => b.of \in StepIds
      /\ b.from \in {"cache_key_ref", "cache_key"} => b.of \in Keys
    BY DEF Binding
<1>2. Source(b).value \in Values
    BY <1>1 DEF Source, TypeInv, RunOK, Cell
<1> QED BY <1>2, WithinTyped DEF Resolved

LEMMA DefaultTyped == \A s : \A v \in Values : Default(s, v) \in Values
BY StringTyped DEF Default, Values

LEMMA EnvTyped ==
    ASSUME TypeInv
    PROVE  Env.over \in [CallSites -> Responses] /\ Env.writes \in BOOLEAN
BY DEF Env, TypeInv, RunOK

LEMMA EnvKept ==
    ASSUME run' = run, deployed' = deployed
    PROVE  Env' = Env
BY DEF Env

LEMMA PipesKept ==
    ASSUME job' = job, stage' = stage
    PROVE  Pipes' = Pipes
BY DEF Pipes

(* What an Execute does: its calls are among those the run may make, and    *)
(* its pipeline raises or goes one step further, leaving an output and, for *)
(* a cache_set, its value.                                                  *)
Passes(p, g) ==
    \/ at[p].n < Len(job[stage].pipes[p].steps) /\ g.n = at[p].n + 1 /\ g.pc = "ready"
    \/ at[p].n = Len(job[stage].pipes[p].steps) /\ g.n = at[p].n /\ g.pc = "ok"

LEMMA AdvanceDoes ==
    ASSUME TypeInv, NEW p \in Pipes, Advance(p)
    PROVE  \E g \in Progress : at' = [at EXCEPT ![p] = g] /\ Passes(p, g)
                               /\ g.n \in DOMAIN job[stage].pipes[p].steps
<1> DEFINE n == at[p].n
           steps == job[stage].pipes[p].steps
<1>1. /\ at[p] \in Progress /\ n \in 1..Len(steps) /\ DOMAIN steps = 1..Len(steps)
      /\ Len(steps) \in Nat
    BY PipeTyped
<1> HIDE DEF n, steps
<1>2. CASE n < Len(steps)
    <2>1. PICK g : g = [Fresh EXCEPT !.n = n + 1]
        OBVIOUS
    <2>2. g.n = n + 1 /\ g.pc = "ready" /\ g.input = "null"
          /\ g = [n |-> n + 1, pc |-> "ready", input |-> "null"]
        BY <2>1 DEF Fresh
    <2>3. n + 1 \in Nat /\ n + 1 \in DOMAIN steps
        BY <1>1, <1>2
    <2>4. g \in Progress
        BY <2>2, <2>3 DEF Progress, Values
    <2>5. at' = [at EXCEPT ![p] = g]
        BY <1>2, <2>1 DEF Advance, n, steps
    <2> QED BY <1>2, <2>2, <2>3, <2>4, <2>5 DEF Passes, n, steps
<1>3. CASE ~(n < Len(steps))
    <2>1. PICK g : g = [at[p] EXCEPT !.pc = "ok"]
        OBVIOUS
    <2>2. g \in Progress /\ g.n = n /\ g.pc = "ok"
        BY <1>1, <2>1 DEF Progress, n
    <2>3. n = Len(steps)
        <3>1. PICK len \in Nat : len = Len(steps)
            BY <1>1
        <3>2. n \in 1..len /\ ~(n < len)
            BY <1>1, <1>3, <3>1
        <3>3. n = len
            BY <3>2
        <3> QED BY <3>1, <3>3
    <2>4. at' = [at EXCEPT ![p] = g]
        BY <1>3, <2>1 DEF Advance, n, steps
    <2> QED BY <1>1, <2>2, <2>3, <2>4 DEF Passes, n, steps
<1> QED BY <1>2, <1>3

(* The step is done and its pipeline goes on: a cache_set never fails.      *)
Goes(s) == \/ \E v \in Values, out \in Values : Succeed(s, v, out)
           \/ s.kind # "cache_set" /\ \E v \in Values : GoOn(s, v)

LEMMA ExecuteDoes ==
    ASSUME TypeInv, NEW p \in Pipes, Execute(p)
    PROVE  /\ phase = "running" /\ at[p].pc = "handler"
           /\ \E d \in SUBSET May(Env) : did' = did \cup d
           /\ reads' = reads \cup
                (IF StepAt(p).kind = "cache_get"
                 THEN {[by |-> StepAt(p).id, from |-> "cache_get", of |-> StepAt(p).key,
                        of_whom |-> cache[StepAt(p).key].by]}
                 ELSE Read(StepAt(p), StepAt(p).late))
           /\ \E g \in Progress :
                /\ at' = [at EXCEPT ![p] = g]
                /\ g.n \in DOMAIN job[stage].pipes[p].steps
                /\ \/ /\ g.n = at[p].n /\ g.pc = "raised" /\ StepAt(p).kind # "cache_set"
                      /\ outputs' = outputs /\ cache' = cache /\ emptied' = emptied
                   \/ Passes(p, g) /\ Goes(StepAt(p))
           /\ UNCHANGED <<inputs, phase, job, stage>>
<1>1. PICK s : s = StepAt(p)
    OBVIOUS
<1>2. s \in Step /\ at[p] \in Progress /\ at[p].n \in DOMAIN job[stage].pipes[p].steps
    BY <1>1, PipeTyped
<1>3. PICK v : v = IF s.kind = "cache_get" THEN cache[s.key].value ELSE at[p].input
    OBVIOUS
<1>4. v \in Values
    BY <1>2, <1>3, StepFields DEF TypeInv, Cell, Progress
<1>5. PICK o \in Handle(s, v, Env) :
          /\ did' = did \cup o.did
          /\ \/ o.ended = "ok" /\ Succeed(s, v, o.out) /\ Advance(p)
             \/ /\ o.ended = "failed" /\ s.policy = "fail"
                /\ at' = [at EXCEPT ![p].pc = "raised"]
                /\ UNCHANGED <<outputs, cache, emptied>>
             \/ o.ended = "failed" /\ GoOn(s, v) /\ Advance(p)
    BY <1>1, <1>3 DEF Execute
<1>6. o \in OutcomeMay(Env)
    BY <1>2, <1>4, <1>5, StepFields, EnvTyped, HandleMay
<1>7. o.did \in SUBSET May(Env) /\ o.out \in Values
    BY <1>6 DEF OutcomeMay
<1>8. s.kind = "cache_set" => o.ended = "ok"
    BY <1>5 DEF Handle, Gives
<1>9. \/ o.ended = "failed" /\ at' = [at EXCEPT ![p].pc = "raised"]
         /\ UNCHANGED <<outputs, cache, emptied>>
      \/ Advance(p) /\ Goes(s)
    BY <1>4, <1>5, <1>7, <1>8 DEF Goes
<1>10. \E g \in Progress :
          /\ at' = [at EXCEPT ![p] = g]
          /\ g.n \in DOMAIN job[stage].pipes[p].steps
          /\ \/ /\ g.n = at[p].n /\ g.pc = "raised" /\ s.kind # "cache_set"
                /\ outputs' = outputs /\ cache' = cache /\ emptied' = emptied
             \/ Passes(p, g) /\ Goes(s)
    <2>1. CASE Advance(p) /\ Goes(s)
        BY <2>1, AdvanceDoes
    <2>2. CASE o.ended = "failed" /\ at' = [at EXCEPT ![p].pc = "raised"]
               /\ UNCHANGED <<outputs, cache, emptied>>
        <3>1. PICK g : g = [at[p] EXCEPT !.pc = "raised"]
            OBVIOUS
        <3>2. g \in Progress /\ g.n = at[p].n /\ g.pc = "raised"
            BY <3>1, <1>2 DEF Progress
        <3>3. at' = [at EXCEPT ![p] = g]
            BY <2>2, <3>1
        <3> QED BY <2>2, <3>2, <3>3, <1>2, <1>8
    <2> QED BY <1>9, <2>1, <2>2
<1>11. phase = "running" /\ at[p].pc = "handler" /\ UNCHANGED <<inputs, phase, job, stage>>
    BY DEF Execute
<1>12. reads' = reads \cup
                (IF s.kind = "cache_get"
                 THEN {[by |-> s.id, from |-> "cache_get", of |-> s.key,
                        of_whom |-> cache[s.key].by]}
                 ELSE Read(s, s.late))
    BY <1>1 DEF Execute
<1> QED BY <1>1, <1>5, <1>7, <1>10, <1>11, <1>12

LEMMA BeginDoes ==
    ASSUME TypeInv, NEW p \in Pipes, Begin(p)
    PROVE  /\ phase = "running" /\ at[p].pc = "ready"
           /\ job[stage].mode = "sequential" => \A q \in Pipes : q < p => at[q].pc = "ok"
           /\ reads' = reads \cup Read(StepAt(p), StepAt(p).in)
           /\ \E g \in Progress : at' = [at EXCEPT ![p] = g] /\ g.n = at[p].n
                                  /\ g.pc = "handler"
           /\ UNCHANGED <<inputs, phase, job, stage, outputs, cache, did, emptied>>
<1>1. PICK s : s = StepAt(p)
    OBVIOUS
<1>2. s \in Step /\ at[p] \in Progress
    BY <1>1, PipeTyped
<1>3. PICK v \in Resolved(s.in) : at' = [at EXCEPT ![p].pc = "handler", ![p].input = v]
    BY <1>1 DEF Begin
<1>4. v \in Values
    BY <1>2, <1>3, StepFields, SourceTyped
<1>5. at \in [Pipes -> Progress]
    BY DEF TypeInv, AtOK
<1>6. PICK h : h = [at EXCEPT ![p].pc = "handler"]
    OBVIOUS
<1>7. PICK g : g = [h[p] EXCEPT !.input = v]
    OBVIOUS
<1>8. h \in [Pipes -> Progress] /\ h[p].n = at[p].n /\ h[p].pc = "handler"
    BY <1>2, <1>5, <1>6 DEF Progress
<1>9. g \in Progress /\ g.n = at[p].n /\ g.pc = "handler"
    BY <1>4, <1>7, <1>8 DEF Progress
<1>10. at' = [h EXCEPT ![p] = g]
    BY <1>3, <1>6, <1>7
<1>11. at' = [at EXCEPT ![p] = g]
    BY <1>5, <1>6, <1>10
<1> QED BY <1>1, <1>9, <1>11 DEF Begin, Turn

LEMMA AtKept ==
    ASSUME AtOK, job' = job, stage' = stage, NEW p \in Pipes, NEW g \in Progress,
           at' = [at EXCEPT ![p] = g], g.n \in DOMAIN job[stage].pipes[p].steps
    PROVE  AtOK' /\ at'[p] = g /\ \A q \in Pipes \ {p} : at'[q] = at[q]
<1>1. Pipes' = Pipes
    BY PipesKept
<1>2. at' \in [Pipes -> Progress] /\ at'[p] = g /\ \A q \in Pipes \ {p} : at'[q] = at[q]
    BY DEF AtOK
<1> QED BY <1>1, <1>2 DEF AtOK

LEMMA GoesDoes ==
    ASSUME TypeInv, NEW s \in Step, Goes(s)
    PROVE  /\ outputs' \in [StepIds -> Cell] /\ cache' \in [Keys -> Cell]
           /\ emptied \subseteq emptied' /\ emptied' \subseteq StepIds
           /\ \A x \in StepIds \ {s.id} : outputs'[x] = outputs[x]
           /\ outputs'[s.id].by = s.id \/ s.id \in emptied' \/ ~LeavesOutput(s.kind)
           /\ \E v : cache' = IF s.kind = "cache_set"
                      THEN [cache EXCEPT ![s.key] = [value |-> v, by |-> s.id]] ELSE cache
<1>1. s.id \in StepIds /\ s.key \in Keys
    BY StepFields
<1>2. \A v \in Values : [value |-> v, by |-> s.id] \in Cell
    BY <1>1 DEF Cell
<1>3. outputs \in [StepIds -> Cell] /\ cache \in [Keys -> Cell] /\ emptied \subseteq StepIds
    BY DEF TypeInv
<1>4. ASSUME NEW out \in Values, SetOutput(s, out)
      PROVE  /\ outputs' \in [StepIds -> Cell] /\ outputs'[s.id].by = s.id
             /\ \A x \in StepIds \ {s.id} : outputs'[x] = outputs[x]
    BY <1>1, <1>2, <1>3, <1>4 DEF SetOutput
<1>5. ASSUME NEW v \in Values, NEW out \in Values, Succeed(s, v, out)
      PROVE  /\ outputs' \in [StepIds -> Cell] /\ emptied' = emptied
             /\ \A x \in StepIds \ {s.id} : outputs'[x] = outputs[x]
             /\ outputs'[s.id].by = s.id \/ ~LeavesOutput(s.kind)
             /\ cache' = IF s.kind = "cache_set"
                         THEN [cache EXCEPT ![s.key] = [value |-> v, by |-> s.id]] ELSE cache
    BY <1>3, <1>4, <1>5 DEF Succeed
<1>6. ASSUME NEW v \in Values, GoOn(s, v)
      PROVE  /\ outputs' \in [StepIds -> Cell] /\ cache' = cache
             /\ emptied \subseteq emptied' /\ emptied' \subseteq StepIds
             /\ \A x \in StepIds \ {s.id} : outputs'[x] = outputs[x]
             /\ outputs'[s.id].by = s.id \/ s.id \in emptied'
    <2>1. Default(s, v) \in Values
        BY DefaultTyped
    <2>2. CASE SetOutput(s, Default(s, v)) /\ UNCHANGED emptied
        BY <1>3, <1>4, <1>6, <2>1, <2>2 DEF GoOn
    <2>3. CASE UNCHANGED outputs /\ emptied' = emptied \cup {s.id}
        BY <1>1, <1>3, <1>6, <2>3 DEF GoOn
    <2> QED BY <1>6, <2>2, <2>3 DEF GoOn
<1>7. CASE \E v \in Values, out \in Values : Succeed(s, v, out)
    <2>1. PICK v \in Values, out \in Values : Succeed(s, v, out)
        BY <1>7
    <2>2. cache' \in [Keys -> Cell]
        BY <1>1, <1>2, <1>3, <1>5, <2>1
    <2> QED BY <1>3, <1>5, <2>1, <2>2
<1>8. CASE s.kind # "cache_set" /\ \E v \in Values : GoOn(s, v)
    BY <1>3, <1>6, <1>8
<1> QED BY <1>7, <1>8 DEF Goes

LEMMA InitTyped == Init => TypeInv
<1> SUFFICES ASSUME Init PROVE TypeInv
    OBVIOUS
<1>1. RunOK
    <2>1. [c \in CallSites |-> "enabled"] \in [CallSites -> Responses]
        BY DEF Responses
    <2> QED BY <2>1 DEF Init, NoRun, RunOK, Values
<1>2. WellFormed(job) /\ Len(job) = 0
    BY EmptyWellFormed DEF Init
<1>3. AtOK
    <2>1. Pipes = PipesOf(<<>>, 1) /\ at = Entering(<<>>, 1)
        BY DEF Init, Pipes
    <2>2. Pipes = {}
        BY <2>1, EmptyWellFormed DEF PipesOf
    <2>3. at \in [Pipes -> Progress]
        BY <2>1, EmptyWellFormed, FreshTyped
    <2> QED BY <2>2, <2>3 DEF AtOK
<1>4. Absent \in Cell
    BY DEF Absent, Cell, Values
<1> QED BY <1>1, <1>2, <1>3, <1>4, OtherAssumption DEF Init, TypeInv, Untouched

LEMMA PayloadTyped == Payloads \subseteq Values
BY DEF Payloads, Validated, Values

LEMMA EnteredTyped ==
    ASSUME NEW j, WellFormed(j), NEW n, job' = j, stage' = n, at' = Entering(j, n)
    PROVE  AtOK'
<1>1. Pipes' = PipesOf(j, n)
    BY DEF Pipes
<1>2. at' \in [PipesOf(j, n) -> Progress]
    BY FreshTyped
<1>3. ASSUME NEW p \in PipesOf(j, n)
      PROVE  at'[p].n \in DOMAIN j[n].pipes[p].steps
    BY <1>3, FreshTyped DEF Entering
<1> QED BY <1>1, <1>2, <1>3 DEF AtOK

(* A test that was accepted is what the worker is asked for.                *)
Tested(kind, t, w, of, fixtures, over) ==
    [test |-> TRUE, kind |-> kind, of |-> of, fixtures |-> fixtures,
     over |-> over, writes |-> w, payload |-> t, analyzed |-> saved]

LEMMA RunTestDoes ==
    ASSUME RunTest
    PROVE  \E kind \in {"job", "stage", "pipeline", "step"}, t \in Payloads, w \in Allows,
              fixtures \in SUBSET Keys, over \in [CallSites -> Responses] :
              \E of \in ScopeIds(saved, kind) :
              /\ Accepted(Scoped(saved, kind, of), kind, fixtures, over)
              /\ run' = Tested(kind, t, w, of, fixtures, over)
<1>1. PICK kind \in {"job", "stage", "pipeline", "step"}, t \in Payloads, w \in Allows :
       \E of \in ScopeIds(saved, kind), fixtures \in SUBSET Keys :
       LET scoped == Scoped(saved, kind, of)
           sites  == UNION {PlannedCalls(s.kind) : s \in StepsOf(scoped)}
       IN \E f \in [sites -> Responses] :
          LET over == [c \in CallSites |-> IF c \in sites THEN f[c] ELSE "enabled"]
          IN  /\ Accepted(scoped, kind, fixtures, over)
              /\ run' = Tested(kind, t, w, of, fixtures, over)
    BY DEF RunTest, Tested
<1>2. PICK of \in ScopeIds(saved, kind), fixtures \in SUBSET Keys :
       LET scoped == Scoped(saved, kind, of)
           sites  == UNION {PlannedCalls(s.kind) : s \in StepsOf(scoped)}
       IN \E f \in [sites -> Responses] :
          LET over == [c \in CallSites |-> IF c \in sites THEN f[c] ELSE "enabled"]
          IN  /\ Accepted(scoped, kind, fixtures, over)
              /\ run' = Tested(kind, t, w, of, fixtures, over)
    BY <1>1
<1>3. PICK scoped : scoped = Scoped(saved, kind, of)
    OBVIOUS
<1>4. PICK sites : sites = UNION {PlannedCalls(s.kind) : s \in StepsOf(scoped)}
    OBVIOUS
<1>5. PICK f \in [sites -> Responses] :
          LET over == [c \in CallSites |-> IF c \in sites THEN f[c] ELSE "enabled"]
          IN  /\ Accepted(scoped, kind, fixtures, over)
              /\ run' = Tested(kind, t, w, of, fixtures, over)
    BY <1>2, <1>3, <1>4
<1>6. PICK over : over = [c \in CallSites |-> IF c \in sites THEN f[c] ELSE "enabled"]
    OBVIOUS
<1>7. over \in [CallSites -> Responses]
    BY <1>6 DEF Responses
<1>8. Accepted(scoped, kind, fixtures, over) /\ run' = Tested(kind, t, w, of, fixtures, over)
    BY <1>5, <1>6
<1> QED BY <1>3, <1>7, <1>8

LEMMA TypeStep == TypeInv /\ [Next]_vars => TypeInv'
<1> SUFFICES ASSUME TypeInv, [Next]_vars PROVE TypeInv'
    OBVIOUS
<1>1. CASE UNCHANGED vars
    BY <1>1 DEF vars, TypeInv, RunOK, AtOK, Untouched, Pipes, Env
<1>2. CASE Edit
    <2>1. saved' \in Jobs
        BY <1>2 DEF Edit, Jobs
    <2>2. edits' \in 0..MaxEdits
        BY <1>2, OtherAssumption DEF Edit, TypeInv
    <2>3. /\ UNCHANGED <<deployed, run, phase, job, stage, at, outputs, cache, did, reads,
                         emptied>>
        BY <1>2 DEF Edit
    <2> QED BY <2>1, <2>2, <2>3 DEF TypeInv, RunOK, AtOK, Untouched, Pipes, Env
<1>3. CASE Fire \/ RunTest
    <2>1. /\ phase = "idle" /\ phase' = "queued"
          /\ UNCHANGED <<saved, deployed, job, stage, at, outputs, cache, did, reads, emptied,
                         edits>>
        BY <1>3 DEF Fire, RunTest
    <2>2. RunOK'
        <3>1. CASE Fire
            <4>1. PICK t \in Payloads : run' = [NoRun EXCEPT !.payload = t]
                BY <3>1 DEF Fire
            <4>2. [c \in CallSites |-> "enabled"] \in [CallSites -> Responses]
                BY DEF Responses
            <4>3. /\ run'.test = FALSE /\ run'.writes = TRUE /\ run'.kind = "job"
                  /\ run'.payload = t /\ run'.fixtures = {}
                  /\ run'.over = [c \in CallSites |-> "enabled"]
                BY <4>1 DEF NoRun
            <4> QED BY <4>2, <4>3, PayloadTyped DEF RunOK
        <3>2. CASE RunTest
            <4>1. PICK kind \in {"job", "stage", "pipeline", "step"}, t \in Payloads,
                       w \in Allows, fixtures \in SUBSET Keys,
                       over \in [CallSites -> Responses] :
                       \E of : run' = Tested(kind, t, w, of, fixtures, over)
                BY <3>2, RunTestDoes
            <4>2. w \in BOOLEAN /\ t \in Values
                BY OtherAssumption, PayloadTyped
            <4> QED BY <4>1, <4>2 DEF RunOK, Tested
        <3> QED BY <1>3, <3>1, <3>2
    <2>3. did' = {} /\ Untouched'
        BY <2>1 DEF TypeInv, Untouched
    <2> QED BY <2>1, <2>2, <2>3 DEF TypeInv, AtOK, Pipes
<1>4. CASE Start
    <2>1. phase = "queued" /\ phase' \in {"running", "failed"}
          /\ UNCHANGED <<inputs, stage, outputs, did, reads, emptied>>
        BY <1>4 DEF Start
    <2>2. CASE run.of \in ScopeIds(saved, run.kind)
        <3>1. PICK j : j = Scoped(saved, run.kind, run.of)
            OBVIOUS
        <3>2. PICK v \in {"text", "data"} : cache' =
                      [k \in Keys |-> IF k \in run.fixtures
                                      THEN [value |-> v, by |-> "fixture"] ELSE Absent]
            BY <1>4, <2>2 DEF Start
        <3>3. job' = j /\ at' = Entering(j, 1) /\ phase' = "running"
            BY <1>4, <2>2, <3>1 DEF Start
        <3>4. WellFormed(j)
            BY <2>2, <3>1, JobsWellFormed, ScopedWellFormed DEF TypeInv, RunOK
        <3>5. stage = 1 /\ stage' = 1
            BY <2>1 DEF TypeInv, Untouched, inputs
        <3>6. AtOK'
            BY <3>3, <3>4, <3>5, EnteredTyped
        <3>7. cache' \in [Keys -> Cell]
            <4>1. [value |-> v, by |-> "fixture"] \in Cell /\ Absent \in Cell
                BY DEF Cell, Absent, Values
            <4> QED BY <3>2, <4>1
        <3>8. Len(j) \in Nat
            BY <3>4 DEF WellFormed
        <3> QED BY <2>1, <3>3, <3>4, <3>5, <3>6, <3>7, <3>8
                DEF TypeInv, RunOK, inputs, Untouched, Env
    <2>3. CASE run.of \notin ScopeIds(saved, run.kind)
        <3>1. phase' = "failed" /\ UNCHANGED <<job, at, cache>>
            BY <1>4, <2>3 DEF Start
        <3> QED BY <2>1, <3>1 DEF TypeInv, RunOK, AtOK, inputs, Untouched, Pipes, Env
    <2> QED BY <2>2, <2>3
<1>5. ASSUME NEW p \in Pipes, Begin(p) PROVE TypeInv'
    <2>1. /\ phase = "running"
          /\ UNCHANGED <<inputs, phase, job, stage, outputs, cache, did, emptied>>
        BY <1>5, BeginDoes
    <2>2. AtOK'
        BY <1>5, <2>1, BeginDoes, PipeTyped, AtKept DEF TypeInv
    <2> QED BY <2>1, <2>2 DEF TypeInv, RunOK, inputs, Untouched, Env
<1>6. ASSUME NEW p \in Pipes, Execute(p) PROVE TypeInv'
    <2>1. phase = "running" /\ UNCHANGED <<inputs, phase, job, stage>>
        BY <1>6, ExecuteDoes
    <2>2. PICK g \in Progress :
                /\ at' = [at EXCEPT ![p] = g]
                /\ g.n \in DOMAIN job[stage].pipes[p].steps
                /\ \/ outputs' = outputs /\ cache' = cache /\ emptied' = emptied
                   \/ Goes(StepAt(p))
        BY <1>6, ExecuteDoes
    <2>3. AtOK'
        BY <2>1, <2>2, AtKept DEF TypeInv
    <2>4. /\ outputs' \in [StepIds -> Cell] /\ cache' \in [Keys -> Cell]
          /\ emptied' \subseteq StepIds
        BY <2>2, GoesDoes, PipeTyped DEF TypeInv
    <2>5. did' \subseteq May(Env)'
        BY <1>6, <2>1, ExecuteDoes, EnvKept DEF TypeInv, inputs
    <2> QED BY <2>1, <2>3, <2>4, <2>5 DEF TypeInv, RunOK, inputs, Untouched
<1>7. CASE CloseStage
    <2>1. /\ phase = "running" /\ stage \in DOMAIN job
          /\ phase' \in {"running", "failed"}
          /\ UNCHANGED <<inputs, job, outputs, cache, did, reads, emptied>>
        BY <1>7 DEF CloseStage
    <2>2. CASE UNCHANGED <<stage, at>>
        BY <2>1, <2>2 DEF TypeInv, RunOK, AtOK, inputs, Untouched, Pipes, Env
    <2>3. CASE stage' = stage + 1 /\ at' = Entering(job, stage + 1)
        <3>1. AtOK'
            BY <2>1, <2>3, EnteredTyped DEF TypeInv
        <3>2. stage \in 1..Len(job) /\ Len(job) \in Nat
            BY <2>1 DEF TypeInv, WellFormed
        <3>3. stage' \in Nat /\ 1 <= stage' /\ stage' <= Len(job) + 1
            BY <2>3, <3>2
        <3> QED BY <2>1, <3>1, <3>3 DEF TypeInv, RunOK, inputs, Untouched, Env
    <2> QED BY <1>7, <2>2, <2>3 DEF CloseStage
<1>8. CASE Finish
    <2>1. /\ phase = "running" /\ phase' \in {"done", "failed"}
          /\ UNCHANGED <<inputs, job, stage, at, outputs, cache, reads, emptied>>
        BY <1>8 DEF Finish
    <2>2. did' \subseteq May(Env)
        BY <1>8, WriteCalls DEF Finish, TypeInv, Env
    <2> QED BY <2>1, <2>2 DEF TypeInv, RunOK, AtOK, inputs, Untouched, Pipes, Env
<1> QED BY <1>1, <1>2, <1>3, <1>4, <1>5, <1>6, <1>7, <1>8 DEF Next

LEMMA AlwaysTyped == Spec => []TypeInv
BY InitTyped, TypeStep, PTL DEF Spec

(* Types, of what a run holds and of how far it is.                         *)
THEOREM FlowTypeCorrect == Spec => []TypeOK
<1>1. TypeInv => TypeOK
    <2> SUFFICES ASSUME TypeInv PROVE TypeOK
        OBVIOUS
    <2>1. Len(job) \in Nat
        BY DEF TypeInv, WellFormed
    <2>2. stage \in 1..(Len(job) + 1)
        BY <2>1 DEF TypeInv
    <2>3. did \subseteq Calls
        BY DEF TypeInv, May
    <2> QED BY <2>2, <2>3 DEF TypeInv, TypeOK, RunOK, AtOK, Progress, Cell
<1> QED BY <1>1, AlwaysTyped, PTL

(* A run makes no call its test may not make, whatever the definition, the  *)
(* handlers' clients and the edits between the analysis and the run do.     *)
THEOREM TestsAreTame == Spec => []TestsTouchOnlyWhatTheyMay
<1>1. TypeInv => TestsTouchOnlyWhatTheyMay
    BY DEF TypeInv, TestsTouchOnlyWhatTheyMay, May, Spared, Env
<1> QED BY <1>1, AlwaysTyped, PTL

-----------------------------------------------------------------------------
(* How a step changes what is done. *)

LEMMA PlaceInJob ==
    ASSUME TypeInv, NEW a \in Places(job)
    PROVE  /\ a = <<a[1], a[2], a[3]>>
           /\ a[1] \in Nat /\ a[2] \in Nat /\ a[3] \in Nat
           /\ a[1] >= 1 /\ a[1] <= Len(job) /\ a[2] >= 1 /\ a[3] >= 1
           /\ a[1] \in DOMAIN job /\ a[2] \in DOMAIN job[a[1]].pipes
           /\ a[3] \in 1..Len(job[a[1]].pipes[a[2]].steps)
           /\ StepIn(job, a) \in Step /\ StepIn(job, a).id \in StepIds
           /\ a[1] = stage => a[2] \in Pipes
<1>1. job \in Seq(Stage)
    BY DEF TypeInv, WellFormed
<1>2. /\ a = <<a[1], a[2], a[3]>>
      /\ a[1] \in DOMAIN job /\ a[2] \in DOMAIN job[a[1]].pipes
      /\ a[3] \in DOMAIN job[a[1]].pipes[a[2]].steps
    BY PlaceParts DEF PipelineAt
<1>3. DOMAIN job[a[1]].pipes[a[2]].steps = 1..Len(job[a[1]].pipes[a[2]].steps)
    BY <1>1, <1>2, Typed
<1>4. a[1] = stage => a[2] \in Pipes
    BY <1>2 DEF Pipes, PipesOf
<1> QED BY <1>1, <1>2, <1>3, <1>4, PlaceTyped, StepFields

LEMMA IdsApart ==
    ASSUME TypeInv, NEW a \in Places(job), NEW b \in Places(job),
           StepIn(job, a).id = StepIn(job, b).id
    PROVE  a = b
BY DEF TypeInv, WellFormed

LEMMA DoneKept ==
    ASSUME TypeInv, job' = job, stage' = stage,
           \A p \in Pipes : at'[p].n = at[p].n /\ (at'[p].pc = "ok" <=> at[p].pc = "ok")
    PROVE  \A a \in Places(job) : Done(a)' <=> Done(a)
BY PlaceInJob DEF Done

LEMMA DonePassing ==
    ASSUME TypeInv, job' = job, stage' = stage, NEW p \in Pipes, NEW g \in Progress,
           at[p].pc = "handler", Passes(p, g), at' = [at EXCEPT ![p] = g]
    PROVE  \A a \in Places(job) : Done(a)' <=> Done(a) \/ a = AtPlace(p)
<1>1. at \in [Pipes -> Progress]
    BY DEF TypeInv, AtOK
<1>2. at'[p] = g /\ \A q \in Pipes \ {p} : at'[q] = at[q]
    BY <1>1
<1>3. at[p].n \in Nat /\ at[p].n <= Len(job[stage].pipes[p].steps)
      /\ Len(job[stage].pipes[p].steps) \in Nat
    BY PipeTyped DEF Progress
<1>4. ASSUME NEW a \in Places(job)
      PROVE  Done(a)' <=> Done(a) \/ a = AtPlace(p)
    <2>1. CASE a[1] = stage /\ a[2] = p
        <3>1. a[3] \in Nat /\ a[3] <= Len(job[stage].pipes[p].steps) /\ a = <<stage, p, a[3]>>
            BY <2>1, PlaceInJob
        <3>2. a = AtPlace(p) <=> a[3] = at[p].n
            BY <3>1 DEF AtPlace
        <3>3. PICK len \in Nat : len = Len(job[stage].pipes[p].steps)
            BY <1>3
        <3>4. Done(a) <=> a[3] < at[p].n
            BY <2>1, <1>3, PlaceInJob DEF Done, TypeInv
        <3>5. Done(a)' <=> a[3] < g.n \/ g.pc = "ok"
            BY <2>1, <1>2, PlaceInJob DEF Done, TypeInv
        <3>6. \/ at[p].n < len /\ g.n = at[p].n + 1 /\ g.pc = "ready"
              \/ at[p].n = len /\ g.n = at[p].n /\ g.pc = "ok"
            BY <3>3 DEF Passes
        <3>7. a[3] <= len
            BY <3>1, <3>3
        <3> QED BY <1>3, <3>1, <3>2, <3>4, <3>5, <3>6, <3>7
    <2>2. CASE ~(a[1] = stage /\ a[2] = p)
        <3>1. a # AtPlace(p)
            BY <2>2 DEF AtPlace
        <3>2. a[1] = stage => at'[a[2]] = at[a[2]]
            BY <2>2, <1>2, PlaceInJob
        <3> QED BY <3>1, <3>2 DEF Done
    <2> QED BY <2>1, <2>2
<1> QED BY <1>4

LEMMA DoneClosing ==
    ASSUME TypeInv, job' = job, stage' = stage + 1, at' = Entering(job, stage + 1),
           \A p \in Pipes : at[p].pc = "ok"
    PROVE  \A a \in Places(job) : Done(a)' <=> Done(a)
<1> SUFFICES ASSUME NEW a \in Places(job) PROVE Done(a)' <=> Done(a)
    OBVIOUS
<1>1. stage \in Nat /\ a[1] \in Nat /\ a[3] \in Nat /\ a[3] >= 1
    BY PlaceInJob DEF TypeInv
<1>2. Done(a) <=> a[1] <= stage
    BY <1>1, PlaceInJob DEF Done
<1>3. a[1] = stage + 1 => at'[a[2]] = Fresh
    BY PlaceInJob DEF Entering, PipesOf
<1>4. Fresh.n = 1 /\ Fresh.pc = "ready"
    BY DEF Fresh
<1>5. Done(a)' <=> a[1] < stage + 1
    BY <1>1, <1>3, <1>4 DEF Done
<1> QED BY <1>1, <1>2, <1>5

LEMMA NoneDone ==
    ASSUME TypeInv', stage' = 1, at' = Entering(job', 1)
    PROVE  \A a \in Places(job') : ~Done(a)'
<1> SUFFICES ASSUME NEW a \in Places(job') PROVE ~Done(a)'
    OBVIOUS
<1>1. job' \in Seq(Stage)
    BY DEF TypeInv, WellFormed
<1>2. a[1] \in Nat /\ a[1] >= 1 /\ a[3] \in Nat /\ a[3] >= 1
    BY <1>1, PlaceTyped
<1>3. a[1] \in DOMAIN job' /\ a[2] \in DOMAIN job'[a[1]].pipes
    BY PlaceParts
<1>4. a[1] = 1 => at'[a[2]] = Fresh
    BY <1>3 DEF Entering, PipesOf
<1>5. Fresh.n = 1 /\ Fresh.pc = "ready"
    BY DEF Fresh
<1> QED BY <1>2, <1>4, <1>5 DEF Done

(* A pipeline whose turn it is has done what precedes it, and nothing that  *)
(* follows, where it races with no one.                                     *)
OnTurn(p) == job[stage].mode = "sequential" =>
    \A q \in Pipes : /\ q < p => at[q].pc = "ok"
                     /\ p < q => at[q] = Fresh

LEMMA DoneIsBefore ==
    ASSUME TypeInv, NEW p \in Pipes, at[p].pc \in {"ready", "handler"}, OnTurn(p),
           NEW b \in Places(job), ~Parallel(b, AtPlace(p))
    PROVE  Done(b) <=> Precedes(b, AtPlace(p))
<1>1. at[p].n \in Nat /\ p \in Nat /\ stage \in Nat /\ job[stage] \in Stage
    <2>1. at[p] \in Progress /\ p \in Nat /\ job[stage] \in Stage
        BY PipeTyped
    <2>2. stage \in Nat
        BY DEF TypeInv
    <2> QED BY <2>1, <2>2 DEF Progress
<1>2. b[1] \in Nat /\ b[2] \in Nat /\ b[3] \in Nat /\ b[3] >= 1
      /\ (b[1] = stage => b[2] \in Pipes)
    BY PlaceInJob
<1>3. AtPlace(p)[1] = stage /\ AtPlace(p)[2] = p /\ AtPlace(p)[3] = at[p].n
    BY DEF AtPlace
<1>4. CASE b[1] # stage
    BY <1>1, <1>2, <1>3, <1>4 DEF Done, Precedes
<1>5. CASE b[1] = stage /\ b[2] = p
    BY <1>1, <1>2, <1>3, <1>5 DEF Done, Precedes
<1>6. CASE b[1] = stage /\ b[2] # p
    <2>1. job[stage].mode = "sequential"
        BY <1>1, <1>3, <1>6 DEF Parallel, Stage
    <2>2. b[2] < p => at[b[2]].pc = "ok"
        BY <2>1, <1>2, <1>6 DEF OnTurn
    <2>3. p < b[2] => at[b[2]].n = 1 /\ at[b[2]].pc = "ready"
        BY <2>1, <1>2, <1>6 DEF OnTurn, Fresh
    <2> QED BY <1>1, <1>2, <1>3, <1>6, <2>2, <2>3 DEF Done, Precedes
<1> QED BY <1>4, <1>5, <1>6

LEMMA HandlerOnTurn ==
    ASSUME TypeInv, InTurn, NEW p \in Pipes, at[p].pc = "handler"
    PROVE  OnTurn(p)
<1>1. at[p] # Fresh /\ at[p].pc # "ok"
    BY DEF Fresh
<1> QED BY <1>1 DEF InTurn, OnTurn

LEMMA ReadyOnTurn ==
    ASSUME TypeInv, InTurn, NEW p \in Pipes, at[p].pc = "ready",
           job[stage].mode = "sequential" => \A q \in Pipes : q < p => at[q].pc = "ok"
    PROVE  OnTurn(p)
BY DEF InTurn, OnTurn

-----------------------------------------------------------------------------
LEMMA InTurnStep ==
    ASSUME TypeInv, InTurn, [Next]_vars
    PROVE  InTurn'
<1>1. ASSUME UNCHANGED <<job, stage, at>> PROVE InTurn'
    BY <1>1 DEF InTurn, Pipes
<1>2. ASSUME NEW j, NEW n, job' = j, stage' = n, at' = Entering(j, n) PROVE InTurn'
    BY <1>2 DEF InTurn, Pipes, Entering
<1>3. CASE UNCHANGED vars \/ Edit \/ Fire \/ RunTest \/ Finish
    BY <1>1, <1>3 DEF vars, Edit, Fire, RunTest, Finish
<1>4. CASE Start
    <2>1. stage = 1 /\ stage' = stage
        BY <1>4 DEF Start, TypeInv, Untouched
    <2>2. CASE run.of \in ScopeIds(saved, run.kind)
        BY <1>2, <1>4, <2>1, <2>2 DEF Start
    <2>3. CASE run.of \notin ScopeIds(saved, run.kind)
        BY <1>1, <1>4, <2>1, <2>3 DEF Start
    <2> QED BY <2>2, <2>3
<1>5. ASSUME NEW p \in Pipes, NEW g \in Progress, at' = [at EXCEPT ![p] = g],
             job' = job, stage' = stage, at[p].pc # "ok",
             job[stage].mode = "sequential" => \A q \in Pipes : q < p => at[q].pc = "ok"
      PROVE  InTurn'
    <2>1. at \in [Pipes -> Progress] /\ Pipes' = Pipes
        BY <1>5, PipesKept DEF TypeInv, AtOK
    <2>2. at'[p] = g /\ \A q \in Pipes \ {p} : at'[q] = at[q]
        BY <1>5, <2>1
    <2>3. ASSUME NEW x \in Pipes, NEW y \in Pipes, job[stage].mode = "sequential", y < x
          PROVE  at'[x] = Fresh \/ at'[y].pc = "ok"
        <3>0. x \in Nat /\ y \in Nat
            BY PipeTyped
        <3>1. CASE x = p
            BY <1>5, <2>2, <2>3, <3>0, <3>1
        <3>2. CASE y = p
            BY <1>5, <2>2, <2>3, <3>0, <3>2 DEF InTurn
        <3>3. CASE x # p /\ y # p
            BY <2>2, <2>3, <3>3 DEF InTurn
        <3> QED BY <3>1, <3>2, <3>3
    <2> QED BY <1>5, <2>1, <2>3 DEF InTurn
<1>6. ASSUME NEW p \in Pipes, Begin(p) PROVE InTurn'
    BY <1>5, <1>6, BeginDoes
<1>7. ASSUME NEW p \in Pipes, Execute(p) PROVE InTurn'
    <2>1. at[p].pc = "handler" /\ job' = job /\ stage' = stage
        BY <1>7, ExecuteDoes
    <2>2. PICK g \in Progress : at' = [at EXCEPT ![p] = g]
        BY <1>7, ExecuteDoes
    <2>3. job[stage].mode = "sequential" => \A q \in Pipes : q < p => at[q].pc = "ok"
        BY <2>1, HandlerOnTurn DEF OnTurn
    <2> QED BY <1>5, <2>1, <2>2, <2>3
<1>8. CASE CloseStage
    BY <1>1, <1>2, <1>8 DEF CloseStage
<1> QED BY <1>3, <1>4, <1>6, <1>7, <1>8 DEF Next

LEMMA OutputsStep ==
    ASSUME TypeInv, TypeInv', InTurn, OutputsKept, [Next]_vars
    PROVE  OutputsKept'
<1>1. ASSUME job' = job, outputs' = outputs, emptied' = emptied,
             \A a \in Places(job) : Done(a)' <=> Done(a)
      PROVE  OutputsKept'
    BY <1>1 DEF OutputsKept, HasLeft
<1>2. CASE UNCHANGED vars \/ Edit \/ Fire \/ RunTest \/ Finish
    <2>1. UNCHANGED <<job, stage, at, outputs, emptied>>
        BY <1>2 DEF vars, Edit, Fire, RunTest, Finish
    <2> QED BY <1>1, <2>1 DEF Done
<1>3. CASE Start
    <2>1. stage' = 1 /\ outputs' = outputs
        BY <1>3 DEF Start, TypeInv, Untouched
    <2>2. CASE run.of \in ScopeIds(saved, run.kind)
        <3>1. at' = Entering(job', 1)
            BY <1>3, <2>2 DEF Start
        <3> QED BY <2>1, <3>1, NoneDone DEF OutputsKept
    <2>3. CASE run.of \notin ScopeIds(saved, run.kind)
        <3>1. UNCHANGED <<job, stage, at, outputs, emptied>>
            BY <1>3, <2>3 DEF Start
        <3> QED BY <1>1, <3>1 DEF Done
    <2> QED BY <2>2, <2>3
<1>4. ASSUME NEW p \in Pipes, Begin(p) PROVE OutputsKept'
    <2>1. PICK g \in Progress : at' = [at EXCEPT ![p] = g] /\ g.n = at[p].n
                                /\ g.pc = "handler"
        BY <1>4, BeginDoes
    <2>2. /\ at[p].pc = "ready" /\ job' = job /\ stage' = stage
          /\ outputs' = outputs /\ emptied' = emptied
        BY <1>4, BeginDoes
    <2>3. \A q \in Pipes : at'[q].n = at[q].n /\ (at'[q].pc = "ok" <=> at[q].pc = "ok")
        BY <2>1, <2>2 DEF TypeInv, AtOK
    <2> QED BY <1>1, <2>2, <2>3, DoneKept
<1>5. ASSUME NEW p \in Pipes, Execute(p) PROVE OutputsKept'
    <2>1. at[p].pc = "handler" /\ job' = job /\ stage' = stage
        BY <1>5, ExecuteDoes
    <2>2. PICK g \in Progress :
                /\ at' = [at EXCEPT ![p] = g]
                /\ \/ /\ g.n = at[p].n /\ g.pc = "raised"
                      /\ outputs' = outputs /\ emptied' = emptied
                   \/ Passes(p, g) /\ Goes(StepAt(p))
        BY <1>5, ExecuteDoes
    <2>3. CASE g.n = at[p].n /\ g.pc = "raised" /\ outputs' = outputs /\ emptied' = emptied
        <3>1. \A q \in Pipes : at'[q].n = at[q].n /\ (at'[q].pc = "ok" <=> at[q].pc = "ok")
            BY <2>1, <2>2, <2>3 DEF TypeInv, AtOK
        <3> QED BY <1>1, <2>1, <2>3, <3>1, DoneKept
    <2>4. CASE Passes(p, g) /\ Goes(StepAt(p))
        <3>1. /\ AtPlace(p) \in Places(job) /\ StepIn(job, AtPlace(p)) = StepAt(p)
              /\ StepAt(p) \in Step
            BY PipeTyped
        <3>2. /\ emptied \subseteq emptied'
              /\ \A x \in StepIds \ {StepAt(p).id} : outputs'[x] = outputs[x]
              /\ HasLeft(StepAt(p), outputs', emptied')
            BY <2>4, <3>1, GoesDoes DEF HasLeft
        <3>3. \A a \in Places(job) : Done(a)' <=> Done(a) \/ a = AtPlace(p)
            BY <2>1, <2>2, <2>4, DonePassing
        <3>4. ASSUME NEW a \in Places(job), Done(a)'
              PROVE  HasLeft(StepIn(job, a), outputs', emptied')
            <4>1. CASE a = AtPlace(p)
                BY <3>1, <3>2, <4>1
            <4>2. CASE a # AtPlace(p)
                <5>1. StepIn(job, a).id # StepAt(p).id /\ StepIn(job, a).id \in StepIds
                    BY <3>1, <4>2, IdsApart, PlaceInJob
                <5>2. HasLeft(StepIn(job, a), outputs, emptied)
                    BY <3>3, <3>4, <4>2 DEF OutputsKept
                <5> QED BY <3>2, <5>1, <5>2 DEF HasLeft
            <4> QED BY <4>1, <4>2
        <3> QED BY <2>1, <3>4 DEF OutputsKept
    <2> QED BY <2>2, <2>3, <2>4
<1>6. CASE CloseStage
    <2>1. job' = job /\ outputs' = outputs /\ emptied' = emptied
        BY <1>6 DEF CloseStage
    <2>2. CASE UNCHANGED <<stage, at>>
        BY <1>1, <2>1, <2>2 DEF Done
    <2>3. CASE stage' = stage + 1 /\ at' = Entering(job, stage + 1)
               /\ {p \in Pipes : at[p].pc = "raised"} = {}
        <3>1. \A p \in Pipes : at[p].pc = "ok"
            BY <1>6, <2>3 DEF CloseStage
        <3> QED BY <1>1, <2>1, <2>3, <3>1, DoneClosing
    <2> QED BY <1>6, <2>2, <2>3 DEF CloseStage
<1> QED BY <1>2, <1>3, <1>4, <1>5, <1>6 DEF Next

LEMMA CacheStep ==
    ASSUME TypeInv, TypeInv', InTurn, CacheKept, [Next]_vars
    PROVE  CacheKept'
<1>1. ASSUME phase' = "running" => phase = "running",
             job' = job, cache' = cache, run' = run,
             \A a \in Places(job) : Done(a)' <=> Done(a)
      PROVE  CacheKept'
    BY <1>1 DEF CacheKept, KeyKept, WritePlaces, Ordered, Parallel, First
<1>2. CASE phase' # "running"
    BY <1>2 DEF CacheKept
<1>3. CASE UNCHANGED vars \/ Edit \/ Fire \/ RunTest \/ Finish
    <2>1. CASE UNCHANGED vars
        BY <1>1, <2>1 DEF vars, Done
    <2>2. CASE Edit \/ Fire \/ RunTest \/ Finish
        BY <1>2, <2>2 DEF Edit, Fire, RunTest, Finish
    <2> QED BY <1>3, <2>1, <2>2
<1>4. CASE Start
    <2>1. stage' = 1 /\ run' = run
        BY <1>4 DEF Start, TypeInv, Untouched, inputs
    <2>2. CASE run.of \in ScopeIds(saved, run.kind)
        <3>1. at' = Entering(job', 1)
            BY <1>4, <2>2 DEF Start
        <3>2. PICK v \in {"text", "data"} : cache' =
                      [k \in Keys |-> IF k \in run.fixtures
                                      THEN [value |-> v, by |-> "fixture"] ELSE Absent]
            BY <1>4, <2>2 DEF Start
        <3>3. \A k \in Keys : cache'[k].by = First(k)'
            BY <2>1, <3>2 DEF First, Absent
        <3> QED BY <2>1, <3>1, <3>3, NoneDone DEF CacheKept, KeyKept, WritePlaces
    <2>3. CASE run.of \notin ScopeIds(saved, run.kind)
        BY <1>2, <1>4, <2>3 DEF Start
    <2> QED BY <2>2, <2>3
<1>5. ASSUME NEW p \in Pipes, Begin(p) PROVE CacheKept'
    <2>1. PICK g \in Progress : at' = [at EXCEPT ![p] = g] /\ g.n = at[p].n
                                /\ g.pc = "handler"
        BY <1>5, BeginDoes
    <2>2. /\ at[p].pc = "ready" /\ phase = "running" /\ run' = run
          /\ job' = job /\ stage' = stage /\ cache' = cache
        BY <1>5, BeginDoes DEF inputs
    <2>3. \A q \in Pipes : at'[q].n = at[q].n /\ (at'[q].pc = "ok" <=> at[q].pc = "ok")
        BY <2>1, <2>2 DEF TypeInv, AtOK
    <2> QED BY <1>1, <2>2, <2>3, DoneKept
<1>6. ASSUME NEW p \in Pipes, Execute(p) PROVE CacheKept'
    <2>1. /\ at[p].pc = "handler" /\ phase = "running" /\ run' = run
          /\ job' = job /\ stage' = stage
        BY <1>6, ExecuteDoes DEF inputs
    <2>2. PICK g \in Progress :
                /\ at' = [at EXCEPT ![p] = g]
                /\ \/ /\ g.n = at[p].n /\ g.pc = "raised"
                      /\ outputs' = outputs /\ cache' = cache
                   \/ Passes(p, g) /\ Goes(StepAt(p))
        BY <1>6, ExecuteDoes
    <2>3. CASE g.n = at[p].n /\ g.pc = "raised" /\ cache' = cache
        <3>1. \A q \in Pipes : at'[q].n = at[q].n /\ (at'[q].pc = "ok" <=> at[q].pc = "ok")
            BY <2>1, <2>2, <2>3 DEF TypeInv, AtOK
        <3> QED BY <1>1, <2>1, <2>3, <3>1, DoneKept
    <2>4. CASE Passes(p, g) /\ Goes(StepAt(p))
        <3>1. PICK s, here : s = StepAt(p) /\ here = AtPlace(p)
            OBVIOUS
        <3>2. /\ here \in Places(job) /\ StepIn(job, here) = s /\ s.key \in Keys
            BY <3>1, PipeTyped, StepFields
        <3>3. \A a \in Places(job) : Done(a)' <=> Done(a) \/ a = here
            BY <2>1, <2>2, <2>4, <3>1, DonePassing
        <3>4. \E v : cache' = IF s.kind = "cache_set"
                      THEN [cache EXCEPT ![s.key] = [value |-> v, by |-> s.id]] ELSE cache
            BY <2>4, <3>1, GoesDoes, PipeTyped
        <3>5. cache \in [Keys -> Cell]
            BY DEF TypeInv
        <3>6. ASSUME NEW k \in Keys
              PROVE  KeyKept(k)'
            <4>1. /\ WritePlaces(k)' = WritePlaces(k) /\ First(k)' = First(k)
                  /\ Ordered(k)' = Ordered(k)
                BY <2>1 DEF WritePlaces, First, Ordered, Parallel
            <4>2. CASE here \in WritePlaces(k)
                <5>1. s.kind = "cache_set" /\ s.key = k
                    BY <3>2, <4>2 DEF WritePlaces
                <5>2. cache'[k].by = s.id
                    BY <3>4, <3>5, <5>1
                <5>3. ASSUME Ordered(k), NEW b \in WritePlaces(k), Done(b)'
                      PROVE  b = here \/ Precedes(b, here)
                    <6>1. b \in Places(job) /\ ~Parallel(b, here)
                        BY <4>2, <5>3 DEF Ordered, WritePlaces
                    <6>2. Done(b) \/ b = here
                        BY <3>3, <5>3, <6>1
                    <6>3. Done(b) => Precedes(b, here)
                        BY <2>1, <3>1, <6>1, HandlerOnTurn, DoneIsBefore
                    <6> QED BY <6>2, <6>3
                <5>4. Done(here)'
                    BY <3>2, <3>3
                <5>5. cache'[k].by = StepIn(job', here).id
                    BY <2>1, <3>2, <5>2
                <5> QED BY <4>1, <4>2, <5>3, <5>4, <5>5 DEF KeyKept
            <4>3. CASE here \notin WritePlaces(k)
                <5>1. ~(s.kind = "cache_set" /\ s.key = k)
                    BY <3>2, <4>3 DEF WritePlaces
                <5>2. cache'[k] = cache[k]
                    BY <3>4, <3>5, <5>1
                <5>3. \A b \in WritePlaces(k) : Done(b)' <=> Done(b)
                    BY <3>3, <4>3 DEF WritePlaces
                <5>4. KeyKept(k)
                    BY <2>1 DEF CacheKept
                <5> QED BY <2>1, <4>1, <5>2, <5>3, <5>4 DEF KeyKept
            <4> QED BY <4>2, <4>3
        <3> QED BY <3>6 DEF CacheKept
    <2> QED BY <2>2, <2>3, <2>4
<1>7. CASE CloseStage
    <2>1. job' = job /\ cache' = cache /\ run' = run /\ phase = "running"
        BY <1>7 DEF CloseStage, inputs
    <2>2. CASE UNCHANGED <<stage, at>>
        BY <1>1, <2>1, <2>2 DEF Done
    <2>3. CASE stage' = stage + 1 /\ at' = Entering(job, stage + 1)
               /\ {p \in Pipes : at[p].pc = "raised"} = {}
        <3>1. \A p \in Pipes : at[p].pc = "ok"
            BY <1>7, <2>3 DEF CloseStage
        <3> QED BY <1>1, <2>1, <2>3, <3>1, DoneClosing
    <2> QED BY <1>7, <2>2, <2>3 DEF CloseStage
<1> QED BY <1>3, <1>4, <1>5, <1>6, <1>7 DEF Next

-----------------------------------------------------------------------------
(* What a step reads. *)

LEMMA PlaceFound ==
    ASSUME TypeInv, NEW a \in Places(job)
    PROVE  PlaceOf(StepIn(job, a).id) = a
<1>1. \A b \in Places(job) : StepIn(job, b).id = StepIn(job, a).id => b = a
    BY IdsApart
<1> QED BY <1>1 DEF PlaceOf

LEMMA RaceIsParallel ==
    ASSUME TypeInv, NEW a \in Places(job), NEW b \in Places(job)
    PROVE  Race(StepIn(job, a).id, StepIn(job, b).id) <=> Parallel(a, b)
BY PlaceFound DEF Race, Parallel

LEMMA WritersArePlaces ==
    ASSUME NEW k
    PROVE  Writers(k) = {StepIn(job, a).id : a \in WritePlaces(k)}
BY DEF Writers, WritePlaces, StepsOf

LEMMA PrecedesStrictly ==
    ASSUME TypeInv, NEW a \in Places(job), NEW b \in Places(job), Precedes(a, b)
    PROVE  ~Precedes(b, a)
BY PlaceInJob DEF Precedes

(* In its turn a step finds in the cache what it should: the invariant says *)
(* who wrote last of those that are done, and these are those before it.    *)
LEMMA CacheInTurn ==
    ASSUME TypeInv, CacheKept, phase = "running",
           NEW p \in Pipes, at[p].pc \in {"ready", "handler"}, OnTurn(p), NEW k \in Keys,
           \A y \in Writers(k) : /\ ~Race(StepAt(p).id, y)
                                 /\ \A z \in Writers(k) : ~Race(y, z)
    PROVE  cache[k].by = LastBefore(StepAt(p).id, k)
<1> DEFINE here == AtPlace(p)
           Id(a) == StepIn(job, a).id
           W == {y \in Writers(k) : Precedes(PlaceOf(y), PlaceOf(StepAt(p).id))}
           Last(y) == \A z \in W \ {y} : Precedes(PlaceOf(z), PlaceOf(y))
<1>1. here \in Places(job) /\ StepAt(p) = StepIn(job, here) /\ PlaceOf(StepAt(p).id) = here
    BY PipeTyped, PlaceFound
<1>2. \A a \in WritePlaces(k) : a \in Places(job) /\ PlaceOf(Id(a)) = a /\ Id(a) \in Writers(k)
    BY PlaceFound, WritersArePlaces DEF WritePlaces
<1>3. Ordered(k)
    <2> SUFFICES ASSUME NEW a \in WritePlaces(k), NEW b \in WritePlaces(k)
                 PROVE  ~Parallel(a, b)
        BY DEF Ordered
    <2>1. ~Race(Id(a), Id(b))
        BY <1>2
    <2> QED BY <1>2, <2>1, RaceIsParallel
<1>4. \A a \in WritePlaces(k) : Done(a) <=> Precedes(a, here)
    <2> TAKE a \in WritePlaces(k)
    <2>1. ~Race(Id(here), Id(a))
        BY <1>1, <1>2
    <2>2. ~Parallel(here, a)
        BY <1>1, <1>2, <2>1, RaceIsParallel
    <2>3. ~Parallel(a, here)
        BY <2>2 DEF Parallel
    <2> QED BY <1>2, <2>3, DoneIsBefore
<1>5. \A y : y \in W <=> \E a \in WritePlaces(k) : y = Id(a) /\ Precedes(a, here)
    BY <1>1, <1>2, WritersArePlaces
<1>6. LastBefore(StepAt(p).id, k) = IF W # {} THEN CHOOSE y \in W : Last(y) ELSE First(k)
    BY DEF LastBefore, First
<1> HIDE DEF W
<1>7. KeyKept(k)
    BY DEF CacheKept
<1>8. CASE cache[k].by = First(k) /\ \A a \in WritePlaces(k) : ~Done(a)
    <2>1. W = {}
        BY <1>4, <1>5, <1>8
    <2> QED BY <1>6, <1>8, <2>1
<1>9. CASE \E a \in WritePlaces(k) :
              /\ Done(a) /\ cache[k].by = StepIn(job, a).id
              /\ Ordered(k) => \A b \in WritePlaces(k) : Done(b) => b = a \/ Precedes(b, a)
    <2>1. PICK a \in WritePlaces(k) :
              /\ Done(a) /\ cache[k].by = Id(a)
              /\ \A b \in WritePlaces(k) : Done(b) => b = a \/ Precedes(b, a)
        BY <1>3, <1>9
    <2>2. Id(a) \in W
        BY <1>4, <1>5, <2>1
    <2>3. Last(Id(a))
        <3> SUFFICES ASSUME NEW z \in W \ {Id(a)} PROVE Precedes(PlaceOf(z), PlaceOf(Id(a)))
            OBVIOUS
        <3>1. PICK b \in WritePlaces(k) : z = Id(b) /\ Precedes(b, here)
            BY <1>5
        <3>2. b # a /\ Done(b)
            BY <1>4, <3>1
        <3> QED BY <1>2, <2>1, <3>1, <3>2
    <2>4. ASSUME NEW y \in W, Last(y) PROVE y = Id(a)
        <3>1. PICK b \in WritePlaces(k) : y = Id(b) /\ Precedes(b, here)
            BY <1>5
        <3>2. SUFFICES ASSUME y # Id(a) PROVE FALSE
            OBVIOUS
        <3>3. Precedes(PlaceOf(y), PlaceOf(Id(a)))
            BY <2>3, <3>2
        <3>4. Precedes(PlaceOf(Id(a)), PlaceOf(y))
            BY <2>2, <2>4, <3>2
        <3>5. Precedes(b, a) /\ Precedes(a, b)
            BY <1>2, <3>1, <3>3, <3>4
        <3> QED BY <1>2, <3>5, PrecedesStrictly
    <2>5. (CHOOSE y \in W : Last(y)) = Id(a)
        <3> HIDE DEF Last
        <3> QED BY <2>2, <2>3, <2>4
    <2> QED BY <1>6, <2>1, <2>2, <2>5
<1> QED BY <1>7, <1>8, <1>9 DEF KeyKept

-----------------------------------------------------------------------------
FollowsOrder(r) ==
    r.from \in {"cache_key_ref", "cache_key", "cache_get"} =>
        LET W == Writers(r.of)
        IN  (\A y \in W : ~Race(r.by, y) /\ \A z \in W : ~Race(y, z)) =>
               r.of_whom = LastBefore(r.by, r.of)

(* What the analysis does not ask of a step.                                *)
Outputless(x) == x \in emptied \/ ~LeavesOutput(StepIn(job, PlaceOf(x)).kind)

SatisfiedOrRaced(r) ==
    r.from \in {"step", "cache_key_ref"} /\ r.of_whom = "nobody" =>
        \/ r.from = "step" /\ (Race(r.by, r.of) \/ Outputless(r.of))
        \/ r.from = "cache_key_ref" /\ \E y \in Writers(r.of) : Race(r.by, y)

AsAnalyzed == run.test /\ job # <<>> /\ job = Scoped(run.analyzed, run.kind, run.of)

LEMMA ReadsAsStated ==
    /\ CacheFollowsOrder <=> \A r \in reads : FollowsOrder(r)
    /\ AnalyzedReadsSatisfied <=> (AsAnalyzed => \A r \in reads : SatisfiedOrRaced(r))
BY DEF CacheFollowsOrder, FollowsOrder, AnalyzedReadsSatisfied, SatisfiedOrRaced, AsAnalyzed,
       Outputless

LEMMA ReadsKept ==
    ASSUME job' = job, run' = run, emptied \subseteq emptied'
    PROVE  /\ \A r : FollowsOrder(r)' <=> FollowsOrder(r)
           /\ \A r : SatisfiedOrRaced(r) => SatisfiedOrRaced(r)'
           /\ AsAnalyzed' <=> AsAnalyzed
BY DEF FollowsOrder, SatisfiedOrRaced, AsAnalyzed, Outputless, Race, PlaceOf, Writers,
       LastBefore

(* What a step leaves in reads.                                             *)
LEMMA BindingReads ==
    ASSUME TypeInv, CacheKept, phase = "running",
           NEW p \in Pipes, at[p].pc \in {"ready", "handler"}, OnTurn(p),
           NEW b \in Binding, NEW r \in Read(StepAt(p), b)
    PROVE  FollowsOrder(r)
<1>1. /\ b.from # "trigger"
      /\ r = [by |-> StepAt(p).id, from |-> b.from, of |-> b.of, of_whom |-> Source(b).by]
    BY DEF Read
<1>2. CASE b.from \in {"cache_key_ref", "cache_key"}
    <2>1. b.of \in Keys
        BY <1>2 DEF Binding
    <2>2. r.by = StepAt(p).id /\ r.of = b.of /\ r.of_whom = cache[b.of].by
        BY <1>1, <1>2 DEF Source
    <2> QED BY <2>1, <2>2, CacheInTurn DEF FollowsOrder
<1>3. CASE b.from = "step"
    BY <1>1, <1>3 DEF FollowsOrder
<1> QED BY <1>1, <1>2, <1>3 DEF Binding

LEMMA GetReads ==
    ASSUME TypeInv, CacheKept, phase = "running",
           NEW p \in Pipes, at[p].pc \in {"ready", "handler"}, OnTurn(p),
           NEW r, r = [by |-> StepAt(p).id, from |-> "cache_get", of |-> StepAt(p).key,
                       of_whom |-> cache[StepAt(p).key].by]
    PROVE  FollowsOrder(r) /\ SatisfiedOrRaced(r)
<1>1. StepAt(p).key \in Keys
    BY PipeTyped, StepFields
<1>2. /\ r.by = StepAt(p).id /\ r.of = StepAt(p).key /\ r.from = "cache_get"
      /\ r.of_whom = cache[StepAt(p).key].by
    OBVIOUS
<1> QED BY <1>1, <1>2, CacheInTurn DEF FollowsOrder, SatisfiedOrRaced

(* Who wrote: never nobody, if it was a step.                               *)
LEMMA StepsAreSomebody ==
    ASSUME TypeInv, NEW a \in Places(job)
    PROVE  StepIn(job, a).id # "nobody"
BY PlaceInJob, WritersAssumption

(* A binding that the analysis was satisfied with is to a step before, and  *)
(* that is done or races; one that is done left its output, or none.        *)
LEMMA AnalyzedReads ==
    ASSUME TypeInv, OutputsKept, CacheKept, WasAccepted, AsAnalyzed, phase = "running",
           NEW p \in Pipes, at[p].pc \in {"ready", "handler"}, OnTurn(p),
           NEW b \in Bindings(StepAt(p)), NEW r \in Read(StepAt(p), b)
    PROVE  SatisfiedOrRaced(r)
<1> DEFINE here == AtPlace(p)
           Id(a) == StepIn(job, a).id
<1>1. here \in Places(job) /\ StepAt(p) = StepIn(job, here) /\ StepAt(p) \in Step
    BY PipeTyped
<1>2. b \in Binding
    BY <1>1, StepFields DEF Bindings
<1>3. /\ b.from # "trigger" /\ r.by = StepAt(p).id /\ r.from = b.from /\ r.of = b.of
      /\ r.of_whom = Source(b).by
    BY DEF Read
<1>4. Satisfied(b, Before(job, here), run.fixtures)
    BY <1>1 DEF WasAccepted, AsAnalyzed, Accepted
<1>5. SUFFICES ASSUME b.from \in {"step", "cache_key_ref"}, Source(b).by = "nobody"
               PROVE  \/ r.from = "step" /\ (Race(r.by, r.of) \/ Outputless(r.of))
                      \/ r.from = "cache_key_ref" /\ \E y \in Writers(r.of) : Race(r.by, y)
    BY <1>3 DEF SatisfiedOrRaced
<1>6. ASSUME NEW a \in Places(job), Precedes(a, here), ~Done(a)
      PROVE  Race(Id(here), Id(a))
    <2>1. Parallel(a, here)
        BY <1>6, DoneIsBefore
    <2>2. Parallel(here, a)
        BY <2>1 DEF Parallel
    <2> QED BY <1>1, <2>2, RaceIsParallel
<1>7. CASE b.from = "step"
    <2>1. PICK x \in Before(job, here) : x.id = b.of
        BY <1>4, <1>7 DEF Satisfied
    <2>2. PICK a \in Places(job) : Precedes(a, here) /\ Id(a) = b.of
        BY <2>1 DEF Before
    <2>3. outputs[Id(a)].by = "nobody"
        BY <1>5, <1>7, <2>2 DEF Source
    <2>4. ~Done(a) \/ Outputless(Id(a))
        BY <2>3, StepsAreSomebody, PlaceFound DEF OutputsKept, HasLeft, Outputless
    <2> QED BY <1>1, <1>3, <1>6, <1>7, <2>2, <2>4
<1>8. CASE b.from = "cache_key_ref"
    <2>1. b.of \in Keys
        BY <1>2, <1>8 DEF Binding
    <2>2. cache[b.of].by = "nobody" /\ KeyKept(b.of)
        BY <1>5, <1>8, <2>1 DEF Source, CacheKept
    <2>3. First(b.of) = "nobody" /\ \A a \in WritePlaces(b.of) : ~Done(a)
        BY <2>2, StepsAreSomebody DEF KeyKept, WritePlaces
    <2>4. b.of \notin run.fixtures
        BY <2>3 DEF First
    <2>5. PICK x \in Before(job, here) : x.kind = "cache_set" /\ x.key = b.of
        BY <1>4, <1>8, <2>4 DEF Satisfied
    <2>6. PICK a \in Places(job) : Precedes(a, here) /\ StepIn(job, a) = x
        BY <2>5 DEF Before
    <2>7. a \in WritePlaces(b.of) /\ Id(a) \in Writers(b.of)
        BY <2>5, <2>6, WritersArePlaces DEF WritePlaces
    <2>8. Race(Id(here), Id(a))
        BY <1>6, <2>3, <2>6, <2>7
    <2> QED BY <1>1, <1>3, <1>8, <2>7, <2>8
<1> QED BY <1>5, <1>7, <1>8

-----------------------------------------------------------------------------
FlowInv == /\ TypeInv /\ InTurn /\ OutputsKept /\ CacheKept /\ WasAccepted
           /\ CacheFollowsOrder /\ AnalyzedReadsSatisfied

LEMMA AcceptedStep ==
    ASSUME WasAccepted, [Next]_vars
    PROVE  WasAccepted'
<1>1. ASSUME run' = run PROVE WasAccepted'
    BY <1>1 DEF WasAccepted
<1>2. CASE Fire
    BY <1>2 DEF Fire, NoRun, WasAccepted
<1>3. CASE RunTest
    BY <1>3, RunTestDoes DEF Tested, WasAccepted
<1> QED BY <1>1, <1>2, <1>3
        DEF Next, vars, inputs, Edit, Start, Begin, Execute, CloseStage, Finish

LEMMA ReadsStep ==
    ASSUME FlowInv, [Next]_vars
    PROVE  CacheFollowsOrder' /\ AnalyzedReadsSatisfied'
<1>1. ASSUME reads' = {} PROVE CacheFollowsOrder' /\ AnalyzedReadsSatisfied'
    BY <1>1 DEF CacheFollowsOrder, AnalyzedReadsSatisfied
<1>2. ASSUME job' = job, run' = run, emptied \subseteq emptied',
             \A r \in reads' \ reads : FollowsOrder(r) /\ (AsAnalyzed => SatisfiedOrRaced(r))
      PROVE  CacheFollowsOrder' /\ AnalyzedReadsSatisfied'
    <2>1. \A r \in reads' : FollowsOrder(r)
        BY <1>2, ReadsAsStated DEF FlowInv
    <2>2. AsAnalyzed => \A r \in reads' : SatisfiedOrRaced(r)
        BY <1>2, ReadsAsStated DEF FlowInv
    <2>3. /\ \A r \in reads' : FollowsOrder(r)'
          /\ AsAnalyzed' => \A r \in reads' : SatisfiedOrRaced(r)'
        BY <1>2, <2>1, <2>2, ReadsKept
    <2> QED BY <2>3 DEF CacheFollowsOrder, FollowsOrder, AnalyzedReadsSatisfied,
                        SatisfiedOrRaced, AsAnalyzed, Outputless
<1>3. CASE UNCHANGED vars \/ CloseStage \/ Finish
    BY <1>2, <1>3 DEF vars, inputs, CloseStage, Finish
<1>4. CASE Edit \/ Fire \/ RunTest \/ Start
    <2>1. reads = {}
        BY <1>4 DEF Edit, Fire, RunTest, Start, FlowInv, TypeInv, Untouched
    <2> QED BY <1>1, <1>4, <2>1 DEF Edit, Fire, RunTest, Start
<1>5. ASSUME NEW p \in Pipes, Begin(p) PROVE CacheFollowsOrder' /\ AnalyzedReadsSatisfied'
    <2>1. /\ phase = "running" /\ at[p].pc = "ready" /\ job' = job /\ run' = run
          /\ emptied' = emptied
          /\ reads' = reads \cup Read(StepAt(p), StepAt(p).in)
          /\ OnTurn(p)
        BY <1>5, BeginDoes, ReadyOnTurn DEF FlowInv, inputs
    <2>2. StepAt(p).in \in Bindings(StepAt(p)) /\ StepAt(p).in \in Binding
        BY PipeTyped, StepFields DEF Bindings, FlowInv
    <2>3. ASSUME NEW r \in Read(StepAt(p), StepAt(p).in)
          PROVE  FollowsOrder(r) /\ (AsAnalyzed => SatisfiedOrRaced(r))
        BY <2>1, <2>2, BindingReads, AnalyzedReads DEF FlowInv
    <2> QED BY <1>2, <2>1, <2>3
<1>6. ASSUME NEW p \in Pipes, Execute(p) PROVE CacheFollowsOrder' /\ AnalyzedReadsSatisfied'
    <2>1. /\ phase = "running" /\ at[p].pc = "handler" /\ job' = job /\ run' = run
          /\ OnTurn(p)
        BY <1>6, ExecuteDoes, HandlerOnTurn DEF FlowInv, inputs
    <2>2. StepAt(p).late \in Bindings(StepAt(p)) /\ StepAt(p).late \in Binding
        BY PipeTyped, StepFields DEF Bindings, FlowInv
    <2>3. PICK got : got = [by |-> StepAt(p).id, from |-> "cache_get", of |-> StepAt(p).key,
                            of_whom |-> cache[StepAt(p).key].by]
        OBVIOUS
    <2>4. reads' = reads \cup (IF StepAt(p).kind = "cache_get" THEN {got}
                               ELSE Read(StepAt(p), StepAt(p).late))
        BY <1>6, <2>3, ExecuteDoes DEF FlowInv
    <2>5. FollowsOrder(got) /\ SatisfiedOrRaced(got)
        BY <2>1, <2>3, GetReads DEF FlowInv
    <2>6. ASSUME NEW r \in Read(StepAt(p), StepAt(p).late)
          PROVE  FollowsOrder(r) /\ (AsAnalyzed => SatisfiedOrRaced(r))
        BY <2>1, <2>2, BindingReads, AnalyzedReads DEF FlowInv
    <2>7. emptied \subseteq emptied'
        BY <1>6, ExecuteDoes, GoesDoes, PipeTyped DEF FlowInv
    <2> QED BY <1>2, <2>1, <2>4, <2>5, <2>6, <2>7
<1> QED BY <1>3, <1>4, <1>5, <1>6 DEF Next

LEMMA InitFlow == Init => FlowInv
<1> SUFFICES ASSUME Init PROVE FlowInv
    OBVIOUS
<1>1. job = <<>> /\ reads = {} /\ phase = "idle" /\ run.test = FALSE
    BY DEF Init, NoRun
<1>2. DOMAIN job = {}
    BY <1>1, EmptyWellFormed
<1>3. Places(job) = {} /\ Pipes = {}
    BY <1>2 DEF Places, Pipes, PipesOf
<1> QED BY <1>1, <1>3, InitTyped
        DEF FlowInv, InTurn, OutputsKept, CacheKept, WasAccepted, CacheFollowsOrder,
            AnalyzedReadsSatisfied

LEMMA FlowStep == FlowInv /\ [Next]_vars => FlowInv'
<1> SUFFICES ASSUME FlowInv, [Next]_vars PROVE FlowInv'
    OBVIOUS
<1>1. TypeInv'
    BY TypeStep DEF FlowInv
<1>2. InTurn' /\ OutputsKept' /\ CacheKept' /\ WasAccepted'
    BY <1>1, InTurnStep, OutputsStep, CacheStep, AcceptedStep DEF FlowInv
<1>3. CacheFollowsOrder' /\ AnalyzedReadsSatisfied'
    BY ReadsStep
<1> QED BY <1>1, <1>2, <1>3 DEF FlowInv

LEMMA AlwaysFlows == Spec => []FlowInv
BY InitFlow, FlowStep, PTL DEF Spec

(* A read of the run cache sees the last write before it in the order of    *)
(* the definition, unless the definition lets it race.                      *)
THEOREM ReadsFollowOrder == Spec => []CacheFollowsOrder
<1>1. FlowInv => CacheFollowsOrder
    BY DEF FlowInv
<1> QED BY <1>1, AlwaysFlows, PTL

(* What the analysis of a live test accepts is there when the test reads    *)
(* it, unless it races, the step to read from ended without an output, or   *)
(* the definition is another one by then.                                   *)
THEOREM AnalysisIsSound == Spec => []AnalyzedReadsSatisfied
<1>1. FlowInv => AnalyzedReadsSatisfied
    BY DEF FlowInv
<1> QED BY <1>1, AlwaysFlows, PTL
=============================================================================
