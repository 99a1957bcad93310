---------------------------- MODULE StepHandlers ----------------------------
(***************************************************************************)
(* The runtimes of the step templates, app/services/job_execution/         *)
(* handlers: what each may return for an input, which calls it makes       *)
(* outside the run, and how it ends.  A handler is the set of outcomes of  *)
(* its execute(); the clients it calls (app/services/*_service.py) are the *)
(* sets of answers the handler can get from them.                          *)
(***************************************************************************)
EXTENDS Integers

(* What later steps can tell apart of a value: absent, a blank string, a   *)
(* string (an http URL, where one is expected), the name of a Google       *)
(* photo, a dict or list, and a Notion image payload, which is a dict too. *)
Values == {"null", "blank", "text", "photo", "data", "payload"}

CallSites == {"claude.optimize_input", "google_places.lookup", "claude.ai_constrain_values",
              "claude.ai_prompt", "claude.ai_select_relation", "freepik.search_icons",
              "iconify.search_icons", "notion.upload_image", "http.svg_fetch", "r2.put_object"}

(* Calls that no call site of the editor stands for.                       *)
Unlisted == {"google.photo", "http.image", "notion.query", "icons.search",
             "icons.record_miss", "property", "notion.page"}

Calls == CallSites \cup Unlisted

(* Those that change the destination, or store a file for it.              *)
DestinationWrites == {"property", "notion.page", "notion.upload_image", "r2.put_object"}

Services == {"claude", "google", "notion", "freepik", "iconify", "icons", "r2"}

(* api_overrides[site]: enabled (or absent), or disabled with no           *)
(* manual_response, with one that is None, a dict, or anything else.       *)
Responses == {"enabled", "missing", "null", "plain", "dict"}

Kinds == {"optimize", "places", "cache_set", "cache_get", "constrain", "prompt", "relation",
          "property_set", "transform", "templater", "icons", "iconify", "library", "upload",
          "svg"}

---------------------------------------------------------------------------
(* Outcomes *)

Outcome == [out : Values, ended : {"ok", "failed"}, did : SUBSET Calls]

Gives(V) == [out : V, ended : {"ok"}, did : {{}}]
Fails    == [out : {"null"}, ended : {"failed"}, did : {{}}]

After(call, O) == {[o EXCEPT !.did = @ \cup {call}] : o \in O}

(* str(value or "").strip()                                                *)
String(v) == IF v \in {"null", "blank"} THEN "blank"
             ELSE IF v \in {"data", "payload"} THEN "text" ELSE v

(* A nested field, or what an expression extracts, of a value.             *)
Within(v) == IF v \in {"data", "payload"} THEN {"null", "text", "photo", "data"} ELSE {"null"}

(* consume_manual_api_response: an override that answers None is no        *)
(* override, and the call is made.                                         *)
Override(e, site, plain, dict, real) ==
    CASE e.over[site] = "missing" -> Fails
      [] e.over[site] = "plain"   -> plain
      [] e.over[site] = "dict"    -> dict
      [] OTHER                    -> real

---------------------------------------------------------------------------
(* The clients, as a handler sees them                                     *)

Rewrite(v)     == After("claude.optimize_input", Gives({"text", String(v)}) \cup Fails)
MultiSelect    == After("claude.ai_constrain_values", Gives({"data"}) \cup Fails)
Completion     == After("claude.ai_prompt", Gives({"text", "blank"}) \cup Fails)
BestRelation   == After("claude.ai_select_relation", Gives({"data", "null"}))
PlaceDetails   == Gives({"data"})    \* asked for too; a place is one without them
SearchPlaces   == After("google_places.lookup", PlaceDetails \cup Gives({"null"}) \cup Fails)
PhotoUrl       == After("google.photo", Gives({"payload", "null"}))
FreepikIcon    == After("freepik.search_icons", Gives({"text", "null"}) \cup Fails)
IconifyIcon    == After("iconify.search_icons", Gives({"text", "null"}) \cup Fails)
UploadToNotion == After("notion.upload_image", Gives({"payload", "null"}))
PutObject      == After("r2.put_object", Gives({"text"}) \cup Fails)
RecordMiss     == After("icons.record_miss", Gives({"blank"}))

(* Reads that find nothing, or something for what follows.                 *)
QueryNotion(then)   == After("notion.query", Gives({"null"}) \cup then)
FetchImage(then)    == After("http.image", Gives({"null"}) \cup then)
FetchPhoto(then)    == After("google.photo", Gives({"null"}) \cup then)
FetchSvg(then)      == After("http.svg_fetch", Gives({"blank"}) \cup then)
SearchCatalog(then) == After("icons.search", Gives({"text", "blank"}) \cup then)

---------------------------------------------------------------------------
(* The handlers.  s is the step, v its main input, e the run: the          *)
(* overrides, the services that are configured, whether destination writes *)
(* are allowed and whether the service runs dry.                           *)

OptimizeInput(v, e) ==
    Override(e, "claude.optimize_input", Gives({"text", "blank"}), Gives({"text", "blank"}),
             IF "claude" \notin e.services THEN Gives({String(v)})
             ELSE IF String(v) = "blank" THEN Gives({"blank"}) ELSE Rewrite(v))

GooglePlacesLookup(v, e) ==
    Override(e, "google_places.lookup", Gives({"null"}), Gives({"data", "null"}),
             IF "google" \notin e.services THEN Gives({"null"}) ELSE SearchPlaces)

(* s.ready: the schema has options for the property.                       *)
AiConstrainValues(s, e) ==
    Override(e, "claude.ai_constrain_values", Gives({"data"}), Gives({"data"}),
             IF "claude" \notin e.services THEN Fails
             ELSE IF s.ready THEN MultiSelect ELSE Gives({"data"}))

(* s.ready: there is a prompt.                                             *)
AiPrompt(s, e) ==
    IF ~s.ready THEN Gives({"blank"})
    ELSE Override(e, "claude.ai_prompt", Gives({"text", "blank"}), Gives({"text", "blank"}),
                  IF "claude" \in e.services THEN Completion ELSE Gives({"blank"}))

(* s.ready: the related database is a target of the snapshot.  A manual    *)
(* response that is not a dict is dropped.                                 *)
AiSelectRelation(s, e) ==
    LET real == IF ~s.ready \/ "notion" \notin e.services THEN Gives({"null"})
                ELSE QueryNotion(IF "claude" \in e.services THEN BestRelation ELSE {})
    IN  Override(e, "claude.ai_select_relation", real, Gives({"data", "null"}), real)

(* A variant with a plausible mistake, for a mutation run.                 *)
PropertySetUnasked(s, v, e) == After("property", Gives({"null"}))

(* A value that is no image leaves the page's icon and cover alone.        *)
PropertySet(s, v, e) ==
    IF s.meta
    THEN IF e.writes /\ v \in {"text", "payload"}
         THEN After("property", Gives({"null"})) ELSE Gives({"null"})
    ELSE IF e.writes THEN After("property", Gives({"null"})) ELSE Fails

(* s.ready: there is an expression.                                        *)
DataTransform(s, v) ==
    IF s.ready
    THEN Gives({IF x = "null" THEN s.fallback ELSE x : x \in Within(v) \cup {v}})
    ELSE Gives({s.fallback})

SearchIcons(v, e) ==
    IF String(v) = "blank" THEN Gives({"null"})
    ELSE Override(e, "freepik.search_icons", Gives({"text", "null"}), Gives({"text", "null"}),
                  Gives({"text"})           \* the stopgap for "ramen"
                  \cup (IF "freepik" \in e.services THEN FreepikIcon ELSE Gives({"null"})))

SearchIconsIconify(v, e) ==
    IF String(v) = "blank" THEN Gives({"null"})
    ELSE Override(e, "iconify.search_icons", Gives({"text", "null"}), Gives({"text", "null"}),
                  IF "iconify" \in e.services THEN IconifyIcon ELSE Gives({"null"}))

(* A miss is recorded in the catalogue, or that fails: degraded, not       *)
(* failed.                                                                 *)
SearchIconLibrary(v, e) ==
    IF String(v) = "blank" \/ "icons" \notin e.services THEN Gives({"blank"})
    ELSE SearchCatalog(RecordMiss)

(* No bytes are fetched and no file is stored when writes are off.         *)
UploadImage(v, e) ==
    LET image == IF v = "data" THEN {"null", "text"} ELSE {v}
        One(w) ==
          IF w \in {"null", "blank"} THEN Gives({"null"})
          ELSE IF w = "payload" THEN Gives({"payload"})
          ELSE Override(e, "notion.upload_image", Gives({"null"}), Gives({"payload", "null"}),
                 IF ~e.writes \/ e.dry
                 THEN IF w = "text" THEN Gives({"payload", "null"})
                      ELSE IF "google" \in e.services THEN PhotoUrl ELSE Gives({"null"})
                 ELSE LET upload == IF "notion" \in e.services THEN UploadToNotion ELSE {}
                      IN  IF w = "text" THEN FetchImage(upload)
                          ELSE IF "google" \in e.services THEN FetchPhoto(upload)
                          ELSE Gives({"null"}))
    IN  UNION {One(w) : w \in image}

(* s.ready: there is a tint.  The handler asks for no override of its two  *)
(* call sites.                                                             *)
SvgEdit(s, v, e) ==
    LET urls == IF v \in {"data", "payload"} THEN {"blank", "text"} ELSE {String(v)}
        One(u) ==
          IF u # "text" \/ ~s.ready THEN Gives({"blank"})
          ELSE Gives({"blank"}) \cup FetchSvg(
                 IF e.dry \/ ~e.writes THEN Gives({u})
                 ELSE IF "r2" \in e.services THEN PutObject ELSE {})
    IN  UNION {One(u) : u \in urls}

(* What the executor's registry runs for a template.  The three that only  *)
(* move values of the run: a cache write, a cache read (v is what was in   *)
(* the cache) and a rendered template.                                     *)
Handle(s, v, e) ==
    CASE s.kind = "optimize"     -> OptimizeInput(v, e)
      [] s.kind = "places"       -> GooglePlacesLookup(v, e)
      [] s.kind = "cache_set"    -> Gives({"null"})
      [] s.kind = "cache_get"    -> Gives({v})
      [] s.kind = "constrain"    -> AiConstrainValues(s, e)
      [] s.kind = "prompt"       -> AiPrompt(s, e)
      [] s.kind = "relation"     -> AiSelectRelation(s, e)
      [] s.kind = "property_set" -> PropertySet(s, v, e)
      [] s.kind = "transform"    -> DataTransform(s, v)
      [] s.kind = "templater"    -> Gives({"text", "blank"})
      [] s.kind = "icons"        -> SearchIcons(v, e)
      [] s.kind = "iconify"      -> SearchIconsIconify(v, e)
      [] s.kind = "library"      -> SearchIconLibrary(v, e)
      [] s.kind = "upload"       -> UploadImage(v, e)
      [] s.kind = "svg"          -> SvgEdit(s, v, e)

(* The two that return no output.                                          *)
LeavesOutput(kind) == kind \notin {"cache_set", "property_set"}

(* default_outputs_for_step, for the templates it has an output for        *)
HasDefault(kind) == kind \in {"icons", "iconify", "library", "upload", "optimize", "svg",
                              "constrain"}

Default(s, v) ==
    CASE s.kind = "optimize"          -> String(v)
      [] s.kind \in {"library", "svg"} -> "blank"
      [] s.kind = "constrain"         -> "data"
      [] OTHER                        -> "null"

(* The calls the editor shows for a step, and may disable.                 *)
PlannedCalls(kind) ==
    CASE kind = "optimize"  -> {"claude.optimize_input"}
      [] kind = "places"    -> {"google_places.lookup"}
      [] kind = "constrain" -> {"claude.ai_constrain_values"}
      [] kind = "prompt"    -> {"claude.ai_prompt"}
      [] kind = "relation"  -> {"claude.ai_select_relation"}
      [] kind = "icons"     -> {"freepik.search_icons"}
      [] kind = "iconify"   -> {"iconify.search_icons"}
      [] kind = "upload"    -> {"notion.upload_image"}
      [] kind = "svg"       -> {"http.svg_fetch", "r2.put_object"}
      [] OTHER              -> {}

(* What the analyzer counts as writing to the destination.                 *)
WritesDestination(kind) == kind \in {"property_set", "upload", "svg"}
=============================================================================
