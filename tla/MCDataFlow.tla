----------------------------- MODULE MCDataFlow -----------------------------
(* Small pipelines that use every step template, with at most three call  *)
(* sites each, and two keys of the run cache.                               *)
EXTENDS DataFlow

Trigger    == [from |-> "trigger", of |-> Nothing, path |-> FALSE]
Out(x)     == [from |-> "step", of |-> x, path |-> FALSE]
FieldOf(x) == [from |-> "step", of |-> x, path |-> TRUE]
Ref(k)     == [from |-> "cache_key_ref", of |-> k, path |-> FALSE]
Plain(k)   == [from |-> "cache_key", of |-> k, path |-> FALSE]

S(id, kind, in) == [id |-> id, kind |-> kind, in |-> in, late |-> Trigger, key |-> "k1",
                    ready |-> TRUE, meta |-> FALSE, fallback |-> "null", policy |-> "fail"]
P(id, steps) == [id |-> id, steps |-> steps]
St(id, mode, pipes) == [id |-> id, mode |-> mode, pipes |-> pipes]

\* a photo of the place becomes the cover
Place == <<St("s1", "sequential", <<P("p1", <<S("a", "places", Trigger),
                                          S("b", "cache_set", FieldOf("a"))>>)>>),
           St("s2", "parallel", <<P("p2", <<S("c", "upload", Ref("k1")),
                                        [S("d", "property_set", Out("c")) EXCEPT !.meta = TRUE]>>)>>)>>
\* an icon, tinted, then a search in the library
Icon == <<St("s1", "sequential",
            <<P("p1", <<[S("a", "iconify", Trigger) EXCEPT !.policy = "continue"],
                      S("b", "svg", Out("a")),
                      [S("c", "cache_set", Out("b")) EXCEPT !.key = "k2"]>>),
              P("p2", <<S("d", "library", Trigger), [S("e", "cache_set", Out("d")) EXCEPT !.key = "k1"]>>)>>)>>
\* two pipelines write one key while a template reads it; then it is read
Race2 == <<St("s1", "parallel",
             <<P("p1", <<S("a", "cache_set", Trigger)>>),
               P("p2", <<[S("b", "templater", Trigger) EXCEPT !.late = Ref("k1")],
                       S("c", "cache_set", Out("b"))>>)>>),
           St("s2", "sequential", <<P("p3", <<S("d", "cache_get", Trigger), S("e", "property_set", Out("d"))>>)>>)>>
\* the same steps one after the other, and read by a cache_key binding
Row == <<St("s1", "sequential",
           <<P("p1", <<S("a", "cache_set", Trigger), [S("e", "cache_set", Out("a")) EXCEPT !.key = "k2"]>>),
             P("p2", <<[S("b", "templater", Trigger) EXCEPT !.late = Ref("k1")], S("c", "cache_set", Out("b"))>>)>>),
         St("s2", "parallel", <<P("p3", <<S("d", "transform", Plain("k1")),
                                        [S("f", "cache_set", Out("d")) EXCEPT !.key = "k2"]>>),
                              P("p4", <<[S("g", "templater", Trigger) EXCEPT !.late = Out("a")],
                                        S("h", "cache_set", Ref("k1"))>>)>>)>>
\* the order of the two pipelines turned round
Turned == [Row EXCEPT ![1].pipes = <<Row[1].pipes[2], Row[1].pipes[1]>>]
\* texts and relations
Ai == <<St("s1", "sequential",
          <<P("p1", <<[S("a", "optimize", Trigger) EXCEPT !.policy = "continue_with_default"],
                    [S("b", "relation", Out("a")) EXCEPT !.policy = "continue"],
                    S("c", "property_set", Out("b"))>>),
            P("p2", <<[S("d", "constrain", Trigger) EXCEPT !.policy = "continue_with_default"],
                    S("e", "cache_set", Out("d"))>>)>>)>>
Texts == <<St("s1", "parallel",
             <<P("p1", <<S("a", "prompt", Ref("k2")), S("b", "icons", Out("a")), S("c", "cache_set", Out("b"))>>),
               P("p2", <<[S("d", "templater", Plain("k2")) EXCEPT !.late = Out("a")], [S("e", "cache_set", Ref("k2")) EXCEPT !.key = "k2"]>>)>>)>>

MCVersions == {{Place}, {Icon}, {Race2, Row, Turned}, {Ai}, {Texts}}
\* a text that may be left out, but not sent empty
MCField == SchemaField(FALSE, "one")
MCDeployments == {[services |-> Services, dry |-> FALSE],
                  [services |-> {}, dry |-> TRUE]}
=============================================================================
