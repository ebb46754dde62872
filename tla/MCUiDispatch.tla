---------------------------- MODULE MCUiDispatch ----------------------------
(* Small pages for UiDispatch.                                             *)
EXTENDS UiDispatch, TLC
CONSTANTS k1, k2

If(c, s) == [s EXCEPT !.cond = c]
VisibleIf(c, s) == [s EXCEPT !.visible = c]
Span(kind, name, arg) == [kind |-> kind, name |-> name, arg |-> arg,
                          cond |-> Always, visible |-> Always, body |-> <<>>]
Text(a) == Span("text_block", "text", a)
Box(spans) == [Span("container", "box", "none") EXCEPT !.body = spans]
Op(o, a) == Span("operation", o, a)
Button(o, a) == Span("button", o, a)
Invalid == Span("invalid", "none", "none")

SmallHandlers == "save" :> "save.handler" @@ "log" :> "log.handler"
                   @@ "bad" :> "bad.handler" @@ "gone" :> "missing"
                   @@ "set_state" :> "set_state.handler"
SmallComponents == "video" :> "video.handler" @@ "meta" :> "missing"

(* Handlers: save passes its argument on, bad is not valid.                *)
Handlers ==
     "dispatcher" :> <<>> @@ "missing" :> <<>> @@ "object" :> <<>>
  @@ "save.handler" :> <<Op("log", Hole), If("flag", Text("saved"))>>
  @@ "log.handler" :> <<Text(Hole)>>
  @@ "bad.handler" :> <<Invalid>>
  @@ "video.handler" :> <<Text(Hole)>>
  @@ "set_state.handler" :> <<Op("set_state", Hole), If("never", Op("log", "debug")),
                              If("never", Op("persist_state", Hole))>>

(* page: two buttons of one operation, an operation that fails in between. *)
(* layout: a sidebar and a main part, with all that a span can be.         *)
(* demo: what demo_all_features.logline shows first.                       *)
Pages ==
     "page" :> <<Button("save", "v1"), Op("bad", "v0"), Box(<<Text("a")>>),
                 Button("save", "v2")>>
  @@ "layout" :> <<Span("component", "meta", "none"),
                   [Span("layout", "layout", "none") EXCEPT !.body =
                      <<Span("part", "sidebar", "none"), Span("part", "object", "none"),
                        Span("part", "main", "none")>>]>>
  @@ "sidebar" :> <<Invalid, VisibleIf("flag", Text("b")), Span("include", "more", "none"),
                    Span("include", "object", "none"), Span("include", "missing", "none")>>
  @@ "main" :> <<Box(<<Span("input_box", "flag", "none"), If("flag", Op("log", "v3"))>>),
                 Span("component", "video", "v4"), Op("gone", "v5"), Op("unheard", "v6")>>
  @@ "more" :> <<Text("c"), Op("log", "v7")>>
  @@ "demo" :> <<Span("component", "meta", "none"),
                 Box(<<Text("title"), Box(<<Text("heading"), Op("set_state", "counter"),
                                            Text("value")>>),
                       Box(<<Text("next section")>>)>>)>>

SmallDisk == Handlers @@ Pages
SmallFiles == DOMAIN SmallDisk
SmallLoadable == SmallFiles \ {"missing"}
SmallArrays == SmallLoadable \ {"object"}
SmallTheme == Op("log", "theme")

(* Containers and layouts are at most two deep.                            *)
Listed(spans) == {spans[i] : i \in DOMAIN spans}
Within(S) == S \cup UNION {Listed(s.body) : s \in S}
SmallSpans ==
  {SmallTheme} \cup Within(Within(UNION {Listed(SmallDisk[f]) : f \in SmallFiles}))

(* Handlers hold texts and operations, which lead to handlers.             *)
SmallHandlerSpans ==
  UNION {Listed(SmallDisk[SmallHandlers[o]]) :
           o \in {p \in DOMAIN SmallHandlers : SmallHandlers[p] \in SmallArrays}}
=============================================================================
