---------------------------- MODULE MCTerritory ----------------------------
(* Model checking of Territory on a cached place, a virtual one and another. *)
EXTENDS Territory, TLC

CONSTANT big

Root == <<"app">>

P(rest) == Root \o <<"p">> \o rest
V(rest) == Root \o <<"v">> \o rest
W(rest) == Root \o <<"w">> \o rest
Extensions ==
  (P(<<"x.js">>) :> "js") @@ (P(<<"x.js", "x.tpl">>) :> "tpl") @@ (P(<<"x.js", "x.txt">>) :> "txt")
  @@ (W(<<"d", "x.js">>) :> "js") @@ (W(<<"d", "x.txt">>) :> "txt")
  @@ (W(<<"q", "x.txt">>) :> "txt") @@ (W(<<"q", "x.txt", "x.js">>) :> "js")
  @@ (W(<<>>) :> "") @@ (W(<<"d">>) :> "") @@ (W(<<"q">>) :> "")
  @@ (V(<<"d", "x.tpl">>) :> "tpl") @@ (V(<<"d", "x.js">>) :> "js")
  @@ (V(<<"e", "x.js">>) :> "js")
  @@ (<<"app", "n", "x.txt">> :> "txt")
  @@ (<<"out", "x.txt">> :> "txt")
  @@ (V(<<"d">>) :> "") @@ (P(<<>>) :> "") @@ (V(<<>>) :> "") @@ (V(<<"e">>) :> "")
  @@ (Root :> "") @@ (<<"app", "n">> :> "") @@ (<<"out">> :> "")
FilePaths == {p \in DOMAIN Extensions : Extensions[p] # ""}
Directories == {p \in DOMAIN Extensions : Extensions[p] = ""} \cup {P(<<"x.js">>)}   \* and a file's

\* A templated place: templates are prepared for require, or for fs.
Plain(ext) == [ext |-> ext, writable |-> TRUE, zeroCopy |-> FALSE, compress |-> None,
               script |-> None, fallback |-> None, prepare |-> None]
Off == [enabled |-> TRUE, provider |-> "sab", origin |-> None, fs |-> None,
        require |-> None, import |-> None]
Templates == [ext |-> {"js", "tpl"}, compile |-> FALSE, prepare |-> Config!Listed({"tpl"})]

Cached0 == [Off EXCEPT !.fs = Plain({"js"}), !.require = Templates]
Virtual == [Off EXCEPT !.provider = "map", !.origin = "virtual",
                       !.fs = [Plain(None) EXCEPT !.prepare = Config!Listed({"tpl"})]]
Native == [Off EXCEPT !.provider = "disk", !.fs = Plain(None)]
Fixed == [Cached0 EXCEPT !.fs.writable = FALSE, !.fs.fallback = "deny"]
Fallback(place, to) == [place EXCEPT !.fs.fallback = to]

With(strict, oversize, places) == [strict |-> strict, oversize |-> oversize, places |-> places]
Considered ==
  {With(TRUE, {}, [p |-> [Cached0 EXCEPT !.fs.ext = {"js", "tpl"}], v |-> Virtual, n |-> Native]),
   With(TRUE, {big}, [p |-> Fallback(Cached0, "disk"), v |-> Virtual]),
   With(FALSE, {}, [p |-> Fallback(Cached0, "deny"), v |-> Virtual, w |-> Fixed]),
   With(FALSE, {}, [p |-> Fixed, v |-> Fixed, w |-> Fallback(Cached0, "deny")]),
   \* refused: an unrestricted place has no disk territory, templates prepared twice
   With(FALSE, {}, [p |-> Fallback([Cached0 EXCEPT !.fs = Plain(None)], "disk"), v |-> Virtual]),
   With(TRUE, {}, [p |-> [Cached0 EXCEPT !.fs = [Plain({"tpl"}) EXCEPT !.prepare = Config!Short]],
                   v |-> Virtual])}
=============================================================================
