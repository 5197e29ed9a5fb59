----------------------------- MODULE MCBundles ------------------------------
(***************************************************************************)
(* The bundles of the runs: a photo and a note, and a relationship between *)
(* them, that refer to two files and say where one of them lies; with a    *)
(* schema and without; assets that are missing, corrupt or half put;       *)
(* manifests in and out of order; and what may become of the archive.  A   *)
(* path the change log still holds when no field of its name does, and two *)
(* references of one node to the same local file, are known to fail and    *)
(* not asked here.                                                         *)
(***************************************************************************)
EXTENDS Integers, FiniteSets, Sequences, TLC

MCBytes == {"one", "two"}
Hash(h)  == [hash |-> h]
Path(p)  == [path |-> p]
Words     == [text |-> "words"]
Item(f, v) == <<[field |-> f, value |-> v]>>

BundleSchema ==
  {[of |-> "Photo", field |-> "file", type |-> "String<blake3>"], [of |-> "Photo", field |-> "where", type |-> "String<file>"],
   [of |-> "SHOWN", field |-> "copy", type |-> "String<blake3>"], [of |-> "SHOWN", field |-> "where", type |-> "String<file>"],
   [of |-> "Note", field |-> "about", type |-> "String"]}
Photos == {Item("file", Hash("one")) \o Item("where", Path("p")), Item("where", Path("p")) \o Item("file", Hash("one")), Item("file", Hash("one")),
           Item("where", Path("q")), Item("file", Words), Item("file", Hash("two")) \o Item("where", Words), Item("file", [num |-> 1])}
Notes  == {<<>>, Item("about", Hash("two")), Item("about", Path("p"))}
Shows  == {<<>>, Item("copy", Hash("two")) \o Item("where", Path("p"))}
GraphOf(schema, photo, note, shown) ==
  [schema |-> schema,
   subjects |-> [n1 |-> [of |-> "Photo", props |-> photo], n2 |-> [of |-> "Note", props |-> note], r1 |-> [of |-> "SHOWN", props |-> shown]],
   past |-> {photo, shown}, log |-> <<photo, shown \o note>>]
BundleGraphs == {GraphOf(s, p, n, r) : s \in {<<>>, <<BundleSchema>>}, p \in Photos, n \in Notes, r \in Shows}

Holdings == {<<>>, "one" :> "one", "one" :> "two", ("one" :> "one") @@ ("two" :> "two")}
RemotesOf == {[is |-> "none"], [is |-> "no object"], [is |-> "remotes", of |-> "two" :> "url"], [is |-> "remotes", of |-> "two" :> "not a url"],
              [is |-> "remotes", of |-> ("one" :> "url") @@ ("other" :> "url")]}
Disks == {<<>>, ("p" :> "one") @@ ("q" :> "two"), "p" :> "two"}
BundleAt(graph, assets, manifest) == [graph |-> graph, assets |-> assets, manifest |-> manifest, strays |-> {}, folders |-> {}]
Ample == [entries |-> 20, entry |-> 9, total |-> 20]
Way(bundle, disk, include) ==
  [bundle |-> bundle, disk |-> disk, put |-> <<>>, hash |-> Hash("one"), path |-> <<Path("p")>>, include |-> include,
   carried |-> "as packed", limits |-> Ample, there |-> FALSE]

\* Which bundles are packed, and what of them.
Packings ==
  {Way(BundleAt(g, a, m), d, i) : g \in BundleGraphs, a \in Holdings, m \in {[is |-> "none"], [is |-> "remotes", of |-> "two" :> "url"]},
                                  d \in Disks, i \in BOOLEAN}
\* What becomes of an archive.
Journeys ==
  {[Way(BundleAt(GraphOf(s, p, <<>>, r), ("one" :> "one") @@ ("two" :> "two"), m), "p" :> "one", FALSE)
      EXCEPT !.carried = c, !.limits = l, !.there = t] :
     s \in {<<>>, <<BundleSchema>>}, p \in {Item("file", Hash("one")) \o Item("where", Path("p")), Item("file", Hash("one"))},
     r \in Shows, m \in {[is |-> "none"], [is |-> "no object"]}, t \in BOOLEAN,
     c \in {"as packed", "wrapped", "companions", "twice", "cut", "beside", "climbs", "linked", "folder"},
     l \in {Ample, [Ample EXCEPT !.entries = 4], [Ample EXCEPT !.entry = 1], [Ample EXCEPT !.total = 4], [Ample EXCEPT !.total = 3]}}
\* Puts, whole or not, and what references then resolve to.
Putting ==
  {[Way([BundleAt(GraphOf(<<>>, Item("file", Hash("one")), <<>>, <<>>), a, m) EXCEPT !.strays = s], d, TRUE)
      EXCEPT !.put = w, !.hash = h, !.path = p] :
     a \in Holdings, m \in RemotesOf, d \in Disks, s \in {{}, {"notes"}},
     w \in {<<"one", "whole">>, <<"one", "fails">>, <<"one", "stops">>},
     h \in {Hash("one"), Hash("two"), Words}, p \in {<<>>, <<Path("p")>>, <<Path("x")>>, <<Words>>}}
MCBundles == Packings \cup Journeys \cup Putting
=============================================================================
