------------------------------ MODULE MCParts ------------------------------
(***************************************************************************)
(* Instances of the parts that meet the rest of the program only through   *)
(* their inputs and results.  A behaviour is one part at work on one input;*)
(* the others stay idle.                                                   *)
(***************************************************************************)
EXTENDS IndexStore, Chunker, Select, Modules, Compaction,
        Search, QueryTerms, Names, Router, Edges, Renumber, TLC

-----------------------------------------------------------------------------
(* IndexStore: two repositories that share content, two paths, files of one*)
(* or two chunks and of two sizes; a boot skips nothing, or one path above *)
(* a ceiling and the other whole.                                          *)

CONSTANTS r1, r2, p1, p2, h1, h2

MCRepos  == {r1, r2}
MCPaths  == {p1, p2}
MCHashes == {h1, h2}
MCSizes  == {"small", "large"}
Skipping(p, q) == {<<p, "large">>} \cup ({q} \X MCSizes)
MCRulings == {{}, Skipping(p1, p2), Skipping(p2, p1)}
Symmetry == Permutations(MCRepos) \cup Permutations(MCPaths) \cup Permutations(MCHashes)

-----------------------------------------------------------------------------
(* Chunker: four lines of every kind, or six with one endless line; symbols*)
(* side by side, nested, of one name, without an end, out of order, and a  *)
(* diagram's.                                                              *)

Ln(k, n) == [kind |-> k, runes |-> n]
Files ==
  [1 .. 4 -> {Ln("code", 5), Ln("comment", 5), Ln("star", 5), Ln("blank", 0)}] \cup
  {[rest EXCEPT ![2] = Ln(k, 60)] : k \in {"code", "comment"},
     rest \in [1 .. 5 -> {Ln("code", 5), Ln("comment", 9)}]}
Sy(n, l, e, sc, k) == [name |-> n, line |-> l, end |-> e, scope |-> sc, kind |-> k]
Symbols == {
  <<>>,
  <<Sy(<<"f">>, 2, 2, <<>>, "func"), Sy(<<"x">>, 3, 3, <<"f">>, "field"), Sy(<<"g">>, 4, 4, <<>>, "func")>>,
  <<Sy(<<"C">>, 1, 4, <<>>, "class"), Sy(<<"m">>, 2, 3, <<"C">>, "func"), Sy(<<"C">>, 4, 4, <<"C">>, "func")>>,
  <<Sy(<<"C">>, 1, 0, <<"shop">>, "class"), Sy(<<"m">>, 3, 0, <<"shop", "C">>, "func")>>,
  <<Sy(<<"g">>, 3, 3, <<>>, "func"), Sy(<<"f">>, 2, 2, <<>>, "func")>>,
  <<Sy(<<"p">>, 1, 1, <<>>, "func"), Sy(<<"d">>, 3, 4, <<>>, "diagram")>>}
Opts(t, m, o) == [target |-> t, max |-> m, overlap |-> o]
MCChunkCases == [lines : Files, syms : Symbols, strip : BOOLEAN,
                 opts : {Opts(7, 8, 3), Opts(7, 4, 9), Opts(4, 5, 0)}]

-----------------------------------------------------------------------------
(* Select: one name of each sort, in a place of each sort, of sizes around *)
(* the three ceilings.                                                     *)

Name(n, e, g, c, m, cf) ==
  [name |-> n, ext |-> e, generated |-> g, catalogue |-> c, manifest |-> m, config |-> cf]
FileNames == {
  Name("a.go", "code", FALSE, FALSE, FALSE, FALSE),
  Name("a.lock", "code", TRUE, FALSE, FALSE, FALSE),
  Name("build", "code", FALSE, FALSE, FALSE, FALSE),
  Name("a.json", "sized", FALSE, TRUE, FALSE, TRUE),
  Name("package.json", "sized", FALSE, TRUE, TRUE, TRUE),
  Name("a.csv", "data", FALSE, TRUE, FALSE, FALSE),
  Name("a.plist", "sized", FALSE, FALSE, FALSE, FALSE),
  Name("a.xsd", "schema", FALSE, FALSE, FALSE, FALSE)}
Places == {<<>>, <<"docs", "plans">>, <<"svc", "docs", "plans">>, <<"vendor">>,
           <<"svc", "build">>, <<"i18n">>}
MCSelectPaths == [segs : Places, base : FileNames]
Found == {"nul", "secretManifest", "credential", "marker"}
MCSelectBodies ==
  {b \in [raw : {1, 3, 5, 7}, redacted : {1, 3, 5}, nul : BOOLEAN,
          secretManifest : BOOLEAN, credential : BOOLEAN, marker : BOOLEAN] :
     Cardinality({f \in Found : b[f]}) <= 1}
MCExcludeLists == {{}, {<<"docs", "**">>}, {<<"**", "plans", "*">>},
                   {<<"**", "docs", "**", "a.go">>, <<"*">>}, {<<"docs", "">>}}

-----------------------------------------------------------------------------
(* Modules: every subset of five directories three deep, each with nothing,*)
(* one chunk, two (enough only together) or five (too much) in it; units   *)
(* nested and at the root.                                                 *)

Dirs == {<<>>, <<"a">>, <<"a", "b">>, <<"a", "b", "c">>, <<"a", "d">>}
FileIn(d, n) == [dir |-> d, name |-> "f", chunks |-> n, skipped |-> d = <<"a">> /\ n = 0]
MCTrees == UNION {{{FileIn(d, size[d]) : d \in ds} : size \in [ds -> {0, 1, 2, 5}]} :
                    ds \in SUBSET Dirs}
MCUnitSets == {{}, {<<"a", "b">>}, {<<"a">>, <<"a", "b", "c">>}, {<<>>}}

-----------------------------------------------------------------------------
(* Search: two corpora of four chunks with ties in every lane, a file of   *)
(* two, a second repository, a hub, a stage; K below and above the pool.   *)

Chunk(r, p, l, k, d, n, w, h) ==
  [repo |-> r, path |-> p, line |-> l, kind |-> k, dir |-> d, holds |-> h,
   near |-> [question |-> n[1], code |-> n[2]], words |-> [question |-> w[1], code |-> w[2]]]
MCCorpora == {
  {Chunk(1, 1, 1, "code", "", <<1, 2>>, <<1, 1>>, {"x", "w"}),
   Chunk(1, 1, 9, "code", "", <<1, 2>>, <<1, 1>>, {"x", "y", "w"}),
   Chunk(1, 2, 1, "test", "", <<1, 1>>, <<3, 2>>, {"x", "w"}),
   Chunk(2, 1, 1, "doc", "prod", <<2, 0>>, <<3, 0>>, {"w", "z"})},
  {Chunk(1, 1, 1, "code", "prod", <<0, 1>>, <<0, 2>>, {}),
   Chunk(2, 1, 1, "code", "prod", <<2, 1>>, <<0, 2>>, {"y"}),
   Chunk(2, 1, 5, "code", "prod", <<2, 1>>, <<2, 0>>, {"z"}),
   Chunk(2, 2, 1, "code", "test", <<1, 2>>, <<1, 1>>, {"x"})}}
Query(t, l, c, ts, r, s, k) ==
  [texts |-> t, ladder |-> l, code |-> c, terms |-> ts, repos |-> r, stage |-> s, k |-> k]
NoStage == [r \in {} |-> ""]
MCQueries == {
  Query(<<"question", "code">>, <<<<"strict", "prefix", "any">>, <<"any">>>>,
        "code", <<"w", "x", "y", "z">>, {}, NoStage, 2),
  Query(<<"question">>, <<<<"strict", "prefix">>>>, "", <<"z">>, {2}, NoStage, 2),
  Query(<<"code">>, <<<<"strict", "any">>>>, "code", <<"y", "x">>, {}, [r \in {2} |-> "prod"], 1),
  Query(<<"question", "code">>, <<<<>>, <<>>>>, "code", <<>>, {}, NoStage, 2),
  Query(<<>>, <<>>, "", <<>>, {}, NoStage, 2)}
MCPicks == {<<>>, <<2, 2>>, <<9, 3, 1>>}

-----------------------------------------------------------------------------
(* QueryTerms: questions of up to four words out of a function word, a     *)
(* short, a middling and a long one, and guesses with separators.          *)

German == {"der", "max", "anzahl", "fahrzeuge"}
MCWordRunes == [w \in German |-> CASE w \in {"der", "max"} -> 3 [] w = "anzahl" -> 6 [] OTHER -> 9]
MCAsked == [words : UNION {[1 .. n -> German] : n \in 0 .. 4},
            codes : {<<>>, <<<<"der">>, <<"anzahl", "fahrzeuge">>>>,
                     <<<<"max", "_", "anzahl">>, <<"fahrzeuge">>, <<"fahrzeuge", "max">>>>}]

-----------------------------------------------------------------------------
(* Names: a product of two repositories, one with a part, one named by a   *)
(* common word, one with a plural, one that shares a half with another and *)
(* one whose half ends in two s; questions of two words, two guesses.      *)

ShopUI == <<"shop", "ui">>
ShopBE == <<"shop", "be">>
SendUI == <<"transmission", "ui">>
Tools  == <<"media", "tools">>
Access == <<"data", "access">>
Peeq   == <<"peeq">>
Service == <<"service">>
Held == {ShopUI, ShopBE, SendUI, Tools, Access, Peeq, Service}
Segs == {"shop", "ui", "be", "tools", "tool", "media", "transmission", "peeq", "peek", "peeqs",
         "how", "service", "data", "access", "acces", "acce"}
MCSingular == [s \in Segs |-> CASE s = "tools" -> "tool" [] s = "peeqs" -> "peeq"
                                [] s = "access" -> "acces" [] s = "acces" -> "acce" [] OTHER -> s]
MCIndexes == {[repos |-> <<Access, Tools, Peeq, Service, ShopBE, ShopUI, SendUI>>,
               projects |-> (<<"shop">> :> {ShopUI, ShopBE}) @@ (Tools :> {Tools})
                              @@ (Peeq :> {Peeq, Service}) @@ (SendUI :> {SendUI})
                              @@ (Access :> {Access}),
               part |-> [r \in Held |-> IF r = Peeq THEN <<"be">> ELSE <<>>]]}
Spoken == {ShopUI, <<"shop">>, SendUI, <<"transmission">>, <<"tools">>, <<"tool">>, <<"peeqs">>,
           <<"peek">>, <<"peeq", "be">>, Service, Peeq, <<"how">>, <<"access">>}
MCReadings == [question : {{v, w} : v, w \in Spoken} \cup {{}},
               want : UNION {[1 .. n -> Spoken] : n \in 0 .. 2}]
MCCommon == {<<"ui">>, <<"be">>, Service}
MCOneEdit == {<<<<"peek">>, Peeq>>, <<Peeq, <<"peek">>>>}

-----------------------------------------------------------------------------
(* Router: up to four of nine hits, over a product of two repositories, a  *)
(* library and two more, with and without manifests and links.             *)

Hit(r, d, m, s, t) == [repo |-> r, dir |-> d, module |-> m, score |-> s, supporting |-> t]
HitPool == {
  Hit("shop-be", "a", "m", 10, FALSE), Hit("shop-be", "a/x", "m", 9, TRUE),
  Hit("shop-be", "b", "", 9, FALSE), Hit("shop-ui", "c", "", 8, FALSE),
  Hit("shop-ui", "d", "", 3, FALSE), Hit("loom", "a", "", 9, TRUE),
  Hit("loom", "e", "", 6, FALSE), Hit("lib", "f", "", 9, FALSE), Hit("peeq", "g", "", 8, FALSE)}
HitLists(n) ==
  UNION {{s \in [1 .. k -> HitPool] :
            \A i, j \in 1 .. k : i < j => s[i].score >= s[j].score /\ s[i] # s[j]} : k \in 1 .. n}
MCAsking ==
  [hits : HitLists(4), named : {{}}, allRepos : {FALSE}, dev : BOOLEAN] \cup
  [hits : HitLists(2), named : {{}, {"loom"}}, allRepos : {TRUE}, dev : {TRUE}]
HitRepos == {"shop-be", "shop-ui", "loom", "lib", "peeq"}
MCGrouping ==
  [of |-> [n \in Names |-> CASE n \in {"shop-be", "shop-ui"} -> "shop" [] n = "shop" -> None [] OTHER -> n],
   parked |-> {}, library |-> {"lib"}, uses |-> {<<"shop-be", "lib">>}]
Nothing == [r \in HitRepos |-> {}]
MCCorpus == {
  [grouping |-> MCGrouping, requires |-> Nothing, publishes |-> Nothing, below |-> {}, linked |-> {}],
  [grouping |-> MCGrouping, requires |-> [Nothing EXCEPT !["peeq"] = {"x/v2"}],
   publishes |-> [Nothing EXCEPT !["loom"] = {"x"}], below |-> {<<"x/v2", "x">>},
   linked |-> {<<"shop-be", "m", "b">>}]}

-----------------------------------------------------------------------------
(* Edges: every table of up to five of thirteen rows that holds the near    *)
(* one, in four repositories of which one may be parked.                   *)

Carries(r, p, e, k, v) == [repo |-> r, path |-> [name |-> p, ext |-> e], kind |-> k, value |-> v]
NearRow == Carries("a", "A", "java", "route", "/x/m")
RowPool == {
  Carries("a", "A", "java", "property", "key"), Carries("a", "B", "properties", "property", "key"),
  Carries("a", "C", "java", "link", "/m"), Carries("a", "J", "yaml", "image", "i:1"),
  Carries("b", "D", "ts", "route", "/m"), Carries("b", "D", "ts", "link", "/m"),
  Carries("b", "E", "java", "route", "/x/m"), Carries("b", "F", "properties", "property", "key"),
  Carries("c", "G", "go", "route", "/x/m"), Carries("c", "G", "go", "property", "key"),
  Carries("d", "H", "go", "route", "/x/m"), Carries("d", "I", "yaml", "image", "i:1")}
MCTables == {{NearRow} \cup s : s \in {s \in SUBSET RowPool : Cardinality(s) <= 4}}
MCEnabled == {{"a", "b", "c", "d"}, {"a", "b", "c"}}
MCTail == {<<"/x/m", "/m">>}

-----------------------------------------------------------------------------
(* Renumber: up to three of the fragments that open, close and break off    *)
(* markers, words and fences, and four of a few, in tokens of one and two. *)

Fragments == {
  <<"[", "2", "]">>, <<"[", "9", "]">>, <<"[", "1", ",", "_", "3", "]">>, <<"t", "t", "t">>,
  <<"t">>, <<"n">>, <<"_">>, <<"[">>, <<"u", "e", "x">>, <<"1", "2", "]">>,
  <<"[", "1", ",", "n", "2", "]">>, <<"u", "e">>}
Few == {<<"[", "2", "]">>, <<"t", "t">>, <<"t">>, <<"n">>, <<"x", "[", "1", "]">>}
Texts(parts, n) == {FlattenSeq(f) : f \in [1 .. n -> parts]}
MCAnswers ==
  [text : UNION {Texts(Fragments, n) : n \in 1 .. 3} \cup Texts(Few, 4), sources : {3}, german : {TRUE}] \cup
  [text : Texts(Fragments, 3), sources : {3}, german : {FALSE}]

-----------------------------------------------------------------------------
(* The parts together.                                                     *)


indexVars == <<chunkVars, selectVars, moduleVars, compactVars>>
findVars  == <<searchVars, queryVars, nameVars>>
routeVars == <<routerVars, edgeVars, streamVars>>

IndexIdle == ChunkIdle /\ SelectIdle /\ ModuleIdle /\ CompactIdle
FindIdle  == SearchIdle /\ QueryIdle /\ NameIdle
RouteIdle == RouterIdle /\ EdgeIdle /\ StreamIdle

PartsInit ==
  /\ Init
  /\ \/ /\ FindIdle /\ RouteIdle
        /\ \/ ChunkInit /\ SelectIdle /\ ModuleIdle /\ CompactIdle
           \/ ChunkIdle /\ SelectInit /\ ModuleIdle /\ CompactIdle
           \/ ChunkIdle /\ SelectIdle /\ ModuleInit /\ CompactIdle
           \/ ChunkIdle /\ SelectIdle /\ ModuleIdle /\ CompactInit
     \/ /\ IndexIdle /\ RouteIdle
        /\ \/ SearchInit /\ QueryIdle /\ NameIdle
           \/ SearchIdle /\ QueryInit /\ NameIdle
           \/ SearchIdle /\ QueryIdle /\ NameInit
     \/ /\ IndexIdle /\ FindIdle
        /\ \/ RouterInit /\ EdgeIdle /\ StreamIdle
           \/ RouterIdle /\ EdgeInit /\ StreamIdle
           \/ RouterIdle /\ EdgeIdle /\ StreamInit
     \/ IndexIdle /\ FindIdle /\ RouteIdle

IndexNext ==
  \/ ChunkNext /\ UNCHANGED <<selectVars, moduleVars, compactVars>>
  \/ SelectNext /\ UNCHANGED <<chunkVars, moduleVars, compactVars>>
  \/ ModuleNext /\ UNCHANGED <<chunkVars, selectVars, compactVars>>
  \/ CompactNext /\ UNCHANGED <<chunkVars, selectVars, moduleVars>>

FindNext ==
  \/ SearchNext /\ UNCHANGED <<queryVars, nameVars>>
  \/ QueryNext /\ UNCHANGED <<searchVars, nameVars>>
  \/ NameNext /\ UNCHANGED <<searchVars, queryVars>>

RouteNext ==
  \/ RouterNext /\ UNCHANGED <<edgeVars, streamVars>>
  \/ EdgeNext /\ UNCHANGED <<routerVars, streamVars>>
  \/ StreamNext /\ UNCHANGED <<routerVars, edgeVars>>

PartsNext ==
  \/ IndexNext /\ UNCHANGED <<findVars, routeVars, vars>>
  \/ FindNext /\ UNCHANGED <<indexVars, routeVars, vars>>
  \/ RouteNext /\ UNCHANGED <<indexVars, findVars, vars>>
  \/ Next /\ IndexIdle /\ FindIdle /\ RouteIdle /\ UNCHANGED <<indexVars, findVars, routeVars>>

PartsSpec == PartsInit /\ [][PartsNext]_<<indexVars, findVars, routeVars, vars>>
=============================================================================
