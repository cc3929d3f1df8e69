--------------------------- MODULE MCReleaseContent ---------------------------
(***************************************************************************)
(* A sample of releases: one that uses every way to deliver a file, ones   *)
(* that differ from it in what a client still can read, some that change   *)
(* while they are resolved, and ones that some stage has to refuse.        *)
(***************************************************************************)
EXTENDS ReleaseContent, TLC

Good == "torrent"
Url(host, replies) == [scheme |-> "https", host |-> host, replies |-> replies]
Urls == <<Url("a", <<Good, Good>>)>>
Seeds == <<[scheme |-> "https", host |-> "seed"], [scheme |-> "http", host |-> "a"]>>

File(path, body) ==
    [path |-> path, suffix |-> NotSplit, size |-> 1, padding |-> FALSE, sha1 |-> "", body |-> body]
Pieces(path, body, n) ==
    [i \in 1..n |-> [File(path, Piece(body, i, n)) EXCEPT !.suffix = i]]

Root(stem, ext) == Path("root", "", stem, ext)
Entry(dir, stem, ext) == Path("vfs", dir, stem, ext)
Res(dir, stem, ext) == Path("res", dir, stem, ext)
Pkg(stem) == Res("packages", stem, "pkg")
Arc(stem) == Root(stem, "wgpkg")

Text(id) == Body("text", id, << >>)
Zip(id, items) == Body("zip", id, items)
Listed(packages) ==
    Body("order", "order", [i \in DOMAIN packages |-> [path |-> packages[i], types |-> {}]])

-----------------------------------------------------------------------------
(* The packages, and the archives that bring them.                         *)

Tip == Entry("text", "tip", "txt")
InA == <<Packed(Tip, Text("tip a")), Packed(Entry("scripts", "hero", "pyc"), Body("pyc", "hero", << >>)),
         Packed(Entry("scripts", "hero", "def"), Body("packed", "def", << >>)),
         Packed(Entry("gui/flash/swc", Versioned, "swc"), Body("swc", "core", << >>))>>
InB == <<Packed(Upper(Tip), Text("tip b")), Packed(Entry("gui", "hangar", "js"), Body("web", "js", << >>))>>
InL == <<Packed(Tip, Text("tip l")), Packed(Entry("text", "menu", "mo"), Body("mo", "menu", << >>))>>

BaseFiles(inA, listed) ==
    <<File(PathsXml, Listed(listed)), File(Pkg("a"), Zip("a", inA)),
      File(Path("win64", "", "WorldOfTanks", "exe"), Body("exe", "exe", << >>)),
      File(Res("text", "tip", "txt"), Text("loose tip")),
      File(Root("version", "xml"), Text("version")),
      [File(Path("pad", "", "0", "pad"), Text("pad")) EXCEPT !.padding = TRUE]>>

Bundle2 == Zip("bundle", <<Packed(Pkg("b"), Zip("b", InB)),
                           Packed(Path("res_mods", "", "readme", "txt"), Text("readme")),
                           Packed(ServiceXml, Service(FALSE, 1, TRUE, FALSE))>>)
BundleL == Zip("locale", <<Packed(Pkg("l"), Zip("l", InL)), Packed(Res("text", "extra", "txt"), Text("extra"))>>)

-----------------------------------------------------------------------------
(* What the servers have.                                                  *)

Home == [scheme |-> "https", host |-> "a", app |-> "wot"]
Moved(host, app) == [kind |-> "moved", scheme |-> "https", host |-> host, app |-> app]

Meta(version, languages) ==
    [kind |-> "metadata", app |-> "wot", version |-> version, languages |-> languages,
     clients |-> [sd |-> <<[part |-> "sdcontent", integrity |-> TRUE, perLanguage |-> FALSE],
                           [part |-> "client", integrity |-> TRUE, perLanguage |-> FALSE],
                           [part |-> "locale", integrity |-> FALSE, perLanguage |-> TRUE]>>]]

Transition(part, from, to, files, descriptor) ==
    [part |-> part, from |-> from, to |-> to, files |-> files, descriptor |-> descriptor,
     urls |-> Urls]

Torrent(part, version, descriptor) ==
    [part |-> part, version |-> version, descriptor |-> descriptor, urls |-> Urls]

\* The whole client as one bundle, for those who cannot have the exact version.
Bundled(base) ==
    LET files == SelectSeq(base, LAMBDA f : ~f.padding)
    IN  <<File(Arc("c"), Zip("client", [i \in DOMAIN files |-> Packed(files[i].path, files[i].body)]))>>

Torrents(v, base, sd, locales) ==
    (<<"base", v>> :> base) @@ (<<"client", v>> :> Bundled(base)) @@ (<<"sd", v>> :> sd)
        @@ [key \in {<<l, v>> : l \in DOMAIN locales} |-> locales[key[1]]]

\* Version v, with the second part from version w.
OfferWith(v, w, torrents, locales) ==
    [name |-> v, version |-> v, addresses |-> Home :> Meta(v, locales),
     chains |-> [l \in Elements(locales) |->
        [transitions |->
            <<Transition("client", "", v, torrents[<<"client", v>>], <<"client", v>>),
              Transition("sdcontent", "", "0.9", torrents[<<"sd", w>>], <<"none", v>>),
              Transition("sdcontent", "", w, torrents[<<"sd", w>>], <<"sd", w>>),
              Transition("locale", "", v, torrents[<<l, v>>], <<l, v>>)>>,
         seeds |-> Seeds]],
     integrity |->
        (<<"client", NoLang>> :> [torrents |-> <<Torrent("client", v, <<"base", v>>)>>, seeds |-> Seeds])
        @@ [key \in {<<"sdcontent", NoLang>>} \cup {<<"locale", l>> : l \in Elements(locales)} |->
               [torrents |-> << >>, seeds |-> << >>]]]

Offer(v, torrents, locales) == OfferWith(v, v, torrents, locales)

History(offers, torrents) ==
    [request |-> [client |-> "sd", languages |-> All],
     target |-> [publisher |-> "lesta", at |-> Home], offers |-> offers, torrents |-> torrents]

Release(base, sd, locale) ==
    LET torrents == Torrents("1", base, sd, [en |-> locale])
    IN  History(<<Offer("1", torrents, <<"en">>)>>, torrents)

Order3 == <<Pkg("a"), Pkg("b"), Pkg("l")>>

\* With one change to the base, to the second part, or to the locale.
WithA(inA) == Release(BaseFiles(inA, Order3), <<File(Arc("x"), Bundle2)>>, Pieces(Arc("x"), BundleL, 2))
WithBase(files) == Release(files, <<File(Arc("x"), Bundle2)>>, Pieces(Arc("x"), BundleL, 2))
WithMore(path, body) == WithBase(BaseFiles(InA, Order3) \o <<File(path, body)>>)
WithSd(bundle) == Release(BaseFiles(InA, Order3), <<File(Arc("x"), bundle)>>, Pieces(Arc("x"), BundleL, 2))
WithLocale(bundle) == Release(BaseFiles(InA, Order3), <<File(Arc("x"), Bundle2)>>, <<File(Arc("x"), bundle)>>)

Plain == WithA(InA)

-----------------------------------------------------------------------------
(* A publisher that goes on: small releases of two versions, in two        *)
(* languages.                                                              *)

Small(text) ==
    <<File(PathsXml, Listed(<<Pkg("a")>>)), File(Pkg("a"), Zip("a", <<Packed(Tip, Text(text))>>)),
      File(Path("win64", "", "WorldOfTanks", "exe"), Body("exe", "exe", << >>))>>

SmallZip(path, text) == <<File(Arc("s"), Zip(text, <<Packed(path, Text(text))>>))>>

Both == <<"en", "ru">>
SmallTorrents(v, text) ==
    Torrents(v, Small(text), SmallZip(Res("text", text, "txt"), text),
             [en |-> SmallZip(Res("text", "locale", "txt"), text),
              ru |-> SmallZip(Res("text", "locale", "txt"), text)])
AllTorrents ==
    SmallTorrents("1", "old") @@ SmallTorrents("2", "new")
        @@ (<<"tree", "1">> :> <<File(Res("text", "old", "txt"), Text("old"))>>)

First == Offer("1", AllTorrents, Both)
Second == Offer("2", AllTorrents, Both)

\* Under the name and the metadata of the first one.
HotFix == [OfferWith("1", "2", AllTorrents, Both) EXCEPT !.chains =
             [l \in Elements(Both) |-> [@[l] EXCEPT !.transitions =
                [@ EXCEPT ![4] = Transition("locale", "", "2", AllTorrents[<<l, "2">>], <<l, "2">>)]]]]
LocaleFix == [First EXCEPT !.chains.ru.transitions[4] =
                 Transition("locale", "", "2", AllTorrents[<<"ru", "2">>], <<"ru", "2">>)]

Goes(offers) == History(offers, AllTorrents)

\* A graph of versions instead of a list, not in its order, at another address.
Graph(transitions) ==
    [Goes(<<[First EXCEPT !.chains = [l \in Elements(Both) |-> [transitions |->
                <<Transition("client", "", "1", AllTorrents[<<"client", "1">>], <<"client", "1">>),
                  Transition("locale", "", "1", AllTorrents[<<l, "1">>], <<l, "1">>)>> \o transitions,
                seeds |-> Seeds]]]>>)
       EXCEPT !.target.publisher = "wargaming", !.request.languages = <<"en">>]

To(from, to, v) == Transition("sdcontent", from, to, AllTorrents[<<"sd", v>>], <<"sd", v>>)

\* Only an exact torrent spares the client a step from one version to the next.
Exact(h) ==
    [h EXCEPT !.offers[1].integrity = (<<"sdcontent", NoLang>> :>
        [torrents |-> <<Torrent("sdcontent", "1", <<"tree", "1">>)>>, seeds |-> Seeds]) @@ @]
Steps == Graph(<<To("0.9", "1", "1"), To("0", "0.9", "2")>>)

At(host, app) == [scheme |-> "https", host |-> host, app |-> app]
Reached(addresses) == [Goes(<<First>>) EXCEPT !.offers[1].addresses = addresses]

MCGood ==
    {Plain,
     \* the other order of packages, one of them for another type of client
     WithBase([BaseFiles(InA, Order3) EXCEPT ![1] = File(PathsXml,
        Body("order", "order", <<[path |-> Pkg("c"), types |-> {"hd"}]>>
                               \o Listed(<<Pkg("b"), Pkg("a"), Pkg("l")>>).items))]),
     \* archives of one name, split, in two parts; a URL that does not answer
     [Release(BaseFiles(InA, Order3), Pieces(Arc("x"), Bundle2, 2), Pieces(Arc("x"), BundleL, 2))
        EXCEPT !.offers[1].chains.en.transitions[3].urls =
            <<Url("b", <<"lost", "busy">>), Url("c", <<"status", Good>>), Url("a", <<"busy", Good>>)>>],
     \* a bundle of the locale that only deletes; names that differ by layer
     WithLocale(Zip("locale", <<Packed(ServiceXml, Service(FALSE, 2, TRUE, FALSE))>>)),
     \* a file beside those that the patch chain declares
     [Plain EXCEPT !.torrents[<<"en", "1">>] = @ \o <<File(Root("notes", "txt"), Text("notes"))>>],
     \* another release while the run resolves or plans; hot fixes
     Goes(<<First, Second>>), Goes(<<First, HotFix>>), Goes(<<First, LocaleFix>>),
     \* a graph, an address that has moved, with another canonical application
     Exact(Steps), Reached((Home :> Moved("b", "")) @@ (At("b", "wot") :> [Meta("1", Both) EXCEPT !.app = "wot2"]))}

MCBad ==
    {\* resolve: addresses
     Reached((Home :> Moved("b", "")) @@ (At("b", "wot") :> Moved("a", ""))),
     Reached((Home :> Moved("b", "")) @@ (At("b", "wot") :> Moved("c", ""))
             @@ (At("c", "wot") :> Meta("1", Both))),
     Reached(Home :> [Moved("b", "") EXCEPT !.scheme = "http"]),
     Reached(Home :> Moved("", "gone")),
     Reached((Home :> Moved("", "wot2")) @@ (At("a", "wot2") :> Meta("1", Both))),
     \* requests, documents and graphs that do not fit; too many releases
     [Goes(<<First>>) EXCEPT !.request.languages = <<"en", "th">>],
     [Goes(<<First>>) EXCEPT !.request.client = "hd"],
     [Goes(<<First>>) EXCEPT !.offers[1].version = "stale"],
     [Goes(<<First>>) EXCEPT !.offers[1].chains.ru.transitions = SubSeq(@, 2, 4)],
     Graph(<<To("", "0.9", "1"), To("0", "1", "1")>>),
     Graph(<<To("", "0.9", "1"), To("0.9", "0", "1")>>),
     Graph(<<To("", "0.9", "1"), To("1", "2", "1")>>),
     [Goes(<<First>>) EXCEPT !.offers[1].chains.en.transitions[2].to = "1"],
     Goes(<<First, HotFix, Second>>),
     \* planning: a wrong digest, plain HTTP, pieces missing, more than one torrent
     [Plain EXCEPT !.offers[1].integrity = (<<"client", NoLang>> :>
        [torrents |-> <<[Torrent("client", "1", <<"base", "1">>)
            EXCEPT !.urls = <<Url("a", <<"wrong", Good>>)>>]>>, seeds |-> Seeds]) @@ @],
     [Plain EXCEPT !.offers[1].chains.en.seeds[2].host = "b"],
     [Plain EXCEPT !.offers[1].integrity = (<<"client", NoLang>> :>
        [torrents |-> <<Torrent("client", "1", <<"base", "1">>), Torrent("client", "2", << >>)>>,
         seeds |-> Seeds]) @@ @],
     Release(BaseFiles(InA, Order3), <<File(Arc("x"), Bundle2)>>, <<Pieces(Arc("x"), BundleL, 2)[2]>>),
     [Plain EXCEPT !.torrents[<<"sd", "1">>] = @ \o @],
     \* download: another content than declared
     [Plain EXCEPT !.torrents[<<"base", "1">>][2].sha1 = "other"],
     \* verify: an entry with a wrong CRC
     WithA([InA EXCEPT ![1].crc = "other"]),
     \* assemble-client: a step between versions, a delta, two files of one name
     Steps,
     WithSd(Zip("bundle", Bundle2.items \o <<Packed(Res("", "x", "rdiff"), Text("rdiff"))>>
                          \o <<Packed(ServiceXml, Service(TRUE, 0, FALSE, FALSE))>>)),
     WithMore(Upper(Path("res_mods", "", "readme", "txt")), Text("README")),
     \* index-vfs: two entries of one name, a package that paths.xml does not have
     WithA(<<Packed(Tip, Text("tip a")), Packed(Upper(Tip), Text("tip b"))>>),
     WithMore(Pkg("z"), Zip("z", << >>)),
     \* materialize-vfs: a wrong CRC in a package that comes in an archive
     WithSd(Zip("bundle", <<Packed(Pkg("b"), Zip("b", [InB EXCEPT ![2].crc = "other"]))>>)),
     \* plan-readable: two sources of one output, an unknown XML, a library of a locale
     WithA(InA \o <<Packed(Entry("scripts", "hero", "py"), Text("py"))>>),
     WithA(InA \o <<Packed(Entry("gui", "odd", "xml"), Body("noise", "odd", << >>))>>),
     WithLocale(Zip("locale", <<Packed(Res("gui/flash/swc", "fonts", "swc"), Body("swc", "fonts", << >>))>>)),
     \* transform-readable, decompile-actionscript, generate-engine-stubs, snapshot
     WithA([InA EXCEPT ![4].body.fmt = "fws"]),
     WithA(InA \o <<Packed(Entry("scripts", "junk", "pyc"), Text("junk"))>>),
     WithBase([BaseFiles(InA, Order3) EXCEPT ![3].path.ext = "bin"]),
     WithMore(Path("mods", "", "conf", "xml"), Body("packed", "conf", << >>))}

MCHistories == MCGood \cup MCBad

=============================================================================
