------------------------------ MODULE Readable ------------------------------
(***************************************************************************)
(* readable.py: the materialised tree in a form that people can read.      *)
(***************************************************************************)
EXTENDS Vfs

Passthrough == "passthrough"
NoBundle == ""

\* The directories that end in gui/flash/swc, and a library file with a version.
LibraryDirs == {"gui/flash/swc", "mods/gui/flash/swc"}
Versioned == "core-1.2-SNAPSHOT"

\* What the five converters read.  Each of them rejects anything else.
Formats == [pyc |-> "pyc", mo |-> "mo", swc |-> "swc", packed |-> "packed", web |-> "web"]

-----------------------------------------------------------------------------
(* The plan.                                                               *)

\* _plan: by the suffix, and the first bytes of an XML file.
IsXml(path) == path.ext \in {"xml", "def"}

Kind(path, body) ==
    CASE path.ext \in {"pyc", "mo"}            -> path.ext
      [] IsXml(path) /\ body.fmt = "packed"    -> "packed"
      [] path.ext \in {"html", "css", "js"}    -> "web"
      [] OTHER                                 -> Passthrough

OutputPath(path, kind) ==
    [path EXCEPT !.ext = CASE kind = "pyc" -> "py" [] kind = "mo" -> "po" [] OTHER -> path.ext]

\* An XML file is packed, or text that starts with `<'.
IsKnownXml(path, body) ==
    IsXml(path) => body.fmt \in {"packed", "text", "order", "service"}

\* _is_actionscript_library, _actionscript_bundle_path.
IsLibrary(path) == path.ext = "swc" /\ path.dir \in LibraryDirs
Bundle(path) == IF path.stem = Versioned THEN "core" ELSE path.stem

InPlace(rot, m) == Read(rot, FileOf(m), m.body)

PlanEntry(rot, m) ==
    LET kind == Kind(m.path, InPlace(rot, m))
    IN  [source |-> m, lang |-> m.lang, output |-> OutputPath(m.path, kind), kind |-> kind,
         bundle |-> IF IsLibrary(m.path) THEN Bundle(m.path) ELSE NoBundle]

ReadablePlan(rot, tree) == {PlanEntry(rot, m) : m \in tree}

\* Mutant: only the source paths are compared.
OutputsAreNamedOnce(plan) ==
    \A d, e \in plan : d # e => d.lang # e.lang \/ Fold(d.source.path) # Fold(e.source.path)

\* _check_collisions, of outputs in one layer.
OutputsAreDisjoint(plan) ==
    \A d, e \in plan : d # e => d.lang # e.lang \/ Fold(d.output) # Fold(e.output)

\* _check_actionscript_bundle_collisions, over all layers; a library of a locale
\* is refused by the validators of the plan.
Libraries(plan) == {e \in plan : e.bundle # NoBundle}

LibrariesAreApart(plan) ==
    /\ \A d, e \in Libraries(plan) : d # e => d.bundle # e.bundle
    /\ \A e \in Libraries(plan) : e.lang = NoLang

\* plan-readable.
IsReadable(rot, tree) ==
    /\ \A m \in tree : IsKnownXml(m.path, InPlace(rot, m))
    /\ OutputsAreDisjoint(ReadablePlan(rot, tree))
    /\ LibrariesAreApart(ReadablePlan(rot, tree))

-----------------------------------------------------------------------------
(* The conversions.                                                        *)

\* What a converter makes of a file is a function of its bytes.
Via(kind, fmt, body) == [body EXCEPT !.fmt = fmt, !.via = kind]

Decompiled(body) == Via("pyc", "py", body)          \* Uncompyle6Transformer
Decoded(body) == Via("packed", "text", body)        \* PackedXmlDecoder
Catalogue(body) == Via("mo", "po", body)            \* MoCatalogueConverter
Formatted(body) == Via("web", "web", body)          \* PrettierFormatter
Scripts(body) == Via("swc", "as", body)             \* FfdecTransformer

\* _transform.
Converted(kind, body) ==
    CASE kind = "pyc"    -> Decompiled(body)
      [] kind = "packed" -> Decoded(body)
      [] kind = "mo"     -> Catalogue(body)
      [] kind = "web"    -> Formatted(body)

ReadableFile(e, body) ==
    [lang |-> e.lang, path |-> e.output, body |-> body, source |-> e.source, kind |-> e.kind]

ConversionsOf(plan) == {e \in plan : e.kind # Passthrough}

\* Mutant: what is converted is what is there.
SourceIsThere(rot, e) == InPlace(rot, e.source).fmt = e.source.body.fmt

\* _verify_transform_source.
SourceIsAsMaterialized(rot, e) == Sound(rot, FileOf(e.source), e.source.body)

\* The converters accept their own format only.
IsConvertible(rot, e, kind) ==
    SourceIsAsMaterialized(rot, e) /\ InPlace(rot, e.source).fmt = Formats[kind]

\* transform-readable, decompile-actionscript.
Transformed(rot, plan) ==
    {ReadableFile(e, Converted(e.kind, InPlace(rot, e.source))) : e \in ConversionsOf(plan)}

AreTransformable(rot, plan) == \A e \in ConversionsOf(plan) : IsConvertible(rot, e, e.kind)

Library(e, body) ==
    [path |-> Path("sources-as3", e.bundle, "Main", "as"), body |-> body, source |-> e.source]

LibrarySources(rot, plan) ==
    {Library(e, Scripts(InPlace(rot, e.source))) : e \in Libraries(plan)}

AreDecompilable(rot, plan) == \A e \in Libraries(plan) : IsConvertible(rot, e, "swc")

-----------------------------------------------------------------------------
(* The readable tree.  Its files are hard links.                           *)

InodeOf(f) ==
    IF f.kind = Passthrough THEN FileOf(f.source) ELSE Stored("transformed", f.lang, f.path)
InodeOfLibrary(f) == Stored("actionscript", NoLang, f.path)
InodeOfStub(f) == Stored("stubs", NoLang, f.path)

\* assemble-readable.
AssembledReadable(plan, transformed) ==
    {ReadableFile(e, e.source.body) : e \in plan \ ConversionsOf(plan)}
    \cup {f \in transformed : \E e \in ConversionsOf(plan) : f.lang = e.lang /\ f.path = e.output}

HasAllOutputs(plan, transformed) ==
    \A e \in ConversionsOf(plan) : \E f \in transformed : f.lang = e.lang /\ f.path = e.output

LayersAreSound(rot, files, libraries) ==
    /\ \A f \in files : Sound(rot, InodeOf(f), f.body)
    /\ \A f \in libraries : Sound(rot, InodeOfLibrary(f), f.body)

\* find_main_binaries: the game and its Python, or else the largest native file.
NativeFiles(tree) ==
    {f \in tree : f.lang = NoLang /\ f.path.ext \in {"exe", "dll", "pyd"}}
GameFiles(tree) ==
    {f \in NativeFiles(tree) : /\ f.path.top = "win64" /\ f.path.ext = "exe"
                               /\ f.path.stem \in {"WorldOfTanks", "Tanki"} /\ ~f.path.upper}

Binaries(tree) ==
    IF GameFiles(tree) # {}
    THEN GameFiles(tree) \cup {f \in NativeFiles(tree) : /\ f.path.top = "win64"
                                                        /\ f.path.stem = "python27"}
    ELSE IF NativeFiles(tree) = {} THEN {} ELSE {CHOOSE f \in NativeFiles(tree) : TRUE}

\* generate-engine-stubs; what is read of the binaries, and of the converted
\* sources, is not compared with a digest.
Stubs(rot, tree) ==
    {[path |-> Path("stubs", "", "BigWorld", "pyi"),
      body |-> Body("pyi", "stubs", <<{Opened(rot, f) : f \in Binaries(tree)}>>)]}

\* finalize-readable: _audit_readable.
IsFinalizable(rot, files, libraries, stubs) ==
    /\ LayersAreSound(rot, files, libraries)
    /\ \A f \in files : f.path.ext \notin {"pyc", "mo"}
    /\ \A f \in files : IsXml(f.path) => f.body.fmt # "packed"
    /\ \A f \in stubs : Sound(rot, InodeOfStub(f), f.body)

=============================================================================
