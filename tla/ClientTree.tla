----------------------------- MODULE ClientTree -----------------------------
(***************************************************************************)
(* client_tree.py: the verified artifacts are laid out as the client's     *)
(* directories, one layer for the base and one for each locale.            *)
(***************************************************************************)
EXTENDS Verification

DiffSuffixes == {"rdiff", "xdiff", "wdsfc"}
ServiceXml == Path("service", "", "service", "xml")

\* _process_service: what service.xml asks for.
Service(applies, deletes, first, others) ==
    Body("service", "service", <<[applies |-> applies, deletes |-> deletes,
                                  first |-> first, others |-> others]>>)

\* _extract_native overwrites an entry with a later one of the same name.
LastOf(items) ==
    {items[i] : i \in {j \in DOMAIN items :
                         ~\E k \in DOMAIN items : k > j /\ items[k].path = items[j].path}}

\* _extract_zip and _audit_extraction: no two names that differ in case only.
Collide(entries) == \E d, e \in entries : d # e /\ Fold(d.path) = Fold(e.path)

IsExtractable(body) ==
    /\ body.fmt \in Archives
    /\ EntriesAreIntact(body)
    /\ body.fmt = "zip" =>
          \A i, j \in DOMAIN body.items :
             i # j => Fold(body.items[i].path) # Fold(body.items[j].path)
    /\ ~Collide(LastOf(body.items))
    /\ \A e \in LastOf(body.items) : e.body.fmt # "link"

ServiceOf(body) == {e.body : e \in {x \in LastOf(body.items) : x.path = ServiceXml}}

\* A bundle that changes files of an earlier version cannot be applied.
AppliesToNothing(body) ==
    IF ServiceOf(body) = {}
    THEN \A e \in LastOf(body.items) : e.path.ext \notin DiffSuffixes
    ELSE \A s \in ServiceOf(body) : s.fmt = "service" /\ ~s.items[1].applies

OnlyDeletes(body) ==
    \E s \in ServiceOf(body) : /\ s.items[1].deletes > 0 /\ s.items[1].first
                               /\ ~s.items[1].others

\* The directory _service goes, if it has a service.xml.
Installed(body) ==
    {e \in LastOf(body.items) : ServiceOf(body) = {} \/ e.path.top # "service"}

TreeFile(unit, path, body) ==
    [lang |-> unit.artifact.lang, path |-> path, body |-> body, part |-> unit.artifact.part,
     version |-> unit.artifact.version, source |-> unit.name]

\* _install_reference, _install_bundle.
FilesOf(unit, body) ==
    IF unit.artifact.role = "client-file"
    THEN {TreeFile(unit, unit.artifact.path, unit.body)}
    ELSE {TreeFile(unit, e.path, e.body) : e \in Installed(body)}

IsBundle(unit, body) ==
    /\ unit.artifact.transition.from \in {"", "0"}
    /\ IsExtractable(body)
    /\ AppliesToNothing(body)
    /\ Installed(body) # {} \/ OnlyDeletes(body)

ExtractedFrom(rot, unit) == Read(rot, Blob(unit.body), unit.body)

\* _claim_path: within a layer a name is used once, in any case.
ClaimsAreDisjoint(files) ==
    \A f, g \in files : f # g => f.lang # g.lang \/ Fold(f.path) # Fold(g.path)

TreeOf(rot, units) == UNION {FilesOf(unit, ExtractedFrom(rot, unit)) : unit \in units}

LocaleRoots(units) == {unit.artifact.lang : unit \in units} \ {NoLang}

\* ClientTreeAssembler.assemble, and _audit_tree of its result.
IsAssemblable(rot, units) ==
    /\ \A unit \in units :
          unit.artifact.role = "delivery-bundle" => IsBundle(unit, ExtractedFrom(rot, unit))
    /\ TreeOf(rot, units) # {}
    /\ ClaimsAreDisjoint(TreeOf(rot, units))
    /\ BlobsAreSound(rot, {f.body : f \in TreeOf(rot, units)})

=============================================================================
