---------------------------- MODULE Resolution ----------------------------
(***************************************************************************)
(* wgus.py: which version a run pins.                                      *)
(*                                                                         *)
(* The resolver asks a server for its metadata and then, language after    *)
(* language, for the patch chains of a release, each in a request of its   *)
(* own, while the server may come to offer another release between any two *)
(* of them.  It begins again, a bounded number of times, when it finds     *)
(* that out.                                                               *)
(*                                                                         *)
(* A history has the request of the run, its target, the offers of the     *)
(* servers in their order, and the files of every torrent.  An offer has   *)
(* the reply at each address, the version of its metadata, its name, the   *)
(* chains of each language, and the answers of the integrity service.      *)
(***************************************************************************)
EXTENDS AcquisitionPlan

CONSTANTS
    Histories,
    MaxRedirects,   \* ResolvePolicy.max_application_redirects
    MaxRefreshes    \* ResolvePolicy.max_metadata_refreshes

ASSUME MaxRedirects \in Nat /\ MaxRefreshes \in Nat

VARIABLES
    history,    \* what happens outside, and the request
    now,        \* the offer that the servers have
    ask,        \* what the resolver has read
    pinned      \* its result

resolveVars == <<history, now, ask, pinned>>

Server == history.offers[now]
Request == history.request

NoMeta == << >>
NotPinned == << >>
NoVersion == ""     \* a transition without version_from
All == << >>        \* the selector ALL

Asking(attempt, at, raw) ==
    [status |-> "asking", attempt |-> attempt, at |-> at, visited |-> {at}, meta |-> NoMeta,
     raw |-> raw]

Start == Asking(1, history.target.at, << >>)

Ended(status) == [Start EXCEPT !.status = status]

ResolveInit ==
    /\ history \in Histories
    /\ now = 1
    /\ ask = Start
    /\ pinned = NotPinned

-----------------------------------------------------------------------------
(* Requests.                                                               *)

Refuse == ask' = Ended("refused") /\ UNCHANGED <<history, now, pinned>>
GoOn(next) == ask' = next /\ UNCHANGED <<history, now, pinned>>

AsksForMetadata == ask.status = "asking" /\ ask.meta = NoMeta

\* The publisher comes to offer its next release.
Republish ==
    /\ now < Len(history.offers)
    /\ now' = now + 1
    /\ UNCHANGED <<history, ask, pinned>>

\* A request gets no answer, however often it is repeated.
SourceFails == ask.status = "asking" /\ GoOn(Ended("failed"))

\* _load_metadata: an address that serves nothing is a 404.
AskNobody ==
    /\ AsksForMetadata /\ ask.at \notin DOMAIN Server.addresses
    /\ Refuse

\* changed_game_info: another host, another application, or both.
Destination(move) ==
    [scheme |-> IF move.host = "" THEN ask.at.scheme ELSE move.scheme,
     host |-> IF move.host = "" THEN ask.at.host ELSE move.host,
     app |-> IF move.app = "" THEN ask.at.app ELSE move.app]

FollowMove ==
    /\ AsksForMetadata /\ ask.at \in DOMAIN Server.addresses
    /\ Server.addresses[ask.at].kind = "moved"
    /\ LET to == Destination(Server.addresses[ask.at])
       IN  IF /\ to.scheme = "https" \/ AllowHttp
              /\ to \notin ask.visited
              /\ Cardinality(ask.visited) <= MaxRedirects
           THEN GoOn([ask EXCEPT !.at = to, !.visited = @ \cup {to}])
           ELSE Refuse

LanguagesFor(meta) == IF Request.languages = All THEN meta.languages ELSE Request.languages

\* _validate_request.
RequiredParts ==
    {"client", "locale", "sdcontent"} \cup (IF Request.client = "hd" THEN {"hdcontent"} ELSE {})

IsServed(meta) ==
    /\ Request.client \in DOMAIN meta.clients
    /\ Elements(LanguagesFor(meta)) \subseteq Elements(meta.languages)
    /\ RequiredParts \subseteq {p.part : p \in Elements(meta.clients[Request.client])}
    /\ \A p \in Elements(meta.clients[Request.client]) : (p.part = "locale") = p.perLanguage

\* The metadata, whose app_id is the canonical one from here on.
AcceptMetadata ==
    /\ AsksForMetadata /\ ask.at \in DOMAIN Server.addresses
    /\ Server.addresses[ask.at].kind = "metadata"
    /\ LET meta == Server.addresses[ask.at]
           at == [ask.at EXCEPT !.app = meta.app]
       IN  IF (at = ask.at \/ at \notin ask.visited) /\ IsServed(meta)
           THEN GoOn([ask EXCEPT !.at = at, !.meta = meta])
           ELSE Refuse

\* The documents of this attempt, and the seeds of the last one of a language:
\* raw keeps those of earlier attempts.
Documents == Where(ask.raw, {d \in Elements(ask.raw) : d.attempt = ask.attempt})
SeedsOf(language) ==
    ask.raw[Max({i \in DOMAIN ask.raw : ask.raw[i].lang = language})].seeds

\* The resolve loop begins again where the metadata was found.
Again ==
    IF ask.attempt <= MaxRefreshes
    THEN GoOn(Asking(ask.attempt + 1, ask.at, ask.raw))
    ELSE Refuse

Missing == {i \in DOMAIN LanguagesFor(ask.meta) : i > Len(Documents)}

\* _load_patches: the server has other metadata by now, or answers.
ReadChain ==
    /\ ask.status = "asking" /\ ask.meta # NoMeta /\ Missing # {}
    /\ LET language == LanguagesFor(ask.meta)[Min(Missing)]
       IN  IF Server.version # ask.meta.version THEN Again
           ELSE IF language \notin DOMAIN Server.chains THEN Refuse
           ELSE GoOn([ask EXCEPT !.raw = Append(@,
                        [attempt |-> ask.attempt, lang |-> language, name |-> Server.name,
                         transitions |-> Server.chains[language].transitions,
                         seeds |-> Server.chains[language].seeds])])

-----------------------------------------------------------------------------
(* The version vector.                                                     *)

\* _connected_transitions.
Origin(transition) == IF transition.from = NoVersion THEN "0" ELSE transition.from

IsZeroStateList(transitions) ==
    /\ history.target.publisher = "lesta" /\ Len(transitions) > 1
    /\ \A i \in DOMAIN transitions : transitions[i].from = NoVersion

\* The transitions in the order in which they lead away from version 0.
Walk(transitions) ==
    LET Reached(done) == IF done = << >> THEN "0" ELSE done[Len(done)].to
        walk[n \in 0..Len(transitions)] ==
            IF n = 0 THEN << >>
            ELSE LET further == {i \in DOMAIN transitions :
                                    Origin(transitions[i]) = Reached(walk[n - 1])}
                 IN  IF further = {} THEN walk[n - 1]
                     ELSE Append(walk[n - 1], transitions[Min(further)])
    IN  walk[Len(transitions)]

Connected(transitions) ==
    IF IsZeroStateList(transitions) THEN transitions ELSE Walk(transitions)

\* No two targets of a zero-state list; no branch, no cycle and nothing apart in
\* a graph of versions.
IsConnected(transitions) ==
    LET versions == {transitions[i].to : i \in DOMAIN transitions}
    IN  /\ transitions # << >>
        /\ IF IsZeroStateList(transitions)
           THEN Cardinality(versions) = Len(transitions)
           ELSE /\ ~HasDuplicates([i \in DOMAIN transitions |-> Origin(transitions[i])])
                /\ Len(Walk(transitions)) = Len(transitions)
                /\ Cardinality(versions \cup {"0"}) = Len(transitions) + 1

TransitionsOf(chain, part) == Where(chain, {t \in Elements(chain) : t.part = part})

\* Mutant: only the end of the client's chain is compared.
SignatureOfClient(chain, part) ==
    LET connected == Connected(TransitionsOf(chain, part))
    IN  IF part = "client" THEN connected[Len(connected)].to ELSE ""

\* _part_signature: the version and the basis follow from the transitions.
Signature(chain, part) ==
    LET connected == Connected(TransitionsOf(chain, part))
    IN  [i \in DOMAIN connected |-> <<connected[i].from, connected[i].to>>]

Selected == ask.meta.clients[Request.client]

PartVerdict(document, part) ==
    IF ~IsConnected(TransitionsOf(document.transitions, part)) THEN "incompatible"
    ELSE IF part # "locale" /\ Signature(document.transitions, part)
                               # Signature(Documents[1].transitions, part) THEN "changed"
    ELSE "ok"

DocumentVerdicts(document) ==
    <<IF document.name = Documents[1].name THEN "ok" ELSE "changed",
      IF {t.part : t \in Elements(document.transitions)} = {p.part : p \in Elements(Selected)}
      THEN "ok" ELSE "incompatible">>
    \o [p \in DOMAIN Selected |-> PartVerdict(document, Selected[p].part)]

\* The first that is not in order decides.
Verdict ==
    LET verdicts == Concatenated([d \in DOMAIN Documents |-> DocumentVerdicts(Documents[d])])
        wrong == {i \in DOMAIN verdicts : verdicts[i] # "ok"}
    IN  IF wrong = {} THEN "ok" ELSE verdicts[Min(wrong)]

PinnedPart(document, part, language, seeds) ==
    LET connected == Connected(TransitionsOf(document.transitions, part))
        metadata == CHOOSE p \in Elements(Selected) : p.part = part
    IN  [part |-> part, lang |-> language, version |-> connected[Len(connected)].to,
         integrity |-> metadata.integrity, transitions |-> connected,
         basis |-> IF IsZeroStateList(connected)
                   THEN "ordered-zero-state-install" ELSE "explicit-version-graph",
         seeds |-> seeds]

\* The base parts of the first document, and the locale of each.
VersionVector ==
    LET base == Where(<<"client", "sdcontent", "hdcontent">>, {p.part : p \in Elements(Selected)})
    IN  [p \in DOMAIN base |->
            PinnedPart(Documents[1], base[p], NoLang, SeedsOf(Documents[1].lang))]
        \o [d \in DOMAIN Documents |->
               PinnedPart(Documents[d], "locale", Documents[d].lang, SeedsOf(Documents[d].lang))]

\* _build_version_vector.
Pin ==
    /\ ask.status = "asking" /\ ask.meta # NoMeta /\ Missing = {}
    /\ \/ /\ Verdict = "ok"
          /\ pinned' = [name |-> Documents[1].name, meta |-> ask.meta.version,
                        parts |-> VersionVector]
          /\ ask' = Ended("pinned")
          /\ UNCHANGED <<history, now>>
       \/ Verdict = "changed" /\ Again
       \/ Verdict = "incompatible" /\ Refuse

Resolve == SourceFails \/ AskNobody \/ FollowMove \/ AcceptMetadata \/ ReadChain \/ Pin

=============================================================================
