-------------------------- MODULE AcquisitionPlan --------------------------
(***************************************************************************)
(* acquisition.py: from a pinned version to the artifacts to download.     *)
(*                                                                         *)
(* A release is what the resolve stage has pinned and what the servers     *)
(* have: the parts with the transitions of their patch chains and the      *)
(* torrents that the integrity service names, the files of each torrent,   *)
(* and what each URL of a descriptor answers, request after request.       *)
(***************************************************************************)
EXTENDS Content

CONSTANTS AllowHttp, HttpAttempts

ASSUME PolicyAssumption == AllowHttp \in BOOLEAN /\ HttpAttempts \in Nat \ {0}

NotSplit == -1      \* a file name without the suffix .001, .002, ...
NoSegment == [group |-> << >>, index |-> 0, count |-> 0]
NoTransition == [from |-> "", to |-> ""]

\* _descriptor, one URL: what cannot be had is asked for again, another status
\* sends the planner to the next URL, and any other answer decides.
Answer(replies) ==
    LET deciding == {i \in 1..HttpAttempts : replies[i] \notin {"lost", "busy"}}
        reply == replies[Min(deciding)]
    IN  IF deciding = {} \/ reply = "status" THEN "next" ELSE reply

\* _validate_download_url.
UrlsAreValid(urls) == \A i \in DOMAIN urls : urls[i].scheme = "https" \/ AllowHttp

\* One URL after another; the bytes must have the declared SHA-256, and come
\* from HTTPS unless plain HTTP is allowed.
Fetched(urls) ==
    LET deciding == {i \in DOMAIN urls : Answer(urls[i].replies) # "next"}
        answer == Answer(urls[Min(deciding)].replies)
    IN  /\ deciding # {}
        /\ answer = "torrent" \/ (answer = "via http" /\ AllowHttp)

\* _resolved_web_seeds: plain HTTP needs a descriptor that the same host serves
\* by HTTPS.
SecureHosts(urls) == {urls[i].host : i \in {j \in DOMAIN urls : urls[j].scheme = "https"}}

SeedsAreProven(seeds, urls) ==
    \A i \in DOMAIN seeds :
        seeds[i].scheme = "https" \/ seeds[i].host \in SecureHosts(urls) \/ AllowHttp

\* Mutant: whatever version the service answers with.
MatchingPart(part) == {i \in DOMAIN part.torrents : part.torrents[i].part = part.part}

\* An exact torrent of the integrity service is a reference; more than one
\* torrent beside a match is refused.
Matching(part) == {i \in DOMAIN part.torrents : /\ part.torrents[i].part = part.part
                                                /\ part.torrents[i].version = part.version}
IsReference(part) == Matching(part) # {} /\ Len(part.torrents) = 1
IsAmbiguous(part) == Matching(part) # {} /\ Len(part.torrents) # 1

\* A part with what integrity_check answers, if it is asked: a reference comes
\* from the web seeds of that answer.
WithAnswer(part, torrents, seeds) ==
    [part |-> part.part, lang |-> part.lang, version |-> part.version,
     transitions |-> part.transitions, basis |-> part.basis, torrents |-> torrents,
     seeds |-> seeds]

Answered(part, answer) ==
    LET torrents == IF part.integrity THEN answer.torrents ELSE << >>
        asked == WithAnswer(part, torrents, part.seeds)
    IN  IF IsReference(asked) THEN WithAnswer(part, torrents, answer.seeds) ELSE asked

\* The transitions to install: an ordered chain restarts at its last.
Chain(part) ==
    IF part.basis = "ordered-zero-state-install"
    THEN <<part.transitions[Len(part.transitions)]>>
    ELSE part.transitions

\* The torrents that a part needs, in the order they are asked for.
Sources(part) == IF IsReference(part) THEN part.torrents ELSE Chain(part)

-----------------------------------------------------------------------------
(* Artifacts.                                                              *)

HasDuplicates(seq) == \E i, j \in DOMAIN seq : i # j /\ seq[i] = seq[j]

\* A descriptor that names a path once.
IsTorrent(release, source) ==
    /\ source.descriptor \in DOMAIN release.torrents
    /\ LET files == release.torrents[source.descriptor]
       IN  ~HasDuplicates([i \in DOMAIN files |-> <<files[i].path, files[i].suffix>>])

PhysicalFiles(release, source) ==
    LET files == release.torrents[source.descriptor]
    IN  Where(files, {f \in Elements(files) : ~f.padding})

Artifact(part, source, role, file, transition, segment) ==
    [role |-> role, part |-> part.part, lang |-> part.lang, version |-> part.version,
     path |-> file.path, suffix |-> file.suffix, size |-> file.size, sha1 |-> file.sha1,
     descriptor |-> source.descriptor, transition |-> transition, segment |-> segment]

\* _reference_plan.
ReferenceArtifacts(release, part) ==
    LET source == part.torrents[1]
        files == PhysicalFiles(release, source)
    IN  [i \in DOMAIN files |->
            Artifact(part, source, "client-file", files[i], NoTransition, NoSegment)]

\* _split_segments groups the files of one archive by directory and base name.
SplitGroup(files, file) == {i \in DOMAIN files : /\ files[i].suffix # NotSplit
                                                 /\ files[i].path = file.path}
SegmentsAreContiguous(files) ==
    \A i \in DOMAIN files : files[i].suffix # NotSplit =>
        LET group == SplitGroup(files, files[i])
        IN  {files[j].suffix : j \in group} = 1..Cardinality(group)

\* Mutant: the group is not told from those of other parts and transitions.
SegmentOfBase(part, transition, files, file) ==
    IF file.suffix = NotSplit THEN NoSegment
    ELSE [group |-> <<file.path>>,
          index |-> file.suffix, count |-> Cardinality(SplitGroup(files, file))]

Segment(part, transition, files, file) ==
    IF file.suffix = NotSplit THEN NoSegment
    ELSE [group |-> <<file.path, part.part, part.lang, transition.to>>,
          index |-> file.suffix, count |-> Cardinality(SplitGroup(files, file))]

\* _install_transition_artifacts: what the patch chain declares is in the torrent,
\* with the same size.
IsInTorrent(release, transition, file) ==
    \E i \in DOMAIN PhysicalFiles(release, transition) :
        LET there == PhysicalFiles(release, transition)[i]
        IN  /\ there.path = file.path /\ there.suffix = file.suffix
            /\ there.size = file.size

InTorrent(release, transition, file) ==
    LET files == PhysicalFiles(release, transition)
    IN  files[CHOOSE i \in DOMAIN files : /\ files[i].path = file.path
                                          /\ files[i].suffix = file.suffix]

TransitionArtifacts(release, part, transition) ==
    LET files == transition.files
    IN  [i \in DOMAIN files |->
            Artifact(part, transition, "delivery-bundle", InTorrent(release, transition, files[i]),
                     [from |-> transition.from, to |-> transition.to],
                     Segment(part, transition, files, files[i]))]

\* _install_plan.
IsInstallable(release, part) ==
    /\ Chain(part)[Len(Chain(part))].to = part.version
    /\ \A t \in DOMAIN Chain(part) :
          LET transition == Chain(part)[t]
          IN  /\ transition.files # << >>
              /\ transition.urls # << >>
              /\ SegmentsAreContiguous(transition.files)
              /\ \A i \in DOMAIN transition.files :
                    IsInTorrent(release, transition, transition.files[i])

Concatenated(seqs) ==
    LET upto[n \in 0..Len(seqs)] == IF n = 0 THEN << >> ELSE upto[n - 1] \o seqs[n]
    IN  upto[Len(seqs)]

PartArtifacts(release, part) ==
    IF IsReference(part)
    THEN ReferenceArtifacts(release, part)
    ELSE Concatenated([t \in DOMAIN Chain(part) |->
                          TransitionArtifacts(release, part, Chain(part)[t])])

-----------------------------------------------------------------------------
AllSources(release) == Concatenated([p \in DOMAIN release.parts |-> Sources(release.parts[p])])

\* A descriptor is fetched when it is first needed, and then kept.
DescriptorsAreFetched(release) ==
    \A i \in DOMAIN AllSources(release) :
        LET source == AllSources(release)[i]
        IN  /\ UrlsAreValid(source.urls)
            /\ \/ Fetched(source.urls)
               \/ \E j \in 1..(i - 1) : AllSources(release)[j].descriptor = source.descriptor

Plan(release) == Concatenated([p \in DOMAIN release.parts |->
                                  PartArtifacts(release, release.parts[p])])

\* AcquisitionPlanner.plan, and the validators of its result.
IsPlannable(release) ==
    /\ Len(release.parts) >= 3
    /\ ~HasDuplicates([p \in DOMAIN release.parts |->
                          <<release.parts[p].part, release.parts[p].lang>>])
    /\ \A p \in DOMAIN release.parts :
          LET part == release.parts[p]
          IN  /\ ~IsAmbiguous(part)
              /\ \A s \in DOMAIN Sources(part) : IsTorrent(release, Sources(part)[s])
              /\ IF IsReference(part)
                 THEN PhysicalFiles(release, part.torrents[1]) # << >>
                 ELSE IsInstallable(release, part)
              /\ \A s \in DOMAIN Sources(part) :
                    SeedsAreProven(part.seeds, Sources(part)[s].urls)
    /\ DescriptorsAreFetched(release)
    /\ ~HasDuplicates(Plan(release))

=============================================================================
