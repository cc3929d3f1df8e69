------------------------ MODULE ReleaseContent_proof ------------------------
(***************************************************************************)
(* What ReleaseContent promises, for every history that satisfies          *)
(* HistoriesAssumption and any number of stored files that change.         *)
(*                                                                         *)
(* The proof has four parts. The first is about the operators: what the    *)
(* stages would make of a release whose stored files never change is what  *)
(* its client reads (TreeIsTheClient, MaterializedIsFound,                 *)
(* FilesOfTheSnapshot, LibrariesOfTheSnapshot, SourcesOfTheSnapshot). The  *)
(* second is about the run: what a stage accepts of files that may have    *)
(* changed is what it would have made of the unchanged ones                *)
(* (VerifyUnchanged, AssembleUnchanged, IndexUnchanged, ...), so that      *)
(* ResultsAreOfTheUnchanged is invariant (ContentInv). The third is about  *)
(* the resolver: all that it has read is from some offer, and what it pins *)
(* of that is one release (OriginInv). Only this part uses                 *)
(* PublisherAssumption. The fourth is about the runs that end before they  *)
(* seal: a stage that has refused did not accept what it found             *)
(* (RefusalInv), and what it found is the client's own (ContentInv), so    *)
(* that the client has the flaw.                                           *)
(***************************************************************************)
EXTENDS ReleaseContent, WellFoundedInduction, FiniteSetTheorems, TLAPS

-----------------------------------------------------------------------------
(* Induction over the natural numbers, and sequences.                      *)

\* The order of the natural numbers is well-founded.
LEMMA NatLess == \E R : /\ IsWellFoundedOn(R, Nat)
                        /\ \A m, n \in Nat : m < n => <<m, n>> \in R
<1> DEFINE R == {ss \in Nat \X Nat : ss[1] < ss[2]}
<1>1. IsWellFoundedOn(R, Nat)
  BY NatLessThanWellFounded DEF OpToRel
<1>2. \A m, n \in Nat : m < n => <<m, n>> \in R
  OBVIOUS
<1> HIDE DEF R
<1>3. QED
  BY <1>1, <1>2

LEMMA WellFoundedMinimum ==
    ASSUME NEW R, NEW T, IsWellFoundedOn(R, Nat), T \subseteq Nat, T # {}
    PROVE  \E x \in T : \A y \in T : ~(<<y, x>> \in R)
BY WFMin, Zenon

\* A set of natural numbers has a least element.
LEMMA LeastElement ==
    ASSUME NEW T, T \subseteq Nat, T # {}
    PROVE  \E x \in T : \A y \in T : x <= y
<1>1. PICK R : /\ IsWellFoundedOn(R, Nat)
               /\ \A m, n \in Nat : m < n => <<m, n>> \in R
  BY NatLess
<1>2. PICK x \in T : \A y \in T : ~(<<y, x>> \in R)
  BY <1>1, WellFoundedMinimum
<1>3. ASSUME NEW y \in T
      PROVE  x <= y
  <2>1. ~(y < x)
    BY <1>1, <1>2
  <2> QED
    BY <2>1
<1> QED
  BY <1>3

\* A set of numbers that has 0, and the successor of each of its members, has all.
LEMMA NatSetInduction ==
    ASSUME NEW S, 0 \in S, \A n \in Nat : n \in S => n + 1 \in S
    PROVE  Nat \subseteq S
<1> DEFINE T == Nat \ S
<1>1. SUFFICES ASSUME T # {}
               PROVE  FALSE
  OBVIOUS
<1>2. PICK x \in T : \A y \in T : x <= y
  BY <1>1, LeastElement
<1>3. x # 0 /\ x \in Nat /\ x \notin S
  BY <1>2
<1>4. x - 1 \in S /\ x - 1 \in Nat
  BY <1>2, <1>3
<1>5. (x - 1) + 1 \in S
  BY <1>4
<1> QED
  BY <1>3, <1>5

IsRecursive(f, k, S, e, step) ==
    /\ f \in [0..k -> S] /\ f[0] = e
    /\ \A n \in 1..k : f[n] = step[<<n, f[n - 1]>>]

\* A function on 0..k may be defined by its value at 0 and a step from one value
\* to the next.
LEMMA Recursion ==
    ASSUME NEW k \in Nat, NEW S, NEW e \in S, NEW step \in [(1..k) \X S -> S]
    PROVE  \E f : IsRecursive(f, k, S, e, step)
<1> DEFINE Is(f, j) == /\ f \in [0..j -> S] /\ f[0] = e
                       /\ \A n \in 1..j : f[n] = step[<<n, f[n - 1]>>]
           Good == {j \in Nat : j <= k => \E f : Is(f, j)}
<1>1. 0 \in Good
  <2>1. Is([n \in 0..0 |-> e], 0)
    OBVIOUS
  <2> QED
    BY <2>1
<1>2. ASSUME NEW j \in Nat, j \in Good
      PROVE  j + 1 \in Good
  <2> SUFFICES ASSUME j + 1 <= k
               PROVE  \E f : Is(f, j + 1)
    OBVIOUS
  <2>1. PICK f : Is(f, j)
    BY <1>2
  <2> DEFINE last == step[<<j + 1, f[j]>>]
             g == [n \in 0..(j + 1) |-> IF n <= j THEN f[n] ELSE last]
  <2>2. f[j] \in S /\ j + 1 \in 1..k
    BY <2>1
  <2>3. last \in S
    BY <2>2
  <2> HIDE DEF last
  <2>4. g \in [0..(j + 1) -> S] /\ g[0] = e
    BY <2>1, <2>3
  <2>5. ASSUME NEW n \in 1..(j + 1)
        PROVE  g[n] = step[<<n, g[n - 1]>>]
    <3>1. g[n - 1] = f[n - 1] /\ n - 1 \in 0..j
      OBVIOUS
    <3>2. CASE n <= j
      BY <2>1, <3>1, <3>2
    <3>3. CASE n = j + 1
      <4>1. g[n] = last /\ g[n - 1] = f[j] /\ n = j + 1
        BY <3>1, <3>3
      <4>2. last = step[<<j + 1, f[j]>>]
        BY DEF last
      <4> QED
        BY <4>1, <4>2
    <3> QED
      BY <3>2, <3>3
  <2> QED
    BY <2>4, <2>5
<1>3. Nat \subseteq Good
  <2> HIDE DEF Good
  <2> QED
    BY <1>1, <1>2, NatSetInduction
<1>4. k \in Good
  BY <1>3
<1>5. PICK f : Is(f, k)
  BY <1>4
<1> QED
  BY <1>5 DEF IsRecursive

\* The domain and the length of a sequence.
LEMMA RangeOf == \A seq : IsSequence(seq) =>
                    /\ seq \in Seq(Elements(seq))
                    /\ Len(seq) \in Nat /\ DOMAIN seq = 1..Len(seq)
                    /\ \A i \in 1..Len(seq) : seq[i] \in Elements(seq)
BY DEF IsSequence, Elements

LEMMA ToSequence == ASSUME NEW S, NEW seq \in Seq(S) PROVE IsSequence(seq)
BY DEF IsSequence, Elements

IsFilter(f, seq, A) ==
    /\ f \in [0..Len(seq) -> Seq(Elements(seq))]
    /\ f[0] = << >> /\ Where(seq, A) = f[Len(seq)]
    /\ \A n \in 1..Len(seq) :
          f[n] = IF seq[n] \in A THEN Append(f[n - 1], seq[n]) ELSE f[n - 1]

\* The recursive function that Where is defined by exists.
LEMMA WhereDef ==
    ASSUME NEW seq, IsSequence(seq), NEW A
    PROVE  \E f : IsFilter(f, seq, A)
<1> DEFINE E == Elements(seq)
           S == Seq(E)
           k == Len(seq)
           nil == << >>
           step == [p \in (1..k) \X S |->
                      IF seq[p[1]] \in A THEN Append(p[2], seq[p[1]]) ELSE p[2]]
           upto[n \in 0..Len(seq)] ==
            IF n = 0 THEN << >>
            ELSE IF seq[n] \in A THEN Append(upto[n - 1], seq[n]) ELSE upto[n - 1]
<1>1. k \in Nat /\ \A n \in 1..k : seq[n] \in E
  BY RangeOf
<1>2. nil \in S
  OBVIOUS
<1> HIDE DEF E
<1>3. step \in [(1..k) \X S -> S]
  BY <1>1
<1> HIDE DEF S, k
<1>4. PICK f : /\ f \in [0..k -> S] /\ f[0] = nil
                 /\ \A n \in 1..k : f[n] = step[<<n, f[n - 1]>>]
  <2> HIDE DEF step, nil
  <2>1. k \in Nat
    BY <1>1
  <2>2. \E f : IsRecursive(f, k, S, nil, step)
    BY <2>1, <1>2, <1>3, Recursion
  <2> QED
    BY <2>2 DEF IsRecursive
<1>5. ASSUME NEW n \in 1..k
      PROVE  f[n] = IF seq[n] \in A THEN Append(f[n - 1], seq[n]) ELSE f[n - 1]
  <2>1. f[n - 1] \in S /\ <<n, f[n - 1]>> \in (1..k) \X S
    BY <1>1, <1>4
  <2>2. f[n] = step[<<n, f[n - 1]>>]
    BY <1>4
  <2> QED
    BY <2>1, <2>2
<1>6. f = [n \in 0..k |-> IF n = 0 THEN << >>
            ELSE IF seq[n] \in A THEN Append(f[n - 1], seq[n]) ELSE f[n - 1]]
  <2>1. \A n \in 0..k : n = 0 \/ n \in 1..k
    BY <1>1
  <2> HIDE DEF step
  <2> QED
    BY <1>4, <1>5, <2>1
<1>7. upto = [n \in 0..k |-> IF n = 0 THEN << >>
            ELSE IF seq[n] \in A THEN Append(upto[n - 1], seq[n]) ELSE upto[n - 1]]
  BY <1>6 DEF k
<1>8. Where(seq, A) = upto[k]
  BY DEF Where, k
<1> HIDE DEF upto, step
<1>9. upto \in [0..k -> S] /\ upto[0] = << >>
  <2> DEFINE T == {n \in Nat : n <= k => upto[n] \in S}
  <2>1. 0 \in T /\ upto[0] = << >>
    BY <1>1, <1>2, <1>7
  <2>2. ASSUME NEW n \in Nat, n \in T
        PROVE  n + 1 \in T
    <3> SUFFICES ASSUME n + 1 <= k
                 PROVE  upto[n + 1] \in S
      OBVIOUS
    <3>1. upto[n] \in S /\ n + 1 \in 1..k /\ n + 1 \in 0..k /\ (n + 1) - 1 = n /\ n + 1 # 0
      BY <1>1, <2>2
    <3>2. upto[n + 1] = IF seq[n + 1] \in A THEN Append(upto[n], seq[n + 1]) ELSE upto[n]
      BY <1>7, <3>1
    <3> QED
      BY <3>1, <3>2, <1>1 DEF S
  <2>3. Nat \subseteq T
    <3> HIDE DEF T
    <3> QED
      BY <2>1, <2>2, NatSetInduction
  <2>4. ASSUME NEW n \in 0..k
        PROVE  upto[n] \in S
    BY <2>3, <1>1
  <2> QED
    BY <2>1, <2>4, <1>7
<1>10. ASSUME NEW n \in 1..k
       PROVE  upto[n] = IF seq[n] \in A THEN Append(upto[n - 1], seq[n]) ELSE upto[n - 1]
  <2>1. n \in 0..k /\ n # 0
    BY <1>1
  <2> QED
    BY <1>7, <2>1, Zenon
<1> QED
  BY <1>8, <1>9, <1>10 DEF k, S, E, IsFilter, nil

LEMMA AppendedElements ==
    ASSUME NEW E, NEW s \in Seq(E), NEW x \in E
    PROVE  Elements(Append(s, x)) = Elements(s) \cup {x}
<1>1. /\ DOMAIN s = 1..Len(s) /\ Len(s) \in Nat
      /\ DOMAIN Append(s, x) = 1..(Len(s) + 1)
  OBVIOUS
<1>2. \A i \in 1..Len(s) : Append(s, x)[i] = s[i]
  OBVIOUS
<1>3. Append(s, x)[Len(s) + 1] = x
  OBVIOUS
<1>4. 1..(Len(s) + 1) = (1..Len(s)) \cup {Len(s) + 1}
  BY <1>1
<1> QED
  BY <1>1, <1>2, <1>3, <1>4, Zenon DEF Elements

\* What is left of a sequence is a sequence, of its elements that are in the set.
LEMMA WhereElements ==
    ASSUME NEW seq, IsSequence(seq), NEW A
    PROVE  /\ IsSequence(Where(seq, A))
           /\ Elements(Where(seq, A)) = {x \in Elements(seq) : x \in A}
<1> DEFINE k == Len(seq)
           S == Seq(Elements(seq))
<1> HIDE DEF k, S
<1>1. PICK f :
              /\ f \in [0..k -> S] /\ f[0] = << >> /\ Where(seq, A) = f[k]
              /\ \A n \in 1..k :
                    f[n] = IF seq[n] \in A THEN Append(f[n - 1], seq[n]) ELSE f[n - 1]
  <2>1. PICK f : IsFilter(f, seq, A)
    BY WhereDef
  <2> QED
    BY <2>1 DEF k, S, IsFilter
<1>2. k \in Nat /\ DOMAIN seq = 1..k /\ \A n \in 1..k : seq[n] \in Elements(seq)
  BY RangeOf DEF k
<1> DEFINE Upto(n) == {seq[i] : i \in 1..n}
           T == {n \in Nat : n <= k => Elements(f[n]) = {x \in Upto(n) : x \in A}}
<1>3. 0 \in T
  BY <1>1, <1>2 DEF Elements
<1>4. ASSUME NEW n \in Nat, n \in T
      PROVE  n + 1 \in T
  <2> SUFFICES ASSUME n + 1 <= k
               PROVE  Elements(f[n + 1]) = {x \in Upto(n + 1) : x \in A}
    OBVIOUS
  <2>1. n + 1 \in 1..k /\ n \in 0..k /\ (n + 1) - 1 = n
    BY <1>2
  <2>2. Elements(f[n]) = {x \in Upto(n) : x \in A}
    BY <1>4, <1>2
  <2>3. f[n + 1] = IF seq[n + 1] \in A THEN Append(f[n], seq[n + 1]) ELSE f[n]
    BY <1>1, <2>1
  <2>4. Upto(n + 1) = Upto(n) \cup {seq[n + 1]}
    <3>1. 1..(n + 1) = (1..n) \cup {n + 1}
      OBVIOUS
    <3> QED
      BY <3>1
  <2>5. f[n] \in Seq(Elements(seq))
    BY <1>1, <2>1 DEF S
  <2>6. CASE seq[n + 1] \in A
    <3> DEFINE s == f[n]
               x == seq[n + 1]
    <3>1. x \in Elements(seq) /\ s \in Seq(Elements(seq))
      BY <2>5, <2>1, <1>2
    <3> HIDE DEF s, x
    <3>2. Elements(Append(s, x)) = Elements(s) \cup {x}
      BY <3>1, AppendedElements
    <3> QED
      BY <2>2, <2>3, <2>4, <2>6, <3>2 DEF s, x
  <2>7. CASE seq[n + 1] \notin A
    BY <2>2, <2>3, <2>4, <2>7
  <2> QED
    BY <2>6, <2>7
<1>5. Nat \subseteq T
  <2> HIDE DEF T
  <2> QED
    BY <1>3, <1>4, NatSetInduction
<1>6. Elements(f[k]) = {x \in Upto(k) : x \in A}
  BY <1>2, <1>5
<1>7. Upto(k) = Elements(seq)
  BY <1>2 DEF Elements
<1>8. f[k] \in S
  BY <1>1, <1>2
<1> QED
  BY <1>1, <1>6, <1>7, <1>8, ToSequence DEF S

\* A concatenation has the elements of the sequences.
LEMMA ConcatenatedElements ==
    ASSUME NEW seqs, IsSequence(seqs), \A i \in DOMAIN seqs : IsSequence(seqs[i])
    PROVE  /\ IsSequence(Concatenated(seqs))
           /\ Elements(Concatenated(seqs)) = UNION {Elements(seqs[i]) : i \in DOMAIN seqs}
<1> DEFINE E == UNION {Elements(seqs[i]) : i \in DOMAIN seqs}
           S == Seq(E)
           k == Len(seqs)
           nil == << >>
           step == [p \in (1..k) \X S |-> p[2] \o seqs[p[1]]]
           upto[n \in 0..Len(seqs)] == IF n = 0 THEN << >> ELSE upto[n - 1] \o seqs[n]
<1>1. k \in Nat /\ DOMAIN seqs = 1..k
  BY RangeOf
<1>2. \A n \in 1..k : seqs[n] \in S
  <2> TAKE n \in 1..k
  <2>1. seqs[n] \in Seq(Elements(seqs[n])) /\ Elements(seqs[n]) \subseteq E
    BY <1>1 DEF IsSequence
  <2> HIDE DEF E
  <2> QED
    BY <2>1
<1>3. nil \in S
  OBVIOUS
<1> HIDE DEF E
<1>4. step \in [(1..k) \X S -> S]
  BY <1>2
<1> HIDE DEF S, k
<1>5. PICK f : /\ f \in [0..k -> S] /\ f[0] = nil
                 /\ \A n \in 1..k : f[n] = step[<<n, f[n - 1]>>]
  <2> HIDE DEF step, nil
  <2>1. k \in Nat
    BY <1>1
  <2>2. \E f : IsRecursive(f, k, S, nil, step)
    BY <2>1, <1>3, <1>4, Recursion
  <2> QED
    BY <2>2 DEF IsRecursive
<1>6. ASSUME NEW n \in 1..k
      PROVE  f[n] = f[n - 1] \o seqs[n]
  <2>1. f[n - 1] \in S /\ <<n, f[n - 1]>> \in (1..k) \X S
    BY <1>1, <1>5
  <2>2. f[n] = step[<<n, f[n - 1]>>]
    BY <1>5
  <2> QED
    BY <2>1, <2>2
<1>7. f = [n \in 0..k |-> IF n = 0 THEN << >> ELSE f[n - 1] \o seqs[n]]
  <2>1. \A n \in 0..k : n = 0 \/ n \in 1..k
    BY <1>1
  <2> HIDE DEF step
  <2> QED
    BY <1>5, <1>6, <2>1
<1>8. upto = [n \in 0..k |-> IF n = 0 THEN << >> ELSE upto[n - 1] \o seqs[n]]
  BY <1>7 DEF k
<1>9. Concatenated(seqs) = upto[k]
  BY DEF Concatenated, k
<1> HIDE DEF upto, step
<1> DEFINE Below(n) == UNION {Elements(seqs[i]) : i \in 1..n}
           T == {n \in Nat : n <= k => upto[n] \in S /\ Elements(upto[n]) = Below(n)}
<1>10. 0 \in T
  <2>1. upto[0] = << >> /\ Elements(<< >>) = {} /\ Below(0) = {}
    BY <1>1, <1>8 DEF Elements
  <2> QED
    BY <2>1, <1>3
<1>11. ASSUME NEW n \in Nat, n \in T
       PROVE  n + 1 \in T
  <2> SUFFICES ASSUME n + 1 <= k
               PROVE  upto[n + 1] \in S /\ Elements(upto[n + 1]) = Below(n + 1)
    OBVIOUS
  <2>1. upto[n] \in S /\ Elements(upto[n]) = Below(n)
    BY <1>11, <1>1
  <2>2. n + 1 \in 1..k /\ n + 1 \in 0..k /\ (n + 1) - 1 = n /\ n + 1 # 0
    BY <1>1
  <2>3. upto[n + 1] = upto[n] \o seqs[n + 1] /\ seqs[n + 1] \in S
    BY <1>8, <1>2, <2>2
  <2>4. ASSUME NEW s \in S, NEW t \in S
        PROVE  s \o t \in S /\ Elements(s \o t) = Elements(s) \cup Elements(t)
    <3>1. s \o t \in S /\ Len(s \o t) = Len(s) + Len(t) /\ Len(s) \in Nat /\ Len(t) \in Nat
      BY DEF S
    <3>2. ASSUME NEW i \in 1..(Len(s) + Len(t))
          PROVE  (s \o t)[i] \in Elements(s) \cup Elements(t)
      BY <3>1 DEF S, Elements
    <3>3. ASSUME NEW i \in 1..Len(s)
          PROVE  s[i] \in Elements(s \o t)
      <4>1. (s \o t)[i] = s[i] /\ i \in 1..(Len(s) + Len(t))
        BY <3>1 DEF S
      <4> QED
        BY <4>1, <3>1 DEF S, Elements
    <3>4. ASSUME NEW i \in 1..Len(t)
          PROVE  t[i] \in Elements(s \o t)
      <4>1. (s \o t)[Len(s) + i] = t[i] /\ Len(s) + i \in 1..(Len(s) + Len(t))
        BY <3>1 DEF S
      <4>2. DOMAIN (s \o t) = 1..(Len(s) + Len(t))
        BY <3>1 DEF S
      <4> QED
        BY <4>1, <4>2 DEF Elements
    <3>5. DOMAIN s = 1..Len(s) /\ DOMAIN t = 1..Len(t) /\ DOMAIN (s \o t) = 1..(Len(s) + Len(t))
      BY <3>1 DEF S
    <3> QED
      BY <3>1, <3>2, <3>3, <3>4, <3>5 DEF Elements
  <2>5. Below(n + 1) = Below(n) \cup Elements(seqs[n + 1])
    <3>1. 1..(n + 1) = (1..n) \cup {n + 1}
      OBVIOUS
    <3> QED
      BY <3>1
  <2> QED
    BY <2>1, <2>3, <2>4, <2>5
<1>12. Nat \subseteq T
  <2> HIDE DEF T
  <2> QED
    BY <1>10, <1>11, NatSetInduction
<1>13. upto[k] \in S /\ Elements(upto[k]) = Below(k)
  BY <1>12, <1>1
<1>14. Below(k) = E
  BY <1>1 DEF E
<1> QED
  BY <1>9, <1>13, <1>14, ToSequence DEF S, E

IsPinned(parts) ==
    /\ IsSequence(parts)
    /\ \A p \in Elements(parts) :
          /\ IsSequence(p.transitions) /\ p.transitions # << >>
          /\ \A t \in Elements(p.transitions) : IsSequence(t.files)

IsRelease(R) ==
    /\ IsPinned(R.parts)
    /\ \A p \in Elements(R.parts) : IsSequence(p.torrents)
    /\ \A d \in DOMAIN R.torrents :
          /\ IsSequence(R.torrents[d])
          /\ \A f \in Elements(R.torrents[d]) :
                IsPath(f.path) /\ IsFileBody(f.body) /\ IsFileAt(f.path, f.body)

LEMMA ReadUnchanged == \A file, body : Read({}, file, body) = body
BY DEF Read

-----------------------------------------------------------------------------
(* Torrents.                                                               *)

\* A torrent that is planned names each of its files once.
LEMMA ElementOfTorrent ==
    ASSUME NEW R, NEW source, IsTorrent(R, source),
           NEW f \in Elements(R.torrents[source.descriptor]),
           NEW g \in Elements(R.torrents[source.descriptor]),
           f.path = g.path, f.suffix = g.suffix
    PROVE  f = g
<1> DEFINE files == R.torrents[source.descriptor]
<1>1. PICK i \in DOMAIN files : files[i] = f
  BY DEF Elements
<1>2. PICK j \in DOMAIN files : files[j] = g
  BY DEF Elements
<1> DEFINE names == [n \in DOMAIN files |-> <<files[n].path, files[n].suffix>>]
<1>3. names[i] = names[j] /\ i \in DOMAIN names /\ j \in DOMAIN names
  BY <1>1, <1>2
<1>4. ~HasDuplicates(names)
  BY DEF IsTorrent
<1>5. i = j
  <2> HIDE DEF names
  <2> QED
    BY <1>3, <1>4 DEF HasDuplicates
<1> QED
  BY <1>1, <1>2, <1>5

\* What is downloaded under the name of a file is its content.
LEMMA ContentOfFile ==
    ASSUME NEW R, NEW source, IsTorrent(R, source),
           NEW f \in Elements(R.torrents[source.descriptor]),
           NEW a, a.descriptor = source.descriptor, a.path = f.path, a.suffix = f.suffix
    PROVE  ContentOf(R, a) = f.body
<1> DEFINE files == R.torrents[source.descriptor]
           Is(i) == files[i].path = a.path /\ files[i].suffix = a.suffix
           c == CHOOSE i \in DOMAIN files : Is(i)
<1>1. \E i \in DOMAIN files : Is(i)
  BY DEF Elements
<1>2. c \in DOMAIN files /\ Is(c)
  BY <1>1
<1>3. ContentOf(R, a) = files[c].body
  BY DEF ContentOf
<1> HIDE DEF c
<1>4. files[c] \in Elements(files)
  BY <1>2 DEF Elements
<1>5. files[c] = f
  BY <1>2, <1>4, ElementOfTorrent
<1> QED
  BY <1>3, <1>5

\* The files of a torrent, without the padding.
LEMMA PhysicalElements ==
    ASSUME NEW R, IsRelease(R), NEW source, IsTorrent(R, source)
    PROVE  /\ IsSequence(PhysicalFiles(R, source))
           /\ Elements(PhysicalFiles(R, source)) \subseteq Elements(R.torrents[source.descriptor])
<1> DEFINE files == R.torrents[source.descriptor]
<1>1. IsSequence(files)
  BY DEF IsRelease, IsTorrent
<1> HIDE DEF files
<1>2. PhysicalFiles(R, source) = Where(files, {f \in Elements(files) : ~f.padding})
  BY DEF PhysicalFiles, files
<1> QED
  BY <1>1, <1>2, WhereElements DEF files

\* The file that the plan takes for one that the patch chain declares.
LEMMA DeclaredFile ==
    ASSUME NEW R, IsRelease(R), NEW source, IsTorrent(R, source),
           NEW file, IsInTorrent(R, source, file)
    PROVE  /\ InTorrent(R, source, file) \in Elements(PhysicalFiles(R, source))
           /\ InTorrent(R, source, file).path = file.path
           /\ InTorrent(R, source, file).suffix = file.suffix
<1> DEFINE files == PhysicalFiles(R, source)
           Is(i) == files[i].path = file.path /\ files[i].suffix = file.suffix
           c == CHOOSE i \in DOMAIN files : Is(i)
<1>1. \E i \in DOMAIN files : Is(i)
  BY DEF IsInTorrent
<1>2. c \in DOMAIN files /\ Is(c)
  BY <1>1
<1>3. InTorrent(R, source, file) = files[c]
  BY DEF InTorrent
<1> HIDE DEF c, files
<1> QED
  BY <1>2, <1>3 DEF Elements, files

-----------------------------------------------------------------------------
(* The plan.                                                               *)

\* The transitions to install are transitions of the part, and there is one.
LEMMA ChainOfPart ==
    ASSUME NEW part, IsSequence(part.transitions), part.transitions # << >>
    PROVE  /\ IsSequence(Chain(part)) /\ Chain(part) # << >>
           /\ Elements(Chain(part)) \subseteq Elements(part.transitions)
<1> DEFINE ts == part.transitions
           last == ts[Len(ts)]
<1>1. Len(ts) \in 1..Len(ts) /\ ts \in Seq(Elements(ts))
  BY DEF IsSequence
<1>2. last \in Elements(ts)
  BY <1>1, RangeOf
<1>3. CASE part.basis = "ordered-zero-state-install"
  <2>1. Chain(part) = <<last>>
    BY <1>3 DEF Chain
  <2> HIDE DEF last, ts
  <2>2. <<last>> \in Seq({last}) /\ <<last>> # << >>
    OBVIOUS
  <2>3. Elements(<<last>>) = {last}
    BY DEF Elements
  <2> QED
    BY <1>2, <2>1, <2>2, <2>3, ToSequence DEF ts
<1>4. CASE part.basis # "ordered-zero-state-install"
  BY <1>4 DEF Chain
<1> QED
  BY <1>3, <1>4

LEMMA MappedSequence ==
    ASSUME NEW seq, IsSequence(seq), NEW f, DOMAIN f = DOMAIN seq,
           f = [i \in DOMAIN f |-> f[i]]
    PROVE  IsSequence(f) /\ Len(f) = Len(seq)
<1>1. DOMAIN f = 1..Len(seq) /\ Len(seq) \in Nat
  BY RangeOf
<1>2. f \in [1..Len(seq) -> Elements(f)]
  BY <1>1 DEF Elements
<1> QED
  BY <1>1, <1>2 DEF IsSequence

ReferenceArtifact(part, f) ==
    Artifact(part, part.torrents[1], "client-file", f, NoTransition, NoSegment)

DeclaredArtifact(R, part, t, f) ==
    Artifact(part, t, "delivery-bundle", InTorrent(R, t, f),
             [from |-> t.from, to |-> t.to], Segment(part, t, t.files, f))

\* The artifacts of a part: the files of its exact torrent, or those that the
\* transitions of its chain declare.
ArtifactsOf(R, part) ==
    IF IsReference(part)
    THEN {ReferenceArtifact(part, f) : f \in Elements(PhysicalFiles(R, part.torrents[1]))}
    ELSE UNION {{DeclaredArtifact(R, part, t, f) : f \in Elements(t.files)} :
                   t \in Elements(Chain(part))}

\* What the planner has seen to for each part.
LEMMA PartIsPlannable ==
    ASSUME NEW R, IsRelease(R), IsPlannable(R), NEW part \in Elements(R.parts)
    PROVE  /\ IsSequence(part.transitions) /\ part.transitions # << >>
           /\ IsSequence(part.torrents)
           /\ \A t \in Elements(Chain(part)) : IsSequence(t.files)
           /\ IsReference(part) => IsTorrent(R, part.torrents[1])
           /\ ~IsReference(part) =>
                 /\ IsInstallable(R, part)
                 /\ \A t \in Elements(Chain(part)) :
                       /\ IsTorrent(R, t) /\ t.files # << >>
                       /\ \A f \in Elements(t.files) : IsInTorrent(R, t, f)
<1>1. /\ IsSequence(part.transitions) /\ part.transitions # << >>
      /\ \A t \in Elements(part.transitions) : IsSequence(t.files)
      /\ IsSequence(part.torrents)
  BY DEF IsRelease, IsPinned
<1>2. \A t \in Elements(Chain(part)) : IsSequence(t.files)
  BY <1>1, ChainOfPart
<1>3. PICK p \in DOMAIN R.parts : part = R.parts[p]
  BY DEF Elements
<1>4. /\ \A s \in DOMAIN Sources(part) : IsTorrent(R, Sources(part)[s])
      /\ ~IsReference(part) => IsInstallable(R, part)
  BY <1>3 DEF IsPlannable
<1>5. IsReference(part) => IsTorrent(R, part.torrents[1])
  <2> SUFFICES ASSUME IsReference(part)
               PROVE  IsTorrent(R, part.torrents[1])
    OBVIOUS
  <2>1. 1 \in DOMAIN part.torrents
    BY <1>1, RangeOf DEF IsReference
  <2>2. Sources(part) = part.torrents
    BY DEF Sources
  <2> QED
    BY <1>4, <2>1, <2>2
<1>6. ASSUME ~IsReference(part), NEW t \in Elements(Chain(part))
      PROVE  /\ IsTorrent(R, t) /\ t.files # << >>
             /\ \A f \in Elements(t.files) : IsInTorrent(R, t, f)
  <2>1. PICK s \in DOMAIN Chain(part) : t = Chain(part)[s]
    BY DEF Elements
  <2>2. Sources(part) = Chain(part)
    BY <1>6 DEF Sources
  <2>3. IsTorrent(R, t)
    BY <1>4, <2>1, <2>2
  <2>4. /\ t.files # << >>
        /\ \A i \in DOMAIN t.files : IsInTorrent(R, t, t.files[i])
    BY <1>4, <1>6, <2>1 DEF IsInstallable
  <2> QED
    BY <2>3, <2>4 DEF Elements
<1> QED
  BY <1>1, <1>2, <1>4, <1>5, <1>6

\* The artifacts of one part.
LEMMA PartArtifactsElements ==
    ASSUME NEW R, IsRelease(R), IsPlannable(R), NEW part \in Elements(R.parts)
    PROVE  /\ IsSequence(PartArtifacts(R, part))
           /\ Elements(PartArtifacts(R, part)) = ArtifactsOf(R, part)
<1>1. CASE IsReference(part)
  <2> DEFINE files == PhysicalFiles(R, part.torrents[1])
             arts == [i \in DOMAIN files |-> ReferenceArtifact(part, files[i])]
  <2>1. IsSequence(files)
    BY <1>1, PartIsPlannable, PhysicalElements
  <2>2. PartArtifacts(R, part) = arts
    BY <1>1 DEF PartArtifacts, ReferenceArtifacts, ReferenceArtifact
  <2> HIDE DEF files
  <2>3. IsSequence(arts)
    BY <2>1, MappedSequence
  <2>4. Elements(arts) = {ReferenceArtifact(part, f) : f \in Elements(files)}
    BY DEF Elements
  <2> QED
    BY <1>1, <2>2, <2>3, <2>4 DEF ArtifactsOf, files
<1>2. CASE ~IsReference(part)
  <2> DEFINE chain == Chain(part)
             seqs == [t \in DOMAIN chain |-> TransitionArtifacts(R, part, chain[t])]
  <2>1. IsSequence(chain) /\ \A t \in Elements(chain) : IsSequence(t.files)
    BY PartIsPlannable, ChainOfPart
  <2>2. PartArtifacts(R, part) = Concatenated(seqs)
    BY <1>2 DEF PartArtifacts
  <2>3. ASSUME NEW t \in Elements(chain)
        PROVE  /\ IsSequence(TransitionArtifacts(R, part, t))
               /\ Elements(TransitionArtifacts(R, part, t))
                     = {DeclaredArtifact(R, part, t, f) : f \in Elements(t.files)}
    <3> DEFINE arts == [i \in DOMAIN t.files |-> DeclaredArtifact(R, part, t, t.files[i])]
    <3>1. TransitionArtifacts(R, part, t) = arts
      BY DEF TransitionArtifacts, DeclaredArtifact
    <3>2. IsSequence(arts)
      BY <2>1, MappedSequence
    <3>3. Elements(arts) = {DeclaredArtifact(R, part, t, f) : f \in Elements(t.files)}
      BY DEF Elements
    <3> QED
      BY <3>1, <3>2, <3>3
  <2> HIDE DEF chain
  <2>4. IsSequence(seqs)
    BY <2>1, MappedSequence
  <2>5. \A t \in DOMAIN seqs : IsSequence(seqs[t])
    BY <2>3 DEF Elements
  <2>6. Elements(Concatenated(seqs)) = UNION {Elements(seqs[t]) : t \in DOMAIN seqs}
    <3> HIDE DEF seqs
    <3> QED
      BY <2>4, <2>5, ConcatenatedElements
  <2>7. IsSequence(Concatenated(seqs))
    <3> HIDE DEF seqs
    <3> QED
      BY <2>4, <2>5, ConcatenatedElements
  <2>8. UNION {Elements(seqs[t]) : t \in DOMAIN seqs}
           = UNION {{DeclaredArtifact(R, part, t, f) : f \in Elements(t.files)} : t \in Elements(chain)}
    <3>1. \A t \in DOMAIN chain : chain[t] \in Elements(chain)
      BY DEF Elements
    <3>2. \A t \in DOMAIN chain : Elements(seqs[t])
             = {DeclaredArtifact(R, part, chain[t], f) : f \in Elements(chain[t].files)}
      BY <2>3, <3>1
    <3> HIDE DEF seqs
    <3>3. DOMAIN seqs = DOMAIN chain
      BY DEF seqs
    <3> DEFINE D(t) == {DeclaredArtifact(R, part, t, f) : f \in Elements(t.files)}
    <3>4. \A t \in DOMAIN seqs : Elements(seqs[t]) = D(chain[t])
      BY <3>2, <3>3
    <3>5. Elements(chain) = {chain[t] : t \in DOMAIN seqs}
      BY <3>3 DEF Elements
    <3> HIDE DEF D
    <3>6. UNION {Elements(seqs[t]) : t \in DOMAIN seqs} = UNION {D(t) : t \in Elements(chain)}
      BY <3>4, <3>5
    <3> QED
      BY <3>6 DEF D
  <2> QED
    BY <1>2, <2>2, <2>6, <2>7, <2>8 DEF ArtifactsOf, chain
<1> QED
  BY <1>1, <1>2

\* The artifacts of a plan.
LEMMA PlanElements ==
    ASSUME NEW R, IsRelease(R), IsPlannable(R)
    PROVE  /\ IsSequence(Plan(R))
           /\ Elements(Plan(R)) = UNION {ArtifactsOf(R, part) : part \in Elements(R.parts)}
<1> DEFINE seqs == [p \in DOMAIN R.parts |-> PartArtifacts(R, R.parts[p])]
<1>1. IsSequence(R.parts)
  BY DEF IsRelease, IsPinned
<1>2. IsSequence(seqs)
  BY <1>1, MappedSequence
<1>3. \A p \in DOMAIN R.parts : R.parts[p] \in Elements(R.parts)
  BY DEF Elements
<1>4. \A p \in DOMAIN R.parts : /\ IsSequence(seqs[p])
                                /\ Elements(seqs[p]) = ArtifactsOf(R, R.parts[p])
  BY <1>3, PartArtifactsElements
<1>5. DOMAIN seqs = DOMAIN R.parts
  OBVIOUS
<1>6. Plan(R) = Concatenated(seqs)
  BY DEF Plan
<1> HIDE DEF seqs
<1>7. /\ IsSequence(Concatenated(seqs))
      /\ Elements(Concatenated(seqs)) = UNION {Elements(seqs[p]) : p \in DOMAIN seqs}
  BY <1>2, <1>4, <1>5, ConcatenatedElements
<1>8. UNION {Elements(seqs[p]) : p \in DOMAIN seqs}
         = UNION {ArtifactsOf(R, part) : part \in Elements(R.parts)}
  BY <1>4, <1>5 DEF Elements
<1> QED
  BY <1>6, <1>7, <1>8

-----------------------------------------------------------------------------
(* Downloads.                                                              *)

IsPlanned(R, a) == a \in UNION {ArtifactsOf(R, part) : part \in Elements(R.parts)}

Downloaded(R, a) == [artifact |-> a, body |-> ContentOf(R, a)]

\* There is a download for each planned artifact, and no other.
LEMMA DownloadsElements ==
    ASSUME NEW R, IsRelease(R), IsPlannable(R)
    PROVE  LET downloads == Downloads(R, Plan(R))
           IN  /\ IsSequence(downloads)
               /\ Elements(downloads) = {Downloaded(R, a) : a \in {b \in Elements(Plan(R)) : TRUE}}
               /\ \A a : IsPlanned(R, a) <=> a \in Elements(Plan(R))
<1> DEFINE plan == Plan(R)
           downloads == [i \in DOMAIN plan |-> Downloaded(R, plan[i])]
<1>1. IsSequence(plan) /\ \A a : IsPlanned(R, a) <=> a \in Elements(plan)
  BY PlanElements DEF IsPlanned
<1>2. Downloads(R, Plan(R)) = downloads
  BY DEF Downloads, Downloaded
<1> HIDE DEF plan
<1>3. IsSequence(downloads)
  BY <1>1, MappedSequence
<1>4. Elements(downloads) = {Downloaded(R, a) : a \in {b \in Elements(plan) : TRUE}}
  BY DEF Elements
<1> QED
  BY <1>1, <1>2, <1>3, <1>4 DEF plan

IsDownloadOf(d, part, role, f) ==
    /\ d.artifact.role = role /\ d.artifact.lang = part.lang /\ d.artifact.part = part.part
    /\ d.artifact.version = part.version
    /\ d.artifact.path = f.path /\ d.body = f.body

\* A download of a reference part is a file of its torrent.
LEMMA ReferenceDownload ==
    ASSUME NEW R, IsRelease(R), IsPlannable(R), NEW part \in Elements(R.parts), IsReference(part),
           NEW f \in Elements(PhysicalFiles(R, part.torrents[1]))
    PROVE  LET d == Downloaded(R, ReferenceArtifact(part, f))
           IN  IsDownloadOf(d, part, "client-file", f) /\ d.artifact.segment = NoSegment
<1> DEFINE a == ReferenceArtifact(part, f)
           source == part.torrents[1]
<1>1. IsTorrent(R, source)
  BY PartIsPlannable
<1>2. f \in Elements(R.torrents[source.descriptor])
  BY <1>1, PhysicalElements
<1>3. /\ a.role = "client-file" /\ a.lang = part.lang /\ a.part = part.part
      /\ a.version = part.version /\ a.path = f.path /\ a.suffix = f.suffix
      /\ a.descriptor = source.descriptor /\ a.segment = NoSegment
  BY DEF ReferenceArtifact, Artifact
<1> HIDE DEF a, source
<1>4. ContentOf(R, a) = f.body
  BY <1>1, <1>2, <1>3, ContentOfFile
<1> QED
  BY <1>3, <1>4 DEF Downloaded, IsDownloadOf, a

\* The group of a piece names the layer.
SegmentNamesLayer(a) ==
    a.segment.group = << >> \/ a.segment.group[3] = a.lang

LEMMA DeclaredDownload ==
    ASSUME NEW R, IsRelease(R), IsPlannable(R), NEW part \in Elements(R.parts), ~IsReference(part),
           NEW t \in Elements(Chain(part)), NEW x \in Elements(t.files)
    PROVE  LET d == Downloaded(R, DeclaredArtifact(R, part, t, x))
               f == InTorrent(R, t, x)
           IN  /\ f \in Elements(PhysicalFiles(R, t))
               /\ f.path = x.path /\ f.suffix = x.suffix
               /\ IsDownloadOf(d, part, "delivery-bundle", f) /\ SegmentNamesLayer(d.artifact)
<1> DEFINE a == DeclaredArtifact(R, part, t, x)
           f == InTorrent(R, t, x)
<1>1. IsTorrent(R, t) /\ IsInTorrent(R, t, x)
  BY PartIsPlannable
<1>2. f \in Elements(PhysicalFiles(R, t)) /\ f.path = x.path /\ f.suffix = x.suffix
  BY <1>1, DeclaredFile
<1>3. f \in Elements(R.torrents[t.descriptor])
  BY <1>1, <1>2, PhysicalElements
<1>4. /\ a.role = "delivery-bundle" /\ a.lang = part.lang /\ a.part = part.part
      /\ a.version = part.version /\ a.path = f.path /\ a.suffix = f.suffix
      /\ a.descriptor = t.descriptor /\ a.segment = Segment(part, t, t.files, x)
  BY DEF DeclaredArtifact, Artifact
<1>5. \/ a.segment.group = << >>
      \/ a.segment.group[3] = part.lang
  BY <1>4 DEF Segment, NoSegment
<1> HIDE DEF a, f
<1>6. ContentOf(R, a) = f.body
  BY <1>1, <1>3, <1>4, ContentOfFile
<1> QED
  BY <1>2, <1>4, <1>5, <1>6 DEF Downloaded, IsDownloadOf, a, f, SegmentNamesLayer

\* What each download is.
IsSoundDownload(d) ==
    /\ d.artifact.role \in {"client-file", "delivery-bundle"}
    /\ d.artifact.role = "client-file" => d.artifact.segment.group = << >>
    /\ SegmentNamesLayer(d.artifact)
    /\ IsPath(d.artifact.path) /\ IsFileBody(d.body) /\ IsFileAt(d.artifact.path, d.body)

\* Downloads have the types that the later stages rely on.
LEMMA DownloadsAreSound ==
    ASSUME NEW R, IsRelease(R), IsPlannable(R), NEW a, IsPlanned(R, a)
    PROVE  IsSoundDownload(Downloaded(R, a))
<1>1. PICK part \in Elements(R.parts) : a \in ArtifactsOf(R, part)
  BY DEF IsPlanned
<1>2. ASSUME NEW source, IsTorrent(R, source), NEW f \in Elements(PhysicalFiles(R, source))
      PROVE  IsPath(f.path) /\ IsFileBody(f.body) /\ IsFileAt(f.path, f.body)
  BY <1>2, PhysicalElements DEF IsRelease, IsTorrent
<1>3. CASE IsReference(part)
  <2>1. PICK f \in Elements(PhysicalFiles(R, part.torrents[1])) : a = ReferenceArtifact(part, f)
    BY <1>1, <1>3 DEF ArtifactsOf
  <2> DEFINE d == Downloaded(R, a)
  <2>2. IsDownloadOf(d, part, "client-file", f) /\ d.artifact.segment = NoSegment
    BY <1>3, <2>1, ReferenceDownload
  <2>3. IsPath(f.path) /\ IsFileBody(f.body) /\ IsFileAt(f.path, f.body)
    BY <1>2, <1>3, PartIsPlannable
  <2> HIDE DEF d
  <2> QED
    BY <2>2, <2>3 DEF IsDownloadOf, IsSoundDownload, NoSegment, SegmentNamesLayer, d
<1>4. CASE ~IsReference(part)
  <2>1. PICK t \in Elements(Chain(part)) : \E x \in Elements(t.files) : a = DeclaredArtifact(R, part, t, x)
    BY <1>1, <1>4 DEF ArtifactsOf
  <2>2. PICK x \in Elements(t.files) : a = DeclaredArtifact(R, part, t, x)
    BY <2>1
  <2> DEFINE d == Downloaded(R, a)
             f == InTorrent(R, t, x)
  <2>3. /\ f \in Elements(PhysicalFiles(R, t))
        /\ IsDownloadOf(d, part, "delivery-bundle", f) /\ SegmentNamesLayer(d.artifact)
    BY <1>4, <2>2, DeclaredDownload
  <2>4. IsPath(f.path) /\ IsFileBody(f.body) /\ IsFileAt(f.path, f.body)
    BY <1>2, <1>4, <2>3, PartIsPlannable
  <2> HIDE DEF d, f
  <2> QED
    BY <2>3, <2>4 DEF IsDownloadOf, IsSoundDownload, d
<1> QED
  BY <1>3, <1>4

-----------------------------------------------------------------------------
(* Split archives.                                                         *)

\* When there are as many numbers as pieces, no two pieces have one number.
LEMMA NumbersAreUnique ==
    ASSUME NEW M, IsFiniteSet(M), NEW number,
           {number[i] : i \in M} = 1..Cardinality(M), number = [i \in M |-> number[i]],
           NEW i \in M, NEW j \in M, number[i] = number[j]
    PROVE  i = j
<1> DEFINE T == 1..Cardinality(M)
<1>1. Cardinality(M) \in Nat
  BY FS_CardinalityType
<1>2. IsFiniteSet(T) /\ Cardinality(T) = Cardinality(M)
  BY <1>1, FS_Interval
<1>3. number \in Surjection(M, T)
  BY DEF Surjection
<1> HIDE DEF T
<1>4. number \in Injection(M, T)
  BY <1>2, <1>3, FS_SurjSameCardinalityImpliesInj
<1> QED
  BY <1>4 DEF Injection, IsInjective

\* Pieces that make an archive: it is the whole that each of them is a piece of.
LEMMA JoinedIsWhole ==
    ASSUME NEW pieces, NEW n \in Nat, n > 0, DOMAIN pieces = 1..n,
           Joined(pieces).fmt \in Archives
    PROVE  \A i \in 1..n : pieces[i].fmt = "piece" /\ Whole(pieces[i]) = Joined(pieces)
<1> DEFINE first == pieces[1].items[1]
           AreApart == \A i \in DOMAIN pieces :
              /\ pieces[i].fmt = "piece" /\ pieces[i].id = first.whole.id
              /\ pieces[i].items[1].whole = first.whole
              /\ pieces[i].items[1].i = i /\ first.n = Len(pieces)
<1>1. Joined(pieces) = IF AreApart THEN first.whole ELSE Body("noise", "noise", << >>)
  BY DEF Joined
<1>2. AreApart
  <2>1. Body("noise", "noise", << >>).fmt \notin Archives
    BY DEF Body, Archives
  <2> HIDE DEF AreApart
  <2> QED
    BY <1>1, <2>1
<1>3. Joined(pieces) = first.whole
  <2> HIDE DEF AreApart
  <2> QED
    BY <1>1, <1>2
<1> QED
  BY <1>2, <1>3 DEF Whole

Content(d) == IF d.artifact.role = "client-file" THEN d.body ELSE Whole(d.body)

\* An artifact that is not split is a unit of its own.
LEMMA SingleUnit ==
    ASSUME NEW downloads, IsSequence(downloads), IsVerifiable({}, downloads),
           NEW i \in DOMAIN downloads, IsSoundDownload(downloads[i]),
           downloads[i].artifact.segment.group = << >>
    PROVE  LET d == downloads[i]
           IN  /\ Unit(d.artifact, <<d.artifact>>, d.body) \in Units({}, downloads)
               /\ Content(d) = d.body
<1> DEFINE d == downloads[i]
           u == Unit(d.artifact, <<d.artifact>>, d.body)
<1>1. u \in Units({}, downloads)
  BY DEF Units, InGroup
<1>2. IsAcceptable(u.artifact, Read({}, Blob(u.body), u.body))
  BY <1>1 DEF IsVerifiable
<1>3. u.artifact = d.artifact /\ u.body = d.body
  BY DEF Unit
<1>4. IsAcceptable(d.artifact, d.body)
  BY <1>2, <1>3, ReadUnchanged
<1>5. d.artifact.role # "client-file" => d.body.fmt \in Archives
  BY <1>4 DEF IsAcceptable, IsSoundArchive
<1> QED
  BY <1>1, <1>5 DEF Content, Whole, Archives

GroupUnit(downloads, group) ==
    Unit((CHOOSE d \in {downloads[i] : i \in InGroup(downloads, group)} :
             d.artifact.segment.index = 1).artifact,
         group, Assembled({}, downloads, group))

\* The pieces of a complete group are numbered from 1.
LEMMA GroupIsNumbered ==
    ASSUME NEW downloads, IsSequence(downloads), NEW group,
           NEW k \in DOMAIN downloads, downloads[k].artifact.segment.group = group,
           IsCompleteGroup(downloads, group)
    PROVE  LET M == InGroup(downloads, group)
           IN  /\ IsFiniteSet(M) /\ Cardinality(M) \in Nat /\ Cardinality(M) > 0
               /\ M \subseteq DOMAIN downloads /\ k \in M
               /\ {downloads[i].artifact.segment.index : i \in M} = 1..Cardinality(M)
<1> DEFINE M == InGroup(downloads, group)
           c == Cardinality(M)
<1>1. DOMAIN downloads = 1..Len(downloads) /\ Len(downloads) \in Nat
  BY RangeOf
<1>2. IsFiniteSet(DOMAIN downloads)
  BY <1>1, FS_Interval
<1>3. M \in SUBSET (DOMAIN downloads) /\ k \in M
  BY DEF InGroup
<1>4. {downloads[i].artifact.segment.index : i \in M} = 1..c
  <2>1. {s.index : s \in {downloads[i].artifact.segment : i \in M}} = 1..c
    BY DEF IsCompleteGroup
  <2>2. {s.index : s \in {downloads[i].artifact.segment : i \in M}}
          = {downloads[i].artifact.segment.index : i \in M}
    OBVIOUS
  <2> QED
    BY <2>1, <2>2
<1> HIDE DEF M
<1>5. IsFiniteSet(M)
  BY <1>2, <1>3, FS_Subset
<1>6. c \in Nat
  BY <1>5, FS_CardinalityType
<1>7. downloads[k].artifact.segment.index \in 1..c
  BY <1>3, <1>4
<1>8. c > 0
  BY <1>6, <1>7
<1> QED
  BY <1>3, <1>4, <1>5, <1>6, <1>8 DEF M

\* The pieces of an archive are one unit, which is what they are pieces of.
LEMMA GroupUnitIsWhole ==
    ASSUME NEW downloads, IsSequence(downloads), IsVerifiable({}, downloads),
           NEW group, group # << >>,
           \A i \in DOMAIN downloads : IsSoundDownload(downloads[i]),
           NEW k \in DOMAIN downloads, downloads[k].artifact.segment.group = group
    PROVE  LET u == GroupUnit(downloads, group)
           IN  /\ u \in Units({}, downloads)
               /\ \E i \in InGroup(downloads, group) : u.artifact = downloads[i].artifact
               /\ \A i \in InGroup(downloads, group) :
                     /\ downloads[i].artifact.role = "delivery-bundle"
                     /\ Content(downloads[i]) = u.body
<1> DEFINE M == InGroup(downloads, group)
           index == [i \in M |-> downloads[i].artifact.segment.index]
           u == GroupUnit(downloads, group)
           plan == [i \in DOMAIN downloads |-> downloads[i].artifact]
           c == Cardinality(M)
<1>1. \A i \in M : downloads[i].artifact.segment.group = group
  BY DEF InGroup
<1>2. group \in Groups(plan)
  <2>1. plan[k].segment.group = group /\ k \in DOMAIN plan
    OBVIOUS
  <2> HIDE DEF plan
  <2> QED
    BY <2>1 DEF Groups
<1>3. IsCompleteGroup(downloads, group)
  BY <1>2 DEF IsVerifiable
<1>4. /\ IsFiniteSet(M) /\ c \in Nat /\ M \subseteq DOMAIN downloads /\ k \in M /\ c > 0
      /\ {downloads[i].artifact.segment.index : i \in M} = 1..c
  <2> HIDE DEF M
  <2> QED
    BY <1>3, GroupIsNumbered DEF M
<1>5. {index[i] : i \in M} = 1..c
  <2>1. {index[i] : i \in M} = {downloads[i].artifact.segment.index : i \in M}
    OBVIOUS
  <2> QED
    BY <1>4, <2>1
<1>6. c > 0
  BY <1>4
<1>7. u \in Units({}, downloads)
  BY <1>2 DEF Units, GroupUnit
<1>8. PICK one \in M : u.artifact = downloads[one].artifact
  <2> DEFINE ds == {downloads[i] : i \in M}
             IsFirst(d) == d.artifact.segment.index = 1
             chosen == CHOOSE d \in ds : IsFirst(d)
  <2>1. \E i \in M : index[i] = 1
    <3> HIDE DEF index, M
    <3> QED
      BY <1>4, <1>5, <1>6
  <2>2. \E d \in ds : IsFirst(d)
    BY <2>1
  <2>3. chosen \in ds
    BY <2>2
  <2>4. u.artifact = chosen.artifact
    BY DEF GroupUnit, Unit
  <2> HIDE DEF chosen
  <2> QED
    BY <2>3, <2>4
<1>9. \A i \in M : downloads[i].artifact.role = "delivery-bundle"
  BY <1>4, <1>1 DEF IsSoundDownload
<1>10. IsAcceptable(u.artifact, u.body)
  BY <1>7, ReadUnchanged DEF IsVerifiable
<1>11. u.body.fmt \in Archives
  BY <1>8, <1>9, <1>10 DEF IsAcceptable, IsSoundArchive
<1> DEFINE Numbered(n) == downloads[CHOOSE i \in M : downloads[i].artifact.segment.index = n].body
           pieces == [n \in 1..c |-> Numbered(n)]
<1>12. u.body = Joined(pieces)
  <2>1. u.body = Assembled({}, downloads, group)
    BY DEF GroupUnit, Unit
  <2>2. Assembled({}, downloads, group) = Joined([n \in 1..c |-> Read({}, Blob(Numbered(n)), Numbered(n))])
    BY DEF Assembled
  <2>3. [n \in 1..c |-> Read({}, Blob(Numbered(n)), Numbered(n))] = pieces
    BY ReadUnchanged
  <2> QED
    BY <2>1, <2>2, <2>3
<1>13. ASSUME NEW i \in M
       PROVE  Content(downloads[i]) = u.body
  <2> DEFINE n == index[i]
             Has(j) == downloads[j].artifact.segment.index = n
             chosen == CHOOSE j \in M : Has(j)
  <2>1. n \in 1..c
    <3> HIDE DEF index, M
    <3> QED
      BY <1>5
  <2>2. chosen \in M /\ Has(chosen)
    <3>1. Has(i)
      OBVIOUS
    <3> HIDE DEF Has
    <3> QED
      BY <3>1
  <2>3. index[chosen] = index[i]
    BY <2>2
  <2> DEFINE there == chosen
  <2> HIDE DEF chosen
  <2>4. chosen = i
    <3>1. index = [j \in M |-> index[j]]
      OBVIOUS
    <3> HIDE DEF index, M
    <3> QED
      BY <1>4, <1>5, <2>2, <2>3, <3>1, NumbersAreUnique
  <2>5. pieces[n] = downloads[i].body
    <3>1. pieces[n] = downloads[CHOOSE j \in M : downloads[j].artifact.segment.index = n].body
      BY <2>1
    <3>2. (CHOOSE j \in M : downloads[j].artifact.segment.index = n) = chosen
      BY DEF chosen
    <3> QED
      BY <2>4, <3>1, <3>2
  <2>6. Whole(pieces[n]) = Joined(pieces)
    <3>1. DOMAIN pieces = 1..c
      OBVIOUS
    <3> HIDE DEF pieces, n, c
    <3> QED
      BY <1>4, <1>6, <1>11, <1>12, <2>1, <3>1, JoinedIsWhole
  <2> QED
    BY <1>9, <1>12, <2>5, <2>6 DEF Content
<1> QED
  BY <1>7, <1>8, <1>9, <1>13

IsUnitOf(u, d) ==
    /\ u.artifact.role = d.artifact.role /\ u.artifact.lang = d.artifact.lang
    /\ d.artifact.role = "client-file" => u.artifact.path = d.artifact.path
    /\ u.body = Content(d)

\* Every download is installed by a unit, and every unit installs a download.
LEMMA UnitsOfDownloads ==
    ASSUME NEW downloads, IsSequence(downloads), IsVerifiable({}, downloads),
           \A i \in DOMAIN downloads : IsSoundDownload(downloads[i])
    PROVE  /\ \A i \in DOMAIN downloads : \E u \in Units({}, downloads) : IsUnitOf(u, downloads[i])
           /\ \A u \in Units({}, downloads) : \E i \in DOMAIN downloads : IsUnitOf(u, downloads[i])
<1>1. ASSUME NEW i \in DOMAIN downloads
      PROVE  \E u \in Units({}, downloads) : IsUnitOf(u, downloads[i])
  <2> DEFINE d == downloads[i]
             group == d.artifact.segment.group
  <2>1. CASE group = << >>
    <3>1. /\ Unit(d.artifact, <<d.artifact>>, d.body) \in Units({}, downloads)
          /\ Content(d) = d.body
      BY <2>1, SingleUnit
    <3> DEFINE u == Unit(d.artifact, <<d.artifact>>, d.body)
    <3>2. u.artifact = d.artifact /\ u.body = d.body
      BY DEF Unit
    <3> QED
      BY <3>1, <3>2 DEF IsUnitOf
  <2>2. CASE group # << >>
    <3> DEFINE u == GroupUnit(downloads, group)
               M == InGroup(downloads, group)
    <3>1. /\ u \in Units({}, downloads)
          /\ \E j \in M : u.artifact = downloads[j].artifact
          /\ \A j \in M : /\ downloads[j].artifact.role = "delivery-bundle"
                          /\ Content(downloads[j]) = u.body
      BY <2>2, GroupUnitIsWhole
    <3>2. i \in M
      BY DEF InGroup
    <3>3. PICK j \in M : u.artifact = downloads[j].artifact
      BY <3>1
    <3>4. j \in DOMAIN downloads /\ downloads[j].artifact.segment.group = group
      BY DEF InGroup
    <3>5. downloads[j].artifact.lang = d.artifact.lang
      <4>1. SegmentNamesLayer(downloads[j].artifact) /\ SegmentNamesLayer(d.artifact)
        BY <3>4 DEF IsSoundDownload
      <4> QED
        BY <4>1, <3>4, <2>2 DEF SegmentNamesLayer
    <3> HIDE DEF u, M
    <3>6. /\ u.artifact.role = "delivery-bundle" /\ d.artifact.role = "delivery-bundle"
          /\ u.artifact.lang = d.artifact.lang /\ u.body = Content(d)
      BY <3>1, <3>2, <3>3, <3>5
    <3> QED
      BY <3>1, <3>6 DEF IsUnitOf
  <2> QED
    BY <2>1, <2>2
<1>2. ASSUME NEW u \in Units({}, downloads)
      PROVE  \E i \in DOMAIN downloads : IsUnitOf(u, downloads[i])
  <2> DEFINE plan == [i \in DOMAIN downloads |-> downloads[i].artifact]
  <2>1. CASE \E i \in InGroup(downloads, << >>) :
               u = Unit(downloads[i].artifact, <<downloads[i].artifact>>, downloads[i].body)
    <3>1. PICK i \in InGroup(downloads, << >>) :
               u = Unit(downloads[i].artifact, <<downloads[i].artifact>>, downloads[i].body)
      BY <2>1
    <3>2. i \in DOMAIN downloads /\ downloads[i].artifact.segment.group = << >>
      BY DEF InGroup
    <3>3. Content(downloads[i]) = downloads[i].body
      BY <3>2, SingleUnit
    <3>4. u.artifact = downloads[i].artifact /\ u.body = downloads[i].body
      BY <3>1 DEF Unit
    <3> QED
      BY <3>2, <3>3, <3>4 DEF IsUnitOf
  <2>2. CASE \E group \in Groups(plan) : u = GroupUnit(downloads, group)
    <3>1. PICK group \in Groups(plan) : u = GroupUnit(downloads, group)
      BY <2>2
    <3>2. group # << >> /\ \E k \in DOMAIN downloads : downloads[k].artifact.segment.group = group
      BY DEF Groups
    <3>3. PICK k \in DOMAIN downloads : downloads[k].artifact.segment.group = group
      BY <3>2
    <3>4. /\ \E i \in InGroup(downloads, group) : u.artifact = downloads[i].artifact
          /\ \A i \in InGroup(downloads, group) : Content(downloads[i]) = u.body
      BY <3>1, <3>2, <3>3, GroupUnitIsWhole
    <3>5. InGroup(downloads, group) \subseteq DOMAIN downloads
      BY DEF InGroup
    <3> QED
      BY <3>4, <3>5 DEF IsUnitOf
  <2>3. \/ \E i \in InGroup(downloads, << >>) :
               u = Unit(downloads[i].artifact, <<downloads[i].artifact>>, downloads[i].body)
        \/ \E group \in Groups(plan) : u = GroupUnit(downloads, group)
    BY DEF Units, GroupUnit
  <2> QED
    BY <2>1, <2>2, <2>3
<1> QED
  BY <1>1, <1>2

-----------------------------------------------------------------------------
(* The client tree.                                                        *)

\* A file of the client, with no word of where it comes from.
AsClientFile(f) == [lang |-> f.lang, path |-> f.path, body |-> f.body]

ClientFile(lang, path, body) == [lang |-> lang, path |-> path, body |-> body]

\* The files that a download brings.
FilesIn(d) ==
    IF d.artifact.role = "client-file"
    THEN {ClientFile(d.artifact.lang, d.artifact.path, d.body)}
    ELSE {ClientFile(d.artifact.lang, e.path, e.body) : e \in Installed(Whole(d.body))}

\* A unit installs the files of its download.
LEMMA FilesOfUnit ==
    ASSUME NEW d, IsSoundDownload(d), NEW u, IsUnitOf(u, d)
    PROVE  {AsClientFile(f) : f \in FilesOf(u, u.body)} = FilesIn(d)
<1>1. \A path, body : AsClientFile(TreeFile(u, path, body)) = ClientFile(u.artifact.lang, path, body)
  BY DEF AsClientFile, TreeFile, ClientFile
<1>2. CASE d.artifact.role = "client-file"
  <2>1. FilesOf(u, u.body) = {TreeFile(u, d.artifact.path, d.body)}
    BY <1>2 DEF FilesOf, IsUnitOf, Content
  <2>2. FilesIn(d) = {ClientFile(d.artifact.lang, d.artifact.path, d.body)}
    BY <1>2 DEF FilesIn
  <2>3. u.artifact.lang = d.artifact.lang
    BY DEF IsUnitOf
  <2> QED
    BY <1>1, <2>1, <2>2, <2>3
<1>3. CASE d.artifact.role # "client-file"
  <2>1. u.artifact.role # "client-file" /\ u.body = Whole(d.body) /\ u.artifact.lang = d.artifact.lang
    BY <1>3 DEF IsUnitOf, Content
  <2> DEFINE in == Installed(Whole(d.body))
  <2>2. FilesOf(u, u.body) = {TreeFile(u, e.path, e.body) : e \in in}
    BY <2>1 DEF FilesOf
  <2>3. FilesIn(d) = {ClientFile(d.artifact.lang, e.path, e.body) : e \in in}
    BY <1>3 DEF FilesIn
  <2> HIDE DEF in
  <2> QED
    BY <1>1, <2>1, <2>2, <2>3
<1> QED
  BY <1>2, <1>3

\* The tree has the files that the downloads bring.
LEMMA TreeOfDownloads ==
    ASSUME NEW downloads, IsSequence(downloads), IsVerifiable({}, downloads),
           \A i \in DOMAIN downloads : IsSoundDownload(downloads[i])
    PROVE  {AsClientFile(f) : f \in TreeOf({}, Units({}, downloads))}
              = UNION {FilesIn(d) : d \in Elements(downloads)}
<1> DEFINE U == Units({}, downloads)
<1>1. /\ \A d \in Elements(downloads) : IsSoundDownload(d)
      /\ \A d \in Elements(downloads) : \E u \in U : IsUnitOf(u, d)
      /\ \A u \in U : \E d \in Elements(downloads) : IsUnitOf(u, d)
  BY UnitsOfDownloads DEF Elements
<1>2. TreeOf({}, U) = UNION {FilesOf(u, u.body) : u \in U}
  BY ReadUnchanged DEF TreeOf, ExtractedFrom
<1> HIDE DEF U
<1>3. ASSUME NEW f \in TreeOf({}, U)
      PROVE  AsClientFile(f) \in UNION {FilesIn(d) : d \in Elements(downloads)}
  <2>1. PICK u \in U : f \in FilesOf(u, u.body)
    BY <1>2
  <2>2. PICK d \in Elements(downloads) : IsUnitOf(u, d)
    BY <1>1
  <2>3. {AsClientFile(g) : g \in FilesOf(u, u.body)} = FilesIn(d)
    BY <1>1, <2>2, FilesOfUnit
  <2> QED
    BY <2>1, <2>3
<1>4. ASSUME NEW d \in Elements(downloads), NEW x \in FilesIn(d)
      PROVE  \E f \in TreeOf({}, U) : x = AsClientFile(f)
  <2>1. PICK u \in U : IsUnitOf(u, d)
    BY <1>1
  <2>2. {AsClientFile(g) : g \in FilesOf(u, u.body)} = FilesIn(d)
    BY <1>1, <2>1, FilesOfUnit
  <2>3. FilesOf(u, u.body) \subseteq TreeOf({}, U)
    BY <1>2
  <2> QED
    BY <2>2, <2>3
<1> QED
  BY <1>3, <1>4 DEF U

\* What is extracted is an archive whose entries are files or packages.
LEMMA TreeIsTyped ==
    ASSUME NEW downloads, IsSequence(downloads), IsVerifiable({}, downloads),
           \A i \in DOMAIN downloads : IsSoundDownload(downloads[i]),
           IsAssemblable({}, Units({}, downloads)),
           NEW f \in TreeOf({}, Units({}, downloads))
    PROVE  IsPath(f.path) /\ IsPackageBody(f.body) /\ IsFileAt(f.path, f.body)
<1>1. PICK u \in Units({}, downloads) : f \in FilesOf(u, u.body)
  BY ReadUnchanged DEF TreeOf, ExtractedFrom
<1>2. PICK i \in DOMAIN downloads : IsUnitOf(u, downloads[i])
  BY UnitsOfDownloads
<1> DEFINE d == downloads[i]
<1>3. /\ IsPath(d.artifact.path) /\ IsFileBody(d.body) /\ IsFileAt(d.artifact.path, d.body)
      /\ d.artifact.role \in {"client-file", "delivery-bundle"}
  BY DEF IsSoundDownload
<1>4. u.artifact.role = d.artifact.role
  BY <1>2 DEF IsUnitOf
<1>5. CASE d.artifact.role = "client-file"
  <2>1. FilesOf(u, u.body) = {TreeFile(u, d.artifact.path, d.body)}
    BY <1>2, <1>5 DEF FilesOf, IsUnitOf, Content
  <2>2. f.path = d.artifact.path /\ f.body = d.body
    BY <1>1, <2>1 DEF TreeFile
  <2> QED
    BY <1>3, <2>2 DEF IsFileBody, IsBundleBody
<1>6. CASE d.artifact.role = "delivery-bundle"
  <2>1. u.body = Whole(d.body)
    BY <1>2, <1>6 DEF IsUnitOf, Content
  <2>2. IsBundleBody(u.body)
    BY <1>3, <2>1 DEF IsFileBody, Whole
  <2>3. IsBundle(u, u.body)
    BY <1>4, <1>6, ReadUnchanged DEF IsAssemblable, ExtractedFrom
  <2>4. u.body.fmt \in Archives
    BY <2>3 DEF IsBundle, IsExtractable
  <2>5. PICK e \in Installed(u.body) : f = TreeFile(u, e.path, e.body)
    BY <1>1, <1>4, <1>6 DEF FilesOf
  <2>6. PICK j \in DOMAIN u.body.items : e = u.body.items[j]
    BY DEF Installed, LastOf
  <2>7. IsPath(e.path) /\ IsPackageBody(e.body) /\ IsFileAt(e.path, e.body)
    BY <2>2, <2>4, <2>6 DEF IsBundleBody, IsPackageBody, IsEntry
  <2> QED
    BY <2>5, <2>7 DEF TreeFile
<1> QED
  BY <1>3, <1>5, <1>6

-----------------------------------------------------------------------------
(* The installed client.                                                   *)

\* The client has the files of a reference part.
LEMMA FilesOfReferencePart ==
    ASSUME IsRelease(TheRelease), IsPlannable(TheRelease),
           NEW part \in Elements(TheRelease.parts), IsReference(part)
    PROVE  PartFiles(part) = UNION {FilesIn(Downloaded(TheRelease, a)) : a \in ArtifactsOf(TheRelease, part)}
<1> DEFINE R == TheRelease
           files == PhysicalFiles(R, part.torrents[1])
<1> HIDE DEF R
<1>1. IsRelease(R) /\ IsPlannable(R) /\ part \in Elements(R.parts)
  BY DEF R
<1>2. IsSequence(files)
  BY <1>1, PartIsPlannable, PhysicalElements
<1>3. PartFiles(part) = {ClientFile(part.lang, f.path, f.body) : f \in Elements(files)}
  BY DEF PartFiles, ClientFile, Elements, R
<1>4. ASSUME NEW f \in Elements(files)
      PROVE  FilesIn(Downloaded(R, ReferenceArtifact(part, f))) = {ClientFile(part.lang, f.path, f.body)}
  <2> DEFINE d == Downloaded(R, ReferenceArtifact(part, f))
  <2>1. IsDownloadOf(d, part, "client-file", f)
    BY <1>1, ReferenceDownload
  <2> HIDE DEF d
  <2>2. FilesIn(d) = {ClientFile(part.lang, f.path, f.body)}
    BY <2>1 DEF IsDownloadOf, FilesIn
  <2> QED
    BY <2>2 DEF d
<1>5. ArtifactsOf(R, part) = {ReferenceArtifact(part, f) : f \in Elements(files)}
  BY DEF ArtifactsOf
<1> HIDE DEF files
<1>6. UNION {FilesIn(Downloaded(R, a)) : a \in ArtifactsOf(R, part)}
         = {ClientFile(part.lang, f.path, f.body) : f \in Elements(files)}
  BY <1>4, <1>5
<1> QED
  BY <1>3, <1>6 DEF R

FilesDelivered(part, f) ==
    {ClientFile(part.lang, e.path, e.body) : e \in Installed(Whole(f.body))}

\* The client has what the transitions of the chain install.
LEMMA FilesOfInstalledPart ==
    ASSUME IsRelease(TheRelease), IsPlannable(TheRelease),
           NEW part \in Elements(TheRelease.parts), ~IsReference(part)
    PROVE  PartFiles(part) = UNION {FilesIn(Downloaded(TheRelease, a)) : a \in ArtifactsOf(TheRelease, part)}
<1> DEFINE R == TheRelease
<1> HIDE DEF R
<1>1. IsRelease(R) /\ IsPlannable(R) /\ part \in Elements(R.parts)
  BY DEF R
<1>2. ASSUME NEW t \in Elements(Chain(part)), NEW x \in Elements(t.files)
      PROVE  /\ InTorrent(R, t, x) \in Delivered(t)
             /\ FilesIn(Downloaded(R, DeclaredArtifact(R, part, t, x)))
                   = FilesDelivered(part, InTorrent(R, t, x))
  <2> DEFINE d == Downloaded(R, DeclaredArtifact(R, part, t, x))
             f == InTorrent(R, t, x)
  <2>1. /\ f \in Elements(PhysicalFiles(R, t)) /\ f.path = x.path /\ f.suffix = x.suffix
        /\ IsDownloadOf(d, part, "delivery-bundle", f)
    BY <1>1, DeclaredDownload
  <2> HIDE DEF d, f
  <2>2. FilesIn(d) = FilesDelivered(part, f)
    BY <2>1 DEF IsDownloadOf, FilesIn, FilesDelivered
  <2>3. f \in Delivered(t)
    BY <2>1 DEF Delivered, R
  <2> QED
    BY <2>2, <2>3 DEF d, f
<1>3. ASSUME NEW t \in Elements(Chain(part)), NEW f \in Delivered(t)
      PROVE  \E x \in Elements(t.files) : f = InTorrent(R, t, x)
  <2>1. PICK x \in Elements(t.files) : x.path = f.path /\ x.suffix = f.suffix
    BY DEF Delivered
  <2>2. f \in Elements(PhysicalFiles(R, t))
    BY DEF Delivered, R
  <2>3. IsTorrent(R, t)
    BY <1>1, PartIsPlannable
  <2>4. /\ InTorrent(R, t, x) \in Elements(PhysicalFiles(R, t))
        /\ InTorrent(R, t, x).path = x.path /\ InTorrent(R, t, x).suffix = x.suffix
    BY <1>1, DeclaredDownload
  <2>5. f = InTorrent(R, t, x)
    BY <1>1, <2>1, <2>2, <2>3, <2>4, PhysicalElements, ElementOfTorrent
  <2> QED
    BY <2>5
<1>4. PartFiles(part) = UNION {UNION {FilesDelivered(part, f) : f \in Delivered(t)} : t \in Elements(Chain(part))}
  BY DEF PartFiles, FilesDelivered, ClientFile, Elements
<1>5. UNION {UNION {FilesDelivered(part, f) : f \in Delivered(t)} : t \in Elements(Chain(part))}
        = UNION {UNION {FilesIn(Downloaded(R, DeclaredArtifact(R, part, t, x))) : x \in Elements(t.files)} :
                    t \in Elements(Chain(part))}
  <2>1. ASSUME NEW t \in Elements(Chain(part))
        PROVE  UNION {FilesDelivered(part, f) : f \in Delivered(t)}
                  = UNION {FilesIn(Downloaded(R, DeclaredArtifact(R, part, t, x))) : x \in Elements(t.files)}
    <3>1. {FilesDelivered(part, f) : f \in Delivered(t)}
             = {FilesIn(Downloaded(R, DeclaredArtifact(R, part, t, x))) : x \in Elements(t.files)}
      BY <1>2, <1>3
    <3> QED
      BY <3>1
  <2> QED
    BY <2>1
<1>6. ArtifactsOf(R, part)
        = UNION {{DeclaredArtifact(R, part, t, x) : x \in Elements(t.files)} : t \in Elements(Chain(part))}
  BY DEF ArtifactsOf
<1>7. UNION {FilesIn(Downloaded(R, a)) : a \in ArtifactsOf(R, part)}
        = UNION {UNION {FilesIn(Downloaded(R, DeclaredArtifact(R, part, t, x))) : x \in Elements(t.files)} :
                    t \in Elements(Chain(part))}
  BY <1>6
<1> QED
  BY <1>4, <1>5, <1>7 DEF R

\* The client tree holds the files of the installed client, in its layers.
LEMMA TreeIsTheClient ==
    ASSUME IsRelease(TheRelease), IsPlannable(TheRelease),
           NEW downloads, downloads = Downloads(TheRelease, Plan(TheRelease)),
           IsVerifiable({}, downloads), IsAssemblable({}, Units({}, downloads)),
           NEW tree, tree = TreeOf({}, Units({}, downloads))
    PROVE  /\ {AsClientFile(f) : f \in tree} = ClientFiles
           /\ \A f \in tree : IsPath(f.path) /\ IsPackageBody(f.body) /\ IsFileAt(f.path, f.body)
<1> DEFINE R == TheRelease
<1> HIDE DEF R
<1>1. IsRelease(R) /\ IsPlannable(R) /\ downloads = Downloads(R, Plan(R))
  BY DEF R
<1>2. /\ IsSequence(downloads)
      /\ Elements(downloads) = {Downloaded(R, a) : a \in {b \in Elements(Plan(R)) : TRUE}}
      /\ \A a : IsPlanned(R, a) <=> a \in Elements(Plan(R))
  BY <1>1, DownloadsElements
<1>3. \A i \in DOMAIN downloads : IsSoundDownload(downloads[i])
  <2> TAKE i \in DOMAIN downloads
  <2>1. downloads[i] \in Elements(downloads)
    BY DEF Elements
  <2>2. PICK a : IsPlanned(R, a) /\ downloads[i] = Downloaded(R, a)
    BY <1>2, <2>1
  <2> QED
    BY <1>1, <2>2, DownloadsAreSound
<1>4. {AsClientFile(f) : f \in tree} = UNION {FilesIn(d) : d \in Elements(downloads)}
  BY <1>2, <1>3, TreeOfDownloads
<1>5. ClientFiles = UNION {PartFiles(part) : part \in Elements(R.parts)}
  BY DEF ClientFiles, Elements, R
<1>6. \A part \in Elements(R.parts) :
         PartFiles(part) = UNION {FilesIn(Downloaded(R, a)) : a \in ArtifactsOf(R, part)}
  BY FilesOfReferencePart, FilesOfInstalledPart, <1>1 DEF R
<1>7. UNION {FilesIn(d) : d \in Elements(downloads)}
        = UNION {UNION {FilesIn(Downloaded(R, a)) : a \in ArtifactsOf(R, part)} : part \in Elements(R.parts)}
  <2>1. Elements(Plan(R)) = UNION {ArtifactsOf(R, part) : part \in Elements(R.parts)}
    BY <1>1, PlanElements
  <2>2. UNION {FilesIn(d) : d \in Elements(downloads)} = UNION {FilesIn(Downloaded(R, a)) : a \in Elements(Plan(R))}
    BY <1>2
  <2> QED
    BY <2>1, <2>2
<1>8. {AsClientFile(f) : f \in tree} = ClientFiles
  BY <1>4, <1>5, <1>6, <1>7
<1>9. \A f \in tree : IsPath(f.path) /\ IsPackageBody(f.body) /\ IsFileAt(f.path, f.body)
  BY <1>2, <1>3, TreeIsTyped
<1> QED
  BY <1>8, <1>9

-----------------------------------------------------------------------------
(* Mounting, from the last layer to the first.                             *)

IsMount(f, L, layers) ==
    f = [n \in 1..(L + 1) |-> IF n = L + 1 THEN Named(layers[n])
                              ELSE Overlay(Named(layers[n]), f[n + 1])]

\* The recursive function that Mounted is defined by exists.
LEMMA MountExists ==
    ASSUME NEW L \in Nat, NEW layers
    PROVE  \E f : IsMount(f, L, layers)
<1> DEFINE From(f, m) == f = [n \in m..(L + 1) |-> IF n = L + 1 THEN Named(layers[n])
                                                  ELSE Overlay(Named(layers[n]), f[n + 1])]
           Good == {j \in Nat : j <= L => \E f : From(f, L + 1 - j)}
<1>1. 0 \in Good
  <2> DEFINE g == [n \in (L + 1)..(L + 1) |-> Named(layers[L + 1])]
  <2>1. From(g, L + 1)
    OBVIOUS
  <2>2. \E f : From(f, L + 1)
    BY <2>1
  <2>3. L + 1 - 0 = L + 1
    OBVIOUS
  <2> HIDE DEF From
  <2> QED
    BY <2>2, <2>3
<1>2. ASSUME NEW j \in Nat, j \in Good
      PROVE  j + 1 \in Good
  <2> SUFFICES ASSUME j + 1 <= L
               PROVE  \E f : From(f, L + 1 - (j + 1))
    OBVIOUS
  <2>1. PICK f : From(f, L + 1 - j)
    BY <1>2
  <2> DEFINE m == L + 1 - (j + 1)
             new == Overlay(Named(layers[m]), f[m + 1])
             g == [n \in m..(L + 1) |-> IF n = m THEN new ELSE f[n]]
  <2>2. m \in Nat /\ L + 1 - j = m + 1 /\ m # L + 1 /\ m + 1 \in (m + 1)..(L + 1)
    OBVIOUS
  <2> HIDE DEF m
  <2>3. \A n \in (m + 1)..(L + 1) : f[n] = IF n = L + 1 THEN Named(layers[n])
                                           ELSE Overlay(Named(layers[n]), f[n + 1])
    BY <2>1, <2>2
  <2>4. \A n \in (m + 1)..(L + 1) : g[n] = f[n]
    BY <2>2
  <2>5. g[m] = Overlay(Named(layers[m]), g[m + 1])
    <3>1. m \in m..(L + 1)
      BY <2>2
    <3>2. g[m] = new
      BY <3>1
    <3>3. g[m + 1] = f[m + 1]
      BY <2>2, <2>4
    <3> QED
      BY <3>2, <3>3
  <2>6. ASSUME NEW n \in m..(L + 1)
        PROVE  g[n] = IF n = L + 1 THEN Named(layers[n]) ELSE Overlay(Named(layers[n]), g[n + 1])
    <3>1. CASE n = m
      BY <2>2, <2>5, <3>1
    <3>2. CASE n = L + 1
      <4>1. n \in (m + 1)..(L + 1)
        BY <3>2, <2>2
      <4>2. g[n] = f[n] /\ f[n] = Named(layers[n])
        BY <2>3, <2>4, <3>2, <4>1
      <4> QED
        BY <3>2, <4>2
    <3>3. CASE n # m /\ n # L + 1
      <4>1. n \in (m + 1)..(L + 1) /\ n + 1 \in (m + 1)..(L + 1)
        BY <3>3, <2>2
      <4>2. g[n] = f[n] /\ g[n + 1] = f[n + 1]
        BY <2>4, <4>1
      <4>3. f[n] = Overlay(Named(layers[n]), f[n + 1])
        BY <2>3, <3>3, <4>1
      <4> QED
        BY <3>3, <4>2, <4>3
    <3> QED
      BY <3>1, <3>2, <3>3
  <2>7. g = [n \in m..(L + 1) |-> g[n]]
    OBVIOUS
  <2> HIDE DEF g, new
  <2>8. From(g, m)
    BY <2>6, <2>7
  <2> HIDE DEF From
  <2> QED
    BY <2>8 DEF m
<1>3. Nat \subseteq Good
  <2> HIDE DEF Good
  <2> QED
    BY <1>1, <1>2, NatSetInduction
<1>4. \E f : From(f, L + 1 - L)
  <2> HIDE DEF From
  <2>1. L \in Good
    BY <1>3
  <2> QED
    BY <2>1
<1>5. L + 1 - L = 1
  OBVIOUS
<1>6. \E f : From(f, 1)
  <2> HIDE DEF From
  <2> QED
    BY <1>4, <1>5
<1> QED
  BY <1>6 DEF IsMount

\* What a mount finds under a name: the first layer that has the name has it.
Finds(found, V, k) ==
    \E v \in V : /\ Fold(v.path) = k /\ found = <<v.path, v.body>>
                 /\ \A w \in V : Fold(w.path) = k => v.at <= w.at

Pairs(V) == {<<v.path, v.body>> : v \in V}

IsLayerOf(layer, V) ==
    /\ DOMAIN layer = {Fold(v.path) : v \in V}
    /\ \A k \in DOMAIN layer : \E v \in V : Fold(v.path) = k /\ layer[k] = <<v.path, v.body>>

\* A layer shows one file under each of its names.
LEMMA NamedFinds ==
    ASSUME NEW V, NEW pairs, pairs = Pairs(V), NEW layer, layer = Named(pairs)
    PROVE  IsLayerOf(layer, V)
<1>1. layer = [k \in {Fold(p[1]) : p \in pairs} |-> CHOOSE p \in pairs : Fold(p[1]) = k]
  BY DEF Named
<1>2. DOMAIN layer = {Fold(v.path) : v \in V}
  <2>1. DOMAIN layer = {Fold(p[1]) : p \in pairs}
    BY <1>1
  <2>2. \A v \in V : <<v.path, v.body>>[1] = v.path
    OBVIOUS
  <2>3. {Fold(p[1]) : p \in pairs} = {Fold(<<v.path, v.body>>[1]) : v \in V}
    BY DEF Pairs
  <2> QED
    BY <2>1, <2>2, <2>3
<1>3. ASSUME NEW k \in DOMAIN layer
      PROVE  \E v \in V : Fold(v.path) = k /\ layer[k] = <<v.path, v.body>>
  <2> DEFINE chosen == CHOOSE p \in pairs : Fold(p[1]) = k
  <2>1. \E p \in pairs : Fold(p[1]) = k
    BY <1>1
  <2>2. chosen \in pairs /\ Fold(chosen[1]) = k
    BY <2>1
  <2>3. layer[k] = chosen
    BY <1>1
  <2>4. PICK v \in V : chosen = <<v.path, v.body>>
    BY <2>2 DEF Pairs
  <2> HIDE DEF chosen
  <2> QED
    BY <2>2, <2>3, <2>4
<1> QED
  BY <1>2, <1>3 DEF IsLayerOf

\* What a mounted stack shows under a name is the file of the first layer that has it.
LEMMA MountFinds ==
    ASSUME NEW L \in Nat, NEW V, \A v \in V : v.at \in 1..(L + 1),
           NEW layers, \A n \in 1..(L + 1) :
              layers[n] = Pairs({v \in V : v.at = n}),
           NEW mount, IsMount(mount, L, layers)
    PROVE  /\ DOMAIN mount[1] = {Fold(v.path) : v \in V}
           /\ \A k \in DOMAIN mount[1] : Finds(mount[1][k], V, k)
<1> DEFINE From(m) == {v \in V : v.at >= m}
           At(n) == {v \in V : v.at = n}
           IsRight(m) == /\ DOMAIN mount[m] = {Fold(v.path) : v \in From(m)}
                         /\ \A k \in DOMAIN mount[m] : Finds(mount[m][k], From(m), k)
           Good == {j \in Nat : j <= L => IsRight(L + 1 - j)}
<1>1. \A n \in 1..(L + 1) : mount[n] = IF n = L + 1 THEN Named(layers[n])
                                       ELSE Overlay(Named(layers[n]), mount[n + 1])
  BY DEF IsMount
<1>2. ASSUME NEW n \in 1..(L + 1)
      PROVE  /\ DOMAIN Named(layers[n]) = {Fold(v.path) : v \in At(n)}
             /\ \A k \in DOMAIN Named(layers[n]) :
                   \E v \in At(n) : Fold(v.path) = k /\ Named(layers[n])[k] = <<v.path, v.body>>
  <2>1. layers[n] = Pairs(At(n))
    OBVIOUS
  <2> HIDE DEF At
  <2>2. IsLayerOf(Named(layers[n]), At(n))
    BY <2>1, NamedFinds
  <2> QED
    BY <2>2 DEF IsLayerOf
<1>3. IsRight(L + 1)
  <2>1. From(L + 1) = At(L + 1)
    OBVIOUS
  <2>2. mount[L + 1] = Named(layers[L + 1]) /\ L + 1 \in 1..(L + 1)
    BY <1>1
  <2>3. \A v, w \in At(L + 1) : v.at <= w.at
    OBVIOUS
  <2> HIDE DEF At, From
  <2> DEFINE n == L + 1
  <2>a. n \in 1..(L + 1)
    BY <2>2
  <2> HIDE DEF n
  <2>b. /\ DOMAIN Named(layers[n]) = {Fold(v.path) : v \in At(n)}
        /\ \A k \in DOMAIN Named(layers[n]) :
              \E v \in At(n) : Fold(v.path) = k /\ Named(layers[n])[k] = <<v.path, v.body>>
    BY <1>2, <2>a
  <2>4. /\ DOMAIN mount[L + 1] = {Fold(v.path) : v \in At(L + 1)}
        /\ \A k \in DOMAIN mount[L + 1] :
              \E v \in At(L + 1) : Fold(v.path) = k /\ mount[L + 1][k] = <<v.path, v.body>>
    BY <2>b, <2>2 DEF n
  <2>5. \A k \in DOMAIN mount[L + 1] : Finds(mount[L + 1][k], At(L + 1), k)
    BY <2>3, <2>4 DEF Finds
  <2> QED
    BY <2>1, <2>4, <2>5
<1>4. 0 \in Good
  <2>1. L + 1 - 0 = L + 1
    OBVIOUS
  <2> HIDE DEF IsRight
  <2> QED
    BY <1>3, <2>1
<1>5. ASSUME NEW j \in Nat, j \in Good
      PROVE  j + 1 \in Good
  <2> SUFFICES ASSUME j + 1 <= L
               PROVE  IsRight(L + 1 - (j + 1))
    <3> HIDE DEF IsRight
    <3> QED
      OBVIOUS
  <2> DEFINE m == L + 1 - (j + 1)
             over == Named(layers[m])
  <2>1. m \in 1..L /\ L + 1 - j = m + 1 /\ m # L + 1 /\ m \in 1..(L + 1)
    OBVIOUS
  <2>2. IsRight(m + 1)
    <3> HIDE DEF IsRight
    <3> QED
      BY <1>5, <2>1
  <2> HIDE DEF m
  <2>3. mount[m] = Overlay(over, mount[m + 1])
    BY <1>1, <2>1
  <2>4. /\ DOMAIN over = {Fold(v.path) : v \in At(m)}
        /\ \A k \in DOMAIN over : \E v \in At(m) : Fold(v.path) = k /\ over[k] = <<v.path, v.body>>
    BY <1>2, <2>1
  <2>5. From(m) = At(m) \cup From(m + 1)
    BY <2>1
  <2>6. /\ \A v \in At(m) : v.at = m
        /\ \A v \in From(m + 1) : m < v.at
    BY <2>1
  <2>7. /\ DOMAIN mount[m + 1] = {Fold(v.path) : v \in From(m + 1)}
        /\ \A k \in DOMAIN mount[m + 1] : Finds(mount[m + 1][k], From(m + 1), k)
    BY <2>2
  <2>8. /\ DOMAIN mount[m] = DOMAIN over \cup DOMAIN mount[m + 1]
        /\ \A k \in DOMAIN mount[m] :
              mount[m][k] = IF k \in DOMAIN over THEN over[k] ELSE mount[m + 1][k]
    BY <2>3 DEF Overlay
  <2> HIDE DEF over, From, At
  <2>9. DOMAIN mount[m] = {Fold(v.path) : v \in From(m)}
    BY <2>4, <2>5, <2>7, <2>8
  <2>10. ASSUME NEW k \in DOMAIN mount[m]
         PROVE  Finds(mount[m][k], From(m), k)
    <3>1. CASE k \in DOMAIN over
      <4>1. PICK v \in At(m) : Fold(v.path) = k /\ over[k] = <<v.path, v.body>>
        BY <2>4, <3>1
      <4>2. \A w \in From(m) : v.at <= w.at
        BY <2>1, <2>5, <2>6 DEF From
      <4> QED
        BY <2>5, <2>8, <3>1, <4>1, <4>2 DEF Finds
    <3>2. CASE k \notin DOMAIN over
      <4>1. PICK v \in From(m + 1) :
                /\ Fold(v.path) = k /\ mount[m + 1][k] = <<v.path, v.body>>
                /\ \A w \in From(m + 1) : Fold(w.path) = k => v.at <= w.at
        BY <2>7, <2>8, <3>2 DEF Finds
      <4>2. \A w \in From(m) : Fold(w.path) = k => v.at <= w.at
        BY <2>4, <2>5, <3>2, <4>1
      <4> QED
        BY <2>5, <2>8, <3>2, <4>1, <4>2 DEF Finds
    <3> QED
      BY <3>1, <3>2
  <2> QED
    BY <2>9, <2>10 DEF m
<1>6. Nat \subseteq Good
  <2> HIDE DEF Good
  <2> QED
    BY <1>4, <1>5, NatSetInduction
<1>7. IsRight(L + 1 - L)
  <2> HIDE DEF IsRight
  <2>1. L \in Good
    BY <1>6
  <2> QED
    BY <2>1
<1>8. L + 1 - L = 1 /\ From(1) = V
  OBVIOUS
<1>9. IsRight(1)
  <2> HIDE DEF IsRight
  <2> QED
    BY <1>7, <1>8
<1> HIDE DEF From
<1> QED
  BY <1>8, <1>9

-----------------------------------------------------------------------------
(* The index.                                                              *)

LEMMA OrderIsSequence ==
    ASSUME NEW body, IsSequence(body.items), NEW client
    PROVE  IsSequence(Order(body, client))
<1> DEFINE S == {i \in Elements(body.items) : i.types = {} \/ client \in i.types}
           selected == Where(body.items, S)
           order == [i \in DOMAIN selected |-> selected[i].path]
<1>1. Order(body, client) = order
  BY DEF Order
<1> HIDE DEF S
<1>2. IsSequence(selected)
  BY WhereElements
<1> HIDE DEF selected
<1>3. IsSequence(order)
  BY <1>2, MappedSequence
<1> QED
  BY <1>1, <1>3

IsTypedTree(T) == \A f \in T : IsPath(f.path) /\ IsPackageBody(f.body)

\* What the index is made from: an indexable tree, and the order of its packages.
IsIndexed(T, client, order) ==
    /\ IsTypedTree(T) /\ ClaimsAreDisjoint(T)
    /\ IsIndexable({}, T, client)
    /\ order = OrderOf({}, T, client)

LEMMA PathsFileIsUnique ==
    ASSUME NEW T, NEW client, NEW order, IsIndexed(T, client, order),
           NEW f \in T, f.lang = NoLang, f.path = PathsXml
    PROVE  f = PathsFile(T)
<1> DEFINE Is(g) == g.lang = NoLang /\ g.path = PathsXml
           p == PathsFile(T)
<1>1. p \in T /\ Is(p)
  <2>1. PathsFile(T) = CHOOSE g \in T : Is(g)
    BY DEF PathsFile
  <2>2. \E g \in T : Is(g)
    OBVIOUS
  <2> HIDE DEF Is
  <2> QED
    BY <2>1, <2>2
<1> QED
  BY <1>1 DEF IsIndexed, ClaimsAreDisjoint

LEMMA PathsFileIsThere ==
    ASSUME NEW T, NEW client, NEW order, IsIndexed(T, client, order)
    PROVE  PathsFile(T) \in T /\ PathsFile(T).lang = NoLang /\ PathsFile(T).path = PathsXml
<1>1. \E f \in T : f.lang = NoLang /\ f.path = PathsXml
  BY DEF IsIndexed, IsIndexable
<1>2. PICK f \in T : f.lang = NoLang /\ f.path = PathsXml
  BY <1>1
<1>3. f = PathsFile(T)
  BY <1>2, PathsFileIsUnique
<1> QED
  BY <1>2, <1>3

\* Every package of an indexable tree has its place in the order.
LEMMA OrderOfPackages ==
    ASSUME NEW T, NEW client, NEW order, IsIndexed(T, client, order)
    PROVE  /\ IsSequence(order) /\ order = Order(PathsFile(T).body, client)
           /\ \A i \in DOMAIN order : order[i].ext = "pkg"
           /\ \A i, j \in DOMAIN order : order[i] = order[j] => i = j
           /\ \A f \in T : IsPackage(f) => /\ Position(order, f.path) \in DOMAIN order
                                           /\ order[Position(order, f.path)] = f.path
                                           /\ f.body.fmt = "zip"
<1> DEFINE body == PathsFile(T).body
<1>1. order = Order(body, client)
  BY ReadUnchanged DEF IsIndexed, OrderOf, Opened
<1>2. IsSequence(body.items)
  BY PathsFileIsThere DEF IsIndexed, IsTypedTree, IsPackageBody, IsBody
<1>3. IsSequence(order)
  BY <1>1, <1>2, OrderIsSequence
<1>4. IsOrder(body, client)
  BY ReadUnchanged DEF IsIndexed, IsIndexable, Opened
<1>5. \A i \in DOMAIN order : order[i].ext = "pkg"
  BY <1>1, <1>4 DEF IsOrder
<1>6. ~HasDuplicates(order)
  BY <1>1, <1>4 DEF IsOrder
<1>7. ASSUME NEW f \in T, IsPackage(f)
      PROVE  /\ Position(order, f.path) \in DOMAIN order
             /\ order[Position(order, f.path)] = f.path
             /\ f.body.fmt = "zip"
  <2>1. \E i \in DOMAIN order : order[i] = f.path
    BY <1>7 DEF IsIndexed, IsIndexable
  <2>2. Opened({}, f).fmt = "zip"
    BY <1>7 DEF IsIndexed, IsIndexable
  <2> QED
    BY <2>1, <2>2, ReadUnchanged DEF Position, Opened
<1> QED
  BY <1>1, <1>3, <1>5, <1>6, <1>7 DEF HasDuplicates

IsOfFile(c, f) ==
    /\ c.lang = f.lang /\ c.part = f.part /\ c.version = f.version
    /\ c.source = f.path /\ c.archive = f.body

IsLooseCandidate(c, f, order) ==
    /\ IsOfFile(c, f) /\ IsLoose(f)
    /\ c.path = [f.path EXCEPT !.top = "vfs"]
    /\ c.precedence = Len(order) + 1 /\ c.entry = 0

IsPackageCandidate(c, f, order, i) ==
    /\ IsOfFile(c, f) /\ IsPackage(f) /\ f.body.fmt = "zip"
    /\ i \in DOMAIN f.body.items /\ i # 0 /\ c.entry = i
    /\ c.path = f.body.items[i].path /\ c.crc = f.body.items[i].crc
    /\ c.precedence \in DOMAIN order /\ order[c.precedence] = f.path

LEMMA ItemsOfPackage ==
    ASSUME NEW T, NEW client, NEW order, IsIndexed(T, client, order),
           NEW f \in T, IsPackage(f), NEW i \in DOMAIN f.body.items
    PROVE  i # 0 /\ IsPath(f.body.items[i].path) /\ IsBody(f.body.items[i].body)
           /\ f.body.items[i].crc # Other
<1>1. IsPackageBody(f.body) /\ f.body.fmt \in Archives
  BY OrderOfPackages DEF IsIndexed, IsTypedTree, Archives
<1>2. IsSequence(f.body.items)
  BY <1>1 DEF IsPackageBody, IsBody
<1>3. i \in 1..Len(f.body.items) /\ Len(f.body.items) \in Nat
  BY <1>2, RangeOf
<1> QED
  <2>1. IsEntry(f.body.items[i])
    BY <1>1 DEF IsPackageBody
  <2> QED
    BY <2>1, <1>3 DEF IsEntry

LEMMA CandidatesAre ==
    ASSUME NEW T, NEW order, NEW c
    PROVE  c \in Candidates({}, T, order) <=>
              \/ \E f \in T : IsPackage(f) /\ c \in PackageCandidates({}, f, Position(order, f.path))
              \/ \E f \in T : IsLoose(f) /\ c = LooseCandidate(f, Len(order) + 1)
<1> DEFINE packed == {PackageCandidates({}, f, Position(order, f.path)) : f \in {g \in T : IsPackage(g)}}
           loose == {LooseCandidate(f, Len(order) + 1) : f \in {g \in T : IsLoose(g)}}
<1>1. Candidates({}, T, order) = (UNION packed) \cup loose
  BY DEF Candidates
<1>2. c \in UNION packed <=>
         \E f \in T : IsPackage(f) /\ c \in PackageCandidates({}, f, Position(order, f.path))
  OBVIOUS
<1>3. c \in loose <=> \E f \in T : IsLoose(f) /\ c = LooseCandidate(f, Len(order) + 1)
  OBVIOUS
<1> HIDE DEF packed, loose
<1> QED
  BY <1>1, <1>2, <1>3

LEMMA LooseCandidateIs ==
    ASSUME NEW f, NEW order, IsLoose(f)
    PROVE  IsLooseCandidate(LooseCandidate(f, Len(order) + 1), f, order)
<1> DEFINE path == [f.path EXCEPT !.top = "vfs"]
           c == Candidate(f, path, Len(order) + 1, 0, f.body.id)
<1>1. LooseCandidate(f, Len(order) + 1) = c
  BY DEF LooseCandidate
<1> HIDE DEF path
<1>2. IsOfFile(c, f) /\ c.path = path /\ c.precedence = Len(order) + 1 /\ c.entry = 0
  BY DEF Candidate, IsOfFile
<1> QED
  BY <1>1, <1>2 DEF IsLooseCandidate, path

\* A candidate is a loose file, or an entry of a package.
LEMMA CandidateOf ==
    ASSUME NEW T, NEW client, NEW order, IsIndexed(T, client, order),
           NEW c \in Candidates({}, T, order)
    PROVE  \E f \in T : \/ IsLooseCandidate(c, f, order)
                        \/ \E i \in DOMAIN f.body.items : IsPackageCandidate(c, f, order, i)
<1>1. CASE \E f \in T : IsPackage(f) /\ c \in PackageCandidates({}, f, Position(order, f.path))
  <2>1. PICK f \in T : IsPackage(f) /\ c \in PackageCandidates({}, f, Position(order, f.path))
    BY <1>1
  <2>2. PICK i \in DOMAIN f.body.items :
            c = Candidate(f, f.body.items[i].path, Position(order, f.path), i, f.body.items[i].crc)
    BY <2>1, ReadUnchanged DEF PackageCandidates, Opened
  <2>3. /\ Position(order, f.path) \in DOMAIN order
        /\ order[Position(order, f.path)] = f.path /\ f.body.fmt = "zip"
    BY <2>1, OrderOfPackages
  <2>4. i # 0
    BY <2>1, ItemsOfPackage
  <2>5. IsPackageCandidate(c, f, order, i)
    BY <2>1, <2>2, <2>3, <2>4 DEF IsPackageCandidate, IsOfFile, Candidate
  <2> QED
    BY <2>5
<1>2. CASE \E f \in T : IsLoose(f) /\ c = LooseCandidate(f, Len(order) + 1)
  <2>1. PICK f \in T : IsLoose(f) /\ c = LooseCandidate(f, Len(order) + 1)
    BY <1>2
  <2>2. IsLooseCandidate(c, f, order)
    BY <2>1, LooseCandidateIs
  <2> QED
    BY <2>2
<1> QED
  BY <1>1, <1>2, CandidatesAre

LEMMA LooseIsCandidate ==
    ASSUME NEW T, NEW order, NEW f \in T, IsLoose(f)
    PROVE  \E c \in Candidates({}, T, order) : IsLooseCandidate(c, f, order)
<1>1. LooseCandidate(f, Len(order) + 1) \in Candidates({}, T, order)
  BY CandidatesAre
<1>2. IsLooseCandidate(LooseCandidate(f, Len(order) + 1), f, order)
  BY LooseCandidateIs
<1> QED
  BY <1>1, <1>2

LEMMA EntryIsCandidate ==
    ASSUME NEW T, NEW client, NEW order, IsIndexed(T, client, order),
           NEW f \in T, IsPackage(f), NEW i \in DOMAIN f.body.items
    PROVE  \E c \in Candidates({}, T, order) : IsPackageCandidate(c, f, order, i)
<1> DEFINE c == Candidate(f, f.body.items[i].path, Position(order, f.path), i, f.body.items[i].crc)
<1>1. c \in PackageCandidates({}, f, Position(order, f.path))
  BY ReadUnchanged DEF PackageCandidates, Opened
<1>2. c \in Candidates({}, T, order)
  <2> HIDE DEF c
  <2> QED
    BY <1>1 DEF Candidates
<1>3. /\ Position(order, f.path) \in DOMAIN order
      /\ order[Position(order, f.path)] = f.path /\ f.body.fmt = "zip" /\ i # 0
  BY OrderOfPackages, ItemsOfPackage
<1>4. IsPackageCandidate(c, f, order, i)
  BY <1>3 DEF IsPackageCandidate, IsOfFile, Candidate
<1> QED
  BY <1>2, <1>4

-----------------------------------------------------------------------------
(* The layers of a mount, and the candidates of the index.                 *)

BodyOf(c) == IF c.entry = 0 THEN c.archive ELSE c.archive.items[c.entry].body

View(c) == [at |-> c.precedence, path |-> c.path, body |-> BodyOf(c)]

ViewsIn(T, order, lang) == {View(c) : c \in {d \in Candidates({}, T, order) : d.lang = lang}}

LooseIn(files, lang) ==
    {<<[f.path EXCEPT !.top = "vfs"], f.body>> : f \in {g \in files : g.lang = lang /\ IsLoose(g)}}

PackedIn(files, lang, path) ==
    UNION {{<<f.body.items[i].path, f.body.items[i].body>> : i \in DOMAIN f.body.items} :
           f \in {g \in files : g.lang = lang /\ g.path = path}}

LEMMA ViewOfLoose ==
    ASSUME NEW c, NEW f, NEW order, IsLooseCandidate(c, f, order)
    PROVE  /\ View(c).at = Len(order) + 1
           /\ View(c).path = [f.path EXCEPT !.top = "vfs"] /\ View(c).body = f.body
BY DEF IsLooseCandidate, IsOfFile, View, BodyOf

LEMMA ViewOfPackage ==
    ASSUME NEW c, NEW f, NEW order, NEW i, IsPackageCandidate(c, f, order, i)
    PROVE  /\ View(c).at \in DOMAIN order /\ order[View(c).at] = f.path
           /\ View(c).path = f.body.items[i].path /\ View(c).body = f.body.items[i].body
BY DEF IsPackageCandidate, IsOfFile, View, BodyOf

LEMMA LooseLayer ==
    ASSUME NEW T, NEW client, NEW order, IsIndexed(T, client, order), NEW lang
    PROVE  LooseIn(T, lang) = Pairs({v \in ViewsIn(T, order, lang) : v.at = Len(order) + 1})
<1> DEFINE V == ViewsIn(T, order, lang)
<1>0. Len(order) \in Nat /\ DOMAIN order = 1..Len(order)
  BY OrderOfPackages, RangeOf
<1>1. ASSUME NEW p \in LooseIn(T, lang)
      PROVE  \E v \in V : v.at = Len(order) + 1 /\ p = <<v.path, v.body>>
  <2>1. PICK f \in T : /\ f.lang = lang /\ IsLoose(f)
                       /\ p = <<[f.path EXCEPT !.top = "vfs"], f.body>>
    BY DEF LooseIn
  <2>2. PICK c \in Candidates({}, T, order) : IsLooseCandidate(c, f, order)
    BY <2>1, LooseIsCandidate
  <2>3. c.lang = lang
    BY <2>1, <2>2 DEF IsLooseCandidate, IsOfFile
  <2>4. View(c) \in V
    BY <2>3 DEF ViewsIn
  <2> QED
    BY <2>1, <2>2, <2>4, ViewOfLoose
<1>2. ASSUME NEW v \in V, v.at = Len(order) + 1
      PROVE  <<v.path, v.body>> \in LooseIn(T, lang)
  <2>1. PICK c \in Candidates({}, T, order) : c.lang = lang /\ v = View(c)
    BY DEF ViewsIn
  <2>2. PICK f \in T : \/ IsLooseCandidate(c, f, order)
                       \/ \E i \in DOMAIN f.body.items : IsPackageCandidate(c, f, order, i)
    BY CandidateOf
  <2>3. IsLooseCandidate(c, f, order)
    BY <1>0, <1>2, <2>1, <2>2, ViewOfPackage
  <2>4. f.lang = lang /\ IsLoose(f)
    BY <2>1, <2>3 DEF IsLooseCandidate, IsOfFile
  <2>5. v.path = [f.path EXCEPT !.top = "vfs"] /\ v.body = f.body
    BY <2>1, <2>3, ViewOfLoose
  <2> QED
    BY <2>4, <2>5 DEF LooseIn
<1> QED
  BY <1>1, <1>2 DEF Pairs

LEMMA PackageLayer ==
    ASSUME NEW T, NEW client, NEW order, IsIndexed(T, client, order), NEW lang,
           NEW n \in DOMAIN order
    PROVE  PackedIn(T, lang, order[n]) = Pairs({v \in ViewsIn(T, order, lang) : v.at = n})
<1> DEFINE V == ViewsIn(T, order, lang)
<1>0. /\ Len(order) \in Nat /\ DOMAIN order = 1..Len(order)
      /\ order[n].ext = "pkg"
      /\ \A i, j \in DOMAIN order : order[i] = order[j] => i = j
  BY OrderOfPackages, RangeOf
<1>1. ASSUME NEW p \in PackedIn(T, lang, order[n])
      PROVE  \E v \in V : v.at = n /\ p = <<v.path, v.body>>
  <2>1. PICK f \in T : /\ f.lang = lang /\ f.path = order[n]
                       /\ p \in {<<f.body.items[i].path, f.body.items[i].body>> : i \in DOMAIN f.body.items}
    BY DEF PackedIn
  <2>2. PICK i \in DOMAIN f.body.items : p = <<f.body.items[i].path, f.body.items[i].body>>
    BY <2>1
  <2>3. IsPackage(f)
    BY <1>0, <2>1 DEF IsPackage
  <2>4. PICK c \in Candidates({}, T, order) : IsPackageCandidate(c, f, order, i)
    BY <2>3, EntryIsCandidate
  <2>5. c.lang = lang
    BY <2>1, <2>4 DEF IsPackageCandidate, IsOfFile
  <2>6. View(c) \in V
    BY <2>5 DEF ViewsIn
  <2>7. View(c).at = n
    BY <1>0, <2>1, <2>4, ViewOfPackage
  <2> QED
    BY <2>2, <2>4, <2>6, <2>7, ViewOfPackage
<1>2. ASSUME NEW v \in V, v.at = n
      PROVE  <<v.path, v.body>> \in PackedIn(T, lang, order[n])
  <2>1. PICK c \in Candidates({}, T, order) : c.lang = lang /\ v = View(c)
    BY DEF ViewsIn
  <2>2. PICK f \in T : \/ IsLooseCandidate(c, f, order)
                       \/ \E i \in DOMAIN f.body.items : IsPackageCandidate(c, f, order, i)
    BY CandidateOf
  <2>3. PICK i \in DOMAIN f.body.items : IsPackageCandidate(c, f, order, i)
    <3>1. n # Len(order) + 1
      BY <1>0
    <3>2. ~IsLooseCandidate(c, f, order)
      BY <1>2, <2>1, <3>1, ViewOfLoose
    <3> QED
      BY <2>2, <3>2
  <2>4. f.lang = lang
    BY <2>1, <2>3 DEF IsPackageCandidate, IsOfFile
  <2>5. /\ f.path = order[n]
        /\ v.path = f.body.items[i].path /\ v.body = f.body.items[i].body
    BY <1>2, <2>1, <2>3, ViewOfPackage
  <2> QED
    BY <2>4, <2>5 DEF PackedIn
<1> QED
  BY <1>1, <1>2 DEF Pairs

\* The order of the packages in the client, and its layers, are those of its tree.
LEMMA LayersOfTheClient ==
    ASSUME NEW T, {AsClientFile(f) : f \in T} = ClientFiles, NEW lang, NEW path
    PROVE  LooseIn(ClientFiles, lang) = LooseIn(T, lang)
           /\ PackedIn(ClientFiles, lang, path) = PackedIn(T, lang, path)
<1>1. \A f : /\ AsClientFile(f).lang = f.lang /\ AsClientFile(f).path = f.path
             /\ AsClientFile(f).body = f.body /\ (IsLoose(AsClientFile(f)) <=> IsLoose(f))
  BY DEF AsClientFile, IsLoose, IsPackage
<1>2. \A f \in T : AsClientFile(f) \in ClientFiles
  OBVIOUS
<1>3. \A g \in ClientFiles : \E f \in T : g = AsClientFile(f)
  OBVIOUS
<1> HIDE DEF AsClientFile
<1>4. LooseIn(ClientFiles, lang) = LooseIn(T, lang)
  BY <1>1, <1>2, <1>3 DEF LooseIn
<1>5. PackedIn(ClientFiles, lang, path) = PackedIn(T, lang, path)
  <2>1. ASSUME NEW p \in PackedIn(ClientFiles, lang, path)
        PROVE  p \in PackedIn(T, lang, path)
    <3>1. PICK g \in ClientFiles : /\ g.lang = lang /\ g.path = path
            /\ p \in {<<g.body.items[i].path, g.body.items[i].body>> : i \in DOMAIN g.body.items}
      BY DEF PackedIn
    <3>2. PICK f \in T : g.lang = f.lang /\ g.path = f.path /\ g.body = f.body
      BY <1>1, <1>3
    <3> QED
      BY <3>1, <3>2 DEF PackedIn
  <2>2. ASSUME NEW p \in PackedIn(T, lang, path)
        PROVE  p \in PackedIn(ClientFiles, lang, path)
    <3>1. PICK f \in T : /\ f.lang = lang /\ f.path = path
            /\ p \in {<<f.body.items[i].path, f.body.items[i].body>> : i \in DOMAIN f.body.items}
      BY DEF PackedIn
    <3>2. PICK g \in ClientFiles : g.lang = f.lang /\ g.path = f.path /\ g.body = f.body
      BY <1>1, <1>2
    <3> QED
      BY <3>1, <3>2 DEF PackedIn
  <2> QED
    BY <2>1, <2>2
<1> QED
  BY <1>4, <1>5

\* The tree that the index is made from is that of the client.
IsOfTheClient(T, order) ==
    IsIndexed(T, TheRelease.client, order) /\ {AsClientFile(f) : f \in T} = ClientFiles

LEMMA OrderOfTheClient ==
    ASSUME NEW T, NEW order, IsOfTheClient(T, order)
    PROVE  Order((CHOOSE f \in ClientFiles : f.lang = NoLang /\ f.path = PathsXml).body,
                 TheRelease.client) = order
<1> DEFINE Is(g) == g.lang = NoLang /\ g.path = PathsXml
           g == CHOOSE f \in ClientFiles : Is(f)
           client == TheRelease.client
<1>0. IsIndexed(T, client, order)
  BY DEF IsOfTheClient
<1> HIDE DEF client
<1>1. \A f : /\ AsClientFile(f).lang = f.lang /\ AsClientFile(f).path = f.path
             /\ AsClientFile(f).body = f.body
  BY DEF AsClientFile
<1>2. {AsClientFile(f) : f \in T} = ClientFiles
  BY DEF IsOfTheClient
<1>3. AsClientFile(PathsFile(T)) \in ClientFiles /\ Is(AsClientFile(PathsFile(T)))
  BY <1>0, <1>1, <1>2, PathsFileIsThere
<1>4. g \in ClientFiles /\ Is(g)
  BY <1>3
<1> HIDE DEF g
<1>5. PICK f \in T : g = AsClientFile(f)
  BY <1>2, <1>4
<1>6. f = PathsFile(T)
  BY <1>0, <1>1, <1>4, <1>5, PathsFileIsUnique
<1>7. g.body = PathsFile(T).body
  BY <1>1, <1>5, <1>6
<1>8. order = Order(PathsFile(T).body, client)
  BY <1>0, OrderOfPackages
<1> QED
  BY <1>7, <1>8 DEF g, client

LEMMA ViewsAreInLayers ==
    ASSUME NEW T, NEW client, NEW order, IsIndexed(T, client, order), NEW lang
    PROVE  \A v \in ViewsIn(T, order, lang) : v.at \in 1..(Len(order) + 1)
<1>0. Len(order) \in Nat /\ DOMAIN order = 1..Len(order)
  BY OrderOfPackages, RangeOf
<1> SUFFICES ASSUME NEW v \in ViewsIn(T, order, lang)
             PROVE  v.at \in 1..(Len(order) + 1)
  OBVIOUS
<1>1. PICK c \in Candidates({}, T, order) : v = View(c)
  BY DEF ViewsIn
<1>2. PICK f \in T : \/ IsLooseCandidate(c, f, order)
                     \/ \E i \in DOMAIN f.body.items : IsPackageCandidate(c, f, order, i)
  BY CandidateOf
<1>3. v.at = Len(order) + 1 \/ v.at \in DOMAIN order
  <2>1. CASE IsLooseCandidate(c, f, order)
    BY <1>1, <2>1, ViewOfLoose
  <2>2. CASE \E i \in DOMAIN f.body.items : IsPackageCandidate(c, f, order, i)
    BY <1>1, <2>2, ViewOfPackage
  <2> QED
    BY <1>2, <2>1, <2>2
<1> QED
  BY <1>0, <1>3

\* A mounted layer shows the views of the candidates, the first of each name.
LEMMA MountedFinds ==
    ASSUME NEW T, NEW order, IsOfTheClient(T, order), NEW lang
    PROVE  /\ DOMAIN Mounted(lang) = {Fold(v.path) : v \in ViewsIn(T, order, lang)}
           /\ \A k \in DOMAIN Mounted(lang) : Finds(Mounted(lang)[k], ViewsIn(T, order, lang), k)
<1> DEFINE client == TheRelease.client
           layer == {f \in ClientFiles : f.lang = lang}
           loose == {<<[f.path EXCEPT !.top = "vfs"], f.body>> : f \in {g \in layer : IsLoose(g)}}
           ord == Order((CHOOSE f \in ClientFiles : f.lang = NoLang /\ f.path = PathsXml).body,
                        TheRelease.client)
           Package(n) == UNION {{<<f.body.items[i].path, f.body.items[i].body>> :
                                   i \in DOMAIN f.body.items} :
                                f \in {g \in layer : g.path = ord[n]}}
           mount[n \in 1..(Len(ord) + 1)] ==
              IF n = Len(ord) + 1 THEN Named(loose) ELSE Overlay(Named(Package(n)), mount[n + 1])
           layers == [n \in 1..(Len(ord) + 1) |-> IF n = Len(ord) + 1 THEN loose ELSE Package(n)]
           V == ViewsIn(T, order, lang)
<1>1. Mounted(lang) = mount[1]
  BY DEF Mounted
<1>2. ord = order
  BY OrderOfTheClient
<1>3. IsIndexed(T, client, order) /\ {AsClientFile(f) : f \in T} = ClientFiles
  BY DEF IsOfTheClient
<1> HIDE DEF client
<1>4. Len(order) \in Nat /\ DOMAIN order = 1..Len(order)
  BY <1>3, OrderOfPackages, RangeOf
<1>5. loose = LooseIn(T, lang)
  <2>1. loose = LooseIn(ClientFiles, lang)
    BY DEF LooseIn
  <2> QED
    BY <1>3, <2>1, LayersOfTheClient
<1>6. \A n : Package(n) = PackedIn(T, lang, ord[n])
  <2> TAKE n
  <2>1. {g \in layer : g.path = ord[n]} = {g \in ClientFiles : g.lang = lang /\ g.path = ord[n]}
    OBVIOUS
  <2>2. Package(n) = PackedIn(ClientFiles, lang, ord[n])
    <3> HIDE DEF layer, ord
    <3> QED
      BY <2>1 DEF PackedIn
  <2> HIDE DEF Package, ord
  <2>3. PackedIn(ClientFiles, lang, ord[n]) = PackedIn(T, lang, ord[n])
    BY <1>3, LayersOfTheClient
  <2> QED
    BY <2>2, <2>3
<1> HIDE DEF ord, loose, Package
<1>7. PICK f : IsMount(f, Len(ord), layers)
  <2> HIDE DEF layers
  <2> QED
    BY <1>2, <1>4, MountExists
<1>8. f = [n \in 1..(Len(ord) + 1) |-> IF n = Len(ord) + 1 THEN Named(loose)
                                      ELSE Overlay(Named(Package(n)), f[n + 1])]
  <2>1. \A n \in 1..(Len(ord) + 1) :
           layers[n] = IF n = Len(ord) + 1 THEN loose ELSE Package(n)
    OBVIOUS
  <2>2. f = [n \in 1..(Len(ord) + 1) |-> IF n = Len(ord) + 1 THEN Named(layers[n])
                                        ELSE Overlay(Named(layers[n]), f[n + 1])]
    BY <1>7 DEF IsMount
  <2> HIDE DEF layers
  <2> QED
    BY <2>1, <2>2
<1>9. mount = [n \in 1..(Len(ord) + 1) |-> IF n = Len(ord) + 1 THEN Named(loose)
                                          ELSE Overlay(Named(Package(n)), mount[n + 1])]
  BY <1>8
<1> HIDE DEF mount
<1>10. IsMount(mount, Len(ord), layers)
  <2>1. \A n \in 1..(Len(ord) + 1) :
           layers[n] = IF n = Len(ord) + 1 THEN loose ELSE Package(n)
    OBVIOUS
  <2> HIDE DEF layers
  <2>2. mount = [n \in 1..(Len(ord) + 1) |-> IF n = Len(ord) + 1 THEN Named(layers[n])
                                            ELSE Overlay(Named(layers[n]), mount[n + 1])]
    BY <1>9, <2>1
  <2> QED
    BY <2>2 DEF IsMount
<1>11. ASSUME NEW n \in 1..(Len(ord) + 1)
       PROVE  layers[n] = Pairs({v \in V : v.at = n})
  <2>1. CASE n = Len(ord) + 1
    BY <1>2, <1>3, <1>5, <2>1, LooseLayer
  <2>2. CASE n # Len(ord) + 1
    <3>1. n \in DOMAIN order
      BY <1>2, <1>4, <2>2
    <3>2. layers[n] = PackedIn(T, lang, order[n])
      BY <1>2, <1>6, <2>2
    <3> QED
      BY <1>3, <3>1, <3>2, PackageLayer
  <2> QED
    BY <2>1, <2>2
<1>12. \A v \in V : v.at \in 1..(Len(ord) + 1)
  BY <1>2, <1>3, ViewsAreInLayers
<1> HIDE DEF layers, V
<1>13. /\ DOMAIN mount[1] = {Fold(v.path) : v \in V}
       /\ \A k \in DOMAIN mount[1] : Finds(mount[1][k], V, k)
  BY <1>2, <1>4, <1>10, <1>11, <1>12, MountFinds
<1> QED
  BY <1>1, <1>13 DEF V

-----------------------------------------------------------------------------
(* The materialised files are those that the client finds.                 *)

\* A name has one winner.
LEMMA BestIsUnique ==
    ASSUME NEW T, NEW client, NEW order, IsIndexed(T, client, order),
           NEW C, C = Candidates({}, T, order),
           NEW key, NEW c \in Best(C, key), NEW d \in Best(C, key)
    PROVE  c = d
<1>1. key \in Keys(C)
  BY DEF Best, Under, Keys
<1>2. \A x \in Keys(C) : \A a, b \in Best(C, x) : a = b
  BY DEF IsIndexed, IsIndexable
<1> QED
  BY <1>1, <1>2

\* A winner is a candidate with the least precedence of its name.
LEMMA WinnerOf ==
    ASSUME NEW T, NEW client, NEW order, IsIndexed(T, client, order),
           NEW w \in Index({}, T, client)
    PROVE  w \in Candidates({}, T, order) /\ w \in Best(Candidates({}, T, order), Key(w))
<1> DEFINE C == Candidates({}, T, order)
<1>1. Index({}, T, client) = UNION {Best(C, key) : key \in Keys(C)}
  BY DEF Index, IsIndexed
<1> HIDE DEF C
<1>2. PICK key \in Keys(C) : w \in Best(C, key)
  BY <1>1
<1>3. w \in C /\ Key(w) = key
  BY <1>2 DEF Best, Under
<1> QED
  BY <1>2, <1>3 DEF C

LEMMA WinnerIsIndexed ==
    ASSUME NEW T, NEW client, NEW order, IsIndexed(T, client, order),
           NEW key, NEW w \in Best(Candidates({}, T, order), key)
    PROVE  w \in Index({}, T, client) /\ Key(w) = key
<1> DEFINE C == Candidates({}, T, order)
<1>1. Index({}, T, client) = UNION {Best(C, k) : k \in Keys(C)}
  BY DEF Index, IsIndexed
<1>2. w \in C /\ Key(w) = key
  BY DEF Best, Under
<1> HIDE DEF C
<1>3. key \in Keys(C)
  BY <1>2 DEF Keys
<1> QED
  BY <1>1, <1>2, <1>3 DEF C

LEMMA MaterializedOf ==
    ASSUME NEW I
    PROVE  Materialized({}, I) = {MaterializedFile(w, BodyOf(w)) : w \in I}
BY ReadUnchanged DEF Materialized, BodyOf, EntryOf

\* A materialised file has been made from a winner.
IsMade(m, w) ==
    /\ m.source = w /\ m.lang = w.lang /\ m.path = w.path /\ m.body = BodyOf(w)

LEMMA MaterializedIsMade ==
    ASSUME NEW I, NEW w \in I
    PROVE  /\ MaterializedFile(w, BodyOf(w)) \in Materialized({}, I)
           /\ IsMade(MaterializedFile(w, BodyOf(w)), w)
<1>1. MaterializedFile(w, BodyOf(w)) \in Materialized({}, I)
  BY MaterializedOf
<1> DEFINE body == BodyOf(w)
<1>2. body = BodyOf(w)
  OBVIOUS
<1> HIDE DEF body
<1>3. IsMade(MaterializedFile(w, body), w)
  BY <1>2 DEF MaterializedFile, IsMade
<1> QED
  BY <1>1, <1>2, <1>3

LEMMA MadeOf ==
    ASSUME NEW I, NEW m \in Materialized({}, I)
    PROVE  m.source \in I /\ IsMade(m, m.source)
<1>1. PICK w \in I : m = MaterializedFile(w, BodyOf(w))
  BY MaterializedOf
<1>2. IsMade(m, w)
  BY <1>1, MaterializedIsMade
<1>3. m.source = w
  BY <1>2 DEF IsMade
<1> QED
  BY <1>2, <1>3

\* What a client finds under a name of a layer, and the file that is made from it.
LEMMA FoundIsMaterialized ==
    ASSUME NEW T, NEW order, IsOfTheClient(T, order),
           NEW I, I = Index({}, T, TheRelease.client), NEW lang, NEW k \in DOMAIN Mounted(lang)
    PROVE  \E m \in Materialized({}, I) :
              /\ m.lang = lang /\ Fold(m.path) = k /\ Mounted(lang)[k] = <<m.path, m.body>>
              /\ m.source \in Best(Candidates({}, T, order), <<lang, k>>)
<1> DEFINE client == TheRelease.client
           V == ViewsIn(T, order, lang)
           C == Candidates({}, T, order)
<1>1. IsIndexed(T, client, order)
  BY DEF IsOfTheClient
<1>2. Finds(Mounted(lang)[k], V, k)
  BY MountedFinds
<1>3. PICK v \in V : /\ Fold(v.path) = k /\ Mounted(lang)[k] = <<v.path, v.body>>
                     /\ \A w \in V : Fold(w.path) = k => v.at <= w.at
  BY <1>2 DEF Finds
<1>4. PICK c \in C : c.lang = lang /\ v = View(c)
  BY DEF ViewsIn
<1>5. \A d : View(d).at = d.precedence /\ View(d).path = d.path /\ View(d).body = BodyOf(d)
  BY DEF View
<1>6. Key(c) = <<lang, k>>
  BY <1>3, <1>4, <1>5 DEF Key
<1>7. ASSUME NEW d \in C, Key(d) = <<lang, k>>
      PROVE  c.precedence <= d.precedence
  <2>1. d.lang = lang /\ Fold(d.path) = k
    BY <1>7 DEF Key
  <2>2. View(d) \in V
    BY <2>1 DEF ViewsIn
  <2> QED
    BY <1>3, <1>4, <1>5, <2>1, <2>2
<1> HIDE DEF client, C, V
<1>8. c \in Best(C, <<lang, k>>)
  BY <1>6, <1>7 DEF Best, Under
<1>9. c \in I
  BY <1>1, <1>8, WinnerIsIndexed DEF client, C
<1> DEFINE m == MaterializedFile(c, BodyOf(c))
<1>10. m \in Materialized({}, I) /\ IsMade(m, c)
  BY <1>9, MaterializedIsMade
<1> HIDE DEF m
<1>11. m.source = c /\ m.lang = lang /\ m.path = v.path /\ m.body = v.body
  BY <1>4, <1>5, <1>10 DEF IsMade
<1> QED
  BY <1>3, <1>8, <1>10, <1>11 DEF C

\* The materialised files are what the client finds, layer by layer.
LEMMA MaterializedIsFound ==
    ASSUME NEW T, NEW order, IsOfTheClient(T, order),
           NEW I, I = Index({}, T, TheRelease.client), NEW m \in Materialized({}, I)
    PROVE  /\ Fold(m.path) \in DOMAIN Mounted(m.lang)
           /\ Mounted(m.lang)[Fold(m.path)] = <<m.path, m.body>>
<1> DEFINE client == TheRelease.client
           C == Candidates({}, T, order)
           w == m.source
           k == Fold(m.path)
           lang == m.lang
<1>1. IsIndexed(T, client, order)
  BY DEF IsOfTheClient
<1>2. w \in I /\ IsMade(m, w)
  BY MadeOf
<1>3. w \in C /\ w \in Best(C, Key(w))
  BY <1>1, <1>2, WinnerOf
<1>4. Key(w) = <<lang, k>> /\ w.lang = lang /\ w.path = m.path
  BY <1>2 DEF IsMade, Key
<1>5. k \in DOMAIN Mounted(lang)
  <2>1. View(w) \in ViewsIn(T, order, lang)
    BY <1>3, <1>4 DEF ViewsIn
  <2>2. View(w).path = m.path
    BY <1>4 DEF View
  <2>3. DOMAIN Mounted(lang) = {Fold(v.path) : v \in ViewsIn(T, order, lang)}
    BY MountedFinds
  <2>4. k = Fold(View(w).path)
    BY <2>2
  <2> HIDE DEF k, w, lang
  <2> QED
    BY <2>1, <2>3, <2>4
<1> HIDE DEF lang, k, w, C, client
<1>6. PICK n \in Materialized({}, I) :
              /\ n.lang = lang /\ Fold(n.path) = k /\ Mounted(lang)[k] = <<n.path, n.body>>
              /\ n.source \in Best(C, <<lang, k>>)
  BY <1>5, FoundIsMaterialized DEF C
<1>7. n.source = w
  BY <1>1, <1>3, <1>4, <1>6, BestIsUnique DEF C
<1>8. IsMade(n, w)
  BY <1>6, <1>7, MadeOf
<1>9. n.path = m.path /\ n.body = m.body
  BY <1>2, <1>8 DEF IsMade
<1> QED
  BY <1>5, <1>6, <1>9 DEF lang, k

-----------------------------------------------------------------------------
(* The readable form of the materialised files.                            *)

FormOf(m) ==
    LET kind == Kind(m.path, m.body)
    IN  IF kind = Passthrough THEN m.body ELSE Converted(kind, m.body)

\* The readable file that is made from a materialised one.
IsReadableOf(f, m) ==
    /\ f.source = m /\ f.lang = m.lang /\ f.path = OutputPath(m.path, Kind(m.path, m.body))
    /\ f.body = FormOf(m) /\ f.kind = Kind(m.path, m.body)

IsEntryOf(e, m) ==
    /\ e.source = m /\ e.lang = m.lang /\ e.output = OutputPath(m.path, Kind(m.path, m.body))
    /\ e.kind = Kind(m.path, m.body)
    /\ e.bundle = IF IsLibrary(m.path) THEN Bundle(m.path) ELSE NoBundle

LEMMA PlanEntryIs ==
    ASSUME NEW m
    PROVE  IsEntryOf(PlanEntry({}, m), m)
<1> DEFINE kind == Kind(m.path, m.body)
           output == OutputPath(m.path, kind)
           bundle == IF IsLibrary(m.path) THEN Bundle(m.path) ELSE NoBundle
           e == [source |-> m, lang |-> m.lang, output |-> output, kind |-> kind, bundle |-> bundle]
<1>1. PlanEntry({}, m) = e
  BY ReadUnchanged DEF PlanEntry, InPlace
<1> HIDE DEF kind, output, bundle
<1>2. e.source = m /\ e.lang = m.lang /\ e.output = output /\ e.kind = kind /\ e.bundle = bundle
  OBVIOUS
<1> HIDE DEF e
<1> QED
  BY <1>1, <1>2 DEF IsEntryOf, kind, output, bundle

LEMMA ReadableFileIs ==
    ASSUME NEW m, NEW e, IsEntryOf(e, m), NEW body, body = FormOf(m)
    PROVE  IsReadableOf(ReadableFile(e, body), m)
BY DEF IsEntryOf, ReadableFile, IsReadableOf

LEMMA EntryOfPlan ==
    ASSUME NEW mat, NEW e \in ReadablePlan({}, mat)
    PROVE  e.source \in mat /\ IsEntryOf(e, e.source)
<1>1. PICK m \in mat : e = PlanEntry({}, m)
  BY DEF ReadablePlan
<1>2. IsEntryOf(e, m)
  BY <1>1, PlanEntryIs
<1>3. e.source = m
  BY <1>2 DEF IsEntryOf
<1> QED
  BY <1>2, <1>3

LEMMA ConvertedEntry ==
    ASSUME NEW mat, NEW e \in ConversionsOf(ReadablePlan({}, mat))
    PROVE  /\ ReadableFile(e, Converted(e.kind, e.source.body)) \in Transformed({}, ReadablePlan({}, mat))
           /\ IsReadableOf(ReadableFile(e, Converted(e.kind, e.source.body)), e.source)
<1>1. e \in ReadablePlan({}, mat) /\ e.kind # Passthrough
  BY DEF ConversionsOf
<1>2. IsEntryOf(e, e.source)
  BY <1>1, EntryOfPlan
<1>3. Converted(e.kind, e.source.body) = FormOf(e.source)
  BY <1>1, <1>2 DEF IsEntryOf, FormOf
<1>4. Transformed({}, ReadablePlan({}, mat))
        = {ReadableFile(x, Converted(x.kind, x.source.body)) : x \in ConversionsOf(ReadablePlan({}, mat))}
  BY ReadUnchanged DEF Transformed, InPlace
<1> QED
  BY <1>2, <1>3, <1>4, ReadableFileIs

\* Each materialised file has its readable file, and each readable file its source.
LEMMA ReadableFiles ==
    ASSUME NEW mat, NEW plan, plan = ReadablePlan({}, mat),
           NEW files, files = AssembledReadable(plan, Transformed({}, plan))
    PROVE  /\ \A m \in mat : \E f \in files : IsReadableOf(f, m)
           /\ \A f \in files : f.source \in mat /\ IsReadableOf(f, f.source)
<1> DEFINE kept == {ReadableFile(e, e.source.body) : e \in plan \ ConversionsOf(plan)}
           made == {f \in Transformed({}, plan) :
                      \E e \in ConversionsOf(plan) : f.lang = e.lang /\ f.path = e.output}
<1>1. files = kept \cup made
  BY DEF AssembledReadable
<1>2. ASSUME NEW e \in plan \ ConversionsOf(plan)
      PROVE  /\ e.source \in mat /\ IsEntryOf(e, e.source)
             /\ IsReadableOf(ReadableFile(e, e.source.body), e.source)
  <2>1. e.source \in mat /\ IsEntryOf(e, e.source)
    BY EntryOfPlan
  <2>2. e.kind = Passthrough
    BY DEF ConversionsOf
  <2>3. e.source.body = FormOf(e.source)
    BY <2>1, <2>2 DEF IsEntryOf, FormOf
  <2> QED
    BY <2>1, <2>3, ReadableFileIs
<1>3. ASSUME NEW m \in mat
      PROVE  \E f \in files : IsReadableOf(f, m)
  <2> DEFINE e == PlanEntry({}, m)
  <2>1. e \in plan /\ IsEntryOf(e, m) /\ e.source = m
    BY PlanEntryIs DEF ReadablePlan, IsEntryOf
  <2> HIDE DEF e
  <2>2. CASE e \in ConversionsOf(plan)
    <3> DEFINE f == ReadableFile(e, Converted(e.kind, e.source.body))
    <3>1. f \in Transformed({}, plan) /\ IsReadableOf(f, m)
      BY <2>1, <2>2, ConvertedEntry
    <3>2. f.lang = e.lang /\ f.path = e.output
      BY DEF ReadableFile
    <3> HIDE DEF f
    <3>3. f \in made
      BY <2>2, <3>1, <3>2
    <3> QED
      BY <1>1, <3>1, <3>3
  <2>3. CASE e \notin ConversionsOf(plan)
    <3>1. ReadableFile(e, e.source.body) \in kept
      BY <2>1, <2>3
    <3> HIDE DEF kept
    <3> QED
      BY <1>1, <1>2, <2>1, <2>3, <3>1
  <2> QED
    BY <2>2, <2>3
<1>4. ASSUME NEW f \in kept
      PROVE  f.source \in mat /\ IsReadableOf(f, f.source)
  <2>1. PICK e \in plan \ ConversionsOf(plan) : f = ReadableFile(e, e.source.body)
    BY <1>4
  <2>2. e.source \in mat /\ IsReadableOf(f, e.source)
    BY <1>2, <2>1
  <2>3. f.source = e.source
    BY <2>2 DEF IsReadableOf
  <2> QED
    BY <2>2, <2>3
<1>5. ASSUME NEW f \in made
      PROVE  f.source \in mat /\ IsReadableOf(f, f.source)
  <2>1. f \in Transformed({}, plan)
    BY <1>5
  <2>2. PICK e \in ConversionsOf(plan) : f = ReadableFile(e, Converted(e.kind, e.source.body))
    BY <2>1, ReadUnchanged DEF Transformed, InPlace
  <2>3. e.source \in mat
    BY EntryOfPlan DEF ConversionsOf
  <2>4. IsReadableOf(f, e.source)
    BY <2>2, ConvertedEntry
  <2>5. f.source = e.source
    BY <2>4 DEF IsReadableOf
  <2> QED
    BY <2>3, <2>4, <2>5
<1> HIDE DEF kept, made
<1> QED
  BY <1>1, <1>3, <1>4, <1>5

-----------------------------------------------------------------------------
(* The files of a snapshot.                                                *)

Shown(e) == <<e.lang, <<e.path, e.body>>>>

LEMMA ShownReadable ==
    ASSUME NEW f, NEW m, IsReadableOf(f, m)
    PROVE  Shown(ReadableEntry(f)) = <<m.lang, InReadableForm(m.path, m.body)>>
<1> DEFINE kind == Kind(m.path, m.body)
           path == [f.path EXCEPT !.top = "res"]
           source == FromCandidate(f.source)
           inode == InodeOf(f)
<1>1. ReadableEntry(f) = ManifestEntry(f.lang, path, f.body, source, f.kind, inode)
  BY DEF ReadableEntry
<1> HIDE DEF path, source, inode
<1>2. Shown(ReadableEntry(f)) = <<f.lang, <<path, f.body>>>>
  BY <1>1 DEF Shown, ManifestEntry
<1>3. f.lang = m.lang /\ path = [OutputPath(m.path, kind) EXCEPT !.top = "res"]
      /\ f.body = IF kind = Passthrough THEN m.body ELSE Converted(kind, m.body)
  BY DEF IsReadableOf, FormOf, path
<1>4. InReadableForm(m.path, m.body)
        = <<[OutputPath(m.path, kind) EXCEPT !.top = "res"],
            IF kind = Passthrough THEN m.body ELSE Converted(kind, m.body)>>
  BY DEF InReadableForm
<1> QED
  BY <1>2, <1>3, <1>4

LEMMA ShownClient ==
    ASSUME NEW f
    PROVE  Shown(ClientEntry(f)) = <<f.lang, <<f.path, f.body>>>>
BY DEF Shown, ClientEntry, ManifestEntry

LEMMA LanguageOfClientFile ==
    ASSUME NEW g \in ClientFiles
    PROVE  g.lang \in Languages
<1>1. PICK p \in DOMAIN TheRelease.parts : g \in PartFiles(TheRelease.parts[p])
  BY DEF ClientFiles
<1> DEFINE part == TheRelease.parts[p]
<1>2. part.lang \in Languages
  BY DEF Languages
<1> HIDE DEF part
<1>3. g \in PartFiles(part)
  BY <1>1 DEF part
<1>4. g.lang = part.lang
  <2>1. CASE IsReference(part)
    BY <1>3, <2>1 DEF PartFiles
  <2>2. CASE ~IsReference(part)
    <3> DEFINE In(f) == {[lang |-> part.lang, path |-> e.path, body |-> e.body] :
                           e \in Installed(Whole(f.body))}
    <3>1. PartFiles(part) = UNION {UNION {In(f) : f \in Delivered(Chain(part)[t])} : t \in DOMAIN Chain(part)}
      BY <2>2 DEF PartFiles
    <3>2. \A f : \A h \in In(f) : h.lang = part.lang
      OBVIOUS
    <3> HIDE DEF In
    <3> QED
      BY <1>3, <3>1, <3>2
  <2> QED
    BY <2>1, <2>2
<1> QED
  BY <1>2, <1>4

LEMMA CandidateIsOfTheClient ==
    ASSUME NEW T, NEW order, IsOfTheClient(T, order), NEW c \in Candidates({}, T, order)
    PROVE  c.lang \in Languages
<1> DEFINE client == TheRelease.client
<1>1. IsIndexed(T, client, order) /\ {AsClientFile(f) : f \in T} = ClientFiles
  BY DEF IsOfTheClient
<1> HIDE DEF client
<1>2. PICK f \in T : \/ IsLooseCandidate(c, f, order)
                     \/ \E i \in DOMAIN f.body.items : IsPackageCandidate(c, f, order, i)
  BY <1>1, CandidateOf
<1>3. c.lang = f.lang
  BY <1>2 DEF IsLooseCandidate, IsPackageCandidate, IsOfFile
<1>4. AsClientFile(f) \in ClientFiles /\ AsClientFile(f).lang = f.lang
  BY <1>1 DEF AsClientFile
<1> QED
  BY <1>3, <1>4, LanguageOfClientFile

\* The files manifest shows what the client reads.
LEMMA FilesOfTheSnapshot ==
    ASSUME NEW T, NEW order, IsOfTheClient(T, order),
           NEW mat, mat = Materialized({}, Index({}, T, TheRelease.client)),
           NEW plan, plan = ReadablePlan({}, mat),
           NEW files, files = AssembledReadable(plan, Transformed({}, plan))
    PROVE  {Shown(e) : e \in FilesManifest(files, T)} = WhatTheClientReads
<1> DEFINE client == TheRelease.client
           I == Index({}, T, client)
           readable == {Shown(ReadableEntry(f)) : f \in files}
           kept == {Shown(ClientEntry(f)) : f \in {g \in T : IsIncluded(g.path)}}
           read == UNION {{<<lang, InReadableForm(Mounted(lang)[k][1], Mounted(lang)[k][2])>> :
                             k \in DOMAIN Mounted(lang)} : lang \in Languages}
           included == {<<f.lang, <<f.path, f.body>>>> : f \in {g \in ClientFiles : IsIncluded(g.path)}}
<1>1. WhatTheClientReads = read \cup included
  BY DEF WhatTheClientReads
<1>2. {Shown(e) : e \in FilesManifest(files, T)} = readable \cup kept
  <2> DEFINE A == {ReadableEntry(f) : f \in files}
             B == {ClientEntry(f) : f \in {g \in T : IsIncluded(g.path)}}
  <2>1. FilesManifest(files, T) = A \cup B
    BY DEF FilesManifest
  <2>2. {Shown(e) : e \in A} = readable
    OBVIOUS
  <2>3. {Shown(e) : e \in B} = kept
    OBVIOUS
  <2> HIDE DEF A, B, readable, kept
  <2> QED
    BY <2>1, <2>2, <2>3
<1>3. kept = included
  <2>1. {AsClientFile(f) : f \in T} = ClientFiles
    BY DEF IsOfTheClient
  <2>2. \A f : /\ AsClientFile(f).lang = f.lang /\ AsClientFile(f).path = f.path
               /\ AsClientFile(f).body = f.body
    BY DEF AsClientFile
  <2>3. kept = {<<f.lang, <<f.path, f.body>>>> : f \in {g \in T : IsIncluded(g.path)}}
    BY ShownClient
  <2> HIDE DEF kept
  <2>4. ASSUME NEW p \in kept
        PROVE  p \in included
    <3>1. PICK f \in T : IsIncluded(f.path) /\ p = <<f.lang, <<f.path, f.body>>>>
      BY <2>3
    <3>2. AsClientFile(f) \in ClientFiles
      BY <2>1
    <3> HIDE DEF AsClientFile
    <3> DEFINE g == AsClientFile(f)
    <3>3. g \in ClientFiles /\ g.lang = f.lang /\ g.path = f.path /\ g.body = f.body
      BY <2>2, <3>2
    <3> HIDE DEF g
    <3> QED
      BY <3>1, <3>3
  <2>5. ASSUME NEW p \in included
        PROVE  p \in kept
    <3>1. PICK g \in ClientFiles : IsIncluded(g.path) /\ p = <<g.lang, <<g.path, g.body>>>>
      OBVIOUS
    <3>2. PICK f \in T : g = AsClientFile(f)
      BY <2>1
    <3>3. g.lang = f.lang /\ g.path = f.path /\ g.body = f.body
      BY <2>2, <3>2
    <3> QED
      BY <2>3, <3>1, <3>3
  <2> HIDE DEF included
  <2> QED
    BY <2>4, <2>5
<1>4. /\ \A m \in mat : \E f \in files : IsReadableOf(f, m)
      /\ \A f \in files : f.source \in mat /\ IsReadableOf(f, f.source)
  BY ReadableFiles
<1>5. IsIndexed(T, client, order)
  BY DEF IsOfTheClient
<1>6. I = Index({}, T, TheRelease.client) /\ mat = Materialized({}, I)
  OBVIOUS
<1> HIDE DEF client, I
<1>7. ASSUME NEW p \in readable
      PROVE  p \in read
  <2>1. PICK f \in files : p = Shown(ReadableEntry(f))
    BY <1>7
  <2> DEFINE m == f.source
             lang == m.lang
             k == Fold(m.path)
  <2>2. m \in mat /\ IsReadableOf(f, m)
    BY <1>4
  <2>3. p = <<m.lang, InReadableForm(m.path, m.body)>>
    BY <2>1, <2>2, ShownReadable
  <2>4. k \in DOMAIN Mounted(lang) /\ Mounted(lang)[k] = <<m.path, m.body>>
    BY <1>6, <2>2, MaterializedIsFound
  <2>5. m.source \in I /\ m.lang = m.source.lang
    BY <1>6, <2>2, MadeOf DEF IsMade
  <2>6. lang \in Languages
    BY <1>5, <1>6, <2>5, WinnerOf, CandidateIsOfTheClient DEF client
  <2>7. p = <<lang, InReadableForm(Mounted(lang)[k][1], Mounted(lang)[k][2])>>
    BY <2>3, <2>4
  <2> HIDE DEF m, lang, k
  <2> QED
    BY <2>4, <2>6, <2>7
<1>8. ASSUME NEW p \in read
      PROVE  p \in readable
  <2>0. PICK lang \in Languages : \E k \in DOMAIN Mounted(lang) :
            p = <<lang, InReadableForm(Mounted(lang)[k][1], Mounted(lang)[k][2])>>
    BY <1>8
  <2>1. PICK k \in DOMAIN Mounted(lang) :
            p = <<lang, InReadableForm(Mounted(lang)[k][1], Mounted(lang)[k][2])>>
    BY <2>0
  <2>2. PICK m \in mat : m.lang = lang /\ Mounted(lang)[k] = <<m.path, m.body>>
    <3>1. \E m \in Materialized({}, I) :
              /\ m.lang = lang /\ Fold(m.path) = k /\ Mounted(lang)[k] = <<m.path, m.body>>
              /\ m.source \in Best(Candidates({}, T, order), <<lang, k>>)
      BY <1>6, <2>1, FoundIsMaterialized
    <3> QED
      BY <1>6, <3>1
  <2>3. PICK f \in files : IsReadableOf(f, m)
    BY <1>4
  <2>4. p = Shown(ReadableEntry(f))
    BY <2>1, <2>2, <2>3, ShownReadable
  <2> QED
    BY <2>4
<1> HIDE DEF readable, read, kept, included
<1> QED
  BY <1>1, <1>2, <1>3, <1>7, <1>8

\* What a change of the top or of the case leaves of a path.
IsNamed(p) == "dir" \in DOMAIN p /\ "stem" \in DOMAIN p /\ "ext" \in DOMAIN p /\ p.stem # ""

LEMMA PathIsNamed ==
    ASSUME NEW p, IsPath(p)
    PROVE  IsNamed(p)
<1>1. p = [top |-> p.top, dir |-> p.dir, stem |-> p.stem, ext |-> p.ext, upper |-> p.upper]
  BY DEF IsPath
<1>2. "dir" \in DOMAIN p /\ "stem" \in DOMAIN p /\ "ext" \in DOMAIN p
  BY <1>1
<1> QED
  BY <1>2 DEF IsPath, IsNamed

LEMMA PathOfCandidate ==
    ASSUME NEW T, NEW client, NEW order, IsIndexed(T, client, order),
           NEW c \in Candidates({}, T, order)
    PROVE  IsNamed(c.path)
<1>1. PICK f \in T : \/ IsLooseCandidate(c, f, order)
                     \/ \E i \in DOMAIN f.body.items : IsPackageCandidate(c, f, order, i)
  BY CandidateOf
<1>2. CASE IsLooseCandidate(c, f, order)
  <2>1. IsPath(f.path) /\ c.path = [f.path EXCEPT !.top = "vfs"]
    BY <1>2 DEF IsIndexed, IsTypedTree, IsLooseCandidate
  <2>2. IsNamed(f.path)
    BY <2>1, PathIsNamed
  <2> QED
    BY <2>1, <2>2 DEF IsNamed
<1>3. CASE \E i \in DOMAIN f.body.items : IsPackageCandidate(c, f, order, i)
  <2>1. PICK i \in DOMAIN f.body.items : IsPackageCandidate(c, f, order, i)
    BY <1>3
  <2>2. IsPackage(f) /\ c.path = f.body.items[i].path
    BY <2>1 DEF IsPackageCandidate
  <2> QED
    BY <2>2, ItemsOfPackage, PathIsNamed
<1> QED
  BY <1>1, <1>2, <1>3

\* A library is one in any case of its name, and its bundle the same.
LEMMA FoldKeeps ==
    ASSUME NEW p, IsNamed(p)
    PROVE  /\ (IsLibrary(Fold(p)) <=> IsLibrary(p))
           /\ Bundle(Fold(p)) = Bundle(p) /\ Bundle(p) # NoBundle
<1>1. Fold(p).dir = p.dir /\ Fold(p).stem = p.stem /\ Fold(p).ext = p.ext
  BY DEF IsNamed, Fold
<1>2. p.stem # ""
  BY DEF IsNamed
<1> QED
  BY <1>1, <1>2 DEF IsLibrary, Bundle, NoBundle

LEMMA LibraryFileIs ==
    ASSUME NEW e, NEW body
    PROVE  Library(e, body).path.dir = e.bundle /\ Library(e, body).body = body
           /\ Library(e, body).source = e.source
BY DEF Library, Path

ShownLibrary(e) == <<e.path.dir, e.body>>

\* The ActionScript manifest has the libraries that the client loads.
LEMMA LibrariesOfTheSnapshot ==
    ASSUME NEW T, NEW order, IsOfTheClient(T, order),
           NEW mat, mat = Materialized({}, Index({}, T, TheRelease.client)),
           NEW plan, plan = ReadablePlan({}, mat), IsReadable({}, mat)
    PROVE  {ShownLibrary(e) : e \in ActionScriptManifest(LibrarySources({}, plan))}
             = LibrariesOfTheClient
<1> DEFINE client == TheRelease.client
           I == Index({}, T, client)
           L == LibrarySources({}, plan)
           shown == {ShownLibrary(e) : e \in ActionScriptManifest(L)}
           Show(k) == <<Bundle(k), Scripts(Mounted(NoLang)[k][2])>>
<1>1. shown = {<<f.path.dir, f.body>> : f \in L}
  <2> DEFINE Entry(f) == [path |-> f.path, body |-> f.body, source |-> FromCandidate(f.source),
                          swc |-> [f.source.path EXCEPT !.top = "res"], from |-> f.source.body,
                          inode |-> InodeOfLibrary(f)]
  <2>1. ActionScriptManifest(L) = {Entry(f) : f \in L}
    BY DEF ActionScriptManifest
  <2>2. \A f : ShownLibrary(Entry(f)) = <<f.path.dir, f.body>>
    BY DEF ShownLibrary
  <2> HIDE DEF Entry, L
  <2> QED
    BY <2>1, <2>2
<1>2. L = {Library(e, Scripts(e.source.body)) : e \in Libraries(plan)}
  BY ReadUnchanged DEF LibrarySources, InPlace
<1>3. shown = {<<e.bundle, Scripts(e.source.body)>> : e \in Libraries(plan)}
  <2> DEFINE F(e) == Library(e, Scripts(e.source.body))
  <2>1. L = {F(e) : e \in Libraries(plan)}
    BY <1>2
  <2>2. \A e : F(e).path.dir = e.bundle /\ F(e).body = Scripts(e.source.body)
    BY LibraryFileIs
  <2> HIDE DEF shown, L, F
  <2>3. shown = {<<F(e).path.dir, F(e).body>> : e \in Libraries(plan)}
    BY <1>1, <2>1
  <2> QED
    BY <2>2, <2>3
<1> HIDE DEF shown, L
<1>4. IsIndexed(T, client, order)
  BY DEF IsOfTheClient
<1>5. I = Index({}, T, TheRelease.client) /\ mat = Materialized({}, I)
  OBVIOUS
<1>6. \A e \in Libraries(plan) : e.lang = NoLang
  BY DEF IsReadable, LibrariesAreApart
<1> HIDE DEF client, I
<1>7. ASSUME NEW m \in mat
      PROVE  IsNamed(m.path)
  <2>1. m.source \in I /\ m.path = m.source.path
    BY <1>5, MadeOf DEF IsMade
  <2>2. m.source \in Candidates({}, T, order)
    BY <1>4, <1>5, <2>1, WinnerOf DEF client
  <2> QED
    BY <1>4, <2>1, <2>2, PathOfCandidate
<1>8. ASSUME NEW p \in shown
      PROVE  p \in LibrariesOfTheClient
  <2>1. PICK e \in Libraries(plan) : p = <<e.bundle, Scripts(e.source.body)>>
    BY <1>3
  <2>2. e \in plan /\ e.bundle # NoBundle /\ e.lang = NoLang
    BY <1>6 DEF Libraries
  <2> DEFINE m == e.source
             k == Fold(m.path)
  <2>3. m \in mat /\ IsEntryOf(e, m)
    BY <2>2, EntryOfPlan
  <2>4. IsLibrary(m.path) /\ e.bundle = Bundle(m.path) /\ m.lang = NoLang
    BY <2>2, <2>3 DEF IsEntryOf
  <2>5. k \in DOMAIN Mounted(m.lang) /\ Mounted(m.lang)[k] = <<m.path, m.body>>
    BY <1>5, <2>3, MaterializedIsFound
  <2>6. IsLibrary(k) /\ Bundle(k) = Bundle(m.path)
    BY <1>7, <2>3, <2>4, FoldKeeps
  <2>7. p = Show(k)
    BY <2>1, <2>4, <2>5, <2>6
  <2> HIDE DEF m, k
  <2> QED
    BY <2>4, <2>5, <2>6, <2>7 DEF LibrariesOfTheClient
<1>9. ASSUME NEW p \in LibrariesOfTheClient
      PROVE  p \in shown
  <2>1. PICK k \in DOMAIN Mounted(NoLang) : IsLibrary(k) /\ p = Show(k)
    BY DEF LibrariesOfTheClient
  <2>2. PICK m \in mat : /\ m.lang = NoLang /\ Fold(m.path) = k
                         /\ Mounted(NoLang)[k] = <<m.path, m.body>>
    <3>1. \E m \in Materialized({}, I) :
              /\ m.lang = NoLang /\ Fold(m.path) = k /\ Mounted(NoLang)[k] = <<m.path, m.body>>
              /\ m.source \in Best(Candidates({}, T, order), <<NoLang, k>>)
      BY <1>5, FoundIsMaterialized
    <3> QED
      BY <1>5, <3>1
  <2>3. IsLibrary(m.path) /\ Bundle(k) = Bundle(m.path) /\ Bundle(m.path) # NoBundle
    BY <1>7, <2>1, <2>2, FoldKeeps
  <2> DEFINE e == PlanEntry({}, m)
  <2>4. e \in plan
    BY DEF ReadablePlan
  <2>5. IsEntryOf(e, m)
    BY PlanEntryIs
  <2> HIDE DEF e
  <2>6. e.bundle = Bundle(m.path) /\ e.source = m
    BY <2>3, <2>5 DEF IsEntryOf
  <2>7. e \in Libraries(plan)
    BY <2>3, <2>4, <2>6 DEF Libraries
  <2>8. p = <<e.bundle, Scripts(e.source.body)>>
    BY <2>1, <2>2, <2>3, <2>6
  <2> QED
    BY <1>3, <2>7, <2>8
<1> QED
  BY <1>8, <1>9 DEF shown, L

-----------------------------------------------------------------------------
(* Provenance.                                                             *)

\* A source of a manifest: the file of the client, and what it has had.
IsTrueSource(source) ==
    \E f \in ClientFiles :
        /\ f.lang = source.lang /\ f.path = source.file /\ f.body = source.digest
        /\ IF source.kind = "loose-file"
           THEN source.bytes = f.body
           ELSE \E i \in DOMAIN f.body.items :
                   /\ f.body.items[i].path = source.entry
                   /\ f.body.items[i].body = source.bytes

\* The source of a winner.
IsSourceOf(source, c) ==
    /\ source.kind = IF c.entry = 0 THEN "loose-file" ELSE "game-package"
    /\ source.lang = c.lang /\ source.file = c.source /\ source.digest = c.archive
    /\ source.entry = c.path /\ source.bytes = BodyOf(c)

LEMMA SourceOfMade ==
    ASSUME NEW m, NEW c, IsMade(m, c)
    PROVE  IsSourceOf(FromCandidate(m), c)
<1> DEFINE kind == IF c.entry = 0 THEN "loose-file" ELSE "game-package"
           s == [kind |-> kind, part |-> c.part, version |-> c.version, lang |-> c.lang,
                 file |-> c.source, digest |-> c.archive, entry |-> c.path, bytes |-> m.body]
<1>1. FromCandidate(m) = s
  BY DEF FromCandidate, IsMade
<1> HIDE DEF kind
<1>2. s.kind = kind /\ s.lang = c.lang /\ s.file = c.source /\ s.digest = c.archive
      /\ s.entry = c.path /\ s.bytes = m.body
  OBVIOUS
<1> HIDE DEF s
<1> QED
  BY <1>1, <1>2 DEF IsSourceOf, IsMade, kind

\* The source of a candidate has had its bytes.
LEMMA CandidateHasTrueSource ==
    ASSUME NEW T, NEW order, IsOfTheClient(T, order), NEW c \in Candidates({}, T, order),
           NEW source, IsSourceOf(source, c)
    PROVE  IsTrueSource(source)
<1> DEFINE client == TheRelease.client
<1>1. IsIndexed(T, client, order) /\ {AsClientFile(f) : f \in T} = ClientFiles
  BY DEF IsOfTheClient
<1> HIDE DEF client
<1>2. PICK f \in T : \/ IsLooseCandidate(c, f, order)
                     \/ \E i \in DOMAIN f.body.items : IsPackageCandidate(c, f, order, i)
  BY <1>1, CandidateOf
<1> DEFINE g == AsClientFile(f)
<1>3. g \in ClientFiles /\ g.lang = f.lang /\ g.path = f.path /\ g.body = f.body
  BY <1>1 DEF AsClientFile
<1> HIDE DEF g
<1>4. c.lang = f.lang /\ c.source = f.path /\ c.archive = f.body
  BY <1>2 DEF IsLooseCandidate, IsPackageCandidate, IsOfFile
<1>5. CASE IsLooseCandidate(c, f, order)
  <2>1. c.entry = 0 /\ BodyOf(c) = f.body
    BY <1>4, <1>5 DEF IsLooseCandidate, BodyOf
  <2>2. source.kind = "loose-file" /\ source.bytes = g.body
    BY <1>3, <2>1 DEF IsSourceOf
  <2> QED
    BY <1>3, <1>4, <2>2 DEF IsTrueSource, IsSourceOf
<1>6. CASE \E i \in DOMAIN f.body.items : IsPackageCandidate(c, f, order, i)
  <2>1. PICK i \in DOMAIN f.body.items : IsPackageCandidate(c, f, order, i)
    BY <1>6
  <2>2. c.entry # 0 /\ c.path = f.body.items[i].path /\ BodyOf(c) = f.body.items[i].body
    BY <1>4, <2>1 DEF IsPackageCandidate, BodyOf
  <2>3. /\ source.kind = "game-package" /\ i \in DOMAIN g.body.items
        /\ g.body.items[i].path = source.entry /\ g.body.items[i].body = source.bytes
    BY <1>3, <2>2 DEF IsSourceOf
  <2> QED
    BY <1>3, <1>4, <2>3 DEF IsTrueSource, IsSourceOf
<1> QED
  BY <1>2, <1>5, <1>6

LEMMA ReadableEntryIs ==
    ASSUME NEW f
    PROVE  ReadableEntry(f).lang = f.lang /\ ReadableEntry(f).source = FromCandidate(f.source)
BY DEF ReadableEntry, ManifestEntry

LEMMA ClientEntryIs ==
    ASSUME NEW f
    PROVE  LET source == ClientEntry(f).source
           IN  /\ source.kind = "loose-file" /\ source.lang = f.lang /\ source.file = f.path
               /\ source.digest = f.body /\ source.bytes = f.body
BY DEF ClientEntry, ManifestEntry

\* A reported conflict of an entry has the entry's source as its only winner.
IsSettledBy(conflict, e) ==
    (conflict.key[1] = e.lang /\ e.source.kind = "game-package"
     /\ conflict.key[2] = Fold(e.source.entry))
    => \A w \in conflict.winners : w.source = e.source.file

\* The sources of the files manifest are true, and its conflicts settled.
LEMMA SourcesOfTheSnapshot ==
    ASSUME NEW T, NEW order, IsOfTheClient(T, order),
           NEW mat, mat = Materialized({}, Index({}, T, TheRelease.client)),
           NEW plan, plan = ReadablePlan({}, mat),
           NEW files, files = AssembledReadable(plan, Transformed({}, plan)),
           NEW e \in FilesManifest(files, T)
    PROVE  /\ IsTrueSource(e.source)
           /\ \A c \in ConflictsManifest(Candidates({}, T, order)) : IsSettledBy(c, e)
<1> DEFINE client == TheRelease.client
           I == Index({}, T, client)
           C == Candidates({}, T, order)
<1>1. IsIndexed(T, client, order) /\ {AsClientFile(f) : f \in T} = ClientFiles
  BY DEF IsOfTheClient
<1>2. I = Index({}, T, TheRelease.client) /\ mat = Materialized({}, I)
  OBVIOUS
<1>3. (\E f \in files : e = ReadableEntry(f)) \/ (\E f \in T : e = ClientEntry(f))
  BY DEF FilesManifest
<1> HIDE DEF client, I
<1>4. CASE \E f \in files : e = ReadableEntry(f)
  <2>1. PICK f \in files : e = ReadableEntry(f)
    BY <1>4
  <2> DEFINE m == f.source
             w == m.source
  <2>2. m \in mat /\ IsReadableOf(f, m)
    BY ReadableFiles
  <2>3. w \in I /\ IsMade(m, w)
    BY <1>2, <2>2, MadeOf
  <2>4. w \in C /\ w \in Best(C, Key(w))
    BY <1>1, <1>2, <2>3, WinnerOf DEF client
  <2>5. e.source = FromCandidate(m) /\ e.lang = m.lang /\ m.lang = w.lang
    BY <2>1, <2>2, <2>3, ReadableEntryIs DEF IsReadableOf, IsMade
  <2> HIDE DEF m, w
  <2>6. IsSourceOf(e.source, w)
    BY <2>3, <2>5, SourceOfMade
  <2>7. IsTrueSource(e.source)
    BY <2>4, <2>6, CandidateHasTrueSource
  <2>8. ASSUME NEW c \in ConflictsManifest(C)
        PROVE  IsSettledBy(c, e)
    <3>1. PICK key \in Keys(C) : c = [key |-> key, candidates |-> Under(C, key), winners |-> Best(C, key)]
      BY DEF ConflictsManifest
    <3>2. c.key = key /\ c.winners = Best(C, key)
      BY <3>1
    <3>3. PICK d \in C : key = Key(d)
      BY DEF Keys
    <3> SUFFICES ASSUME c.key[1] = e.lang, c.key[2] = Fold(e.source.entry), NEW x \in c.winners
                 PROVE  x.source = e.source.file
      BY DEF IsSettledBy
    <3>4. Key(w) = key
      <4>1. key = <<key[1], key[2]>>
        BY <3>3 DEF Key
      <4>2. key[1] = w.lang /\ key[2] = Fold(w.path)
        BY <2>5, <2>6, <3>2 DEF IsSourceOf
      <4> QED
        BY <4>1, <4>2 DEF Key
    <3>5. x = w
      <4> HIDE DEF C
      <4> QED
        BY <1>1, <2>4, <3>2, <3>4, BestIsUnique DEF C
    <3> QED
      BY <2>6, <3>5 DEF IsSourceOf
  <2> QED
    BY <2>7, <2>8
<1>5. CASE \E f \in T : e = ClientEntry(f)
  <2>1. PICK f \in T : e = ClientEntry(f)
    BY <1>5
  <2> DEFINE g == AsClientFile(f)
             s == e.source
  <2>2. g \in ClientFiles /\ g.lang = f.lang /\ g.path = f.path /\ g.body = f.body
    BY <1>1 DEF AsClientFile
  <2>3. /\ s.kind = "loose-file" /\ s.lang = f.lang /\ s.file = f.path
        /\ s.digest = f.body /\ s.bytes = f.body
    BY <2>1, ClientEntryIs
  <2> HIDE DEF g, s
  <2>4. IsTrueSource(s)
    BY <2>2, <2>3 DEF IsTrueSource
  <2>5. s.kind # "game-package"
    BY <2>3
  <2> QED
    BY <2>4, <2>5 DEF IsSettledBy, s
<1> QED
  BY <1>3, <1>4, <1>5

-----------------------------------------------------------------------------
(* The transitions of a pinned part.                                       *)

LEMMA LeastOf ==
    ASSUME NEW S, S \subseteq Nat, S # {}
    PROVE  Min(S) \in S
<1>1. \E x \in S : \A y \in S : x <= y
  BY LeastElement
<1> QED
  BY <1>1 DEF Min

WalkStep(ts, done) ==
    LET further == {i \in DOMAIN ts : Origin(ts[i]) = IF done = << >> THEN "0" ELSE done[Len(done)].to}
    IN  IF further = {} THEN done ELSE Append(done, ts[Min(further)])

LEMMA WalkStepStays ==
    ASSUME NEW ts, IsSequence(ts), NEW done \in Seq(Elements(ts))
    PROVE  WalkStep(ts, done) \in Seq(Elements(ts))
<1> DEFINE further == {i \in DOMAIN ts :
                         Origin(ts[i]) = IF done = << >> THEN "0" ELSE done[Len(done)].to}
<1>1. WalkStep(ts, done) = IF further = {} THEN done ELSE Append(done, ts[Min(further)])
  BY DEF WalkStep
<1>2. further \subseteq DOMAIN ts
  OBVIOUS
<1> HIDE DEF further
<1>3. DOMAIN ts \subseteq Nat
  BY RangeOf
<1>4. CASE further # {}
  <2>1. Min(further) \in DOMAIN ts
    BY <1>2, <1>3, <1>4, LeastOf
  <2>2. ts[Min(further)] \in Elements(ts)
    BY <2>1 DEF Elements
  <2> QED
    BY <1>1, <1>4, <2>2
<1> QED
  BY <1>1, <1>4

IsWalk(f, ts) ==
    /\ f \in [0..Len(ts) -> Seq(Elements(ts))]
    /\ f[0] = << >> /\ Walk(ts) = f[Len(ts)]
    /\ \A n \in 1..Len(ts) : f[n] = WalkStep(ts, f[n - 1])

\* The recursive function that Walk is defined by exists.
LEMMA WalkDef ==
    ASSUME NEW ts, IsSequence(ts)
    PROVE  \E f : IsWalk(f, ts)
<1> DEFINE S == Seq(Elements(ts))
           k == Len(ts)
           nil == << >>
           step == [p \in (1..k) \X S |-> WalkStep(ts, p[2])]
           Reached(done) == IF done = << >> THEN "0" ELSE done[Len(done)].to
           walk[n \in 0..Len(ts)] ==
            IF n = 0 THEN << >>
            ELSE LET further == {i \in DOMAIN ts : Origin(ts[i]) = Reached(walk[n - 1])}
                 IN  IF further = {} THEN walk[n - 1]
                     ELSE Append(walk[n - 1], ts[Min(further)])
<1>1. k \in Nat
  BY RangeOf
<1>2. nil \in S
  OBVIOUS
<1>3. \A done \in S : WalkStep(ts, done) \in S
  BY WalkStepStays
<1>4. Walk(ts) = walk[k]
  BY DEF Walk
<1> HIDE DEF S, k
<1>5. step \in [(1..k) \X S -> S]
  BY <1>3
<1>6. PICK f : /\ f \in [0..k -> S] /\ f[0] = nil
               /\ \A n \in 1..k : f[n] = step[<<n, f[n - 1]>>]
  <2> HIDE DEF step, nil
  <2>1. \E f : IsRecursive(f, k, S, nil, step)
    BY <1>1, <1>2, <1>5, Recursion
  <2> QED
    BY <2>1 DEF IsRecursive
<1>7. ASSUME NEW n \in 1..k
      PROVE  f[n] = WalkStep(ts, f[n - 1])
  <2>1. f[n - 1] \in S /\ <<n, f[n - 1]>> \in (1..k) \X S
    BY <1>1, <1>6
  <2>2. f[n] = step[<<n, f[n - 1]>>]
    BY <1>6
  <2> QED
    BY <2>1, <2>2
<1>8. f = [n \in 0..k |-> IF n = 0 THEN << >> ELSE WalkStep(ts, f[n - 1])]
  <2>1. \A n \in 0..k : n = 0 \/ n \in 1..k
    BY <1>1
  <2> HIDE DEF step
  <2> QED
    BY <1>6, <1>7, <2>1
<1>9. walk = CHOOSE g : g = [n \in 0..k |-> IF n = 0 THEN << >> ELSE WalkStep(ts, g[n - 1])]
  BY DEF WalkStep, k
<1>10. walk = [n \in 0..k |-> IF n = 0 THEN << >> ELSE WalkStep(ts, walk[n - 1])]
  <2> HIDE DEF walk
  <2> QED
    BY <1>8, <1>9
<1> HIDE DEF walk, step
<1> DEFINE T == {n \in Nat : n <= k => walk[n] \in S}
<1>11. 0 \in T
  BY <1>1, <1>2, <1>10
<1>12. ASSUME NEW n \in Nat, n \in T
       PROVE  n + 1 \in T
  <2> SUFFICES ASSUME n + 1 <= k
               PROVE  walk[n + 1] \in S
    OBVIOUS
  <2>1. walk[n] \in S /\ n + 1 \in 0..k /\ (n + 1) - 1 = n /\ n + 1 # 0
    BY <1>1, <1>12
  <2>2. walk[n + 1] = WalkStep(ts, walk[n])
    BY <1>10, <2>1
  <2> QED
    BY <1>3, <2>1, <2>2
<1>13. Nat \subseteq T
  <2> HIDE DEF T
  <2> QED
    BY <1>11, <1>12, NatSetInduction
<1>14. walk \in [0..k -> S] /\ walk[0] = << >>
  <2>1. ASSUME NEW n \in 0..k
        PROVE  walk[n] \in S
    BY <1>1, <1>13
  <2> QED
    BY <1>1, <1>10, <2>1
<1>15. ASSUME NEW n \in 1..k
       PROVE  walk[n] = WalkStep(ts, walk[n - 1])
  <2>1. n \in 0..k /\ n # 0
    BY <1>1
  <2> QED
    BY <1>10, <2>1, Zenon
<1> QED
  BY <1>4, <1>14, <1>15 DEF S, k, IsWalk

\* A walk along the transitions is a sequence of them.
LEMMA WalkIsSequence ==
    ASSUME NEW ts, IsSequence(ts)
    PROVE  Walk(ts) \in Seq(Elements(ts))
<1>1. PICK f : IsWalk(f, ts)
  BY WalkDef
<1>2. Len(ts) \in 0..Len(ts)
  BY RangeOf
<1> QED
  BY <1>1, <1>2 DEF IsWalk

\* The transitions of a connected chain.
LEMMA ConnectedIsSequence ==
    ASSUME NEW ts, IsSequence(ts), IsConnected(ts)
    PROVE  /\ IsSequence(Connected(ts)) /\ Connected(ts) # << >>
           /\ Elements(Connected(ts)) \subseteq Elements(ts)
<1>1. ts # << >> /\ (~IsZeroStateList(ts) => Len(Walk(ts)) = Len(ts))
  BY DEF IsConnected
<1>2. CASE IsZeroStateList(ts)
  <2>1. Connected(ts) = ts
    BY <1>2 DEF Connected
  <2> QED
    BY <1>1, <2>1
<1>3. CASE ~IsZeroStateList(ts)
  <2> DEFINE w == Walk(ts)
             E == Elements(ts)
  <2>1. Connected(ts) = w
    BY <1>3 DEF Connected
  <2>2. w \in Seq(E) /\ Len(w) = Len(ts) /\ ts # << >> /\ ts \in Seq(E)
    BY <1>1, <1>3, WalkIsSequence, RangeOf
  <2> HIDE DEF w, E
  <2>3. w # << >> /\ Elements(w) \subseteq E
    BY <2>2 DEF Elements
  <2>4. IsSequence(w)
    BY <2>2, ToSequence
  <2> QED
    BY <2>1, <2>3, <2>4 DEF E
<1> QED
  BY <1>2, <1>3

\* The transition that a step of a walk appends.
LEMMA StepAppends ==
    ASSUME NEW ts, IsSequence(ts), NEW done \in Seq(Elements(ts))
    PROVE  \/ WalkStep(ts, done) = done
           \/ \E i \in DOMAIN ts :
                 /\ WalkStep(ts, done) = Append(done, ts[i])
                 /\ Origin(ts[i]) = IF done = << >> THEN "0" ELSE done[Len(done)].to
<1> DEFINE further == {i \in DOMAIN ts :
                         Origin(ts[i]) = IF done = << >> THEN "0" ELSE done[Len(done)].to}
<1>1. WalkStep(ts, done) = IF further = {} THEN done ELSE Append(done, ts[Min(further)])
  BY DEF WalkStep
<1>2. further \subseteq DOMAIN ts
  OBVIOUS
<1>3. CASE further # {}
  <2>1. Min(further) \in further
    <3> HIDE DEF further
    <3>1. DOMAIN ts \subseteq Nat
      BY RangeOf
    <3> QED
      BY <1>2, <1>3, <3>1, LeastOf
  <2> QED
    BY <1>1, <1>3, <2>1
<1> QED
  BY <1>1, <1>3

\* A walk of as many steps as there are transitions never stops.
LEMMA WalkGoesOn ==
    ASSUME NEW ts, IsSequence(ts), Len(Walk(ts)) = Len(ts), NEW f, IsWalk(f, ts)
    PROVE  \A n \in 0..Len(ts) : Len(f[n]) = n
<1> DEFINE k == Len(ts)
           S == Seq(Elements(ts))
<1>1. /\ k \in Nat /\ f \in [0..k -> S] /\ f[0] = << >> /\ Len(f[k]) = k
      /\ \A n \in 1..k : f[n] = WalkStep(ts, f[n - 1])
  BY RangeOf DEF IsWalk
<1>2. \A n \in 0..k : Len(f[n]) \in Nat
  BY <1>1
<1>3. ASSUME NEW n \in 1..k
      PROVE  Len(f[n]) <= Len(f[n - 1]) + 1
  <2>1. f[n - 1] \in S
    BY <1>1
  <2>2. \A x \in Elements(ts) : Len(Append(f[n - 1], x)) = Len(f[n - 1]) + 1
    BY <2>1
  <2>3. \A i \in DOMAIN ts : ts[i] \in Elements(ts)
    BY DEF Elements
  <2>4. Len(f[n - 1]) \in Nat /\ f[n] = WalkStep(ts, f[n - 1])
    BY <1>1, <2>1
  <2> QED
    BY <2>1, <2>2, <2>3, <2>4, StepAppends
<1> HIDE DEF k, S
<1> DEFINE T == {n \in Nat : n <= k => Len(f[n]) <= n}
           U == {n \in Nat : n <= k => Len(f[k - n]) >= k - n}
<1>4. Nat \subseteq T
  <2>1. 0 \in T
    BY <1>1
  <2>2. ASSUME NEW n \in Nat, n \in T
        PROVE  n + 1 \in T
    <3> SUFFICES ASSUME n + 1 <= k
                 PROVE  Len(f[n + 1]) <= n + 1
      OBVIOUS
    <3>1. n + 1 \in 1..k /\ (n + 1) - 1 = n /\ n \in 0..k /\ n + 1 \in 0..k
      BY <1>1
    <3> QED
      BY <1>2, <1>3, <2>2, <3>1
  <2> HIDE DEF T
  <2> QED
    BY <2>1, <2>2, NatSetInduction
<1>5. Nat \subseteq U
  <2>1. 0 \in U
    BY <1>1
  <2>2. ASSUME NEW n \in Nat, n \in U
        PROVE  n + 1 \in U
    <3> SUFFICES ASSUME n + 1 <= k
                 PROVE  Len(f[k - (n + 1)]) >= k - (n + 1)
      OBVIOUS
    <3>1. k - n \in 1..k /\ (k - n) - 1 = k - (n + 1) /\ k - n \in 0..k /\ k - (n + 1) \in 0..k
      BY <1>1
    <3> QED
      BY <1>1, <1>2, <1>3, <2>2, <3>1
  <2> HIDE DEF U
  <2> QED
    BY <2>1, <2>2, NatSetInduction
<1>6. ASSUME NEW n \in 0..k
      PROVE  Len(f[n]) = n
  <2>1. n \in Nat /\ k - n \in Nat /\ k - (k - n) = n /\ n <= k /\ k - n <= k
    BY <1>1
  <2>2. Len(f[n]) <= n
    BY <1>4, <2>1
  <2>3. Len(f[k - (k - n)]) >= k - (k - n)
    BY <1>5, <2>1
  <2> QED
    BY <1>2, <2>1, <2>2, <2>3
<1> QED
  BY <1>6 DEF k

\* Transition n of a walk is at place idx[n], and leads on from the one before.
IsTrail(idx, ts) ==
    /\ idx \in [1..Len(ts) -> 1..Len(ts)]
    /\ \A n \in 1..Len(ts) :
          Origin(ts[idx[n]]) = IF n = 1 THEN "0" ELSE ts[idx[n - 1]].to

LEMMA WalkIsTrail ==
    ASSUME NEW ts, IsSequence(ts), Len(Walk(ts)) = Len(ts)
    PROVE  \E idx : /\ IsTrail(idx, ts)
                    /\ \A n \in 1..Len(ts) : Walk(ts)[n] = ts[idx[n]]
<1> DEFINE k == Len(ts)
           S == Seq(Elements(ts))
<1>1. k \in Nat /\ DOMAIN ts = 1..k /\ \A i \in 1..k : ts[i] \in Elements(ts)
  BY RangeOf
<1>2. PICK f : IsWalk(f, ts)
  BY WalkDef
<1>3. \A n \in 0..k : Len(f[n]) = n
  BY <1>2, WalkGoesOn
<1>4. /\ f \in [0..k -> S] /\ f[0] = << >> /\ Walk(ts) = f[k]
      /\ \A n \in 1..k : f[n] = WalkStep(ts, f[n - 1])
  BY <1>2 DEF IsWalk
<1> DEFINE Leads(n, i) == /\ f[n] = Append(f[n - 1], ts[i])
                          /\ Origin(ts[i]) = IF n = 1 THEN "0" ELSE f[n - 1][n - 1].to
           idx == [n \in 1..k |-> CHOOSE i \in 1..k : Leads(n, i)]
<1>5. ASSUME NEW n \in 1..k
      PROVE  \E i \in 1..k : Leads(n, i)
  <2> DEFINE done == f[n - 1]
  <2>1. /\ n - 1 \in 0..k /\ n \in 0..k /\ n \in Nat
        /\ done \in S /\ Len(done) = n - 1 /\ Len(f[n]) = n
    BY <1>1, <1>3, <1>4
  <2>2. f[n] # done
    BY <2>1
  <2>3. f[n] = WalkStep(ts, done)
    BY <1>4
  <2>4. done = << >> <=> n = 1
    BY <2>1
  <2> HIDE DEF done
  <2>5. PICK i \in DOMAIN ts :
           /\ WalkStep(ts, done) = Append(done, ts[i])
           /\ Origin(ts[i]) = IF done = << >> THEN "0" ELSE done[Len(done)].to
    BY <2>1, <2>2, <2>3, StepAppends
  <2>6. Leads(n, i)
    BY <2>1, <2>3, <2>4, <2>5 DEF done
  <2> QED
    BY <1>1, <2>6
<1>6. idx \in [1..k -> 1..k] /\ \A n \in 1..k : Leads(n, idx[n])
  <2> HIDE DEF Leads
  <2> QED
    BY <1>5
<1> HIDE DEF idx, k, S
<1> DEFINE T == {n \in Nat : n <= k => \A m \in 1..n : f[n][m] = ts[idx[m]]}
<1>7. Nat \subseteq T
  <2>1. 0 \in T
    OBVIOUS
  <2>2. ASSUME NEW n \in Nat, n \in T
        PROVE  n + 1 \in T
    <3> SUFFICES ASSUME n + 1 <= k, NEW m \in 1..(n + 1)
                 PROVE  f[n + 1][m] = ts[idx[m]]
      OBVIOUS
    <3>1. n + 1 \in 1..k /\ (n + 1) - 1 = n /\ n \in 0..k /\ n <= k
      BY <1>1
    <3>2. f[n + 1] = Append(f[n], ts[idx[n + 1]]) /\ f[n] \in S /\ Len(f[n]) = n
      BY <1>3, <1>4, <1>6, <3>1
    <3>3. idx[n + 1] \in 1..k
      BY <1>6, <3>1
    <3>4. ts[idx[n + 1]] \in Elements(ts)
      BY <1>1, <3>3
    <3>5. /\ f[n + 1][n + 1] = ts[idx[n + 1]]
          /\ \A j \in 1..n : f[n + 1][j] = f[n][j]
      BY <3>2, <3>4 DEF S
    <3>6. CASE m = n + 1
      BY <3>5, <3>6
    <3>7. CASE m \in 1..n
      BY <2>2, <3>1, <3>5, <3>7
    <3> QED
      BY <3>6, <3>7
  <2> HIDE DEF T
  <2> QED
    BY <2>1, <2>2, NatSetInduction
<1>8. ASSUME NEW n \in 0..k, NEW m \in 1..n
      PROVE  f[n][m] = ts[idx[m]]
  <2>1. n \in Nat /\ n <= k
    BY <1>1
  <2> QED
    BY <1>7, <2>1
<1>9. ASSUME NEW n \in 1..k
      PROVE  Origin(ts[idx[n]]) = IF n = 1 THEN "0" ELSE ts[idx[n - 1]].to
  <2>1. Origin(ts[idx[n]]) = IF n = 1 THEN "0" ELSE f[n - 1][n - 1].to
    BY <1>6
  <2>2. n # 1 => n - 1 \in 0..k /\ n - 1 \in 1..(n - 1)
    BY <1>1
  <2> QED
    BY <1>8, <2>1, <2>2
<1>10. \A n \in 1..k : Walk(ts)[n] = ts[idx[n]]
  BY <1>1, <1>4, <1>8
<1>11. IsTrail(idx, ts)
  BY <1>6, <1>9 DEF IsTrail, k
<1> QED
  BY <1>10, <1>11 DEF k

\* As many versions as transitions, without the one they start from: no two
\* transitions lead to the same.
LEMMA TargetsAreApart ==
    ASSUME NEW ts, IsSequence(ts),
           Cardinality({ts[i].to : i \in DOMAIN ts} \cup {"0"}) = Len(ts) + 1
    PROVE  /\ \A i \in 1..Len(ts) : ts[i].to # "0"
           /\ \A i, j \in 1..Len(ts) : ts[i].to = ts[j].to => i = j
<1> DEFINE k == Len(ts)
           I == 1..k
           V == {ts[i].to : i \in I}
           to == [i \in I |-> ts[i].to]
<1>1. k \in Nat /\ DOMAIN ts = I
  BY RangeOf
<1>2. IsFiniteSet(I) /\ Cardinality(I) = k
  <2> HIDE DEF k
  <2>1. IsFiniteSet(1..k) /\ Cardinality(1..k) = IF 1 > k THEN 0 ELSE k - 1 + 1
    BY <1>1, FS_Interval
  <2> QED
    BY <1>1, <2>1
<1>3. to \in Surjection(I, V)
  BY DEF Surjection
<1>4. Cardinality(V \cup {"0"}) = k + 1
  BY <1>1
<1> HIDE DEF to, V, I
<1>5. IsFiniteSet(V) /\ Cardinality(V) <= Cardinality(I)
  BY <1>2, <1>3, FS_Surjection
<1>6. Cardinality(V) \in Nat
  BY <1>5, FS_CardinalityType
<1>7. Cardinality(V \cup {"0"}) = IF "0" \in V THEN Cardinality(V) ELSE Cardinality(V) + 1
  BY <1>5, FS_AddElement
<1>8. "0" \notin V /\ Cardinality(V) = k
  BY <1>1, <1>2, <1>4, <1>5, <1>6, <1>7
<1>9. to \in Injection(I, V)
  BY <1>2, <1>3, <1>8, FS_SurjSameCardinalityImpliesInj
<1>10. \A i \in I : ts[i].to # "0"
  BY <1>8 DEF V
<1>11. \A i, j \in I : to[i] = to[j] => i = j
  BY <1>9 DEF Injection, IsInjective
<1>12. \A i \in I : to[i] = ts[i].to
  BY DEF to
<1> QED
  BY <1>10, <1>11, <1>12 DEF I

\* A trail does not meet itself, so that it gets to every transition.
LEMMA TrailCoversAll ==
    ASSUME NEW ts, IsSequence(ts), NEW idx, IsTrail(idx, ts),
           Cardinality({ts[i].to : i \in DOMAIN ts} \cup {"0"}) = Len(ts) + 1
    PROVE  \A i \in 1..Len(ts) : \E n \in 1..Len(ts) : idx[n] = i
<1> DEFINE k == Len(ts)
           I == 1..k
           Apart(m) == \A n \in I : m < n => idx[m] # idx[n]
           T == {n \in Nat : n + 1 <= k => Apart(n + 1)}
<1>1. k \in Nat
  BY RangeOf
<1>2. /\ \A i \in I : ts[i].to # "0"
      /\ \A i, j \in I : ts[i].to = ts[j].to => i = j
  BY TargetsAreApart
<1>3. /\ idx \in [I -> I]
      /\ \A n \in I : Origin(ts[idx[n]]) = IF n = 1 THEN "0" ELSE ts[idx[n - 1]].to
  BY DEF IsTrail
<1> HIDE DEF k
<1>4. 0 \in T
  <2> SUFFICES ASSUME 1 <= k, NEW n \in I, 1 < n, idx[1] = idx[n]
               PROVE  FALSE
    OBVIOUS
  <2>1. 1 \in I /\ n # 1 /\ n - 1 \in I
    BY <1>1
  <2>2. Origin(ts[idx[1]]) = "0" /\ Origin(ts[idx[n]]) = ts[idx[n - 1]].to
    BY <1>3, <2>1
  <2>3. idx[n - 1] \in I
    BY <1>3, <2>1
  <2> QED
    BY <1>2, <2>2, <2>3
<1>5. ASSUME NEW m \in Nat, m \in T
      PROVE  m + 1 \in T
  <2> SUFFICES ASSUME m + 2 <= k, NEW n \in I, m + 2 < n, idx[m + 2] = idx[n]
               PROVE  FALSE
    OBVIOUS
  <2>1. /\ m + 2 \in I /\ m + 2 # 1 /\ (m + 2) - 1 = m + 1 /\ m + 1 \in I
        /\ n # 1 /\ n - 1 \in I /\ m + 1 < n - 1 /\ m + 1 <= k
    BY <1>1
  <2>2. /\ Origin(ts[idx[m + 2]]) = ts[idx[m + 1]].to
        /\ Origin(ts[idx[n]]) = ts[idx[n - 1]].to
    BY <1>3, <2>1
  <2>3. idx[n - 1] \in I /\ idx[m + 1] \in I
    BY <1>3, <2>1
  <2>4. idx[m + 1] = idx[n - 1]
    BY <1>2, <2>2, <2>3
  <2> QED
    BY <1>5, <2>1, <2>4
<1>6. Nat \subseteq T
  <2> HIDE DEF T
  <2> QED
    BY <1>4, <1>5, NatSetInduction
<1>7. ASSUME NEW m \in I
      PROVE  Apart(m)
  <2>1. m - 1 \in Nat /\ (m - 1) + 1 = m /\ m <= k
    BY <1>1
  <2> HIDE DEF Apart
  <2>2. m - 1 \in T
    BY <1>6, <2>1
  <2> QED
    BY <2>1, <2>2
<1>8. idx \in Injection(I, I)
  <2>1. \A m, n \in I : idx[m] = idx[n] => m = n
    BY <1>1, <1>7
  <2> QED
    BY <1>3, <2>1 DEF Injection, IsInjective
<1>9. IsFiniteSet(I)
  BY <1>1, FS_Interval
<1> HIDE DEF I
<1>10. idx \in Surjection(I, I)
  BY <1>8, <1>9, FS_Injection
<1>11. \A i \in I : \E n \in I : idx[n] = i
  BY <1>10 DEF Surjection
<1> QED
  BY <1>11 DEF I, k

\* A connected chain has all transitions.
LEMMA ConnectedHasAll ==
    ASSUME NEW ts, IsSequence(ts), IsConnected(ts)
    PROVE  Elements(Connected(ts)) = Elements(ts)
<1>1. CASE IsZeroStateList(ts)
  BY <1>1 DEF Connected
<1>2. CASE ~IsZeroStateList(ts)
  <2>1. /\ Connected(ts) = Walk(ts) /\ Len(Walk(ts)) = Len(ts)
        /\ Cardinality({ts[i].to : i \in DOMAIN ts} \cup {"0"}) = Len(ts) + 1
    BY <1>2 DEF Connected, IsConnected
  <2>2. PICK idx : /\ IsTrail(idx, ts)
                   /\ \A n \in 1..Len(ts) : Walk(ts)[n] = ts[idx[n]]
    BY <2>1, WalkIsTrail
  <2>3. \A i \in 1..Len(ts) : \E n \in 1..Len(ts) : idx[n] = i
    BY <2>1, <2>2, TrailCoversAll
  <2>4. DOMAIN ts = 1..Len(ts) /\ DOMAIN Walk(ts) = 1..Len(ts)
    <3>1. Walk(ts) \in Seq(Elements(ts))
      BY WalkIsSequence
    <3>2. DOMAIN Walk(ts) = 1..Len(Walk(ts))
      BY <3>1
    <3> QED
      BY <2>1, <3>2, RangeOf
  <2>5. Elements(ts) \subseteq Elements(Walk(ts))
    <3> SUFFICES ASSUME NEW i \in 1..Len(ts)
                 PROVE  ts[i] \in Elements(Walk(ts))
      BY <2>4 DEF Elements
    <3>1. PICK n \in 1..Len(ts) : idx[n] = i
      BY <2>3
    <3>2. Walk(ts)[n] = ts[i]
      BY <2>2, <3>1
    <3> QED
      BY <2>4, <3>2 DEF Elements
  <2>6. Elements(Connected(ts)) \subseteq Elements(ts)
    BY ConnectedIsSequence
  <2> QED
    BY <2>1, <2>5, <2>6
<1> QED
  BY <1>1, <1>2

-----------------------------------------------------------------------------
(* Stored files that have changed.                                         *)

IsRot(x) == \A r \in x : r.file.at = "blob" => r.entry \in Alterations(r.file.name)

\* A blob holds its content, or one alteration of it.
LEMMA ReadOfBlob ==
    ASSUME NEW x, IsRot(x), NEW body
    PROVE  \/ Read(x, Blob(body), body) = body
           \/ \E e \in Alterations(body) : Read(x, Blob(body), body) = Altered(body, e)
<1> DEFINE file == Blob(body)
           Hits(r) == r.file = file
           chosen == CHOOSE r \in x : Hits(r)
<1>1. CASE \E r \in x : Hits(r)
  <2>1. chosen \in x /\ Hits(chosen)
    BY <1>1
  <2>2. Read(x, file, body) = Altered(body, chosen.entry)
    BY <1>1 DEF Read
  <2> HIDE DEF chosen
  <2>3. file.at = "blob" /\ file.name = body
    BY DEF Blob
  <2>4. chosen.entry \in Alterations(body)
    BY <2>1, <2>3 DEF IsRot
  <2> QED
    BY <2>2, <2>4
<1>2. CASE ~\E r \in x : Hits(r)
  BY <1>2 DEF Read
<1> QED
  BY <1>1, <1>2

\* The entry of an archive that is hit, and the others.
LEMMA AlteredEntry ==
    ASSUME NEW b, IsPackageBody(b), b.fmt \in Archives, NEW e \in 1..Len(b.items)
    PROVE  /\ Altered(b, e).fmt = b.fmt /\ DOMAIN Altered(b, e).items = DOMAIN b.items
           /\ Altered(b, e).items[e].crc = b.items[e].crc
           /\ Altered(b, e).items[e].body.id = Other
           /\ \A i \in DOMAIN b.items : i # e => Altered(b, e).items[i] = b.items[i]
<1> DEFINE hit == [b.items[e].body EXCEPT !.id = Other]
           entry == [b.items[e] EXCEPT !.body = hit]
           items == [b.items EXCEPT ![e] = entry]
           a == [b EXCEPT !.items = items]
<1>1. /\ b = [fmt |-> b.fmt, id |-> b.id, items |-> b.items, via |-> b.via]
      /\ IsSequence(b.items) /\ \A i \in DOMAIN b.items : IsEntry(b.items[i])
  BY DEF IsPackageBody, IsBody
<1>2. DOMAIN b.items = 1..Len(b.items) /\ Len(b.items) \in Nat
  BY <1>1, RangeOf
<1>3. e # 0 /\ e \in DOMAIN b.items
  BY <1>2
<1>4. Altered(b, e) = a
  BY <1>3 DEF Altered
<1>5. /\ b.items[e] = [path |-> b.items[e].path, body |-> b.items[e].body, crc |-> b.items[e].crc]
      /\ IsBody(b.items[e].body)
  BY <1>1, <1>3 DEF IsEntry
<1>6. "id" \in DOMAIN b.items[e].body
  <2> DEFINE c == b.items[e].body
  <2>1. c = [fmt |-> c.fmt, id |-> c.id, items |-> c.items, via |-> c.via]
    BY <1>5 DEF IsBody
  <2> HIDE DEF c
  <2>2. "id" \in DOMAIN c
    BY <2>1
  <2> QED
    BY <2>2 DEF c
<1>7. hit.id = Other
  BY <1>6
<1>8. "body" \in DOMAIN b.items[e] /\ "crc" \in DOMAIN b.items[e]
  <2> DEFINE i == b.items[e]
  <2>1. i = [path |-> i.path, body |-> i.body, crc |-> i.crc]
    BY <1>5
  <2> HIDE DEF i
  <2>2. "body" \in DOMAIN i /\ "crc" \in DOMAIN i
    BY <2>1
  <2> QED
    BY <2>2 DEF i
<1> HIDE DEF hit
<1>9. entry.body = hit /\ entry.crc = b.items[e].crc
  BY <1>8
<1> HIDE DEF entry
<1>10. /\ DOMAIN items = DOMAIN b.items /\ items[e] = entry
       /\ \A i \in DOMAIN b.items : i # e => items[i] = b.items[i]
  BY <1>3
<1> HIDE DEF items
<1>11. "items" \in DOMAIN b /\ "fmt" \in DOMAIN b
  BY <1>1
<1>12. a.items = items /\ a.fmt = b.fmt
  BY <1>11
<1> HIDE DEF a
<1> QED
  BY <1>4, <1>7, <1>9, <1>10, <1>12

\* A directory, or any byte of another archive.
LEMMA AlteredDirectory ==
    ASSUME NEW b, IsPackageBody(b), b.fmt \in Archives
    PROVE  /\ Altered(b, 0).fmt = b.fmt
           /\ b.fmt # "zip" => Altered(b, 0).items = b.items
           /\ b.fmt = "zip" => /\ DOMAIN Altered(b, 0).items = DOMAIN b.items
                               /\ \A i \in DOMAIN b.items :
                                     /\ Altered(b, 0).items[i].crc = Other
                                     /\ Altered(b, 0).items[i].body = b.items[i].body
<1>1. /\ b = [fmt |-> b.fmt, id |-> b.id, items |-> b.items, via |-> b.via]
      /\ \A i \in DOMAIN b.items : IsEntry(b.items[i])
  BY DEF IsPackageBody, IsBody
<1>2. "items" \in DOMAIN b /\ "fmt" \in DOMAIN b
  BY <1>1
<1>3. CASE b.fmt = "zip"
  <2> DEFINE New(i) == [b.items[i] EXCEPT !.crc = Other]
             items == [i \in DOMAIN b.items |-> New(i)]
             a == [b EXCEPT !.items = items]
  <2>1. Altered(b, 0) = a
    BY <1>3 DEF Altered
  <2>2. ASSUME NEW i \in DOMAIN b.items
        PROVE  New(i).crc = Other /\ New(i).body = b.items[i].body
    <3> DEFINE x == b.items[i]
    <3>1. x = [path |-> x.path, body |-> x.body, crc |-> x.crc]
      BY <1>1 DEF IsEntry
    <3> HIDE DEF x
    <3>2. "body" \in DOMAIN x /\ "crc" \in DOMAIN x
      BY <3>1
    <3>3. [x EXCEPT !.crc = Other].crc = Other /\ [x EXCEPT !.crc = Other].body = x.body
      BY <3>2
    <3> QED
      BY <3>3 DEF x
  <2> HIDE DEF New
  <2>3. DOMAIN items = DOMAIN b.items /\ \A i \in DOMAIN b.items : items[i] = New(i)
    OBVIOUS
  <2> HIDE DEF items
  <2>4. a.items = items /\ a.fmt = b.fmt
    BY <1>2
  <2> HIDE DEF a
  <2> QED
    BY <1>3, <2>1, <2>2, <2>3, <2>4
<1>4. CASE b.fmt # "zip"
  <2>1. b.fmt # "order"
    BY DEF Archives
  <2>2. Altered(b, 0) = [b EXCEPT !.id = Other]
    BY <1>4, <2>1 DEF Altered
  <2> QED
    BY <1>2, <1>4, <2>2
<1> QED
  BY <1>3, <1>4

\* Only a ZIP archive can be hit at an entry.
LEMMA AlterationsOf ==
    ASSUME NEW b, NEW e \in Alterations(b), e # 0
    PROVE  b.fmt = "zip" /\ e \in 0..Len(b.items)
BY DEF Alterations

\* The format of a file stays as it was.
LEMMA AlteredFormat ==
    ASSUME NEW b, IsBody(b), NEW e
    PROVE  Altered(b, e).fmt = b.fmt
<1>1. b = [fmt |-> b.fmt, id |-> b.id, items |-> b.items, via |-> b.via]
  BY DEF IsBody
<1>2. "items" \in DOMAIN b /\ "fmt" \in DOMAIN b /\ "id" \in DOMAIN b
  BY <1>1
<1>4. (\E x : Altered(b, e) = [b EXCEPT !.items = x]) \/ Altered(b, e) = [b EXCEPT !.id = Other]
  <2>1. CASE e # 0
    BY <2>1 DEF Altered
  <2>2. CASE e = 0 /\ b.fmt = "zip"
    BY <2>2 DEF Altered
  <2>3. CASE e = 0 /\ b.fmt = "order"
    BY <2>3 DEF Altered
  <2>4. CASE e = 0 /\ b.fmt # "order" /\ b.fmt # "zip"
    BY <2>4 DEF Altered
  <2> QED
    BY <2>1, <2>2, <2>3, <2>4
<1>5. CASE \E x : Altered(b, e) = [b EXCEPT !.items = x]
  <2>1. PICK x : Altered(b, e) = [b EXCEPT !.items = x]
    BY <1>5
  <2>2. [b EXCEPT !.items = x].fmt = b.fmt
    BY <1>2
  <2> QED
    BY <2>1, <2>2
<1>6. CASE Altered(b, e) = [b EXCEPT !.id = Other]
  <2>1. [b EXCEPT !.id = Other].fmt = b.fmt
    BY <1>2
  <2> QED
    BY <1>6, <2>1
<1> QED
  BY <1>4, <1>5, <1>6

\* An archive whose entries have the CRCs of its directory has these entries still.
LEMMA IntactIsUnchanged ==
    ASSUME NEW x, IsRot(x), NEW b, IsPackageBody(b),
           NEW a, a = Read(x, Blob(b), b), a.fmt \in Archives, EntriesAreIntact(a)
    PROVE  a.fmt = b.fmt /\ a.items = b.items
<1>1. CASE a = b
  BY <1>1
<1>2. CASE \E e \in Alterations(b) : a = Altered(b, e)
  <2>1. PICK e \in Alterations(b) : a = Altered(b, e)
    BY <1>2
  <2>2. a.fmt = b.fmt
    BY <2>1, AlteredFormat DEF IsPackageBody
  <2>3. /\ \A i \in DOMAIN b.items : IsEntry(b.items[i])
        /\ IsSequence(b.items)
    BY <2>2 DEF IsPackageBody, IsBody
  <2>4. DOMAIN b.items = 1..Len(b.items) /\ Len(b.items) \in Nat
    BY <2>3, RangeOf
  <2>5. CASE e # 0
    <3>1. e \in 1..Len(b.items)
      BY <2>4, <2>5, AlterationsOf
    <3>2. /\ e \in DOMAIN a.items /\ a.items[e].crc = b.items[e].crc /\ a.items[e].body.id = Other
      BY <2>1, <2>2, <2>4, <3>1, AlteredEntry
    <3>3. b.items[e].crc # Other
      BY <2>3, <2>4, <3>1 DEF IsEntry
    <3> QED
      BY <3>2, <3>3 DEF EntriesAreIntact
  <2>6. CASE e = 0 /\ b.fmt = "zip"
    <3>1. /\ DOMAIN a.items = DOMAIN b.items
          /\ \A i \in DOMAIN b.items : a.items[i].crc = Other /\ a.items[i].body = b.items[i].body
      BY <2>1, <2>2, <2>6, AlteredDirectory
    <3>2. \A i \in DOMAIN b.items : b.items[i].body.id # Other
      BY <2>3 DEF IsEntry, IsBody
    <3>3. DOMAIN b.items = {}
      BY <3>1, <3>2 DEF EntriesAreIntact
    <3>4. a.items = b.items
      <4> DEFINE New(i) == [b.items[i] EXCEPT !.crc = Other]
                 items == [i \in DOMAIN b.items |-> New(i)]
      <4>1. a = [b EXCEPT !.items = items]
        BY <2>1, <2>6 DEF Altered
      <4>2. b = [fmt |-> b.fmt, id |-> b.id, items |-> b.items, via |-> b.via]
        BY DEF IsPackageBody, IsBody
      <4>3. a.items = items
        <5> HIDE DEF items
        <5>1. "items" \in DOMAIN b
          BY <4>2
        <5> QED
          BY <4>1, <5>1
      <4>4. b.items = [i \in DOMAIN b.items |-> b.items[i]]
        BY <2>3 DEF IsSequence
      <4>5. items = [i \in DOMAIN b.items |-> b.items[i]]
        BY <3>3
      <4> QED
        BY <4>3, <4>4, <4>5
    <3> QED
      BY <2>2, <3>4
  <2>7. CASE e = 0 /\ b.fmt # "zip"
    BY <2>1, <2>2, <2>7, AlteredDirectory
  <2> QED
    BY <2>5, <2>6, <2>7
<1> QED
  BY <1>1, <1>2, ReadOfBlob

-----------------------------------------------------------------------------
(* What the stages accept is what they would make of the unchanged files.  *)

AreSoundDownloads(D) == IsSequence(D) /\ \A i \in DOMAIN D : IsSoundDownload(D[i])

AreComplete(D) ==
    \A group \in Groups([i \in DOMAIN D |-> D[i].artifact]) : IsCompleteGroup(D, group)

LEMMA MemberOfGroup ==
    ASSUME NEW D, NEW group \in Groups([i \in DOMAIN D |-> D[i].artifact])
    PROVE  group # << >> /\ \E k \in DOMAIN D : D[k].artifact.segment.group = group
<1> DEFINE plan == [i \in DOMAIN D |-> D[i].artifact]
<1>1. PICK k \in DOMAIN plan : plan[k].segment.group = group
  BY DEF Groups
<1>2. k \in DOMAIN D /\ D[k].artifact.segment.group = group
  BY <1>1
<1> QED
  BY <1>2 DEF Groups

NumberedIn(D, group, n) ==
    D[CHOOSE i \in InGroup(D, group) : D[i].artifact.segment.index = n].body

LEMMA NumberedIsDownloaded ==
    ASSUME NEW D, AreSoundDownloads(D), AreComplete(D),
           NEW group \in Groups([i \in DOMAIN D |-> D[i].artifact])
    PROVE  /\ Cardinality(InGroup(D, group)) \in Nat /\ Cardinality(InGroup(D, group)) > 0
           /\ \A n \in 1..Cardinality(InGroup(D, group)) :
                 \E i \in DOMAIN D : NumberedIn(D, group, n) = D[i].body
<1> DEFINE M == InGroup(D, group)
           c == Cardinality(M)
<1>1. PICK k \in DOMAIN D : D[k].artifact.segment.group = group
  BY MemberOfGroup
<1>2. IsCompleteGroup(D, group) /\ IsSequence(D)
  BY DEF AreComplete, AreSoundDownloads
<1> HIDE DEF M
<1>3. /\ c \in Nat /\ c > 0 /\ M \subseteq DOMAIN D
      /\ {D[i].artifact.segment.index : i \in M} = 1..c
  BY <1>1, <1>2, GroupIsNumbered DEF M
<1>4. ASSUME NEW n \in 1..c
      PROVE  \E i \in DOMAIN D : NumberedIn(D, group, n) = D[i].body
  <2> DEFINE Is(i) == D[i].artifact.segment.index = n
             chosen == CHOOSE i \in M : Is(i)
  <2>1. \E i \in M : Is(i)
    BY <1>3
  <2>2. chosen \in M
    BY <2>1
  <2>3. NumberedIn(D, group, n) = D[chosen].body
    BY DEF NumberedIn, M
  <2> HIDE DEF chosen
  <2> QED
    BY <1>3, <2>2, <2>3
<1> QED
  BY <1>3, <1>4 DEF M

LEMMA AssembledOf ==
    ASSUME NEW x, NEW D, NEW group
    PROVE  Assembled(x, D, group)
             = Joined([n \in 1..Cardinality(InGroup(D, group)) |->
                         Read(x, Blob(NumberedIn(D, group, n)), NumberedIn(D, group, n))])
BY DEF Assembled, NumberedIn

\* Sound downloads are assembled to what they are pieces of.
LEMMA UnitsUnchanged ==
    ASSUME NEW x, NEW D, AreSoundDownloads(D), AreComplete(D),
           BlobsAreSound(x, {D[i].body : i \in DOMAIN D})
    PROVE  Units(x, D) = Units({}, D)
<1> DEFINE plan == [i \in DOMAIN D |-> D[i].artifact]
<1>1. ASSUME NEW group \in Groups(plan)
      PROVE  Assembled(x, D, group) = Assembled({}, D, group)
  <2> DEFINE c == Cardinality(InGroup(D, group))
             N(n) == NumberedIn(D, group, n)
  <2>1. \A n \in 1..c : Read(x, Blob(N(n)), N(n)) = N(n)
    <3> TAKE n \in 1..c
    <3>1. PICK i \in DOMAIN D : N(n) = D[i].body
      BY NumberedIsDownloaded
    <3>2. Sound(x, Blob(D[i].body), D[i].body)
      BY DEF BlobsAreSound
    <3> QED
      BY <3>1, <3>2 DEF Sound
  <2> HIDE DEF c, N
  <2>2. [n \in 1..c |-> Read(x, Blob(N(n)), N(n))] = [n \in 1..c |-> Read({}, Blob(N(n)), N(n))]
    BY <2>1, ReadUnchanged
  <2> QED
    BY <2>2, AssembledOf DEF c, N
<1> DEFINE First(group) == (CHOOSE d \in {D[i] : i \in InGroup(D, group)} :
                               d.artifact.segment.index = 1).artifact
           single == {Unit(D[i].artifact, <<D[i].artifact>>, D[i].body) : i \in InGroup(D, << >>)}
<1>2. \A y : Units(y, D) = single \cup {Unit(First(group), group, Assembled(y, D, group)) : group \in Groups(plan)}
  BY DEF Units
<1> HIDE DEF plan, First, single
<1>3. {Unit(First(group), group, Assembled(x, D, group)) : group \in Groups(plan)}
        = {Unit(First(group), group, Assembled({}, D, group)) : group \in Groups(plan)}
  BY <1>1
<1> QED
  BY <1>2, <1>3

LEMMA NoiseIsTyped == IsPackageBody(Body("noise", "noise", << >>))
<1> DEFINE nil == << >>
           b == Body("noise", "noise", nil)
<1>1. IsSequence(nil)
  BY DEF IsSequence, Elements
<1> HIDE DEF nil
<1>2. b.fmt = "noise" /\ b.id = "noise" /\ b.items = nil /\ b.via = ""
      /\ b = [fmt |-> "noise", id |-> "noise", items |-> nil, via |-> ""]
  BY DEF Body
<1> HIDE DEF b
<1>3. IsBody(b)
  BY <1>1, <1>2 DEF IsBody, Other
<1>4. b.fmt \notin Archives
  BY <1>2 DEF Archives
<1>5. IsPackageBody(b)
  BY <1>3, <1>4 DEF IsPackageBody
<1> QED
  BY <1>5 DEF b, nil

\* The body of a unit, before any archive is looked at.
LEMMA UnitIsTyped ==
    ASSUME NEW D, AreSoundDownloads(D), AreComplete(D), NEW u \in Units({}, D)
    PROVE  IsPackageBody(u.body)
<1> DEFINE plan == [i \in DOMAIN D |-> D[i].artifact]
           First(group) == (CHOOSE d \in {D[i] : i \in InGroup(D, group)} :
                               d.artifact.segment.index = 1).artifact
           single == {Unit(D[i].artifact, <<D[i].artifact>>, D[i].body) : i \in InGroup(D, << >>)}
           joined == {Unit(First(group), group, Assembled({}, D, group)) : group \in Groups(plan)}
<1>1. Units({}, D) = single \cup joined
  BY DEF Units
<1>2. \A i \in DOMAIN D : IsFileBody(D[i].body)
  BY DEF AreSoundDownloads, IsSoundDownload
<1>3. CASE u \in single
  <2>1. PICK i \in InGroup(D, << >>) : u = Unit(D[i].artifact, <<D[i].artifact>>, D[i].body)
    BY <1>3
  <2>2. i \in DOMAIN D /\ u.body = D[i].body
    BY <2>1 DEF InGroup, Unit
  <2> QED
    BY <1>2, <2>2 DEF IsFileBody, IsBundleBody
<1>4. CASE u \in joined
  <2>1. PICK group \in Groups(plan) : u = Unit(First(group), group, Assembled({}, D, group))
    BY <1>4
  <2> DEFINE c == Cardinality(InGroup(D, group))
             N(n) == NumberedIn(D, group, n)
             pieces == [n \in 1..c |-> Read({}, Blob(N(n)), N(n))]
  <2>2. u.body = Joined(pieces)
    BY <2>1, AssembledOf DEF Unit
  <2>3. c \in Nat /\ c > 0 /\ \A n \in 1..c : \E i \in DOMAIN D : N(n) = D[i].body
    BY NumberedIsDownloaded
  <2>4. pieces[1] = N(1) /\ 1 \in 1..c
    BY <2>3, ReadUnchanged
  <2>5. DOMAIN pieces = 1..c
    OBVIOUS
  <2> HIDE DEF pieces, N, c
  <2>6. IsFileBody(pieces[1])
    BY <1>2, <2>3, <2>4
  <2> DEFINE first == pieces[1].items[1]
             AreApart == \A i \in DOMAIN pieces :
              /\ pieces[i].fmt = "piece" /\ pieces[i].id = first.whole.id
              /\ pieces[i].items[1].whole = first.whole
              /\ pieces[i].items[1].i = i /\ first.n = Len(pieces)
  <2>7. Joined(pieces) = IF AreApart THEN first.whole ELSE Body("noise", "noise", << >>)
    BY DEF Joined
  <2>8. AreApart => IsPackageBody(first.whole)
    <3> SUFFICES ASSUME AreApart PROVE IsPackageBody(first.whole)
      OBVIOUS
    <3>1. pieces[1].fmt = "piece"
      BY <2>4, <2>5
    <3> QED
      BY <2>6, <3>1 DEF IsFileBody, IsBundleBody
  <2> HIDE DEF AreApart
  <2> QED
    BY <2>2, <2>7, <2>8, NoiseIsTyped
<1> HIDE DEF single, joined
<1> QED
  BY <1>1, <1>3, <1>4

\* An archive that is acceptable as it is read is acceptable as it was stored.
LEMMA AcceptableUnchanged ==
    ASSUME NEW x, IsRot(x), NEW artifact, NEW b, IsPackageBody(b),
           IsAcceptable(artifact, Read(x, Blob(b), b))
    PROVE  IsAcceptable(artifact, b)
<1> DEFINE a == Read(x, Blob(b), b)
<1>1. a.fmt = b.fmt
  <2>1. CASE a = b
    BY <2>1
  <2>2. CASE \E e \in Alterations(b) : a = Altered(b, e)
    BY <2>2, AlteredFormat DEF IsPackageBody
  <2> HIDE DEF a
  <2> QED
    BY <2>1, <2>2, ReadOfBlob DEF a
<1>2. CASE IsSoundArchive(a)
  <2>1. a.fmt \in Archives /\ EntriesAreIntact(a)
    BY <1>2 DEF IsSoundArchive
  <2>2. a.items = b.items
    BY <2>1, IntactIsUnchanged
  <2> HIDE DEF a
  <2>3. IsSoundArchive(b)
    BY <1>1, <1>2, <2>2 DEF IsSoundArchive, EntriesAreIntact
  <2> QED
    BY <2>3 DEF IsAcceptable
<1>3. CASE ~IsSoundArchive(a)
  <2> HIDE DEF a
  <2> QED
    BY <1>1, <1>3 DEF IsAcceptable, a
<1> QED
  BY <1>2, <1>3

\* What verify accepts, it would accept if no file had changed, with the same units.
LEMMA VerifyUnchanged ==
    ASSUME NEW x, IsRot(x), NEW D, AreSoundDownloads(D), IsVerifiable(x, D)
    PROVE  Units(x, D) = Units({}, D) /\ IsVerifiable({}, D) /\ AreComplete(D)
<1>1. AreComplete(D) /\ BlobsAreSound(x, {D[i].body : i \in DOMAIN D})
  BY DEF IsVerifiable, AreComplete
<1>2. Units(x, D) = Units({}, D)
  BY <1>1, UnitsUnchanged
<1>3. ASSUME NEW u \in Units({}, D)
      PROVE  IsAcceptable(u.artifact, u.body)
  <2>1. IsPackageBody(u.body)
    BY <1>1, UnitIsTyped
  <2>2. IsAcceptable(u.artifact, Read(x, Blob(u.body), u.body))
    BY <1>2 DEF IsVerifiable
  <2> QED
    BY <2>1, <2>2, AcceptableUnchanged
<1>4. \A u \in Units({}, D) : IsAcceptable(u.artifact, Read({}, Blob(u.body), u.body))
  BY <1>3, ReadUnchanged
<1>5. BlobsAreSound({}, {D[i].body : i \in DOMAIN D})
  BY ReadUnchanged DEF BlobsAreSound, Sound
<1> QED
  BY <1>1, <1>2, <1>4, <1>5 DEF IsVerifiable, AreComplete

-----------------------------------------------------------------------------
(* The client tree.                                                        *)

LEMMA SameEntries ==
    ASSUME NEW a, NEW b, a.items = b.items, a.fmt = b.fmt
    PROVE  /\ ServiceOf(a) = ServiceOf(b) /\ Installed(a) = Installed(b)
           /\ IsExtractable(a) <=> IsExtractable(b)
           /\ AppliesToNothing(a) <=> AppliesToNothing(b)
           /\ OnlyDeletes(a) <=> OnlyDeletes(b)
<1>1. ServiceOf(a) = ServiceOf(b)
  BY DEF ServiceOf
<1>2. EntriesAreIntact(a) <=> EntriesAreIntact(b)
  BY DEF EntriesAreIntact
<1>3. IsExtractable(a) <=> IsExtractable(b)
  BY <1>2 DEF IsExtractable
<1>4. Installed(a) = Installed(b)
  BY <1>1 DEF Installed
<1>5. AppliesToNothing(a) <=> AppliesToNothing(b)
  BY <1>1 DEF AppliesToNothing
<1>6. OnlyDeletes(a) <=> OnlyDeletes(b)
  BY <1>1 DEF OnlyDeletes
<1> QED
  BY <1>1, <1>3, <1>4, <1>5, <1>6

\* A bundle that can be installed has its entries still.
LEMMA BundleUnchanged ==
    ASSUME NEW x, IsRot(x), NEW u, IsPackageBody(u.body), IsBundle(u, ExtractedFrom(x, u))
    PROVE  /\ IsBundle(u, u.body)
           /\ u.artifact.role # "client-file" => FilesOf(u, ExtractedFrom(x, u)) = FilesOf(u, u.body)
<1> DEFINE a == ExtractedFrom(x, u)
           b == u.body
<1>1. a = Read(x, Blob(b), b)
  BY DEF ExtractedFrom
<1> HIDE DEF a
<1>2. a.fmt \in Archives /\ EntriesAreIntact(a)
  BY DEF IsBundle, IsExtractable, a
<1>3. a.fmt = b.fmt /\ a.items = b.items
  BY <1>1, <1>2, IntactIsUnchanged
<1>4. IsBundle(u, a)
  BY DEF a
<1>5. IsBundle(u, b)
  <2> HIDE DEF b
  <2> QED
    BY <1>3, <1>4, SameEntries DEF IsBundle
<1>6. Installed(a) = Installed(b)
  BY <1>3, SameEntries
<1> QED
  BY <1>5, <1>6 DEF FilesOf, a

\* What assemble-client accepts is the tree of the unchanged files.
LEMMA AssembleUnchanged ==
    ASSUME NEW x, IsRot(x), NEW D, AreSoundDownloads(D), IsVerifiable({}, D),
           NEW U, U = Units({}, D), IsAssemblable(x, U)
    PROVE  TreeOf(x, U) = TreeOf({}, U) /\ IsAssemblable({}, U)
<1>1. AreComplete(D) /\ IsSequence(D) /\ \A i \in DOMAIN D : IsSoundDownload(D[i])
  BY DEF IsVerifiable, AreComplete, AreSoundDownloads
<1>2. ASSUME NEW u \in U
      PROVE  /\ IsPackageBody(u.body)
             /\ u.artifact.role \in {"client-file", "delivery-bundle"}
  <2>1. PICK i \in DOMAIN D : IsUnitOf(u, D[i])
    BY <1>1, UnitsOfDownloads
  <2>2. u.artifact.role \in {"client-file", "delivery-bundle"}
    BY <1>1, <2>1 DEF IsUnitOf, IsSoundDownload
  <2> QED
    BY <1>1, <2>2, UnitIsTyped
<1>3. ASSUME NEW u \in U
      PROVE  /\ FilesOf(u, ExtractedFrom(x, u)) = FilesOf(u, ExtractedFrom({}, u))
             /\ u.artifact.role = "delivery-bundle" => IsBundle(u, ExtractedFrom({}, u))
  <2>1. ExtractedFrom({}, u) = u.body
    BY ReadUnchanged DEF ExtractedFrom
  <2>2. CASE u.artifact.role = "client-file"
    BY <2>2 DEF FilesOf
  <2>3. CASE u.artifact.role = "delivery-bundle"
    <3>1. IsBundle(u, ExtractedFrom(x, u))
      BY <2>3 DEF IsAssemblable
    <3> QED
      BY <1>2, <2>1, <2>3, <3>1, BundleUnchanged
  <2> QED
    BY <1>2, <2>2, <2>3
<1>4. TreeOf(x, U) = TreeOf({}, U)
  BY <1>3 DEF TreeOf
<1>5. BlobsAreSound({}, {f.body : f \in TreeOf({}, U)})
  BY ReadUnchanged DEF BlobsAreSound, Sound
<1>6. TreeOf({}, U) # {} /\ ClaimsAreDisjoint(TreeOf({}, U))
  BY <1>4 DEF IsAssemblable
<1>7. \A u \in U : u.artifact.role = "delivery-bundle" => IsBundle(u, ExtractedFrom({}, u))
  BY <1>3
<1> QED
  BY <1>4, <1>5, <1>6, <1>7 DEF IsAssemblable

-----------------------------------------------------------------------------
(* The index and the materialised tree.                                    *)

\* What index-vfs accepts is the index of the unchanged files.
LEMMA IndexUnchanged ==
    ASSUME NEW x, NEW T, NEW client, IsIndexable(x, T, client)
    PROVE  /\ OrderOf(x, T, client) = OrderOf({}, T, client)
           /\ \A order : Candidates(x, T, order) = Candidates({}, T, order)
           /\ Index(x, T, client) = Index({}, T, client)
           /\ IsIndexable({}, T, client)
<1> DEFINE Is(g) == g.lang = NoLang /\ g.path = PathsXml
           p == PathsFile(T)
<1>1. p \in T /\ Is(p)
  <2>1. PathsFile(T) = CHOOSE g \in T : Is(g)
    BY DEF PathsFile
  <2>2. \E g \in T : Is(g)
    BY DEF IsIndexable
  <2> HIDE DEF Is
  <2> QED
    BY <2>1, <2>2
<1>2. \A f \in T : IsPackage(f) \/ f.path = PathsXml => Opened(x, f) = f.body
  <2> TAKE f \in T
  <2> HAVE IsPackage(f) \/ f.path = PathsXml
  <2>1. Sound(x, Blob(f.body), f.body)
    BY DEF IsIndexable, BlobsAreSound
  <2> QED
    BY <2>1 DEF Sound, Opened
<1>3. \A f : Opened({}, f) = f.body
  BY ReadUnchanged DEF Opened
<1>4. OrderOf(x, T, client) = OrderOf({}, T, client)
  BY <1>1, <1>2, <1>3 DEF OrderOf
<1>5. Opened(x, p) = Opened({}, p)
  BY <1>1, <1>2, <1>3
<1>6. \A order : Candidates(x, T, order) = Candidates({}, T, order)
  <2> TAKE order
  <2>1. \A f \in {g \in T : IsPackage(g)} :
           PackageCandidates(x, f, Position(order, f.path)) = PackageCandidates({}, f, Position(order, f.path))
    BY <1>2, <1>3 DEF PackageCandidates
  <2> DEFINE P(y) == {PackageCandidates(y, f, Position(order, f.path)) : f \in {g \in T : IsPackage(g)}}
             loose == {LooseCandidate(f, Len(order) + 1) : f \in {g \in T : IsLoose(g)}}
  <2>2. P(x) = P({})
    BY <2>1
  <2>3. \A y : Candidates(y, T, order) = (UNION P(y)) \cup loose
    BY DEF Candidates
  <2> HIDE DEF P, loose
  <2> QED
    BY <2>2, <2>3
<1> DEFINE order == OrderOf({}, T, client)
           C == Candidates({}, T, order)
<1>7. Candidates(x, T, OrderOf(x, T, client)) = C
  BY <1>4, <1>6
<1>8. Index(x, T, client) = Index({}, T, client)
  BY <1>7 DEF Index
<1>9. \A key \in Keys(C) : \A c, d \in Best(C, key) : c = d
  <2> HIDE DEF C
  <2> QED
    BY <1>7 DEF IsIndexable
<1>10. \A f \in T : IsPackage(f) =>
          /\ \E i \in DOMAIN order : order[i] = f.path
          /\ Opened({}, f).fmt = "zip"
          /\ \A i \in DOMAIN Opened({}, f).items :
                /\ IsSafe(Opened({}, f).items[i].path)
                /\ Opened({}, f).items[i].body.fmt # "link"
  <2> TAKE f \in T
  <2> HAVE IsPackage(f)
  <2>1. Opened(x, f) = Opened({}, f)
    BY <1>2, <1>3
  <2>2. OrderOf(x, T, client) = order
    BY <1>4
  <2> HIDE DEF order
  <2> QED
    BY <2>1, <2>2 DEF IsIndexable
<1>11. IsOrder(Opened({}, p), client)
  BY <1>5 DEF IsIndexable
<1>12. BlobsAreSound({}, {f.body : f \in {g \in T : IsPackage(g) \/ g.path = PathsXml}})
  BY ReadUnchanged DEF BlobsAreSound, Sound
<1>13. \E f \in T : f.lang = NoLang /\ f.path = PathsXml
  BY <1>1
<1>14. IsIndexable({}, T, client)
  <2> HIDE DEF order, C
  <2> QED
    BY <1>9, <1>10, <1>11, <1>12, <1>13 DEF IsIndexable, order, C
<1> QED
  BY <1>4, <1>6, <1>8, <1>14

\* The CRCs of the index see to it that an entry is materialised as it was stored.
LEMMA MaterializeUnchanged ==
    ASSUME NEW x, IsRot(x), NEW T, NEW client, NEW order, IsIndexed(T, client, order),
           NEW I, I = Index({}, T, client), IsMaterializable(x, I)
    PROVE  Materialized(x, I) = Materialized({}, I)
<1>1. ASSUME NEW w \in I, w.entry # 0
      PROVE  EntryOf(x, w).body = EntryOf({}, w).body
  <2>1. w \in Candidates({}, T, order)
    BY WinnerOf
  <2>2. PICK f \in T : \/ IsLooseCandidate(w, f, order)
                       \/ \E i \in DOMAIN f.body.items : IsPackageCandidate(w, f, order, i)
    BY <2>1, CandidateOf
  <2>3. PICK i \in DOMAIN f.body.items : IsPackageCandidate(w, f, order, i)
    BY <1>1, <2>2 DEF IsLooseCandidate
  <2> DEFINE b == f.body
             a == Read(x, Blob(b), b)
  <2>4. /\ w.archive = b /\ w.entry = i /\ i # 0 /\ b.fmt = "zip" /\ w.crc = b.items[i].crc
        /\ IsPackage(f)
    BY <2>3 DEF IsPackageCandidate, IsOfFile
  <2>5. IsPackageBody(b) /\ b.items[i].crc # Other
    BY <2>4, ItemsOfPackage DEF IsIndexed, IsTypedTree
  <2>6. b.fmt \in Archives
    BY <2>4 DEF Archives
  <2>7. EntryOf(x, w) = a.items[i] /\ EntryOf({}, w) = b.items[i]
    BY <2>4, ReadUnchanged DEF EntryOf
  <2>8. a.items[i].crc = w.crc /\ a.items[i].body.id = w.crc
    BY <1>1, <2>7 DEF IsMaterializable, EntryIsAsIndexed
  <2>9. i \in 1..Len(b.items)
    BY <2>5, RangeOf DEF IsPackageBody, IsBody
  <2> HIDE DEF a, b
  <2>10. CASE a = b
    BY <2>7, <2>10
  <2>11. CASE \E e \in Alterations(b) : a = Altered(b, e)
    <3>1. PICK e \in Alterations(b) : a = Altered(b, e)
      BY <2>11
    <3>2. e # 0
      <4>1. CASE e = 0
        <5>1. a.items[i].crc = Other
          BY <2>4, <2>5, <2>6, <3>1, <4>1, AlteredDirectory DEF b
        <5> QED
          BY <2>4, <2>5, <2>8, <5>1
      <4> QED
        BY <4>1
    <3>3. e \in 1..Len(b.items)
      <4>1. e \in 0..Len(b.items)
        BY <3>2, AlterationsOf
      <4>2. Len(b.items) \in Nat
        BY <2>5, RangeOf DEF IsPackageBody, IsBody
      <4> QED
        BY <3>2, <4>1, <4>2
    <3>4. e # i
      <4>1. CASE e = i
        <5>1. a.items[i].body.id = Other
          BY <2>5, <2>6, <3>1, <3>3, <4>1, AlteredEntry
        <5> QED
          BY <2>4, <2>5, <2>8, <5>1
      <4> QED
        BY <4>1
    <3>5. a.items[i] = b.items[i]
      BY <2>5, <2>6, <3>1, <3>3, <3>4, AlteredEntry DEF b
    <3> QED
      BY <2>7, <3>5
  <2> QED
    BY <2>10, <2>11, ReadOfBlob DEF a
<1> DEFINE Made(y, w) == MaterializedFile(w, IF w.entry = 0 THEN w.archive ELSE EntryOf(y, w).body)
<1>2. \A w \in I : Made(x, w) = Made({}, w)
  BY <1>1
<1>3. Materialized(x, I) = {Made(x, w) : w \in I}
  BY DEF Materialized
<1>4. Materialized({}, I) = {Made({}, w) : w \in I}
  BY DEF Materialized
<1> HIDE DEF Made
<1>5. {Made(x, w) : w \in I} = {Made({}, w) : w \in I}
  BY <1>2
<1> QED
  BY <1>3, <1>4, <1>5

\* A materialised loose file is the blob it is linked to.
LEMMA MaterializedIsTyped ==
    ASSUME NEW T, NEW client, NEW order, IsIndexed(T, client, order),
           NEW m \in Materialized({}, Index({}, T, client))
    PROVE  IsBody(m.body) /\ (m.source.entry = 0 => m.body = m.source.archive)
<1> DEFINE w == m.source
<1>1. w \in Index({}, T, client) /\ IsMade(m, w)
  BY MadeOf
<1> HIDE DEF w
<1>2. w \in Candidates({}, T, order)
  BY <1>1, WinnerOf
<1>3. PICK f \in T : \/ IsLooseCandidate(w, f, order)
                     \/ \E i \in DOMAIN f.body.items : IsPackageCandidate(w, f, order, i)
  BY <1>2, CandidateOf
<1>4. m.body = BodyOf(w)
  BY <1>1 DEF IsMade
<1>5. CASE IsLooseCandidate(w, f, order)
  <2>1. w.entry = 0 /\ w.archive = f.body
    BY <1>5 DEF IsLooseCandidate, IsOfFile
  <2>2. IsBody(f.body)
    BY DEF IsIndexed, IsTypedTree, IsPackageBody
  <2> QED
    BY <1>4, <2>1, <2>2 DEF BodyOf, w
<1>6. CASE \E i \in DOMAIN f.body.items : IsPackageCandidate(w, f, order, i)
  <2>1. PICK i \in DOMAIN f.body.items : IsPackageCandidate(w, f, order, i)
    BY <1>6
  <2>2. w.entry # 0 /\ BodyOf(w) = f.body.items[i].body /\ IsPackage(f)
    BY <2>1 DEF IsPackageCandidate, IsOfFile, BodyOf
  <2>3. IsBody(f.body.items[i].body)
    BY <2>2, ItemsOfPackage
  <2> QED
    BY <1>4, <2>2, <2>3 DEF w
<1> QED
  BY <1>3, <1>5, <1>6

-----------------------------------------------------------------------------
(* The readable files.                                                     *)

LEMMA FormatInPlace ==
    ASSUME NEW x, NEW m, IsBody(m.body)
    PROVE  InPlace(x, m).fmt = m.body.fmt
BY AlteredFormat DEF InPlace, Read

\* What plan-readable looks at is not altered: the format of a file.
LEMMA PlanReadableUnchanged ==
    ASSUME NEW x, NEW mat, \A m \in mat : IsBody(m.body)
    PROVE  /\ ReadablePlan(x, mat) = ReadablePlan({}, mat)
           /\ IsReadable(x, mat) => IsReadable({}, mat)
<1>1. \A m \in mat : InPlace(x, m).fmt = InPlace({}, m).fmt
  <2> TAKE m \in mat
  <2>1. InPlace(x, m).fmt = m.body.fmt
    BY FormatInPlace
  <2>2. InPlace({}, m).fmt = m.body.fmt
    BY FormatInPlace
  <2> QED
    BY <2>1, <2>2
<1>2. \A m \in mat : Kind(m.path, InPlace(x, m)) = Kind(m.path, InPlace({}, m))
  BY <1>1 DEF Kind
<1>3. \A m \in mat : PlanEntry(x, m) = PlanEntry({}, m)
  BY <1>2 DEF PlanEntry
<1>4. ReadablePlan(x, mat) = ReadablePlan({}, mat)
  BY <1>3 DEF ReadablePlan
<1>5. \A m \in mat : IsKnownXml(m.path, InPlace(x, m)) => IsKnownXml(m.path, InPlace({}, m))
  BY <1>1 DEF IsKnownXml
<1> QED
  BY <1>4, <1>5 DEF IsReadable

LEMMA ConvertedUnchanged ==
    ASSUME NEW x, NEW e, NEW kind, IsConvertible(x, e, kind)
    PROVE  InPlace(x, e.source) = InPlace({}, e.source)
<1>1. Sound(x, FileOf(e.source), e.source.body)
  BY DEF IsConvertible, SourceIsAsMaterialized
<1>2. InPlace(x, e.source) = e.source.body
  BY <1>1 DEF Sound, InPlace
<1> QED
  BY <1>2, ReadUnchanged DEF InPlace

\* A converter gets the bytes that have been materialised.
LEMMA TransformUnchanged ==
    ASSUME NEW x, NEW plan, AreTransformable(x, plan)
    PROVE  Transformed(x, plan) = Transformed({}, plan)
<1>1. \A e \in ConversionsOf(plan) : InPlace(x, e.source) = InPlace({}, e.source)
  BY ConvertedUnchanged DEF AreTransformable
<1> QED
  BY <1>1 DEF Transformed

\* So does the decompiler of the libraries.
LEMMA LibrariesUnchanged ==
    ASSUME NEW x, NEW plan, AreDecompilable(x, plan)
    PROVE  LibrarySources(x, plan) = LibrarySources({}, plan)
<1>1. \A e \in Libraries(plan) : InPlace(x, e.source) = InPlace({}, e.source)
  BY ConvertedUnchanged DEF AreDecompilable
<1> QED
  BY <1>1 DEF LibrarySources

-----------------------------------------------------------------------------
(* What the resolver pins.                                                 *)

HistoryInv == history \in Histories /\ now \in DOMAIN history.offers

IsDocument(d) == IsSequence(d.transitions) /\ \A t \in Elements(d.transitions) : IsSequence(t.files)

IsAccepted(meta) ==
    /\ IsSequence(meta.languages) /\ meta.languages # << >>
    /\ IsServed(meta) /\ IsSequence(meta.clients[Request.client])

AskInv ==
    /\ {"status", "attempt", "at", "visited", "meta", "raw"} \subseteq DOMAIN ask
    /\ IsSequence(ask.raw) /\ \A d \in Elements(ask.raw) : IsDocument(d)
    /\ ask.meta # NoMeta => IsAccepted(ask.meta)

PinInv == stage # 1 => IsPinned(pinned.parts)

\* The elements of two sequences, one after the other.
LEMMA JoinedSequences ==
    ASSUME NEW s, IsSequence(s), NEW t, IsSequence(t)
    PROVE  IsSequence(s \o t) /\ Elements(s \o t) = Elements(s) \cup Elements(t)
<1> DEFINE S == Elements(s) \cup Elements(t)
<1>1. s \in Seq(S) /\ t \in Seq(S)
  BY DEF IsSequence, Elements
<1>2. /\ s \o t \in Seq(S) /\ Len(s \o t) = Len(s) + Len(t)
      /\ \A i \in 1..(Len(s) + Len(t)) :
            (s \o t)[i] = IF i <= Len(s) THEN s[i] ELSE t[i - Len(s)]
  BY <1>1
<1>3. Len(s) \in Nat /\ Len(t) \in Nat /\ DOMAIN s = 1..Len(s) /\ DOMAIN t = 1..Len(t)
      /\ DOMAIN (s \o t) = 1..(Len(s) + Len(t))
  BY <1>1, <1>2
<1>4. Elements(s \o t) = Elements(s) \cup Elements(t)
  <2>1. \A x \in Elements(s \o t) : x \in Elements(s) \cup Elements(t)
    <3> TAKE x \in Elements(s \o t)
    <3>1. PICK i \in 1..(Len(s) + Len(t)) : x = (s \o t)[i]
      BY <1>3 DEF Elements
    <3>2. CASE i <= Len(s)
      <4>1. i \in DOMAIN s /\ x = s[i]
        BY <1>2, <1>3, <3>1, <3>2
      <4> QED
        BY <4>1 DEF Elements
    <3>3. CASE i > Len(s)
      <4>1. i - Len(s) \in DOMAIN t /\ x = t[i - Len(s)]
        BY <1>2, <1>3, <3>1, <3>3
      <4> QED
        BY <4>1 DEF Elements
    <3> QED
      BY <1>3, <3>2, <3>3
  <2>2. \A x \in Elements(s) : x \in Elements(s \o t)
    <3> TAKE x \in Elements(s)
    <3>1. PICK i \in DOMAIN s : x = s[i]
      BY DEF Elements
    <3>2. i \in DOMAIN (s \o t) /\ x = (s \o t)[i]
      BY <1>2, <1>3, <3>1
    <3> QED
      BY <3>2 DEF Elements
  <2>3. \A x \in Elements(t) : x \in Elements(s \o t)
    <3> TAKE x \in Elements(t)
    <3>1. PICK i \in DOMAIN t : x = t[i]
      BY DEF Elements
    <3>2. i + Len(s) \in DOMAIN (s \o t) /\ x = (s \o t)[i + Len(s)]
      BY <1>2, <1>3, <3>1
    <3> QED
      BY <3>2 DEF Elements
  <2> QED
    BY <2>1, <2>2, <2>3
<1>5. s \o t \in Seq(Elements(s \o t))
  BY <1>2, <1>4
<1> QED
  BY <1>4, <1>5 DEF IsSequence

LEMMA DocumentsAreRead ==
    ASSUME AskInv
    PROVE  IsSequence(Documents) /\ \A d \in Elements(Documents) : IsDocument(d)
<1> DEFINE A == {d \in Elements(ask.raw) : d.attempt = ask.attempt}
<1>1. Documents = Where(ask.raw, A)
  BY DEF Documents
<1> HIDE DEF A
<1>2. IsSequence(ask.raw)
  BY DEF AskInv
<1> QED
  BY <1>1, <1>2, WhereElements DEF AskInv

\* There is a document when none is missing: some language is asked for.
LEMMA SomeDocument ==
    ASSUME HistoryInv, AskInv, ask.meta # NoMeta, Missing = {}
    PROVE  1 \in DOMAIN Documents
<1>1. IsSequence(Request.languages)
  BY HistoriesAssumption DEF HistoryInv, IsHistory, Request
<1>2. IsSequence(LanguagesFor(ask.meta)) /\ LanguagesFor(ask.meta) # << >>
  BY <1>1 DEF LanguagesFor, AskInv, IsAccepted, All
<1>3. 1 \in DOMAIN LanguagesFor(ask.meta)
  BY <1>2 DEF IsSequence
<1>4. ~(1 > Len(Documents))
  BY <1>3 DEF Missing
<1> QED
  BY <1>4, DocumentsAreRead DEF IsSequence

\* A version vector is only made of documents that agree, each with its parts in order.
LEMMA VerdictsAgree ==
    ASSUME HistoryInv, AskInv, ask.meta # NoMeta, Verdict = "ok", NEW d \in DOMAIN Documents
    PROVE  /\ Documents[d].name = Documents[1].name
           /\ \A p \in DOMAIN Selected : PartVerdict(Documents[d], Selected[p].part) = "ok"
<1> DEFINE docs == Documents
           V(i) == DocumentVerdicts(docs[i])
           P(i, q) == PartVerdict(docs[i], Selected[q].part)
           a(i) == IF docs[i].name = docs[1].name THEN "ok" ELSE "changed"
           seqs == [i \in DOMAIN docs |-> V(i)]
           all == Concatenated(seqs)
           wrong == {i \in DOMAIN all : all[i] # "ok"}
<1>1. IsSequence(docs)
  BY DocumentsAreRead
<1>2. IsSequence(Selected)
  BY DEF AskInv, IsAccepted, Selected
<1>3. \A i \in DOMAIN docs : /\ IsSequence(V(i)) /\ a(i) \in Elements(V(i))
                             /\ \A q \in DOMAIN Selected : P(i, q) \in Elements(V(i))
  <2> TAKE i \in DOMAIN docs
  <2> DEFINE parts == [q \in DOMAIN Selected |-> P(i, q)]
             b == IF {t.part : t \in Elements(docs[i].transitions)} = {q.part : q \in Elements(Selected)}
                  THEN "ok" ELSE "incompatible"
             two == <<a(i), b>>
  <2>1. V(i) = two \o parts
    BY DEF DocumentVerdicts
  <2> HIDE DEF P
  <2>2. IsSequence(parts)
    <3>1. DOMAIN parts = DOMAIN Selected /\ parts = [q \in DOMAIN parts |-> parts[q]]
      OBVIOUS
    <3> HIDE DEF parts
    <3> QED
      BY <1>2, <3>1, MappedSequence
  <2> HIDE DEF a, b
  <2>3. IsSequence(two) /\ a(i) \in Elements(two)
    BY DEF IsSequence, Elements
  <2>4. \A q \in DOMAIN Selected : P(i, q) \in Elements(parts)
    BY DEF Elements
  <2> HIDE DEF parts, two, V
  <2>5. IsSequence(two \o parts) /\ Elements(two \o parts) = Elements(two) \cup Elements(parts)
    BY <2>2, <2>3, JoinedSequences
  <2> QED
    BY <2>1, <2>3, <2>4, <2>5
<1>4. Verdict = IF wrong = {} THEN "ok" ELSE all[Min(wrong)]
  BY DEF Verdict
<1> HIDE DEF V, P, a, docs
<1>5. /\ DOMAIN seqs = DOMAIN docs /\ seqs = [i \in DOMAIN seqs |-> seqs[i]]
      /\ \A i \in DOMAIN seqs : seqs[i] = V(i)
  OBVIOUS
<1> HIDE DEF seqs
<1>6. IsSequence(seqs) /\ \A i \in DOMAIN seqs : IsSequence(seqs[i])
  BY <1>1, <1>3, <1>5, MappedSequence
<1>7. IsSequence(all) /\ Elements(all) = UNION {Elements(seqs[i]) : i \in DOMAIN seqs}
  BY <1>6, ConcatenatedElements
<1> HIDE DEF all
<1>8. wrong = {}
  <2>1. wrong \subseteq Nat
    BY <1>7 DEF IsSequence
  <2>2. CASE wrong # {}
    <3> HIDE DEF wrong
    <3>1. Min(wrong) \in wrong
      BY <2>1, <2>2, LeastOf
    <3>2. all[Min(wrong)] # "ok"
      BY <3>1 DEF wrong
    <3> QED
      BY <1>4, <2>2, <3>2
  <2> QED
    BY <2>2
<1>9. \A v \in Elements(all) : v = "ok"
  BY <1>8 DEF Elements
<1>10. d \in DOMAIN docs
  BY DEF docs
<1>11. a(d) \in Elements(all) /\ \A p \in DOMAIN Selected : P(d, p) \in Elements(all)
  BY <1>3, <1>5, <1>7, <1>10
<1>12. a(d) = "ok" /\ \A p \in DOMAIN Selected : P(d, p) = "ok"
  BY <1>9, <1>11
<1> QED
  BY <1>12 DEF a, P, docs

\* Each part of each document is connected then.
LEMMA VerdictsAreOk ==
    ASSUME HistoryInv, AskInv, ask.meta # NoMeta, Verdict = "ok",
           NEW d \in DOMAIN Documents, NEW p \in DOMAIN Selected
    PROVE  IsConnected(TransitionsOf(Documents[d].transitions, Selected[p].part))
BY VerdictsAgree DEF PartVerdict

LEMMA PinnedPartIs ==
    ASSUME NEW document, IsDocument(document), NEW part, NEW language, NEW seeds,
           IsConnected(TransitionsOf(document.transitions, part)),
           NEW p, p = PinnedPart(document, part, language, seeds)
    PROVE  /\ IsSequence(p.transitions) /\ p.transitions # << >>
           /\ \A t \in Elements(p.transitions) : IsSequence(t.files)
<1> DEFINE ts == TransitionsOf(document.transitions, part)
           A == {t \in Elements(document.transitions) : t.part = part}
<1>1. p.transitions = Connected(ts)
  BY DEF PinnedPart
<1>2. ts = Where(document.transitions, A)
  BY DEF TransitionsOf
<1> HIDE DEF A
<1>3. IsSequence(ts) /\ Elements(ts) \subseteq Elements(document.transitions)
  BY <1>2, WhereElements DEF IsDocument
<1>4. IsConnected(ts)
  OBVIOUS
<1> HIDE DEF ts
<1>5. IsSequence(Connected(ts)) /\ Connected(ts) # << >> /\ Elements(Connected(ts)) \subseteq Elements(ts)
  BY <1>3, <1>4, ConnectedIsSequence
<1> QED
  BY <1>1, <1>3, <1>5 DEF IsDocument

\* A pinned part has all transitions that its document has for it.
LEMMA PinnedPartHasAll ==
    ASSUME NEW document, IsDocument(document), NEW part, NEW language, NEW seeds,
           IsConnected(TransitionsOf(document.transitions, part)),
           NEW p, p = PinnedPart(document, part, language, seeds)
    PROVE  /\ p.part = part /\ p.lang = language
           /\ Elements(p.transitions) = {t \in Elements(document.transitions) : t.part = part}
<1> DEFINE ts == TransitionsOf(document.transitions, part)
           A == {t \in Elements(document.transitions) : t.part = part}
<1>1. p.transitions = Connected(ts) /\ p.part = part /\ p.lang = language
  BY DEF PinnedPart
<1>2. ts = Where(document.transitions, A)
  BY DEF TransitionsOf
<1> HIDE DEF A
<1>3. IsSequence(ts) /\ Elements(ts) = {t \in Elements(document.transitions) : t \in A}
  BY <1>2, WhereElements DEF IsDocument
<1>4. IsConnected(ts)
  OBVIOUS
<1> HIDE DEF ts
<1>5. Elements(Connected(ts)) = Elements(ts)
  BY <1>3, <1>4, ConnectedHasAll
<1> QED
  BY <1>1, <1>3, <1>5 DEF A

\* A version vector has a nonempty chain for each of its parts.
LEMMA VectorIsPinned ==
    ASSUME HistoryInv, AskInv, ask.meta # NoMeta, Missing = {}, Verdict = "ok"
    PROVE  IsPinned(VersionVector)
<1> DEFINE docs == Documents
           names == {p.part : p \in Elements(Selected)}
           three == <<"client", "sdcontent", "hdcontent">>
           base == Where(three, names)
           B(i) == PinnedPart(docs[1], base[i], NoLang, SeedsOf(docs[1].lang))
           L(i) == PinnedPart(docs[i], "locale", docs[i].lang, SeedsOf(docs[i].lang))
           bases == [i \in DOMAIN base |-> B(i)]
           locales == [i \in DOMAIN docs |-> L(i)]
           IsPart(p) == /\ IsSequence(p.transitions) /\ p.transitions # << >>
                        /\ \A t \in Elements(p.transitions) : IsSequence(t.files)
<1>1. VersionVector = bases \o locales
  BY DEF VersionVector
<1>2. IsSequence(three)
  BY DEF IsSequence, Elements
<1>3. IsSequence(docs) /\ \A d \in DOMAIN docs : IsDocument(docs[d])
  BY DocumentsAreRead DEF Elements
<1>4. 1 \in DOMAIN docs
  BY SomeDocument
<1>5. \A d \in DOMAIN docs, name \in names :
         IsConnected(TransitionsOf(docs[d].transitions, name))
  <2> TAKE d \in DOMAIN docs, name \in names
  <2>1. PICK p \in DOMAIN Selected : name = Selected[p].part
    BY DEF Elements
  <2> QED
    BY <2>1, VerdictsAreOk
<1>6. "locale" \in names
  <2>1. RequiredParts \subseteq names
    BY DEF AskInv, IsAccepted, IsServed, Selected
  <2> QED
    BY <2>1 DEF RequiredParts
<1> HIDE DEF docs, names, three
<1>7. IsSequence(base) /\ Elements(base) \subseteq names
  BY <1>2, WhereElements
<1>8. \A i \in DOMAIN base : base[i] \in names
  BY <1>7 DEF Elements
<1> HIDE DEF base
<1>9. \A i \in DOMAIN base : IsPart(B(i))
  <2> TAKE i \in DOMAIN base
  <2>1. IsDocument(docs[1]) /\ IsConnected(TransitionsOf(docs[1].transitions, base[i]))
    BY <1>3, <1>4, <1>5, <1>8
  <2> QED
    BY <2>1, PinnedPartIs
<1>10. \A i \in DOMAIN docs : IsPart(L(i))
  <2> TAKE i \in DOMAIN docs
  <2>1. IsDocument(docs[i]) /\ IsConnected(TransitionsOf(docs[i].transitions, "locale"))
    BY <1>3, <1>5, <1>6
  <2> QED
    BY <2>1, PinnedPartIs
<1> HIDE DEF B, L, IsPart
<1>11. IsSequence(bases) /\ \A p \in Elements(bases) : IsPart(p)
  <2>1. DOMAIN bases = DOMAIN base /\ bases = [i \in DOMAIN bases |-> bases[i]]
    OBVIOUS
  <2>2. \A p \in Elements(bases) : IsPart(p)
    BY <1>9 DEF Elements
  <2> HIDE DEF bases
  <2> QED
    BY <1>7, <2>1, <2>2, MappedSequence
<1>12. IsSequence(locales) /\ \A p \in Elements(locales) : IsPart(p)
  <2>1. DOMAIN locales = DOMAIN docs /\ locales = [i \in DOMAIN locales |-> locales[i]]
    OBVIOUS
  <2>2. \A p \in Elements(locales) : IsPart(p)
    BY <1>10 DEF Elements
  <2> HIDE DEF locales
  <2> QED
    BY <1>3, <2>1, <2>2, MappedSequence
<1> HIDE DEF bases, locales
<1>13. IsSequence(bases \o locales) /\ \A p \in Elements(bases \o locales) : IsPart(p)
  BY <1>11, <1>12, JoinedSequences
<1> QED
  BY <1>1, <1>13 DEF IsPinned, IsPart

-----------------------------------------------------------------------------
(* The invariant of the resolver.                                          *)

StageInv == stage \in 1..15 /\ DOMAIN out = DOMAIN Nothing

ResolveInv == HistoryInv /\ AskInv /\ PinInv

\* A stage has one place in the order.
LEMMA StagesAre ==
    ASSUME NEW n \in 1..15
    PROVE  /\ (Stages[n] = "resolve" => n = 1)
           /\ (Stages[n] = "plan-acquisition" => n = 2)
           /\ (Stages[n] = "download" => n = 3)
           /\ (Stages[n] = "verify" => n = 4)
           /\ (Stages[n] = "assemble-client" => n = 5)
           /\ (Stages[n] = "index-vfs" => n = 6)
           /\ (Stages[n] = "materialize-vfs" => n = 7)
           /\ (Stages[n] = "plan-readable" => n = 8)
           /\ (Stages[n] = "transform-readable" => n = 9)
           /\ (Stages[n] = "decompile-actionscript" => n = 10)
           /\ (Stages[n] = "assemble-readable" => n = 11)
           /\ (Stages[n] = "generate-engine-stubs" => n = 12)
           /\ (Stages[n] = "finalize-readable" => n = 13)
           /\ (Stages[n] = "snapshot" => n = 14)
           /\ (Stages[n] = "sealed" => n = 15)
BY DEF Stages

\* What the servers have is an offer of the history.
LEMMA ServerIsOffer ==
    ASSUME HistoryInv
    PROVE  IsHistory(history) /\ IsOffer(Server)
<1>1. IsHistory(history)
  BY HistoriesAssumption DEF HistoryInv
<1>2. Server \in Elements(history.offers)
  BY DEF HistoryInv, Server, Elements
<1> QED
  BY <1>1, <1>2 DEF IsHistory

AskFields == {"status", "attempt", "at", "visited", "meta", "raw"}

LEMMA StartAsks ==
    ASSUME NEW attempt, NEW at, NEW raw, NEW s, s = Asking(attempt, at, raw)
    PROVE  /\ AskFields \subseteq DOMAIN s
           /\ s.meta = NoMeta /\ s.raw = raw /\ s.status = "asking"
BY DEF Asking, AskFields

LEMMA EndedIs ==
    ASSUME NEW status, NEW s, s = Ended(status)
    PROVE  /\ AskFields \subseteq DOMAIN s
           /\ s.meta = NoMeta /\ s.raw = << >> /\ s.status = status
<1>1. /\ AskFields \subseteq DOMAIN Start
      /\ Start.meta = NoMeta /\ Start.raw = << >> /\ Start.status = "asking"
  BY StartAsks DEF Start
<1>2. s = [Start EXCEPT !.status = status]
  BY DEF Ended
<1> HIDE DEF Start
<1> QED
  BY <1>1, <1>2 DEF AskFields

LEMMA NoDocuments == IsSequence(<< >>) /\ Elements(<< >>) = {}
BY DEF IsSequence, Elements

\* The elements of a sequence with one more.
LEMMA AppendedSequence ==
    ASSUME NEW s, IsSequence(s), NEW x
    PROVE  IsSequence(Append(s, x)) /\ Elements(Append(s, x)) = Elements(s) \cup {x}
<1>1. s \in Seq(Elements(s) \cup {x})
  BY DEF IsSequence
<1>2. Append(s, x) \in Seq(Elements(s) \cup {x})
  BY <1>1
<1>3. Elements(Append(s, x)) = Elements(s) \cup {x}
  <2>1. x \in Elements(s) \cup {x}
    OBVIOUS
  <2>2. Len(s) \in Nat /\ DOMAIN s = 1..Len(s)
    BY <1>1
  <2>3. /\ DOMAIN Append(s, x) = 1..(Len(s) + 1)
        /\ \A i \in 1..Len(s) : Append(s, x)[i] = s[i]
        /\ Append(s, x)[Len(s) + 1] = x
    BY <1>1, <2>2
  <2>4. \A y \in Elements(Append(s, x)) : y \in Elements(s) \cup {x}
    BY <2>2, <2>3 DEF Elements
  <2>5. \A y \in Elements(s) : y \in Elements(Append(s, x))
    <3> TAKE y \in Elements(s)
    <3>1. PICK i \in 1..Len(s) : y = s[i]
      BY <2>2 DEF Elements
    <3>2. i \in DOMAIN Append(s, x) /\ y = Append(s, x)[i]
      BY <2>2, <2>3, <3>1
    <3> QED
      BY <3>2 DEF Elements
  <2>6. x \in Elements(Append(s, x))
    <3>1. Len(s) + 1 \in DOMAIN Append(s, x)
      BY <2>2, <2>3
    <3> QED
      BY <2>3, <3>1 DEF Elements
  <2> QED
    BY <2>4, <2>5, <2>6
<1> QED
  BY <1>2, <1>3 DEF IsSequence

\* What is left of a sequence with one more element.
LEMMA WhereAppends ==
    ASSUME NEW s, IsSequence(s), NEW x, NEW A, NEW B,
           \A y \in Elements(s) : y \in A <=> y \in B
    PROVE  Where(Append(s, x), B) = IF x \in B THEN Append(Where(s, A), x) ELSE Where(s, A)
<1> DEFINE k == Len(s)
           t == Append(s, x)
<1>1. k \in Nat /\ s \in Seq(Elements(s)) /\ \A i \in 1..k : s[i] \in Elements(s)
  BY RangeOf
<1>2. IsSequence(t)
  BY AppendedSequence
<1>3. Len(t) = k + 1 /\ t[k + 1] = x /\ \A i \in 1..k : t[i] = s[i]
  <2>1. s \in Seq(Elements(s) \cup {x}) /\ x \in Elements(s) \cup {x}
    BY <1>1
  <2> QED
    BY <1>1, <2>1
<1>4. PICK f : IsFilter(f, s, A)
  BY WhereDef
<1> HIDE DEF t
<1>5. PICK g : IsFilter(g, t, B)
  BY <1>2, WhereDef
<1>6. /\ f[0] = << >> /\ Where(s, A) = f[k]
      /\ \A n \in 1..k : f[n] = IF s[n] \in A THEN Append(f[n - 1], s[n]) ELSE f[n - 1]
  BY <1>4 DEF IsFilter
<1>7. /\ g[0] = << >> /\ Where(t, B) = g[k + 1]
      /\ \A n \in 1..(k + 1) : g[n] = IF t[n] \in B THEN Append(g[n - 1], t[n]) ELSE g[n - 1]
  BY <1>3, <1>5 DEF IsFilter
<1> HIDE DEF k
<1> DEFINE T == {n \in Nat : n <= k => f[n] = g[n]}
<1>8. Nat \subseteq T
  <2>1. 0 \in T
    BY <1>6, <1>7
  <2>2. ASSUME NEW n \in Nat, n \in T
        PROVE  n + 1 \in T
    <3> SUFFICES ASSUME n + 1 <= k
                 PROVE  f[n + 1] = g[n + 1]
      OBVIOUS
    <3>1. n + 1 \in 1..k /\ n + 1 \in 1..(k + 1) /\ (n + 1) - 1 = n
      BY <1>1
    <3>2. f[n] = g[n] /\ t[n + 1] = s[n + 1] /\ (s[n + 1] \in A <=> s[n + 1] \in B)
      BY <1>1, <1>3, <2>2, <3>1
    <3>3. f[n + 1] = IF s[n + 1] \in A THEN Append(f[n], s[n + 1]) ELSE f[n]
      BY <1>6, <3>1
    <3>4. g[n + 1] = IF t[n + 1] \in B THEN Append(g[n], t[n + 1]) ELSE g[n]
      BY <1>7, <3>1
    <3> QED
      BY <3>2, <3>3, <3>4
  <2> HIDE DEF T
  <2> QED
    BY <2>1, <2>2, NatSetInduction
<1>9. f[k] = g[k]
  BY <1>1, <1>8
<1>10. k + 1 \in 1..(k + 1) /\ (k + 1) - 1 = k
  BY <1>1
<1>11. g[k + 1] = IF t[k + 1] \in B THEN Append(g[k], t[k + 1]) ELSE g[k]
  BY <1>7, <1>10
<1> QED
  BY <1>3, <1>6, <1>7, <1>9, <1>11 DEF t

LEMMA ResolveStart ==
    ASSUME Init
    PROVE  ResolveInv
<1>1. history \in Histories /\ now = 1 /\ ask = Start /\ stage = 1
  BY DEF Init, ResolveInit
<1>2. HistoryInv
  <2>1. IsHistory(history)
    BY <1>1, HistoriesAssumption
  <2> QED
    BY <1>1, <2>1 DEF HistoryInv, IsHistory, IsSequence
<1>3. AskInv
  BY <1>1, StartAsks, NoDocuments DEF AskInv, AskFields, Start
<1> QED
  BY <1>1, <1>2, <1>3 DEF ResolveInv, PinInv

\* What any step of the resolver keeps, when it does not pin.
Asks(new) ==
    /\ AskFields \subseteq DOMAIN new
    /\ IsSequence(new.raw) /\ \A d \in Elements(new.raw) : IsDocument(d)
    /\ new.meta # NoMeta => IsAccepted(new.meta)

LEMMA RefusedAsks ==
    ASSUME NEW status
    PROVE  Asks(Ended(status))
BY EndedIs, NoDocuments DEF Asks

LEMMA AgainAsks ==
    ASSUME AskInv, NEW attempt, NEW at
    PROVE  Asks(Asking(attempt, at, ask.raw))
BY StartAsks DEF Asks, AskInv

\* A step of the resolver either leaves it asking or ended, or pins a vector.
LEMMA ResolveKeeps ==
    ASSUME HistoryInv, AskInv, Resolve
    PROVE  /\ UNCHANGED <<history, now>>
           /\ Asks(ask')
           /\ \/ UNCHANGED pinned /\ ask'.status # "pinned"
              \/ pinned'.parts = VersionVector /\ IsPinned(VersionVector)
<1> DEFINE Goal == /\ UNCHANGED <<history, now>>
                   /\ Asks(ask')
                   /\ \/ UNCHANGED pinned /\ ask'.status # "pinned"
                      \/ pinned'.parts = VersionVector /\ IsPinned(VersionVector)
<1>1. ASSUME Refuse
      PROVE  Goal
  <2>1. ask' = Ended("refused") /\ UNCHANGED <<history, now, pinned>>
    BY <1>1 DEF Refuse
  <2>2. ask'.status = "refused"
    BY <2>1, EndedIs
  <2> QED
    BY <2>1, <2>2, RefusedAsks
<1>2. ASSUME Again
      PROVE  Goal
  <2>1. CASE Refuse
    BY <1>1, <2>1
  <2>2. CASE GoOn(Asking(ask.attempt + 1, ask.at, ask.raw))
    <3>1. ask' = Asking(ask.attempt + 1, ask.at, ask.raw) /\ UNCHANGED <<history, now, pinned>>
      BY <2>2 DEF GoOn
    <3>2. ask'.status = "asking"
      BY <3>1, StartAsks
    <3> QED
      BY <3>1, <3>2, AgainAsks
  <2> QED
    BY <1>2, <2>1, <2>2 DEF Again
<1>3. ASSUME SourceFails
      PROVE  Goal
  <2>1. ask' = Ended("failed") /\ UNCHANGED <<history, now, pinned>>
    BY <1>3 DEF SourceFails, GoOn
  <2>2. ask'.status = "failed"
    BY <2>1, EndedIs
  <2> QED
    BY <2>1, <2>2, RefusedAsks
<1>4. CASE AskNobody
  BY <1>1, <1>4 DEF AskNobody
<1>5. CASE FollowMove
  <2> DEFINE to == Destination(Server.addresses[ask.at])
             new == [ask EXCEPT !.at = to, !.visited = @ \cup {to}]
  <2>1. ask.status = "asking" /\ ask.meta = NoMeta /\ (GoOn(new) \/ Refuse)
    BY <1>5 DEF FollowMove, AsksForMetadata
  <2>2. CASE GoOn(new)
    <3>1. ask' = new /\ UNCHANGED <<history, now, pinned>>
      BY <2>2 DEF GoOn
    <3> HIDE DEF to
    <3>2. /\ DOMAIN ask' = DOMAIN ask /\ ask'.raw = ask.raw /\ ask'.meta = ask.meta
          /\ ask'.status = ask.status
      BY <3>1
    <3> QED
      BY <2>1, <3>1, <3>2 DEF Asks, AskInv, AskFields
  <2> QED
    BY <1>1, <2>1, <2>2
<1>6. CASE AcceptMetadata
  <2> DEFINE meta == Server.addresses[ask.at]
             at == [ask.at EXCEPT !.app = meta.app]
             new == [ask EXCEPT !.at = at, !.meta = meta]
  <2>1. /\ ask.status = "asking" /\ ask.at \in DOMAIN Server.addresses /\ meta.kind = "metadata"
        /\ (IsServed(meta) /\ GoOn(new)) \/ Refuse
    BY <1>6 DEF AcceptMetadata, AsksForMetadata
  <2>2. CASE IsServed(meta) /\ GoOn(new)
    <3>1. ask' = new /\ UNCHANGED <<history, now, pinned>>
      BY <2>2 DEF GoOn
    <3>2. IsAccepted(meta)
      BY <2>1, <2>2, ServerIsOffer DEF IsOffer, IsAccepted, IsServed
    <3> HIDE DEF at, meta
    <3>3. "meta" \in DOMAIN ask
      BY DEF AskInv
    <3>4. /\ DOMAIN ask' = DOMAIN ask /\ ask'.raw = ask.raw /\ ask'.meta = meta
          /\ ask'.status = ask.status
      BY <3>1, <3>3
    <3> QED
      BY <2>1, <3>1, <3>2, <3>4 DEF Asks, AskInv, AskFields
  <2> QED
    BY <1>1, <2>1, <2>2
<1>7. CASE ReadChain
  <2> DEFINE language == LanguagesFor(ask.meta)[Min(Missing)]
             document == [attempt |-> ask.attempt, lang |-> language, name |-> Server.name,
                          transitions |-> Server.chains[language].transitions,
                          seeds |-> Server.chains[language].seeds]
             new == [ask EXCEPT !.raw = Append(@, document)]
  <2>1. /\ ask.status = "asking"
        /\ \/ Again \/ Refuse
           \/ language \in DOMAIN Server.chains /\ GoOn(new)
    BY <1>7 DEF ReadChain
  <2>2. CASE language \in DOMAIN Server.chains /\ GoOn(new)
    <3>1. ask' = new /\ UNCHANGED <<history, now, pinned>>
      BY <2>2 DEF GoOn
    <3>2. IsDocument(document)
      BY <2>2, ServerIsOffer DEF IsOffer, IsDocument
    <3> HIDE DEF document
    <3>3. "raw" \in DOMAIN ask
      BY DEF AskInv
    <3>4. /\ DOMAIN ask' = DOMAIN ask /\ ask'.raw = Append(ask.raw, document)
          /\ ask'.meta = ask.meta /\ ask'.status = ask.status
      BY <3>1, <3>3
    <3>5. IsSequence(ask'.raw) /\ Elements(ask'.raw) = Elements(ask.raw) \cup {document}
      BY <3>4, AppendedSequence DEF AskInv
    <3>6. \A d \in Elements(ask'.raw) : IsDocument(d)
      BY <3>2, <3>5 DEF AskInv
    <3>7. Asks(ask')
      BY <3>4, <3>5, <3>6 DEF Asks, AskInv, AskFields
    <3>8. ask'.status = "asking"
      BY <2>1, <3>4
    <3> QED
      BY <3>1, <3>7, <3>8
  <2> QED
    BY <1>1, <1>2, <2>1, <2>2
<1>8. CASE Pin
  <2>1. ask.meta # NoMeta /\ Missing = {}
    BY <1>8 DEF Pin
  <2>2. CASE /\ Verdict = "ok"
             /\ pinned' = [name |-> Documents[1].name, meta |-> ask.meta.version,
                           parts |-> VersionVector]
             /\ ask' = Ended("pinned")
             /\ UNCHANGED <<history, now>>
    <3>1. IsPinned(VersionVector)
      BY <2>1, <2>2, VectorIsPinned
    <3>2. pinned'.parts = VersionVector
      BY <2>2
    <3> QED
      BY <2>2, <3>1, <3>2, RefusedAsks
  <2> QED
    BY <1>1, <1>2, <1>8, <2>2 DEF Pin
<1> QED
  BY <1>3, <1>4, <1>5, <1>6, <1>7, <1>8 DEF Resolve

\* What the other steps of the run leave to the resolver.
LEMMA StepsKeepThePin ==
    ASSUME StageInv, ResolveInv, [Next]_vars
    PROVE  \/ Stages[stage] = "resolve" /\ ResolveStep
           \/ PublisherMovesOn
           \/ UNCHANGED resolveVars /\ (stage = 1 => stage' = 1)
<1>1. ASSUME NEW name, NEW accepted, NEW result, Stage(name, accepted, result), name # "resolve"
      PROVE  UNCHANGED resolveVars /\ (stage = 1 => stage' = 1)
  <2>1. Stages[stage] = name /\ UNCHANGED <<resolveVars, rot>>
    BY <1>1 DEF Stage
  <2>2. Stages[1] = "resolve"
    BY DEF Stages
  <2>3. UNCHANGED resolveVars
    BY <2>1
  <2> QED
    BY <1>1, <2>1, <2>2, <2>3
<1>2. CASE UNCHANGED vars
  BY <1>2 DEF vars, resolveVars
<1>3. CASE ToolFails
  BY <1>3 DEF ToolFails
<1>4. CASE Rot
  BY <1>4 DEF Rot
<1>5. CASE ResolveStep
  BY <1>5 DEF ResolveStep
<1>6. CASE PlanAcquisition
  BY <1>1, <1>6 DEF PlanAcquisition
<1>7. CASE Download
  BY <1>1, <1>7 DEF Download
<1>8. CASE Verify
  BY <1>1, <1>8 DEF Verify
<1>9. CASE AssembleClient
  BY <1>1, <1>9 DEF AssembleClient
<1>10. CASE IndexVfs
  BY <1>1, <1>10 DEF IndexVfs
<1>11. CASE MaterializeVfs
  BY <1>1, <1>11 DEF MaterializeVfs
<1>12. CASE PlanReadable
  BY <1>1, <1>12 DEF PlanReadable
<1>13. CASE TransformReadable
  BY <1>1, <1>13 DEF TransformReadable
<1>14. CASE DecompileActionScript
  BY <1>1, <1>14 DEF DecompileActionScript
<1>15. CASE AssembleReadable
  BY <1>1, <1>15 DEF AssembleReadable
<1>16. CASE GenerateEngineStubs
  BY <1>1, <1>16 DEF GenerateEngineStubs
<1>17. CASE FinalizeReadable
  BY <1>1, <1>17 DEF FinalizeReadable
<1>18. CASE Snapshot
  BY <1>1, <1>18 DEF Snapshot
<1> QED
  BY <1>2, <1>3, <1>4, <1>5, <1>6, <1>7, <1>8, <1>9, <1>10, <1>11, <1>12, <1>13, <1>14, <1>15,
     <1>16, <1>17, <1>18 DEF Next

\* The invariant of the resolver is inductive.
LEMMA ResolveStays ==
    ASSUME StageInv, ResolveInv, [Next]_vars
    PROVE  ResolveInv'
<1>1. CASE Stages[stage] = "resolve" /\ ResolveStep
  <2>1. Resolve /\ (ask'.status # "pinned" => stage' = stage) /\ stage = 1
    BY <1>1, StagesAre DEF ResolveStep, StageInv
  <2>2. /\ UNCHANGED <<history, now>>
        /\ Asks(ask')
        /\ \/ UNCHANGED pinned /\ ask'.status # "pinned"
           \/ pinned'.parts = VersionVector /\ IsPinned(VersionVector)
    BY <2>1, ResolveKeeps DEF ResolveInv
  <2>3. HistoryInv'
    BY <2>2 DEF ResolveInv, HistoryInv
  <2>4. AskInv'
    BY <2>2 DEF Asks, AskInv, AskFields, IsAccepted, IsServed, LanguagesFor, RequiredParts, Request
  <2>5. PinInv'
    BY <2>1, <2>2 DEF PinInv
  <2> QED
    BY <2>3, <2>4, <2>5 DEF ResolveInv
<1>2. CASE PublisherMovesOn
  <2>1. /\ now < Len(history.offers) /\ now' = now + 1
        /\ UNCHANGED <<history, ask, pinned, stage>>
    BY <1>2 DEF PublisherMovesOn, Republish, contentVars
  <2>2. HistoryInv'
    BY <2>1, ServerIsOffer DEF ResolveInv, HistoryInv, IsHistory, IsSequence
  <2>3. AskInv' /\ PinInv'
    BY <2>1 DEF ResolveInv, AskInv, PinInv, IsAccepted, IsServed, LanguagesFor, RequiredParts, Request
  <2> QED
    BY <2>2, <2>3 DEF ResolveInv
<1>3. CASE UNCHANGED resolveVars /\ (stage = 1 => stage' = 1)
  <2>1. UNCHANGED history /\ UNCHANGED now /\ UNCHANGED ask /\ UNCHANGED pinned
    BY <1>3 DEF resolveVars
  <2>2. AskInv'
    BY <2>1 DEF ResolveInv, AskInv, IsAccepted, IsServed, LanguagesFor, RequiredParts, Request
  <2> QED
    BY <1>3, <2>1, <2>2 DEF ResolveInv, HistoryInv, PinInv
<1> QED
  BY <1>1, <1>2, <1>3, StepsKeepThePin

-----------------------------------------------------------------------------
(* The results of the stages.                                              *)

IsPlannedFrom(R, o) == IsPlannable(R) /\ o.plan = Plan(R)
IsDownloadedFrom(R, o) == o.downloads = Downloads(R, o.plan)
IsVerifiedFrom(o) == o.units = Units({}, o.downloads) /\ IsVerifiable({}, o.downloads)
IsAssembledFrom(o) == o.tree = TreeOf({}, o.units) /\ IsAssemblable({}, o.units)
IsIndexedFrom(R, o) ==
    /\ o.index = Index({}, o.tree, R.client)
    /\ IsIndexable({}, o.tree, R.client)
    /\ o.conflicts = ConflictsManifest(Candidates({}, o.tree, OrderOf({}, o.tree, R.client)))
IsMaterializedFrom(o) == o.materialized = Materialized({}, o.index)
IsReadableFrom(o) ==
    o.readable = ReadablePlan({}, o.materialized) /\ IsReadable({}, o.materialized)
IsTransformedFrom(o) == o.transformed = Transformed({}, o.readable)
IsDecompiledFrom(o) == o.libraries = LibrarySources({}, o.readable)
IsMadeReadableFrom(o) == o.files = AssembledReadable(o.readable, o.transformed)
IsSnapshotOf(o) ==
    /\ o.snapshot.files = FilesManifest(o.files, o.tree)
    /\ o.snapshot.actionscript = ActionScriptManifest(o.libraries)
    /\ o.snapshot.conflicts = o.conflicts

\* What the stages before stage n have committed is what they would make of the
\* release if no stored file had changed, and the others have committed nothing.
AreResultsOf(R, o, n) ==
    /\ IF n > 2 THEN IsPlannedFrom(R, o) ELSE DOMAIN o.plan = {}
    /\ IF n > 3 THEN IsDownloadedFrom(R, o) ELSE DOMAIN o.downloads = {}
    /\ n > 4 => IsVerifiedFrom(o)
    /\ n > 5 => IsAssembledFrom(o)
    /\ n > 6 => IsIndexedFrom(R, o)
    /\ IF n > 7 THEN IsMaterializedFrom(o) ELSE o.materialized = {}
    /\ n > 8 => IsReadableFrom(o)
    /\ IF n > 9 THEN IsTransformedFrom(o) ELSE o.transformed = {}
    /\ n > 10 => IsDecompiledFrom(o)
    /\ n > 11 => IsMadeReadableFrom(o)
    /\ IF n > 14 THEN IsSnapshotOf(o) ELSE o.snapshot.files = {}

ResultsAreOfTheUnchanged == AreResultsOf(TheRelease, out, stage)

\* A result in which some fields are new.
Commits(o, p, fields) ==
    /\ DOMAIN p = DOMAIN Nothing
    /\ \A f \in DOMAIN Nothing : f \notin fields => p[f] = o[f]

\* A result with one field changed.
LEMMA CommitsOne ==
    ASSUME NEW o, DOMAIN o = DOMAIN Nothing, NEW f \in DOMAIN Nothing, NEW v,
           NEW p, p = [o EXCEPT ![f] = v]
    PROVE  Commits(o, p, {f}) /\ p[f] = v
BY DEF Commits

LEMMA FieldsOfNothing ==
    DOMAIN Nothing = {"plan", "downloads", "units", "tree", "index", "packages", "conflicts",
                      "materialized", "readable", "transformed", "libraries", "files", "stubs",
                      "snapshot"}
BY DEF Nothing

\* Each stage adds its part to the results, and leaves the others as they are.
LEMMA PlanCommitted ==
    ASSUME NEW R, NEW S, NEW o, NEW p, AreResultsOf(R, o, 2), Commits(o, p, {"plan"}), IsPlannedFrom(S, p)
    PROVE  AreResultsOf(S, p, 3)
<1>1. p.downloads = o.downloads /\ p.materialized = o.materialized
      /\ p.transformed = o.transformed /\ p.snapshot = o.snapshot
  BY FieldsOfNothing DEF Commits
<1> QED
  BY <1>1 DEF AreResultsOf

LEMMA DownloadsCommitted ==
    ASSUME NEW R, NEW o, NEW p, AreResultsOf(R, o, 3), Commits(o, p, {"downloads"}),
           p.downloads = Downloads(R, o.plan)
    PROVE  AreResultsOf(R, p, 4)
<1>1. p.plan = o.plan /\ p.materialized = o.materialized
      /\ p.transformed = o.transformed /\ p.snapshot = o.snapshot
  BY FieldsOfNothing DEF Commits
<1> QED
  BY <1>1 DEF AreResultsOf, IsPlannedFrom, IsDownloadedFrom

LEMMA UnitsCommitted ==
    ASSUME NEW R, NEW o, NEW p, AreResultsOf(R, o, 4), Commits(o, p, {"units"}),
           p.units = Units({}, o.downloads), IsVerifiable({}, o.downloads)
    PROVE  AreResultsOf(R, p, 5)
<1>1. p.plan = o.plan /\ p.downloads = o.downloads /\ p.materialized = o.materialized
      /\ p.transformed = o.transformed /\ p.snapshot = o.snapshot
  BY FieldsOfNothing DEF Commits
<1> QED
  BY <1>1 DEF AreResultsOf, IsPlannedFrom, IsDownloadedFrom, IsVerifiedFrom

LEMMA TreeCommitted ==
    ASSUME NEW R, NEW o, NEW p, AreResultsOf(R, o, 5), Commits(o, p, {"tree"}),
           p.tree = TreeOf({}, o.units), IsAssemblable({}, o.units)
    PROVE  AreResultsOf(R, p, 6)
<1>1. p.plan = o.plan /\ p.downloads = o.downloads /\ p.units = o.units
      /\ p.materialized = o.materialized /\ p.transformed = o.transformed
      /\ p.snapshot = o.snapshot
  BY FieldsOfNothing DEF Commits
<1> QED
  BY <1>1 DEF AreResultsOf, IsPlannedFrom, IsDownloadedFrom, IsVerifiedFrom, IsAssembledFrom

LEMMA IndexCommitted ==
    ASSUME NEW R, NEW o, NEW p, AreResultsOf(R, o, 6),
           Commits(o, p, {"index", "packages", "conflicts"}),
           p.index = Index({}, o.tree, R.client), IsIndexable({}, o.tree, R.client),
           p.conflicts = ConflictsManifest(Candidates({}, o.tree, OrderOf({}, o.tree, R.client)))
    PROVE  AreResultsOf(R, p, 7)
<1>1. p.plan = o.plan /\ p.downloads = o.downloads /\ p.units = o.units /\ p.tree = o.tree
      /\ p.materialized = o.materialized /\ p.transformed = o.transformed
      /\ p.snapshot = o.snapshot
  BY FieldsOfNothing DEF Commits
<1> QED
  BY <1>1 DEF AreResultsOf, IsPlannedFrom, IsDownloadedFrom, IsVerifiedFrom, IsAssembledFrom,
              IsIndexedFrom

LEMMA MaterializedCommitted ==
    ASSUME NEW R, NEW o, NEW p, AreResultsOf(R, o, 7), Commits(o, p, {"materialized"}),
           p.materialized = Materialized({}, o.index)
    PROVE  AreResultsOf(R, p, 8)
<1>1. p.plan = o.plan /\ p.downloads = o.downloads /\ p.units = o.units /\ p.tree = o.tree
      /\ p.index = o.index /\ p.conflicts = o.conflicts /\ p.transformed = o.transformed
      /\ p.snapshot = o.snapshot
  BY FieldsOfNothing DEF Commits
<1> QED
  BY <1>1 DEF AreResultsOf, IsPlannedFrom, IsDownloadedFrom, IsVerifiedFrom, IsAssembledFrom,
              IsIndexedFrom, IsMaterializedFrom

LEMMA ReadableCommitted ==
    ASSUME NEW R, NEW o, NEW p, AreResultsOf(R, o, 8), Commits(o, p, {"readable"}),
           p.readable = ReadablePlan({}, o.materialized), IsReadable({}, o.materialized)
    PROVE  AreResultsOf(R, p, 9)
<1>1. p.plan = o.plan /\ p.downloads = o.downloads /\ p.units = o.units /\ p.tree = o.tree
      /\ p.index = o.index /\ p.conflicts = o.conflicts /\ p.materialized = o.materialized
      /\ p.transformed = o.transformed /\ p.snapshot = o.snapshot
  BY FieldsOfNothing DEF Commits
<1> QED
  BY <1>1 DEF AreResultsOf, IsPlannedFrom, IsDownloadedFrom, IsVerifiedFrom, IsAssembledFrom,
              IsIndexedFrom, IsMaterializedFrom, IsReadableFrom

LEMMA TransformedCommitted ==
    ASSUME NEW R, NEW o, NEW p, AreResultsOf(R, o, 9), Commits(o, p, {"transformed"}),
           p.transformed = Transformed({}, o.readable)
    PROVE  AreResultsOf(R, p, 10)
<1>1. p.plan = o.plan /\ p.downloads = o.downloads /\ p.units = o.units /\ p.tree = o.tree
      /\ p.index = o.index /\ p.conflicts = o.conflicts /\ p.materialized = o.materialized
      /\ p.readable = o.readable /\ p.snapshot = o.snapshot
  BY FieldsOfNothing DEF Commits
<1> QED
  BY <1>1 DEF AreResultsOf, IsPlannedFrom, IsDownloadedFrom, IsVerifiedFrom, IsAssembledFrom,
              IsIndexedFrom, IsMaterializedFrom, IsReadableFrom, IsTransformedFrom

LEMMA LibrariesCommitted ==
    ASSUME NEW R, NEW o, NEW p, AreResultsOf(R, o, 10), Commits(o, p, {"libraries"}),
           p.libraries = LibrarySources({}, o.readable)
    PROVE  AreResultsOf(R, p, 11)
<1>1. p.plan = o.plan /\ p.downloads = o.downloads /\ p.units = o.units /\ p.tree = o.tree
      /\ p.index = o.index /\ p.conflicts = o.conflicts /\ p.materialized = o.materialized
      /\ p.readable = o.readable /\ p.transformed = o.transformed /\ p.snapshot = o.snapshot
  BY FieldsOfNothing DEF Commits
<1> QED
  BY <1>1 DEF AreResultsOf, IsPlannedFrom, IsDownloadedFrom, IsVerifiedFrom, IsAssembledFrom,
              IsIndexedFrom, IsMaterializedFrom, IsReadableFrom, IsTransformedFrom,
              IsDecompiledFrom

LEMMA FilesCommitted ==
    ASSUME NEW R, NEW o, NEW p, AreResultsOf(R, o, 11), Commits(o, p, {"files"}),
           p.files = AssembledReadable(o.readable, o.transformed)
    PROVE  AreResultsOf(R, p, 12)
<1>1. p.plan = o.plan /\ p.downloads = o.downloads /\ p.units = o.units /\ p.tree = o.tree
      /\ p.index = o.index /\ p.conflicts = o.conflicts /\ p.materialized = o.materialized
      /\ p.readable = o.readable /\ p.transformed = o.transformed
      /\ p.libraries = o.libraries /\ p.snapshot = o.snapshot
  BY FieldsOfNothing DEF Commits
<1> QED
  BY <1>1 DEF AreResultsOf, IsPlannedFrom, IsDownloadedFrom, IsVerifiedFrom, IsAssembledFrom,
              IsIndexedFrom, IsMaterializedFrom, IsReadableFrom, IsTransformedFrom,
              IsDecompiledFrom, IsMadeReadableFrom

\* The stubs are no part of what is said here.
LEMMA StubsCommitted ==
    ASSUME NEW R, NEW o, NEW p, AreResultsOf(R, o, 12), Commits(o, p, {"stubs"})
    PROVE  AreResultsOf(R, p, 13)
<1>1. p.plan = o.plan /\ p.downloads = o.downloads /\ p.units = o.units /\ p.tree = o.tree
      /\ p.index = o.index /\ p.conflicts = o.conflicts /\ p.materialized = o.materialized
      /\ p.readable = o.readable /\ p.transformed = o.transformed
      /\ p.libraries = o.libraries /\ p.files = o.files /\ p.snapshot = o.snapshot
  BY FieldsOfNothing DEF Commits
<1> QED
  BY <1>1 DEF AreResultsOf, IsPlannedFrom, IsDownloadedFrom, IsVerifiedFrom, IsAssembledFrom,
              IsIndexedFrom, IsMaterializedFrom, IsReadableFrom, IsTransformedFrom,
              IsDecompiledFrom, IsMadeReadableFrom

LEMMA SnapshotCommitted ==
    ASSUME NEW R, NEW o, NEW p, AreResultsOf(R, o, 14), Commits(o, p, {"snapshot"}),
           p.snapshot.files = FilesManifest(o.files, o.tree),
           p.snapshot.actionscript = ActionScriptManifest(o.libraries),
           p.snapshot.conflicts = o.conflicts
    PROVE  AreResultsOf(R, p, 15)
<1>1. p.plan = o.plan /\ p.downloads = o.downloads /\ p.units = o.units /\ p.tree = o.tree
      /\ p.index = o.index /\ p.conflicts = o.conflicts /\ p.materialized = o.materialized
      /\ p.readable = o.readable /\ p.transformed = o.transformed
      /\ p.libraries = o.libraries /\ p.files = o.files
  BY FieldsOfNothing DEF Commits
<1> QED
  BY <1>1 DEF AreResultsOf, IsPlannedFrom, IsDownloadedFrom, IsVerifiedFrom, IsAssembledFrom,
              IsIndexedFrom, IsMaterializedFrom, IsReadableFrom, IsTransformedFrom,
              IsDecompiledFrom, IsMadeReadableFrom, IsSnapshotOf

\* A run goes on with parts that have chains and answers of the right shape.
LEMMA ReleaseOfThePinned ==
    ASSUME ResolveInv, stage # 1
    PROVE  IsRelease(TheRelease)
<1>1. IsPinned(pinned.parts)
  BY DEF ResolveInv, PinInv
<1>2. IsHistory(history) /\ IsOffer(Server)
  BY ServerIsOffer DEF ResolveInv
<1> DEFINE A(p) == Answered(pinned.parts[p], AnswerFor(Server, pinned.parts[p]))
           parts == [p \in DOMAIN pinned.parts |-> A(p)]
<1>3. TheRelease.parts = parts /\ TheRelease.torrents = history.torrents
  BY DEF TheRelease
<1>4. \A p \in DOMAIN pinned.parts :
         /\ A(p).transitions = pinned.parts[p].transitions
         /\ IsSequence(A(p).torrents)
  <2> TAKE p \in DOMAIN pinned.parts
  <2> DEFINE part == pinned.parts[p]
             answer == AnswerFor(Server, part)
  <2>1. IsSequence(answer.torrents)
    <3>1. CASE <<part.part, part.lang>> \in DOMAIN Server.integrity
      BY <1>2, <3>1 DEF AnswerFor, IsOffer
    <3>2. CASE <<part.part, part.lang>> \notin DOMAIN Server.integrity
      <4>1. answer.torrents = << >>
        BY <3>2 DEF AnswerFor
      <4> QED
        BY <4>1, NoDocuments
    <3> QED
      BY <3>1, <3>2
  <2> HIDE DEF answer, part
  <2>2. \A torrents, seeds :
           /\ WithAnswer(part, torrents, seeds).transitions = part.transitions
           /\ WithAnswer(part, torrents, seeds).torrents = torrents
    BY DEF WithAnswer
  <2> DEFINE torrents == IF part.integrity THEN answer.torrents ELSE << >>
             asked == WithAnswer(part, torrents, part.seeds)
  <2>3. IsSequence(torrents)
    BY <2>1, NoDocuments
  <2>4. Answered(part, answer) = IF IsReference(asked) THEN WithAnswer(part, torrents, answer.seeds)
                                 ELSE asked
    BY DEF Answered
  <2> HIDE DEF torrents
  <2> QED
    BY <2>2, <2>3, <2>4 DEF answer, part
<1>5. DOMAIN parts = DOMAIN pinned.parts /\ parts = [p \in DOMAIN parts |-> parts[p]]
  OBVIOUS
<1>6. \A p \in DOMAIN parts : parts[p] = A(p)
  OBVIOUS
<1> HIDE DEF A, parts
<1>7. IsSequence(parts)
  BY <1>1, <1>5, MappedSequence DEF IsPinned
<1>8. \A part \in Elements(parts) :
         /\ IsSequence(part.transitions) /\ part.transitions # << >>
         /\ \A t \in Elements(part.transitions) : IsSequence(t.files)
         /\ IsSequence(part.torrents)
  <2> TAKE part \in Elements(parts)
  <2>1. PICK p \in DOMAIN pinned.parts : part = A(p)
    BY <1>5, <1>6 DEF Elements
  <2>2. pinned.parts[p] \in Elements(pinned.parts)
    BY DEF Elements
  <2> QED
    BY <1>1, <1>4, <2>1, <2>2 DEF IsPinned
<1> QED
  BY <1>2, <1>3, <1>7, <1>8 DEF IsRelease, IsPinned, IsHistory

-----------------------------------------------------------------------------
(* What the committed results are.                                         *)

ReleaseInv == StageInv /\ ResolveInv /\ ResultsAreOfTheUnchanged

\* The downloads of a run.
LEMMA TheDownloads ==
    ASSUME ReleaseInv, stage > 3
    PROVE  /\ out.downloads = Downloads(TheRelease, Plan(TheRelease))
           /\ AreSoundDownloads(out.downloads)
           /\ IsRelease(TheRelease) /\ IsPlannable(TheRelease)
<1>1. IsRelease(TheRelease) /\ IsPlannable(TheRelease)
  BY ReleaseOfThePinned DEF ReleaseInv, StageInv, ResultsAreOfTheUnchanged, AreResultsOf,
     IsPlannedFrom
<1>2. out.downloads = Downloads(TheRelease, Plan(TheRelease))
  BY DEF ReleaseInv, StageInv, ResultsAreOfTheUnchanged, AreResultsOf,
     IsPlannedFrom, IsDownloadedFrom
<1> DEFINE R == TheRelease
           D == Downloads(R, Plan(R))
<1> HIDE DEF R
<1>3. IsRelease(R) /\ IsPlannable(R)
  BY <1>1 DEF R
<1>4. /\ IsSequence(D)
      /\ Elements(D) = {Downloaded(R, a) : a \in {b \in Elements(Plan(R)) : TRUE}}
      /\ \A a : IsPlanned(R, a) <=> a \in Elements(Plan(R))
  BY <1>3, DownloadsElements
<1>5. \A i \in DOMAIN D : IsSoundDownload(D[i])
  <2> TAKE i \in DOMAIN D
  <2>1. D[i] \in Elements(D)
    BY DEF Elements
  <2> HIDE DEF D
  <2>2. PICK a \in Elements(Plan(R)) : D[i] = Downloaded(R, a)
    BY <1>4, <2>1
  <2> QED
    BY <1>3, <1>4, <2>2, DownloadsAreSound
<1> QED
  BY <1>1, <1>2, <1>4, <1>5 DEF AreSoundDownloads, R

LEMMA TheUnits ==
    ASSUME ReleaseInv, stage > 4
    PROVE  out.units = Units({}, out.downloads) /\ IsVerifiable({}, out.downloads)
BY DEF ReleaseInv, StageInv, ResultsAreOfTheUnchanged, AreResultsOf, IsVerifiedFrom

\* From assemble-client on, the tree is the installed client.
LEMMA TheTree ==
    ASSUME ReleaseInv, stage > 5
    PROVE  /\ {AsClientFile(f) : f \in out.tree} = ClientFiles
           /\ IsTypedTree(out.tree) /\ ClaimsAreDisjoint(out.tree)
           /\ \A f \in out.tree : IsFileAt(f.path, f.body)
<1>1. /\ out.tree = TreeOf({}, Units({}, out.downloads))
      /\ IsVerifiable({}, out.downloads)
      /\ IsAssemblable({}, Units({}, out.downloads))
  BY TheUnits DEF ReleaseInv, StageInv, ResultsAreOfTheUnchanged, AreResultsOf, IsAssembledFrom
<1>2. /\ IsRelease(TheRelease) /\ IsPlannable(TheRelease)
      /\ out.downloads = Downloads(TheRelease, Plan(TheRelease))
  BY TheDownloads DEF ReleaseInv, StageInv
<1>3. /\ {AsClientFile(f) : f \in out.tree} = ClientFiles
      /\ \A f \in out.tree : IsPath(f.path) /\ IsPackageBody(f.body) /\ IsFileAt(f.path, f.body)
  BY <1>1, <1>2, TreeIsTheClient
<1>4. ClaimsAreDisjoint(out.tree)
  BY <1>1 DEF IsAssemblable
<1> QED
  BY <1>3, <1>4 DEF IsTypedTree

TheOrder == OrderOf({}, out.tree, TheRelease.client)

\* From index-vfs on, the index is that of the installed client.
LEMMA TheIndex ==
    ASSUME ReleaseInv, stage > 6
    PROVE  /\ IsIndexed(out.tree, TheRelease.client, TheOrder)
           /\ IsOfTheClient(out.tree, TheOrder)
           /\ out.index = Index({}, out.tree, TheRelease.client)
           /\ out.conflicts = ConflictsManifest(Candidates({}, out.tree, TheOrder))
<1>1. /\ out.index = Index({}, out.tree, TheRelease.client)
      /\ IsIndexable({}, out.tree, TheRelease.client)
      /\ out.conflicts = ConflictsManifest(Candidates({}, out.tree, TheOrder))
  BY DEF ReleaseInv, StageInv, ResultsAreOfTheUnchanged, AreResultsOf, IsIndexedFrom, TheOrder
<1>2. /\ {AsClientFile(f) : f \in out.tree} = ClientFiles
      /\ IsTypedTree(out.tree) /\ ClaimsAreDisjoint(out.tree)
  BY TheTree DEF ReleaseInv, StageInv
<1>3. IsIndexed(out.tree, TheRelease.client, TheOrder)
  BY <1>1, <1>2 DEF IsIndexed, TheOrder
<1> QED
  BY <1>1, <1>2, <1>3 DEF IsOfTheClient

\* From materialize-vfs on, the materialised files are its winners.
LEMMA TheMaterialized ==
    ASSUME ReleaseInv, stage > 7
    PROVE  /\ out.materialized = Materialized({}, Index({}, out.tree, TheRelease.client))
           /\ \A m \in out.materialized :
                 IsBody(m.body) /\ (m.source.entry = 0 => m.body = m.source.archive)
<1>1. out.materialized = Materialized({}, out.index)
  BY DEF ReleaseInv, StageInv, ResultsAreOfTheUnchanged, AreResultsOf, IsMaterializedFrom
<1>2. /\ IsIndexed(out.tree, TheRelease.client, TheOrder)
      /\ out.index = Index({}, out.tree, TheRelease.client)
  BY TheIndex DEF ReleaseInv, StageInv
<1>3. out.materialized = Materialized({}, Index({}, out.tree, TheRelease.client))
  BY <1>1, <1>2
<1> QED
  BY <1>2, <1>3, MaterializedIsTyped

\* From assemble-readable on, the readable tree is theirs.
LEMMA TheFiles ==
    ASSUME ReleaseInv, stage > 11
    PROVE  /\ out.readable = ReadablePlan({}, out.materialized)
           /\ IsReadable({}, out.materialized)
           /\ out.files = AssembledReadable(out.readable, Transformed({}, out.readable))
           /\ out.libraries = LibrarySources({}, out.readable)
BY DEF ReleaseInv, StageInv, ResultsAreOfTheUnchanged, AreResultsOf, IsReadableFrom,
   IsTransformedFrom, IsDecompiledFrom, IsMadeReadableFrom

-----------------------------------------------------------------------------
(* The invariant of the run.                                               *)

RotInv == IsRot(rot)

ContentInv == ReleaseInv /\ RotInv

LEMMA ContentStart ==
    ASSUME Init
    PROVE  ContentInv
<1>1. stage = 1 /\ out = Nothing /\ rot = {}
  BY DEF Init
<1>2. StageInv
  BY <1>1 DEF StageInv
<1>3. RotInv
  BY <1>1 DEF RotInv, IsRot
<1>4. /\ DOMAIN Nothing.plan = {} /\ DOMAIN Nothing.downloads = {}
      /\ Nothing.materialized = {} /\ Nothing.transformed = {} /\ Nothing.snapshot.files = {}
  BY DEF Nothing, NoSnapshot
<1>5. ResultsAreOfTheUnchanged
  BY <1>1, <1>4 DEF ResultsAreOfTheUnchanged, AreResultsOf
<1> QED
  BY <1>2, <1>3, <1>5, ResolveStart DEF ContentInv, ReleaseInv

\* What a stage does.
LEMMA StageIs ==
    ASSUME NEW name, NEW accepted \in BOOLEAN, NEW result, Stage(name, accepted, result),
           StageInv
    PROVE  /\ Stages[stage] = name /\ UNCHANGED resolveVars /\ UNCHANGED rot
           /\ IF accepted THEN stage' = stage + 1 /\ out' = result
                          ELSE UNCHANGED stage /\ UNCHANGED out
BY DEF Stage

LEMMA ReleaseUnchanged ==
    ASSUME UNCHANGED resolveVars
    PROVE  TheRelease' = TheRelease
<1>1. pinned' = pinned /\ history' = history /\ now' = now
  BY DEF resolveVars
<1> QED
  BY <1>1 DEF TheRelease, Server, Request

\* Steps that commit nothing.
LEMMA NothingCommitted ==
    ASSUME StageInv, ResultsAreOfTheUnchanged, UNCHANGED stage, UNCHANGED out,
           UNCHANGED resolveVars
    PROVE  StageInv' /\ ResultsAreOfTheUnchanged'
<1>1. TheRelease' = TheRelease
  BY ReleaseUnchanged
<1> QED
  BY <1>1 DEF StageInv, ResultsAreOfTheUnchanged

\* A stage that has committed the result that is due.
LEMMA ResultCommitted ==
    ASSUME StageInv, stage < 15, stage' = stage + 1, UNCHANGED resolveVars,
           NEW fields, Commits(out, out', fields), AreResultsOf(TheRelease, out', stage + 1)
    PROVE  StageInv' /\ ResultsAreOfTheUnchanged'
<1>1. TheRelease' = TheRelease
  BY ReleaseUnchanged
<1>2. StageInv'
  BY DEF StageInv, Commits
<1>3. ResultsAreOfTheUnchanged'
  BY <1>1 DEF ResultsAreOfTheUnchanged
<1> QED
  BY <1>2, <1>3

LEMMA ResolveCommits ==
    ASSUME ReleaseInv, Stages[stage] = "resolve", ResolveStep
    PROVE  StageInv' /\ ResultsAreOfTheUnchanged'
<1>1. stage = 1 /\ stage' \in {1, 2} /\ out' = out
  <2>1. stage = 1
    BY StagesAre DEF ReleaseInv, StageInv
  <2>2. (stage' = stage + 1 \/ stage' = stage) /\ UNCHANGED <<out, rot>>
    BY DEF ResolveStep
  <2> QED
    BY <2>1, <2>2
<1>2. ResultsAreOfTheUnchanged'
  BY <1>1 DEF ReleaseInv, ResultsAreOfTheUnchanged, AreResultsOf
<1> QED
  BY <1>1, <1>2 DEF ReleaseInv, StageInv

LEMMA PublisherCommits ==
    ASSUME ReleaseInv, PublisherMovesOn
    PROVE  StageInv' /\ ResultsAreOfTheUnchanged'
<1>1. stage \in {1, 2} /\ stage' = stage /\ out' = out
  BY StagesAre DEF ReleaseInv, StageInv, PublisherMovesOn, contentVars
<1>2. ResultsAreOfTheUnchanged'
  BY <1>1 DEF ReleaseInv, ResultsAreOfTheUnchanged, AreResultsOf
<1> QED
  BY <1>1, <1>2 DEF ReleaseInv, StageInv

\* Each stage either commits what it would make of the unchanged files, or nothing.
LEMMA PlanCommits ==
    ASSUME ContentInv, PlanAcquisition
    PROVE  StageInv' /\ ResultsAreOfTheUnchanged' /\ UNCHANGED resolveVars /\ UNCHANGED rot
<1> DEFINE accepted == IsPlannable(TheRelease)
           result == [out EXCEPT !.plan = Plan(TheRelease)]
<1>1. StageInv /\ ResultsAreOfTheUnchanged
  BY DEF ContentInv, ReleaseInv
<1>2. /\ Stages[stage] = "plan-acquisition" /\ UNCHANGED resolveVars /\ UNCHANGED rot
      /\ \/ accepted /\ stage' = stage + 1 /\ out' = result
         \/ UNCHANGED stage /\ UNCHANGED out
  BY DEF PlanAcquisition, Stage
<1>3. stage = 2
  BY <1>1, <1>2, StagesAre DEF StageInv
<1>4. CASE accepted /\ stage' = stage + 1 /\ out' = result
  <2>1. Commits(out, out', {"plan"}) /\ out'.plan = Plan(TheRelease)
    BY <1>1, <1>4, CommitsOne, FieldsOfNothing DEF StageInv
  <2>2. AreResultsOf(TheRelease, out', 3)
    BY <1>1, <1>3, <1>4, <2>1, PlanCommitted DEF ResultsAreOfTheUnchanged, IsPlannedFrom
  <2> QED
    BY <1>1, <1>2, <1>3, <1>4, <2>1, <2>2, ResultCommitted
<1> QED
  BY <1>1, <1>2, <1>4, NothingCommitted

LEMMA DownloadCommits ==
    ASSUME ContentInv, Download
    PROVE  StageInv' /\ ResultsAreOfTheUnchanged' /\ UNCHANGED resolveVars /\ UNCHANGED rot
<1> DEFINE accepted == IsDownloadable(TheRelease, out.plan)
           v == Downloads(TheRelease, out.plan)
<1>1. StageInv /\ ResultsAreOfTheUnchanged
  BY DEF ContentInv, ReleaseInv
<1>2. /\ Stages[stage] = "download" /\ UNCHANGED resolveVars /\ UNCHANGED rot
      /\ \/ accepted /\ stage' = stage + 1 /\ out' = [out EXCEPT !.downloads = v]
         \/ UNCHANGED stage /\ UNCHANGED out
  BY DEF Download, Stage
<1>3. stage = 3
  BY <1>1, <1>2, StagesAre DEF StageInv
<1>4. CASE accepted /\ stage' = stage + 1 /\ out' = [out EXCEPT !.downloads = v]
  <2> HIDE DEF v
  <2>1. Commits(out, out', {"downloads"}) /\ out'.downloads = v
    BY <1>1, <1>4, CommitsOne, FieldsOfNothing DEF StageInv
  <2>2. AreResultsOf(TheRelease, out', 4)
    BY <1>1, <1>3, <1>4, <2>1, DownloadsCommitted DEF ResultsAreOfTheUnchanged, v
  <2> QED
    BY <1>1, <1>2, <1>3, <1>4, <2>1, <2>2, ResultCommitted
<1> QED
  BY <1>1, <1>2, <1>4, NothingCommitted

LEMMA VerifyCommits ==
    ASSUME ContentInv, Verify
    PROVE  StageInv' /\ ResultsAreOfTheUnchanged' /\ UNCHANGED resolveVars /\ UNCHANGED rot
<1> DEFINE accepted == IsVerifiable(rot, out.downloads)
           v == Units(rot, out.downloads)
<1>1. StageInv /\ ResultsAreOfTheUnchanged /\ IsRot(rot)
  BY DEF ContentInv, ReleaseInv, RotInv
<1>2. /\ Stages[stage] = "verify" /\ UNCHANGED resolveVars /\ UNCHANGED rot
      /\ \/ accepted /\ stage' = stage + 1 /\ out' = [out EXCEPT !.units = v]
         \/ UNCHANGED stage /\ UNCHANGED out
  BY DEF Verify, Stage
<1>3. stage = 4
  BY <1>1, <1>2, StagesAre DEF StageInv
<1>4. CASE accepted /\ stage' = stage + 1 /\ out' = [out EXCEPT !.units = v]
  <2>1. v = Units({}, out.downloads) /\ IsVerifiable({}, out.downloads)
    <3>1. AreSoundDownloads(out.downloads)
      BY <1>3, TheDownloads DEF ContentInv
    <3> QED
      BY <1>1, <1>4, <3>1, VerifyUnchanged
  <2> HIDE DEF v
  <2>2. Commits(out, out', {"units"}) /\ out'.units = v
    BY <1>1, <1>4, CommitsOne, FieldsOfNothing DEF StageInv
  <2>3. AreResultsOf(TheRelease, out', 5)
    BY <1>1, <1>3, <1>4, <2>1, <2>2, UnitsCommitted DEF ResultsAreOfTheUnchanged
  <2> QED
    BY <1>1, <1>2, <1>3, <1>4, <2>2, <2>3, ResultCommitted
<1> QED
  BY <1>1, <1>2, <1>4, NothingCommitted

LEMMA AssembleCommits ==
    ASSUME ContentInv, AssembleClient
    PROVE  StageInv' /\ ResultsAreOfTheUnchanged' /\ UNCHANGED resolveVars /\ UNCHANGED rot
<1> DEFINE accepted == IsAssemblable(rot, out.units)
           v == TreeOf(rot, out.units)
<1>1. StageInv /\ ResultsAreOfTheUnchanged /\ IsRot(rot)
  BY DEF ContentInv, ReleaseInv, RotInv
<1>2. /\ Stages[stage] = "assemble-client" /\ UNCHANGED resolveVars /\ UNCHANGED rot
      /\ \/ accepted /\ stage' = stage + 1 /\ out' = [out EXCEPT !.tree = v]
         \/ UNCHANGED stage /\ UNCHANGED out
  BY DEF AssembleClient, Stage
<1>3. stage = 5
  BY <1>1, <1>2, StagesAre DEF StageInv
<1>4. CASE accepted /\ stage' = stage + 1 /\ out' = [out EXCEPT !.tree = v]
  <2>1. v = TreeOf({}, out.units) /\ IsAssemblable({}, out.units)
    <3>1. AreSoundDownloads(out.downloads)
      BY <1>3, TheDownloads DEF ContentInv
    <3>2. out.units = Units({}, out.downloads) /\ IsVerifiable({}, out.downloads)
      BY <1>3, TheUnits DEF ContentInv
    <3> QED
      BY <1>1, <1>4, <3>1, <3>2, AssembleUnchanged
  <2> HIDE DEF v
  <2>2. Commits(out, out', {"tree"}) /\ out'.tree = v
    BY <1>1, <1>4, CommitsOne, FieldsOfNothing DEF StageInv
  <2>3. AreResultsOf(TheRelease, out', 6)
    BY <1>1, <1>3, <1>4, <2>1, <2>2, TreeCommitted DEF ResultsAreOfTheUnchanged
  <2> QED
    BY <1>1, <1>2, <1>3, <1>4, <2>2, <2>3, ResultCommitted
<1> QED
  BY <1>1, <1>2, <1>4, NothingCommitted

LEMMA IndexCommits ==
    ASSUME ContentInv, IndexVfs
    PROVE  StageInv' /\ ResultsAreOfTheUnchanged' /\ UNCHANGED resolveVars /\ UNCHANGED rot
<1> DEFINE T == out.tree
           client == TheRelease.client
           accepted == IsIndexable(rot, T, client)
           order == OrderOf(rot, T, client)
           v == Index(rot, T, client)
           packages == PackagesManifest(T, order)
           conflicts == ConflictsManifest(Candidates(rot, T, order))
           result == [out EXCEPT !.index = v, !.packages = packages, !.conflicts = conflicts]
<1>1. StageInv /\ ResultsAreOfTheUnchanged
  BY DEF ContentInv, ReleaseInv
<1>2. /\ Stages[stage] = "index-vfs" /\ UNCHANGED resolveVars /\ UNCHANGED rot
      /\ \/ accepted /\ stage' = stage + 1 /\ out' = result
         \/ UNCHANGED stage /\ UNCHANGED out
  BY DEF IndexVfs, Stage
<1>3. stage = 6
  BY <1>1, <1>2, StagesAre DEF StageInv
<1>4. CASE accepted /\ stage' = stage + 1 /\ out' = result
  <2>1. /\ order = OrderOf({}, T, client)
        /\ \A o : Candidates(rot, T, o) = Candidates({}, T, o)
        /\ v = Index({}, T, client) /\ IsIndexable({}, T, client)
    <3> HIDE DEF T, client
    <3> QED
      BY <1>4, IndexUnchanged
  <2>2. conflicts = ConflictsManifest(Candidates({}, T, OrderOf({}, T, client)))
    BY <2>1
  <2> HIDE DEF v, packages, conflicts, order
  <2>3. /\ Commits(out, out', {"index", "packages", "conflicts"})
        /\ out'.index = v /\ out'.conflicts = conflicts
    BY <1>1, <1>4, FieldsOfNothing DEF StageInv, Commits
  <2>4. AreResultsOf(TheRelease, out', 7)
    BY <1>1, <1>3, <1>4, <2>1, <2>2, <2>3, IndexCommitted DEF ResultsAreOfTheUnchanged
  <2> QED
    BY <1>1, <1>2, <1>3, <1>4, <2>3, <2>4, ResultCommitted
<1> QED
  BY <1>1, <1>2, <1>4, NothingCommitted

LEMMA MaterializeCommits ==
    ASSUME ContentInv, MaterializeVfs
    PROVE  StageInv' /\ ResultsAreOfTheUnchanged' /\ UNCHANGED resolveVars /\ UNCHANGED rot
<1> DEFINE accepted == IsMaterializable(rot, out.index)
           v == Materialized(rot, out.index)
<1>1. StageInv /\ ResultsAreOfTheUnchanged /\ IsRot(rot)
  BY DEF ContentInv, ReleaseInv, RotInv
<1>2. /\ Stages[stage] = "materialize-vfs" /\ UNCHANGED resolveVars /\ UNCHANGED rot
      /\ \/ accepted /\ stage' = stage + 1 /\ out' = [out EXCEPT !.materialized = v]
         \/ UNCHANGED stage /\ UNCHANGED out
  BY DEF MaterializeVfs, Stage
<1>3. stage = 7
  BY <1>1, <1>2, StagesAre DEF StageInv
<1>4. CASE accepted /\ stage' = stage + 1 /\ out' = [out EXCEPT !.materialized = v]
  <2>1. v = Materialized({}, out.index)
    <3>1. /\ IsIndexed(out.tree, TheRelease.client, TheOrder)
          /\ out.index = Index({}, out.tree, TheRelease.client)
      BY <1>3, TheIndex DEF ContentInv
    <3> QED
      BY <1>1, <1>4, <3>1, MaterializeUnchanged
  <2> HIDE DEF v
  <2>2. Commits(out, out', {"materialized"}) /\ out'.materialized = v
    BY <1>1, <1>4, CommitsOne, FieldsOfNothing DEF StageInv
  <2>3. AreResultsOf(TheRelease, out', 8)
    BY <1>1, <1>3, <1>4, <2>1, <2>2, MaterializedCommitted DEF ResultsAreOfTheUnchanged
  <2> QED
    BY <1>1, <1>2, <1>3, <1>4, <2>2, <2>3, ResultCommitted
<1> QED
  BY <1>1, <1>2, <1>4, NothingCommitted

LEMMA PlanReadableCommits ==
    ASSUME ContentInv, PlanReadable
    PROVE  StageInv' /\ ResultsAreOfTheUnchanged' /\ UNCHANGED resolveVars /\ UNCHANGED rot
<1> DEFINE accepted == IsReadable(rot, out.materialized)
           v == ReadablePlan(rot, out.materialized)
<1>1. StageInv /\ ResultsAreOfTheUnchanged
  BY DEF ContentInv, ReleaseInv
<1>2. /\ Stages[stage] = "plan-readable" /\ UNCHANGED resolveVars /\ UNCHANGED rot
      /\ \/ accepted /\ stage' = stage + 1 /\ out' = [out EXCEPT !.readable = v]
         \/ UNCHANGED stage /\ UNCHANGED out
  BY DEF PlanReadable, Stage
<1>3. stage = 8
  BY <1>1, <1>2, StagesAre DEF StageInv
<1>4. CASE accepted /\ stage' = stage + 1 /\ out' = [out EXCEPT !.readable = v]
  <2>1. v = ReadablePlan({}, out.materialized) /\ IsReadable({}, out.materialized)
    <3>1. \A m \in out.materialized : IsBody(m.body)
      BY <1>3, TheMaterialized DEF ContentInv
    <3> QED
      BY <1>4, <3>1, PlanReadableUnchanged
  <2> HIDE DEF v
  <2>2. Commits(out, out', {"readable"}) /\ out'.readable = v
    BY <1>1, <1>4, CommitsOne, FieldsOfNothing DEF StageInv
  <2>3. AreResultsOf(TheRelease, out', 9)
    BY <1>1, <1>3, <1>4, <2>1, <2>2, ReadableCommitted DEF ResultsAreOfTheUnchanged
  <2> QED
    BY <1>1, <1>2, <1>3, <1>4, <2>2, <2>3, ResultCommitted
<1> QED
  BY <1>1, <1>2, <1>4, NothingCommitted

LEMMA TransformCommits ==
    ASSUME ContentInv, TransformReadable
    PROVE  StageInv' /\ ResultsAreOfTheUnchanged' /\ UNCHANGED resolveVars /\ UNCHANGED rot
<1> DEFINE accepted == AreTransformable(rot, out.readable)
           v == Transformed(rot, out.readable)
<1>1. StageInv /\ ResultsAreOfTheUnchanged
  BY DEF ContentInv, ReleaseInv
<1>2. /\ Stages[stage] = "transform-readable" /\ UNCHANGED resolveVars /\ UNCHANGED rot
      /\ \/ accepted /\ stage' = stage + 1 /\ out' = [out EXCEPT !.transformed = v]
         \/ UNCHANGED stage /\ UNCHANGED out
  BY DEF TransformReadable, Stage
<1>3. stage = 9
  BY <1>1, <1>2, StagesAre DEF StageInv
<1>4. CASE accepted /\ stage' = stage + 1 /\ out' = [out EXCEPT !.transformed = v]
  <2>1. v = Transformed({}, out.readable)
    BY <1>4, TransformUnchanged
  <2> HIDE DEF v
  <2>2. Commits(out, out', {"transformed"}) /\ out'.transformed = v
    BY <1>1, <1>4, CommitsOne, FieldsOfNothing DEF StageInv
  <2>3. AreResultsOf(TheRelease, out', 10)
    BY <1>1, <1>3, <1>4, <2>1, <2>2, TransformedCommitted DEF ResultsAreOfTheUnchanged
  <2> QED
    BY <1>1, <1>2, <1>3, <1>4, <2>2, <2>3, ResultCommitted
<1> QED
  BY <1>1, <1>2, <1>4, NothingCommitted

LEMMA DecompileCommits ==
    ASSUME ContentInv, DecompileActionScript
    PROVE  StageInv' /\ ResultsAreOfTheUnchanged' /\ UNCHANGED resolveVars /\ UNCHANGED rot
<1> DEFINE accepted == AreDecompilable(rot, out.readable)
           v == LibrarySources(rot, out.readable)
<1>1. StageInv /\ ResultsAreOfTheUnchanged
  BY DEF ContentInv, ReleaseInv
<1>2. /\ Stages[stage] = "decompile-actionscript" /\ UNCHANGED resolveVars /\ UNCHANGED rot
      /\ \/ accepted /\ stage' = stage + 1 /\ out' = [out EXCEPT !.libraries = v]
         \/ UNCHANGED stage /\ UNCHANGED out
  BY DEF DecompileActionScript, Stage
<1>3. stage = 10
  BY <1>1, <1>2, StagesAre DEF StageInv
<1>4. CASE accepted /\ stage' = stage + 1 /\ out' = [out EXCEPT !.libraries = v]
  <2>1. v = LibrarySources({}, out.readable)
    BY <1>4, LibrariesUnchanged
  <2> HIDE DEF v
  <2>2. Commits(out, out', {"libraries"}) /\ out'.libraries = v
    BY <1>1, <1>4, CommitsOne, FieldsOfNothing DEF StageInv
  <2>3. AreResultsOf(TheRelease, out', 11)
    BY <1>1, <1>3, <1>4, <2>1, <2>2, LibrariesCommitted DEF ResultsAreOfTheUnchanged
  <2> QED
    BY <1>1, <1>2, <1>3, <1>4, <2>2, <2>3, ResultCommitted
<1> QED
  BY <1>1, <1>2, <1>4, NothingCommitted

LEMMA AssembleReadableCommits ==
    ASSUME ContentInv, AssembleReadable
    PROVE  StageInv' /\ ResultsAreOfTheUnchanged' /\ UNCHANGED resolveVars /\ UNCHANGED rot
<1> DEFINE v == AssembledReadable(out.readable, out.transformed)
<1>1. StageInv /\ ResultsAreOfTheUnchanged
  BY DEF ContentInv, ReleaseInv
<1>2. /\ Stages[stage] = "assemble-readable" /\ UNCHANGED resolveVars /\ UNCHANGED rot
      /\ \/ stage' = stage + 1 /\ out' = [out EXCEPT !.files = v]
         \/ UNCHANGED stage /\ UNCHANGED out
  BY DEF AssembleReadable, Stage
<1>3. stage = 11
  BY <1>1, <1>2, StagesAre DEF StageInv
<1>4. CASE stage' = stage + 1 /\ out' = [out EXCEPT !.files = v]
  <2> HIDE DEF v
  <2>1. Commits(out, out', {"files"}) /\ out'.files = v
    BY <1>1, <1>4, CommitsOne, FieldsOfNothing DEF StageInv
  <2>2. AreResultsOf(TheRelease, out', 12)
    BY <1>1, <1>3, <1>4, <2>1, FilesCommitted DEF ResultsAreOfTheUnchanged, v
  <2> QED
    BY <1>1, <1>2, <1>3, <1>4, <2>1, <2>2, ResultCommitted
<1> QED
  BY <1>1, <1>2, <1>4, NothingCommitted

LEMMA StubsCommits ==
    ASSUME ContentInv, GenerateEngineStubs
    PROVE  StageInv' /\ ResultsAreOfTheUnchanged' /\ UNCHANGED resolveVars /\ UNCHANGED rot
<1> DEFINE v == Stubs(rot, out.tree)
<1>1. StageInv /\ ResultsAreOfTheUnchanged
  BY DEF ContentInv, ReleaseInv
<1>2. /\ Stages[stage] = "generate-engine-stubs" /\ UNCHANGED resolveVars /\ UNCHANGED rot
      /\ \/ stage' = stage + 1 /\ out' = [out EXCEPT !.stubs = v]
         \/ UNCHANGED stage /\ UNCHANGED out
  BY DEF GenerateEngineStubs, Stage
<1>3. stage = 12
  BY <1>1, <1>2, StagesAre DEF StageInv
<1>4. CASE stage' = stage + 1 /\ out' = [out EXCEPT !.stubs = v]
  <2> HIDE DEF v
  <2>1. Commits(out, out', {"stubs"})
    BY <1>1, <1>4, CommitsOne, FieldsOfNothing DEF StageInv
  <2>2. AreResultsOf(TheRelease, out', 13)
    BY <1>1, <1>3, <1>4, <2>1, StubsCommitted DEF ResultsAreOfTheUnchanged
  <2> QED
    BY <1>1, <1>2, <1>3, <1>4, <2>1, <2>2, ResultCommitted
<1> QED
  BY <1>1, <1>2, <1>4, NothingCommitted

LEMMA FinalizeCommits ==
    ASSUME ContentInv, FinalizeReadable
    PROVE  StageInv' /\ ResultsAreOfTheUnchanged' /\ UNCHANGED resolveVars /\ UNCHANGED rot
<1>1. StageInv /\ ResultsAreOfTheUnchanged
  BY DEF ContentInv, ReleaseInv
<1>2. /\ Stages[stage] = "finalize-readable" /\ UNCHANGED resolveVars /\ UNCHANGED rot
      /\ stage' \in {stage, stage + 1} /\ UNCHANGED out
  BY DEF FinalizeReadable, Stage
<1>3. stage = 13
  BY <1>1, <1>2, StagesAre DEF StageInv
<1>4. CASE stage' = stage + 1
  <2>1. AreResultsOf(TheRelease, out, 14)
    BY <1>1, <1>3 DEF ResultsAreOfTheUnchanged, AreResultsOf
  <2>2. Commits(out, out', {})
    BY <1>1, <1>2 DEF StageInv, Commits
  <2> QED
    BY <1>1, <1>2, <1>3, <1>4, <2>1, <2>2, ResultCommitted
<1> QED
  BY <1>1, <1>2, <1>4, NothingCommitted

LEMMA SnapshotCommits ==
    ASSUME ContentInv, Snapshot
    PROVE  /\ StageInv' /\ ResultsAreOfTheUnchanged' /\ UNCHANGED resolveVars /\ UNCHANGED rot
           /\ \/ stage' = 15 /\ IsSealable(rot, out.tree, out'.snapshot)
              \/ UNCHANGED stage
<1> DEFINE v == Populated(out.files, out.tree, out.libraries, out.stubs, out.packages, out.conflicts)
           accepted == IsSealable(rot, out.tree, v)
<1>1. StageInv /\ ResultsAreOfTheUnchanged
  BY DEF ContentInv, ReleaseInv
<1>2. /\ Stages[stage] = "snapshot" /\ UNCHANGED resolveVars /\ UNCHANGED rot
      /\ \/ accepted /\ stage' = stage + 1 /\ out' = [out EXCEPT !.snapshot = v]
         \/ UNCHANGED stage /\ UNCHANGED out
  BY DEF Snapshot, Stage
<1>3. stage = 14
  BY <1>1, <1>2, StagesAre DEF StageInv
<1>4. CASE accepted /\ stage' = stage + 1 /\ out' = [out EXCEPT !.snapshot = v]
  <2>1. /\ v.files = FilesManifest(out.files, out.tree)
        /\ v.actionscript = ActionScriptManifest(out.libraries)
        /\ v.conflicts = out.conflicts
    BY DEF Populated
  <2> HIDE DEF v
  <2>2. Commits(out, out', {"snapshot"}) /\ out'.snapshot = v
    BY <1>1, <1>4, CommitsOne, FieldsOfNothing DEF StageInv
  <2>3. AreResultsOf(TheRelease, out', 15)
    BY <1>1, <1>3, <1>4, <2>1, <2>2, SnapshotCommitted DEF ResultsAreOfTheUnchanged
  <2>4. StageInv' /\ ResultsAreOfTheUnchanged'
    BY <1>1, <1>2, <1>3, <1>4, <2>2, <2>3, ResultCommitted
  <2> QED
    BY <1>2, <1>3, <1>4, <2>2, <2>4
<1> QED
  BY <1>1, <1>2, <1>4, NothingCommitted

\* A stored file that a change can hit: only blobs have a place in IsRot.
LEMMA StoredBlobs ==
    ASSUME ContentInv, NEW s \in StoredFiles, s.file.at = "blob"
    PROVE  s.file.name = s.body
<1> DEFINE Own(body) == [file |-> Blob(body), body |-> body]
<1>1. \A body : Own(body).file.name = Own(body).body
  BY DEF Blob
<1>2. CASE s \in {Own(out.downloads[i].body) : i \in DOMAIN out.downloads}
  <2> HIDE DEF Own
  <2> QED
    BY <1>1, <1>2
<1>3. CASE s \in {Own(u.body) : u \in out.units} \cup {Own(f.body) : f \in out.tree}
  <2> HIDE DEF Own
  <2> QED
    BY <1>1, <1>3
<1>4. CASE s \in {[file |-> FileOf(m), body |-> m.body] : m \in out.materialized}
  <2>1. PICK m \in out.materialized : s = [file |-> FileOf(m), body |-> m.body]
    BY <1>4
  <2>2. stage > 7
    BY <2>1 DEF ContentInv, ReleaseInv, StageInv, ResultsAreOfTheUnchanged, AreResultsOf
  <2>3. m.source.entry = 0 => m.body = m.source.archive
    BY <2>1, <2>2, TheMaterialized DEF ContentInv
  <2> QED
    BY <2>1, <2>3 DEF FileOf, Blob, Stored
<1>5. CASE s \in {[file |-> InodeOf(f), body |-> f.body] : f \in out.transformed}
  <2>1. PICK f \in out.transformed : s = [file |-> InodeOf(f), body |-> f.body]
    BY <1>5
  <2>2. out.transformed = Transformed({}, out.readable)
    BY <2>1 DEF ContentInv, ReleaseInv, StageInv, ResultsAreOfTheUnchanged, AreResultsOf,
       IsTransformedFrom
  <2>3. PICK e \in ConversionsOf(out.readable) :
           f = ReadableFile(e, Converted(e.kind, InPlace({}, e.source)))
    BY <2>1, <2>2 DEF Transformed
  <2>4. f.kind # Passthrough
    BY <2>3 DEF ReadableFile, ConversionsOf
  <2> QED
    BY <2>1, <2>4 DEF InodeOf, Stored
<1>6. CASE \/ s \in {[file |-> InodeOfLibrary(f), body |-> f.body] : f \in out.libraries}
           \/ s \in {[file |-> InodeOfStub(f), body |-> f.body] : f \in out.stubs}
  BY <1>6 DEF InodeOfLibrary, InodeOfStub, Stored
<1> QED
  BY <1>2, <1>3, <1>4, <1>5, <1>6 DEF StoredFiles

\* The files that are stored are those that IsRot knows.
LEMMA RotStays ==
    ASSUME ContentInv, Rot
    PROVE  RotInv' /\ UNCHANGED resolveVars /\ UNCHANGED stage /\ UNCHANGED out
<1>1. UNCHANGED resolveVars /\ UNCHANGED stage /\ UNCHANGED out
  BY DEF Rot
<1>2. PICK s \in StoredFiles : \E e \in Alterations(s.body) :
          rot' = rot \cup {[file |-> s.file, entry |-> e]}
  BY DEF Rot
<1>3. PICK e \in Alterations(s.body) : rot' = rot \cup {[file |-> s.file, entry |-> e]}
  BY <1>2
<1>4. s.file.at = "blob" => s.file.name = s.body
  BY StoredBlobs
<1>5. IsRot(rot)
  BY DEF ContentInv, RotInv
<1>6. \A r \in rot' : r.file.at = "blob" => r.entry \in Alterations(r.file.name)
  BY <1>3, <1>4, <1>5 DEF IsRot
<1> QED
  BY <1>1, <1>6 DEF RotInv, IsRot

\* The invariant of the run is inductive.
LEMMA ContentStays ==
    ASSUME ContentInv, [Next]_vars
    PROVE  ContentInv'
<1>1. StageInv /\ ResolveInv /\ ResultsAreOfTheUnchanged /\ ReleaseInv
  BY DEF ContentInv, ReleaseInv
<1>2. ResolveInv'
  BY <1>1, ResolveStays
<1> SUFFICES StageInv' /\ ResultsAreOfTheUnchanged' /\ RotInv'
  BY <1>2 DEF ContentInv, ReleaseInv
<1>3. UNCHANGED rot => RotInv'
  BY DEF ContentInv, RotInv
<1>4. CASE UNCHANGED vars
  <2>1. UNCHANGED resolveVars /\ UNCHANGED stage /\ UNCHANGED out /\ UNCHANGED rot
    BY <1>4 DEF vars
  <2> QED
    BY <1>1, <1>3, <2>1, NothingCommitted
<1>5. CASE ResolveStep
  <2>1. Stages[stage] = "resolve" /\ UNCHANGED rot
    BY <1>5 DEF ResolveStep
  <2> QED
    BY <1>1, <1>3, <1>5, <2>1, ResolveCommits
<1>6. CASE PublisherMovesOn
  <2>1. UNCHANGED rot
    BY <1>6 DEF PublisherMovesOn, contentVars
  <2> QED
    BY <1>1, <1>3, <1>6, <2>1, PublisherCommits
<1>7. CASE PlanAcquisition
  BY <1>3, <1>7, PlanCommits
<1>8. CASE Download
  BY <1>3, <1>8, DownloadCommits
<1>9. CASE Verify
  BY <1>3, <1>9, VerifyCommits
<1>10. CASE AssembleClient
  BY <1>3, <1>10, AssembleCommits
<1>11. CASE IndexVfs
  BY <1>3, <1>11, IndexCommits
<1>12. CASE MaterializeVfs
  BY <1>3, <1>12, MaterializeCommits
<1>13. CASE PlanReadable
  BY <1>3, <1>13, PlanReadableCommits
<1>14. CASE TransformReadable
  BY <1>3, <1>14, TransformCommits
<1>15. CASE DecompileActionScript
  BY <1>3, <1>15, DecompileCommits
<1>16. CASE AssembleReadable
  BY <1>3, <1>16, AssembleReadableCommits
<1>17. CASE GenerateEngineStubs
  BY <1>3, <1>17, StubsCommits
<1>18. CASE FinalizeReadable
  BY <1>3, <1>18, FinalizeCommits
<1>19. CASE Snapshot
  BY <1>3, <1>19, SnapshotCommits
<1>20. CASE ToolFails
  <2>1. UNCHANGED resolveVars /\ UNCHANGED stage /\ UNCHANGED out /\ UNCHANGED rot
    BY <1>20 DEF ToolFails
  <2> QED
    BY <1>1, <1>3, <2>1, NothingCommitted
<1>21. CASE Rot
  <2>1. RotInv' /\ UNCHANGED resolveVars /\ UNCHANGED stage /\ UNCHANGED out
    BY <1>21, RotStays
  <2> QED
    BY <1>1, <2>1, NothingCommitted
<1> QED
  BY <1>4, <1>5, <1>6, <1>7, <1>8, <1>9, <1>10, <1>11, <1>12, <1>13, <1>14, <1>15, <1>16, <1>17,
     <1>18, <1>19, <1>20, <1>21 DEF Next

LEMMA ContentInvariant == Spec => []ContentInv
<1>1. Init => ContentInv
  BY ContentStart
<1>2. ContentInv /\ [Next]_vars => ContentInv'
  BY ContentStays
<1> QED
  BY <1>1, <1>2, PTL DEF Spec

\* What the stages of a run commit is what they would make of the release if no
\* stored file had ever changed: a changed file is noticed before its content gets
\* into a result.
THEOREM ResultsStayTrue == Spec => []ResultsAreOfTheUnchanged
<1>1. ContentInv => ResultsAreOfTheUnchanged
  BY DEF ContentInv, ReleaseInv
<1> QED
  BY <1>1, ContentInvariant, PTL

-----------------------------------------------------------------------------
(* The snapshot.                                                           *)

\* A sealed snapshot shows what the client reads, each file in its readable form,
\* and the libraries it loads, for every release, and whatever files change on disk.
THEOREM SnapshotsAreRead == Spec => []SnapshotIsWhatTheClientReads
<1>1. ASSUME ContentInv
      PROVE  SnapshotIsWhatTheClientReads
  <2> SUFFICES ASSUME IsSealed
               PROVE  /\ {<<e.lang, <<e.path, e.body>>>> : e \in out.snapshot.files} = WhatTheClientReads
                      /\ {<<e.path.dir, e.body>> : e \in out.snapshot.actionscript} = LibrariesOfTheClient
    BY DEF SnapshotIsWhatTheClientReads
  <2>1. stage = 15 /\ ReleaseInv
    BY <1>1, StagesAre DEF IsSealed, ContentInv, ReleaseInv, StageInv
  <2>2. /\ out.snapshot.files = FilesManifest(out.files, out.tree)
        /\ out.snapshot.actionscript = ActionScriptManifest(out.libraries)
    BY <2>1 DEF ReleaseInv, ResultsAreOfTheUnchanged, AreResultsOf, IsSnapshotOf
  <2>3. IsOfTheClient(out.tree, TheOrder)
    BY <2>1, TheIndex
  <2>4. out.materialized = Materialized({}, Index({}, out.tree, TheRelease.client))
    BY <2>1, TheMaterialized
  <2>5. /\ out.readable = ReadablePlan({}, out.materialized)
        /\ IsReadable({}, out.materialized)
        /\ out.files = AssembledReadable(out.readable, Transformed({}, out.readable))
        /\ out.libraries = LibrarySources({}, out.readable)
    BY <2>1, TheFiles
  <2>6. {Shown(e) : e \in FilesManifest(out.files, out.tree)} = WhatTheClientReads
    BY <2>3, <2>4, <2>5, FilesOfTheSnapshot
  <2>7. {ShownLibrary(e) : e \in ActionScriptManifest(LibrarySources({}, out.readable))}
           = LibrariesOfTheClient
    BY <2>3, <2>4, <2>5, LibrariesOfTheSnapshot
  <2> QED
    BY <2>2, <2>5, <2>6, <2>7 DEF Shown, ShownLibrary
<1> QED
  BY <1>1, ContentInvariant, PTL

\* The source that a manifest names has had the bytes that were published, and a
\* conflict is reported with the published file as its winner.
THEOREM ProvenanceStaysTrue == Spec => []ProvenanceIsTrue
<1>1. ASSUME ContentInv
      PROVE  ProvenanceIsTrue
  <2>1. ASSUME NEW e \in out.snapshot.files
        PROVE  /\ IsTrueSource(e.source)
               /\ \A c \in out.snapshot.conflicts : IsSettledBy(c, e)
    <3>1. stage = 15 /\ ReleaseInv
      BY <1>1, <2>1 DEF ContentInv, ReleaseInv, StageInv, ResultsAreOfTheUnchanged, AreResultsOf
    <3>2. /\ out.snapshot.files = FilesManifest(out.files, out.tree)
          /\ out.snapshot.conflicts = out.conflicts
      BY <3>1 DEF ReleaseInv, ResultsAreOfTheUnchanged, AreResultsOf, IsSnapshotOf
    <3>3. /\ IsOfTheClient(out.tree, TheOrder)
          /\ out.conflicts = ConflictsManifest(Candidates({}, out.tree, TheOrder))
      BY <3>1, TheIndex
    <3>4. out.materialized = Materialized({}, Index({}, out.tree, TheRelease.client))
      BY <3>1, TheMaterialized
    <3>5. /\ out.readable = ReadablePlan({}, out.materialized)
          /\ out.files = AssembledReadable(out.readable, Transformed({}, out.readable))
      BY <3>1, TheFiles
    <3>6. e \in FilesManifest(out.files, out.tree)
      BY <2>1, <3>2
    <3>7. /\ IsTrueSource(e.source)
          /\ \A c \in ConflictsManifest(Candidates({}, out.tree, TheOrder)) : IsSettledBy(c, e)
      BY <3>3, <3>4, <3>5, <3>6, SourcesOfTheSnapshot
    <3> QED
      BY <3>2, <3>3, <3>7
  <2> QED
    BY <2>1 DEF ProvenanceIsTrue, IsTrueSource, IsSettledBy
<1> QED
  BY <1>1, ContentInvariant, PTL

-----------------------------------------------------------------------------
(* The sealing.                                                            *)

\* Only the snapshot stage seals.
LEMMA SealedByTheSnapshot ==
    ASSUME StageInv, Next, stage' = 15
    PROVE  Snapshot
<1>1. ASSUME NEW name, NEW accepted, NEW result, Stage(name, accepted, result),
             name \notin {"snapshot", "sealed"}
      PROVE  FALSE
  <2>1. Stages[stage] = name /\ stage' \in {stage, stage + 1}
    BY <1>1 DEF Stage
  <2>2. Stages[14] = "snapshot" /\ Stages[15] = "sealed"
    BY DEF Stages
  <2>3. stage \in {14, 15}
    BY <2>1 DEF StageInv
  <2> QED
    BY <1>1, <2>1, <2>2, <2>3
<1>2. Stages[stage] # "sealed" => stage # 15
  BY DEF Stages
<1>3. Stages[stage] \notin {"resolve", "plan-acquisition"} \/ stage < 3
  BY StagesAre DEF StageInv
<1>4. ~ToolFails
  <2>1. ASSUME ToolFails
        PROVE  stage' = stage /\ Stages[stage] # "sealed"
    BY <2>1 DEF ToolFails
  <2> QED
    BY <1>2, <2>1
<1>5. ~Rot
  BY <1>2 DEF Rot
<1>6. ~ResolveStep
  <2>1. ResolveStep => Stages[stage] = "resolve" /\ stage' \in {stage, stage + 1}
    BY DEF ResolveStep
  <2> QED
    BY <1>3, <2>1 DEF StageInv
<1>7. ~PublisherMovesOn
  <2>1. PublisherMovesOn => Stages[stage] \in {"resolve", "plan-acquisition"} /\ stage' = stage
    BY DEF PublisherMovesOn, contentVars
  <2> QED
    BY <1>3, <2>1
<1>8. ~PlanAcquisition
  BY <1>1 DEF PlanAcquisition
<1>9. ~Download
  BY <1>1 DEF Download
<1>10. ~Verify
  BY <1>1 DEF Verify
<1>11. ~AssembleClient
  BY <1>1 DEF AssembleClient
<1>12. ~IndexVfs
  BY <1>1 DEF IndexVfs
<1>13. ~MaterializeVfs
  BY <1>1 DEF MaterializeVfs
<1>14. ~PlanReadable
  BY <1>1 DEF PlanReadable
<1>15. ~TransformReadable
  BY <1>1 DEF TransformReadable
<1>16. ~DecompileActionScript
  BY <1>1 DEF DecompileActionScript
<1>17. ~AssembleReadable
  <2>1. ASSUME AssembleReadable
        PROVE  Stages[stage] = "assemble-readable" /\ stage' \in {stage, stage + 1}
    BY <2>1 DEF AssembleReadable, Stage
  <2>2. Stages[14] = "snapshot" /\ Stages[15] = "sealed"
    BY DEF Stages
  <2> QED
    BY <2>1, <2>2 DEF StageInv
<1>18. ~GenerateEngineStubs
  BY <1>1 DEF GenerateEngineStubs
<1>19. ~FinalizeReadable
  BY <1>1 DEF FinalizeReadable
<1> QED
  BY <1>4, <1>5, <1>6, <1>7, <1>8, <1>9, <1>10, <1>11, <1>12, <1>13, <1>14, <1>15, <1>16, <1>17,
     <1>18, <1>19 DEF Next

\* The step that seals a snapshot finds every file of it as its manifest says.
THEOREM SealedAsDeclared == Spec => SealedBytesAreAsDeclared
<1>1. ASSUME ContentInv, Next, IsSealed'
      PROVE  \A e \in out'.snapshot.files \cup out'.snapshot.actionscript
                      \cup out'.snapshot.stubs : Read(rot', e.inode, e.body) = e.body
  <2>1. StageInv /\ ContentInv'
    BY <1>1, ContentStays DEF ContentInv, ReleaseInv
  <2>2. stage' = 15
    <3>1. stage' \in 1..15 /\ Stages[stage'] = "sealed"
      BY <1>1, <2>1 DEF ContentInv, ReleaseInv, StageInv, IsSealed, Stages
    <3> QED
      BY <3>1, StagesAre
  <2>3. Snapshot
    BY <1>1, <2>1, <2>2, SealedByTheSnapshot
  <2>4. rot' = rot /\ (IsSealable(rot, out.tree, out'.snapshot) \/ UNCHANGED stage)
    BY <1>1, <2>3, SnapshotCommits
  <2>5. stage # 15
    <3>1. Stages[stage] = "snapshot"
      BY <2>3 DEF Snapshot, Stage
    <3>2. Stages[15] = "sealed"
      BY DEF Stages
    <3> QED
      BY <3>1, <3>2
  <2>6. IsSealable(rot, out.tree, out'.snapshot)
    BY <2>2, <2>4, <2>5
  <2>7. \A e \in out'.snapshot.files \cup out'.snapshot.actionscript \cup out'.snapshot.stubs :
           Sound(rot, e.inode, e.body)
    BY <2>6 DEF IsSealable, IsVerified, IsPayload
  <2> QED
    BY <2>4, <2>7 DEF Sound
<1>2. ContentInv /\ [Next]_vars
         => [IsSealed' => \A e \in out'.snapshot.files \cup out'.snapshot.actionscript
                             \cup out'.snapshot.stubs : Read(rot', e.inode, e.body) = e.body]_vars
  BY <1>1
<1> QED
  BY <1>2, ContentInvariant, PTL DEF Spec, SealedBytesAreAsDeclared

-----------------------------------------------------------------------------
(* The plan.                                                               *)

\* What planning knows of a pinned part.
LEMMA AnsweredIs ==
    ASSUME NEW part, NEW answer, NEW q, q = Answered(part, answer)
    PROVE  /\ q.part = part.part /\ q.lang = part.lang /\ q.version = part.version
           /\ q.transitions = part.transitions /\ q.basis = part.basis
           /\ q.torrents = IF part.integrity THEN answer.torrents ELSE << >>
<1> DEFINE torrents == IF part.integrity THEN answer.torrents ELSE << >>
           asked == WithAnswer(part, torrents, part.seeds)
<1>1. \A seeds : LET w == WithAnswer(part, torrents, seeds)
                 IN  /\ w.part = part.part /\ w.lang = part.lang /\ w.version = part.version
                     /\ w.transitions = part.transitions /\ w.basis = part.basis
                     /\ w.torrents = torrents
  <2> HIDE DEF torrents
  <2> QED
    BY DEF WithAnswer
<1>2. q = asked \/ q = WithAnswer(part, torrents, answer.seeds)
  BY DEF Answered
<1> HIDE DEF torrents
<1> QED
  BY <1>1, <1>2 DEF torrents

\* The torrent of a reference part is one that is offered as this part.
LEMMA ReferenceIsOffered ==
    ASSUME NEW part, NEW answer, NEW q, q = Answered(part, answer),
           IsSequence(q.torrents), IsReference(q)
    PROVE  \E t \in Elements(answer.torrents) :
              /\ t.part = part.part /\ t.version = part.version
              /\ t.descriptor = q.torrents[1].descriptor
<1>1. /\ q.part = part.part /\ q.version = part.version
      /\ q.torrents = IF part.integrity THEN answer.torrents ELSE << >>
  BY AnsweredIs
<1>2. PICK i \in DOMAIN q.torrents : q.torrents[i].part = q.part /\ q.torrents[i].version = q.version
  BY DEF IsReference, Matching
<1>3. DOMAIN q.torrents = 1..1
  BY RangeOf DEF IsReference
<1>4. i = 1
  BY <1>2, <1>3
<1>5. q.torrents = answer.torrents
  <2>1. CASE part.integrity
    BY <1>1, <2>1
  <2>2. CASE ~part.integrity
    <3>1. q.torrents = << >>
      BY <1>1, <2>2
    <3>2. DOMAIN q.torrents = {}
      BY <3>1
    <3> QED
      BY <1>2, <3>2
  <2> QED
    BY <2>1, <2>2
<1>6. answer.torrents[1] \in Elements(answer.torrents)
  BY <1>2, <1>4, <1>5 DEF Elements
<1> QED
  BY <1>1, <1>2, <1>4, <1>5, <1>6

\* What a pinned part gives to the plan, as the property says it.
IsOfPart(a, part, plan) ==
    IF a.role = "client-file"
    THEN \E o \in 1..now : \E t \in Elements(AnswerFor(history.offers[o], part).torrents) :
            /\ t.part = part.part /\ t.version = part.version
            /\ t.descriptor = a.descriptor
    ELSE /\ \E t \in Elements(part.transitions) :
               /\ t.descriptor = a.descriptor /\ t.to = a.transition.to
         /\ \E j \in DOMAIN plan :
               /\ plan[j].part = part.part /\ plan[j].lang = part.lang
               /\ plan[j].transition.to = part.version

\* An artifact of the plan is one of a pinned part.
LEMMA PlanIsOfParts ==
    ASSUME HistoryInv, IsRelease(TheRelease), IsPlannable(TheRelease),
           NEW plan, plan = Plan(TheRelease), NEW i \in DOMAIN plan
    PROVE  \E p \in DOMAIN pinned.parts :
              /\ plan[i].part = pinned.parts[p].part /\ plan[i].lang = pinned.parts[p].lang
              /\ IsOfPart(plan[i], pinned.parts[p], plan)
<1> DEFINE R == TheRelease
           a == plan[i]
<1>1. DOMAIN R.parts = DOMAIN pinned.parts
  BY DEF TheRelease
<1>2. \A p \in DOMAIN pinned.parts :
         R.parts[p] = Answered(pinned.parts[p], AnswerFor(Server, pinned.parts[p]))
  BY DEF TheRelease
<1> HIDE DEF R
<1>3. IsRelease(R) /\ IsPlannable(R) /\ plan = Plan(R)
  BY DEF R
<1>4. Elements(plan) = UNION {ArtifactsOf(R, q) : q \in Elements(R.parts)}
  BY <1>3, PlanElements
<1>5. a \in Elements(plan)
  BY DEF Elements
<1>6. PICK q \in Elements(R.parts) : a \in ArtifactsOf(R, q)
  BY <1>4, <1>5
<1>7. PICK p \in DOMAIN R.parts : q = R.parts[p]
  BY <1>6 DEF Elements
<1> DEFINE part == pinned.parts[p]
           answer == AnswerFor(Server, part)
<1>8. p \in DOMAIN pinned.parts /\ q = Answered(part, answer)
  BY <1>1, <1>2, <1>7
<1>9. /\ q.part = part.part /\ q.lang = part.lang /\ q.version = part.version
      /\ q.transitions = part.transitions
  BY <1>8, AnsweredIs
<1>10. /\ IsSequence(q.transitions) /\ q.transitions # << >>
       /\ IsSequence(q.torrents)
       /\ ~IsReference(q) =>
             /\ IsInstallable(R, q)
             /\ \A t \in Elements(Chain(q)) : t.files # << >> /\ IsSequence(t.files)
  BY <1>3, <1>6, PartIsPlannable
<1>11. CASE IsReference(q)
  <2>1. PICK f \in Elements(PhysicalFiles(R, q.torrents[1])) : a = ReferenceArtifact(q, f)
    BY <1>6, <1>11 DEF ArtifactsOf
  <2>2. /\ a.role = "client-file" /\ a.part = q.part /\ a.lang = q.lang
        /\ a.descriptor = q.torrents[1].descriptor
    BY <2>1 DEF ReferenceArtifact, Artifact
  <2>3. \E t \in Elements(answer.torrents) :
           /\ t.part = part.part /\ t.version = part.version
           /\ t.descriptor = q.torrents[1].descriptor
    BY <1>8, <1>10, <1>11, ReferenceIsOffered
  <2>4. now \in 1..now /\ Server = history.offers[now]
    <3>1. IsSequence(history.offers)
      BY ServerIsOffer DEF IsHistory
    <3> QED
      BY <3>1, RangeOf DEF HistoryInv, Server
  <2>5. IsOfPart(a, part, plan)
    BY <2>2, <2>3, <2>4 DEF IsOfPart
  <2> QED
    BY <1>8, <1>9, <2>2, <2>5
<1>12. CASE ~IsReference(q)
  <2>1. a \in UNION {{DeclaredArtifact(R, q, t, f) : f \in Elements(t.files)} : t \in Elements(Chain(q))}
    BY <1>6, <1>12 DEF ArtifactsOf
  <2>2. PICK t \in Elements(Chain(q)) : a \in {DeclaredArtifact(R, q, t, f) : f \in Elements(t.files)}
    BY <2>1
  <2>3. PICK f \in Elements(t.files) : a = DeclaredArtifact(R, q, t, f)
    BY <2>2
  <2>4. \A s, g : LET d == DeclaredArtifact(R, q, s, g)
                  IN  /\ d.role = "delivery-bundle" /\ d.part = q.part /\ d.lang = q.lang
                      /\ d.descriptor = s.descriptor /\ d.transition.to = s.to
    BY DEF DeclaredArtifact, Artifact
  <2>5. IsSequence(Chain(q)) /\ Chain(q) # << >> /\ Elements(Chain(q)) \subseteq Elements(q.transitions)
    BY <1>10, ChainOfPart
  <2> DEFINE n == Len(Chain(q))
             last == Chain(q)[n]
  <2>6. last \in Elements(Chain(q)) /\ last.to = q.version
    <3>1. n \in DOMAIN Chain(q)
      BY <2>5 DEF IsSequence
    <3>2. last.to = q.version
      BY <1>10, <1>12 DEF IsInstallable
    <3> QED
      BY <3>1, <3>2 DEF Elements
  <2> HIDE DEF last
  <2>7. last.files[1] \in Elements(last.files)
    <3>1. last.files # << >> /\ IsSequence(last.files)
      BY <1>10, <1>12, <2>6
    <3>2. 1 \in DOMAIN last.files
      BY <3>1 DEF IsSequence
    <3> QED
      BY <3>2 DEF Elements
  <2> DEFINE b == DeclaredArtifact(R, q, last, last.files[1])
  <2>8. b \in Elements(plan)
    <3>1. b \in {DeclaredArtifact(R, q, last, g) : g \in Elements(last.files)}
      BY <2>7
    <3> HIDE DEF b
    <3>2. b \in ArtifactsOf(R, q)
      BY <1>12, <2>6, <3>1 DEF ArtifactsOf
    <3> QED
      BY <1>4, <1>6, <3>2
  <2>9. /\ b.part = q.part /\ b.lang = q.lang /\ b.transition.to = last.to
        /\ a.role = "delivery-bundle" /\ a.part = q.part /\ a.lang = q.lang
        /\ a.descriptor = t.descriptor /\ a.transition.to = t.to
    BY <2>3, <2>4
  <2> HIDE DEF a, b
  <2>10. \E j \in DOMAIN plan : plan[j] = b
    BY <2>8 DEF Elements
  <2>11. t \in Elements(part.transitions)
    BY <1>9, <2>2, <2>5
  <2>12. IsOfPart(a, part, plan)
    BY <1>9, <2>6, <2>9, <2>10, <2>11 DEF IsOfPart
  <2> QED
    BY <1>8, <1>9, <2>9, <2>12 DEF a
<1> QED
  BY <1>11, <1>12

\* The part of an artifact is the one that the property names.
LEMMA PartIsUnique ==
    ASSUME IsPlannable(TheRelease), NEW p \in DOMAIN pinned.parts, NEW a,
           a.part = pinned.parts[p].part, a.lang = pinned.parts[p].lang
    PROVE  pinned.parts[p] = CHOOSE q \in Elements(pinned.parts) : q.part = a.part /\ q.lang = a.lang
<1> DEFINE Is(q) == q.part = a.part /\ q.lang = a.lang
           c == CHOOSE q \in Elements(pinned.parts) : Is(q)
           R == TheRelease
           A(i) == Answered(pinned.parts[i], AnswerFor(Server, pinned.parts[i]))
<1>1. pinned.parts[p] \in Elements(pinned.parts) /\ Is(pinned.parts[p])
  BY DEF Elements
<1>2. c \in Elements(pinned.parts) /\ Is(c)
  <2> HIDE DEF Is
  <2> QED
    BY <1>1
<1>3. PICK r \in DOMAIN pinned.parts : c = pinned.parts[r]
  BY <1>2 DEF Elements
<1>4. DOMAIN R.parts = DOMAIN pinned.parts /\ \A i \in DOMAIN pinned.parts : R.parts[i] = A(i)
  BY DEF TheRelease
<1>5. \A i : A(i).part = pinned.parts[i].part /\ A(i).lang = pinned.parts[i].lang
  BY AnsweredIs
<1> HIDE DEF R, A, c
<1>6. ~HasDuplicates([i \in DOMAIN R.parts |-> <<R.parts[i].part, R.parts[i].lang>>])
  BY DEF IsPlannable, R
<1>7. R.parts[p].part = R.parts[r].part /\ R.parts[p].lang = R.parts[r].lang
  BY <1>2, <1>3, <1>4, <1>5
<1>8. p = r
  BY <1>3, <1>4, <1>6, <1>7 DEF HasDuplicates
<1> QED
  BY <1>3, <1>8 DEF c

\* The plan follows the pin, whatever the servers have come to offer when it is made.
THEOREM PlanStaysOfThePinned == Spec => []PlanIsOfThePinned
<1>1. ASSUME ContentInv
      PROVE  PlanIsOfThePinned
  <2> DEFINE Part(a) == CHOOSE q \in Elements(pinned.parts) : q.part = a.part /\ q.lang = a.lang
  <2>1. ASSUME NEW i \in DOMAIN out.plan
        PROVE  IsOfPart(out.plan[i], Part(out.plan[i]), out.plan)
    <3>1. stage > 2 /\ ResolveInv
      BY <1>1, <2>1 DEF ContentInv, ReleaseInv, StageInv, ResultsAreOfTheUnchanged, AreResultsOf
    <3>2. IsPlannable(TheRelease) /\ out.plan = Plan(TheRelease)
      BY <1>1, <3>1 DEF ContentInv, ReleaseInv, StageInv, ResultsAreOfTheUnchanged, AreResultsOf,
         IsPlannedFrom
    <3>3. IsRelease(TheRelease)
      BY <1>1, <3>1, ReleaseOfThePinned DEF ContentInv, ReleaseInv, StageInv
    <3>4. PICK p \in DOMAIN pinned.parts :
             /\ out.plan[i].part = pinned.parts[p].part /\ out.plan[i].lang = pinned.parts[p].lang
             /\ IsOfPart(out.plan[i], pinned.parts[p], out.plan)
      BY <3>1, <3>2, <3>3, PlanIsOfParts DEF ResolveInv
    <3>5. pinned.parts[p] = Part(out.plan[i])
      BY <3>2, <3>4, PartIsUnique
    <3> QED
      BY <3>4, <3>5
  <2> QED
    BY <2>1 DEF PlanIsOfThePinned, IsOfPart
<1> QED
  BY <1>1, ContentInvariant, PTL

-----------------------------------------------------------------------------
(* What the resolver has read, and where it is from.                       *)

IsPublished(meta, n) ==
    \E i \in 1..n : \E at \in DOMAIN history.offers[i].addresses :
        /\ meta = history.offers[i].addresses[at]
        /\ history.offers[i].addresses[at].kind = "metadata"

\* A document is the reply of one offer.
IsReply(d, offer) ==
    /\ d.name = offer.name /\ d.lang \in DOMAIN offer.chains
    /\ d.transitions = offer.chains[d.lang].transitions

IsOffered(d, asked, n) ==
    \E i \in 1..n :
        /\ IsReply(d, history.offers[i])
        /\ d.attempt = asked.attempt => history.offers[i].version = asked.meta.version

DocumentsOf(asked) == Where(asked.raw, {d \in Elements(asked.raw) : d.attempt = asked.attempt})

\* One document for each of the first languages.
AreInOrder(documents, languages) ==
    /\ Len(documents) <= Len(languages)
    /\ \A i \in DOMAIN documents : documents[i].lang = languages[i]

\* What has been asked so far has been answered by the offers up to n.
IsTraced(asked, n) ==
    /\ asked.attempt \in Nat
    /\ \A d \in Elements(asked.raw) :
          /\ d.attempt \in Nat /\ d.attempt <= asked.attempt
          /\ asked.meta = NoMeta => d.attempt < asked.attempt
          /\ IsOffered(d, asked, n)
    /\ asked.meta # NoMeta =>
          /\ IsPublished(asked.meta, n)
          /\ AreInOrder(DocumentsOf(asked), LanguagesFor(asked.meta))

LocalesOf(pin) == {p \in Elements(pin.parts) : p.lang # NoLang}
OffersUpTo(n) == {history.offers[i] : i \in 1..n}

\* PinnedIsOneRelease, of what is pinned when the servers have come to offer n.
IsOneRelease(pin, n) ==
    /\ {p.lang : p \in LocalesOf(pin)} \in
          IF Request.languages # All THEN {Elements(Request.languages)}
          ELSE UNION {{Elements(offer.addresses[at].languages) :
                         at \in {a \in DOMAIN offer.addresses :
                                  /\ offer.addresses[a].kind = "metadata"
                                  /\ offer.addresses[a].version = pin.meta}} :
                      offer \in OffersUpTo(n)}
    /\ \A locale \in LocalesOf(pin) : \E offer \in OffersUpTo(n) :
          /\ offer.name = pin.name /\ offer.version = pin.meta
          /\ locale.lang \in DOMAIN offer.chains
          /\ \A p \in (Elements(pin.parts) \ LocalesOf(pin)) \cup {locale} :
                IsOfferedBy(offer, locale.lang, p)

OriginInv == IsTraced(ask, now) /\ (stage # 1 => IsOneRelease(pinned, now))

LEMMA EndedIsTraced ==
    ASSUME NEW status, NEW n
    PROVE  IsTraced(Ended(status), n)
<1> DEFINE e == Ended(status)
<1>1. e.meta = NoMeta /\ e.raw = << >>
  BY EndedIs
<1>2. e.attempt = 1
  <2>1. Start.attempt = 1 /\ "status" # "attempt"
    BY DEF Start, Asking
  <2>2. e.attempt = Start.attempt
    BY DEF Ended, Start, Asking
  <2> QED
    BY <2>1, <2>2
<1> HIDE DEF e
<1>3. IsTraced(e, n)
  BY <1>1, <1>2, NoDocuments DEF IsTraced
<1> QED
  BY <1>3 DEF e

LEMMA AgainIsTraced ==
    ASSUME NEW n, IsTraced(ask, n), NEW at
    PROVE  IsTraced(Asking(ask.attempt + 1, at, ask.raw), n)
<1> DEFINE new == Asking(ask.attempt + 1, at, ask.raw)
<1>1. new.meta = NoMeta /\ new.raw = ask.raw /\ new.attempt = ask.attempt + 1
  BY DEF Asking
<1> HIDE DEF new
<1>2. ASSUME NEW d \in Elements(ask.raw)
      PROVE  d.attempt \in Nat /\ d.attempt < ask.attempt + 1 /\ IsOffered(d, new, n)
  <2>1. d.attempt \in Nat /\ d.attempt <= ask.attempt /\ ask.attempt \in Nat /\ IsOffered(d, ask, n)
    BY <1>2 DEF IsTraced
  <2>2. d.attempt < ask.attempt + 1 /\ d.attempt # new.attempt
    BY <1>1, <2>1
  <2>3. \E i \in 1..n : IsReply(d, history.offers[i])
    BY <2>1 DEF IsOffered
  <2> QED
    BY <2>1, <2>2, <2>3 DEF IsOffered
<1>3. IsTraced(new, n)
  <2>1. ask.attempt + 1 \in Nat
    BY DEF IsTraced
  <2>2. \A d \in Elements(new.raw) :
          /\ d.attempt \in Nat /\ d.attempt <= new.attempt /\ d.attempt < new.attempt
          /\ IsOffered(d, new, n)
    BY <1>1, <1>2, <2>1
  <2> QED
    BY <1>1, <2>1, <2>2 DEF IsTraced
<1> QED
  BY <1>3 DEF new

\* What has been answered stays so when the publisher goes on.
LEMMA TracedStays ==
    ASSUME NEW asked, NEW m \in Nat, NEW n \in Nat, m <= n, IsTraced(asked, m)
    PROVE  IsTraced(asked, n)
<1>1. 1..m \subseteq 1..n
  OBVIOUS
<1>2. \A d : IsOffered(d, asked, m) => IsOffered(d, asked, n)
  BY <1>1 DEF IsOffered
<1>3. IsPublished(asked.meta, m) => IsPublished(asked.meta, n)
  BY <1>1 DEF IsPublished
<1> QED
  BY <1>2, <1>3 DEF IsTraced

LEMMA OneReleaseStays ==
    ASSUME NEW pin, NEW m \in Nat, NEW n \in Nat, m <= n, IsOneRelease(pin, m)
    PROVE  IsOneRelease(pin, n)
<1> DEFINE S == {p.lang : p \in LocalesOf(pin)}
           L(offer) == {Elements(offer.addresses[at].languages) :
                          at \in {a \in DOMAIN offer.addresses :
                                   /\ offer.addresses[a].kind = "metadata"
                                   /\ offer.addresses[a].version = pin.meta}}
           U(k) == UNION {L(offer) : offer \in OffersUpTo(k)}
           Fits(locale, offer) ==
              /\ offer.name = pin.name /\ offer.version = pin.meta
              /\ locale.lang \in DOMAIN offer.chains
              /\ \A p \in (Elements(pin.parts) \ LocalesOf(pin)) \cup {locale} :
                    IsOfferedBy(offer, locale.lang, p)
<1>1. OffersUpTo(m) \subseteq OffersUpTo(n)
  BY DEF OffersUpTo
<1>2. /\ S \in IF Request.languages # All THEN {Elements(Request.languages)} ELSE U(m)
      /\ \A locale \in LocalesOf(pin) : \E offer \in OffersUpTo(m) : Fits(locale, offer)
  BY DEF IsOneRelease
<1> HIDE DEF S, L, Fits
<1>3. U(m) \subseteq U(n)
  BY <1>1
<1>4. /\ S \in IF Request.languages # All THEN {Elements(Request.languages)} ELSE U(n)
      /\ \A locale \in LocalesOf(pin) : \E offer \in OffersUpTo(n) : Fits(locale, offer)
  BY <1>1, <1>2, <1>3
<1> QED
  BY <1>4 DEF IsOneRelease, S, L, Fits

LEMMA NowIsNat ==
    ASSUME HistoryInv
    PROVE  now \in Nat /\ now \in 1..now /\ Server = history.offers[now]
<1>1. IsSequence(history.offers)
  BY ServerIsOffer DEF IsHistory
<1>2. DOMAIN history.offers = 1..Len(history.offers) /\ Len(history.offers) \in Nat
  BY <1>1, RangeOf
<1> QED
  BY <1>2 DEF HistoryInv, Server

LEMMA DocumentsAreOfThis == Documents = DocumentsOf(ask)
BY DEF Documents, DocumentsOf

\* An address that has moved.
LEMMA MoveIsTraced ==
    ASSUME NEW n, IsTraced(ask, n), ask.meta = NoMeta,
           NEW new, new.attempt = ask.attempt, new.raw = ask.raw, new.meta = NoMeta
    PROVE  IsTraced(new, n)
<1>1. \A d : IsOffered(d, ask, n) => IsOffered(d, new, n)
  BY DEF IsOffered
<1> QED
  BY <1>1 DEF IsTraced

\* Metadata, with which an attempt begins.
LEMMA MetadataIsTraced ==
    ASSUME HistoryInv, AskInv, IsTraced(ask, now), ask.meta = NoMeta,
           NEW at \in DOMAIN Server.addresses, Server.addresses[at].kind = "metadata",
           NEW new, new.attempt = ask.attempt, new.raw = ask.raw,
           new.meta = Server.addresses[at]
    PROVE  IsTraced(new, now)
<1>1. now \in 1..now /\ Server = history.offers[now]
  BY NowIsNat
<1>2. IsPublished(new.meta, now)
  BY <1>1 DEF IsPublished
<1>3. ASSUME NEW d \in Elements(ask.raw)
      PROVE  /\ d.attempt \in Nat /\ d.attempt < new.attempt /\ d.attempt <= new.attempt
             /\ IsOffered(d, new, now)
  <2>1. d.attempt \in Nat /\ d.attempt < ask.attempt /\ ask.attempt \in Nat /\ IsOffered(d, ask, now)
    BY <1>3 DEF IsTraced
  <2>2. d.attempt # new.attempt
    BY <2>1
  <2> QED
    BY <2>1, <2>2 DEF IsOffered
<1>4. AreInOrder(DocumentsOf(new), LanguagesFor(new.meta))
  <2> DEFINE A == {d \in Elements(new.raw) : d.attempt = new.attempt}
             docs == DocumentsOf(new)
             languages == LanguagesFor(new.meta)
  <2>1. docs = Where(new.raw, A) /\ IsSequence(new.raw)
    BY DEF DocumentsOf, AskInv
  <2>2. A = {}
    <3> SUFFICES ASSUME NEW d \in Elements(ask.raw), d.attempt = new.attempt
                 PROVE  FALSE
      OBVIOUS
    <3>1. d.attempt < new.attempt /\ new.attempt \in Nat
      BY <1>3 DEF IsTraced
    <3> QED
      BY <3>1
  <2> HIDE DEF A, docs
  <2>3. IsSequence(docs) /\ Elements(docs) = {}
    BY <2>1, <2>2, WhereElements
  <2>4. Len(docs) = 0 /\ DOMAIN docs = {}
    <3>1. Len(docs) \in Nat /\ DOMAIN docs = 1..Len(docs) /\ \A i \in 1..Len(docs) : docs[i] \in Elements(docs)
      BY <2>3, RangeOf
    <3>2. Len(docs) > 0 => 1 \in 1..Len(docs)
      BY <3>1
    <3> QED
      BY <2>3, <3>1, <3>2
  <2>5. IsSequence(languages)
    <3>1. IsSequence(Server.addresses[at].languages)
      BY ServerIsOffer DEF IsOffer
    <3>2. IsSequence(Request.languages)
      BY ServerIsOffer DEF IsHistory, Request
    <3> QED
      BY <3>1, <3>2 DEF LanguagesFor
  <2>6. Len(languages) \in Nat
    BY <2>5, RangeOf
  <2> QED
    BY <2>4, <2>6 DEF AreInOrder, docs
<1>5. new.attempt \in Nat
  BY DEF IsTraced
<1> QED
  BY <1>2, <1>3, <1>4, <1>5 DEF IsTraced

LEMMA LanguagesAreSequence ==
    ASSUME HistoryInv, AskInv, ask.meta # NoMeta
    PROVE  IsSequence(LanguagesFor(ask.meta))
<1>1. IsSequence(Request.languages)
  BY ServerIsOffer DEF IsHistory, Request
<1> QED
  BY <1>1 DEF LanguagesFor, AskInv, IsAccepted

\* The next request is for the language after those that have been answered.
LEMMA NextIsMissing ==
    ASSUME HistoryInv, AskInv, ask.meta # NoMeta, Missing # {},
           Len(Documents) <= Len(LanguagesFor(ask.meta))
    PROVE  /\ Min(Missing) = Len(Documents) + 1
           /\ Len(Documents) + 1 <= Len(LanguagesFor(ask.meta))
<1> DEFINE k == Len(Documents)
           l == Len(LanguagesFor(ask.meta))
<1>1. k \in Nat
  BY DocumentsAreRead, RangeOf
<1>2. l \in Nat /\ DOMAIN LanguagesFor(ask.meta) = 1..l
  BY LanguagesAreSequence, RangeOf
<1>3. Missing = {i \in 1..l : i > k}
  BY <1>2 DEF Missing
<1> HIDE DEF k, l
<1>4. k + 1 <= l /\ k + 1 \in Missing /\ \A i \in Missing : k + 1 <= i
  BY <1>1, <1>2, <1>3
<1>5. Min(Missing) = k + 1
  <2>1. Min(Missing) = CHOOSE x \in Missing : \A y \in Missing : x <= y
    BY DEF Min
  <2>2. \A x \in Missing : (\A y \in Missing : x <= y) => x = k + 1
    BY <1>1, <1>2, <1>3, <1>4
  <2> QED
    BY <1>4, <2>1, <2>2
<1> QED
  BY <1>4, <1>5 DEF k, l

\* The answer for the next language.
LEMMA ReplyIsTraced ==
    ASSUME HistoryInv, AskInv, IsTraced(ask, now), ask.meta # NoMeta, Missing # {},
           Server.version = ask.meta.version,
           NEW d, d.attempt = ask.attempt, d.lang = LanguagesFor(ask.meta)[Min(Missing)],
           IsReply(d, Server),
           NEW new, new.attempt = ask.attempt, new.raw = Append(ask.raw, d), new.meta = ask.meta
    PROVE  IsTraced(new, now)
<1> DEFINE docs == DocumentsOf(ask)
           more == DocumentsOf(new)
           languages == LanguagesFor(ask.meta)
           A == {x \in Elements(ask.raw) : x.attempt = ask.attempt}
           B == {x \in Elements(new.raw) : x.attempt = new.attempt}
<1>1. now \in 1..now /\ Server = history.offers[now]
  BY NowIsNat
<1>2. IsSequence(ask.raw) /\ Elements(new.raw) = Elements(ask.raw) \cup {d}
  BY AppendedSequence DEF AskInv
<1>3. \A x : IsOffered(x, ask, now) => IsOffered(x, new, now)
  BY DEF IsOffered
<1>4. IsOffered(d, new, now)
  BY <1>1 DEF IsOffered
<1>5. more = Append(docs, d)
  <2>1. docs = Where(ask.raw, A) /\ more = Where(Append(ask.raw, d), B)
    BY DEF DocumentsOf
  <2>2. d \in B /\ \A y \in Elements(ask.raw) : y \in A <=> y \in B
    BY <1>2
  <2> HIDE DEF docs, more, A, B
  <2> QED
    BY <1>2, <2>1, <2>2, WhereAppends
<1>6. docs = Documents
  BY DocumentsAreOfThis
<1>7. Len(docs) <= Len(languages) /\ \A i \in DOMAIN docs : docs[i].lang = languages[i]
  BY DEF IsTraced, AreInOrder
<1>8. Min(Missing) = Len(docs) + 1 /\ Len(docs) + 1 <= Len(languages)
  BY <1>6, <1>7, NextIsMissing
<1>9. IsSequence(docs)
  BY <1>6, DocumentsAreRead
<1> HIDE DEF docs, more, languages
<1>10. /\ Len(more) = Len(docs) + 1 /\ DOMAIN more = 1..(Len(docs) + 1)
       /\ DOMAIN docs = 1..Len(docs) /\ Len(docs) \in Nat
       /\ more[Len(docs) + 1] = d /\ \A i \in DOMAIN docs : more[i] = docs[i]
  <2> DEFINE E == Elements(docs) \cup {d}
  <2>1. docs \in Seq(E) /\ d \in E
    BY <1>9, RangeOf
  <2> HIDE DEF E
  <2> QED
    BY <1>5, <2>1
<1>11. AreInOrder(more, languages)
  <2>1. ASSUME NEW i \in DOMAIN more
        PROVE  more[i].lang = languages[i]
    <3>1. CASE i = Len(docs) + 1
      BY <1>8, <1>10, <3>1 DEF languages
    <3>2. CASE i \in DOMAIN docs
      BY <1>7, <1>10, <3>2
    <3> QED
      BY <1>10, <3>1, <3>2
  <2> QED
    BY <1>8, <1>10, <2>1 DEF AreInOrder
<1>12. IsPublished(new.meta, now)
  BY DEF IsTraced
<1>13. d.attempt \in Nat /\ d.attempt <= new.attempt
  BY DEF IsTraced
<1>14. \A x \in Elements(new.raw) :
          /\ x.attempt \in Nat /\ x.attempt <= new.attempt
          /\ IsOffered(x, new, now)
  BY <1>2, <1>3, <1>4, <1>13 DEF IsTraced
<1>15. new.attempt \in Nat /\ new.meta # NoMeta
  BY DEF IsTraced
<1>16. AreInOrder(DocumentsOf(new), LanguagesFor(new.meta))
  BY <1>11 DEF more, languages
<1> QED
  BY <1>12, <1>14, <1>15, <1>16 DEF IsTraced

-----------------------------------------------------------------------------
(* The pin is one release.                                                 *)

VersionsOf(S) == {<<t.from, t.to>> : t \in S}

\* Documents of one signature have the same versions of a part.
LEMMA SignatureHasVersions ==
    ASSUME NEW one, IsSequence(one), NEW other, IsSequence(other), NEW part,
           IsConnected(TransitionsOf(one, part)), IsConnected(TransitionsOf(other, part)),
           Signature(one, part) = Signature(other, part)
    PROVE  VersionsOf({t \in Elements(one) : t.part = part})
              = VersionsOf({t \in Elements(other) : t.part = part})
<1> DEFINE c(chain) == Connected(TransitionsOf(chain, part))
           Of(chain) == {t \in Elements(chain) : t.part = part}
           s(chain) == [i \in DOMAIN c(chain) |-> <<c(chain)[i].from, c(chain)[i].to>>]
           Transitions(chain) == TransitionsOf(chain, part)
<1>1. ASSUME NEW chain, IsSequence(chain), IsConnected(Transitions(chain))
      PROVE  Elements(c(chain)) = Of(chain)
  <2>1. Transitions(chain) = Where(chain, Of(chain))
    BY DEF TransitionsOf
  <2> HIDE DEF Of
  <2>2. IsSequence(Transitions(chain)) /\ Elements(Transitions(chain)) = {t \in Elements(chain) : t \in Of(chain)}
    BY <1>1, <2>1, WhereElements
  <2>3. c(chain) = Connected(Transitions(chain))
    OBVIOUS
  <2> HIDE DEF Transitions, c
  <2>4. Elements(Connected(Transitions(chain))) = Elements(Transitions(chain))
    BY <1>1, <2>2, ConnectedHasAll
  <2> QED
    BY <2>2, <2>3, <2>4 DEF Of
<1>2. s(one) = s(other)
  BY DEF Signature
<1>3. ASSUME NEW chain, Elements(c(chain)) = Of(chain)
      PROVE  VersionsOf(Of(chain)) = {s(chain)[i] : i \in DOMAIN s(chain)}
  <2> HIDE DEF c, Of
  <2>1. VersionsOf(Elements(c(chain))) = {s(chain)[i] : i \in DOMAIN s(chain)}
    <3>1. Elements(c(chain)) = {c(chain)[i] : i \in DOMAIN c(chain)}
      BY DEF Elements
    <3>2. DOMAIN s(chain) = DOMAIN c(chain)
          /\ \A i \in DOMAIN c(chain) : s(chain)[i] = <<c(chain)[i].from, c(chain)[i].to>>
      OBVIOUS
    <3> HIDE DEF s
    <3> QED
      BY <3>1, <3>2 DEF VersionsOf
  <2> QED
    BY <1>3, <2>1
<1>4. Elements(c(one)) = Of(one) /\ Elements(c(other)) = Of(other)
  BY <1>1
<1>5. VersionsOf(Of(one)) = {s(one)[i] : i \in DOMAIN s(one)}
  <2>1. Elements(c(one)) = Of(one)
    BY <1>4
  <2> QED
    BY ONLY <1>3, <2>1
<1>6. VersionsOf(Of(other)) = {s(other)[i] : i \in DOMAIN s(other)}
  <2>1. Elements(c(other)) = Of(other)
    BY <1>4
  <2> QED
    BY ONLY <1>3, <2>1
<1>7. VersionsOf(Of(one)) = VersionsOf(Of(other))
  <2> HIDE DEF s, Of
  <2> QED
    BY <1>2, <1>5, <1>6
<1> QED
  BY <1>7

LEMMA DocumentsAreOfAttempt ==
    ASSUME AskInv
    PROVE  \A d \in Elements(Documents) : d \in Elements(ask.raw) /\ d.attempt = ask.attempt
<1> DEFINE A == {d \in Elements(ask.raw) : d.attempt = ask.attempt}
<1>1. Documents = Where(ask.raw, A) /\ IsSequence(ask.raw)
  BY DEF Documents, AskInv
<1> HIDE DEF A
<1>2. Elements(Documents) = {d \in Elements(ask.raw) : d \in A}
  BY <1>1, WhereElements
<1> QED
  BY <1>2 DEF A

LEMMA OffersAreOfHistory ==
    ASSUME HistoryInv
    PROVE  \A i \in 1..now : history.offers[i] \in Elements(history.offers)
<1>1. IsSequence(history.offers)
  BY ServerIsOffer DEF IsHistory
<1>2. DOMAIN history.offers = 1..Len(history.offers) /\ Len(history.offers) \in Nat
  BY <1>1, RangeOf
<1> QED
  BY <1>2 DEF HistoryInv, Elements

OfPart(transitions, part) == {t \in Elements(transitions) : t.part = part}

LEMMA FilesOfVersions ==
    ASSUME NEW h, VersionsNameTheirFiles(h), NEW one \in Elements(h.offers),
           NEW other \in Elements(h.offers), one.name = other.name, one.version = other.version,
           NEW part \in {"client", "sdcontent", "hdcontent"}
    PROVE  \A l \in DOMAIN one.chains, m \in DOMAIN other.chains :
              VersionsOf(OfPart(one.chains[l].transitions, part))
                 = VersionsOf(OfPart(other.chains[m].transitions, part))
              => OfPart(one.chains[l].transitions, part) = OfPart(other.chains[m].transitions, part)
<1> DEFINE Agree(a, b, q) ==
              VersionsOf(OfPart(a.transitions, q)) = VersionsOf(OfPart(b.transitions, q))
              => OfPart(a.transitions, q) = OfPart(b.transitions, q)
<1>1. \A a, b \in Elements(h.offers) :
         a.name = b.name /\ a.version = b.version =>
         \A l \in DOMAIN a.chains, m \in DOMAIN b.chains :
            \A q \in {"client", "sdcontent", "hdcontent"} : Agree(a.chains[l], b.chains[m], q)
  BY Zenon DEF VersionsNameTheirFiles, VersionsOf, OfPart
<1> HIDE DEF Agree
<1>2. \A l \in DOMAIN one.chains, m \in DOMAIN other.chains :
         Agree(one.chains[l], other.chains[m], part)
  BY <1>1
<1> QED
  BY <1>2 DEF Agree

\* The documents of a version vector have the same base parts: they have the same
\* versions of them, and their offers have one name and one version.
LEMMA BasesAgree ==
    ASSUME HistoryInv, AskInv, IsTraced(ask, now), ask.meta # NoMeta, Verdict = "ok",
           1 \in DOMAIN Documents, NEW d \in DOMAIN Documents,
           NEW p \in DOMAIN Selected, Selected[p].part \in {"client", "sdcontent", "hdcontent"}
    PROVE  OfPart(Documents[d].transitions, Selected[p].part)
              = OfPart(Documents[1].transitions, Selected[p].part)
<1> DEFINE docs == Documents
           part == Selected[p].part
           Set(i) == OfPart(docs[i].transitions, part)
<1>1. \A i \in DOMAIN docs : docs[i].name = docs[1].name /\ PartVerdict(docs[i], part) = "ok"
  BY VerdictsAgree
<1>2. \A i \in DOMAIN docs :
         /\ IsConnected(TransitionsOf(docs[i].transitions, part))
         /\ Signature(docs[i].transitions, part) = Signature(docs[1].transitions, part)
  BY <1>1 DEF PartVerdict
<1>3. \A i \in DOMAIN docs : IsSequence(docs[i].transitions)
  BY DocumentsAreRead DEF Elements, IsDocument
<1>4. \A i \in DOMAIN docs : docs[i] \in Elements(ask.raw) /\ docs[i].attempt = ask.attempt
  BY DocumentsAreOfAttempt DEF Elements
<1>5. \A i \in DOMAIN docs : \E o \in 1..now :
         IsReply(docs[i], history.offers[o]) /\ history.offers[o].version = ask.meta.version
  BY <1>4 DEF IsTraced, IsOffered
<1>6. VersionsOf(Set(d)) = VersionsOf(Set(1))
  <2> DEFINE one == docs[d].transitions
             other == docs[1].transitions
  <2>1. /\ IsSequence(one) /\ IsSequence(other)
        /\ IsConnected(TransitionsOf(one, part)) /\ IsConnected(TransitionsOf(other, part))
        /\ Signature(one, part) = Signature(other, part)
    BY <1>2, <1>3
  <2> HIDE DEF one, other, part
  <2>2. VersionsOf(OfPart(one, part)) = VersionsOf(OfPart(other, part))
    BY <2>1, SignatureHasVersions DEF OfPart
  <2> QED
    BY <2>2 DEF one, other
<1> HIDE DEF docs
<1>7. PICK i \in 1..now :
         IsReply(docs[d], history.offers[i]) /\ history.offers[i].version = ask.meta.version
  BY <1>5 DEF docs
<1>8. PICK j \in 1..now :
         IsReply(docs[1], history.offers[j]) /\ history.offers[j].version = ask.meta.version
  BY <1>5 DEF docs
<1> DEFINE one == history.offers[i]
           other == history.offers[j]
<1>9. one \in Elements(history.offers) /\ other \in Elements(history.offers)
  BY OffersAreOfHistory
<1>10. one.name = other.name /\ one.version = other.version
  BY <1>1, <1>7, <1>8 DEF IsReply, docs
<1>11. /\ docs[d].lang \in DOMAIN one.chains /\ docs[1].lang \in DOMAIN other.chains
       /\ OfPart(one.chains[docs[d].lang].transitions, part) = Set(d)
       /\ OfPart(other.chains[docs[1].lang].transitions, part) = Set(1)
  BY <1>7, <1>8 DEF IsReply
<1>12. VersionsNameTheirFiles(history)
  BY PublisherAssumption DEF HistoryInv
<1> HIDE DEF one, other, part
<1>13. \A l \in DOMAIN one.chains, m \in DOMAIN other.chains :
          VersionsOf(OfPart(one.chains[l].transitions, part))
             = VersionsOf(OfPart(other.chains[m].transitions, part))
          => OfPart(one.chains[l].transitions, part) = OfPart(other.chains[m].transitions, part)
  <2>1. part \in {"client", "sdcontent", "hdcontent"}
    BY DEF part
  <2> QED
    BY ONLY <1>9, <1>10, <1>12, <2>1, FilesOfVersions
<1> HIDE DEF Set
<1>14. Set(d) = Set(1)
  BY <1>6, <1>11, <1>13
<1> QED
  BY <1>14 DEF Set, docs, part

\* What the resolver pins is one release.
LEMMA VectorIsOneRelease ==
    ASSUME HistoryInv, AskInv, IsTraced(ask, now), ask.meta # NoMeta, Missing = {},
           Verdict = "ok", NEW pin,
           pin = [name |-> Documents[1].name, meta |-> ask.meta.version, parts |-> VersionVector]
    PROVE  IsOneRelease(pin, now)
<1> DEFINE docs == Documents
           languages == LanguagesFor(ask.meta)
           names == {p.part : p \in Elements(Selected)}
           three == <<"client", "sdcontent", "hdcontent">>
           base == Where(three, names)
           B(i) == PinnedPart(docs[1], base[i], NoLang, SeedsOf(docs[1].lang))
           L(i) == PinnedPart(docs[i], "locale", docs[i].lang, SeedsOf(docs[i].lang))
           bases == [i \in DOMAIN base |-> B(i)]
           locales == [i \in DOMAIN docs |-> L(i)]
<1>1. pin.name = docs[1].name /\ pin.meta = ask.meta.version /\ pin.parts = bases \o locales
  BY DEF VersionVector
<1>2. IsSequence(three) /\ Elements(three) = {"client", "sdcontent", "hdcontent"}
  BY DEF IsSequence, Elements
<1>3. IsSequence(docs) /\ \A d \in DOMAIN docs : IsDocument(docs[d])
  BY DocumentsAreRead DEF Elements
<1>4. 1 \in DOMAIN docs
  BY SomeDocument
<1>5. \A d \in DOMAIN docs, name \in names :
         IsConnected(TransitionsOf(docs[d].transitions, name))
  <2> TAKE d \in DOMAIN docs, name \in names
  <2>1. PICK p \in DOMAIN Selected : name = Selected[p].part
    BY DEF Elements
  <2> QED
    BY <2>1, VerdictsAreOk
<1>6. "locale" \in names
  <2>1. RequiredParts \subseteq names
    BY DEF AskInv, IsAccepted, IsServed, Selected
  <2> QED
    BY <2>1 DEF RequiredParts
<1>7. \A d \in DOMAIN docs, name \in names \cap Elements(three) :
         OfPart(docs[d].transitions, name) = OfPart(docs[1].transitions, name)
  <2> TAKE d \in DOMAIN docs, name \in names \cap Elements(three)
  <2>1. PICK p \in DOMAIN Selected : name = Selected[p].part
    BY DEF Elements
  <2> QED
    BY <1>2, <1>4, <2>1, BasesAgree
<1>8. \A d \in DOMAIN docs : docs[d].name = docs[1].name
  BY VerdictsAgree
<1>9. \A d \in DOMAIN docs : \E o \in 1..now :
         IsReply(docs[d], history.offers[o]) /\ history.offers[o].version = ask.meta.version
  <2>1. \A d \in DOMAIN docs : docs[d] \in Elements(ask.raw) /\ docs[d].attempt = ask.attempt
    BY DocumentsAreOfAttempt DEF Elements
  <2> QED
    BY <2>1 DEF IsTraced, IsOffered
\* A document for each language.
<1>10. DOMAIN docs = DOMAIN languages /\ \A d \in DOMAIN docs : docs[d].lang = languages[d]
  <2>1. Len(docs) <= Len(languages) /\ \A d \in DOMAIN docs : docs[d].lang = languages[d]
    BY DocumentsAreOfThis DEF IsTraced, AreInOrder
  <2>2. IsSequence(languages)
    BY LanguagesAreSequence
  <2>3. ~\E i \in DOMAIN languages : i > Len(docs)
    BY DEF Missing
  <2> HIDE DEF docs, languages
  <2>4. /\ DOMAIN docs = 1..Len(docs) /\ Len(docs) \in Nat
        /\ DOMAIN languages = 1..Len(languages) /\ Len(languages) \in Nat
    BY <1>3, <2>2, RangeOf
  <2>5. Len(docs) = Len(languages)
    <3>1. ~(Len(languages) > Len(docs))
      <4>1. Len(languages) > Len(docs) => Len(languages) \in DOMAIN languages
        BY <2>4
      <4> QED
        BY <2>3, <4>1
    <3>2. Len(docs) <= Len(languages) /\ Len(docs) \in Nat /\ Len(languages) \in Nat
      BY <2>1, <2>4
    <3> QED
      BY <3>1, <3>2
  <2> QED
    BY <2>1, <2>4, <2>5
<1>11. \A d \in DOMAIN docs : docs[d].lang # NoLang
  <2>1. NoLang \notin Elements(languages)
    <3>1. IsPublished(ask.meta, now)
      BY DEF IsTraced
    <3>2. NoLang \notin Elements(ask.meta.languages)
      <4>1. PICK i \in 1..now : \E at \in DOMAIN history.offers[i].addresses :
               /\ ask.meta = history.offers[i].addresses[at]
               /\ history.offers[i].addresses[at].kind = "metadata"
        BY <3>1 DEF IsPublished
      <4>2. IsOffer(history.offers[i])
        BY OffersAreOfHistory, ServerIsOffer DEF IsHistory
      <4> QED
        BY <4>1, <4>2 DEF IsOffer
    <3>3. NoLang \notin Elements(Request.languages)
      BY ServerIsOffer DEF IsHistory, Request
    <3> QED
      BY <3>2, <3>3 DEF LanguagesFor
  <2> HIDE DEF docs, languages
  <2> QED
    BY <1>10, <2>1 DEF Elements
<1>12. {docs[d].lang : d \in DOMAIN docs} = Elements(languages)
  <2> HIDE DEF docs, languages
  <2> QED
    BY <1>10 DEF Elements
<1> HIDE DEF docs, languages, names, three
<1>13. IsSequence(base) /\ \A i \in DOMAIN base : base[i] \in names \cap Elements(three)
  <2>1. IsSequence(base) /\ Elements(base) = {x \in Elements(three) : x \in names}
    BY <1>2, WhereElements
  <2> HIDE DEF base
  <2> QED
    BY <2>1 DEF Elements
<1> HIDE DEF base
\* The base parts are those of the first document, the locales those of their own.
<1>14. \A i \in DOMAIN base :
          /\ B(i).lang = NoLang /\ B(i).part = base[i]
          /\ Elements(B(i).transitions) = OfPart(docs[1].transitions, base[i])
  <2> TAKE i \in DOMAIN base
  <2>1. IsDocument(docs[1]) /\ IsConnected(TransitionsOf(docs[1].transitions, base[i]))
    BY <1>3, <1>4, <1>5, <1>13
  <2> QED
    BY <2>1, PinnedPartHasAll DEF OfPart
<1>15. \A d \in DOMAIN docs :
          /\ L(d).lang = docs[d].lang /\ L(d).part = "locale"
          /\ Elements(L(d).transitions) = OfPart(docs[d].transitions, "locale")
  <2> TAKE d \in DOMAIN docs
  <2>1. IsDocument(docs[d]) /\ IsConnected(TransitionsOf(docs[d].transitions, "locale"))
    BY <1>3, <1>5, <1>6
  <2> QED
    BY <2>1, PinnedPartHasAll DEF OfPart
<1> HIDE DEF B, L
<1>16. Elements(pin.parts) = Elements(bases) \cup Elements(locales)
  <2>1. IsSequence(bases)
    <3>1. DOMAIN bases = DOMAIN base /\ bases = [i \in DOMAIN bases |-> bases[i]]
      OBVIOUS
    <3> HIDE DEF bases
    <3> QED
      BY <1>13, <3>1, MappedSequence
  <2>2. IsSequence(locales)
    <3>1. DOMAIN locales = DOMAIN docs /\ locales = [i \in DOMAIN locales |-> locales[i]]
      OBVIOUS
    <3> HIDE DEF locales
    <3> QED
      BY <1>3, <3>1, MappedSequence
  <2> HIDE DEF bases, locales
  <2> QED
    BY <1>1, <2>1, <2>2, JoinedSequences
<1>17. Elements(bases) = {B(i) : i \in DOMAIN base} /\ Elements(locales) = {L(d) : d \in DOMAIN docs}
  BY DEF Elements
<1> HIDE DEF bases, locales
<1>18. LocalesOf(pin) = {L(d) : d \in DOMAIN docs}
  BY <1>11, <1>14, <1>15, <1>16, <1>17 DEF LocalesOf
<1>19. {p.lang : p \in LocalesOf(pin)} = Elements(languages)
  BY <1>12, <1>15, <1>18
\* Each has the languages that were asked for.
<1> DEFINE Metadata(offer) == {a \in DOMAIN offer.addresses :
                                 /\ offer.addresses[a].kind = "metadata"
                                 /\ offer.addresses[a].version = pin.meta}
           Of(offer) == {Elements(offer.addresses[at].languages) : at \in Metadata(offer)}
<1>20. Request.languages = All => Elements(languages) \in UNION {Of(offer) : offer \in OffersUpTo(now)}
  <2> SUFFICES ASSUME Request.languages = All
               PROVE  Elements(languages) \in UNION {Of(offer) : offer \in OffersUpTo(now)}
    OBVIOUS
  <2>1. IsPublished(ask.meta, now)
    BY DEF IsTraced
  <2>2. PICK i \in 1..now : \E at \in DOMAIN history.offers[i].addresses :
           /\ ask.meta = history.offers[i].addresses[at]
           /\ history.offers[i].addresses[at].kind = "metadata"
    BY <2>1 DEF IsPublished
  <2> DEFINE offer == history.offers[i]
  <2>3. PICK at \in DOMAIN offer.addresses :
           ask.meta = offer.addresses[at] /\ offer.addresses[at].kind = "metadata"
    BY <2>2
  <2>4. offer \in OffersUpTo(now)
    BY DEF OffersUpTo
  <2>5. languages = ask.meta.languages
    BY DEF languages, LanguagesFor
  <2> HIDE DEF offer
  <2>6. at \in Metadata(offer)
    BY <1>1, <2>3
  <2> HIDE DEF Metadata
  <2>7. Elements(languages) \in Of(offer)
    BY <2>3, <2>5, <2>6
  <2> HIDE DEF Of
  <2> QED
    BY <2>4, <2>7
<1>21. Request.languages # All => Elements(languages) = Elements(Request.languages)
  BY DEF languages, LanguagesFor
\* Each locale is beside the same base in the offer of its document.
<1>22. ASSUME NEW locale \in LocalesOf(pin)
       PROVE  \E offer \in OffersUpTo(now) :
                 /\ offer.name = pin.name /\ offer.version = pin.meta
                 /\ locale.lang \in DOMAIN offer.chains
                 /\ \A p \in (Elements(pin.parts) \ LocalesOf(pin)) \cup {locale} :
                       IsOfferedBy(offer, locale.lang, p)
  <2>1. PICK d \in DOMAIN docs : locale = L(d)
    BY <1>18, <1>22
  <2>2. PICK o \in 1..now :
           IsReply(docs[d], history.offers[o]) /\ history.offers[o].version = ask.meta.version
    BY <1>9
  <2> DEFINE offer == history.offers[o]
  <2>3. offer \in OffersUpTo(now)
    BY DEF OffersUpTo
  <2>4. offer.name = pin.name /\ offer.version = pin.meta
    BY <1>1, <1>8, <2>2 DEF IsReply
  <2>5. locale.lang \in DOMAIN offer.chains
    BY <1>15, <2>1, <2>2 DEF IsReply
  <2>6. \A name : {t \in Elements(offer.chains[locale.lang].transitions) : t.part = name}
                    = OfPart(docs[d].transitions, name)
    BY <1>15, <2>1, <2>2 DEF IsReply, OfPart
  <2> HIDE DEF offer
  <2>7. IsOfferedBy(offer, locale.lang, locale)
    BY <1>15, <2>1, <2>6 DEF IsOfferedBy
  <2>8. ASSUME NEW p \in Elements(pin.parts) \ LocalesOf(pin)
        PROVE  IsOfferedBy(offer, locale.lang, p)
    <3>1. PICK i \in DOMAIN base : p = B(i)
      BY <1>16, <1>17, <1>18, <2>8
    <3>2. p.part = base[i] /\ Elements(p.transitions) = OfPart(docs[1].transitions, base[i])
      BY <1>14, <3>1
    <3>3. OfPart(docs[d].transitions, base[i]) = OfPart(docs[1].transitions, base[i])
      BY <1>7, <1>13
    <3> QED
      BY <2>6, <3>2, <3>3 DEF IsOfferedBy
  <2> QED
    BY <2>3, <2>4, <2>5, <2>7, <2>8
<1>23. {p.lang : p \in LocalesOf(pin)} \in
          IF Request.languages # All THEN {Elements(Request.languages)}
          ELSE UNION {Of(offer) : offer \in OffersUpTo(now)}
  <2> HIDE DEF Of
  <2> QED
    BY <1>19, <1>20, <1>21
<1> QED
  BY <1>22, <1>23 DEF IsOneRelease

\* What a step of the resolver has read is traced, and what it pins is one release.
LEMMA ResolveKeepsTrace ==
    ASSUME HistoryInv, AskInv, IsTraced(ask, now), Resolve
    PROVE  /\ IsTraced(ask', now)
           /\ ask'.status = "pinned" => IsOneRelease(pinned', now)
<1> DEFINE Goal == IsTraced(ask', now) /\ (ask'.status = "pinned" => IsOneRelease(pinned', now))
<1>1. ASSUME Refuse
      PROVE  Goal
  <2>1. ask' = Ended("refused")
    BY <1>1 DEF Refuse
  <2>2. ask'.status = "refused"
    BY <2>1, EndedIs
  <2> QED
    BY <2>1, <2>2, EndedIsTraced
<1>2. ASSUME Again
      PROVE  Goal
  <2>1. CASE GoOn(Asking(ask.attempt + 1, ask.at, ask.raw))
    <3>1. ask' = Asking(ask.attempt + 1, ask.at, ask.raw)
      BY <2>1 DEF GoOn
    <3>2. ask'.status = "asking"
      BY <3>1, StartAsks
    <3> QED
      BY <3>1, <3>2, AgainIsTraced
  <2> QED
    BY <1>1, <1>2, <2>1 DEF Again
<1>3. CASE SourceFails
  <2>1. ask' = Ended("failed")
    BY <1>3 DEF SourceFails, GoOn
  <2>2. ask'.status = "failed"
    BY <2>1, EndedIs
  <2> QED
    BY <2>1, <2>2, EndedIsTraced
<1>4. CASE AskNobody
  BY <1>1, <1>4 DEF AskNobody
<1>5. CASE FollowMove
  <2> DEFINE to == Destination(Server.addresses[ask.at])
             new == [ask EXCEPT !.at = to, !.visited = @ \cup {to}]
  <2>1. ask.status = "asking" /\ ask.meta = NoMeta /\ (GoOn(new) \/ Refuse)
    BY <1>5 DEF FollowMove, AsksForMetadata
  <2>2. CASE GoOn(new)
    <3>1. ask' = new
      BY <2>2 DEF GoOn
    <3> HIDE DEF to
    <3>2. /\ new.attempt = ask.attempt /\ new.raw = ask.raw /\ new.meta = NoMeta
          /\ new.status = "asking"
      BY <2>1
    <3> HIDE DEF new
    <3>3. IsTraced(new, now)
      BY <2>1, <3>2, MoveIsTraced
    <3> QED
      BY <3>1, <3>2, <3>3
  <2> QED
    BY <1>1, <2>1, <2>2
<1>6. CASE AcceptMetadata
  <2> DEFINE meta == Server.addresses[ask.at]
             at == [ask.at EXCEPT !.app = meta.app]
             new == [ask EXCEPT !.at = at, !.meta = meta]
  <2>1. /\ ask.status = "asking" /\ ask.meta = NoMeta
        /\ ask.at \in DOMAIN Server.addresses /\ meta.kind = "metadata"
        /\ GoOn(new) \/ Refuse
    BY <1>6 DEF AcceptMetadata, AsksForMetadata
  <2>2. CASE GoOn(new)
    <3>1. ask' = new
      BY <2>2 DEF GoOn
    <3>2. "meta" \in DOMAIN ask
      BY DEF AskInv
    <3> HIDE DEF at, meta
    <3>3. /\ new.attempt = ask.attempt /\ new.raw = ask.raw /\ new.meta = meta
          /\ new.status = "asking"
      BY <2>1, <3>2
    <3> HIDE DEF new
    <3>4. new.meta = Server.addresses[ask.at]
      BY <3>3 DEF meta
    <3>5. Server.addresses[ask.at].kind = "metadata"
      BY <2>1 DEF meta
    <3>6. IsTraced(new, now)
      BY <2>1, <3>3, <3>4, <3>5, MetadataIsTraced
    <3> QED
      BY <3>1, <3>3, <3>6
  <2> QED
    BY <1>1, <2>1, <2>2
<1>7. CASE ReadChain
  <2> DEFINE language == LanguagesFor(ask.meta)[Min(Missing)]
             document == [attempt |-> ask.attempt, lang |-> language, name |-> Server.name,
                          transitions |-> Server.chains[language].transitions,
                          seeds |-> Server.chains[language].seeds]
             new == [ask EXCEPT !.raw = Append(@, document)]
  <2>1. /\ ask.status = "asking" /\ ask.meta # NoMeta /\ Missing # {}
        /\ \/ Again \/ Refuse
           \/ /\ Server.version = ask.meta.version /\ language \in DOMAIN Server.chains
              /\ GoOn(new)
    BY <1>7 DEF ReadChain
  <2>2. CASE /\ Server.version = ask.meta.version /\ language \in DOMAIN Server.chains
             /\ GoOn(new)
    <3>1. ask' = new
      BY <2>2 DEF GoOn
    <3>2. IsReply(document, Server) /\ document.attempt = ask.attempt /\ document.lang = language
      BY <2>2 DEF IsReply
    <3>3. "raw" \in DOMAIN ask
      BY DEF AskInv
    <3> HIDE DEF document
    <3>4. /\ new.attempt = ask.attempt /\ new.raw = Append(ask.raw, document)
          /\ new.meta = ask.meta /\ new.status = "asking"
      BY <2>1, <3>3
    <3> HIDE DEF new
    <3>5. IsTraced(new, now)
      BY <2>1, <2>2, <3>2, <3>4, ReplyIsTraced
    <3> QED
      BY <3>1, <3>4, <3>5
  <2> QED
    BY <1>1, <1>2, <2>1, <2>2
<1>8. CASE Pin
  <2>1. ask.meta # NoMeta /\ Missing = {}
    BY <1>8 DEF Pin
  <2>2. CASE /\ Verdict = "ok"
             /\ pinned' = [name |-> Documents[1].name, meta |-> ask.meta.version,
                           parts |-> VersionVector]
             /\ ask' = Ended("pinned")
             /\ UNCHANGED <<history, now>>
    <3>1. IsOneRelease(pinned', now)
      BY <2>1, <2>2, VectorIsOneRelease
    <3> QED
      BY <2>2, <3>1, EndedIsTraced
  <2> QED
    BY <1>1, <1>2, <1>8, <2>2 DEF Pin
<1> QED
  BY <1>3, <1>4, <1>5, <1>6, <1>7, <1>8 DEF Resolve

\* What is traced depends on the history and the answers alone.
LEMMA TraceFrame ==
    ASSUME UNCHANGED history
    PROVE  /\ IsTraced(ask', now') => IsTraced(ask, now)'
           /\ IsOneRelease(pinned', now') => IsOneRelease(pinned, now)'
<1>1. Request' = Request
  BY DEF Request
<1>2. IsTraced(ask', now') => IsTraced(ask, now)'
  BY <1>1 DEF IsTraced, IsOffered, IsReply, IsPublished, DocumentsOf, AreInOrder, LanguagesFor
<1>3. IsOneRelease(pinned', now') => IsOneRelease(pinned, now)'
  BY <1>1 DEF IsOneRelease, LocalesOf, OffersUpTo, IsOfferedBy
<1> QED
  BY <1>2, <1>3

LEMMA OriginStart ==
    ASSUME Init
    PROVE  OriginInv
<1>1. stage = 1 /\ ask = Start /\ now = 1
  BY DEF Init, ResolveInit
<1>2. Start.attempt = 1 /\ Start.raw = << >> /\ Start.meta = NoMeta
  BY DEF Start, Asking
<1>3. IsTraced(ask, now)
  BY <1>1, <1>2, NoDocuments DEF IsTraced
<1> QED
  BY <1>1, <1>3 DEF OriginInv

LEMMA OriginStays ==
    ASSUME StageInv, ResolveInv, OriginInv, [Next]_vars
    PROVE  OriginInv'
<1>1. IsTraced(ask, now) /\ HistoryInv /\ AskInv
  BY DEF OriginInv, ResolveInv
<1>2. CASE Stages[stage] = "resolve" /\ ResolveStep
  <2>1. Resolve /\ (ask'.status # "pinned" => stage' = stage) /\ stage = 1
    BY <1>2, StagesAre DEF ResolveStep, StageInv
  <2>2. UNCHANGED <<history, now>>
    BY <1>1, <2>1, ResolveKeeps
  <2>3. IsTraced(ask', now) /\ (ask'.status = "pinned" => IsOneRelease(pinned', now))
    BY <1>1, <2>1, ResolveKeepsTrace
  <2>4. IsTraced(ask', now') /\ (stage' # 1 => IsOneRelease(pinned', now'))
    BY <2>1, <2>2, <2>3
  <2>5. IsTraced(ask, now)' /\ (stage' # 1 => IsOneRelease(pinned, now)')
    BY <2>2, <2>4, TraceFrame
  <2> QED
    BY <2>5 DEF OriginInv
<1>3. CASE PublisherMovesOn
  <2>1. now' = now + 1 /\ UNCHANGED <<history, ask, pinned, stage>>
    BY <1>3 DEF PublisherMovesOn, Republish, contentVars
  <2>2. now \in Nat /\ now' \in Nat /\ now <= now'
    BY <1>1, <2>1, NowIsNat
  <2>3. IsTraced(ask', now')
    BY <1>1, <2>1, <2>2, TracedStays
  <2>4. stage # 1 => IsOneRelease(pinned', now')
    BY <2>1, <2>2, OneReleaseStays DEF OriginInv
  <2>5. IsTraced(ask, now)' /\ (stage # 1 => IsOneRelease(pinned, now)')
    BY <2>1, <2>3, <2>4, TraceFrame
  <2> QED
    BY <2>1, <2>5 DEF OriginInv
<1>4. CASE UNCHANGED resolveVars /\ (stage = 1 => stage' = 1)
  <2>1. UNCHANGED history /\ UNCHANGED now /\ UNCHANGED ask /\ UNCHANGED pinned
    BY <1>4 DEF resolveVars
  <2>2. IsTraced(ask', now') /\ (stage' # 1 => IsOneRelease(pinned', now'))
    BY <1>4, <2>1 DEF OriginInv
  <2>3. IsTraced(ask, now)' /\ (stage' # 1 => IsOneRelease(pinned, now)')
    BY <2>1, <2>2, TraceFrame
  <2> QED
    BY <2>3 DEF OriginInv
<1> QED
  BY <1>2, <1>3, <1>4, StepsKeepThePin

\* What is pinned is one release, however often the publisher has gone on while the
\* resolver asked: the metadata and the base parts of one offer, and for each
\* language that was asked for a locale that was offered beside the same base.
THEOREM PinStaysOneRelease == Spec => []PinnedIsOneRelease
<1>1. Init => OriginInv
  BY OriginStart
<1>2. ContentInv /\ OriginInv /\ [Next]_vars => OriginInv'
  BY OriginStays DEF ContentInv, ReleaseInv
<1>3. ContentInv /\ OriginInv => PinnedIsOneRelease
  <2> SUFFICES ASSUME ContentInv, OriginInv, Stages[stage] # "resolve"
               PROVE  IsOneRelease(pinned, now)
    BY DEF PinnedIsOneRelease, IsOneRelease, LocalesOf, OffersUpTo
  <2>1. stage # 1
    BY DEF Stages
  <2> QED
    BY <2>1 DEF OriginInv
<1> QED
  BY <1>1, <1>2, <1>3, ContentInvariant, PTL DEF Spec

-----------------------------------------------------------------------------
(* Why a stage refuses.                                                    *)

\* A run that has ended has come to a stage that does not accept what it finds.
RefusalInv ==
    LET readable == AssembledReadable(out.readable, out.transformed)
        snapshot == Populated(out.files, out.tree, out.libraries, out.stubs, out.packages,
                              out.conflicts)
    IN  /\ refused = "index-vfs" =>
              /\ Stages[stage] = "index-vfs"
              /\ ~IsIndexable(rot, out.tree, TheRelease.client)
        /\ refused = "materialize-vfs" =>
              Stages[stage] = "materialize-vfs" /\ ~IsMaterializable(rot, out.index)
        /\ refused = "plan-readable" =>
              Stages[stage] = "plan-readable" /\ ~IsReadable(rot, out.materialized)
        /\ refused = "transform-readable" =>
              Stages[stage] = "transform-readable" /\ ~AreTransformable(rot, out.readable)
        /\ refused = "decompile-actionscript" =>
              Stages[stage] = "decompile-actionscript" /\ ~AreDecompilable(rot, out.readable)
        /\ refused = "assemble-readable" =>
              /\ Stages[stage] = "assemble-readable"
              /\ ~(/\ HasAllOutputs(out.readable, out.transformed)
                   /\ NamesAreDisjoint(readable)
                   /\ LayersAreSound(rot, readable, out.libraries))
        /\ refused = "generate-engine-stubs" =>
              Stages[stage] = "generate-engine-stubs" /\ Binaries(out.tree) = {}
        /\ refused = "finalize-readable" =>
              /\ Stages[stage] = "finalize-readable"
              /\ ~IsFinalizable(rot, out.files, out.libraries, out.stubs)
        /\ refused = "snapshot" =>
              Stages[stage] = "snapshot" /\ ~IsSealable(rot, out.tree, snapshot)

\* The stages that RefusalInv speaks of.
LateStages == {"index-vfs", "materialize-vfs", "plan-readable", "transform-readable",
               "decompile-actionscript", "assemble-readable", "generate-engine-stubs",
               "finalize-readable", "snapshot"}

LEMMA NotRefused ==
    ASSUME refused' \notin LateStages
    PROVE  RefusalInv'
BY DEF RefusalInv, LateStages

\* A stage that does not commit its result refuses, and leaves all as it is.
LEMMA StageRefuses ==
    ASSUME NEW name, NEW accepted, NEW result, Stage(name, accepted, result)
    PROVE  \/ refused' = ""
           \/ /\ refused' = name /\ ~accepted
              /\ Stages[stage] = name /\ stage' = stage /\ out' = out /\ rot' = rot
              /\ UNCHANGED resolveVars
BY DEF Stage

LEMMA NoStageIsNameless == "" \notin LateStages /\ Tool \notin LateStages
BY DEF LateStages, Tool

LEMMA RefusalStays ==
    ASSUME RefusalInv, [Next]_vars
    PROVE  RefusalInv'
<1>1. ASSUME NEW name, NEW accepted, NEW result, Stage(name, accepted, result),
             name \notin LateStages
      PROVE  RefusalInv'
  <2>1. refused' = "" \/ refused' = name
    BY <1>1, StageRefuses
  <2> QED
    BY <1>1, <2>1, NoStageIsNameless, NotRefused
<1>2. CASE UNCHANGED vars
  <2>1. /\ refused' = refused /\ stage' = stage /\ out' = out /\ rot' = rot
        /\ UNCHANGED resolveVars
    BY <1>2 DEF vars, contentVars, resolveVars
  <2>2. TheRelease' = TheRelease
    BY <2>1, ReleaseUnchanged
  <2> QED
    BY <2>1, <2>2 DEF RefusalInv
<1>3. CASE ResolveStep
  <2>1. refused' \in {"resolve", Tool, ""}
    BY <1>3 DEF ResolveStep
  <2> QED
    BY <2>1, NoStageIsNameless, NotRefused DEF LateStages
<1>4. CASE PublisherMovesOn
  <2>1. refused' = ""
    BY <1>4 DEF PublisherMovesOn, contentVars
  <2> QED
    BY <2>1, NoStageIsNameless, NotRefused
<1>5. CASE PlanAcquisition
  BY <1>1, <1>5 DEF PlanAcquisition, LateStages
<1>6. CASE Download
  BY <1>1, <1>6 DEF Download, LateStages
<1>7. CASE Verify
  BY <1>1, <1>7 DEF Verify, LateStages
<1>8. CASE AssembleClient
  BY <1>1, <1>8 DEF AssembleClient, LateStages
<1>9. CASE IndexVfs
  <2> DEFINE result == [out EXCEPT !.index = Index(rot, out.tree, TheRelease.client),
                          !.packages = PackagesManifest(out.tree, OrderOf(rot, out.tree, TheRelease.client)),
                          !.conflicts = ConflictsManifest(Candidates(rot, out.tree,
                                            OrderOf(rot, out.tree, TheRelease.client)))]
  <2>1. Stage("index-vfs", IsIndexable(rot, out.tree, TheRelease.client), result)
    BY <1>9 DEF IndexVfs
  <2> DEFINE accepted == IsIndexable(rot, out.tree, TheRelease.client)
  <2> HIDE DEF accepted, result
  <2>2. \/ refused' = ""
        \/ /\ refused' = "index-vfs" /\ ~accepted /\ Stages[stage] = "index-vfs"
           /\ stage' = stage /\ out' = out /\ rot' = rot /\ UNCHANGED resolveVars
    BY <2>1, StageRefuses DEF accepted
  <2>3. CASE refused' = ""
    BY <2>3, NoStageIsNameless, NotRefused
  <2>4. CASE refused' # ""
    <3>1. TheRelease' = TheRelease
      BY <2>2, <2>4, ReleaseUnchanged
    <3> QED
      BY <2>2, <2>4, <3>1 DEF RefusalInv, accepted
  <2> QED
    BY <2>3, <2>4
<1>10. CASE MaterializeVfs
  <2> DEFINE accepted == IsMaterializable(rot, out.index)
  <2>1. \/ refused' = ""
        \/ /\ refused' = "materialize-vfs" /\ ~accepted /\ Stages[stage] = "materialize-vfs"
           /\ stage' = stage /\ out' = out /\ rot' = rot
    BY <1>10, StageRefuses DEF MaterializeVfs
  <2>2. CASE refused' = ""
    BY <2>2, NoStageIsNameless, NotRefused
  <2>3. CASE refused' # ""
    BY <2>1, <2>3 DEF RefusalInv
  <2> QED
    BY <2>2, <2>3
<1>11. CASE PlanReadable
  <2> DEFINE accepted == IsReadable(rot, out.materialized)
  <2>1. \/ refused' = ""
        \/ /\ refused' = "plan-readable" /\ ~accepted /\ Stages[stage] = "plan-readable"
           /\ stage' = stage /\ out' = out /\ rot' = rot
    BY <1>11, StageRefuses DEF PlanReadable
  <2>2. CASE refused' = ""
    BY <2>2, NoStageIsNameless, NotRefused
  <2>3. CASE refused' # ""
    BY <2>1, <2>3 DEF RefusalInv
  <2> QED
    BY <2>2, <2>3
<1>12. CASE TransformReadable
  <2> DEFINE accepted == AreTransformable(rot, out.readable)
  <2>1. \/ refused' = ""
        \/ /\ refused' = "transform-readable" /\ ~accepted /\ Stages[stage] = "transform-readable"
           /\ stage' = stage /\ out' = out /\ rot' = rot
    BY <1>12, StageRefuses DEF TransformReadable
  <2>2. CASE refused' = ""
    BY <2>2, NoStageIsNameless, NotRefused
  <2>3. CASE refused' # ""
    BY <2>1, <2>3 DEF RefusalInv
  <2> QED
    BY <2>2, <2>3
<1>13. CASE DecompileActionScript
  <2> DEFINE accepted == AreDecompilable(rot, out.readable)
  <2>1. \/ refused' = ""
        \/ /\ refused' = "decompile-actionscript" /\ ~accepted
           /\ Stages[stage] = "decompile-actionscript"
           /\ stage' = stage /\ out' = out /\ rot' = rot
    BY <1>13, StageRefuses DEF DecompileActionScript
  <2>2. CASE refused' = ""
    BY <2>2, NoStageIsNameless, NotRefused
  <2>3. CASE refused' # ""
    BY <2>1, <2>3 DEF RefusalInv
  <2> QED
    BY <2>2, <2>3
<1>14. CASE AssembleReadable
  <2> DEFINE files == AssembledReadable(out.readable, out.transformed)
             accepted == /\ HasAllOutputs(out.readable, out.transformed)
                         /\ NamesAreDisjoint(files)
                         /\ LayersAreSound(rot, files, out.libraries)
             result == [out EXCEPT !.files = files]
  <2>1. Stage("assemble-readable", accepted, result)
    BY <1>14 DEF AssembleReadable
  <2> HIDE DEF accepted, result
  <2>2. \/ refused' = ""
        \/ /\ refused' = "assemble-readable" /\ ~accepted /\ Stages[stage] = "assemble-readable"
           /\ stage' = stage /\ out' = out /\ rot' = rot
    BY <2>1, StageRefuses
  <2>3. CASE refused' = ""
    BY <2>3, NoStageIsNameless, NotRefused
  <2>4. CASE refused' # ""
    BY <2>2, <2>4 DEF RefusalInv, accepted
  <2> QED
    BY <2>3, <2>4
<1>15. CASE GenerateEngineStubs
  <2> DEFINE accepted == Binaries(out.tree) # {}
  <2>1. \/ refused' = ""
        \/ /\ refused' = "generate-engine-stubs" /\ ~accepted
           /\ Stages[stage] = "generate-engine-stubs"
           /\ stage' = stage /\ out' = out /\ rot' = rot
    BY <1>15, StageRefuses DEF GenerateEngineStubs
  <2>2. CASE refused' = ""
    BY <2>2, NoStageIsNameless, NotRefused
  <2>3. CASE refused' # ""
    BY <2>1, <2>3 DEF RefusalInv
  <2> QED
    BY <2>2, <2>3
<1>16. CASE FinalizeReadable
  <2> DEFINE accepted == IsFinalizable(rot, out.files, out.libraries, out.stubs)
  <2>1. \/ refused' = ""
        \/ /\ refused' = "finalize-readable" /\ ~accepted /\ Stages[stage] = "finalize-readable"
           /\ stage' = stage /\ out' = out /\ rot' = rot
    BY <1>16, StageRefuses DEF FinalizeReadable
  <2>2. CASE refused' = ""
    BY <2>2, NoStageIsNameless, NotRefused
  <2>3. CASE refused' # ""
    BY <2>1, <2>3 DEF RefusalInv
  <2> QED
    BY <2>2, <2>3
<1>17. CASE Snapshot
  <2> DEFINE snapshot == Populated(out.files, out.tree, out.libraries, out.stubs, out.packages,
                                   out.conflicts)
             accepted == IsSealable(rot, out.tree, snapshot)
             result == [out EXCEPT !.snapshot = snapshot]
  <2>1. Stage("snapshot", accepted, result)
    BY <1>17 DEF Snapshot
  <2> HIDE DEF accepted, result
  <2>2. \/ refused' = ""
        \/ /\ refused' = "snapshot" /\ ~accepted /\ Stages[stage] = "snapshot"
           /\ stage' = stage /\ out' = out /\ rot' = rot
    BY <2>1, StageRefuses
  <2>3. CASE refused' = ""
    BY <2>3, NoStageIsNameless, NotRefused
  <2>4. CASE refused' # ""
    BY <2>2, <2>4 DEF RefusalInv, accepted
  <2> QED
    BY <2>3, <2>4
<1>18. CASE ToolFails
  <2>1. refused' = Tool
    BY <1>18 DEF ToolFails
  <2> QED
    BY <2>1, NoStageIsNameless, NotRefused
<1>19. CASE Rot
  <2>1. refused' = ""
    BY <1>19 DEF Rot
  <2> QED
    BY <2>1, NoStageIsNameless, NotRefused
<1> QED
  BY <1>2, <1>3, <1>4, <1>5, <1>6, <1>7, <1>8, <1>9, <1>10, <1>11, <1>12, <1>13, <1>14, <1>15,
     <1>16, <1>17, <1>18, <1>19 DEF Next

-----------------------------------------------------------------------------
(* The packages that the snapshot names.                                   *)

IsListed(f, packages) ==
    \E p \in packages : p.lang = f.lang /\ p.path = f.path /\ p.digest = f.body

\* From index-vfs on, each package of the tree is one of the packages manifest.
PackagesInv == stage > 6 => \A f \in out.tree : IsPackage(f) => IsListed(f, out.packages)

LEMMA PackagesAreListed ==
    ASSUME NEW T, NEW order, NEW f \in T, IsPackage(f)
    PROVE  IsListed(f, PackagesManifest(T, order))
<1> DEFINE p == [lang |-> f.lang, path |-> f.path, digest |-> f.body,
                 precedence |-> Position(order, f.path)]
<1>1. p \in PackagesManifest(T, order)
  BY DEF PackagesManifest
<1>2. p.lang = f.lang /\ p.path = f.path /\ p.digest = f.body
  OBVIOUS
<1> HIDE DEF p
<1> QED
  BY <1>1, <1>2 DEF IsListed

LEMMA PackagesStay ==
    ASSUME ContentInv, PackagesInv, [Next]_vars
    PROVE  PackagesInv'
<1>1. StageInv
  BY DEF ContentInv, ReleaseInv
<1>2. ASSUME stage' = stage \/ (stage' = stage + 1 /\ stage # 6),
             stage' > 6 => out'.tree = out.tree /\ out'.packages = out.packages
      PROVE  PackagesInv'
  <2> SUFFICES ASSUME stage' > 6
               PROVE  \A f \in out'.tree : IsPackage(f) => IsListed(f, out'.packages)
    BY DEF PackagesInv
  <2>1. stage > 6
    BY <1>1, <1>2 DEF StageInv
  <2> QED
    BY <1>2, <2>1 DEF PackagesInv
<1>3. ASSUME out' = out, stage' = stage
      PROVE  PackagesInv'
  BY <1>3 DEF PackagesInv
<1>4. ASSUME NEW name, NEW accepted, NEW result, Stage(name, accepted, result), stage # 6,
             stage > 6 => result.tree = out.tree /\ result.packages = out.packages
      PROVE  PackagesInv'
  <2>1. \/ stage' = stage /\ out' = out
        \/ stage' = stage + 1 /\ out' = result
    BY <1>4 DEF Stage
  <2>2. CASE stage' = stage /\ out' = out
    BY <1>3, <2>2
  <2>3. CASE stage' = stage + 1 /\ out' = result
    <3>1. stage' > 6 => stage > 6
      BY <1>1, <1>4, <2>3 DEF StageInv
    <3> QED
      BY <1>2, <1>4, <2>3, <3>1
  <2> QED
    BY <2>1, <2>2, <2>3
<1>t. "tree" \in DOMAIN out /\ "packages" \in DOMAIN out
  BY <1>1, FieldsOfNothing DEF StageInv
<1>5. CASE UNCHANGED vars
  BY <1>3, <1>5 DEF vars
<1>6. CASE ResolveStep
  <2>1. stage = 1 /\ out' = out /\ stage' \in {1, 2}
    <3>1. stage = 1
      BY <1>1, <1>6, StagesAre DEF ResolveStep, StageInv
    <3>2. out' = out /\ (stage' = stage + 1 \/ stage' = stage)
      BY <1>6 DEF ResolveStep
    <3> QED
      BY <3>1, <3>2
  <2> QED
    BY <1>2, <2>1
<1>7. CASE PublisherMovesOn \/ ToolFails \/ Rot
  BY <1>3, <1>7 DEF PublisherMovesOn, contentVars, ToolFails, Rot
<1>8. CASE PlanAcquisition
  <2> DEFINE result == [out EXCEPT !.plan = Plan(TheRelease)]
  <2>1. Stage("plan-acquisition", IsPlannable(TheRelease), result)
    BY <1>8 DEF PlanAcquisition
  <2>2. stage = 2
    BY <1>1, <2>1, StagesAre DEF Stage, StageInv
  <2> HIDE DEF result
  <2> QED
    BY <1>4, <2>1, <2>2
<1>9. CASE Download
  <2> DEFINE result == [out EXCEPT !.downloads = Downloads(TheRelease, out.plan)]
  <2>1. Stage("download", IsDownloadable(TheRelease, out.plan), result)
    BY <1>9 DEF Download
  <2>2. stage = 3
    BY <1>1, <2>1, StagesAre DEF Stage, StageInv
  <2> HIDE DEF result
  <2> QED
    BY <1>4, <2>1, <2>2
<1>10. CASE Verify
  <2> DEFINE result == [out EXCEPT !.units = Units(rot, out.downloads)]
  <2>1. Stage("verify", IsVerifiable(rot, out.downloads), result)
    BY <1>10 DEF Verify
  <2>2. stage = 4
    BY <1>1, <2>1, StagesAre DEF Stage, StageInv
  <2> HIDE DEF result
  <2> QED
    BY <1>4, <2>1, <2>2
<1>11. CASE AssembleClient
  <2> DEFINE result == [out EXCEPT !.tree = TreeOf(rot, out.units)]
  <2>1. Stage("assemble-client", IsAssemblable(rot, out.units), result)
    BY <1>11 DEF AssembleClient
  <2>2. stage = 5
    BY <1>1, <2>1, StagesAre DEF Stage, StageInv
  <2> HIDE DEF result
  <2> QED
    BY <1>4, <2>1, <2>2
<1>12. CASE IndexVfs
  <2> DEFINE order == OrderOf(rot, out.tree, TheRelease.client)
             index == Index(rot, out.tree, TheRelease.client)
             packages == PackagesManifest(out.tree, order)
             conflicts == ConflictsManifest(Candidates(rot, out.tree, order))
             result == [out EXCEPT !.index = index, !.packages = packages, !.conflicts = conflicts]
  <2>1. \/ stage' = stage /\ out' = out
        \/ out' = result
    BY <1>12 DEF IndexVfs, Stage
  <2>2. CASE out' = result
    <3>1. {"tree", "index", "packages", "conflicts"} \subseteq DOMAIN out
      BY <1>1, FieldsOfNothing DEF StageInv
    <3>2. \A f \in out.tree : IsPackage(f) => IsListed(f, packages)
      BY PackagesAreListed
    <3> HIDE DEF index, packages, conflicts
    <3>3. out'.tree = out.tree /\ out'.packages = packages
      BY <2>2, <3>1
    <3> QED
      BY <3>2, <3>3 DEF PackagesInv
  <2> HIDE DEF result
  <2> QED
    BY <1>3, <2>1, <2>2
<1>13. CASE MaterializeVfs
  <2> DEFINE result == [out EXCEPT !.materialized = Materialized(rot, out.index)]
  <2>1. Stage("materialize-vfs", IsMaterializable(rot, out.index), result)
    BY <1>13 DEF MaterializeVfs
  <2>2. stage = 7
    BY <1>1, <2>1, StagesAre DEF Stage, StageInv
  <2>3. result.tree = out.tree /\ result.packages = out.packages
    BY <1>t
  <2> HIDE DEF result
  <2> QED
    BY <1>4, <2>1, <2>2, <2>3
<1>14. CASE PlanReadable
  <2> DEFINE result == [out EXCEPT !.readable = ReadablePlan(rot, out.materialized)]
  <2>1. Stage("plan-readable", IsReadable(rot, out.materialized), result)
    BY <1>14 DEF PlanReadable
  <2>2. stage = 8
    BY <1>1, <2>1, StagesAre DEF Stage, StageInv
  <2>3. result.tree = out.tree /\ result.packages = out.packages
    BY <1>t
  <2> HIDE DEF result
  <2> QED
    BY <1>4, <2>1, <2>2, <2>3
<1>15. CASE TransformReadable
  <2> DEFINE result == [out EXCEPT !.transformed = Transformed(rot, out.readable)]
  <2>1. Stage("transform-readable", AreTransformable(rot, out.readable), result)
    BY <1>15 DEF TransformReadable
  <2>2. stage = 9
    BY <1>1, <2>1, StagesAre DEF Stage, StageInv
  <2>3. result.tree = out.tree /\ result.packages = out.packages
    BY <1>t
  <2> HIDE DEF result
  <2> QED
    BY <1>4, <2>1, <2>2, <2>3
<1>16. CASE DecompileActionScript
  <2> DEFINE result == [out EXCEPT !.libraries = LibrarySources(rot, out.readable)]
  <2>1. Stage("decompile-actionscript", AreDecompilable(rot, out.readable), result)
    BY <1>16 DEF DecompileActionScript
  <2>2. stage = 10
    BY <1>1, <2>1, StagesAre DEF Stage, StageInv
  <2>3. result.tree = out.tree /\ result.packages = out.packages
    BY <1>t
  <2> HIDE DEF result
  <2> QED
    BY <1>4, <2>1, <2>2, <2>3
<1>17. CASE AssembleReadable
  <2> DEFINE files == AssembledReadable(out.readable, out.transformed)
             accepted == /\ HasAllOutputs(out.readable, out.transformed)
                         /\ NamesAreDisjoint(files)
                         /\ LayersAreSound(rot, files, out.libraries)
             result == [out EXCEPT !.files = files]
  <2>1. Stage("assemble-readable", accepted, result)
    BY <1>17 DEF AssembleReadable
  <2>2. stage = 11
    BY <1>1, <2>1, StagesAre DEF Stage, StageInv
  <2> HIDE DEF files, accepted
  <2>3. result.tree = out.tree /\ result.packages = out.packages
    BY <1>t
  <2> HIDE DEF result
  <2> QED
    BY <1>4, <2>1, <2>2, <2>3
<1>18. CASE GenerateEngineStubs
  <2> DEFINE result == [out EXCEPT !.stubs = Stubs(rot, out.tree)]
  <2>1. Stage("generate-engine-stubs", Binaries(out.tree) # {}, result)
    BY <1>18 DEF GenerateEngineStubs
  <2>2. stage = 12
    BY <1>1, <2>1, StagesAre DEF Stage, StageInv
  <2>3. result.tree = out.tree /\ result.packages = out.packages
    BY <1>t
  <2> HIDE DEF result
  <2> QED
    BY <1>4, <2>1, <2>2, <2>3
<1>19. CASE FinalizeReadable
  <2>1. stage = 13
    BY <1>1, <1>19, StagesAre DEF FinalizeReadable, Stage, StageInv
  <2>2. out' = out /\ stage' \in {stage, stage + 1}
    BY <1>19 DEF FinalizeReadable, Stage
  <2> QED
    BY <1>2, <2>1, <2>2
<1>20. CASE Snapshot
  <2> DEFINE snapshot == Populated(out.files, out.tree, out.libraries, out.stubs, out.packages,
                                   out.conflicts)
             accepted == IsSealable(rot, out.tree, snapshot)
             result == [out EXCEPT !.snapshot = snapshot]
  <2>1. Stage("snapshot", accepted, result)
    BY <1>20 DEF Snapshot
  <2>2. stage = 14
    BY <1>1, <2>1, StagesAre DEF Stage, StageInv
  <2> HIDE DEF snapshot, accepted
  <2>3. result.tree = out.tree /\ result.packages = out.packages
    BY <1>t
  <2> HIDE DEF result
  <2> QED
    BY <1>4, <2>1, <2>2, <2>3
<1> QED
  BY <1>5, <1>6, <1>7, <1>8, <1>9, <1>10, <1>11, <1>12, <1>13, <1>14, <1>15, <1>16, <1>17, <1>18,
     <1>19, <1>20 DEF Next

-----------------------------------------------------------------------------
(* What stands in the way: of the index and of the readable plan.          *)

\* A materialised file, as the client finds it: its path and its content.
AsFound(m) == <<m.path, m.body>>

LEMMA MaterializedIsUnique ==
    ASSUME NEW T, NEW client, NEW order, IsIndexed(T, client, order),
           NEW m \in Materialized({}, Index({}, T, client)),
           NEW n \in Materialized({}, Index({}, T, client)),
           m.lang = n.lang, Fold(m.path) = Fold(n.path)
    PROVE  m = n
<1> DEFINE I == Index({}, T, client)
           C == Candidates({}, T, order)
<1>1. PICK v \in I : m = MaterializedFile(v, BodyOf(v))
  BY MaterializedOf
<1>2. PICK w \in I : n = MaterializedFile(w, BodyOf(w))
  BY MaterializedOf
<1>3. v.lang = m.lang /\ v.path = m.path /\ w.lang = n.lang /\ w.path = n.path
  BY <1>1, <1>2, MaterializedIsMade DEF IsMade
<1>4. Key(v) = Key(w)
  BY <1>3 DEF Key
<1>5. v \in Best(C, Key(v)) /\ w \in Best(C, Key(w))
  BY WinnerOf
<1>6. v = w
  <2> HIDE DEF C
  <2> QED
    BY <1>4, <1>5, BestIsUnique DEF C
<1> QED
  BY <1>1, <1>2, <1>6

\* The path of a materialised file is one of the VFS.
LEMMA MaterializedPath ==
    ASSUME NEW T, NEW client, NEW order, IsIndexed(T, client, order),
           \A f \in T : IsFileAt(f.path, f.body),
           NEW m \in Materialized({}, Index({}, T, client))
    PROVE  IsPath(m.path) /\ m.path.top = "vfs"
<1> DEFINE w == m.source
<1>1. w \in Index({}, T, client) /\ IsMade(m, w)
  BY MadeOf
<1> HIDE DEF w
<1>2. w \in Candidates({}, T, order)
  BY <1>1, WinnerOf
<1>3. PICK f \in T : \/ IsLooseCandidate(w, f, order)
                     \/ \E i \in DOMAIN f.body.items : IsPackageCandidate(w, f, order, i)
  BY <1>2, CandidateOf
<1>4. m.path = w.path
  BY <1>1 DEF IsMade
<1>5. CASE IsLooseCandidate(w, f, order)
  <2> DEFINE p == f.path
  <2>1. IsPath(p) /\ m.path = [p EXCEPT !.top = "vfs"]
    BY <1>4, <1>5 DEF IsIndexed, IsTypedTree, IsLooseCandidate
  <2> HIDE DEF p
  <2> QED
    BY <2>1 DEF IsPath
<1>6. CASE \E i \in DOMAIN f.body.items : IsPackageCandidate(w, f, order, i)
  <2>1. PICK i \in DOMAIN f.body.items : IsPackageCandidate(w, f, order, i)
    BY <1>6
  <2>2. /\ IsPackage(f) /\ f.body.fmt = "zip" /\ m.path = f.body.items[i].path
    BY <1>4, <2>1 DEF IsPackageCandidate
  <2>3. m.path.top \in {"vfs", ".."}
    BY <2>2 DEF IsFileAt, IsPackage, Archives
  <2>4. m.path.top # ".."
    <3>1. IsSafe(Opened({}, f).items[i].path)
      BY <2>2, ReadUnchanged DEF IsIndexed, IsIndexable, Opened
    <3> QED
      BY <2>2, <3>1, ReadUnchanged DEF IsSafe, Opened
  <2> QED
    BY <2>2, <2>3, <2>4, ItemsOfPackage
<1> QED
  BY <1>3, <1>5, <1>6

\* What the stages from plan-readable on work with.
LEMMA TheReadable ==
    ASSUME ContentInv, stage > 7
    PROVE  /\ \A m \in out.materialized :
                 /\ IsPath(m.path) /\ m.path.top = "vfs" /\ IsBody(m.body)
                 /\ AsFound(m) \in FilesOfLayer(m.lang) /\ m.lang \in Languages
           /\ \A m, n \in out.materialized :
                 m.lang = n.lang /\ Fold(m.path) = Fold(n.path) => m = n
<1> DEFINE T == out.tree
           client == TheRelease.client
           I == Index({}, T, client)
<1>1. ReleaseInv /\ StageInv
  BY DEF ContentInv, ReleaseInv
<1>2. stage > 6 /\ stage > 5
  BY <1>1 DEF StageInv
<1>3. IsIndexed(T, client, TheOrder) /\ IsOfTheClient(T, TheOrder)
  BY <1>1, <1>2, TheIndex
<1>4. \A f \in T : IsFileAt(f.path, f.body)
  BY <1>1, <1>2, TheTree
<1>5. out.materialized = Materialized({}, I) /\ \A m \in out.materialized : IsBody(m.body)
  BY <1>1, TheMaterialized
<1> HIDE DEF T, client
<1>6. ASSUME NEW m \in Materialized({}, I)
      PROVE  /\ IsPath(m.path) /\ m.path.top = "vfs"
             /\ AsFound(m) \in FilesOfLayer(m.lang) /\ m.lang \in Languages
  <2>1. IsPath(m.path) /\ m.path.top = "vfs"
    BY <1>3, <1>4, MaterializedPath
  <2>2. /\ Fold(m.path) \in DOMAIN Mounted(m.lang)
        /\ Mounted(m.lang)[Fold(m.path)] = <<m.path, m.body>>
    BY <1>3, MaterializedIsFound DEF client
  <2>3. AsFound(m) \in FilesOfLayer(m.lang)
    BY <2>2 DEF FilesOfLayer, AsFound
  <2>4. m.source \in I /\ IsMade(m, m.source)
    BY MadeOf
  <2>5. m.source \in Candidates({}, T, TheOrder) /\ m.lang = m.source.lang
    BY <1>3, <2>4, WinnerOf DEF IsMade
  <2>6. m.lang \in Languages
    BY <1>3, <2>5, CandidateIsOfTheClient
  <2> QED
    BY <2>1, <2>3, <2>6
<1>7. ASSUME NEW m \in Materialized({}, I), NEW n \in Materialized({}, I),
             m.lang = n.lang, Fold(m.path) = Fold(n.path)
      PROVE  m = n
  BY <1>3, <1>7, MaterializedIsUnique
<1> HIDE DEF I
<1> QED
  BY <1>5, <1>6, <1>7

\* The files of an installed client.
LEMMA FilesOfTheClient ==
    ASSUME NEW T, {AsClientFile(f) : f \in T} = ClientFiles
    PROVE  /\ \A f \in T : \E g \in ClientFiles :
                 g.lang = f.lang /\ g.path = f.path /\ g.body = f.body
           /\ \A g \in ClientFiles : \E f \in T :
                 g.lang = f.lang /\ g.path = f.path /\ g.body = f.body
<1>1. \A f : /\ AsClientFile(f).lang = f.lang /\ AsClientFile(f).path = f.path
             /\ AsClientFile(f).body = f.body
  BY DEF AsClientFile
<1>2. \A f \in T : AsClientFile(f) \in ClientFiles
  OBVIOUS
<1>3. \A g \in ClientFiles : \E f \in T : g = AsClientFile(f)
  OBVIOUS
<1> HIDE DEF AsClientFile
<1> QED
  BY <1>1, <1>2, <1>3

\* The packages of a client in which nothing stands in the way of the index.
IsMountable(f, order) ==
    /\ \E i \in DOMAIN order : order[i] = f.path
    /\ f.body.fmt = "zip"
    /\ \A i \in DOMAIN f.body.items :
          /\ IsSafe(f.body.items[i].path) /\ f.body.items[i].body.fmt # "link"
          /\ \A j \in DOMAIN f.body.items :
                j # i => Fold(f.body.items[j].path) # Fold(f.body.items[i].path)

LEMMA PackageIsMountable ==
    ASSUME NEW T, ClaimsAreDisjoint(T), {AsClientFile(f) : f \in T} = ClientFiles,
           ~HasUnmountablePackage,
           NEW p \in T, p.lang = NoLang, p.path = PathsXml,
           NEW f \in T, IsPackage(f)
    PROVE  IsMountable(f, Order(p.body, TheRelease.client))
<1> DEFINE client == TheRelease.client
<1>1. PICK g \in ClientFiles : g.lang = f.lang /\ g.path = f.path /\ g.body = f.body
  BY FilesOfTheClient
<1>2. IsPackage(g)
  BY <1>1 DEF IsPackage
<1>3. /\ \E q \in ClientFiles : /\ q.lang = NoLang /\ q.path = PathsXml
                                /\ g.path \in Elements(Order(q.body, client))
      /\ g.body.fmt = "zip"
      /\ \A i \in DOMAIN g.body.items :
            /\ IsSafe(g.body.items[i].path) /\ g.body.items[i].body.fmt # "link"
            /\ \A j \in DOMAIN g.body.items :
                  j # i => Fold(g.body.items[j].path) # Fold(g.body.items[i].path)
  BY <1>2 DEF HasUnmountablePackage
<1> HIDE DEF client
<1>4. PICK q \in ClientFiles : /\ q.lang = NoLang /\ q.path = PathsXml
                               /\ g.path \in Elements(Order(q.body, client))
  BY <1>3
<1>5. PICK r \in T : q.lang = r.lang /\ q.path = r.path /\ q.body = r.body
  BY FilesOfTheClient
<1>6. r = p
  BY <1>4, <1>5 DEF ClaimsAreDisjoint
<1>7. f.path \in Elements(Order(p.body, client))
  BY <1>1, <1>4, <1>5, <1>6
<1>8. \E i \in DOMAIN Order(p.body, client) : Order(p.body, client)[i] = f.path
  BY <1>7 DEF Elements
<1> QED
  BY <1>1, <1>3, <1>8 DEF IsMountable, client

\* What a tree of such packages has for the index.
IsLooseOf(c, f, order) == IsLoose(f) /\ c = LooseCandidate(f, Len(order) + 1)

IsItemOf(c, f, i, order) ==
    /\ IsPackage(f) /\ i \in DOMAIN f.body.items
    /\ c = Candidate(f, f.body.items[i].path, Position(order, f.path), i, f.body.items[i].crc)

LEMMA LooseOfTree ==
    ASSUME NEW order, NEW f, NEW c, IsLooseOf(c, f, order)
    PROVE  /\ c.lang = f.lang /\ c.path = [f.path EXCEPT !.top = "vfs"]
           /\ c.precedence = Len(order) + 1
BY LooseCandidateIs DEF IsLooseOf, IsLooseCandidate, IsOfFile

LEMMA ItemOfTree ==
    ASSUME NEW order, NEW f, IsMountable(f, order), NEW i, NEW c, IsItemOf(c, f, i, order)
    PROVE  /\ c.lang = f.lang /\ c.path = f.body.items[i].path
           /\ c.precedence \in DOMAIN order /\ order[c.precedence] = f.path
<1>1. \E n \in DOMAIN order : order[n] = f.path
  BY DEF IsMountable
<1>2. Position(order, f.path) \in DOMAIN order /\ order[Position(order, f.path)] = f.path
  BY <1>1 DEF Position
<1> QED
  BY <1>2 DEF IsItemOf, Candidate

LEMMA CandidateOfTree ==
    ASSUME NEW T, NEW order, NEW c \in Candidates({}, T, order)
    PROVE  \E f \in T : IsLooseOf(c, f, order) \/ \E i : IsItemOf(c, f, i, order)
<1>1. CASE \E f \in T : IsPackage(f) /\ c \in PackageCandidates({}, f, Position(order, f.path))
  <2>1. PICK f \in T : IsPackage(f) /\ c \in PackageCandidates({}, f, Position(order, f.path))
    BY <1>1
  <2>2. PICK i \in DOMAIN f.body.items :
            c = Candidate(f, f.body.items[i].path, Position(order, f.path), i, f.body.items[i].crc)
    BY <2>1, ReadUnchanged DEF PackageCandidates, Opened
  <2> QED
    BY <2>1, <2>2 DEF IsItemOf
<1>2. CASE \E f \in T : IsLoose(f) /\ c = LooseCandidate(f, Len(order) + 1)
  BY <1>2 DEF IsLooseOf
<1> QED
  BY <1>1, <1>2, CandidatesAre

LEMMA PrecedenceIsNat ==
    ASSUME NEW T, NEW order, IsSequence(order),
           \A f \in T : IsPackage(f) => IsMountable(f, order),
           NEW c \in Candidates({}, T, order)
    PROVE  c.precedence \in Nat
<1>1. Len(order) \in Nat /\ DOMAIN order = 1..Len(order)
  BY RangeOf
<1>2. PICK f \in T : IsLooseOf(c, f, order) \/ \E i : IsItemOf(c, f, i, order)
  BY CandidateOfTree
<1>3. CASE IsLooseOf(c, f, order)
  <2>1. c.precedence = Len(order) + 1
    BY <1>3, LooseOfTree
  <2> QED
    BY <1>1, <2>1
<1>4. ASSUME NEW i, IsItemOf(c, f, i, order)
      PROVE  c.precedence \in Nat
  <2>1. IsMountable(f, order)
    BY <1>4 DEF IsItemOf
  <2>2. c.precedence \in DOMAIN order
    BY <1>4, <2>1, ItemOfTree
  <2> QED
    BY <1>1, <2>2
<1> QED
  BY <1>2, <1>3, <1>4

\* Folding leaves all but the case, also of a path that is moved into the VFS.
LEMMA FoldInVfs ==
    ASSUME NEW p, IsPath(p)
    PROVE  /\ Fold(p) = [top |-> p.top, dir |-> p.dir, stem |-> p.stem, ext |-> p.ext,
                         upper |-> FALSE]
           /\ Fold([p EXCEPT !.top = "vfs"]).dir = p.dir
           /\ Fold([p EXCEPT !.top = "vfs"]).stem = p.stem
           /\ Fold([p EXCEPT !.top = "vfs"]).ext = p.ext
<1> DEFINE top == p.top
           dir == p.dir
           stem == p.stem
           ext == p.ext
           upper == p.upper
           q == [p EXCEPT !.top = "vfs"]
<1>1. p = [top |-> top, dir |-> dir, stem |-> stem, ext |-> ext, upper |-> upper]
  BY DEF IsPath
<1> HIDE DEF top, dir, stem, ext, upper
<1>2. q = [top |-> "vfs", dir |-> dir, stem |-> stem, ext |-> ext, upper |-> upper]
  <2>1. [[top |-> top, dir |-> dir, stem |-> stem, ext |-> ext, upper |-> upper] EXCEPT !.top = "vfs"]
          = [top |-> "vfs", dir |-> dir, stem |-> stem, ext |-> ext, upper |-> upper]
    OBVIOUS
  <2> QED
    BY <1>1, <2>1
<1> HIDE DEF q
<1>3. Fold(p) = [top |-> top, dir |-> dir, stem |-> stem, ext |-> ext, upper |-> FALSE]
  <2> DEFINE no == FALSE
  <2>1. Fold(p) = [p EXCEPT !.upper = no]
    BY DEF Fold
  <2> HIDE DEF no
  <2>2. [[top |-> top, dir |-> dir, stem |-> stem, ext |-> ext, upper |-> upper] EXCEPT !.upper = no]
          = [top |-> top, dir |-> dir, stem |-> stem, ext |-> ext, upper |-> no]
    OBVIOUS
  <2>3. Fold(p) = [top |-> top, dir |-> dir, stem |-> stem, ext |-> ext, upper |-> no]
    BY <1>1, <2>1, <2>2
  <2> QED
    BY <2>3 DEF no
<1>4. Fold(q).dir = dir /\ Fold(q).stem = stem /\ Fold(q).ext = ext
  BY <1>2 DEF Fold
<1>5. /\ Fold([p EXCEPT !.top = "vfs"]).dir = dir
      /\ Fold([p EXCEPT !.top = "vfs"]).stem = stem
      /\ Fold([p EXCEPT !.top = "vfs"]).ext = ext
  BY <1>4 DEF q
<1> QED
  BY <1>3, <1>5 DEF top, dir, stem, ext

\* Two candidates of one name and one precedence are one.
LEMMA CandidatesAreApart ==
    ASSUME NEW T, IsTypedTree(T), ClaimsAreDisjoint(T), NEW order, IsSequence(order),
           \A f \in T : IsPackage(f) => IsMountable(f, order),
           NEW c \in Candidates({}, T, order), NEW d \in Candidates({}, T, order),
           Key(c) = Key(d), c.precedence = d.precedence
    PROVE  c = d
<1>1. c.lang = d.lang /\ Fold(c.path) = Fold(d.path)
  BY DEF Key
<1>2. Len(order) \in Nat /\ DOMAIN order = 1..Len(order)
  BY RangeOf
<1>3. ASSUME NEW f \in T, NEW i, NEW x, IsItemOf(x, f, i, order)
      PROVE  /\ IsMountable(f, order)
             /\ x.lang = f.lang /\ x.path = f.body.items[i].path
             /\ x.precedence \in DOMAIN order /\ order[x.precedence] = f.path
  <2>1. IsMountable(f, order)
    BY <1>3 DEF IsItemOf
  <2> QED
    BY <1>3, <2>1, ItemOfTree
<1>4. ASSUME NEW f \in T, NEW x, IsLooseOf(x, f, order)
      PROVE  /\ x.lang = f.lang /\ x.path = [f.path EXCEPT !.top = "vfs"]
             /\ x.precedence = Len(order) + 1
  BY <1>4, LooseOfTree
<1>5. PICK f \in T : IsLooseOf(c, f, order) \/ \E i : IsItemOf(c, f, i, order)
  BY CandidateOfTree
<1>6. PICK g \in T : IsLooseOf(d, g, order) \/ \E i : IsItemOf(d, g, i, order)
  BY CandidateOfTree
<1>7. CASE IsLooseOf(c, f, order) /\ IsLooseOf(d, g, order)
  <2>1. IsPath(f.path) /\ IsPath(g.path) /\ f.path.top = "res" /\ g.path.top = "res"
    BY <1>7 DEF IsTypedTree, IsLooseOf, IsLoose
  <2>2. f.lang = g.lang /\ Fold([f.path EXCEPT !.top = "vfs"]) = Fold([g.path EXCEPT !.top = "vfs"])
    BY <1>1, <1>4, <1>7
  <2>3. Fold(f.path) = Fold(g.path)
    <3> DEFINE p == f.path
               q == g.path
    <3> HIDE DEF p, q
    <3>1. IsPath(p) /\ IsPath(q) /\ p.top = "res" /\ q.top = "res"
      BY <2>1 DEF p, q
    <3>2. Fold([p EXCEPT !.top = "vfs"]) = Fold([q EXCEPT !.top = "vfs"])
      BY <2>2 DEF p, q
    <3>3. p.dir = q.dir /\ p.stem = q.stem /\ p.ext = q.ext
      BY <3>1, <3>2, FoldInVfs
    <3>4. Fold(p) = Fold(q)
      BY <3>1, <3>3, FoldInVfs
    <3> QED
      BY <3>4 DEF p, q
  <2>4. f = g
    BY <2>2, <2>3 DEF ClaimsAreDisjoint
  <2> QED
    BY <1>7, <2>4 DEF IsLooseOf
<1>8. ASSUME NEW i, NEW j, IsItemOf(c, f, i, order), IsItemOf(d, g, j, order)
      PROVE  c = d
  <2>1. f.path = g.path /\ f.lang = g.lang
    BY <1>1, <1>3, <1>8
  <2>2. f = g
    BY <2>1 DEF ClaimsAreDisjoint
  <2>3. IsMountable(f, order) /\ i \in DOMAIN f.body.items /\ j \in DOMAIN f.body.items
    BY <1>8, <2>2 DEF IsItemOf
  <2>4. Fold(f.body.items[i].path) = Fold(f.body.items[j].path)
    BY <1>1, <1>3, <1>8, <2>2
  <2>5. i = j
    BY <2>3, <2>4 DEF IsMountable
  <2> QED
    BY <1>8, <2>2, <2>5 DEF IsItemOf
<1>9. ASSUME NEW i, IsLooseOf(c, f, order), IsItemOf(d, g, i, order)
       PROVE  FALSE
  <2>1. c.precedence = Len(order) + 1 /\ d.precedence \in DOMAIN order
    BY <1>3, <1>4, <1>9
  <2> QED
    BY <1>2, <2>1
<1>10. ASSUME NEW i, IsItemOf(c, f, i, order), IsLooseOf(d, g, order)
       PROVE  FALSE
  <2>1. d.precedence = Len(order) + 1 /\ c.precedence \in DOMAIN order
    BY <1>3, <1>4, <1>10
  <2> QED
    BY <1>2, <2>1
<1> QED
  BY <1>5, <1>6, <1>7, <1>8, <1>9, <1>10

\* index-vfs accepts a client with an order, and with packages that can be mounted.
LEMMA TreeIsIndexable ==
    ASSUME ContentInv, stage = 6, ~IsIndexable({}, out.tree, TheRelease.client)
    PROVE  HasNoOrder \/ HasUnmountablePackage
<1> DEFINE T == out.tree
           client == TheRelease.client
<1>1. /\ {AsClientFile(f) : f \in T} = ClientFiles
      /\ IsTypedTree(T) /\ ClaimsAreDisjoint(T)
  BY TheTree DEF ContentInv
<1> HIDE DEF T
<1> SUFFICES ASSUME ~HasNoOrder, ~HasUnmountablePackage
             PROVE  IsIndexable({}, T, client)
  BY DEF T
<1>2. PICK q \in ClientFiles : q.lang = NoLang /\ q.path = PathsXml /\ IsOrder(q.body, client)
  BY DEF HasNoOrder
<1>3. PICK p \in T : q.lang = p.lang /\ q.path = p.path /\ q.body = p.body
  BY <1>1, FilesOfTheClient
<1>4. p.lang = NoLang /\ p.path = PathsXml /\ IsOrder(p.body, client)
  BY <1>2, <1>3
<1> DEFINE order == Order(p.body, client)
<1>5. \A f \in T : IsPackage(f) => IsMountable(f, order)
  BY <1>1, <1>4, PackageIsMountable
<1> HIDE DEF client
<1>6. PathsFile(T) = p
  <2> DEFINE Is(g) == g.lang = NoLang /\ g.path = PathsXml
  <2>1. PathsFile(T) = CHOOSE g \in T : Is(g)
    BY DEF PathsFile
  <2>2. Is(p)
    BY <1>4
  <2> HIDE DEF Is
  <2>3. PathsFile(T) \in T /\ Is(PathsFile(T))
    BY <2>1, <2>2
  <2> QED
    BY <1>1, <1>4, <2>3 DEF ClaimsAreDisjoint, Is
<1>7. \A f : Opened({}, f) = f.body
  BY ReadUnchanged DEF Opened
<1>8. OrderOf({}, T, client) = order
  BY <1>6, <1>7 DEF OrderOf
<1>9. IsSequence(order)
  <2>1. IsSequence(p.body.items)
    BY <1>1 DEF IsTypedTree, IsPackageBody, IsBody
  <2> QED
    BY <2>1, OrderIsSequence
<1> HIDE DEF order
<1>10. \A f \in T : IsPackage(f) =>
          /\ \E i \in DOMAIN order : order[i] = f.path
          /\ f.body.fmt = "zip"
          /\ \A i \in DOMAIN f.body.items :
                IsSafe(f.body.items[i].path) /\ f.body.items[i].body.fmt # "link"
  BY <1>5 DEF IsMountable
<1>11. ASSUME NEW key, NEW c \in Best(Candidates({}, T, order), key),
              NEW d \in Best(Candidates({}, T, order), key)
       PROVE  c = d
  <2> DEFINE C == Candidates({}, T, order)
  <2>1. /\ c \in C /\ d \in C /\ Key(c) = key /\ Key(d) = key
        /\ c.precedence <= d.precedence /\ d.precedence <= c.precedence
    <3> HIDE DEF C
    <3> QED
      BY <1>11 DEF Best, Under, C
  <2>2. c.precedence \in Nat /\ d.precedence \in Nat
    BY <1>5, <1>9, <2>1, PrecedenceIsNat
  <2>3. c.precedence = d.precedence
    BY <2>1, <2>2
  <2> QED
    BY <1>1, <1>5, <1>9, <2>1, <2>3, CandidatesAreApart
<1>12. \A bodies : BlobsAreSound({}, bodies)
  BY ReadUnchanged DEF BlobsAreSound, Sound
<1> QED
  BY <1>3, <1>4, <1>6, <1>7, <1>8, <1>10, <1>11, <1>12 DEF IsIndexable

\* materialize-vfs refuses an entry that is not as its package lists it.
LEMMA IndexIsMaterializable ==
    ASSUME ContentInv, stage = 7, ~IsMaterializable({}, out.index)
    PROVE  HasBrokenPackage
<1> DEFINE T == out.tree
           client == TheRelease.client
<1>1. ReleaseInv
  BY DEF ContentInv
<1>2. /\ IsIndexed(T, client, TheOrder) /\ IsOfTheClient(T, TheOrder)
      /\ out.index = Index({}, T, client)
  BY <1>1, TheIndex
<1>3. PICK w \in out.index : w.entry # 0 /\ ~EntryIsAsIndexed({}, w)
  BY ReadUnchanged DEF IsMaterializable, Sound
<1> HIDE DEF T, client
<1>4. w \in Candidates({}, T, TheOrder)
  BY <1>2, <1>3, WinnerOf
<1>5. PICK f \in T : \/ IsLooseCandidate(w, f, TheOrder)
                     \/ \E i \in DOMAIN f.body.items : IsPackageCandidate(w, f, TheOrder, i)
  BY <1>2, <1>4, CandidateOf
<1>6. PICK i \in DOMAIN f.body.items : IsPackageCandidate(w, f, TheOrder, i)
  BY <1>3, <1>5 DEF IsLooseCandidate
<1>7. IsPackage(f) /\ w.archive = f.body /\ w.entry = i /\ w.crc = f.body.items[i].crc
  BY <1>6 DEF IsPackageCandidate, IsOfFile
<1>8. f.body.items[i].body.id # f.body.items[i].crc
  BY <1>3, <1>7, ReadUnchanged DEF EntryIsAsIndexed, EntryOf
<1>9. ~EntriesAreIntact(f.body)
  BY <1>8 DEF EntriesAreIntact
<1> DEFINE g == AsClientFile(f)
<1>10. g \in ClientFiles /\ g.path = f.path /\ g.body = f.body
  BY <1>2 DEF IsOfTheClient, AsClientFile
<1> HIDE DEF g
<1> QED
  BY <1>7, <1>9, <1>10 DEF HasBrokenPackage, IsPackage

\* The entries of a readable plan, and what they are of.
LEMMA EntriesAreOf ==
    ASSUME NEW mat, NEW d \in ReadablePlan({}, mat), NEW e \in ReadablePlan({}, mat)
    PROVE  /\ d.source \in mat /\ d.lang = d.source.lang
           /\ Fold(d.output) = OutputOf(AsFound(d.source))
           /\ d.kind = KindOf(AsFound(d.source))
           /\ d.bundle = IF IsLibrary(d.source.path) THEN Bundle(d.source.path) ELSE NoBundle
           /\ d.source = e.source => d = e
<1>1. \A x \in ReadablePlan({}, mat) : x = PlanEntry({}, x.source)
  <2> TAKE x \in ReadablePlan({}, mat)
  <2>1. PICK m \in mat : x = PlanEntry({}, m)
    BY DEF ReadablePlan
  <2>2. x.source = m
    BY <2>1, PlanEntryIs DEF IsEntryOf
  <2> QED
    BY <2>1, <2>2
<1>2. d.source \in mat /\ IsEntryOf(d, d.source)
  BY EntryOfPlan
<1>3. d.source = e.source => d = e
  BY <1>1
<1>4. AsFound(d.source)[1] = d.source.path /\ AsFound(d.source)[2] = d.source.body
  BY DEF AsFound
<1> QED
  BY <1>2, <1>3, <1>4 DEF IsEntryOf, OutputOf, KindOf

\* plan-readable refuses a client that has no readable form.
LEMMA MaterializedIsReadable ==
    ASSUME ContentInv, stage = 8, ~IsReadable({}, out.materialized)
    PROVE  HasNoReadableForm
<1> DEFINE mat == out.materialized
           plan == ReadablePlan({}, mat)
<1>1. /\ \A m \in mat : AsFound(m) \in FilesOfLayer(m.lang) /\ m.lang \in Languages
                        /\ IsPath(m.path)
      /\ \A m, n \in mat : m.lang = n.lang /\ Fold(m.path) = Fold(n.path) => m = n
  BY TheReadable
<1>2. \A m : AsFound(m)[1] = m.path /\ AsFound(m)[2] = m.body
  BY DEF AsFound
<1>3. \A m, n \in mat : m.lang = n.lang /\ m # n => AsFound(m) # AsFound(n)
  BY <1>1, <1>2
<1>4. \A m : InPlace({}, m) = m.body
  BY ReadUnchanged DEF InPlace
<1>5. \/ \E m \in mat : ~IsKnownXml(m.path, m.body)
      \/ ~OutputsAreDisjoint(plan)
      \/ ~LibrariesAreApart(plan)
  BY <1>4 DEF IsReadable
<1> HIDE DEF mat
<1>6. CASE \E m \in mat : ~IsKnownXml(m.path, m.body)
  <2>1. PICK m \in mat : ~IsKnownXml(m.path, m.body)
    BY <1>6
  <2> QED
    BY <1>1, <1>2, <2>1 DEF HasNoReadableForm
<1>7. CASE ~OutputsAreDisjoint(plan)
  <2>1. PICK d \in plan : \E e \in plan : d # e /\ d.lang = e.lang /\ Fold(d.output) = Fold(e.output)
    BY <1>7 DEF OutputsAreDisjoint
  <2>2. PICK e \in plan : d # e /\ d.lang = e.lang /\ Fold(d.output) = Fold(e.output)
    BY <2>1
  <2> DEFINE m == d.source
             n == e.source
  <2>3. /\ m \in mat /\ n \in mat /\ m # n /\ m.lang = n.lang
        /\ OutputOf(AsFound(m)) = OutputOf(AsFound(n))
    BY <2>2, EntriesAreOf
  <2> HIDE DEF m, n
  <2>4. AsFound(m) # AsFound(n)
    BY <1>3, <2>3
  <2> QED
    BY <1>1, <2>3, <2>4 DEF HasNoReadableForm
<1>8. CASE ~LibrariesAreApart(plan)
  <2>1. ASSUME NEW x \in Libraries(plan)
        PROVE  /\ x \in plan /\ x.source \in mat /\ x.lang = x.source.lang
               /\ IsLibrary(x.source.path) /\ x.bundle = Bundle(x.source.path)
    <3>1. x \in plan /\ x.bundle # NoBundle
      BY DEF Libraries
    <3> QED
      BY <3>1, EntriesAreOf
  <2>2. CASE \E x \in Libraries(plan) : x.lang # NoLang
    <3>1. PICK x \in Libraries(plan) : x.lang # NoLang
      BY <2>2
    <3> DEFINE m == x.source
    <3>2. m \in mat /\ m.lang # NoLang /\ IsLibrary(m.path)
      BY <2>1, <3>1
    <3> HIDE DEF m
    <3> QED
      BY <1>1, <1>2, <3>2 DEF HasNoReadableForm
  <2>3. CASE \A x \in Libraries(plan) : x.lang = NoLang
    <3>1. PICK d \in Libraries(plan) : \E e \in Libraries(plan) : d # e /\ d.bundle = e.bundle
      BY <1>8, <2>3 DEF LibrariesAreApart
    <3>2. PICK e \in Libraries(plan) : d # e /\ d.bundle = e.bundle
      BY <3>1
    <3> DEFINE m == d.source
               n == e.source
    <3>3. /\ m \in mat /\ n \in mat /\ m.lang = NoLang /\ n.lang = NoLang
          /\ IsLibrary(m.path) /\ IsLibrary(n.path) /\ Bundle(m.path) = Bundle(n.path)
      BY <2>1, <2>3, <3>2
    <3>4. m # n
      BY <2>1, <3>2, EntriesAreOf
    <3> HIDE DEF m, n
    <3>5. AsFound(m) # AsFound(n) /\ AsFound(m) \in FilesOfLayer(NoLang)
          /\ AsFound(n) \in FilesOfLayer(NoLang) /\ NoLang \in Languages
      BY <1>1, <1>3, <3>3, <3>4
    <3> QED
      BY <1>2, <3>3, <3>5 DEF HasNoReadableForm
  <2> QED
    BY <2>2, <2>3
<1> QED
  BY <1>5, <1>6, <1>7, <1>8

\* transform-readable and decompile-actionscript refuse a file that is not what its
\* name says.
LEMMA ReadableIsTransformable ==
    ASSUME ContentInv, stage = 9, ~AreTransformable({}, out.readable)
    PROVE  HasForeignFormat
<1> DEFINE mat == out.materialized
           plan == ReadablePlan({}, mat)
<1>1. out.readable = plan
  BY DEF ContentInv, ReleaseInv, ResultsAreOfTheUnchanged, AreResultsOf, IsReadableFrom
<1>2. \A m \in mat : AsFound(m) \in FilesOfLayer(m.lang) /\ m.lang \in Languages
  BY TheReadable
<1>3. PICK e \in ConversionsOf(plan) : e.source.body.fmt # Formats[e.kind]
  BY <1>1, ReadUnchanged DEF AreTransformable, IsConvertible, SourceIsAsMaterialized, Sound, InPlace
<1>4. e \in plan /\ e.kind # Passthrough
  BY DEF ConversionsOf
<1> HIDE DEF mat
<1> DEFINE m == e.source
<1>5. m \in mat /\ e.kind = KindOf(AsFound(m)) /\ AsFound(m)[2] = m.body
  BY <1>4, EntriesAreOf DEF AsFound
<1>6. KindOf(AsFound(m)) # Passthrough /\ AsFound(m)[2].fmt # Formats[KindOf(AsFound(m))]
  BY <1>3, <1>4, <1>5
<1> HIDE DEF m
<1> QED
  BY <1>2, <1>5, <1>6 DEF HasForeignFormat

LEMMA ReadableIsDecompilable ==
    ASSUME ContentInv, stage = 10, ~AreDecompilable({}, out.readable)
    PROVE  HasForeignLibrary
<1> DEFINE mat == out.materialized
           plan == ReadablePlan({}, mat)
<1>1. out.readable = plan /\ IsReadable({}, mat)
  BY DEF ContentInv, ReleaseInv, ResultsAreOfTheUnchanged, AreResultsOf, IsReadableFrom
<1>2. \A m \in mat : AsFound(m) \in FilesOfLayer(m.lang)
  BY TheReadable
<1>3. PICK e \in Libraries(plan) : e.source.body.fmt # Formats["swc"]
  BY <1>1, ReadUnchanged DEF AreDecompilable, IsConvertible, SourceIsAsMaterialized, Sound, InPlace
<1>4. e \in plan /\ e.bundle # NoBundle /\ e.lang = NoLang
  BY <1>1 DEF Libraries, IsReadable, LibrariesAreApart
<1> HIDE DEF mat
<1> DEFINE m == e.source
<1>5. m \in mat /\ m.lang = NoLang /\ IsLibrary(m.path)
  BY <1>4, EntriesAreOf
<1>6. AsFound(m)[1] = m.path /\ AsFound(m)[2] = m.body
  BY DEF AsFound
<1>7. m.body.fmt # Formats["swc"]
  BY <1>3
<1> HIDE DEF m
<1> QED
  BY <1>2, <1>5, <1>6, <1>7 DEF HasForeignLibrary

\* generate-engine-stubs refuses a client that has no native file.
LEMMA BinariesAreFound ==
    ASSUME ContentInv, stage = 12, Binaries(out.tree) = {}
    PROVE  HasNoBinary
<1>1. {AsClientFile(f) : f \in out.tree} = ClientFiles
  BY TheTree DEF ContentInv
<1>2. NativeFiles(out.tree) = {}
  <2>1. CASE GameFiles(out.tree) # {}
    BY <2>1 DEF Binaries
  <2>2. CASE GameFiles(out.tree) = {}
    BY <2>2 DEF Binaries
  <2> QED
    BY <2>1, <2>2
<1>3. \A f \in out.tree : AsClientFile(f).lang = f.lang /\ AsClientFile(f).path = f.path
  BY DEF AsClientFile
<1>4. NativeFiles(ClientFiles) = {}
  BY <1>1, <1>2, <1>3 DEF NativeFiles
<1> QED
  BY <1>4 DEF HasNoBinary

-----------------------------------------------------------------------------
(* What stands in the way: of the readable tree and of the snapshot.       *)

\* A readable file is determined by the entry of the plan that it is of.
LEMMA FileOfEntry ==
    ASSUME NEW mat, NEW plan, plan = ReadablePlan({}, mat),
           NEW files, files = AssembledReadable(plan, Transformed({}, plan)), NEW f \in files
    PROVE  \E e \in plan : f = ReadableFile(e, FormOf(e.source))
<1> DEFINE kept == {ReadableFile(e, e.source.body) : e \in plan \ ConversionsOf(plan)}
<1>1. f \in kept \/ f \in Transformed({}, plan)
  BY DEF AssembledReadable
<1>2. \A e \in plan : IsEntryOf(e, e.source)
  BY EntryOfPlan
<1>3. CASE f \in kept
  <2>1. PICK e \in plan \ ConversionsOf(plan) : f = ReadableFile(e, e.source.body)
    BY <1>3
  <2>2. e.kind = Passthrough
    BY DEF ConversionsOf
  <2>3. FormOf(e.source) = e.source.body
    BY <1>2, <2>2 DEF IsEntryOf, FormOf
  <2> QED
    BY <2>1, <2>3
<1>4. CASE f \in Transformed({}, plan)
  <2>1. PICK e \in ConversionsOf(plan) : f = ReadableFile(e, Converted(e.kind, e.source.body))
    BY <1>4, ReadUnchanged DEF Transformed, InPlace
  <2>2. e \in plan /\ e.kind # Passthrough
    BY DEF ConversionsOf
  <2>3. FormOf(e.source) = Converted(e.kind, e.source.body)
    BY <1>2, <2>2 DEF IsEntryOf, FormOf
  <2> QED
    BY <2>1, <2>2, <2>3
<1> HIDE DEF kept
<1> QED
  BY <1>1, <1>3, <1>4

\* assemble-readable does not refuse: each conversion has its result, and the names
\* of the plan are apart.
LEMMA ReadableIsAssembled ==
    ASSUME NEW mat, NEW plan, plan = ReadablePlan({}, mat), IsReadable({}, mat),
           NEW files, files = AssembledReadable(plan, Transformed({}, plan)), NEW libraries
    PROVE  /\ HasAllOutputs(plan, Transformed({}, plan))
           /\ NamesAreDisjoint(files)
           /\ LayersAreSound({}, files, libraries)
<1>1. ASSUME NEW e \in ConversionsOf(plan)
      PROVE  \E f \in Transformed({}, plan) : f.lang = e.lang /\ f.path = e.output
  <2> DEFINE f == ReadableFile(e, Converted(e.kind, e.source.body))
  <2>1. f \in Transformed({}, plan)
    BY ConvertedEntry
  <2>2. f.lang = e.lang /\ f.path = e.output
    BY DEF ReadableFile
  <2> HIDE DEF f
  <2> QED
    BY <2>1, <2>2
<1>2. NamesAreDisjoint(files)
  <2> SUFFICES ASSUME NEW f \in files, NEW g \in files, f # g
               PROVE  f.lang # g.lang \/ Fold(f.path) # Fold(g.path)
    BY DEF NamesAreDisjoint
  <2>1. PICK d \in plan : f = ReadableFile(d, FormOf(d.source))
    BY FileOfEntry
  <2>2. PICK e \in plan : g = ReadableFile(e, FormOf(e.source))
    BY FileOfEntry
  <2>3. d # e
    BY <2>1, <2>2
  <2>4. d.lang # e.lang \/ Fold(d.output) # Fold(e.output)
    BY <2>3 DEF IsReadable, OutputsAreDisjoint
  <2>5. \A x, body : ReadableFile(x, body).lang = x.lang /\ ReadableFile(x, body).path = x.output
    BY DEF ReadableFile
  <2> QED
    BY <2>1, <2>2, <2>4, <2>5
<1>3. LayersAreSound({}, files, libraries)
  BY ReadUnchanged DEF LayersAreSound, Sound
<1> QED
  BY <1>1, <1>2, <1>3 DEF HasAllOutputs

\* A readable file is neither compiled nor packed, and its path is one of the VFS.
LEMMA ReadableFileIsReadable ==
    ASSUME NEW m, IsPath(m.path), m.path.top = "vfs", IsBody(m.body),
           NEW f, IsReadableOf(f, m)
    PROVE  /\ IsPath(f.path) /\ f.path.top = "vfs"
           /\ f.path.ext \notin {"pyc", "mo"}
           /\ IsXml(f.path) => f.body.fmt # "packed"
<1> DEFINE p == m.path
           kind == Kind(p, m.body)
<1>1. IsPath(p) /\ p.top = "vfs"
  OBVIOUS
<1>2. f.path = OutputPath(p, kind) /\ f.body = FormOf(m)
  BY DEF IsReadableOf
<1>3. FormOf(m) = IF kind = Passthrough THEN m.body ELSE Converted(kind, m.body)
  BY DEF FormOf
<1>4. /\ p.ext = "pyc" => kind = "pyc"
      /\ p.ext = "mo" => kind = "mo"
      /\ p.ext \notin {"pyc", "mo"} => kind \notin {"pyc", "mo"}
      /\ IsXml(p) => kind = IF m.body.fmt = "packed" THEN "packed" ELSE Passthrough
  BY DEF Kind, IsXml, Passthrough
<1> HIDE DEF kind
<1> DEFINE ext == CASE kind = "pyc" -> "py" [] kind = "mo" -> "po" [] OTHER -> p.ext
<1>6. OutputPath(p, kind) = [p EXCEPT !.ext = ext]
  BY DEF OutputPath
<1>7. ext \notin {"pyc", "mo"} /\ (ext \in {"xml", "def"} => ext = p.ext)
  BY <1>4
<1> HIDE DEF ext, p
<1>8. IsPath(f.path) /\ f.path.top = "vfs" /\ f.path.ext = ext
  BY <1>1, <1>2, <1>6 DEF IsPath
<1>9. ASSUME IsXml(f.path)
      PROVE  f.body.fmt # "packed"
  <2>1. IsXml(p)
    BY <1>7, <1>8, <1>9 DEF IsXml
  <2>2. CASE m.body.fmt = "packed"
    <3>1. kind = "packed" /\ f.body = Converted("packed", m.body)
      BY <1>2, <1>3, <1>4, <2>1, <2>2 DEF Passthrough
    <3>2. f.body = [m.body EXCEPT !.fmt = "text", !.via = "packed"]
      BY <3>1 DEF Converted, Decoded, Via
    <3> QED
      BY <3>2 DEF IsBody
  <2>3. CASE m.body.fmt # "packed"
    BY <1>2, <1>3, <1>4, <2>1, <2>3
  <2> QED
    BY <2>2, <2>3
<1> QED
  BY <1>7, <1>8, <1>9

\* So that finalize-readable does not refuse either.
LEMMA FilesAreFinalizable ==
    ASSUME NEW files, NEW libraries, NEW stubs,
           \A f \in files : /\ f.path.ext \notin {"pyc", "mo"}
                            /\ IsXml(f.path) => f.body.fmt # "packed"
    PROVE  IsFinalizable({}, files, libraries, stubs)
BY ReadUnchanged DEF IsFinalizable, LayersAreSound, Sound

LEMMA SourceIsKnown ==
    ASSUME NEW T, NEW client, NEW order, IsIndexed(T, client, order),
           NEW c \in Candidates({}, T, order), NEW source, IsSourceOf(source, c),
           NEW snapshot, \A f \in T : IsPackage(f) => IsListed(f, snapshot.packages)
    PROVE  source.lang = c.lang /\ IsKnownSource(snapshot, source, c.lang)
<1>1. PICK f \in T : \/ IsLooseCandidate(c, f, order)
                     \/ \E i \in DOMAIN f.body.items : IsPackageCandidate(c, f, order, i)
  BY CandidateOf
<1>2. /\ source.kind = IF c.entry = 0 THEN "loose-file" ELSE "game-package"
      /\ source.lang = c.lang /\ source.file = c.source /\ source.digest = c.archive
      /\ source.bytes = BodyOf(c)
  BY DEF IsSourceOf
<1>3. CASE IsLooseCandidate(c, f, order)
  <2>1. c.entry = 0 /\ BodyOf(c) = c.archive
    BY <1>3 DEF IsLooseCandidate, BodyOf
  <2> QED
    BY <1>2, <2>1 DEF IsKnownSource
<1>4. CASE \E i \in DOMAIN f.body.items : IsPackageCandidate(c, f, order, i)
  <2>1. /\ c.entry # 0 /\ IsPackage(f)
        /\ c.lang = f.lang /\ c.source = f.path /\ c.archive = f.body
    BY <1>4 DEF IsPackageCandidate, IsOfFile
  <2>2. PICK p \in snapshot.packages : p.lang = f.lang /\ p.path = f.path /\ p.digest = f.body
    BY <2>1 DEF IsListed
  <2> QED
    BY <1>2, <2>1, <2>2 DEF IsKnownSource
<1> QED
  BY <1>1, <1>3, <1>4

\* A path of the VFS, as it is published under res/.
LEMMA PublishedPath ==
    ASSUME NEW p, IsPath(p), p.top = "vfs", NEW q, q = [p EXCEPT !.top = "res"]
    PROVE  /\ IsPath(q) /\ q.top = "res" /\ q.ext = p.ext
           /\ Fold(q).top = "res" /\ Fold(p) = [Fold(q) EXCEPT !.top = "vfs"]
BY DEF IsPath, Fold

LEMMA FoldedTop ==
    ASSUME NEW p, IsPath(p)
    PROVE  Fold(p).top = p.top
BY DEF IsPath, Fold

LEMMA ReadableEntryHas ==
    ASSUME NEW f
    PROVE  LET e == ReadableEntry(f)
           IN  /\ e.lang = f.lang /\ e.path = [f.path EXCEPT !.top = "res"] /\ e.body = f.body
               /\ e.source = FromCandidate(f.source) /\ e.kind = f.kind
               /\ e.from = e.source.bytes
<1> DEFINE path == [f.path EXCEPT !.top = "res"]
           source == FromCandidate(f.source)
           inode == InodeOf(f)
           e == [lang |-> f.lang, path |-> path, body |-> f.body, source |-> source,
                 kind |-> f.kind, from |-> source.bytes, inode |-> inode]
<1>1. ReadableEntry(f) = e
  BY DEF ReadableEntry, ManifestEntry
<1> HIDE DEF path, source, inode
<1>2. /\ e.lang = f.lang /\ e.path = path /\ e.body = f.body /\ e.source = source
      /\ e.kind = f.kind /\ e.from = source.bytes
  OBVIOUS
<1> HIDE DEF e
<1> QED
  BY <1>1, <1>2 DEF path, source

LEMMA ClientEntryHas ==
    ASSUME NEW f
    PROVE  LET e == ClientEntry(f)
           IN  /\ e.lang = f.lang /\ e.path = f.path /\ e.body = f.body /\ e.kind = Passthrough
               /\ e.source.kind = "loose-file" /\ e.source.lang = f.lang
               /\ e.source.digest = f.body /\ e.source.bytes = f.body /\ e.from = f.body
BY DEF ClientEntry, ManifestEntry

LEMMA LibraryEntryHas ==
    ASSUME NEW libraries, NEW e \in ActionScriptManifest(libraries)
    PROVE  \E f \in libraries : /\ e.source = FromCandidate(f.source)
                                /\ e.swc = [f.source.path EXCEPT !.top = "res"]
                                /\ e.from = f.source.body
<1>1. PICK f \in libraries :
        e = [path |-> f.path, body |-> f.body, source |-> FromCandidate(f.source),
             swc |-> [f.source.path EXCEPT !.top = "res"], from |-> f.source.body,
             inode |-> InodeOfLibrary(f)]
  BY DEF ActionScriptManifest
<1> DEFINE source == FromCandidate(f.source)
           swc == [f.source.path EXCEPT !.top = "res"]
           inode == InodeOfLibrary(f)
           x == [path |-> f.path, body |-> f.body, source |-> source, swc |-> swc,
                 from |-> f.source.body, inode |-> inode]
<1>2. e = x
  BY <1>1
<1> HIDE DEF source, swc, inode
<1>3. x.source = source /\ x.swc = swc /\ x.from = f.source.body
  OBVIOUS
<1> HIDE DEF x
<1> QED
  BY <1>2, <1>3 DEF source, swc

\* The included files of the client are neither compiled nor under res/.
LEMMA IncludedIs ==
    ASSUME NEW p, IsIncluded(p)
    PROVE  p.top \in {"root", "mods", "res_mods"} /\ p.ext \notin {"pyc", "mo"}
<1>1. CASE p.top = "root" /\ <<p.stem, p.ext>> \in RootFiles
  BY <1>1 DEF RootFiles
<1>2. CASE p.top \in MountedDirectories /\ p.ext \in MountedSuffixes
  BY <1>2 DEF MountedDirectories, MountedSuffixes
<1> QED
  BY <1>1, <1>2 DEF IsIncluded

\* No two names of the snapshot differ in case only.
LEMMA NamesOfTheSnapshot ==
    ASSUME NEW files, NEW tree, NamesAreDisjoint(files), ClaimsAreDisjoint(tree),
           \A f \in files : IsPath(f.path) /\ f.path.top = "vfs",
           \A f \in tree : IsPath(f.path)
    PROVE  NamesAreDisjoint(FilesManifest(files, tree))
<1> DEFINE Entry(e) == \/ \E f \in files : e = ReadableEntry(f)
                       \/ \E f \in tree : IsIncluded(f.path) /\ e = ClientEntry(f)
<1>1. \A e \in FilesManifest(files, tree) : Entry(e)
  BY DEF FilesManifest
<1>2. ASSUME NEW f \in files
      PROVE  LET e == ReadableEntry(f)
             IN  /\ e.lang = f.lang /\ Fold(e.path).top = "res"
                 /\ Fold(f.path) = [Fold(e.path) EXCEPT !.top = "vfs"]
  <2> DEFINE e == ReadableEntry(f)
             p == f.path
             q == e.path
  <2>1. e.lang = f.lang /\ q = [p EXCEPT !.top = "res"]
    BY ReadableEntryHas
  <2> HIDE DEF e
  <2>2. IsPath(p) /\ p.top = "vfs"
    OBVIOUS
  <2> HIDE DEF p, q
  <2>3. Fold(q).top = "res" /\ Fold(p) = [Fold(q) EXCEPT !.top = "vfs"]
    BY <2>1, <2>2, PublishedPath
  <2> QED
    BY <2>1, <2>3 DEF e, p, q
<1>3. ASSUME NEW f \in tree, IsIncluded(f.path)
      PROVE  LET e == ClientEntry(f)
             IN  e.lang = f.lang /\ e.path = f.path /\ Fold(e.path).top # "res"
  <2>1. ClientEntry(f).lang = f.lang /\ ClientEntry(f).path = f.path
    BY ClientEntryHas
  <2>2. Fold(f.path).top = f.path.top
    BY FoldedTop
  <2>3. f.path.top # "res"
    BY <1>3, IncludedIs
  <2> QED
    BY <2>1, <2>2, <2>3
<1>4. ASSUME NEW f \in files, NEW g \in files, f # g
      PROVE  \/ ReadableEntry(f).lang # ReadableEntry(g).lang
             \/ Fold(ReadableEntry(f).path) # Fold(ReadableEntry(g).path)
  <2>1. f.lang # g.lang \/ Fold(f.path) # Fold(g.path)
    BY <1>4 DEF NamesAreDisjoint
  <2>2. /\ ReadableEntry(f).lang = f.lang
        /\ Fold(f.path) = [Fold(ReadableEntry(f).path) EXCEPT !.top = "vfs"]
    BY <1>2
  <2>3. /\ ReadableEntry(g).lang = g.lang
        /\ Fold(g.path) = [Fold(ReadableEntry(g).path) EXCEPT !.top = "vfs"]
    BY <1>2
  <2> QED
    BY <2>1, <2>2, <2>3
<1>5. ASSUME NEW f \in tree, NEW g \in tree, IsIncluded(f.path), IsIncluded(g.path), f # g
      PROVE  \/ ClientEntry(f).lang # ClientEntry(g).lang
             \/ Fold(ClientEntry(f).path) # Fold(ClientEntry(g).path)
  <2>1. f.lang # g.lang \/ Fold(f.path) # Fold(g.path)
    BY <1>5 DEF ClaimsAreDisjoint
  <2> QED
    BY <1>3, <1>5, <2>1
<1>6. ASSUME NEW f \in files, NEW g \in tree, IsIncluded(g.path)
      PROVE  Fold(ReadableEntry(f).path) # Fold(ClientEntry(g).path)
  <2>1. Fold(ReadableEntry(f).path).top = "res"
    BY <1>2
  <2>2. Fold(ClientEntry(g).path).top # "res"
    BY <1>3, <1>6
  <2> QED
    BY <2>1, <2>2
<1> SUFFICES ASSUME NEW d \in FilesManifest(files, tree), NEW e \in FilesManifest(files, tree),
                    d # e
             PROVE  d.lang # e.lang \/ Fold(d.path) # Fold(e.path)
  BY DEF NamesAreDisjoint
<1>7. Entry(d) /\ Entry(e)
  BY <1>1
<1> QED
  BY <1>4, <1>5, <1>6, <1>7

\* The readable files of a run.
LEMMA TheReadableFiles ==
    ASSUME ContentInv, stage > 11
    PROVE  \A f \in out.files :
              /\ f.source \in out.materialized /\ IsReadableOf(f, f.source)
              /\ IsPath(f.path) /\ f.path.top = "vfs" /\ f.path.ext \notin {"pyc", "mo"}
              /\ IsXml(f.path) => f.body.fmt # "packed"
<1> DEFINE mat == out.materialized
           plan == ReadablePlan({}, mat)
<1>1. out.files = AssembledReadable(plan, Transformed({}, plan))
  BY TheFiles DEF ContentInv
<1>2. \A m \in mat : IsPath(m.path) /\ m.path.top = "vfs" /\ IsBody(m.body)
  <2>1. stage > 7
    BY DEF ContentInv, ReleaseInv, StageInv
  <2> QED
    BY <2>1, TheReadable
<1> HIDE DEF mat
<1> SUFFICES ASSUME NEW f \in out.files
             PROVE  /\ f.source \in mat /\ IsReadableOf(f, f.source)
                    /\ IsPath(f.path) /\ f.path.top = "vfs" /\ f.path.ext \notin {"pyc", "mo"}
                    /\ IsXml(f.path) => f.body.fmt # "packed"
  BY DEF mat
<1>3. f.source \in mat /\ IsReadableOf(f, f.source)
  BY <1>1, ReadableFiles
<1> DEFINE m == f.source
<1>4. m \in mat /\ IsReadableOf(f, m)
  BY <1>3
<1> HIDE DEF m
<1>5. /\ IsPath(f.path) /\ f.path.top = "vfs" /\ f.path.ext \notin {"pyc", "mo"}
      /\ IsXml(f.path) => f.body.fmt # "packed"
  BY <1>2, <1>4, ReadableFileIsReadable
<1> QED
  BY <1>3, <1>5

\* Where a materialised file comes from is known to a snapshot with the packages.
LEMMA TheSources ==
    ASSUME ContentInv, PackagesInv, stage > 7, NEW snapshot, snapshot.packages = out.packages,
           NEW m \in out.materialized
    PROVE  LET source == FromCandidate(m)
           IN  /\ source.lang = m.lang /\ source.bytes = m.body
               /\ IsKnownSource(snapshot, source, m.lang)
<1> DEFINE T == out.tree
           client == TheRelease.client
           source == FromCandidate(m)
           c == m.source
<1>1. ReleaseInv /\ stage > 6
  BY DEF ContentInv, ReleaseInv, StageInv
<1>2. IsIndexed(T, client, TheOrder)
  BY <1>1, TheIndex
<1>3. m \in Materialized({}, Index({}, T, client))
  BY <1>1, TheMaterialized
<1>4. \A f \in T : IsPackage(f) => IsListed(f, snapshot.packages)
  BY <1>1 DEF PackagesInv
<1> HIDE DEF T, client
<1>5. c \in Index({}, T, client) /\ IsMade(m, c)
  BY <1>3, MadeOf
<1>6. IsSourceOf(source, c)
  BY <1>5, SourceOfMade
<1>7. c.lang = m.lang /\ BodyOf(c) = m.body
  BY <1>5 DEF IsMade
<1> HIDE DEF c, source
<1>8. c \in Candidates({}, T, TheOrder)
  BY <1>2, <1>5, WinnerOf
<1>9. source.lang = c.lang /\ IsKnownSource(snapshot, source, c.lang)
  BY <1>2, <1>4, <1>6, <1>8, SourceIsKnown
<1>10. source.bytes = BodyOf(c)
  BY <1>6 DEF IsSourceOf
<1> QED
  BY <1>7, <1>9, <1>10 DEF source

\* The published library is the readable file of its source.
LEMMA LibraryIsPublished ==
    ASSUME NEW m, IsPath(m.path), IsLibrary(m.path), NEW f, IsReadableOf(f, m)
    PROVE  LET e == ReadableEntry(f)
           IN  e.lang = m.lang /\ e.path = [m.path EXCEPT !.top = "res"] /\ e.body = m.body
<1> DEFINE p == m.path
           kind == Kind(p, m.body)
<1>1. p.ext = "swc"
  BY DEF IsLibrary
<1>2. kind = Passthrough
  BY <1>1 DEF Kind, IsXml
<1>3. f.lang = m.lang /\ f.path = OutputPath(p, kind) /\ f.body = FormOf(m)
  BY DEF IsReadableOf
<1>4. FormOf(m) = m.body
  BY <1>2 DEF FormOf
<1>5. OutputPath(p, Passthrough) = p
  <2>1. IsPath(p)
    OBVIOUS
  <2> HIDE DEF p
  <2>2. OutputPath(p, Passthrough) = [p EXCEPT !.ext = p.ext]
    BY DEF OutputPath, Passthrough
  <2> QED
    BY <2>1, <2>2 DEF IsPath
<1>6. f.path = p
  BY <1>2, <1>3, <1>5
<1> QED
  BY <1>3, <1>4, <1>6, ReadableEntryHas

\* snapshot refuses packed settings of the client, and nothing else.
LEMMA SnapshotIsSealable ==
    ASSUME ContentInv, PackagesInv, stage = 14, ~HasPackedSettings,
           NEW snapshot, snapshot = Populated(out.files, out.tree, out.libraries, out.stubs,
                                              out.packages, out.conflicts)
    PROVE  IsSealable({}, out.tree, snapshot)
<1> DEFINE T == out.tree
           mat == out.materialized
           plan == ReadablePlan({}, mat)
           files == out.files
           libraries == out.libraries
<1>1. /\ snapshot.files = FilesManifest(files, T)
      /\ snapshot.actionscript = ActionScriptManifest(libraries)
      /\ snapshot.packages = out.packages /\ snapshot.tools = Tools(files, libraries)
  BY DEF Populated
<1>2. /\ files = AssembledReadable(plan, Transformed({}, plan)) /\ IsReadable({}, mat)
      /\ libraries = LibrarySources({}, plan)
  BY TheFiles DEF ContentInv
<1>3. /\ \A f \in files : /\ f.source \in mat /\ IsReadableOf(f, f.source)
                          /\ IsPath(f.path) /\ f.path.top = "vfs" /\ f.path.ext \notin {"pyc", "mo"}
                          /\ IsXml(f.path) => f.body.fmt # "packed"
  BY TheReadableFiles
<1>4. \A m \in mat : IsPath(m.path)
  BY TheReadable
<1>5. /\ {AsClientFile(f) : f \in T} = ClientFiles /\ ClaimsAreDisjoint(T)
      /\ \A f \in T : IsPath(f.path)
  BY TheTree DEF ContentInv, IsTypedTree
<1>6. \A m \in mat : /\ FromCandidate(m).lang = m.lang /\ FromCandidate(m).bytes = m.body
                     /\ IsKnownSource(snapshot, FromCandidate(m), m.lang)
  BY <1>1, TheSources
<1>7. \A e \in snapshot.files : \/ \E f \in files : e = ReadableEntry(f)
                                \/ \E f \in T : IsIncluded(f.path) /\ e = ClientEntry(f)
  BY <1>1 DEF FilesManifest
<1>8. \A f \in files : ReadableEntry(f) \in snapshot.files
  BY <1>1 DEF FilesManifest
<1>9. \A f \in files : f.kind \in snapshot.tools
  BY <1>1 DEF Tools
<1> HIDE DEF T, mat, files, libraries
<1>10. NamesAreDisjoint(snapshot.files)
  <2>1. NamesAreDisjoint(files)
    BY <1>2, ReadableIsAssembled
  <2> QED
    BY <1>1, <1>3, <1>5, <2>1, NamesOfTheSnapshot
<1>11. ASSUME NEW f \in files
       PROVE  LET e == ReadableEntry(f)
              IN  /\ e.source.lang = e.lang /\ e.from = e.source.bytes /\ e.kind \in snapshot.tools
                  /\ IsKnownSource(snapshot, e.source, e.source.lang)
                  /\ e.path.ext \notin {"pyc", "mo"}
                  /\ IsXml(e.path) => e.body.fmt # "packed"
  <2> DEFINE e == ReadableEntry(f)
             m == f.source
             p == f.path
  <2>1. /\ e.lang = f.lang /\ e.path = [p EXCEPT !.top = "res"] /\ e.body = f.body
        /\ e.source = FromCandidate(m) /\ e.kind = f.kind /\ e.from = e.source.bytes
    BY ReadableEntryHas
  <2>2. m \in mat /\ IsReadableOf(f, m) /\ f.lang = m.lang
    BY <1>3 DEF IsReadableOf
  <2>3. IsPath(p) /\ p.ext \notin {"pyc", "mo"} /\ (IsXml(p) => f.body.fmt # "packed")
    BY <1>3
  <2> HIDE DEF e, m, p
  <2>4. e.path.ext = p.ext
    BY <2>1, <2>3 DEF IsPath
  <2>5. e.source.lang = e.lang /\ IsKnownSource(snapshot, e.source, e.source.lang)
    BY <1>6, <2>1, <2>2
  <2>6. e.kind \in snapshot.tools
    BY <1>9, <2>1
  <2>7. IsXml(e.path) => e.body.fmt # "packed"
    BY <2>1, <2>3, <2>4 DEF IsXml
  <2> QED
    BY <2>1, <2>3, <2>4, <2>5, <2>6, <2>7 DEF e
<1>12. ASSUME NEW f \in T, IsIncluded(f.path)
       PROVE  LET e == ClientEntry(f)
              IN  /\ e.source.lang = e.lang /\ e.from = e.source.bytes /\ e.kind = Passthrough
                  /\ IsKnownSource(snapshot, e.source, e.source.lang)
                  /\ e.path.ext \notin {"pyc", "mo"}
                  /\ IsXml(e.path) => e.body.fmt # "packed"
  <2> DEFINE e == ClientEntry(f)
  <2>1. /\ e.lang = f.lang /\ e.path = f.path /\ e.body = f.body /\ e.kind = Passthrough
        /\ e.source.kind = "loose-file" /\ e.source.lang = f.lang
        /\ e.source.digest = f.body /\ e.source.bytes = f.body /\ e.from = f.body
    BY ClientEntryHas
  <2> HIDE DEF e
  <2>2. IsKnownSource(snapshot, e.source, e.source.lang)
    BY <2>1 DEF IsKnownSource
  <2>3. IsXml(f.path) => f.body.fmt # "packed"
    <3> DEFINE g == AsClientFile(f)
    <3>1. g \in ClientFiles /\ g.path = f.path /\ g.body = f.body
      BY <1>5 DEF AsClientFile
    <3> HIDE DEF g
    <3> QED
      BY <1>12, <3>1 DEF HasPackedSettings
  <2> QED
    BY <1>12, <2>1, <2>2, <2>3, IncludedIs DEF e
<1>13. IsFilesManifest(snapshot) /\ IsReadablePayload(snapshot)
  <2>1. ASSUME NEW e \in snapshot.files
        PROVE  /\ e.source.lang = e.lang /\ e.from = e.source.bytes
               /\ e.kind \in {Passthrough} \cup snapshot.tools
               /\ IsKnownSource(snapshot, e.source, e.source.lang)
               /\ e.path.ext \notin {"pyc", "mo"}
               /\ IsXml(e.path) => e.body.fmt # "packed"
    BY <1>7, <1>11, <1>12
  <2> QED
    BY <2>1 DEF IsFilesManifest, IsReadablePayload
<1>14. IsActionScriptManifest(snapshot)
  <2> SUFFICES ASSUME NEW e \in snapshot.actionscript
               PROVE  /\ "swc" \in snapshot.tools /\ e.from = e.source.bytes
                      /\ IsKnownSource(snapshot, e.source, NoLang)
                      /\ \E f \in snapshot.files : /\ f.lang = NoLang /\ f.path = e.swc
                                                   /\ f.body = e.source.bytes
    BY DEF IsActionScriptManifest
  <2>1. PICK l \in libraries : /\ e.source = FromCandidate(l.source)
                               /\ e.swc = [l.source.path EXCEPT !.top = "res"]
                               /\ e.from = l.source.body
    BY <1>1, LibraryEntryHas
  <2>2. PICK x \in Libraries(plan) : l = Library(x, Scripts(InPlace({}, x.source)))
    BY <1>2 DEF LibrarySources
  <2>3. l.source = x.source /\ x \in plan /\ x.bundle # NoBundle
    BY <2>2, LibraryFileIs DEF Libraries
  <2>4. x.lang = NoLang
    BY <1>2, <2>2 DEF IsReadable, LibrariesAreApart
  <2> DEFINE m == l.source
  <2>5. m \in mat /\ m.lang = NoLang /\ IsLibrary(m.path)
    BY <2>3, <2>4, EntriesAreOf
  <2>6. e.source = FromCandidate(m) /\ e.swc = [m.path EXCEPT !.top = "res"] /\ e.from = m.body
    BY <2>1
  <2> HIDE DEF m
  <2>7. e.source.bytes = m.body /\ IsKnownSource(snapshot, e.source, NoLang)
    BY <1>6, <2>5, <2>6
  <2>8. "swc" \in snapshot.tools
    BY <1>1, <2>1 DEF Tools
  <2>9. PICK f \in files : IsReadableOf(f, m)
    BY <1>2, <2>5, ReadableFiles
  <2>10. /\ ReadableEntry(f) \in snapshot.files
         /\ ReadableEntry(f).lang = NoLang /\ ReadableEntry(f).path = e.swc
         /\ ReadableEntry(f).body = e.source.bytes
    BY <1>4, <1>8, <2>5, <2>6, <2>7, <2>9, LibraryIsPublished
  <2> QED
    BY <2>6, <2>7, <2>8, <2>10
<1>15. \A entries : IsPayload({}, entries)
  BY ReadUnchanged DEF IsPayload, Sound
<1>16. AreUnchanged({}, T)
  BY ReadUnchanged DEF AreUnchanged, Sound
<1> QED
  BY <1>10, <1>13, <1>14, <1>15, <1>16 DEF IsSealable, IsVerified, T

-----------------------------------------------------------------------------
(* The refusals.                                                           *)

\* As long as no stored file has changed, each stage from index-vfs on refuses
\* a run only for what is wrong with the client itself, as its parts would be mounted
\* and read, for every release; assemble-readable and finalize-readable never do.
THEOREM RefusalsHaveReasons == Spec => []RefusedForAReason
<1>1. ASSUME Init
      PROVE  RefusalInv /\ PackagesInv
  <2>1. stage = 1
    BY <1>1 DEF Init
  <2>2. RefusalInv
    <3>1. refused = ""
      BY <1>1 DEF Init
    <3> QED
      BY <3>1 DEF RefusalInv
  <2>3. PackagesInv
    BY <2>1 DEF PackagesInv
  <2> QED
    BY <2>2, <2>3
<1>2. ContentInv /\ RefusalInv /\ PackagesInv /\ [Next]_vars => RefusalInv' /\ PackagesInv'
  BY RefusalStays, PackagesStay
<1>3. ASSUME ContentInv, RefusalInv, PackagesInv
      PROVE  RefusedForAReason
  <2> SUFFICES ASSUME rot = {}
               PROVE  /\ refused = "index-vfs"              => HasNoOrder \/ HasUnmountablePackage
                      /\ refused = "materialize-vfs"        => HasBrokenPackage
                      /\ refused = "plan-readable"          => HasNoReadableForm
                      /\ refused = "transform-readable"     => HasForeignFormat
                      /\ refused = "decompile-actionscript" => HasForeignLibrary
                      /\ refused = "generate-engine-stubs"  => HasNoBinary
                      /\ refused = "snapshot"               => HasPackedSettings
                      /\ refused \notin {"assemble-readable", "finalize-readable"}
    BY DEF RefusedForAReason
  <2>1. stage \in 1..15
    BY <1>3 DEF ContentInv, ReleaseInv, StageInv
  <2>2. ASSUME refused = "materialize-vfs" PROVE HasBrokenPackage
    <3>1. stage = 7 /\ ~IsMaterializable({}, out.index)
      BY <1>3, <2>1, <2>2, StagesAre DEF RefusalInv
    <3> QED
      BY <1>3, <3>1, IndexIsMaterializable
  <2>3. ASSUME refused = "plan-readable" PROVE HasNoReadableForm
    <3>1. stage = 8 /\ ~IsReadable({}, out.materialized)
      BY <1>3, <2>1, <2>3, StagesAre DEF RefusalInv
    <3> QED
      BY <1>3, <3>1, MaterializedIsReadable
  <2>4. ASSUME refused = "transform-readable" PROVE HasForeignFormat
    <3>1. stage = 9 /\ ~AreTransformable({}, out.readable)
      BY <1>3, <2>1, <2>4, StagesAre DEF RefusalInv
    <3> QED
      BY <1>3, <3>1, ReadableIsTransformable
  <2>5. ASSUME refused = "decompile-actionscript" PROVE HasForeignLibrary
    <3>1. stage = 10 /\ ~AreDecompilable({}, out.readable)
      BY <1>3, <2>1, <2>5, StagesAre DEF RefusalInv
    <3> QED
      BY <1>3, <3>1, ReadableIsDecompilable
  <2>6. refused # "assemble-readable"
    <3> SUFFICES ASSUME refused = "assemble-readable" PROVE FALSE
      OBVIOUS
    <3> DEFINE files == AssembledReadable(out.readable, out.transformed)
               plan == ReadablePlan({}, out.materialized)
    <3>1. /\ stage = 11
          /\ ~(/\ HasAllOutputs(out.readable, out.transformed) /\ NamesAreDisjoint(files)
               /\ LayersAreSound({}, files, out.libraries))
      BY <1>3, <2>1, StagesAre DEF RefusalInv
    <3>2. /\ out.readable = plan /\ IsReadable({}, out.materialized)
          /\ out.transformed = Transformed({}, plan)
      BY <1>3, <3>1 DEF ContentInv, ReleaseInv, ResultsAreOfTheUnchanged, AreResultsOf,
         IsReadableFrom, IsTransformedFrom
    <3> QED
      BY <3>1, <3>2, ReadableIsAssembled
  <2>7. ASSUME refused = "generate-engine-stubs" PROVE HasNoBinary
    <3>1. stage = 12 /\ Binaries(out.tree) = {}
      BY <1>3, <2>1, <2>7, StagesAre DEF RefusalInv
    <3> QED
      BY <1>3, <3>1, BinariesAreFound
  <2>8. refused # "finalize-readable"
    <3> SUFFICES ASSUME refused = "finalize-readable" PROVE FALSE
      OBVIOUS
    <3>1. stage = 13 /\ ~IsFinalizable({}, out.files, out.libraries, out.stubs)
      BY <1>3, <2>1, StagesAre DEF RefusalInv
    <3> QED
      BY <1>3, <3>1, TheReadableFiles, FilesAreFinalizable
  <2>9. ASSUME refused = "snapshot" PROVE HasPackedSettings
    <3>1. stage = 14 /\ ~IsSealable({}, out.tree,
             Populated(out.files, out.tree, out.libraries, out.stubs, out.packages, out.conflicts))
      BY <1>3, <2>1, <2>9, StagesAre DEF RefusalInv
    <3> QED
      BY <1>3, <3>1, SnapshotIsSealable
  <2>10. ASSUME refused = "index-vfs" PROVE HasNoOrder \/ HasUnmountablePackage
    <3>1. stage = 6 /\ ~IsIndexable({}, out.tree, TheRelease.client)
      BY <1>3, <2>1, <2>10, StagesAre DEF RefusalInv
    <3> QED
      BY <1>3, <3>1, TreeIsIndexable
  <2> QED
    BY <2>10, <2>2, <2>3, <2>4, <2>5, <2>6, <2>7, <2>8, <2>9
<1> QED
  BY <1>1, <1>2, <1>3, ContentInvariant, PTL DEF Spec

=============================================================================
