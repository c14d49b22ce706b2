---------------------------- MODULE BlockingProofs ----------------------------
(***************************************************************************)
(* From the list servers to a verdict, for any lists, any names, any       *)
(* number of downloads and any order in which they end or fail.            *)
(***************************************************************************)
EXTENDS Blocking, FiniteLemmas, SequenceTheorems

-----------------------------------------------------------------------------
\* The loop of HashedMatcher::check computes the verdict of DomainNames, for
\* every name, every map and every allowlist.

\* The first listed suffix the loop meets is the longest one.
LEMMA LeastIsMin ==
    ASSUME NEW S \in SUBSET Int, NEW m \in S, \A x \in S : m <= x
    PROVE  Min(S) = m
<1>1. \A x \in S : (\A y \in S : x <= y) => x = m
  OBVIOUS
<1> QED
  BY <1>1 DEF Min

Unlisted(k) == Suffix(domain, k) \notin DOMAIN domains

\* What the loop has established at each of its points.
LoopInv ==
    /\ pc \in {"allowlist", "lookup", "strip", "done"}
    /\ domain \in Seq(Labels) /\ Len(domain) >= 1
    /\ verdict # NoSource => pc = "done"
    /\ pc \in {"lookup", "strip"} =>
          /\ domain \notin allowlist
          /\ stripped \in Strippings(domain)
    /\ pc = "allowlist" => stripped = 0
    /\ pc = "lookup" => \A k \in Strippings(domain) : k < stripped => Unlisted(k)
    /\ pc = "strip" => \A k \in Strippings(domain) : k <= stripped => Unlisted(k)
    /\ LoopAgrees

\* Lowering a name keeps its labels in number.
LEMMA LoweredName ==
    ASSUME NEW name \in Names
    PROVE  LowerName(name) \in Seq(Labels) /\ Len(LowerName(name)) >= 1
  BY MatcherAssumption DEF LowerName

LEMMA LoopInit == Init => LoopInv
  BY LoweredName DEF Init, LoopInv, domain, LoopAgrees

\* Nothing is left to look up when the loop gives up.
LEMMA NothingLeft ==
    ASSUME domain \in Seq(Labels), stripped \in Strippings(domain), ~LeavesLabel
    PROVE  \A k \in Strippings(domain) : k <= stripped
<1> SUFFICES ASSUME NEW k \in Strippings(domain), k > stripped
             PROVE  FALSE
  BY DEF Strippings
<1>1. stripped \in Nat /\ k \in Nat /\ k <= Len(domain) - 1 /\ Len(domain) \in Nat
  BY DEF Strippings
<1>2. HasDot
  BY <1>1 DEF HasDot
<1>3. Suffix(domain, stripped + 1) = <<Empty>>
  BY <1>2 DEF LeavesLabel
<1>4. Len(Suffix(domain, stripped + 1)) = Len(domain) - stripped - 1
  BY <1>1, <1>2 DEF Suffix, HasDot
<1>5. Len(domain) = stripped + 2
  <2>1. Len(<<Empty>>) = 1
    OBVIOUS
  <2>2. Len(domain) - stripped - 1 = 1
    BY <1>3, <1>4, <2>1
  <2> QED
    BY <1>1, <2>2
<1>6. k = stripped + 1
  BY <1>1, <1>5
<1> QED
  BY <1>1, <1>3, <1>6 DEF Strippings

LEMMA StrippingsStep ==
    ASSUME domain \in Seq(Labels), stripped \in Strippings(domain), LeavesLabel
    PROVE  /\ stripped + 1 \in Strippings(domain)
           /\ \A k \in Strippings(domain) : k < stripped + 1 => k <= stripped
  BY DEF Strippings, LeavesLabel, HasDot

LEMMA LoopStep == LoopInv /\ [Next]_vars => LoopInv'
<1> SUFFICES ASSUME LoopInv, [Next]_vars PROVE LoopInv'
  OBVIOUS
<1> USE DEF LoopInv
<1>1. /\ domain' = domain /\ domains' = domains /\ allowlist' = allowlist
      /\ Strippings(domain)' = Strippings(domain)
      /\ ListedStrippings(domains, domain)' = ListedStrippings(domains, domain)
      /\ Verdict(domains, allowlist, domain)' = Verdict(domains, allowlist, domain)
      /\ \A k : Unlisted(k)' <=> Unlisted(k)
  BY DEF Next, CheckAllowlist, Hit, Miss, Strip, GiveUp, Done, vars, domain,
         Strippings, ListedStrippings, Verdict, Unlisted
<1>2. CASE CheckAllowlist
  <2>1. /\ stripped \in Strippings(domain) /\ stripped' = stripped
        /\ \A k \in Strippings(domain) : ~(k < stripped)
    BY <1>2 DEF CheckAllowlist, Strippings
  <2>2. pc' = "done" => verdict = Verdict(domains, allowlist, domain)
    BY <1>2 DEF CheckAllowlist, Verdict
  <2> QED
    BY <1>1, <1>2, <2>1, <2>2 DEF CheckAllowlist, LoopAgrees
<1>3. CASE Hit
  <2> DEFINE S == ListedStrippings(domains, domain)
  <2>1. S \in SUBSET Int /\ stripped \in S
    BY <1>3 DEF Hit, ListedStrippings, Strippings, part
  <2>2. \A k \in S : stripped <= k
    BY <1>3, <2>1 DEF Hit, Unlisted, ListedStrippings
  <2> HIDE DEF S
  <2>3. Min(S) = stripped
    BY <2>1, <2>2, LeastIsMin
  <2>4. domains[part] = Verdict(domains, allowlist, domain)
    BY <1>3, <2>1, <2>3 DEF Hit, Verdict, part, S
  <2> QED
    BY <1>1, <1>3, <2>4 DEF Hit, LoopAgrees
<1>4. CASE Miss
  <2>1. \A k \in Strippings(domain) : k <= stripped => Unlisted(k)
    BY <1>4 DEF Miss, Unlisted, part, Strippings
  <2> QED
    BY <1>1, <1>4, <2>1 DEF Miss, LoopAgrees
<1>5. CASE Strip
  <2>1. /\ stripped + 1 \in Strippings(domain)
        /\ \A k \in Strippings(domain) : k < stripped + 1 => Unlisted(k)
    BY <1>5, StrippingsStep DEF Strip
  <2> QED
    BY <1>1, <1>5, <2>1 DEF Strip, LoopAgrees
<1>6. CASE GiveUp
  <2>1. \A k \in Strippings(domain) : Unlisted(k)
    BY <1>6, NothingLeft DEF GiveUp
  <2>2. Verdict(domains, allowlist, domain) = NoSource
    BY <2>1 DEF Verdict, ListedStrippings, Unlisted
  <2> QED
    BY <1>1, <1>6, <2>2 DEF GiveUp, LoopAgrees
<1>7. CASE Done \/ UNCHANGED vars
  BY <1>1, <1>7 DEF Done, vars, LoopAgrees
<1> QED
  BY <1>2, <1>3, <1>4, <1>5, <1>6, <1>7 DEF Next

\* Every lookup that ends returns the source of the longest listed suffix of
\* the name, or nothing when the whole name is on the allowlist.
THEOREM CheckComputesVerdict == Spec => []LoopAgrees
<1>1. LoopInv => LoopAgrees
  BY DEF LoopInv
<1> QED
  BY <1>1, LoopInit, LoopStep, PTL DEF Spec

\* A listed domain blocks everything under it that is not allowlisted itself.
THEOREM ListedDomainsBlock == Spec => []ParentBlocks
<1> DEFINE Attributed == \A name \in DOMAIN domains : domains[name] \in Sources
<1>1. Init => LoopInv /\ Attributed
  BY LoopInit DEF Init, Attributions
<1>2. LoopInv /\ Attributed /\ [Next]_vars => LoopInv' /\ Attributed'
  BY LoopStep DEF Next, CheckAllowlist, Hit, Miss, Strip, GiveUp, Done, vars
<1>3. LoopInv /\ Attributed => ParentBlocks
  <2> SUFFICES ASSUME LoopInv, Attributed, pc = "done", domain \notin allowlist,
                      NEW k \in Strippings(domain), Suffix(domain, k) \in DOMAIN domains
               PROVE  verdict # NoSource
    BY DEF ParentBlocks
  <2> DEFINE S == ListedStrippings(domains, domain)
  <2>1. S # {} /\ S \in SUBSET Nat
    BY DEF ListedStrippings, Strippings
  <2> HIDE DEF S
  <2>2. Min(S) \in S
    BY <2>1, LeastOfNat
  <2>3. domains[Suffix(domain, Min(S))] \in Sources
    BY <2>2 DEF S, ListedStrippings
  <2> QED
    BY <2>1, <2>3, MatcherAssumption DEF LoopInv, LoopAgrees, Verdict, S
<1> QED
  BY <1>1, <1>2, <1>3, PTL DEF Spec

-----------------------------------------------------------------------------
\* The pipeline from the list servers to the matcher.

\* The next list to start is a waiting one.
LEMMA MinWaiting ==
    ASSUME Manager!Waiting # {}
    PROVE  Manager!Min(Manager!Waiting) \in Manager!Waiting
<1>1. Manager!Waiting \in SUBSET Nat
  BY BlockingAssumption DEF Manager!Waiting, Manager!ListIds, Manager!ManagerAssumption
<1>2. Manager!Min(Manager!Waiting) = Min(Manager!Waiting)
  BY DEF Manager!Min, Min
<1> QED
  BY <1>1, <1>2, LeastOfNat

\* Both modules count with the operator of FiniteSets.
LEMMA SameCount ==
    ASSUME NEW S
    PROVE  Manager!Cardinality(S) = Cardinality(S)
  BY DEF Manager!Cardinality, Manager!IsFiniteSet, Cardinality, IsFiniteSet

Finished == {i \in Manager!ListIds : download[i] = "finished"}

\* The steps of a refresh.
Refresh ==
    \/ Manager!Start \/ Manager!Collect \/ Manager!Merge
    \/ \E i \in Manager!ListIds : Manager!Server(i)

\* A sequence without repetitions is no longer than what it is made of.
LEMMA InjectiveLength ==
    ASSUME NEW n \in Nat, NEW s \in Seq(1..n), Manager!IsInjective(s)
    PROVE  Len(s) <= n
<1>1. s \in [1..Len(s) -> 1..n] /\ Len(s) \in Nat
  BY LenProperties
<1>2. s \in Injection(1..Len(s), 1..n)
  BY <1>1 DEF Injection, IsInjective, Manager!IsInjective
<1>3. \A m \in Nat : IsFiniteSet(1..m) /\ Cardinality(1..m) = m
  BY FS_Interval
<1>4. Cardinality(1..Len(s)) = Len(s)
  BY <1>1, <1>3
<1>5. Cardinality(1..Len(s)) <= Cardinality(1..n)
  BY <1>2, <1>3, FS_Injection
<1> QED
  BY <1>3, <1>4, <1>5

\* A download that ends is the next of the results, and their only entry of it.
LEMMA FinishOnce ==
    ASSUME Manager!RefreshInv, NEW i \in Manager!ListIds,
           download[i] # "finished", Manager!Finish(i)
    PROVE  /\ results' \in Seq(Manager!ListIds) /\ Len(results') <= NumLists
           /\ Manager!IsInjective(results')
           /\ Manager!Range(results') = Manager!Range(results) \cup {i}
           /\ Finished' = Finished \cup {i} /\ i \notin Manager!Range(results)
<1> USE DEF Manager!RefreshInv, Manager!TypeOK
<1>1. i \notin Manager!Range(results)
  BY DEF Manager!MergedSound
<1>2. /\ results' = Append(results, i) /\ results \in Seq(Manager!ListIds)
      /\ results' \in Seq(Manager!ListIds) /\ Len(results') = Len(results) + 1
  BY DEF Manager!Finish
<1>3. Manager!IsInjective(results')
  BY <1>1, <1>2 DEF Manager!IsInjective, Manager!MergedSound, Manager!Range
<1>4. Manager!Range(results') = Manager!Range(results) \cup {i}
  BY <1>2 DEF Manager!Range
<1>5. Finished' = Finished \cup {i}
  BY DEF Manager!Finish, Finished
<1>6. NumLists \in Nat /\ Manager!ListIds = 1..NumLists
  BY BlockingAssumption DEF Manager!ManagerAssumption, Manager!ListIds
<1>7. Len(results') <= NumLists
  BY <1>2, <1>3, <1>6, InjectiveLength
<1> QED
  BY <1>1, <1>2, <1>3, <1>4, <1>5, <1>7

-----------------------------------------------------------------------------
\* What the other parts of RefreshInv follow from.
RefreshCore ==
    /\ Manager!TypeOK /\ Manager!DownloadsBounded
    /\ Manager!ParsedSound /\ Manager!MergedSound

LEMMA CoreSuffices ==
    ASSUME RefreshCore
    PROVE  Manager!RefreshInv
<1> USE DEF RefreshCore
<1>1. Manager!SourcesJustified
  <2> SUFFICES ASSUME NEW d \in DOMAIN merged
               PROVE  \E i \in Manager!ListIds :
                         Manager!Has(i, d) /\ Manager!SourceId(i) = merged[d]
    BY DEF Manager!SourcesJustified
  <2>1. PICK i \in Manager!ListIds : <<d, merged[d]>> \in got[i]
    BY DEF Manager!MergedSound
  <2>2. Manager!Has(i, <<d, merged[d]>>[1]) /\ <<d, merged[d]>>[2] = Manager!SourceId(i)
    BY <2>1 DEF Manager!ParsedSound
  <2> QED
    BY <2>2
<1>2. Manager!NothingForgotten
  <2> SUFFICES ASSUME refresh = "done", NEW i \in Manager!ListIds \ broken,
                      NEW d \in Manager!Domains, Manager!Has(i, d)
               PROVE  d \in DOMAIN merged
    BY DEF Manager!NothingForgotten
  <2>1. /\ Finished = Manager!ListIds /\ results = <<>>
    BY DEF Manager!MergedSound, Finished
  <2>2. Manager!Range(results) = {}
    BY <2>1 DEF Manager!Range
  <2>3. <<d, Manager!SourceId(i)>> \in got[i]
    BY <2>1 DEF Manager!ParsedSound, Finished
  <2>4. i \in Finished \ Manager!Range(results)
    BY <2>1, <2>2
  <2>5. <<d, Manager!SourceId(i)>>[1] \in DOMAIN merged
    BY <2>3, <2>4 DEF Manager!MergedSound, Finished
  <2> QED
    BY <2>5
<1> QED
  BY <1>1, <1>2 DEF Manager!RefreshInv

\* The lines up to any point give entries of the list, all of it at its end.
LEMMA ParsedLines ==
    ASSUME Manager!TypeOK, NEW i \in Manager!ListIds, NEW n \in 0..Len(content[i])
    PROVE  /\ Manager!Parsed(i, n) \in SUBSET (Manager!Domains \X (0..MaxSource))
           /\ \A e \in Manager!Parsed(i, n) :
                 Manager!Has(i, e[1]) /\ e[2] = Manager!SourceId(i)
           /\ n = Len(content[i]) => \A d \in Manager!Domains :
                 Manager!Has(i, d) => <<d, Manager!SourceId(i)>> \in Manager!Parsed(i, n)
<1>1. content[i] \in Seq(Lines) /\ MaxSource \in Nat /\ i \in Nat \ {0}
  BY BlockingAssumption DEF Manager!ManagerAssumption, Manager!TypeOK, Manager!ListIds
<1>2. Manager!SourceId(i) \in 0..MaxSource
  BY <1>1 DEF Manager!SourceId
<1>3. ASSUME NEW k \in 1..n, ParseLine[content[i][k]] # NoDomain
      PROVE  /\ k \in 1..Len(content[i])
             /\ ParseLine[content[i][k]] \in Manager!Domains
  BY <1>1, <1>3 DEF Manager!Domains
<1>4. ASSUME NEW e \in Manager!Parsed(i, n)
      PROVE  /\ e \in Manager!Domains \X (0..MaxSource)
             /\ Manager!Has(i, e[1]) /\ e[2] = Manager!SourceId(i)
  <2>1. PICK k \in 1..n : /\ ParseLine[content[i][k]] # NoDomain
                          /\ e = <<ParseLine[content[i][k]], Manager!SourceId(i)>>
    BY DEF Manager!Parsed
  <2> QED
    BY <1>2, <1>3, <2>1 DEF Manager!Has
<1>5. ASSUME n = Len(content[i]), NEW d \in Manager!Domains, Manager!Has(i, d)
      PROVE  <<d, Manager!SourceId(i)>> \in Manager!Parsed(i, n)
  <2>1. PICK k \in 1..n : ParseLine[content[i][k]] = d
    BY <1>5 DEF Manager!Has
  <2>2. d # NoDomain
    BY DEF Manager!Domains
  <2> QED
    BY <2>1, <2>2 DEF Manager!Parsed
<1> QED
  BY <1>4, <1>5

\* A download ends with the entries `entries`, complete unless it is broken.
LEMMA EndStep ==
    ASSUME Manager!RefreshInv, NEW i \in Manager!ListIds,
           download[i] \in {"connecting", "reading"}, Manager!Finish(i),
           UNCHANGED <<content, merged, refresh>>,
           NEW entries \in SUBSET (Manager!Domains \X (0..MaxSource)),
           got' = [got EXCEPT ![i] = entries],
           broken' = broken \/ broken' = broken \cup {i},
           \A e \in entries : Manager!Has(i, e[1]) /\ e[2] = Manager!SourceId(i),
           i \notin broken' =>
              \A d \in Manager!Domains :
                 Manager!Has(i, d) => <<d, Manager!SourceId(i)>> \in entries
    PROVE  RefreshCore'
<1>1. /\ results' \in Seq(Manager!ListIds) /\ Len(results') <= NumLists
      /\ Manager!IsInjective(results')
      /\ Manager!Range(results') = Manager!Range(results) \cup {i}
      /\ Finished' = Finished \cup {i} /\ i \notin Manager!Range(results)
  BY FinishOnce
<1> USE DEF Manager!RefreshInv
<1>2. download' = [download EXCEPT ![i] = "finished"]
  BY DEF Manager!Finish
<1>3. Manager!TypeOK'
  BY <1>1, <1>2 DEF Manager!TypeOK
<1>4. Manager!DownloadsBounded'
  <2>1. Manager!InFlight' = Manager!InFlight \ {i} /\ i \in Manager!InFlight
    BY <1>2 DEF Manager!InFlight, Manager!TypeOK
  <2>2. IsFiniteSet(Manager!InFlight)
    <3>1. IsFiniteSet(Manager!ListIds)
      BY BlockingAssumption, FS_Interval DEF Manager!ListIds, Manager!ManagerAssumption
    <3> QED
      BY <3>1, FS_Subset DEF Manager!InFlight
  <2>3. Cardinality(Manager!InFlight') <= Cardinality(Manager!InFlight)
    BY <2>1, <2>2, FS_Subset
  <2>4. /\ Cardinality(Manager!InFlight) \in Nat /\ Cardinality(Manager!InFlight') \in Nat
        /\ ConcurrentDownloads \in Nat
    BY <2>1, <2>2, FS_CardinalityType, FS_Subset, BlockingAssumption
       DEF Manager!ManagerAssumption
  <2>5. Cardinality(Manager!InFlight) <= ConcurrentDownloads
    BY SameCount DEF Manager!DownloadsBounded
  <2>6. Cardinality(Manager!InFlight') <= ConcurrentDownloads
    BY <2>3, <2>4, <2>5
  <2> QED
    BY <2>6, SameCount DEF Manager!DownloadsBounded
<1>5. Manager!ParsedSound'
  <2>1. \A j \in Manager!ListIds : \A d : Manager!Has(j, d)' <=> Manager!Has(j, d)
    BY DEF Manager!Has
  <2> SUFFICES ASSUME NEW j \in Manager!ListIds
               PROVE  /\ \A e \in got'[j] :
                            Manager!Has(j, e[1]) /\ e[2] = Manager!SourceId(j)
                      /\ download'[j] = "finished" /\ j \notin broken' =>
                            \A d \in Manager!Domains :
                               Manager!Has(j, d) => <<d, Manager!SourceId(j)>> \in got'[j]
    BY <2>1 DEF Manager!ParsedSound
  <2>2. CASE j = i
    BY <2>2 DEF Manager!TypeOK
  <2>3. CASE j # i
    <3>1. got'[j] = got[j] /\ download'[j] = download[j] /\ (j \in broken' <=> j \in broken)
      BY <1>2, <2>3 DEF Manager!TypeOK
    <3> QED
      BY <3>1 DEF Manager!ParsedSound
  <2> QED
    BY <2>2, <2>3
<1>6. Manager!MergedSound'
  <2>1. i \notin Finished /\ refresh = "downloading"
    BY DEF Finished, Manager!MergedSound, Manager!TypeOK
  <2>2. (Finished \ Manager!Range(results))' = {} /\ DOMAIN merged = {}
    BY <1>1, <2>1 DEF Manager!MergedSound, Finished
  <2>3. Manager!Range(results') \subseteq Finished'
    BY <1>1 DEF Manager!MergedSound, Finished
  <2> QED
    BY <1>1, <2>1, <2>2, <2>3 DEF Manager!MergedSound, Finished
<1> QED
  BY <1>3, <1>4, <1>5, <1>6 DEF RefreshCore

\* The ends of a download: refused, read to the end, cut off at some line.
LEMMA EndsStep ==
    ASSUME Manager!RefreshInv, NEW i \in Manager!ListIds,
           Manager!FetchFails(i) \/ Manager!ReadAll(i) \/ Manager!ReadBreaks(i)
    PROVE  RefreshCore'
<1> USE DEF Manager!RefreshInv
<1>1. CASE Manager!FetchFails(i)
  <2>1. /\ download[i] = "connecting" /\ Manager!Finish(i)
        /\ broken' = broken \cup {i} /\ UNCHANGED <<content, got, merged, refresh>>
    BY <1>1 DEF Manager!FetchFails
  <2>2. /\ got' = [got EXCEPT ![i] = got[i]]
        /\ got[i] \in SUBSET (Manager!Domains \X (0..MaxSource))
    BY <2>1 DEF Manager!TypeOK
  <2>3. \A e \in got[i] : Manager!Has(i, e[1]) /\ e[2] = Manager!SourceId(i)
    BY DEF Manager!ParsedSound
  <2> QED
    BY <2>1, <2>2, <2>3, EndStep
<1>2. ASSUME NEW n \in 0..Len(content[i]), download[i] = "reading", Manager!Finish(i),
             got' = [got EXCEPT ![i] = Manager!Parsed(i, n)],
             UNCHANGED <<content, merged, refresh>>,
             \/ broken' = broken /\ n = Len(content[i])
             \/ broken' = broken \cup {i}
      PROVE  RefreshCore'
  BY <1>2, ParsedLines, EndStep
<1>3. CASE Manager!ReadAll(i)
  <2>1. content[i] \in Seq(Lines)
    BY BlockingAssumption DEF Manager!TypeOK, Manager!ManagerAssumption, Manager!ListIds
  <2>2. Len(content[i]) \in 0..Len(content[i])
    BY <2>1
  <2> QED
    BY <1>2, <1>3, <2>2 DEF Manager!ReadAll
<1>4. CASE Manager!ReadBreaks(i)
  BY <1>2, <1>4 DEF Manager!ReadBreaks
<1> QED
  BY <1>1, <1>3, <1>4

\* A download that begins takes the room there is; connecting changes nothing
\* but its state.
LEMMA BeginStep ==
    ASSUME Manager!RefreshInv,
           Manager!Start \/ \E i \in Manager!ListIds : Manager!Connect(i)
    PROVE  RefreshCore'
<1> USE DEF Manager!RefreshInv
<1>1. UNCHANGED <<content, got, broken, results, merged, refresh>>
  BY DEF Manager!Start, Manager!Connect
<1>2. PICK i \in Manager!ListIds, label \in {"connecting", "reading"} :
         /\ download' = [download EXCEPT ![i] = label]
         /\ download[i] \in {"waiting", "connecting"}
         /\ download[i] = "waiting" => Manager!HasRoom
  BY MinWaiting DEF Manager!Start, Manager!Connect, Manager!Waiting
<1>3. Finished' = Finished
  BY <1>2 DEF Finished, Manager!TypeOK
<1>4. Manager!TypeOK'
  BY <1>1, <1>2 DEF Manager!TypeOK
<1>5. Manager!DownloadsBounded'
  <2> DEFINE S == Manager!InFlight
  <2>1. Manager!InFlight' = S \cup {i} /\ (i \in S <=> download[i] # "waiting")
    BY <1>2 DEF Manager!InFlight, Manager!TypeOK
  <2>2. IsFiniteSet(S)
    <3>1. IsFiniteSet(Manager!ListIds)
      BY BlockingAssumption, FS_Interval DEF Manager!ListIds, Manager!ManagerAssumption
    <3> QED
      BY <3>1, FS_Subset DEF Manager!InFlight
  <2>3. Cardinality(S) \in Nat /\ ConcurrentDownloads \in Nat
    BY <2>2, FS_CardinalityType, BlockingAssumption DEF Manager!ManagerAssumption
  <2>4. Cardinality(S) <= ConcurrentDownloads
    BY SameCount DEF Manager!DownloadsBounded
  <2>5. download[i] = "waiting" => Cardinality(S) < ConcurrentDownloads
    BY <1>2, SameCount DEF Manager!HasRoom
  <2>6. Cardinality(S \cup {i}) = IF i \in S THEN Cardinality(S) ELSE Cardinality(S) + 1
    BY <2>2, FS_AddElement
  <2>7. Cardinality(S \cup {i}) <= ConcurrentDownloads
    <3> HIDE DEF S
    <3> QED
      BY <2>1, <2>3, <2>4, <2>5, <2>6
  <2> QED
    BY <2>1, <2>7, SameCount DEF Manager!DownloadsBounded
<1>6. Manager!ParsedSound'
  <2>1. \A j \in Manager!ListIds : \A d : Manager!Has(j, d)' <=> Manager!Has(j, d)
    BY <1>1 DEF Manager!Has
  <2>2. \A j \in Manager!ListIds : download'[j] = "finished" <=> download[j] = "finished"
    BY <1>3 DEF Finished
  <2> QED
    BY <1>1, <2>1, <2>2 DEF Manager!ParsedSound
<1>7. Manager!MergedSound'
  BY <1>1, <1>3 DEF Manager!MergedSound, Finished, Manager!Range, Manager!IsInjective
<1> QED
  BY <1>4, <1>5, <1>6, <1>7 DEF RefreshCore

LEMMA CollectStep ==
    ASSUME Manager!RefreshInv, Manager!Collect
    PROVE  RefreshCore'
<1> USE DEF Manager!RefreshInv, Manager!Collect
<1>1. Manager!TypeOK'
  BY DEF Manager!TypeOK
<1>2. Manager!DownloadsBounded'
  BY DEF Manager!DownloadsBounded, Manager!InFlight
<1>3. Manager!ParsedSound'
  BY DEF Manager!ParsedSound, Manager!Has
<1>4. Manager!MergedSound'
  BY DEF Manager!MergedSound, Manager!Collected, Manager!Range, Manager!IsInjective
<1> QED
  BY <1>1, <1>2, <1>3, <1>4 DEF RefreshCore

\* What is left of the results when the first of them is merged.
LEMMA RestOfResults ==
    ASSUME NEW S, NEW s \in Seq(S), s # <<>>, Manager!IsInjective(s)
    PROVE  /\ Head(s) \in Manager!Range(s) /\ Head(s) \in S
           /\ Tail(s) \in Seq(S) /\ Len(Tail(s)) <= Len(s)
           /\ Manager!IsInjective(Tail(s))
           /\ Manager!Range(Tail(s)) = Manager!Range(s) \ {Head(s)}
<1>1. /\ Len(s) \in Nat \ {0} /\ DOMAIN s = 1..Len(s) /\ Head(s) = s[1]
      /\ \A k \in 1..Len(s) : s[k] \in S
  BY EmptySeq, LenProperties
<1>2. /\ Tail(s) \in Seq(S) /\ Len(Tail(s)) = Len(s) - 1
      /\ \A k \in 1..(Len(s) - 1) : Tail(s)[k] = s[k + 1]
      /\ DOMAIN Tail(s) = 1..(Len(s) - 1)
  BY <1>1, HeadTailProperties, LenProperties
<1>3. Manager!IsInjective(Tail(s))
  <2> SUFFICES ASSUME NEW a \in 1..(Len(s) - 1), NEW b \in 1..(Len(s) - 1),
                      Tail(s)[a] = Tail(s)[b]
               PROVE  a = b
    BY <1>2 DEF Manager!IsInjective
  <2>1. s[a + 1] = s[b + 1] /\ a + 1 \in DOMAIN s /\ b + 1 \in DOMAIN s
    BY <1>1, <1>2
  <2>2. a + 1 = b + 1
    BY <2>1 DEF Manager!IsInjective
  <2> QED
    BY <2>2
<1>4. ASSUME NEW x
      PROVE  x \in Manager!Range(Tail(s)) <=> x \in Manager!Range(s) \ {Head(s)}
  <2>1. ASSUME x \in Manager!Range(Tail(s))
        PROVE  x \in Manager!Range(s) \ {Head(s)}
    <3>1. PICK k \in 1..(Len(s) - 1) : x = Tail(s)[k]
      BY <1>2, <2>1 DEF Manager!Range
    <3>2. x = s[k + 1] /\ k + 1 \in DOMAIN s /\ 1 \in DOMAIN s /\ k + 1 # 1
      BY <1>1, <1>2, <3>1
    <3>3. x # s[1]
      BY <3>2 DEF Manager!IsInjective
    <3> QED
      BY <1>1, <3>2, <3>3 DEF Manager!Range
  <2>2. ASSUME x \in Manager!Range(s) \ {Head(s)}
        PROVE  x \in Manager!Range(Tail(s))
    <3>1. PICK k \in 1..Len(s) : x = s[k]
      BY <1>1, <2>2 DEF Manager!Range
    <3>2. k # 1
      BY <1>1, <2>2, <3>1
    <3>3. k - 1 \in 1..(Len(s) - 1) /\ (k - 1) + 1 = k
      BY <1>1, <3>2
    <3>4. x = Tail(s)[k - 1]
      BY <1>2, <3>1, <3>3
    <3> QED
      BY <1>2, <3>3, <3>4 DEF Manager!Range
  <2> QED
    BY <2>1, <2>2
<1>5. Manager!Range(Tail(s)) = Manager!Range(s) \ {Head(s)}
  BY <1>4
<1>6. Head(s) \in Manager!Range(s) /\ Head(s) \in S
  BY <1>1 DEF Manager!Range
<1>7. Len(Tail(s)) <= Len(s)
  BY <1>1, <1>2
<1> QED
  BY <1>2, <1>3, <1>5, <1>6, <1>7

\* Overlaying entries adds their domains and charges each to one of them.
LEMMA OverlayAdds ==
    ASSUME Manager!TypeOK,
           NEW entries \in SUBSET (Manager!Domains \X (0..MaxSource))
    PROVE  LET new == Manager!Overlay(entries)
           IN  /\ DOMAIN new = DOMAIN merged \cup {e[1] : e \in entries}
               /\ DOMAIN new \subseteq Manager!Domains
               /\ new \in [DOMAIN new -> 0..MaxSource]
               /\ \A d \in DOMAIN new :
                     \/ <<d, new[d]>> \in entries
                     \/ d \in DOMAIN merged /\ new[d] = merged[d]
<1> DEFINE keys == {e[1] : e \in entries}
           new == Manager!Overlay(entries)
           Chosen(d) == CHOOSE e \in entries : e[1] = d
<1>1. new = [d \in DOMAIN merged \cup keys |->
                IF d \in keys THEN Chosen(d)[2] ELSE merged[d]]
  BY DEF Manager!Overlay
<1>2. ASSUME NEW d \in keys
      PROVE  /\ Chosen(d) \in entries /\ Chosen(d)[1] = d
             /\ Chosen(d) \in Manager!Domains \X (0..MaxSource)
  BY <1>2
<1>3. ASSUME NEW d \in keys
      PROVE  /\ <<d, Chosen(d)[2]>> \in entries
             /\ d \in Manager!Domains /\ Chosen(d)[2] \in 0..MaxSource
  <2>1. Chosen(d) = <<d, Chosen(d)[2]>>
    BY <1>2
  <2> HIDE DEF Chosen
  <2> QED
    BY <1>2, <2>1
<1> HIDE DEF keys, Chosen
<1>4. /\ DOMAIN new = DOMAIN merged \cup keys
      /\ \A d \in DOMAIN new :
            new[d] = IF d \in keys THEN Chosen(d)[2] ELSE merged[d]
  BY <1>1
<1>5. DOMAIN new \subseteq Manager!Domains
  BY <1>3, <1>4 DEF Manager!TypeOK
<1>6. \A d \in DOMAIN new : new[d] \in 0..MaxSource
  BY <1>3, <1>4 DEF Manager!TypeOK
<1>7. new \in [DOMAIN new -> 0..MaxSource]
  BY <1>1, <1>6
<1>8. ASSUME NEW d \in DOMAIN new
      PROVE  <<d, new[d]>> \in entries \/ (d \in DOMAIN merged /\ new[d] = merged[d])
  BY <1>3, <1>4
<1> HIDE DEF new
<1> QED
  BY <1>4, <1>5, <1>7, <1>8 DEF new, keys

LEMMA MergeStep ==
    ASSUME Manager!RefreshInv, Manager!Merge
    PROVE  RefreshCore'
<1> USE DEF Manager!RefreshInv
<1>1. UNCHANGED <<content, download, got, broken>> /\ refresh = "merging"
  BY DEF Manager!Merge
<1>2. Manager!ParsedSound' /\ Manager!DownloadsBounded'
  BY <1>1 DEF Manager!ParsedSound, Manager!Has, Manager!DownloadsBounded, Manager!InFlight
<1>3. CASE results = <<>>
  <2>1. refresh' = "done" /\ merged' = merged /\ results' = results
    BY <1>3 DEF Manager!Merge
  <2>2. Manager!TypeOK'
    BY <1>1, <2>1 DEF Manager!TypeOK
  <2>3. Manager!MergedSound'
    BY <1>1, <1>3, <2>1 DEF Manager!MergedSound, Manager!Range, Manager!IsInjective
  <2> QED
    BY <1>2, <2>2, <2>3 DEF RefreshCore
<1>4. CASE results # <<>>
  <2> DEFINE i == Head(results)
  <2>1. merged' = Manager!Overlay(got[i]) /\ results' = Tail(results) /\ refresh' = refresh
    BY <1>4 DEF Manager!Merge
  <2>2. /\ i \in Manager!Range(results) /\ i \in Manager!ListIds
        /\ results' \in Seq(Manager!ListIds) /\ Len(results') <= Len(results)
        /\ Manager!IsInjective(results')
        /\ Manager!Range(results') = Manager!Range(results) \ {i}
    BY <1>4, <2>1, RestOfResults DEF Manager!TypeOK, Manager!MergedSound
  <2> HIDE DEF i
  <2>3. got[i] \in SUBSET (Manager!Domains \X (0..MaxSource))
    BY <2>2 DEF Manager!TypeOK
  <2>4. /\ DOMAIN merged' = DOMAIN merged \cup {e[1] : e \in got[i]}
        /\ DOMAIN merged' \subseteq Manager!Domains
        /\ merged' \in [DOMAIN merged' -> 0..MaxSource]
        /\ \A d \in DOMAIN merged' :
              \/ <<d, merged'[d]>> \in got[i]
              \/ d \in DOMAIN merged /\ merged'[d] = merged[d]
    BY <2>1, <2>3, OverlayAdds
  <2>5. Len(results') <= NumLists
    <3>1. Len(results') \in Nat /\ Len(results) \in Nat /\ NumLists \in Nat
      BY <2>2, BlockingAssumption DEF Manager!TypeOK, Manager!ManagerAssumption
    <3> QED
      BY <2>2, <3>1 DEF Manager!TypeOK
  <2>6. Manager!TypeOK'
    BY <1>1, <2>1, <2>2, <2>4, <2>5 DEF Manager!TypeOK
  <2>7. /\ Finished' = Finished /\ i \in Finished /\ Finished = Manager!ListIds
        /\ (Finished \ Manager!Range(results))'
              = (Finished \ Manager!Range(results)) \cup {i}
    BY <1>1, <2>2 DEF Finished, Manager!MergedSound
  <2>8. /\ \A d \in DOMAIN merged : \E j \in Finished \ Manager!Range(results) :
              <<d, merged[d]>> \in got[j]
        /\ \A j \in Finished \ Manager!Range(results) :
              \A e \in got[j] : e[1] \in DOMAIN merged
    BY DEF Finished, Manager!MergedSound
  <2>9. /\ \A d \in DOMAIN merged' : \E j \in (Finished \ Manager!Range(results))' :
              <<d, merged'[d]>> \in got[j]
        /\ \A j \in (Finished \ Manager!Range(results))' :
              \A e \in got[j] : e[1] \in DOMAIN merged'
    BY <2>4, <2>7, <2>8
  <2>10. Manager!MergedSound'
    BY <1>1, <2>1, <2>2, <2>7, <2>9 DEF Manager!MergedSound, Finished
  <2> QED
    BY <1>2, <2>6, <2>10 DEF RefreshCore
<1> QED
  BY <1>3, <1>4

LEMMA RefreshInit == Manager!Init => Manager!RefreshInv
<1> SUFFICES ASSUME Manager!Init PROVE RefreshCore
  BY CoreSuffices
<1> USE DEF Manager!Init
<1>1. Manager!ManagerAssumption
  BY BlockingAssumption
<1>2. Len(results) = 0 /\ DOMAIN merged = {} /\ DOMAIN results = {}
  OBVIOUS
<1>3. Manager!TypeOK
  BY <1>1, <1>2 DEF Manager!TypeOK, Manager!ManagerAssumption
<1>4. Manager!DownloadsBounded
  <2>1. Manager!InFlight = {}
    BY DEF Manager!InFlight
  <2>2. Cardinality(Manager!InFlight) = 0
    BY <2>1, FS_EmptySet
  <2> QED
    BY <1>1, <2>2, SameCount DEF Manager!DownloadsBounded, Manager!ManagerAssumption
<1>5. Manager!ParsedSound
  BY DEF Manager!ParsedSound
<1>6. Manager!MergedSound
  <2>1. Finished = {} /\ Manager!Range(results) = {}
    BY <1>2 DEF Finished, Manager!Range
  <2> QED
    BY <1>2, <2>1 DEF Manager!MergedSound, Finished, Manager!IsInjective
<1> QED
  BY <1>3, <1>4, <1>5, <1>6 DEF RefreshCore

LEMMA RefreshStep ==
    ASSUME Manager!RefreshInv, [Refresh]_managerVars
    PROVE  Manager!RefreshInv'
<1>1. (RefreshCore => Manager!RefreshInv)'
  BY CoreSuffices, PTL
<1>2. CASE UNCHANGED managerVars
  BY <1>2 DEF managerVars, Manager!RefreshInv, Manager!TypeOK,
              Manager!DownloadsBounded, Manager!InFlight, Manager!ParsedSound,
              Manager!MergedSound, Manager!SourcesJustified,
              Manager!NothingForgotten, Manager!Has, Manager!Range, Manager!IsInjective
<1> QED
  BY <1>1, <1>2, BeginStep, EndsStep, CollectStep, MergeStep
     DEF Refresh, Manager!Server

-----------------------------------------------------------------------------
\* When all results are merged, the map is what DomainMatcher starts from.
LEMMA MergedAttributes ==
    ASSUME Manager!RefreshInv, refresh = "merging", results = <<>>
    PROVE  merged \in Attributions(UNION {got[i] : i \in Manager!ListIds})
<1> DEFINE entries == UNION {got[i] : i \in Manager!ListIds}
<1> USE DEF Manager!RefreshInv
<1>1. /\ \A d \in DOMAIN merged : \E i \in Manager!ListIds : <<d, merged[d]>> \in got[i]
      /\ \A i \in Manager!ListIds : \A e \in got[i] : e[1] \in DOMAIN merged
  <2>1. Finished = Manager!ListIds /\ Manager!Range(results) = {}
    BY DEF Manager!MergedSound, Finished, Manager!Range
  <2> QED
    BY <2>1 DEF Manager!MergedSound, Finished
<1>2. \A e \in entries : LowerName(e[1]) = e[1] /\ e[1] \in DOMAIN merged
  BY <1>1, BlockingAssumption DEF Manager!TypeOK
<1>3. ASSUME NEW d \in DOMAIN merged
      PROVE  \E e \in entries : LowerName(e[1]) = d /\ e[2] = merged[d]
  <2>1. PICK i \in Manager!ListIds : <<d, merged[d]>> \in got[i]
    BY <1>1
  <2>2. <<d, merged[d]>> \in entries /\ <<d, merged[d]>>[1] = d
        /\ <<d, merged[d]>>[2] = merged[d]
    BY <2>1
  <2> QED
    BY <1>2, <2>2
<1> HIDE DEF entries
<1>4. {LowerName(e[1]) : e \in entries} = DOMAIN merged
  <2>1. ASSUME NEW d
        PROVE  d \in {LowerName(e[1]) : e \in entries} <=> d \in DOMAIN merged
    BY <1>2, <1>3
  <2> QED
    BY <2>1
<1>5. merged \in [DOMAIN merged -> Sources]
  BY BlockingAssumption DEF Manager!TypeOK
<1>6. merged \in Attributions(entries)
  BY <1>3, <1>4, <1>5 DEF Attributions
<1> QED
  BY <1>6 DEF entries

\* BlockingInv with what the loop has established.
PathInv == BlockingInv /\ LoopInv

LEMMA PathInit == BlockingInit => PathInv
<1> SUFFICES ASSUME BlockingInit PROVE PathInv
  OBVIOUS
<1> USE DEF BlockingInit
<1>1. wire \in Names
  BY BlockingAssumption
<1>2. domain \in Seq(Labels) /\ Len(domain) >= 1
  BY <1>1, LoweredName DEF domain
<1>3. 0 \in 0..(Len(domain) - 1)
  <2>1. Len(domain) \in Nat
    BY <1>2
  <2> QED
    BY <1>2, <2>1
<1>4. TypeOK
  BY <1>1, <1>3, MatcherAssumption DEF TypeOK, AllowKey
<1>5. LoopInv
  BY <1>2 DEF LoopInv, LoopAgrees
<1> QED
  BY <1>4, <1>5, RefreshInit
     DEF PathInv, BlockingInv, HandOver, QueryWaits, Manager!Init

\* A lookup keeps the types and reads nothing of the manager's.
LEMMA LookupTypes ==
    ASSUME TypeOK, LoopInv, [Next]_vars
    PROVE  TypeOK' /\ domains' = domains
<1> USE DEF TypeOK
<1>1. domain' = domain /\ domains' = domains /\ Len(domain) \in Nat
  BY DEF Next, CheckAllowlist, Hit, Miss, Strip, GiveUp, Done, vars, domain, LoopInv
<1>2. CASE CheckAllowlist
  BY <1>1, <1>2 DEF CheckAllowlist
<1>3. CASE Hit
  BY <1>1, <1>3 DEF Hit
<1>4. CASE Miss \/ GiveUp
  BY <1>1, <1>4 DEF Miss, GiveUp
<1>5. CASE Strip
  <2>1. stripped' \in 0..(Len(domain) - 1)
    BY <1>1, <1>5 DEF Strip, LeavesLabel, HasDot
  <2> QED
    BY <1>1, <1>5, <2>1 DEF Strip
<1>6. CASE Done \/ UNCHANGED vars
  BY <1>1, <1>6 DEF Done, vars
<1> QED
  BY <1>1, <1>2, <1>3, <1>4, <1>5, <1>6 DEF Next

\* Nothing is downloaded any more when the matcher is in place.
LEMMA RefreshOver ==
    ASSUME Manager!RefreshInv, Download
    PROVE  refresh # "done" /\ refresh' # "done"
<1>1. ASSUME NEW i \in Manager!ListIds, Manager!Server(i)
      PROVE  refresh = "downloading" /\ refresh' = refresh
  BY <1>1 DEF Manager!Server, Manager!Connect, Manager!FetchFails, Manager!ReadAll,
              Manager!ReadBreaks, Manager!RefreshInv, Manager!MergedSound
<1> QED
  BY <1>1 DEF Download, Manager!Start, Manager!Collect

LEMMA PathStep ==
    ASSUME PathInv, [BlockingNext]_allVars
    PROVE  PathInv'
<1> USE DEF PathInv, BlockingInv
<1>1. CASE Download
  <2>1. UNCHANGED vars /\ [Refresh]_managerVars
    BY <1>1 DEF Download, Refresh
  <2>2. TypeOK' /\ LoopInv' /\ Manager!RefreshInv'
    BY <2>1, LookupTypes, LoopStep, RefreshStep
  <2>3. QueryWaits'
    BY <1>1, <2>1, RefreshOver DEF QueryWaits, vars
  <2> QED
    BY <1>1, <2>2, <2>3, RefreshOver DEF HandOver
<1>2. CASE Merge
  <2>1. Manager!Merge /\ refresh = "merging"
    BY <1>2 DEF Merge, Manager!Merge
  <2>2. Manager!RefreshInv'
    BY <2>1, RefreshStep DEF Refresh
  <2>3. pc = "allowlist" /\ stripped = 0 /\ verdict = NoSource
    BY <2>1 DEF QueryWaits
  <2>4. CASE refresh' = "done"
    <3>1. /\ domains' = merged /\ wire' \in Names /\ results = <<>> /\ got' = got
          /\ UNCHANGED <<configured, allowlist, stripped, verdict, pc>>
      BY <1>2, <2>1, <2>4 DEF Merge, Manager!Merge
    <3>2. domain' \in Seq(Labels) /\ Len(domain') >= 1 /\ Len(domain') \in Nat
      BY <3>1, LoweredName DEF domain
    <3>3. merged \in Attributions(UNION {got[i] : i \in Manager!ListIds})
      BY <2>1, <3>1, MergedAttributes
    <3>4. /\ DOMAIN merged \subseteq Seq(Labels)
          /\ \A d \in DOMAIN merged : merged[d] \in Sources
      BY BlockingAssumption DEF Manager!RefreshInv, Manager!TypeOK
    <3>5. TypeOK'
      <4>1. 0 \in 0..(Len(domain') - 1)
        BY <3>2
      <4> QED
        BY <2>3, <3>1, <3>4, <4>1 DEF TypeOK
    <3>6. LoopInv'
      BY <2>3, <3>1, <3>2 DEF LoopInv, LoopAgrees
    <3>7. HandOver' /\ QueryWaits'
      BY <2>4, <3>1, <3>3 DEF HandOver, QueryWaits
    <3> QED
      BY <2>2, <3>5, <3>6, <3>7
  <2>5. CASE refresh' # "done"
    <3>1. UNCHANGED vars
      BY <1>2, <2>5 DEF Merge, vars
    <3>2. TypeOK' /\ LoopInv'
      BY <3>1, LookupTypes, LoopStep
    <3> QED
      BY <2>2, <2>3, <2>5, <3>1, <3>2 DEF HandOver, QueryWaits, vars
  <2> QED
    BY <2>4, <2>5
<1>3. CASE Check \/ UNCHANGED allVars
  <2>1. [Next]_vars /\ UNCHANGED managerVars
    BY <1>3 DEF Check, Lookup, Next, allVars
  <2>2. TypeOK' /\ LoopInv' /\ Manager!RefreshInv' /\ domains' = domains
    BY <2>1, LookupTypes, LoopStep, RefreshStep
  <2>3. QueryWaits'
    BY <1>3 DEF Check, QueryWaits, allVars, vars, managerVars
  <2>4. HandOver'
    BY <2>1, <2>2 DEF HandOver, Attributions, managerVars
  <2> QED
    BY <2>2, <2>3, <2>4
<1> QED
  BY <1>1, <1>2, <1>3 DEF BlockingNext

\* The invariant of the blocking path: downloads are bounded, what is parsed
\* and merged is sound and complete for every list read to its end, and what is
\* handed over is what the matcher starts from.
THEOREM BlockingInvariant == BlockingSpec => []BlockingInv
<1>1. PathInv => BlockingInv
  BY DEF PathInv
<1> QED
  BY <1>1, PathInit, PathStep, PTL DEF BlockingSpec

\* What the verdict of an attributed map says of a listed suffix of the name.
LEMMA VerdictCharged ==
    ASSUME PathInv, pc = "done", domain \notin allowlist,
           NEW k \in Strippings(domain), NEW i \in Manager!ListIds \ broken,
           Manager!Has(i, Suffix(domain, k))
    PROVE  \E j \in Manager!ListIds, l \in Strippings(domain) :
              /\ l <= k /\ Manager!Has(j, Suffix(domain, l))
              /\ \/ verdict = j - 1
                 \/ j - 1 > MaxSource /\ verdict = MaxSource
<1> USE DEF PathInv, BlockingInv
<1> DEFINE entries == UNION {got[j] : j \in Manager!ListIds}
           S == ListedStrippings(domains, domain)
<1>1. refresh = "done" /\ domains \in Attributions(entries)
  BY DEF QueryWaits, HandOver
<1>2. \A e \in entries : LowerName(e[1]) = e[1]
  BY BlockingAssumption DEF Manager!RefreshInv, Manager!TypeOK
<1>3. Suffix(domain, k) \in Manager!Domains
  <2>1. PICK n \in 1..Len(content[i]) : ParseLine[content[i][n]] = Suffix(domain, k)
    BY DEF Manager!Has
  <2>2. content[i][n] \in Lines
    BY BlockingAssumption
       DEF Manager!RefreshInv, Manager!TypeOK, Manager!ManagerAssumption, Manager!ListIds
  <2>3. Suffix(domain, k) \in Seq(Labels)
    BY DEF LoopInv, Suffix, Strippings
  <2> QED
    BY <2>1, <2>2, <2>3, BlockingAssumption DEF Manager!Domains
<1>4. Suffix(domain, k) \in DOMAIN domains
  <2>1. <<Suffix(domain, k), Manager!SourceId(i)>> \in got[i]
    BY <1>1, <1>3 DEF Manager!RefreshInv, Manager!ParsedSound, Manager!MergedSound
  <2>2. /\ <<Suffix(domain, k), Manager!SourceId(i)>> \in entries
        /\ <<Suffix(domain, k), Manager!SourceId(i)>>[1] = Suffix(domain, k)
    BY <2>1
  <2>3. Suffix(domain, k) \in {LowerName(e[1]) : e \in entries}
    BY <1>2, <2>2
  <2> HIDE DEF entries
  <2> QED
    BY <1>1, <2>3 DEF Attributions
<1>5. S # {} /\ S \in SUBSET Nat /\ k \in S
  BY <1>4 DEF ListedStrippings, Strippings
<1>6. PICK l \in S : l <= k /\ verdict = domains[Suffix(domain, l)]
  <2> HIDE DEF S
  <2>1. Min(S) \in S /\ Min(S) <= k
    BY <1>5, LeastOfNat
  <2>2. verdict = domains[Suffix(domain, Min(S))]
    BY <1>5 DEF LoopInv, LoopAgrees, Verdict, S
  <2> QED
    BY <2>1, <2>2
<1>7. l \in Strippings(domain) /\ Suffix(domain, l) \in DOMAIN domains
  BY DEF ListedStrippings
<1>8. PICK e \in entries : LowerName(e[1]) = Suffix(domain, l) /\ e[2] = verdict
  <2> HIDE DEF entries
  <2> QED
    BY <1>1, <1>6, <1>7 DEF Attributions
<1>9. PICK j \in Manager!ListIds : e \in got[j]
  OBVIOUS
<1>10. Manager!Has(j, Suffix(domain, l)) /\ verdict = Manager!SourceId(j)
  BY <1>2, <1>8, <1>9 DEF Manager!RefreshInv, Manager!ParsedSound
<1> QED
  BY <1>6, <1>7, <1>10 DEF Manager!SourceId

\* End to end: whatever other lists failed, a name under a domain of a list that
\* was read to its end is blocked unless it is allowlisted itself, and the block
\* is charged to a list that has the name or a parent of it.
THEOREM ListedNamesAreBlocked == BlockingSpec => []ListedIsBlocked
<1>1. PathInv => ListedIsBlocked
  BY VerdictCharged DEF ListedIsBlocked
<1> QED
  BY <1>1, PathInit, PathStep, PTL DEF BlockingSpec

\* The loop of check finds the longest listed suffix in the downloaded lists too.
THEOREM DownloadedVerdict == BlockingSpec => []LoopAgrees
<1>1. PathInv => LoopAgrees
  BY DEF PathInv, LoopInv
<1> QED
  BY <1>1, PathInit, PathStep, PTL DEF BlockingSpec
=============================================================================
