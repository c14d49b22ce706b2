--------------------------- MODULE BlocklistManager ---------------------------
(***************************************************************************)
(* One `refresh` of engine/blocklist_manager.rs: the configured lists are  *)
(* downloaded by `buffer_unordered`, at most ConcurrentDownloads at a      *)
(* time, and merged into one map in the order in which they finished.      *)
(*                                                                         *)
(* A list that cannot be fetched yields nothing; a connection that breaks  *)
(* yields the lines received before it did; neither is told to the caller. *)
(* The client has no timeout, so a server may also leave a download        *)
(* without an end.                                                         *)
(***************************************************************************)
EXTENDS Integers, Sequences, FiniteSets, FiniteSetsExt, Functions

CONSTANTS
    NumLists,             \* number of config.blocklists, sorted by name
    ConcurrentDownloads,  \* config.updates.concurrent_downloads
    Lines,                \* lines of a list file
    ParseLine,            \* [Lines -> domain, or NoDomain for a comment]
    NoDomain,
    Contents,             \* what the servers may serve, [1..NumLists -> Seq(Lines)]
    MaxSource             \* u8::MAX

ManagerAssumption ==
    /\ NumLists \in Nat \ {0} /\ ConcurrentDownloads \in Nat \ {0}
    /\ MaxSource \in Nat
    /\ \A files \in Contents : files \in [1..NumLists -> Seq(Lines)]

VARIABLES
    content,   \* the files as the servers hold them during this refresh
    download,  \* state of the download of each list
    got,       \* entries parsed from each list so far, pairs <<domain, source>>
    broken,    \* lists that failed or were cut off
    results,   \* the lists in the order in which they finished
    map,       \* the map under construction, domain -> source
    pc

vars == <<content, download, got, broken, results, map, pc>>

ListIds == 1..NumLists
Domains == {ParseLine[line] : line \in Lines} \ {NoDomain}

\* Mutant of SourceId: the cast wraps instead of stopping at 255.
SourceIdWraps(i) == (i - 1) % (MaxSource + 1)

\* The id of the i-th list in the sorted order: its index, at most 255.
SourceId(i) == IF i - 1 > MaxSource THEN MaxSource ELSE i - 1

InFlight == {i \in ListIds : download[i] \in {"connecting", "reading"}}
Waiting == {i \in ListIds : download[i] = "waiting"}

Init ==
    /\ content \in Contents
    /\ download = [i \in ListIds |-> "waiting"]
    /\ got = [i \in ListIds |-> {}]
    /\ broken = {}
    /\ results = <<>>
    /\ map = [d \in {} |-> 0]
    /\ pc = "downloading"

HasRoom == Cardinality(InFlight) < ConcurrentDownloads

\* buffer_unordered starts the next list, in order, when it has room.
Start ==
    /\ pc = "downloading"
    /\ HasRoom
    /\ Waiting # {}
    /\ download' = [download EXCEPT ![Min(Waiting)] = "connecting"]
    /\ UNCHANGED <<content, got, broken, results, map, pc>>

Connect(i) ==
    /\ download[i] = "connecting"
    /\ download' = [download EXCEPT ![i] = "reading"]
    /\ UNCHANGED <<content, got, broken, results, map, pc>>

\* The download of list i is over, and is the next of the results.
Finish(i) ==
    /\ download' = [download EXCEPT ![i] = "finished"]
    /\ results' = Append(results, i)

FetchFails(i) ==
    /\ download[i] = "connecting"
    /\ Finish(i)
    /\ broken' = broken \cup {i}
    /\ UNCHANGED <<content, got, map, pc>>

\* fetch_and_parse up to the n-th line, then the end of the file or an error.
Parsed(i, n) ==
    {<<ParseLine[content[i][k]], SourceId(i)>> :
        k \in {j \in 1..n : ParseLine[content[i][j]] # NoDomain}}

ReadAll(i) ==
    /\ download[i] = "reading"
    /\ Finish(i)
    /\ got' = [got EXCEPT ![i] = Parsed(i, Len(content[i]))]
    /\ UNCHANGED <<content, broken, map, pc>>

ReadBreaks(i) ==
    /\ download[i] = "reading"
    /\ \E n \in 0..Len(content[i]) :
          got' = [got EXCEPT ![i] = Parsed(i, n)]
    /\ Finish(i)
    /\ broken' = broken \cup {i}
    /\ UNCHANGED <<content, map, pc>>

Collected == \A i \in ListIds : download[i] = "finished"

Collect ==
    /\ pc = "downloading"
    /\ Collected
    /\ pc' = "merging"
    /\ UNCHANGED <<content, download, got, broken, results, map>>

\* Mutant of Overlay: every result makes a new map.
OverlayOnly(entries) ==
    LET new == {entry[1] : entry \in entries}
    IN  [d \in new |-> (CHOOSE entry \in entries : entry[1] = d)[2]]

Overlay(entries) ==
    LET new == {entry[1] : entry \in entries}
    IN  [d \in DOMAIN map \cup new |->
            IF d \in new THEN (CHOOSE entry \in entries : entry[1] = d)[2]
                         ELSE map[d]]

\* `map.insert` of one result after the other: the last one wins.
Merge ==
    /\ pc = "merging"
    /\ IF results = <<>>
       THEN pc' = "done" /\ UNCHANGED <<map, results>>
       ELSE /\ map' = Overlay(got[Head(results)])
            /\ results' = Tail(results)
            /\ pc' = pc
    /\ UNCHANGED <<content, download, got, broken>>

Done == pc = "done" /\ UNCHANGED vars

Server(i) == Connect(i) \/ FetchFails(i) \/ ReadAll(i) \/ ReadBreaks(i)

Next == Start \/ Collect \/ Merge \/ Done \/ \E i \in ListIds : Server(i)

Spec == Init /\ [][Next]_vars

-----------------------------------------------------------------------------
TypeOK ==
    /\ content \in Contents
    /\ download \in [ListIds -> {"waiting", "connecting", "reading", "finished"}]
    /\ got \in [ListIds -> SUBSET (Domains \X (0..MaxSource))]
    /\ broken \subseteq ListIds
    /\ results \in Seq(ListIds) /\ Len(results) <= NumLists
    /\ DOMAIN map \subseteq Domains
    /\ map \in [DOMAIN map -> 0..MaxSource]
    /\ pc \in {"downloading", "merging", "done"}

Has(i, d) == \E k \in 1..Len(content[i]) : ParseLine[content[i][k]] = d

\* The configured bound on concurrent downloads holds at every moment.
DownloadsBounded == Cardinality(InFlight) <= ConcurrentDownloads

\* A domain is in the new matcher exactly because a list has it, and the
\* source it is charged to is the id of such a list, in whatever order the
\* downloads finished, failed or broke.
SourcesJustified ==
    \A d \in DOMAIN map : \E i \in ListIds : Has(i, d) /\ SourceId(i) = map[d]

\* When the refresh is over, nothing that was downloaded is missing: the
\* matcher lacks a listed domain only if every list that has it failed or
\* broke off.
NothingForgotten ==
    pc = "done" =>
        \A i \in ListIds \ broken : \A d \in Domains : Has(i, d) => d \in DOMAIN map

\* What is parsed of a list is in it, under its id, and all of it if the list
\* was read to its end.
ParsedSound ==
    \A i \in ListIds :
        /\ \A e \in got[i] : Has(i, e[1]) /\ e[2] = SourceId(i)
        /\ download[i] = "finished" /\ i \notin broken =>
              \A d \in Domains : Has(i, d) => <<d, SourceId(i)>> \in got[i]

\* The map is made of the lists whose results were merged, and lacks nothing
\* of them.
MergedSound ==
    LET finished == {i \in ListIds : download[i] = "finished"}
        mergedLists == finished \ Range(results)
    IN  /\ IsInjective(results) /\ Range(results) \subseteq finished
        /\ pc = "downloading" => mergedLists = {}
        /\ pc # "downloading" => finished = ListIds
        /\ pc = "done" => results = <<>>
        /\ \A d \in DOMAIN map : \E i \in mergedLists : <<d, map[d]>> \in got[i]
        /\ \A i \in mergedLists : \A e \in got[i] : e[1] \in DOMAIN map

\* What every step of a refresh keeps.
RefreshInv ==
    /\ TypeOK /\ DownloadsBounded /\ ParsedSound /\ MergedSound
    /\ SourcesJustified /\ NothingForgotten
=============================================================================
