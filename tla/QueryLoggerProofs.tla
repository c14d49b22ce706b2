---------------------------- MODULE QueryLoggerProofs ----------------------------
(***************************************************************************)
(* Safety of the query log from `log` to the API, for any number of        *)
(* entries and restarts, every configuration of sinks and every capacity,  *)
(* retention and cleanup interval.                                         *)
(***************************************************************************)
EXTENDS QueryLogger, FiniteLemmas

LEMMA CountSubset ==
    ASSUME NEW T, IsFiniteSet(T), NEW S \in SUBSET T
    PROVE  /\ IsFiniteSet(S) /\ Cardinality(S) \in Nat /\ Cardinality(T) \in Nat
           /\ Cardinality(S) <= Cardinality(T)
  BY FS_Subset, FS_CardinalityType

LEMMA CountOneMore ==
    ASSUME NEW T, IsFiniteSet(T), NEW x, NEW S \in SUBSET (T \cup {x})
    PROVE  /\ IsFiniteSet(S) /\ Cardinality(S) \in Nat /\ Cardinality(T) \in Nat
           /\ Cardinality(S) <= Cardinality(T) + 1
<1>1. IsFiniteSet(T \cup {x}) /\ Cardinality(T \cup {x}) <= Cardinality(T) + 1
  <2>1. Cardinality(T) \in Nat
    BY FS_CardinalityType
  <2> QED
    BY <2>1, FS_AddElement
<1>2. /\ IsFiniteSet(S) /\ Cardinality(S) \in Nat
      /\ Cardinality(S) <= Cardinality(T \cup {x})
      /\ Cardinality(T \cup {x}) \in Nat
  BY <1>1, CountSubset
<1> QED
  BY <1>1, <1>2, FS_CardinalityType
-----------------------------------------------------------------------------
(* The table and the figures that get_stats reads of it.                   *)

\* A change of the table while a call of get_stats is where it was: rows are
\* lost, or one of now is added, which inserted counts during a call.
TableChanges ==
    /\ query' = query /\ figures' = figures
    /\ now' \in Nat /\ now <= now'
    /\ \/ rows' \subseteq rows /\ inserted' = inserted
       \/ \E x \in [entry : Entries, timestamp : {now}] :
             /\ rows' \subseteq rows \cup {x}
             /\ inserted' = IF query = <<>> THEN inserted ELSE inserted + 1

LEMMA CountsKept ==
    ASSUME StoreTypeOK, IsFiniteSet(rows), StatementsInOrder, CountsBehind, TableChanges
    PROVE  CountsBehind'
<1> DEFINE C(t) == {row \in t : Kind[row.entry].action = "Cached"}
<1>1. /\ inserted \in Nat
      /\ \A s \in DOMAIN figures :
            s \notin {"top_clients", "top_blocked_clients"} => figures[s] \in Nat
  BY DEF StoreTypeOK
<1>2. CASE query = <<>>
  <2>1. "total_queries" \in DOMAIN figures =>
           {"blocked_queries", "cache_hits"} \subseteq DOMAIN figures
    BY <1>2 DEF StatementsInOrder
  <2>2. "blocked_queries" \in DOMAIN figures => "cache_hits" \in DOMAIN figures
    BY <1>2 DEF StatementsInOrder
  <2> QED
    BY <2>1, <2>2 DEF CountsBehind, TableChanges
<1>3. ASSUME NEW n \in Nat,
             inserted' = inserted + n /\ Cardinality(rows') <= Cardinality(rows) + n
             /\ Cardinality(C(rows')) <= Cardinality(C(rows)) + n
             /\ Cardinality(rows') \in Nat /\ Cardinality(rows) \in Nat
             /\ Cardinality(C(rows')) \in Nat /\ Cardinality(C(rows)) \in Nat
      PROVE  CountsBehind'
  <2>1. figures' = figures
    BY DEF TableChanges
  <2>2. Matching("Cached") = C(rows) /\ Matching("Cached")' = C(rows')
    BY DEF Matching
  <2> HIDE DEF C
  <2>3. "total_queries" \in DOMAIN figures => figures["total_queries"] \in Nat
    BY <1>1
  <2>4. "blocked_queries" \in DOMAIN figures =>
           figures["blocked_queries"] \in Nat /\ "total_queries" \in DOMAIN figures
    BY <1>1 DEF StatementsInOrder
  <2>5. ASSUME "total_queries" \in DOMAIN figures, "blocked_queries" \notin DOMAIN figures
        PROVE  Cardinality(rows') <= figures["total_queries"] + inserted'
    <3>1. Cardinality(rows) <= figures["total_queries"] + inserted
      BY <2>5 DEF CountsBehind
    <3> QED
      BY <1>1, <1>3, <2>3, <2>5, <3>1
  <2>6. ASSUME "blocked_queries" \in DOMAIN figures, "cache_hits" \notin DOMAIN figures
        PROVE  figures["blocked_queries"] + Cardinality(C(rows'))
                  <= figures["total_queries"] + inserted'
    <3>1. figures["blocked_queries"] + Cardinality(C(rows))
             <= figures["total_queries"] + inserted
      BY <2>2, <2>6 DEF CountsBehind
    <3> QED
      BY <1>1, <1>3, <2>3, <2>4, <2>6, <3>1
  <2> QED
    BY <2>1, <2>2, <2>5, <2>6 DEF CountsBehind
<1>4. CASE rows' \subseteq rows /\ inserted' = inserted
  <2>1. C(rows') \subseteq C(rows) /\ C(rows) \subseteq rows
    BY <1>4
  <2> HIDE DEF C
  <2>2. /\ Cardinality(rows') <= Cardinality(rows) + 0
        /\ Cardinality(rows') \in Nat /\ Cardinality(rows) \in Nat
        /\ IsFiniteSet(C(rows))
    BY <1>4, <2>1, CountSubset
  <2>3. /\ Cardinality(C(rows')) <= Cardinality(C(rows)) + 0
        /\ Cardinality(C(rows')) \in Nat /\ Cardinality(C(rows)) \in Nat
    BY <2>1, <2>2, CountSubset
  <2>4. inserted' = inserted + 0
    BY <1>1, <1>4
  <2> QED
    BY <1>3, <2>2, <2>3, <2>4
<1>5. CASE query # <<>> /\ ~(rows' \subseteq rows /\ inserted' = inserted)
  <2>1. PICK x \in [entry : Entries, timestamp : {now}] :
           rows' \subseteq rows \cup {x} /\ inserted' = inserted + 1
    BY <1>5 DEF TableChanges
  <2>2. C(rows') \subseteq C(rows) \cup {x} /\ C(rows) \subseteq rows
    BY <2>1
  <2> HIDE DEF C
  <2>3. /\ Cardinality(rows') <= Cardinality(rows) + 1
        /\ Cardinality(rows') \in Nat /\ Cardinality(rows) \in Nat
        /\ IsFiniteSet(C(rows))
    BY <2>1, <2>2, CountSubset, CountOneMore
  <2>4. /\ Cardinality(C(rows')) <= Cardinality(C(rows)) + 1
        /\ Cardinality(C(rows')) \in Nat /\ Cardinality(C(rows)) \in Nat
    BY <2>2, <2>3, CountOneMore
  <2> QED
    BY <1>3, <2>1, <2>3, <2>4
<1> QED
  BY <1>2, <1>4, <1>5

LEMMA ClientsKept ==
    ASSUME StoreTypeOK, IsFiniteSet(rows), StatementsInOrder, ClientsBehind, TableChanges
    PROVE  ClientsBehind'
<1>1. CASE query = <<>>
  <2>1. "top_clients" \in DOMAIN figures => "top_blocked_clients" \in DOMAIN figures
    BY <1>1 DEF StatementsInOrder
  <2> QED
    BY <2>1 DEF ClientsBehind, TableChanges
<1>2. CASE query # <<>>
  <2> SUFFICES ASSUME "top_clients" \in DOMAIN figures,
                      "top_blocked_clients" \notin DOMAIN figures,
                      NEW c \in {Kind[e].client : e \in Entries}
               PROVE  Cardinality(OfClient(rows', c))
                         <= Share(figures["top_clients"], c) + inserted'
    BY DEF ClientsBehind, TableChanges
  <2>1. Cardinality(OfClient(rows, c)) <= Share(figures["top_clients"], c) + inserted
    BY DEF ClientsBehind
  <2>2. Share(figures["top_clients"], c) \in Nat /\ inserted \in Nat
    BY DEF Share, StoreTypeOK
  <2>3. PICK n \in {0, 1} : /\ inserted' = inserted + n
                            /\ Cardinality(OfClient(rows', c))
                                  <= Cardinality(OfClient(rows, c)) + n
                            /\ Cardinality(OfClient(rows', c)) \in Nat
                            /\ Cardinality(OfClient(rows, c)) \in Nat
    <3>1. OfClient(rows, c) \subseteq rows
      BY DEF OfClient
    <3>2. IsFiniteSet(OfClient(rows, c))
      BY <3>1, CountSubset
    <3>3. CASE rows' \subseteq rows /\ inserted' = inserted
      <4>1. OfClient(rows', c) \subseteq OfClient(rows, c)
        BY <3>3 DEF OfClient
      <4>2. /\ Cardinality(OfClient(rows', c)) <= Cardinality(OfClient(rows, c))
            /\ Cardinality(OfClient(rows', c)) \in Nat
            /\ Cardinality(OfClient(rows, c)) \in Nat
        BY <3>2, <4>1, CountSubset
      <4> QED
        BY <2>2, <3>3, <4>2
    <3>4. CASE ~(rows' \subseteq rows /\ inserted' = inserted)
      <4>1. PICK x \in [entry : Entries, timestamp : {now}] :
               rows' \subseteq rows \cup {x} /\ inserted' = inserted + 1
        BY <1>2, <3>4 DEF TableChanges
      <4>2. OfClient(rows', c) \subseteq OfClient(rows, c) \cup {x}
        BY <4>1 DEF OfClient
      <4>3. /\ Cardinality(OfClient(rows', c)) <= Cardinality(OfClient(rows, c)) + 1
            /\ Cardinality(OfClient(rows', c)) \in Nat
            /\ Cardinality(OfClient(rows, c)) \in Nat
        BY <3>2, <4>2, CountOneMore
      <4> QED
        BY <4>1, <4>3
    <3> QED
      BY <3>3, <3>4
  <2> QED
    BY <2>1, <2>2, <2>3
<1> QED
  BY <1>1, <1>2

LEMMA SpanKept ==
    ASSUME StoreTypeOK, now \in Nat, SpanBehind, TableChanges
    PROVE  SpanBehind'
<1> SUFFICES ASSUME "started_at" \in DOMAIN figures
             PROVE  /\ figures["started_at"] <= now'
                    /\ \A row \in rows' : figures["started_at"] <= row.timestamp
  BY DEF SpanBehind, TableChanges
<1>1. /\ figures["started_at"] <= now
      /\ \A row \in rows : figures["started_at"] <= row.timestamp
  BY DEF SpanBehind
<1>2. figures["started_at"] \in Nat /\ now' \in Nat /\ now <= now'
  BY DEF StoreTypeOK, TableChanges
<1>3. \A row \in rows' : row \in rows \/ row.timestamp = now
  BY DEF TableChanges
<1> QED
  BY <1>1, <1>2, <1>3

LEMMA BoundsKept ==
    ASSUME StoreTypeOK, StatementsInOrder, FiguresBounded, figures' = figures,
           inserted' \in {inserted, inserted + 1}
    PROVE  FiguresBounded'
<1>1. inserted \in Nat /\ inserted' \in Nat /\ inserted <= inserted'
  BY DEF StoreTypeOK
<1>2. {"total_queries", "blocked_queries", "cache_hits"} \subseteq DOMAIN figures =>
         figures["blocked_queries"] + figures["cache_hits"]
            <= figures["total_queries"] + inserted'
  <2> SUFFICES ASSUME {"total_queries", "blocked_queries", "cache_hits"} \subseteq DOMAIN figures
               PROVE  figures["blocked_queries"] + figures["cache_hits"]
                         <= figures["total_queries"] + inserted'
    OBVIOUS
  <2>1. /\ figures["total_queries"] \in Nat /\ figures["blocked_queries"] \in Nat
        /\ figures["cache_hits"] \in Nat
    BY DEF StoreTypeOK
  <2>2. figures["blocked_queries"] + figures["cache_hits"]
           <= figures["total_queries"] + inserted
    BY DEF FiguresBounded
  <2> QED
    BY <1>1, <2>1, <2>2
<1>3. {"top_clients", "top_blocked_clients"} \subseteq DOMAIN figures =>
         \A c \in DOMAIN figures["top_blocked_clients"] :
            figures["top_blocked_clients"][c] <= Share(figures["top_clients"], c) + inserted'
  <2> SUFFICES ASSUME {"top_clients", "top_blocked_clients"} \subseteq DOMAIN figures,
                      NEW c \in DOMAIN figures["top_blocked_clients"]
               PROVE  figures["top_blocked_clients"][c]
                         <= Share(figures["top_clients"], c) + inserted'
    OBVIOUS
  <2>1. figures["top_blocked_clients"][c] \in Nat /\ Share(figures["top_clients"], c) \in Nat
    BY DEF StoreTypeOK, Share
  <2>2. figures["top_blocked_clients"][c] <= Share(figures["top_clients"], c) + inserted
    BY DEF FiguresBounded
  <2> QED
    BY <1>1, <2>1, <2>2
<1> QED
  BY <1>2, <1>3 DEF FiguresBounded

LEMMA FiguresKept ==
    ASSUME StoreInv, now \in Nat, TableChanges
    PROVE  /\ IsFiniteSet(rows') /\ StatementsInOrder' /\ FiguresBounded'
           /\ CountsBehind' /\ ClientsBehind' /\ SpanBehind'
<1> USE DEF StoreInv
<1>1. IsFiniteSet(rows')
  BY CountSubset, CountOneMore DEF TableChanges
<1>2. StatementsInOrder'
  BY DEF TableChanges, StatementsInOrder
<1>3. inserted' \in {inserted, inserted + 1} /\ figures' = figures
  BY DEF TableChanges
<1> QED
  BY <1>1, <1>2, <1>3, CountsKept, ClientsKept, SpanKept, BoundsKept

\* The next statement adds one figure, of the table as it is.
Reads(s) ==
    /\ figures' = [x \in DOMAIN figures \cup {s} |-> IF x = s THEN Result(s) ELSE figures[x]]
    /\ UNCHANGED <<store, inserted>>

\* Which statement comes after which figures.
LEMMA NextStatement ==
    ASSUME StatementsInOrder, Select
    PROVE  /\ StatementsInOrder'
           /\ \/ Reads("total_queries") /\ DOMAIN figures = {}
              \/ Reads("blocked_queries") /\ DOMAIN figures = {"total_queries"}
              \/ Reads("cache_hits") /\ DOMAIN figures = {"total_queries", "blocked_queries"}
              \/ Reads("top_clients") /\ DOMAIN figures = {}
              \/ Reads("top_blocked_clients") /\ DOMAIN figures = {"top_clients"}
              \/ Reads("started_at") /\ DOMAIN figures = {}
              \/ Reads("updated_at") /\ DOMAIN figures = {"started_at"}
<1>1. /\ Reads(Head(query)) /\ query # <<>> /\ query' = Tail(query)
      /\ DOMAIN figures' = DOMAIN figures \cup {Head(query)}
  BY DEF Select, Reads
<1>2. CASE DOMAIN figures = {} /\ query \in StatsParts
  <2>1. CASE query = <<"total_queries", "blocked_queries", "cache_hits">>
    BY <1>1, <1>2, <2>1 DEF StatementsInOrder
  <2>2. CASE query = <<"top_clients", "top_blocked_clients">>
    BY <1>1, <1>2, <2>2 DEF StatementsInOrder
  <2>3. CASE query = <<"started_at", "updated_at">>
    BY <1>1, <1>2, <2>3 DEF StatementsInOrder
  <2> QED
    BY <1>2, <2>1, <2>2, <2>3 DEF StatsParts
<1>3. CASE query = <<"blocked_queries", "cache_hits">> /\ DOMAIN figures = {"total_queries"}
  BY <1>1, <1>3 DEF StatementsInOrder
<1>4. CASE query = <<"cache_hits">> /\ DOMAIN figures = {"total_queries", "blocked_queries"}
  BY <1>1, <1>4 DEF StatementsInOrder
<1>5. CASE query = <<"top_blocked_clients">> /\ DOMAIN figures = {"top_clients"}
  BY <1>1, <1>5 DEF StatementsInOrder
<1>6. CASE query = <<"updated_at">> /\ DOMAIN figures = {"started_at"}
  BY <1>1, <1>6 DEF StatementsInOrder
<1> QED
  BY <1>1, <1>2, <1>3, <1>4, <1>5, <1>6 DEF StatementsInOrder

\* The counts: blocks and hits are different rows.
LEMMA CountsRead ==
    ASSUME StoreInv,
           \/ Reads("total_queries") /\ DOMAIN figures = {}
           \/ Reads("blocked_queries") /\ DOMAIN figures = {"total_queries"}
           \/ Reads("cache_hits") /\ DOMAIN figures = {"total_queries", "blocked_queries"}
    PROVE  /\ CountsBehind' /\ ClientsBehind' /\ SpanBehind' /\ FiguresBounded'
           /\ \A s \in DOMAIN figures' : s \notin {"top_clients", "top_blocked_clients"}
                                         /\ figures'[s] \in Nat
<1> DEFINE B == Matching("Blocked")
           C == Matching("Cached")
<1>1. rows' = rows /\ inserted' = inserted /\ inserted \in Nat
  BY DEF Reads, store, StoreInv, StoreTypeOK
<1>2. /\ Cardinality(rows) \in Nat /\ Cardinality(B) \in Nat /\ Cardinality(C) \in Nat
      /\ Cardinality(B) + Cardinality(C) <= Cardinality(rows)
  <2>1. B \subseteq rows /\ C \subseteq rows /\ B \cap C = {}
    BY DEF Matching
  <2>2. IsFiniteSet(rows)
    BY DEF StoreInv
  <2> HIDE DEF B, C
  <2>3. /\ IsFiniteSet(B) /\ IsFiniteSet(C)
        /\ Cardinality(rows) \in Nat /\ Cardinality(B) \in Nat /\ Cardinality(C) \in Nat
    BY <2>1, <2>2, CountSubset
  <2>4. Cardinality(B \cup C) = Cardinality(B) + Cardinality(C)
    <3>1. Cardinality(B \cap C) = 0
      BY <2>1, FS_EmptySet
    <3>2. Cardinality(B \cup C)
             = Cardinality(B) + Cardinality(C) - Cardinality(B \cap C)
      BY <2>3, FS_Union
    <3> QED
      BY <2>3, <3>1, <3>2
  <2>5. Cardinality(B \cup C) <= Cardinality(rows)
    BY <2>1, <2>2, CountSubset
  <2> QED
    BY <2>3, <2>4, <2>5
<1>3. Matching("Cached")' = C
  BY <1>1 DEF Matching
<1> HIDE DEF B, C
<1>4. CASE Reads("total_queries") /\ DOMAIN figures = {}
  <2>1. DOMAIN figures' = {"total_queries"} /\ figures'["total_queries"] = Cardinality(rows)
    BY <1>4 DEF Reads, Result
  <2> QED
    BY <1>1, <1>2, <2>1 DEF CountsBehind, ClientsBehind, SpanBehind, FiguresBounded
<1>5. CASE Reads("blocked_queries") /\ DOMAIN figures = {"total_queries"}
  <2>1. /\ DOMAIN figures' = {"total_queries", "blocked_queries"}
        /\ figures'["blocked_queries"] = Cardinality(B)
        /\ figures'["total_queries"] = figures["total_queries"]
    BY <1>5 DEF Reads, Result, B
  <2>2. /\ figures["total_queries"] \in Nat
        /\ Cardinality(rows) <= figures["total_queries"] + inserted
    BY <1>5 DEF StoreInv, StoreTypeOK, CountsBehind
  <2>3. CountsBehind'
    BY <1>1, <1>2, <1>3, <2>1, <2>2 DEF CountsBehind
  <2> QED
    BY <1>2, <2>1, <2>2, <2>3 DEF ClientsBehind, SpanBehind, FiguresBounded
<1>6. CASE Reads("cache_hits") /\ DOMAIN figures = {"total_queries", "blocked_queries"}
  <2>1. /\ DOMAIN figures' = {"total_queries", "blocked_queries", "cache_hits"}
        /\ figures'["cache_hits"] = Cardinality(C)
        /\ figures'["total_queries"] = figures["total_queries"]
        /\ figures'["blocked_queries"] = figures["blocked_queries"]
    BY <1>6 DEF Reads, Result, C
  <2>2. /\ figures["total_queries"] \in Nat /\ figures["blocked_queries"] \in Nat
        /\ figures["blocked_queries"] + Cardinality(C) <= figures["total_queries"] + inserted
    BY <1>6 DEF StoreInv, StoreTypeOK, CountsBehind, C
  <2> QED
    BY <1>1, <1>2, <2>1, <2>2 DEF CountsBehind, ClientsBehind, SpanBehind, FiguresBounded
<1> QED
  BY <1>4, <1>5, <1>6

\* The clients: the blocks of a client are rows of it.
LEMMA ClientsRead ==
    ASSUME StoreInv,
           \/ Reads("top_clients") /\ DOMAIN figures = {}
           \/ Reads("top_blocked_clients") /\ DOMAIN figures = {"top_clients"}
    PROVE  /\ CountsBehind' /\ ClientsBehind' /\ SpanBehind' /\ FiguresBounded'
           /\ \A s \in DOMAIN figures' :
                 /\ s \in {"top_clients", "top_blocked_clients"}
                 /\ \A c \in DOMAIN figures'[s] : figures'[s][c] \in Nat
<1> DEFINE B == Matching("Blocked")
<1>1. rows' = rows /\ inserted' = inserted /\ inserted \in Nat
  BY DEF Reads, store, StoreInv, StoreTypeOK
<1>2. \A c : /\ Cardinality(OfClient(rows, c)) \in Nat /\ Cardinality(OfClient(B, c)) \in Nat
             /\ Cardinality(OfClient(B, c)) <= Cardinality(OfClient(rows, c))
  <2>1. TAKE c
  <2>2. OfClient(B, c) \subseteq OfClient(rows, c) /\ OfClient(rows, c) \subseteq rows
    BY DEF OfClient, Matching
  <2>3. IsFiniteSet(OfClient(rows, c))
    BY <2>2, CountSubset DEF StoreInv
  <2> HIDE DEF B
  <2> QED
    BY <2>2, <2>3, CountSubset
<1>3. \A c : Share(ByClient(rows), c) \in Nat
             /\ Share(ByClient(rows), c) = Cardinality(OfClient(rows, c))
  <2>1. TAKE c
  <2>2. CASE c \in {Kind[row.entry].client : row \in rows}
    BY <1>2, <2>2 DEF Share, ByClient
  <2>3. CASE c \notin {Kind[row.entry].client : row \in rows}
    <3>1. OfClient(rows, c) = {}
      BY <2>3 DEF OfClient
    <3> QED
      BY <2>3, <3>1, FS_EmptySet DEF Share, ByClient
  <2> QED
    BY <2>2, <2>3
<1>4. CASE Reads("top_clients") /\ DOMAIN figures = {}
  <2>1. DOMAIN figures' = {"top_clients"} /\ figures'["top_clients"] = ByClient(rows)
    BY <1>4 DEF Reads, Result
  <2>2. \A c \in DOMAIN ByClient(rows) : ByClient(rows)[c] \in Nat
    BY <1>2 DEF ByClient
  <2> QED
    BY <1>1, <1>2, <1>3, <2>1, <2>2 DEF CountsBehind, ClientsBehind, SpanBehind, FiguresBounded
<1>5. CASE Reads("top_blocked_clients") /\ DOMAIN figures = {"top_clients"}
  <2>1. /\ DOMAIN figures' = {"top_clients", "top_blocked_clients"}
        /\ figures'["top_blocked_clients"] = ByClient(B)
        /\ figures'["top_clients"] = figures["top_clients"]
    BY <1>5 DEF Reads, Result, B
  <2>2. /\ \A c : Share(figures["top_clients"], c) \in Nat
        /\ \A c \in DOMAIN figures["top_clients"] : figures["top_clients"][c] \in Nat
    BY <1>5 DEF StoreInv, StoreTypeOK, Share
  <2>3. ASSUME NEW c \in DOMAIN ByClient(B)
        PROVE  /\ ByClient(B)[c] \in Nat
               /\ ByClient(B)[c] <= Share(figures["top_clients"], c) + inserted
    <3>1. ByClient(B)[c] = Cardinality(OfClient(B, c))
      BY DEF ByClient
    <3>2. c \in {Kind[e].client : e \in Entries}
      BY DEF ByClient, B, Matching, StoreInv, StoreTypeOK
    <3>3. Cardinality(OfClient(rows, c)) <= Share(figures["top_clients"], c) + inserted
      BY <1>5, <3>2 DEF StoreInv, ClientsBehind
    <3> QED
      BY <1>1, <1>2, <2>2, <3>1, <3>3
  <2> HIDE DEF B
  <2> QED
    BY <1>1, <2>1, <2>2, <2>3 DEF CountsBehind, ClientsBehind, SpanBehind, FiguresBounded
<1> QED
  BY <1>4, <1>5

\* The span: MIN first, then MAX of a table none of whose rows is older.
LEMMA SpanRead ==
    ASSUME StoreInv, now \in Nat,
           \/ Reads("started_at") /\ DOMAIN figures = {}
           \/ Reads("updated_at") /\ DOMAIN figures = {"started_at"}
    PROVE  /\ CountsBehind' /\ ClientsBehind' /\ SpanBehind' /\ FiguresBounded'
           /\ \A s \in DOMAIN figures' : s \notin {"top_clients", "top_blocked_clients"}
                                         /\ figures'[s] \in Nat
<1>1. rows' = rows /\ inserted' = inserted /\ now' = now
  BY DEF Reads, store
<1>2. /\ Times \in SUBSET (0..now)
      /\ \A row \in rows : row.timestamp \in Times
      /\ rows # {} => Times # {}
      /\ \A x \in Times : \E row \in rows : x = row.timestamp
  BY DEF Times, StoreInv, StoreTypeOK
<1>3. CASE Reads("started_at") /\ DOMAIN figures = {}
  <2>1. DOMAIN figures' = {"started_at"} /\ figures'["started_at"] = Earliest
    BY <1>3 DEF Reads, Result
  <2>2. Earliest \in 0..now /\ \A row \in rows : Earliest <= row.timestamp
    <3>1. CASE rows = {}
      BY <3>1 DEF Earliest
    <3>2. CASE rows # {}
      <4>1. Min(Times) \in Times /\ \A x \in Times : Min(Times) <= x
        BY <1>2, <3>2, LeastOfNat
      <4> QED
        BY <1>2, <3>2, <4>1 DEF Earliest
    <3> QED
      BY <3>1, <3>2
  <2> QED
    BY <1>1, <2>1, <2>2 DEF CountsBehind, ClientsBehind, SpanBehind, FiguresBounded
<1>4. CASE Reads("updated_at") /\ DOMAIN figures = {"started_at"}
  <2>1. /\ DOMAIN figures' = {"started_at", "updated_at"}
        /\ figures'["updated_at"] = Latest
        /\ figures'["started_at"] = figures["started_at"]
    BY <1>4 DEF Reads, Result
  <2>2. /\ figures["started_at"] \in Nat /\ figures["started_at"] <= now
        /\ \A row \in rows : figures["started_at"] <= row.timestamp
    BY <1>4 DEF StoreInv, StoreTypeOK, SpanBehind
  <2>3. Latest \in Nat /\ figures["started_at"] <= Latest
    <3>1. CASE rows = {}
      BY <2>2, <3>1 DEF Latest
    <3>2. CASE rows # {}
      <4>1. Max(Times) \in Times
        BY <1>2, <3>2, GreatestUpTo
      <4>2. PICK row \in rows : Max(Times) = row.timestamp
        BY <1>2, <4>1
      <4>3. Latest = Max(Times)
        BY <3>2 DEF Latest
      <4>4. Max(Times) \in Nat
        <5>1. \A t \in 0..now : t \in Nat
          OBVIOUS
        <5> HIDE DEF Times
        <5> QED
          BY <1>2, <4>1, <5>1
      <4>5. figures["started_at"] <= row.timestamp
        BY <2>2
      <4> QED
        BY <4>2, <4>3, <4>4, <4>5
    <3> QED
      BY <3>1, <3>2
  <2> QED
    BY <1>1, <2>1, <2>2, <2>3 DEF CountsBehind, ClientsBehind, SpanBehind, FiguresBounded
<1> QED
  BY <1>3, <1>4

LEMMA StoreTypes ==
    ASSUME LoggerAssumption, StoreInv
    PROVE  /\ now \in Nat /\ lastCleanup \in 0..now /\ booted \in 0..now
           /\ Retention \in Nat /\ CleanupEvery \in Nat
           /\ \A row \in rows : /\ row \in [entry : Entries, timestamp : 0..now]
                                /\ row.entry \in Entries /\ row.timestamp \in Nat
                                /\ row.timestamp <= now
  BY DEF LoggerAssumption, StoreAssumption, StoreInv, StoreTypeOK

LEMMA SelectStep ==
    ASSUME LoggerAssumption, StoreInv, Select
    PROVE  StoreInv'
<1>1. now \in Nat
  BY StoreTypes
<1>2. UNCHANGED <<store, inserted>>
  BY DEF Select
<1>3. StatementsInOrder'
  BY NextStatement DEF StoreInv
<1>4. /\ CountsBehind' /\ ClientsBehind' /\ SpanBehind' /\ FiguresBounded'
      /\ \A s \in DOMAIN figures' :
            IF s \in {"top_clients", "top_blocked_clients"}
            THEN \A c \in DOMAIN figures'[s] : figures'[s][c] \in Nat
            ELSE figures'[s] \in Nat
  <2>1. StatementsInOrder
    BY DEF StoreInv
  <2>2. CASE \/ Reads("total_queries") /\ DOMAIN figures = {}
             \/ Reads("blocked_queries") /\ DOMAIN figures = {"total_queries"}
             \/ Reads("cache_hits") /\ DOMAIN figures = {"total_queries", "blocked_queries"}
    BY <2>2, CountsRead
  <2>3. CASE \/ Reads("top_clients") /\ DOMAIN figures = {}
             \/ Reads("top_blocked_clients") /\ DOMAIN figures = {"top_clients"}
    BY <2>3, ClientsRead
  <2>4. CASE \/ Reads("started_at") /\ DOMAIN figures = {}
             \/ Reads("updated_at") /\ DOMAIN figures = {"started_at"}
    BY <1>1, <2>4, SpanRead
  <2> QED
    BY <2>1, <2>2, <2>3, <2>4, NextStatement
<1>5. StoreTypeOK'
  BY <1>2, <1>4 DEF StoreInv, StoreTypeOK, store
<1>6. IsFiniteSet(rows') /\ PrunedSinceCleanup'
  BY <1>2 DEF store, StoreInv, PrunedSinceCleanup
<1> QED
  BY <1>3, <1>4, <1>5, <1>6 DEF StoreInv

LEMMA GetStatsStep ==
    ASSUME StoreInv, GetStats
    PROVE  StoreInv'
<1>1. /\ UNCHANGED <<store, figures>> /\ DOMAIN figures = {} /\ query' \in StatsParts
      /\ inserted' = 0
  BY DEF GetStats
<1>2. StoreTypeOK'
  BY <1>1 DEF store, StoreInv, StoreTypeOK
<1>3. StatementsInOrder'
  BY <1>1 DEF StatementsInOrder
<1>4. CountsBehind' /\ ClientsBehind' /\ SpanBehind' /\ FiguresBounded'
  BY <1>1 DEF CountsBehind, ClientsBehind, SpanBehind, FiguresBounded
<1>5. IsFiniteSet(rows') /\ PrunedSinceCleanup'
  BY <1>1 DEF store, StoreInv, PrunedSinceCleanup
<1> QED
  BY <1>2, <1>3, <1>4, <1>5 DEF StoreInv

\* One step of the thread, or of the clock.
LEMMA TableStep ==
    ASSUME LoggerAssumption, StoreInv, WriterStep \/ Tick
    PROVE  StoreInv'
<1>1. /\ now \in Nat /\ lastCleanup \in 0..now /\ booted \in 0..now /\ Retention \in Nat
      /\ MaxTime \in Nat /\ inserted \in Nat /\ pipe \in Seq(Entries)
      /\ now \in 0..MaxTime
  BY StoreTypes DEF LoggerAssumption, StoreAssumption, StoreInv, StoreTypeOK
<1>2. ASSUME TableChanges, StoreTypeOK', PrunedSinceCleanup'
      PROVE  StoreInv'
  BY <1>1, <1>2, FiguresKept DEF StoreInv
<1>3. CASE Insert
  <2> DEFINE x == [entry |-> Head(pipe), timestamp |-> now]
  <2>1. /\ Head(pipe) \in Entries /\ Tail(pipe) \in Seq(Entries)
        /\ rows' = rows \cup {x} /\ pipe' = Tail(pipe)
        /\ inserted' = IF query = <<>> THEN inserted ELSE inserted + 1
        /\ UNCHANGED <<now, lastCleanup, reading, booted, gone, pruneFailed>>
        /\ writer' = "cleanup"
    BY <1>1, <1>3 DEF Insert
  <2>2. x \in [entry : Entries, timestamp : {now}] /\ x \in [entry : Entries, timestamp : 0..now]
    BY <1>1, <2>1
  <2> HIDE DEF x
  <2>3. TableChanges
    <3>1. rows' \subseteq rows \cup {x}
      BY <2>1
    <3>2. query' = query /\ figures' = figures /\ now' \in Nat /\ now <= now'
      BY <1>1, <2>1 DEF reading
    <3> QED
      BY <2>1, <2>2, <3>1, <3>2 DEF TableChanges
  <2>4. StoreTypeOK'
    BY <1>1, <2>1, <2>2 DEF StoreInv, StoreTypeOK, reading
  <2>5. PrunedSinceCleanup'
    <3>1. x.timestamp >= lastCleanup - Retention
      BY <1>1 DEF x
    <3> QED
      BY <2>1, <3>1 DEF StoreInv, PrunedSinceCleanup
  <2> QED
    BY <1>2, <2>3, <2>4, <2>5
<1>4. CASE InsertFails
  <2>1. /\ Head(pipe) \in Entries /\ Tail(pipe) \in Seq(Entries)
        /\ pipe' = Tail(pipe) /\ gone' = gone \cup {Head(pipe)} /\ writer' = "cleanup"
        /\ UNCHANGED <<now, rows, lastCleanup, reading, booted, pruneFailed, inserted>>
    BY <1>1, <1>4 DEF InsertFails
  <2>2. TableChanges
    BY <1>1, <2>1 DEF TableChanges, reading
  <2>3. StoreTypeOK'
    BY <1>1, <2>1 DEF StoreInv, StoreTypeOK, reading
  <2>4. PrunedSinceCleanup'
    BY <2>1 DEF StoreInv, PrunedSinceCleanup
  <2> QED
    BY <1>2, <2>2, <2>3, <2>4
<1>5. CASE NoCleanup \/ PruneFails
  <2>1. /\ writer' = "recv" /\ lastCleanup' \in {lastCleanup, now}
        /\ UNCHANGED <<now, pipe, rows, reading, booted, gone, inserted>>
        /\ \/ pruneFailed' = TRUE
           \/ lastCleanup' = lastCleanup /\ pruneFailed' = pruneFailed
    BY <1>5 DEF NoCleanup, PruneFails, CleanUp
  <2>2. TableChanges
    BY <1>1, <2>1 DEF TableChanges, reading
  <2>3. pruneFailed' \in BOOLEAN /\ lastCleanup' \in 0..now
    <3>1. pruneFailed \in BOOLEAN /\ TRUE \in BOOLEAN
      BY DEF StoreInv, StoreTypeOK
    <3>2. pruneFailed' \in BOOLEAN
      BY <2>1, <3>1, Zenon
    <3>3. lastCleanup' \in 0..now
      BY <1>1, <2>1
    <3> QED
      BY <3>2, <3>3
  <2>4. StoreTypeOK'
    BY <1>1, <2>1, <2>3 DEF StoreInv, StoreTypeOK, reading
  <2>5. PrunedSinceCleanup'
    BY <2>1 DEF StoreInv, PrunedSinceCleanup
  <2> QED
    BY <1>2, <2>2, <2>4, <2>5
<1>6. CASE Prune
  <2>1. /\ writer' = "recv" /\ lastCleanup' = now
        /\ rows' = {row \in rows : ~Expired(row)}
        /\ gone' = gone \cup {row.entry : row \in rows \ rows'}
        /\ UNCHANGED <<now, pipe, reading, booted, pruneFailed, inserted>>
    BY <1>6 DEF Prune, CleanUp
  <2>2. TableChanges
    BY <1>1, <2>1 DEF TableChanges, reading
  <2>3. gone' \subseteq Entries
    BY <2>1, StoreTypes DEF StoreInv, StoreTypeOK
  <2>4. StoreTypeOK'
    BY <1>1, <2>1, <2>3 DEF StoreInv, StoreTypeOK, reading
  <2>5. PrunedSinceCleanup'
    BY <1>1, <2>1, StoreTypes DEF PrunedSinceCleanup, Expired
  <2> QED
    BY <1>2, <2>2, <2>4, <2>5
<1>7. CASE Tick
  <2>1. /\ now' = now + 1 /\ now' \in 0..MaxTime
        /\ UNCHANGED <<pipe, rows, writer, lastCleanup, reading, booted, gone,
                       pruneFailed, inserted>>
    BY <1>1, <1>7 DEF Tick
  <2>2. TableChanges
    BY <1>1, <2>1 DEF TableChanges, reading
  <2>3. rows \subseteq [entry : Entries, timestamp : 0..now']
    BY <1>1, <2>1, StoreTypes
  <2>4. StoreTypeOK'
    BY <1>1, <2>1, <2>3 DEF StoreInv, StoreTypeOK, reading
  <2>5. PrunedSinceCleanup'
    BY <2>1 DEF StoreInv, PrunedSinceCleanup
  <2> QED
    BY <1>2, <2>2, <2>4, <2>5
<1> QED
  BY <1>3, <1>4, <1>5, <1>6, <1>7 DEF WriterStep

LEMMA RestartStep ==
    ASSUME LoggerAssumption, StoreInv, StoreRestart
    PROVE  StoreInv'
<1>1. /\ rows' = rows /\ pipe' = <<>> /\ writer' = "recv"
      /\ lastCleanup' = now /\ booted' = now /\ pruneFailed' = FALSE
      /\ query' = <<>> /\ DOMAIN figures' = {} /\ inserted' = 0
      /\ UNCHANGED <<now, gone>>
  BY DEF StoreRestart, Reopened
<1>2. StoreTypeOK'
  <2>1. now \in 0..MaxTime /\ {now, now} \subseteq 0..now
    BY StoreTypes DEF StoreInv, StoreTypeOK
  <2>2. <<>> \in Seq(Entries)
    OBVIOUS
  <2> QED
    BY <1>1, <2>1, <2>2 DEF StoreInv, StoreTypeOK
<1>3. StatementsInOrder'
  BY <1>1 DEF StatementsInOrder
<1>4. CountsBehind' /\ ClientsBehind' /\ SpanBehind' /\ FiguresBounded'
  BY <1>1 DEF CountsBehind, ClientsBehind, SpanBehind, FiguresBounded
<1>5. IsFiniteSet(rows') /\ PrunedSinceCleanup'
  BY <1>1 DEF StoreInv, PrunedSinceCleanup
<1> QED
  BY <1>2, <1>3, <1>4, <1>5 DEF StoreInv

\* A sink's task passes an entry on, or nothing of the store moves.
LEMMA PipeStep ==
    ASSUME StoreInv, pipe' \in Seq(Entries),
           UNCHANGED <<now, rows, writer, lastCleanup, booted, gone, pruneFailed,
                       reading, inserted>>
    PROVE  StoreInv'
  BY DEF StoreInv, StoreTypeOK, StatementsInOrder, CountsBehind, ClientsBehind, SpanBehind,
         FiguresBounded, PrunedSinceCleanup, Matching, reading

LEMMA StoreInitInv == LoggerAssumption /\ StoreInit => StoreInv
<1> SUFFICES ASSUME LoggerAssumption, StoreInit PROVE StoreInv
  OBVIOUS
<1>1. DOMAIN figures = {} /\ IsFiniteSet(rows)
  BY FS_EmptySet DEF StoreInit
<1>2. StoreTypeOK
  <2>1. now = 1 /\ now \in 0..MaxTime /\ {lastCleanup, booted} \subseteq 0..now
    BY DEF StoreInit, LoggerAssumption, StoreAssumption
  <2>2. pipe \in Seq(Entries)
    BY DEF StoreInit
  <2> QED
    BY <1>1, <2>1, <2>2 DEF StoreInit, StoreTypeOK
<1> QED
  BY <1>1, <1>2 DEF StoreInit, StoreInv, StatementsInOrder, CountsBehind, ClientsBehind,
                    SpanBehind, FiguresBounded, PrunedSinceCleanup
-----------------------------------------------------------------------------
(* Sequences: a channel is a window on what it has accepted.               *)

LEMMA OneLong ==
    ASSUME NEW S, NEW e \in S
    PROVE  <<e>> \in Seq(S) /\ <<>> \in Seq(S)
  OBVIOUS

LEMMA WindowTakes ==
    ASSUME NEW S, NEW s \in Seq(S), NEW d \in 0..Len(s), NEW e \in S
    PROVE  Append(SubSeq(s, d + 1, Len(s)), e) = SubSeq(Append(s, e), d + 1, Len(s) + 1)
  OBVIOUS

LEMMA PrefixStays ==
    ASSUME NEW S, NEW s \in Seq(S), NEW a \in Nat \ {0}, NEW m \in 0..Len(s), NEW e \in S
    PROVE  SubSeq(Append(s, e), a, m) = SubSeq(s, a, m)
  OBVIOUS

LEMMA WindowGives ==
    ASSUME NEW S, NEW s \in Seq(S), NEW m \in 0..Len(s), NEW d \in Nat, d < m
    PROVE  /\ Head(SubSeq(s, d + 1, m)) = s[d + 1]
           /\ Tail(SubSeq(s, d + 1, m)) = SubSeq(s, d + 2, m)
           /\ SubSeq(s, d + 1, m) # <<>>
  OBVIOUS

LEMMA WindowGrows ==
    ASSUME NEW S, NEW s \in Seq(S), NEW d \in Nat, d < Len(s), NEW h \in 0..d
    PROVE  Append(SubSeq(s, h + 1, d), s[d + 1]) = SubSeq(s, h + 1, d + 1)
  OBVIOUS

LEMMA WindowLength ==
    ASSUME NEW S, NEW s \in Seq(S), NEW m \in 0..Len(s), NEW h \in 0..m
    PROVE  /\ SubSeq(s, h + 1, m) \in Seq(S)
           /\ Len(SubSeq(s, h + 1, m)) = m - h
           /\ \A i \in 1..(m - h) : SubSeq(s, h + 1, m)[i] = s[h + i]
  OBVIOUS

LEMMA WindowInside ==
    ASSUME NEW S, NEW s \in Seq(S), NEW n \in 0..Len(s), NEW a \in 1..(n + 1)
    PROVE  SubSeq(SubSeq(s, 1, n), a, n) = SubSeq(s, a, n)
<1> DEFINE p == SubSeq(s, 1, n)
<1>1. p \in Seq(S) /\ Len(p) = n /\ \A i \in 1..n : p[i] = s[i]
  OBVIOUS
<1> HIDE DEF p
<1>2. SubSeq(p, a, n) = SubSeq(s, a, n)
  BY <1>1
<1> QED
  BY <1>2 DEF p

LEMMA NewestIs ==
    ASSUME RingCap \in Nat \ {0}, NEW S, NEW s \in Seq(S), NEW n \in 0..Len(s)
    PROVE  /\ Larger(1, n - RingCap + 1) \in 1..(n + 1)
           /\ Newest(SubSeq(s, 1, n)) = SubSeq(s, Larger(1, n - RingCap + 1), n)
<1> DEFINE p == SubSeq(s, 1, n)
<1>1. Len(p) = n
  OBVIOUS
<1>2. Larger(1, n - RingCap + 1) \in 1..(n + 1)
  BY DEF Larger
<1>3. SubSeq(p, Larger(1, n - RingCap + 1), n) = SubSeq(s, Larger(1, n - RingCap + 1), n)
  BY <1>2, WindowInside
<1> HIDE DEF p
<1> QED
  BY <1>1, <1>2, <1>3 DEF Newest, p

\* The buffer after it took one more entry.
LEMMA NewestTakes ==
    ASSUME RingCap \in Nat \ {0}, NEW S, NEW s \in Seq(S), NEW d \in Nat, d < Len(s),
           ring = Newest(SubSeq(s, 1, d))
    PROVE  Pushed(s[d + 1]) = Newest(SubSeq(s, 1, d + 1))
<1>1. ASSUME NEW n \in 0..Len(s)
      PROVE  Newest(SubSeq(s, 1, n)) = SubSeq(s, Larger(1, n - RingCap + 1), n)
  BY NewestIs
<1>2. ring = SubSeq(s, Larger(1, d - RingCap + 1), d)
  BY <1>1
<1>3. Newest(SubSeq(s, 1, d + 1)) = SubSeq(s, Larger(1, d - RingCap + 2), d + 1)
  BY <1>1
<1>4. CASE d < RingCap
  <2>1. Larger(1, d - RingCap + 1) = 1 /\ Larger(1, d - RingCap + 2) = 1
    BY <1>4 DEF Larger
  <2>0. 0 \in 0..d /\ d \in 0..Len(s) /\ 0 + 1 = 1 /\ d - 0 = d
    OBVIOUS
  <2>5. Len(SubSeq(s, 0 + 1, d)) = d - 0
    BY ONLY <2>0, WindowLength, s \in Seq(S)
  <2>2. Len(ring) = d /\ ring = SubSeq(s, 1, d)
    BY <1>2, <2>0, <2>1, <2>5
  <2>3. Append(SubSeq(s, 0 + 1, d), s[d + 1]) = SubSeq(s, 0 + 1, d + 1)
    BY WindowGrows
  <2>4. Append(SubSeq(s, 1, d), s[d + 1]) = SubSeq(s, 1, d + 1)
    BY <2>3
  <2> QED
    BY <1>3, <1>4, <2>1, <2>2, <2>4 DEF Pushed
<1>5. CASE d >= RingCap
  <2> DEFINE h == d - RingCap
  <2>1. /\ Larger(1, d - RingCap + 1) = h + 1 /\ Larger(1, d - RingCap + 2) = h + 2
        /\ h \in Nat /\ h < d
    BY <1>5 DEF Larger
  <2>6. d - h = RingCap /\ h \in 0..d /\ d \in 0..Len(s)
    BY <2>1
  <2> HIDE DEF h
  <2>7. Len(SubSeq(s, h + 1, d)) = d - h
    BY ONLY <2>6, WindowLength, s \in Seq(S)
  <2>2. Len(ring) = RingCap /\ ring = SubSeq(s, h + 1, d)
    BY <1>2, <2>1, <2>6, <2>7
  <2>8. Tail(SubSeq(s, h + 1, d)) = SubSeq(s, h + 2, d)
    BY ONLY <2>1, <2>6, WindowGives, s \in Seq(S)
  <2>3. Tail(ring) = SubSeq(s, h + 2, d)
    BY <2>2, <2>8
  <2>4. Append(SubSeq(s, (h + 1) + 1, d), s[d + 1]) = SubSeq(s, (h + 1) + 1, d + 1)
    BY <2>1, WindowGrows
  <2>5. (h + 1) + 1 = h + 2
    BY <2>1
  <2>9. Pushed(s[d + 1]) = Append(Tail(ring), s[d + 1])
    BY <2>2 DEF Pushed
  <2> QED
    BY <1>3, <2>1, <2>3, <2>4, <2>5, <2>9
<1> QED
  BY <1>4, <1>5
-----------------------------------------------------------------------------
(* The sinks that QueryLogger::new builds.                                 *)

\* What a sink may be called in a configuration, and the extra one.
Names == STRING \cup {"memory"}

\* At most one sink is the thread's and one the buffer, which is there unless
\* the API is served from the database.
SinksWired ==
    /\ sinks \in Seq(Names)
    /\ \A k \in SinkIds : sinks[k] = "memory" => ~opened
    /\ \A k \in SinkIds : sinks[k] = "sqlite" => haveWriter
    /\ \A j, k \in SinkIds : sinks[j] = "sqlite" /\ sinks[k] = "sqlite" => j = k
    /\ \A j, k \in SinkIds : sinks[j] = "memory" /\ sinks[k] = "memory" => j = k
    /\ ~opened => \E k \in SinkIds : sinks[k] = "memory"
    /\ haveWriter => \E k \in SinkIds : sinks[k] = "sqlite"

LEMMA SinksBuilt ==
    config \in Configs /\ opened \in BOOLEAN /\ WiringOK /\ sinks \in Built => SinksWired
<1> SUFFICES ASSUME config \in Configs, opened \in BOOLEAN, WiringOK, sinks \in Built
             PROVE  SinksWired
  OBVIOUS
<1> DEFINE kept == {i \in DOMAIN config : Kept(i)}
<1>1. config \in Seq(STRING) /\ kept \subseteq 1..Len(config)
  BY LoggerAssumption DEF LoggerAssumption
<1>2. PICK p \in Enumerations(kept) : sinks = [k \in DOMAIN p |-> config[p[k]]] \o MemorySink
  BY DEF Built
<1>3. PICK n \in Nat : p \in [1..n -> kept]
  <2>1. \A m \in 0..Cardinality(kept) : m \in Nat
    OBVIOUS
  <2> HIDE DEF kept
  <2> QED
    BY <1>2, <2>1 DEF Enumerations
<1>4. /\ \A i \in kept : \E k \in 1..n : p[k] = i
      /\ \A i, j \in 1..n : i < j => p[i] < p[j]
  <2> HIDE DEF kept
  <2> QED
    BY <1>2, <1>3 DEF Enumerations, Range
<1>5. \A i \in kept : \/ config[i] = "console"
                      \/ /\ config[i] = "sqlite" /\ haveWriter
                         /\ \A j \in 1..(i - 1) : config[j] # "sqlite"
  BY DEF Kept
<1> DEFINE v == [k \in 1..n |-> config[p[k]]]
<1>6. /\ v \in Seq(Names) /\ Len(v) = n /\ sinks = v \o MemorySink
      /\ \A k \in 1..n : v[k] = config[p[k]]
  <2>1. \A k \in 1..n : config[p[k]] \in Names
    BY <1>1, <1>3 DEF Names
  <2> QED
    BY <1>2, <1>3, <2>1
<1>7. /\ MemorySink \in Seq(Names)
      /\ MemorySink = IF opened THEN <<>> ELSE <<"memory">>
  <2>1. "memory" \in Names
    BY DEF Names
  <2>2. <<"memory">> \in Seq(Names) /\ <<>> \in Seq(Names)
    BY <2>1, OneLong
  <2> QED
    BY <2>2, opened \in BOOLEAN DEF MemorySink
<1> HIDE DEF v
<1>8. /\ sinks \in Seq(Names) /\ Len(sinks) = n + Len(MemorySink)
      /\ \A k \in 1..n : sinks[k] = config[p[k]]
      /\ ~opened => Len(sinks) = n + 1 /\ sinks[n + 1] = "memory"
      /\ opened => Len(sinks) = n
  BY <1>6, <1>7
<1>9. \A k \in 1..n : sinks[k] \in {"console", "sqlite"} /\ (sinks[k] = "sqlite" => haveWriter)
  BY <1>3, <1>5, <1>8
<1>10. \A i, j \in kept : config[i] = "sqlite" /\ config[j] = "sqlite" => i = j
  <2> SUFFICES ASSUME NEW i \in kept, NEW j \in kept, config[i] = "sqlite",
                      config[j] = "sqlite"
               PROVE  i = j
    OBVIOUS
  <2>1. i \in Nat /\ j \in Nat /\ i >= 1 /\ j >= 1
    BY <1>1
  <2>2. \A l \in 1..(i - 1) : config[l] # "sqlite"
    BY <1>5
  <2>3. \A l \in 1..(j - 1) : config[l] # "sqlite"
    BY <1>5
  <2> QED
    BY <2>1, <2>2, <2>3
<1>11. \A j, k \in 1..n : sinks[j] = "sqlite" /\ sinks[k] = "sqlite" => j = k
  <2> SUFFICES ASSUME NEW j \in 1..n, NEW k \in 1..n, sinks[j] = "sqlite", sinks[k] = "sqlite"
               PROVE  j = k
    OBVIOUS
  <2>1. p[j] = p[k] /\ p[j] \in Nat
    BY <1>1, <1>3, <1>8, <1>10
  <2>2. ~(j < k) /\ ~(k < j)
    BY <1>1, <1>3, <1>4, <2>1
  <2> QED
    BY <2>2
<1>12. ASSUME haveWriter
       PROVE  \E k \in 1..n : sinks[k] = "sqlite"
  <2> DEFINE S == {i \in 1..Len(config) : config[i] = "sqlite"}
  <2>1. S \in SUBSET Nat /\ S # {}
    BY <1>1, <1>12 DEF WiringOK, Range
  <2>2. Min(S) \in S /\ \A x \in S : Min(S) <= x
    BY <2>1, LeastOfNat
  <2> DEFINE i == Min(S)
  <2> HIDE DEF i
  <2>3. i \in 1..Len(config) /\ config[i] = "sqlite"
    BY <2>2 DEF i
  <2>4. \A j \in 1..(i - 1) : config[j] # "sqlite"
    BY <1>1, <2>2, <2>3 DEF i
  <2>5. i \in kept
    BY <1>1, <1>12, <2>3, <2>4 DEF Kept
  <2> QED
    BY <1>4, <1>8, <2>3, <2>5
<1> HIDE DEF kept
<1>13. \A k \in SinkIds : k \in 1..n \/ (k = n + 1 /\ ~opened /\ sinks[k] = "memory")
  BY <1>8 DEF SinkIds
<1>14. 1..n \subseteq SinkIds /\ (~opened => n + 1 \in SinkIds)
  BY <1>8, <1>7 DEF SinkIds
<1> QED
  BY <1>8, <1>9, <1>11, <1>12, <1>13, <1>14 DEF SinksWired
-----------------------------------------------------------------------------
(* The invariant of the logger, action by action.                          *)

LEMMA LoggerTypes ==
    ASSUME LoggerAssumption, LoggerInv
    PROVE  /\ SinksWired /\ Len(sinks) \in Nat /\ SinkIds = 1..Len(sinks)
           /\ at \in [Entries -> 0..(Len(sinks) + 1)]
           /\ DOMAIN queue = SinkIds /\ DOMAIN accepted = SinkIds
           /\ \A k \in SinkIds : /\ queue[k] \in Seq(Entries) /\ accepted[k] \in Seq(Entries)
                                 /\ Len(queue[k]) \in Nat /\ Len(accepted[k]) \in Nat
                                 /\ Delivered(k) \in 0..Len(accepted[k])
           /\ pipe \in Seq(Entries) /\ Len(pipe) \in Nat
           /\ \A k \in SinkIds : IsSqlite(k) => Handled(k) \in 0..Delivered(k)
           /\ ChannelCap \in Nat \ {0} /\ RingCap \in Nat \ {0}
<1>1. SinksWired
  BY SinksBuilt DEF LoggerInv, TypeOK
<1>2. Len(sinks) \in Nat /\ SinkIds = 1..Len(sinks)
  BY <1>1 DEF SinksWired, SinkIds
<1>3. \A k \in SinkIds : /\ queue[k] \in Seq(Entries) /\ accepted[k] \in Seq(Entries)
                         /\ Len(queue[k]) \in Nat /\ Len(accepted[k]) \in Nat
  BY DEF LoggerInv, TypeOK
<1>4. \A k \in SinkIds : Delivered(k) \in 0..Len(accepted[k])
  <2>1. TAKE k \in SinkIds
  <2>2. Len(queue[k]) <= Len(accepted[k])
    BY DEF LoggerInv, InOrder
  <2>3. Delivered(k) = Len(accepted[k]) - Len(queue[k])
    BY DEF Delivered
  <2>4. Len(accepted[k]) \in Nat /\ Len(queue[k]) \in Nat
    BY <1>3
  <2> DEFINE a == Len(accepted[k])
             b == Len(queue[k])
  <2> HIDE DEF a, b
  <2>5. a \in Nat /\ b \in Nat /\ b <= a
    BY <2>2, <2>4 DEF a, b
  <2>6. a - b \in 0..a
    BY <2>5
  <2> QED
    BY <2>3, <2>6 DEF a, b
<1>5. pipe \in Seq(Entries) /\ Len(pipe) \in Nat
  BY DEF LoggerInv, StoreInv, StoreTypeOK
<1>6. \A k \in SinkIds : IsSqlite(k) => Handled(k) \in 0..Delivered(k)
  BY <1>3, <1>4, <1>5 DEF LoggerInv, InOrder, Handled
<1> QED
  BY <1>1, <1>2, <1>3, <1>4, <1>5, <1>6 DEF LoggerAssumption, LoggerInv, TypeOK

\* What a call of log or a task leaves of what was sent.
LEMMA SendKeeps ==
    ASSUME LoggerAssumption, LoggerInv, NEW e \in Entries, TrySend(e)
    PROVE  /\ UNCHANGED <<storeVars, wiring, ring, printed, restarts>>
           /\ at[e] \in SinkIds /\ at' = [at EXCEPT ![e] = at[e] + 1]
           /\ DOMAIN queue' = SinkIds /\ DOMAIN accepted' = SinkIds
           /\ \A k \in SinkIds :
                 \/ accepted'[k] = accepted[k] /\ queue'[k] = queue[k]
                    /\ (k = at[e] => Len(queue[k]) >= ChannelCap)
                 \/ /\ k = at[e] /\ Len(queue[k]) < ChannelCap
                    /\ accepted'[k] = Append(accepted[k], e) /\ queue'[k] = Append(queue[k], e)
<1>1. /\ DOMAIN queue = SinkIds /\ DOMAIN accepted = SinkIds
      /\ ChannelCap \in Nat /\ \A k \in SinkIds : Len(queue[k]) \in Nat
  BY LoggerTypes
<1> QED
  BY <1>1 DEF TrySend, AfterSend

LEMMA SendExtends ==
    ASSUME LoggerAssumption, LoggerInv, NEW e \in Entries, TrySend(e), NEW k \in SinkIds
    PROVE  /\ accepted'[k] \in Seq(Entries) /\ queue'[k] \in Seq(Entries)
           /\ Len(accepted'[k]) \in Nat /\ Len(accepted'[k]) >= Len(accepted[k])
           /\ \A i \in 1..Len(accepted[k]) : accepted'[k][i] = accepted[k][i]
           /\ Delivered(k)' = Delivered(k) /\ Handled(k)' = Handled(k)
           /\ Len(queue'[k]) <= ChannelCap /\ Len(queue'[k]) <= Len(accepted'[k])
<1>1. /\ queue[k] \in Seq(Entries) /\ accepted[k] \in Seq(Entries)
      /\ Len(queue[k]) \in Nat /\ Len(accepted[k]) \in Nat
      /\ Len(queue[k]) <= ChannelCap /\ Len(queue[k]) <= Len(accepted[k])
      /\ ChannelCap \in Nat
  BY LoggerTypes DEF LoggerInv, InOrder, TypeOK
<1>2. pipe' = pipe
  BY SendKeeps DEF storeVars, store
<1>3. CASE accepted'[k] = accepted[k] /\ queue'[k] = queue[k]
  BY <1>1, <1>2, <1>3 DEF Delivered, Handled
<1>4. CASE /\ accepted'[k] = Append(accepted[k], e) /\ queue'[k] = Append(queue[k], e)
           /\ Len(queue[k]) < ChannelCap
  <2>1. Len(accepted'[k]) = Len(accepted[k]) + 1 /\ Len(queue'[k]) = Len(queue[k]) + 1
    BY <1>1, <1>4
  <2>2. Delivered(k)' = Delivered(k)
    BY <1>1, <2>1 DEF Delivered
  <2>3. Handled(k)' = Handled(k)
    BY <1>2, <2>2 DEF Handled
  <2>4. \A i \in 1..Len(accepted[k]) : accepted'[k][i] = accepted[k][i]
    BY <1>1, <1>4
  <2> QED
    BY <1>1, <1>4, <2>1, <2>2, <2>3, <2>4
<1> QED
  BY <1>3, <1>4, SendKeeps

LEMMA TrySendStep ==
    ASSUME LoggerAssumption, LoggerInv, NEW e \in Entries, TrySend(e)
    PROVE  LoggerInv'
<1>1. /\ UNCHANGED <<storeVars, wiring, ring, printed, restarts>>
      /\ at[e] \in SinkIds /\ at' = [at EXCEPT ![e] = at[e] + 1]
      /\ DOMAIN queue' = SinkIds /\ DOMAIN accepted' = SinkIds
  BY SendKeeps
<1>2. /\ sinks' = sinks /\ SinkIds' = SinkIds /\ rows' = rows /\ pipe' = pipe /\ gone' = gone
      /\ UNCHANGED <<config, opened, haveWriter>>
      /\ \A k : IsSqlite(k)' = IsSqlite(k)
      /\ Stored' = Stored
  BY <1>1 DEF wiring, storeVars, store, SinkIds, IsSqlite, Stored
<1>3. /\ Len(sinks) \in Nat /\ SinkIds = 1..Len(sinks)
      /\ at \in [Entries -> 0..(Len(sinks) + 1)] /\ RingCap \in Nat \ {0}
      /\ \A k \in SinkIds : /\ Delivered(k) \in 0..Len(accepted[k])
                            /\ accepted[k] \in Seq(Entries)
                            /\ queue[k] \in Seq(Entries)
                            /\ Len(queue[k]) \in Nat /\ Len(accepted[k]) \in Nat
                            /\ IsSqlite(k) => Handled(k) \in 0..Delivered(k)
  BY LoggerTypes
<1>4. \A x \in Entries : /\ at[x] \in Nat /\ at'[x] \in Nat /\ at'[x] >= at[x]
                         /\ at'[x] = IF x = e THEN at[e] + 1 ELSE at[x]
  BY <1>1, <1>3
<1>5. \A k \in SinkIds :
         /\ accepted'[k] \in Seq(Entries) /\ queue'[k] \in Seq(Entries)
         /\ Len(accepted'[k]) \in Nat /\ Len(accepted'[k]) >= Len(accepted[k])
         /\ \A i \in 1..Len(accepted[k]) : accepted'[k][i] = accepted[k][i]
         /\ Delivered(k)' = Delivered(k) /\ Handled(k)' = Handled(k)
         /\ Len(queue'[k]) <= ChannelCap /\ Len(queue'[k]) <= Len(accepted'[k])
  BY SendExtends
<1>6. TypeOK'
  <2>1. /\ queue' \in [SinkIds -> Seq(Entries)] /\ accepted' \in [SinkIds -> Seq(Entries)]
        /\ \A k \in SinkIds : Len(queue'[k]) <= ChannelCap
    <3>1. queue' = [k \in SinkIds |-> queue'[k]] /\ accepted' = [k \in SinkIds |-> accepted'[k]]
      <4>1. queue' \in [SinkIds -> Seq(Entries)] /\ accepted' \in [SinkIds -> Seq(Entries)]
        BY <1>1, <1>2, <1>3, <1>5 DEF TrySend, AfterSend, LoggerInv, TypeOK
      <4> QED
        BY <4>1
    <3> QED
      BY <1>5, <3>1
  <2>2. at' \in [Entries -> 0..(Len(sinks) + 1)]
    BY <1>1, <1>3
  <2>3. Built' = Built
    BY <1>2 DEF Built, Enumerations, Kept, MemorySink
  <2> QED
    BY <1>1, <1>2, <2>1, <2>2, <2>3 DEF LoggerInv, TypeOK
<1>7. SinkGaps'
  <2> SUFFICES ASSUME NEW x \in Entries, NEW k \in SinkIds, at'[x] > k,
                      x \notin Range(accepted'[k])
               PROVE  Len(accepted'[k]) >= ChannelCap
    BY <1>2 DEF SinkGaps
  <2>1. x \notin Range(accepted[k])
    <3>1. \A i \in 1..Len(accepted[k]) : i \in 1..Len(accepted'[k])
      BY <1>3, <1>5
    <3>2. DOMAIN accepted[k] = 1..Len(accepted[k]) /\ DOMAIN accepted'[k] = 1..Len(accepted'[k])
      BY <1>3, <1>5
    <3> QED
      BY <1>5, <3>1, <3>2 DEF Range
  <2>2. k \in Nat /\ ChannelCap \in Nat /\ Len(queue[k]) <= Len(accepted[k])
    BY <1>3 DEF LoggerAssumption, LoggerInv, InOrder
  <2>3. CASE at[x] > k
    BY <1>3, <1>5, <2>1, <2>2, <2>3 DEF LoggerInv, SinkGaps
  <2>4. CASE ~(at[x] > k)
    <3>1. x = e /\ k = at[e]
      BY <1>4, <2>2, <2>4
    <3>2. ~(accepted'[k] = Append(accepted[k], e))
      BY <1>3, <3>1 DEF Range
    <3>3. Len(queue[k]) >= ChannelCap /\ accepted'[k] = accepted[k]
      BY <3>1, <3>2, SendKeeps
    <3> QED
      BY <1>3, <2>2, <3>3
  <2> QED
    BY <2>3, <2>4
<1>8. SentOnce'
  <2> SUFFICES ASSUME NEW k \in SinkIds, NEW i \in DOMAIN accepted'[k],
                      NEW j \in DOMAIN accepted'[k]
               PROVE  /\ at'[accepted'[k][i]] > k
                      /\ accepted'[k][i] = accepted'[k][j] => i = j
    BY <1>2 DEF SentOnce
  <2>1. k \in Nat /\ i \in 1..Len(accepted'[k]) /\ j \in 1..Len(accepted'[k])
    BY <1>3, <1>5
  <2>2. \A l \in 1..Len(accepted[k]) : accepted[k][l] \in Entries /\ at[accepted[k][l]] > k
    BY <1>3 DEF LoggerInv, SentOnce
  <2>3. \A l, m \in 1..Len(accepted[k]) : accepted[k][l] = accepted[k][m] => l = m
    BY <1>3 DEF LoggerInv, SentOnce
  <2>4. CASE accepted'[k] = accepted[k]
    <3>1. accepted[k][i] \in Entries /\ at[accepted[k][i]] > k
      BY <2>1, <2>2, <2>4
    <3>2. at'[accepted[k][i]] > k
      BY <1>4, <2>1, <3>1
    <3> QED
      BY <2>1, <2>3, <2>4, <3>2
  <2>5. CASE k = at[e] /\ accepted'[k] = Append(accepted[k], e)
    <3> DEFINE n == Len(accepted[k])
    <3>1. /\ n \in Nat /\ Len(accepted'[k]) = n + 1 /\ accepted'[k][n + 1] = e
          /\ \A l \in 1..n : accepted'[k][l] = accepted[k][l]
      BY <1>3, <2>5
    <3> HIDE DEF n
    <3>2. \A l \in 1..n : accepted'[k][l] \in Entries /\ at[accepted'[k][l]] > k
      BY <2>2, <3>1 DEF n
    <3>3. \A l \in 1..n : accepted'[k][l] # e /\ at'[accepted'[k][l]] > k
      <4>1. TAKE l \in 1..n
      <4>2. accepted'[k][l] \in Entries /\ at[accepted'[k][l]] > k
        BY <3>2
      <4>3. /\ at[accepted'[k][l]] \in Nat /\ at'[accepted'[k][l]] \in Nat
            /\ at'[accepted'[k][l]] >= at[accepted'[k][l]]
        BY <1>4, <4>2
      <4>5. ~(at[e] > k)
        BY <2>1, <2>5
      <4>4. accepted'[k][l] # e
        BY <4>2, <4>5
      <4> QED
        BY <2>1, <4>2, <4>3, <4>4
    <3>4. at'[e] > k
      BY <1>4, <2>1, <2>5
    <3>5. i \in 1..n \/ i = n + 1
      BY <2>1, <3>1
    <3>6. j \in 1..n \/ j = n + 1
      BY <2>1, <3>1
    <3>7. \A l, m \in 1..n : accepted'[k][l] = accepted'[k][m] => l = m
      BY <2>3, <3>1 DEF n
    <3> QED
      BY <3>1, <3>3, <3>4, <3>5, <3>6, <3>7
  <2> QED
    BY <2>4, <2>5, SendKeeps
<1>9. InOrder'
  <2> SUFFICES ASSUME NEW k \in SinkIds
               PROVE  /\ queue'[k] = SubSeq(accepted'[k], Delivered(k) + 1, Len(accepted'[k]))
                      /\ SubSeq(accepted'[k], 1, Delivered(k)) = SubSeq(accepted[k], 1, Delivered(k))
                      /\ IsSqlite(k) => SubSeq(accepted'[k], Handled(k) + 1, Delivered(k))
                                           = SubSeq(accepted[k], Handled(k) + 1, Delivered(k))
    <3>1. ring' = ring /\ pipe' = pipe /\ sinks' = sinks /\ SinkIds' = SinkIds
      BY <1>1, <1>2
    <3>2. \A k \in SinkIds :
             /\ sinks[k] = "memory" => ring = Newest(SubSeq(accepted[k], 1, Delivered(k)))
             /\ IsSqlite(k) => /\ Len(pipe) <= Delivered(k)
                               /\ pipe = SubSeq(accepted[k], Handled(k) + 1, Delivered(k))
      BY DEF LoggerInv, InOrder
    <3>3. \A t : Newest(t)' = Newest(t)
      BY DEF Newest, Larger
    <3> QED
      BY <1>2, <1>5, <3>1, <3>2 DEF InOrder, Newest, Larger
  <2>1. queue[k] = SubSeq(accepted[k], Delivered(k) + 1, Len(accepted[k]))
    BY DEF LoggerInv, InOrder
  <2>2. CASE accepted'[k] = accepted[k] /\ queue'[k] = queue[k]
    BY <2>1, <2>2
  <2>3. CASE accepted'[k] = Append(accepted[k], e) /\ queue'[k] = Append(queue[k], e)
    <3>1. Delivered(k) \in 0..Len(accepted[k]) /\ 1 \in Nat \ {0}
      BY <1>3
    <3>2. queue'[k] = SubSeq(accepted'[k], Delivered(k) + 1, Len(accepted[k]) + 1)
      <4>1. accepted[k] \in Seq(Entries) /\ e \in Entries
        BY <1>3
      <4>2. Append(SubSeq(accepted[k], Delivered(k) + 1, Len(accepted[k])), e)
              = SubSeq(Append(accepted[k], e), Delivered(k) + 1, Len(accepted[k]) + 1)
        BY ONLY <3>1, <4>1, WindowTakes
      <4> QED
        BY <2>1, <2>3, <4>2
    <3>3. Len(accepted'[k]) = Len(accepted[k]) + 1
      BY <1>3, <2>3
    <3>4. SubSeq(accepted'[k], 1, Delivered(k)) = SubSeq(accepted[k], 1, Delivered(k))
      BY <1>3, <2>3, <3>1, PrefixStays
    <3>5. ASSUME IsSqlite(k)
          PROVE  SubSeq(accepted'[k], Handled(k) + 1, Delivered(k))
                    = SubSeq(accepted[k], Handled(k) + 1, Delivered(k))
      <4>1. Handled(k) + 1 \in Nat \ {0} /\ accepted[k] \in Seq(Entries) /\ e \in Entries
        BY <1>3, <3>1, <3>5
      <4>2. SubSeq(Append(accepted[k], e), Handled(k) + 1, Delivered(k))
              = SubSeq(accepted[k], Handled(k) + 1, Delivered(k))
        BY ONLY <3>1, <4>1, PrefixStays
      <4> QED
        BY <2>3, <4>2
    <3> QED
      BY <3>2, <3>3, <3>4, <3>5
  <2> QED
    BY <2>2, <2>3, SendKeeps
<1>10. Printed'
  <2>1. \A k \in SinkIds : {accepted'[k][i] : i \in 1..Delivered(k)'}
                              = {accepted[k][i] : i \in 1..Delivered(k)}
    <3>1. \A k \in SinkIds : \A i \in 1..Delivered(k) : i \in 1..Len(accepted[k])
      BY <1>3
    <3>2. \A k \in SinkIds : \A i \in 1..Delivered(k) : accepted'[k][i] = accepted[k][i]
      BY <1>5, <3>1
    <3> QED
      BY <1>5, <3>2
  <2> DEFINE Consoles == {i \in SinkIds : sinks[i] = "console"}
             After(k) == {accepted'[k][i] : i \in 1..Delivered(k)'}
             Before(k) == {accepted[k][i] : i \in 1..Delivered(k)}
  <2>2. UNION {After(k) : k \in Consoles} = UNION {Before(k) : k \in Consoles}
    <3>1. \A k \in Consoles : After(k) = Before(k)
      BY <2>1
    <3> HIDE DEF Consoles, After, Before
    <3> QED
      BY <3>1
  <2> QED
    BY <1>1, <1>2, <2>2 DEF LoggerInv, Printed, ShouldLog
<1>11. TableFollowsPipe'
  <2>1. \A k \in SinkIds : IsSqlite(k) =>
           \A i \in 1..Handled(k) : accepted'[k][i] = accepted[k][i]
    <3>1. \A k \in SinkIds : IsSqlite(k) => \A i \in 1..Handled(k) : i \in 1..Len(accepted[k])
      BY <1>3
    <3> QED
      BY <1>5, <3>1
  <2>2. \A row \in rows : /\ row.entry \in Entries
                          /\ at[row.entry] = Cut => at'[row.entry] = Cut
    BY <1>1, <1>3, <1>4, StoreTypes DEF Cut, LoggerInv
  <2>3. ASSUME NEW row \in rows
        PROVE  \/ at'[row.entry] = Cut
               \/ \E k \in SinkIds : /\ IsSqlite(k)
                                     /\ \E i \in 1..Handled(k)' : accepted'[k][i] = row.entry
    <3>1. CASE at[row.entry] = Cut
      BY <2>2, <3>1
    <3>2. CASE \E k \in SinkIds : /\ IsSqlite(k)
                                  /\ \E i \in 1..Handled(k) : accepted[k][i] = row.entry
      BY <1>5, <2>1, <3>2
    <3> QED
      BY <3>1, <3>2 DEF LoggerInv, TableFollowsPipe
  <2>4. ASSUME NEW k \in SinkIds, IsSqlite(k)
        PROVE  /\ \A i \in 1..Handled(k)' : accepted'[k][i] \in gone \cup Stored
               /\ \A r, s \in rows : \A i, j \in 1..Handled(k)' :
                     i < j /\ r.entry = accepted'[k][i] /\ s.entry = accepted'[k][j]
                         => r.timestamp <= s.timestamp
    BY <1>5, <2>1, <2>4 DEF LoggerInv, TableFollowsPipe
  <2> QED
    BY <1>2, <2>3, <2>4 DEF LoggerInv, TableFollowsPipe
<1>12. StoreInv'
  <2>1. UNCHANGED <<now, rows, writer, lastCleanup, booted, gone, pruneFailed, reading, inserted>>
        /\ pipe' \in Seq(Entries)
    BY <1>1 DEF storeVars, store, LoggerInv, StoreInv, StoreTypeOK
  <2> QED
    BY <2>1, PipeStep DEF LoggerInv
<1>13. WiringOK'
  BY <1>2 DEF LoggerInv, WiringOK
<1> QED
  BY <1>6, <1>7, <1>8, <1>9, <1>10, <1>11, <1>12, <1>13 DEF LoggerInv

\* What a task that passes an entry on does with the windows.
LEMMA DeliverMoves ==
    ASSUME LoggerAssumption, LoggerInv, NEW q \in SinkIds, Deliver(q)
    PROVE  /\ UNCHANGED <<now, rows, writer, lastCleanup, booted, gone, pruneFailed,
                          reading, inserted, wiring, at, accepted, restarts>>
           /\ queue' = [queue EXCEPT ![q] = Tail(@)]
           /\ Delivered(q) < Len(accepted[q])
           /\ Head(queue[q]) = accepted[q][Delivered(q) + 1]
           /\ Head(queue[q]) \in Entries
           /\ queue'[q] = SubSeq(accepted[q], Delivered(q) + 2, Len(accepted[q]))
           /\ queue'[q] \in Seq(Entries) /\ Len(queue'[q]) = Len(queue[q]) - 1
           /\ Delivered(q)' = Delivered(q) + 1
           /\ \A k \in SinkIds : k # q => queue'[k] = queue[k] /\ Delivered(k)' = Delivered(k)
<1>1. /\ UNCHANGED <<now, rows, writer, lastCleanup, booted, gone, pruneFailed,
                     reading, inserted, wiring, at, accepted, restarts>>
      /\ queue' = [queue EXCEPT ![q] = Tail(@)] /\ queue[q] # <<>>
  BY DEF Deliver
<1> DEFINE d == Delivered(q)
           n == Len(accepted[q])
<1>2. /\ DOMAIN queue = SinkIds /\ queue[q] \in Seq(Entries) /\ accepted[q] \in Seq(Entries)
      /\ d \in 0..n /\ n \in Nat /\ Len(queue[q]) \in Nat
  BY LoggerTypes
<1>3. queue[q] = SubSeq(accepted[q], d + 1, n)
  BY DEF LoggerInv, InOrder
<1>4. d = n - Len(queue[q])
  BY DEF Delivered
<1>5. /\ Head(queue[q]) \in Entries /\ Tail(queue[q]) \in Seq(Entries)
      /\ Len(Tail(queue[q])) = Len(queue[q]) - 1 /\ Len(queue[q]) > 0
  BY <1>1, <1>2
<1> HIDE DEF d
<1>6. d < n /\ d \in Nat /\ n \in 0..Len(accepted[q])
  BY <1>2, <1>4, <1>5
<1>7. /\ Head(queue[q]) = accepted[q][d + 1]
      /\ Tail(queue[q]) = SubSeq(accepted[q], d + 2, n)
  BY <1>2, <1>3, <1>6, WindowGives
<1>8. queue'[q] = Tail(queue[q]) /\ \A k \in SinkIds : k # q => queue'[k] = queue[k]
  BY <1>1, <1>2
<1>9. Delivered(q)' = d + 1
  <2>1. Delivered(q)' = n - (Len(queue[q]) - 1)
    BY <1>1, <1>5, <1>8 DEF Delivered
  <2> HIDE DEF n
  <2>2. n - (Len(queue[q]) - 1) = (n - Len(queue[q])) + 1
    BY <1>2
  <2> QED
    BY <1>4, <2>1, <2>2 DEF n
<1>10. \A k \in SinkIds : k # q => Delivered(k)' = Delivered(k)
  BY <1>1, <1>8 DEF Delivered
<1> QED
  BY <1>1, <1>5, <1>6, <1>7, <1>8, <1>9, <1>10 DEF d

LEMMA DeliverStep ==
    ASSUME LoggerAssumption, LoggerInv, NEW q \in SinkIds, Deliver(q)
    PROVE  LoggerInv'
<1> DEFINE e == Head(queue[q])
           d == Delivered(q)
<1>1. /\ UNCHANGED <<now, rows, writer, lastCleanup, booted, gone, pruneFailed,
                     reading, inserted, wiring, at, accepted, restarts>>
      /\ queue' = [queue EXCEPT ![q] = Tail(@)]
      /\ d < Len(accepted[q]) /\ e = accepted[q][d + 1] /\ e \in Entries
      /\ queue'[q] = SubSeq(accepted[q], d + 2, Len(accepted[q]))
      /\ queue'[q] \in Seq(Entries) /\ Len(queue'[q]) = Len(queue[q]) - 1
      /\ Delivered(q)' = d + 1
      /\ \A k \in SinkIds : k # q => queue'[k] = queue[k] /\ Delivered(k)' = Delivered(k)
  BY DeliverMoves
<1>2. /\ ring' = IF sinks[q] = "memory" THEN Pushed(e) ELSE ring
      /\ printed' = printed \cup {x \in {e} : sinks[q] = "console" /\ ShouldLog(e)}
      /\ pipe' = IF sinks[q] = "sqlite" THEN Append(pipe, e) ELSE pipe
  BY DEF Deliver
<1>3. /\ UNCHANGED <<config, opened, haveWriter, sinks>> /\ SinkIds' = SinkIds
      /\ Stored' = Stored
      /\ \A k : IsSqlite(k)' = IsSqlite(k)
  BY <1>1 DEF wiring, SinkIds, Stored, IsSqlite
<1>4. /\ Len(sinks) \in Nat /\ SinkIds = 1..Len(sinks) /\ RingCap \in Nat \ {0}
      /\ ChannelCap \in Nat
      /\ DOMAIN queue = SinkIds
      /\ \A k \in SinkIds : /\ Delivered(k) \in 0..Len(accepted[k])
                            /\ accepted[k] \in Seq(Entries)
                            /\ queue[k] \in Seq(Entries)
                            /\ Len(queue[k]) \in Nat /\ Len(accepted[k]) \in Nat
                            /\ IsSqlite(k) => Handled(k) \in 0..Delivered(k)
      /\ pipe \in Seq(Entries) /\ Len(pipe) \in Nat
      /\ SinksWired
  BY LoggerTypes
<1>5. /\ d \in 0..Len(accepted[q]) /\ d \in Nat /\ accepted[q] \in Seq(Entries)
      /\ ring \in Seq(Entries) /\ Len(ring) \in Nat /\ Len(ring) <= RingCap
  BY <1>4 DEF LoggerInv, TypeOK
<1> HIDE DEF e, d
<1>6. \A k \in SinkIds : IsSqlite(k) => Handled(k)' = Handled(k)
  <2> SUFFICES ASSUME NEW k \in SinkIds, IsSqlite(k)
               PROVE  Handled(k)' = Handled(k)
    OBVIOUS
  <2>1. CASE k = q
    <3>1. pipe' = Append(pipe, e)
      BY <1>2, <2>1 DEF IsSqlite
    <3>2. Len(pipe') = Len(pipe) + 1
      BY <1>1, <1>4, <3>1
    <3>3. Handled(k)' = (d + 1) - (Len(pipe) + 1) /\ Handled(k) = d - Len(pipe)
      BY <1>1, <2>1, <3>2 DEF Handled, d
    <3> QED
      BY <1>4, <1>5, <3>3
  <2>2. CASE k # q
    <3>1. sinks[q] # "sqlite"
      BY <1>4, <2>2 DEF SinksWired, IsSqlite
    <3> QED
      BY <1>1, <1>2, <2>2, <3>1 DEF Handled
  <2> QED
    BY <2>1, <2>2
<1>7. ring' \in Seq(Entries) /\ Len(ring') <= RingCap
  <2>1. Tail(ring) \in Seq(Entries) \/ Len(ring) = 0
    BY <1>5
  <2>2. CASE sinks[q] = "memory" /\ Len(ring) >= RingCap
    <3>1. Tail(ring) \in Seq(Entries) /\ Len(Tail(ring)) = Len(ring) - 1
      BY <1>4, <1>5, <2>2
    <3>2. ring' = Append(Tail(ring), e)
      BY <1>2, <2>2 DEF Pushed
    <3> QED
      BY <1>1, <1>4, <1>5, <3>1, <3>2
  <2>3. CASE sinks[q] = "memory" /\ ~(Len(ring) >= RingCap)
    <3>1. ring' = Append(ring, e)
      BY <1>2, <2>3 DEF Pushed
    <3> QED
      BY <1>1, <1>4, <1>5, <2>3, <3>1
  <2> QED
    BY <1>2, <1>5, <2>2, <2>3
<1>8. TypeOK'
  <2>1. queue' \in [SinkIds -> Seq(Entries)]
    BY <1>1, <1>4 DEF LoggerInv, TypeOK
  <2>2. \A k \in SinkIds : Len(queue'[k]) <= ChannelCap
    BY <1>1, <1>4 DEF LoggerInv, TypeOK
  <2>3. Built' = Built
    BY <1>3 DEF Built, Enumerations, Kept, MemorySink
  <2>4. printed' \subseteq Entries
    BY <1>1, <1>2 DEF LoggerInv, TypeOK
  <2> QED
    BY <1>1, <1>3, <1>7, <2>1, <2>2, <2>3, <2>4 DEF LoggerInv, TypeOK
<1>9. SinkGaps' /\ SentOnce'
  BY <1>1, <1>3 DEF LoggerInv, SinkGaps, SentOnce
<1>10. InOrder'
  <2>1. ASSUME NEW k \in SinkIds
        PROVE  /\ Len(queue'[k]) <= Len(accepted[k])
               /\ queue'[k] = SubSeq(accepted[k], Delivered(k)' + 1, Len(accepted[k]))
    <3>1. CASE k = q
      <4>1. Len(queue[q]) <= Len(accepted[q])
        BY DEF LoggerInv, InOrder
      <4>2. (d + 1) + 1 = d + 2
        BY <1>5
      <4>3. queue'[q] = SubSeq(accepted[q], Delivered(q)' + 1, Len(accepted[q]))
        BY <1>1, <4>2
      <4> DEFINE a == Len(accepted[q])
                 b == Len(queue[q])
                 c == Len(queue'[q])
      <4>4. a \in Nat /\ b \in Nat /\ b <= a /\ c = b - 1
        BY <1>1, <1>4, <4>1
      <4> HIDE DEF a, b, c
      <4>5. c <= a
        BY <4>4
      <4> QED
        BY <3>1, <4>3, <4>5 DEF a, c
    <3>2. CASE k # q
      BY <1>1, <3>2 DEF LoggerInv, InOrder
    <3> QED
      BY <3>1, <3>2
  <2>2. ASSUME NEW k \in SinkIds, sinks[k] = "memory"
        PROVE  ring' = Newest(SubSeq(accepted[k], 1, Delivered(k)'))
    <3>1. ring = Newest(SubSeq(accepted[k], 1, Delivered(k)))
      BY <2>2 DEF LoggerInv, InOrder
    <3>2. CASE k = q
      <4>1. Pushed(accepted[q][d + 1]) = Newest(SubSeq(accepted[q], 1, d + 1))
        BY <1>1, <1>4, <1>5, <3>1, <3>2, NewestTakes DEF d
      <4> QED
        BY <1>1, <1>2, <2>2, <3>2, <4>1
    <3>3. CASE k # q
      <4>1. sinks[q] # "memory"
        BY <1>4, <2>2, <3>3 DEF SinksWired
      <4> QED
        BY <1>1, <1>2, <3>1, <3>3, <4>1
    <3> QED
      BY <3>2, <3>3
  <2>3. ASSUME NEW k \in SinkIds, IsSqlite(k)
        PROVE  /\ Len(pipe') <= Delivered(k)'
               /\ pipe' = SubSeq(accepted[k], Handled(k) + 1, Delivered(k)')
    <3>1. /\ Len(pipe) <= Delivered(k)
          /\ pipe = SubSeq(accepted[k], Handled(k) + 1, Delivered(k))
      BY <2>3 DEF LoggerInv, InOrder
    <3>2. CASE k = q
      <4>1. pipe' = Append(pipe, e) /\ Len(pipe') = Len(pipe) + 1
        BY <1>1, <1>2, <1>4, <2>3, <3>2 DEF IsSqlite
      <4>2. Handled(k) \in 0..d
        BY <1>4, <2>3, <3>2 DEF d
      <4> DEFINE h == Handled(k)
                 s == accepted[q]
      <4> HIDE DEF h, s
      <4>3. h \in 0..d /\ s \in Seq(Entries) /\ d \in Nat /\ d < Len(s)
        BY <1>1, <1>5, <4>2 DEF h, s
      <4>4. Append(SubSeq(s, h + 1, d), s[d + 1]) = SubSeq(s, h + 1, d + 1)
        BY ONLY <4>3, WindowGrows
      <4>5. pipe' = SubSeq(s, h + 1, d + 1)
        BY <1>1, <3>1, <3>2, <4>1, <4>4 DEF h, s, d
      <4>6. Len(pipe') <= d + 1
        BY <1>4, <1>5, <3>1, <3>2, <4>1 DEF d
      <4> QED
        BY <1>1, <3>2, <4>5, <4>6 DEF h, s
    <3>3. CASE k # q
      <4>1. sinks[q] # "sqlite"
        BY <1>4, <2>3, <3>3 DEF SinksWired, IsSqlite
      <4> QED
        BY <1>1, <1>2, <3>1, <3>3, <4>1
    <3> QED
      BY <3>2, <3>3
  <2>4. accepted' = accepted
    BY <1>1
  <2> QED
    BY <1>3, <1>6, <2>1, <2>2, <2>3, <2>4 DEF InOrder, Newest, Larger
<1>11. Printed'
  <2> DEFINE Consoles == {i \in SinkIds : sinks[i] = "console"}
             After(k) == {accepted[k][i] : i \in 1..Delivered(k)'}
             Before(k) == {accepted[k][i] : i \in 1..Delivered(k)}
  <2>1. After(q) = Before(q) \cup {e}
    <3>1. \A i : i \in 1..(d + 1) <=> i \in 1..d \/ i = d + 1
      BY <1>5
    <3>2. Delivered(q)' = d + 1 /\ Delivered(q) = d
      BY <1>1 DEF d
    <3> QED
      BY <1>1, <3>1, <3>2
  <2>2. \A k \in SinkIds : k # q => After(k) = Before(k)
    BY <1>1
  <2>3. UNION {After(k) : k \in Consoles}
           = (UNION {Before(k) : k \in Consoles}) \cup {x \in {e} : sinks[q] = "console"}
    <3>1. Consoles \subseteq SinkIds /\ (q \in Consoles <=> sinks[q] = "console")
      OBVIOUS
    <3> HIDE DEF Consoles, After, Before
    <3>2. CASE sinks[q] = "console"
      BY <2>1, <2>2, <3>1, <3>2
    <3>3. CASE sinks[q] # "console"
      BY <2>2, <3>1, <3>3
    <3> QED
      BY <3>2, <3>3
  <2>4. printed = {x \in UNION {Before(k) : k \in Consoles} : ShouldLog(x)}
    BY DEF LoggerInv, Printed
  <2>5. printed' = {x \in UNION {After(k) : k \in Consoles} : ShouldLog(x)}
    <3> HIDE DEF Consoles, After, Before
    <3> QED
      BY <1>2, <2>3, <2>4
  <2> QED
    BY <1>1, <1>3, <2>5 DEF Printed, ShouldLog
<1>12. TableFollowsPipe'
  BY <1>1, <1>3, <1>6 DEF LoggerInv, TableFollowsPipe
<1>13. StoreInv'
  <2>1. pipe' \in Seq(Entries)
    BY <1>1, <1>2, <1>4
  <2> QED
    BY <1>1, <2>1, PipeStep DEF LoggerInv
<1>14. WiringOK'
  BY <1>3 DEF LoggerInv, WiringOK
<1> QED
  BY <1>8, <1>9, <1>10, <1>11, <1>12, <1>13, <1>14 DEF LoggerInv

\* A step of the store alone.
StoreAlone == UNCHANGED <<wiring, at, queue, ring, printed, accepted, restarts>>

LEMMA StoreAloneKeeps ==
    ASSUME LoggerInv, StoreAlone, StoreInv', TableFollowsPipe',
           \A k \in SinkIds : IsSqlite(k) =>
              /\ Len(pipe') <= Delivered(k)
              /\ pipe' = SubSeq(accepted[k], Handled(k)' + 1, Delivered(k))
    PROVE  LoggerInv'
<1>1. /\ UNCHANGED <<config, opened, haveWriter, sinks, at, queue, ring, printed, accepted, restarts>>
      /\ SinkIds' = SinkIds
      /\ \A k : IsSqlite(k)' = IsSqlite(k) /\ Delivered(k)' = Delivered(k)
  BY DEF StoreAlone, wiring, SinkIds, IsSqlite, Delivered
<1>2. TypeOK'
  <2>1. Built' = Built
    BY <1>1 DEF Built, Enumerations, Kept, MemorySink
  <2> QED
    BY <1>1, <2>1 DEF LoggerInv, TypeOK
<1>3. SinkGaps' /\ SentOnce' /\ WiringOK'
  BY <1>1 DEF LoggerInv, SinkGaps, SentOnce, WiringOK
<1>4. InOrder'
  BY <1>1 DEF LoggerInv, InOrder, Newest, Larger
<1>5. Printed'
  BY <1>1 DEF LoggerInv, Printed, ShouldLog
<1> QED
  BY <1>2, <1>3, <1>4, <1>5 DEF LoggerInv

\* Rows leave the table, if anything, and what leaves is gone.
LEMMA RowsLeave ==
    ASSUME LoggerInv, StoreAlone, StoreInv', pipe' = pipe, rows' \subseteq rows,
           gone \subseteq gone', \A row \in rows \ rows' : row.entry \in gone'
    PROVE  LoggerInv'
<1>1. /\ at' = at /\ accepted' = accepted /\ SinkIds' = SinkIds
      /\ \A k : IsSqlite(k)' = IsSqlite(k) /\ Delivered(k)' = Delivered(k)
                /\ Handled(k)' = Handled(k)
  BY DEF StoreAlone, wiring, SinkIds, IsSqlite, Delivered, Handled
<1>2. TableFollowsPipe'
  <2>1. \A row \in rows' : \/ at[row.entry] = Cut
                           \/ \E k \in SinkIds : /\ IsSqlite(k)
                                                 /\ \E i \in 1..Handled(k) : accepted[k][i] = row.entry
    BY DEF LoggerInv, TableFollowsPipe
  <2>2. \A r, s \in rows' : r.entry = s.entry => r = s
    BY DEF LoggerInv, TableFollowsPipe
  <2>3. ASSUME NEW k \in SinkIds, IsSqlite(k)
        PROVE  /\ \A i \in 1..Handled(k) : accepted[k][i] \in gone' \cup Stored'
               /\ \A r, s \in rows' : \A i, j \in 1..Handled(k) :
                     i < j /\ r.entry = accepted[k][i] /\ s.entry = accepted[k][j]
                         => r.timestamp <= s.timestamp
    <3>1. gone \cup Stored \subseteq gone' \cup Stored'
      BY DEF Stored
    <3>2. \A i \in 1..Handled(k) : accepted[k][i] \in gone \cup Stored
      BY <2>3 DEF LoggerInv, TableFollowsPipe
    <3> QED
      BY <2>3, <3>1, <3>2 DEF LoggerInv, TableFollowsPipe
  <2> QED
    BY <1>1, <2>1, <2>2, <2>3 DEF TableFollowsPipe
<1>3. \A k \in SinkIds : IsSqlite(k) =>
         /\ Len(pipe') <= Delivered(k)
         /\ pipe' = SubSeq(accepted[k], Handled(k)' + 1, Delivered(k))
  BY <1>1 DEF LoggerInv, InOrder
<1> QED
  BY <1>2, <1>3, StoreAloneKeeps

\* The thread takes the next entry of its sink, which has no row yet.
LEMMA ThreadTakes ==
    ASSUME LoggerAssumption, LoggerInv, StoreAlone, haveWriter, pipe # <<>>,
           pipe' = Tail(pipe), NEW k \in SinkIds, IsSqlite(k)
    PROVE  /\ Handled(k) \in Nat /\ Handled(k)' = Handled(k) + 1
           /\ Head(pipe) \in Entries /\ Head(pipe) = accepted[k][Handled(k) + 1]
           /\ Len(pipe') <= Delivered(k)
           /\ pipe' = SubSeq(accepted[k], Handled(k)' + 1, Delivered(k))
           /\ \A row \in rows : row.entry # Head(pipe)
           /\ \A i \in 1..Handled(k) : accepted[k][i] # Head(pipe)
<1> DEFINE h == Handled(k)
           d == Delivered(k)
           s == accepted[k]
<1>1. /\ k \in Nat \ {0} /\ h \in 0..d /\ d \in 0..Len(s) /\ s \in Seq(Entries) /\ Len(s) \in Nat
      /\ pipe \in Seq(Entries) /\ Len(pipe) \in Nat
      /\ SinksWired
  BY LoggerTypes
<1>2. pipe = SubSeq(s, h + 1, d) /\ Len(pipe) <= d
  BY DEF LoggerInv, InOrder
<1>3. /\ Head(pipe) \in Entries /\ Len(pipe) > 0 /\ Len(pipe') = Len(pipe) - 1
  BY <1>1
<1>4. h = d - Len(pipe) /\ h' = d' - Len(pipe') /\ d' = d
  BY DEF Handled, StoreAlone, Delivered
<1> HIDE DEF h, d
<1>5. h < d /\ h \in Nat /\ d \in 0..Len(s) /\ h' = h + 1 /\ d <= Len(s)
  BY <1>1, <1>3, <1>4
<1>6. Head(pipe) = s[h + 1] /\ pipe' = SubSeq(s, h + 2, d)
  BY <1>1, <1>2, <1>5, WindowGives
<1>7. h + 1 \in 1..Len(s) /\ DOMAIN s = 1..Len(s) /\ (h + 1) + 1 = h + 2
      /\ \A i \in 1..h : i \in 1..Len(s) /\ i # h + 1
  BY <1>1, <1>5
<1>8. \A i \in 1..h : s[i] # Head(pipe)
  BY <1>6, <1>7 DEF LoggerInv, SentOnce
<1>9. ASSUME NEW row \in rows
      PROVE  row.entry # Head(pipe)
  <2>1. at[Head(pipe)] > k
    BY <1>6, <1>7 DEF LoggerInv, SentOnce
  <2>2. at[Head(pipe)] # Cut
    BY <1>1, <2>1 DEF Cut
  <2>3. CASE at[row.entry] = Cut
    BY <2>2, <2>3
  <2>4. CASE \E j \in SinkIds : /\ IsSqlite(j)
                                /\ \E i \in 1..Handled(j) : accepted[j][i] = row.entry
    <3>1. \A j \in SinkIds : IsSqlite(j) => j = k
      BY <1>1 DEF SinksWired, IsSqlite
    <3> QED
      BY <1>8, <2>4, <3>1 DEF h
  <2> QED
    BY <2>3, <2>4 DEF LoggerInv, TableFollowsPipe
<1>10. Len(pipe') <= d
  BY <1>1, <1>2, <1>3
<1> QED
  BY <1>3, <1>5, <1>6, <1>7, <1>8, <1>9, <1>10 DEF h, d

LEMMA InsertStep ==
    ASSUME LoggerAssumption, LoggerInv, StoreAlone, haveWriter, Insert \/ InsertFails, StoreInv'
    PROVE  LoggerInv'
<1> DEFINE x == [entry |-> Head(pipe), timestamp |-> now]
<1>1. /\ pipe # <<>> /\ pipe' = Tail(pipe)
      /\ \/ rows' = rows \cup {x} /\ gone' = gone
         \/ rows' = rows /\ gone' = gone \cup {Head(pipe)}
  BY DEF Insert, InsertFails
<1>2. /\ at' = at /\ accepted' = accepted /\ SinkIds' = SinkIds
      /\ \A j : IsSqlite(j)' = IsSqlite(j) /\ Delivered(j)' = Delivered(j)
  BY DEF StoreAlone, wiring, SinkIds, IsSqlite, Delivered
<1>3. PICK k \in SinkIds : IsSqlite(k) /\ \A j \in SinkIds : IsSqlite(j) => j = k
  BY LoggerTypes DEF SinksWired, IsSqlite
<1> DEFINE h == Handled(k)
           s == accepted[k]
<1>4. /\ h \in Nat /\ Handled(k)' = h + 1 /\ Head(pipe) = s[h + 1]
      /\ Len(pipe') <= Delivered(k)
      /\ pipe' = SubSeq(s, Handled(k)' + 1, Delivered(k))
      /\ \A row \in rows : row.entry # Head(pipe)
      /\ \A i \in 1..h : s[i] # Head(pipe)
  BY <1>1, <1>3, ThreadTakes
<1>5. x.entry = Head(pipe) /\ x.timestamp = now
  OBVIOUS
<1> HIDE DEF x, h, s
<1>6. \A i \in 1..(h + 1) : i \in 1..h \/ i = h + 1
  BY <1>4
<1>7. 1..h \subseteq 1..(h + 1) /\ h + 1 \in 1..(h + 1)
  BY <1>4
<1>8. rows \subseteq rows' /\ gone \subseteq gone' /\ \A row \in rows' : row \in rows \/ row = x
  BY <1>1
<1>9. ASSUME NEW row \in rows'
      PROVE  \/ at[row.entry] = Cut
             \/ \E j \in SinkIds : /\ IsSqlite(j)
                                   /\ \E i \in 1..Handled(j)' : accepted[j][i] = row.entry
  <2>1. CASE row = x
    BY <1>3, <1>4, <1>5, <1>7, <2>1 DEF s
  <2>2. CASE row \in rows
    <3>1. \/ at[row.entry] = Cut
          \/ \E i \in 1..h : s[i] = row.entry
      BY <1>3, <2>2 DEF LoggerInv, TableFollowsPipe, h, s
    <3> QED
      BY <1>3, <1>4, <1>7, <3>1 DEF s
  <2> QED
    BY <1>8, <2>1, <2>2
<1>10. \A r, t \in rows' : r.entry = t.entry => r = t
  BY <1>4, <1>5, <1>8 DEF LoggerInv, TableFollowsPipe
<1>11. \A i \in 1..(h + 1) : s[i] \in gone' \cup Stored'
  <2>1. Head(pipe) \in gone' \cup Stored'
    BY <1>1, <1>5 DEF Stored
  <2>2. \A i \in 1..h : s[i] \in gone \cup Stored
    BY <1>3 DEF LoggerInv, TableFollowsPipe, h, s
  <2>3. gone \cup Stored \subseteq gone' \cup Stored'
    BY <1>8 DEF Stored
  <2> QED
    BY <1>4, <1>6, <2>1, <2>2, <2>3
<1>12. ASSUME NEW r \in rows', NEW t \in rows', NEW i \in 1..(h + 1), NEW j \in 1..(h + 1),
              i < j, r.entry = s[i], t.entry = s[j]
       PROVE  r.timestamp <= t.timestamp
  <2>1. i \in 1..h
    BY <1>4, <1>12
  <2>2. r \in rows
    BY <1>4, <1>5, <1>8, <1>12, <2>1
  <2>3. CASE j \in 1..h
    <3>1. t \in rows
      BY <1>4, <1>5, <1>8, <1>12, <2>3
    <3> QED
      BY <1>3, <1>12, <2>1, <2>2, <2>3, <3>1 DEF LoggerInv, TableFollowsPipe, h, s
  <2>4. CASE j = h + 1
    <3>1. t = x
      BY <1>4, <1>8, <1>12, <2>4
    <3> QED
      BY <1>5, <2>2, <3>1, StoreTypes DEF LoggerInv
  <2> QED
    BY <1>6, <2>3, <2>4
<1>13. TableFollowsPipe'
  <2>1. ASSUME NEW j \in SinkIds, IsSqlite(j)
        PROVE  /\ \A i \in 1..Handled(j)' : accepted[j][i] \in gone' \cup Stored'
               /\ \A r, t \in rows' : \A i, m \in 1..Handled(j)' :
                     i < m /\ r.entry = accepted[j][i] /\ t.entry = accepted[j][m]
                         => r.timestamp <= t.timestamp
    <3>1. j = k
      BY <1>3, <2>1
    <3> QED
      BY <1>4, <1>11, <1>12, <3>1 DEF s
  <2> QED
    BY <1>2, <1>9, <1>10, <2>1 DEF TableFollowsPipe
<1>14. \A j \in SinkIds : IsSqlite(j) =>
          /\ Len(pipe') <= Delivered(j)
          /\ pipe' = SubSeq(accepted[j], Handled(j)' + 1, Delivered(j))
  BY <1>3, <1>4 DEF s
<1> QED
  BY <1>13, <1>14, StoreAloneKeeps

LEMMA StoreMoves ==
    ASSUME LoggerAssumption, LoggerInv, StoreStep \/ Clock
    PROVE  LoggerInv'
<1>1. /\ StoreAlone
      /\ (haveWriter /\ WriterStep) \/ GetStats \/ Select \/ Tick
  BY DEF StoreStep, Clock, StoreAlone
<1>2. StoreInv'
  BY <1>1, TableStep, GetStatsStep, SelectStep DEF LoggerInv
<1>3. CASE haveWriter /\ (Insert \/ InsertFails)
  BY <1>1, <1>2, <1>3, InsertStep
<1>4. CASE NoCleanup \/ PruneFails \/ GetStats \/ Select \/ Tick
  <2>1. rows' = rows /\ pipe' = pipe /\ gone' = gone
    BY <1>4 DEF NoCleanup, PruneFails, CleanUp, GetStats, Select, Tick, store
  <2> QED
    BY <1>1, <1>2, <2>1, RowsLeave
<1>5. CASE Prune
  <2>1. /\ rows' \subseteq rows /\ pipe' = pipe /\ gone \subseteq gone'
        /\ \A row \in rows \ rows' : row.entry \in gone'
    BY <1>5 DEF Prune, CleanUp
  <2> QED
    BY <1>1, <1>2, <2>1, RowsLeave
<1> QED
  BY <1>1, <1>3, <1>4, <1>5 DEF WriterStep

\* The state in which the process starts, for the first time or again.
Started ==
    /\ config \in Configs /\ opened \in BOOLEAN /\ haveWriter \in BOOLEAN /\ WiringOK
    /\ sinks \in Built
    /\ at \in [Entries -> {1, Cut}]
    /\ queue = Empty /\ accepted = Empty /\ ring = <<>> /\ printed = {} /\ pipe = <<>>
    /\ restarts \in 0..MaxRestarts
    /\ \A row \in rows : at[row.entry] = Cut
    /\ \A r, s \in rows : r.entry = s.entry => r = s

LEMMA StartedInv == Started /\ StoreInv => LoggerInv
<1> SUFFICES ASSUME Started, StoreInv PROVE LoggerInv
  OBVIOUS
<1>1. SinksWired /\ RingCap \in Nat \ {0} /\ ChannelCap \in Nat \ {0}
  BY SinksBuilt, LoggerAssumption DEF Started, LoggerAssumption
<1>2. Len(sinks) \in Nat /\ SinkIds = 1..Len(sinks)
  BY <1>1 DEF SinksWired, SinkIds
<1>3. /\ queue \in [SinkIds -> Seq(Entries)] /\ accepted \in [SinkIds -> Seq(Entries)]
      /\ \A k \in SinkIds : queue[k] = <<>> /\ accepted[k] = <<>>
  BY DEF Started, Empty
<1>4. TypeOK
  <2>1. at \in [Entries -> 0..(Len(sinks) + 1)]
    <3>1. {1, Cut} \subseteq 0..(Len(sinks) + 1)
      BY <1>2 DEF Cut
    <3> QED
      BY <3>1 DEF Started
  <2>2. \A k \in SinkIds : Len(queue[k]) <= ChannelCap
    BY <1>1, <1>3
  <2>3. ring \in Seq(Entries) /\ Len(ring) <= RingCap
    BY <1>1 DEF Started
  <2> QED
    BY <1>3, <2>1, <2>2, <2>3 DEF Started, TypeOK
<1>5. \A e \in Entries, k \in SinkIds : ~(at[e] > k)
  BY <1>2 DEF Started, Cut
<1>6. SinkGaps
  BY <1>5 DEF SinkGaps
<1>7. SentOnce
  BY <1>3 DEF SentOnce
<1>8. \A k \in SinkIds : Delivered(k) = 0 /\ Handled(k) = 0
  <2>1. Len(<<>>) = 0 /\ 0 - 0 = 0 /\ pipe = <<>>
    BY DEF Started
  <2>2. \A k \in SinkIds : Delivered(k) = 0
    BY <1>3, <2>1 DEF Delivered
  <2> QED
    BY <2>1, <2>2 DEF Handled
<1>9. InOrder
  <2>1. Newest(SubSeq(<<>>, 1, 0)) = <<>>
    <3>1. SubSeq(<<>>, 1, 0) = <<>>
      OBVIOUS
    <3>2. Larger(1, 0 - RingCap + 1) = 1
      BY <1>1 DEF Larger
    <3> QED
      BY <3>1, <3>2 DEF Newest
  <2>2. SubSeq(<<>>, 0 + 1, 0) = <<>> /\ Len(<<>>) = 0
    OBVIOUS
  <2> QED
    BY <1>3, <1>8, <2>1, <2>2 DEF InOrder, Started
<1>10. Printed
  BY <1>3, <1>8 DEF Printed, Started
<1>11. TableFollowsPipe
  BY <1>8 DEF Started, TableFollowsPipe
<1> QED
  BY <1>4, <1>6, <1>7, <1>9, <1>10, <1>11 DEF LoggerInv, Started

LEMMA RestartMoves ==
    ASSUME LoggerAssumption, LoggerInv, Restart
    PROVE  LoggerInv'
<1>1. StoreInv'
  BY RestartStep DEF Restart, LoggerInv
<1>2. /\ Len(sinks) \in Nat /\ SinkIds = 1..Len(sinks)
      /\ at \in [Entries -> 0..(Len(sinks) + 1)]
      /\ \A k \in SinkIds : /\ Delivered(k) \in 0..Len(accepted[k])
                            /\ accepted[k] \in Seq(Entries) /\ Len(accepted[k]) \in Nat
                            /\ IsSqlite(k) => Handled(k) \in 0..Delivered(k)
  BY LoggerTypes
<1>3. /\ rows' = rows /\ pipe' = <<>>
      /\ at' = [e \in Entries |-> IF at[e] = 1 THEN 1 ELSE Cut]
  BY DEF Restart, StoreRestart, Reopened
<1>4. \A row \in rows : at'[row.entry] = Cut
  <2> SUFFICES ASSUME NEW row \in rows
               PROVE  at'[row.entry] = Cut
    OBVIOUS
  <2>1. row.entry \in Entries
    BY StoreTypes DEF LoggerInv
  <2>2. CASE at[row.entry] = Cut
    BY <1>3, <2>1, <2>2 DEF Cut
  <2>3. CASE \E k \in SinkIds : /\ IsSqlite(k)
                                /\ \E i \in 1..Handled(k) : accepted[k][i] = row.entry
    <3>1. PICK k \in SinkIds : /\ IsSqlite(k)
                               /\ \E i \in 1..Handled(k) : accepted[k][i] = row.entry
      BY <2>3
    <3>2. PICK i \in 1..Handled(k) : accepted[k][i] = row.entry
      BY <3>1
    <3>3. i \in DOMAIN accepted[k] /\ k \in Nat /\ k >= 1
      BY <1>2, <3>1
    <3>4. at[row.entry] > k
      BY <3>2, <3>3 DEF LoggerInv, SentOnce
    <3>5. at[row.entry] # 1
      BY <3>3, <3>4
    <3> QED
      BY <1>3, <2>1, <3>5
  <2> QED
    BY <2>2, <2>3 DEF LoggerInv, TableFollowsPipe
<1>5. config' \in Configs /\ sinks' \in Built' /\ WiringOK' /\ opened' \in BOOLEAN
      /\ haveWriter' \in BOOLEAN
  <2>1. config' = config /\ Wired
    BY DEF Restart
  <2>2. opened' \in BOOLEAN /\ (opened' => "sqlite" \in Range(config'))
    BY <2>1 DEF Wired
  <2>3. haveWriter' \in BOOLEAN /\ (haveWriter' => opened')
    BY <2>1 DEF Wired
  <2> QED
    BY <2>1, <2>2, <2>3 DEF LoggerInv, TypeOK, Wired, WiringOK
<1>6. restarts' \in 0..MaxRestarts
  <2>1. /\ restarts \in 0..MaxRestarts /\ restarts < MaxRestarts /\ restarts' = restarts + 1
        /\ MaxRestarts \in Nat
    BY DEF Restart, LoggerInv, TypeOK, LoggerAssumption
  <2> QED
    BY <2>1
<1>7. Started'
  <2>1. \A r, s \in rows : r.entry = s.entry => r = s
    BY DEF LoggerInv, TableFollowsPipe
  <2>2. queue' = Empty' /\ accepted' = Empty' /\ ring' = <<>> /\ printed' = {}
    BY DEF Restart
  <2>3. at' \in [Entries -> {1, Cut}]
    BY <1>3
  <2>4. Cut' = Cut
    BY DEF Cut
  <2> QED
    BY <1>3, <1>4, <1>5, <1>6, <2>1, <2>2, <2>3, <2>4 DEF Started
<1> QED
  BY <1>1, <1>7, StartedInv, PTL

LEMMA LoggerInvInit ==
    ASSUME LoggerAssumption, Init
    PROVE  LoggerInv
<1>1. StoreInv
  BY StoreInitInv DEF Init
<1>2. Started
  <2>1. WiringOK /\ opened \in BOOLEAN /\ haveWriter \in BOOLEAN
    <3>1. opened \in BOOLEAN /\ (opened => "sqlite" \in Range(config))
      BY DEF Init
    <3>2. haveWriter \in BOOLEAN /\ (haveWriter => opened)
      BY DEF Init
    <3> QED
      BY <3>1, <3>2 DEF WiringOK
  <2>2. at \in [Entries -> {1, Cut}]
    BY DEF Init
  <2>3. rows = {} /\ pipe = <<>> /\ restarts \in 0..MaxRestarts
    BY DEF Init, StoreInit, LoggerAssumption
  <2> QED
    BY <2>1, <2>2, <2>3 DEF Init, Started
<1> QED
  BY <1>1, <1>2, StartedInv

LEMMA LoggerInvStep ==
    ASSUME LoggerAssumption, LoggerInv, [Next]_vars
    PROVE  LoggerInv'
<1>1. CASE \E e \in Entries : TrySend(e)
  BY <1>1, TrySendStep
<1>2. CASE \E k \in SinkIds : Deliver(k)
  BY <1>2, DeliverStep
<1>3. CASE StoreStep \/ Clock
  BY <1>3, StoreMoves
<1>4. CASE Restart
  BY <1>4, RestartMoves
<1>5. CASE UNCHANGED vars
  <2>1. StoreAlone /\ UNCHANGED storeVars
    BY <1>5 DEF vars, StoreAlone
  <2>2. /\ pipe' = pipe /\ rows' = rows /\ gone' = gone
        /\ UNCHANGED <<now, rows, writer, lastCleanup, booted, gone, pruneFailed,
                       reading, inserted>>
    BY <2>1 DEF storeVars, store
  <2>3. pipe' \in Seq(Entries)
    BY <2>2 DEF LoggerInv, StoreInv, StoreTypeOK
  <2>4. StoreInv'
    BY <2>2, <2>3, PipeStep DEF LoggerInv
  <2> QED
    BY <2>1, <2>2, <2>4, RowsLeave
<1> QED
  BY <1>1, <1>2, <1>3, <1>4, <1>5 DEF Next, Idle

\* Every step keeps what the sinks, the thread and get_stats say of the log:
\* each channel takes an entry once and in turn, gaps come of full channels
\* only, and buffer, pipe, console and table follow their channels.
THEOREM LoggerInvariant == Spec => []LoggerInv
<1>1. Init => LoggerInv
  BY LoggerAssumption, LoggerInvInit
<1>2. LoggerInv /\ [Next]_vars => LoggerInv'
  BY LoggerAssumption, LoggerInvStep
<1> QED
  BY <1>1, <1>2, PTL DEF Spec

\* The figures of one get_stats, read one statement after the other while the
\* thread inserts and prunes, never show more than inserts of the meantime
\* explain.
THEOREM StatsWithinInserts == Spec => []FiguresBounded
<1>1. LoggerInv => FiguresBounded
  BY DEF LoggerInv, StoreInv
<1> QED
  BY <1>1, LoggerInvariant, PTL

\* A row leaves the table by a cleanup, for its age.
THEOREM OnlyOldRowsLeave == Spec => RowsLeaveByAge
<1>1. [Next]_vars => [\A row \in rows : row \in rows' \/ row.timestamp < now - Retention]_rows
  <2> SUFFICES ASSUME [Next]_vars
               PROVE  \A row \in rows : row \in rows' \/ row.timestamp < now - Retention
    OBVIOUS
  <2>1. rows \subseteq rows' \/ Prune
    BY DEF Next, TrySend, Deliver, StoreStep, WriterStep, Insert, InsertFails, NoCleanup,
           PruneFails, CleanUp, GetStats, Select, Clock, Tick, Restart, StoreRestart, Reopened,
           Idle, vars, storeVars, store
  <2>2. Prune => \A row \in rows : row \in rows' \/ row.timestamp < now - Retention
    BY DEF Prune, Expired
  <2> QED
    BY <2>1, <2>2
<1> QED
  BY <1>1, PTL DEF Spec, RowsLeaveByAge

LEMMA CleanupLeaves ==
    ASSUME LoggerInv, [Next]_vars, writer = "cleanup", writer' = "recv", ~pruneFailed',
           now - booted' > CleanupEvery
    PROVE  \A row \in rows' : row.timestamp >= now - Retention - CleanupEvery
<1>1. /\ now \in Nat /\ lastCleanup \in 0..now /\ booted \in 0..now
      /\ Retention \in Nat /\ CleanupEvery \in Nat
      /\ \A row \in rows : row.timestamp \in Nat
  BY LoggerAssumption, StoreTypes DEF LoggerInv
<1>2. NoCleanup \/ Prune \/ PruneFails \/ Restart
  BY DEF Next, TrySend, Deliver, StoreStep, WriterStep, Insert, InsertFails,
         GetStats, Select, Clock, Tick, Idle, vars, storeVars, store
<1>3. CASE NoCleanup
  <2>1. /\ rows' = rows /\ pruneFailed' = pruneFailed /\ booted' = booted
        /\ ~(now - lastCleanup > CleanupEvery)
    BY <1>3 DEF NoCleanup, CleanUp, CleanupDue
  <2>2. lastCleanup # booted
    BY <1>1, <2>1
  <2>3. \A row \in rows : row.timestamp >= lastCleanup - Retention
    BY <2>1, <2>2 DEF LoggerInv, StoreInv, PrunedSinceCleanup
  <2> QED
    BY <1>1, <2>1, <2>3
<1>4. CASE Prune
  <2>1. \A row \in rows' : row \in rows /\ ~(row.timestamp < now - Retention)
    BY <1>4 DEF Prune, Expired
  <2> QED
    BY <1>1, <2>1
<1>5. CASE PruneFails
  BY <1>5 DEF PruneFails
<1>6. CASE Restart
  <2>1. booted' = now
    BY <1>6 DEF Restart, StoreRestart
  <2> QED
    BY <1>1, <2>1
<1> QED
  BY <1>2, <1>3, <1>4, <1>5, <1>6

\* A process whose cleanups succeed keeps the table within the retention and
\* one cleanup interval, from its first cleanup on.
THEOREM RetentionHolds == Spec => RetentionKept
<1>1. LoggerInv /\ [Next]_vars =>
         [writer = "cleanup" /\ writer' = "recv" /\ ~pruneFailed' /\ now - booted' > CleanupEvery
            => \A row \in rows' : row.timestamp >= now - Retention - CleanupEvery]_storeVars
  BY CleanupLeaves
<1> QED
  BY <1>1, LoggerInvariant, PTL DEF Spec, RetentionKept

LEMMA SourceFollows ==
    ASSUME LoggerInv
    PROVE  ApiServesLog
<1> SUFFICES ASSUME ~Pending
             PROVE  /\ \/ Source = "sqlite" /\ ~haveWriter
                       \/ \E k \in SinkIds :
                             /\ sinks[k] = Source
                             /\ Source = "memory" => ring = Newest(accepted[k])
                             /\ Source = "sqlite" => Range(accepted[k]) \subseteq gone \cup Stored
                    /\ printed = {e \in UNION {Range(accepted[k]) : k \in {i \in SinkIds :
                                         sinks[i] = "console"}} : ShouldLog(e)}
  BY DEF ApiServesLog
<1>1. /\ SinksWired
      /\ \A k \in SinkIds : accepted[k] \in Seq(Entries) /\ Len(accepted[k]) \in Nat
  BY LoggerAssumption, LoggerTypes
<1>2. pipe = <<>> /\ \A k \in SinkIds : queue[k] = <<>>
  BY DEF Pending
<1>3. \A k \in SinkIds : Delivered(k) = Len(accepted[k]) /\ Handled(k) = Len(accepted[k])
  <2> SUFFICES ASSUME NEW k \in SinkIds
               PROVE  Delivered(k) = Len(accepted[k]) /\ Handled(k) = Len(accepted[k])
    OBVIOUS
  <2> DEFINE n == Len(accepted[k])
  <2>1. n \in Nat /\ Len(queue[k]) = 0 /\ Len(pipe) = 0
    BY <1>1, <1>2
  <2>2. Delivered(k) = n - 0
    BY <2>1 DEF Delivered
  <2> HIDE DEF n
  <2>3. Delivered(k) = n
    BY <2>1, <2>2
  <2>4. Handled(k) = n
    BY <2>1, <2>3 DEF Handled
  <2> QED
    BY <2>3, <2>4 DEF n
<1>4. \A k \in SinkIds : Range(accepted[k]) = {accepted[k][i] : i \in 1..Delivered(k)}
  BY <1>1, <1>3 DEF Range
<1>5. printed = {e \in UNION {Range(accepted[k]) : k \in {i \in SinkIds :
                         sinks[i] = "console"}} : ShouldLog(e)}
  <2> DEFINE Consoles == {i \in SinkIds : sinks[i] = "console"}
             All(k) == Range(accepted[k])
             Out(k) == {accepted[k][i] : i \in 1..Delivered(k)}
  <2>1. \A k \in Consoles : All(k) = Out(k)
    BY <1>4
  <2>2. printed = {e \in UNION {Out(k) : k \in Consoles} : ShouldLog(e)}
    BY DEF LoggerInv, Printed
  <2>3. printed = {e \in UNION {All(k) : k \in Consoles} : ShouldLog(e)}
    <3> HIDE DEF Consoles, All, Out
    <3> QED
      BY <2>1, <2>2
  <2> QED
    BY <2>3
<1>6. CASE ~opened
  <2>1. PICK k \in SinkIds : sinks[k] = "memory"
    BY <1>1, <1>6 DEF SinksWired
  <2>2. ring = Newest(SubSeq(accepted[k], 1, Len(accepted[k])))
    BY <1>3, <2>1 DEF LoggerInv, InOrder
  <2>3. SubSeq(accepted[k], 1, Len(accepted[k])) = accepted[k]
    BY <1>1
  <2> QED
    BY <1>5, <1>6, <2>1, <2>2, <2>3 DEF Source
<1>7. CASE opened /\ haveWriter
  <2>1. PICK k \in SinkIds : sinks[k] = "sqlite"
    BY <1>1, <1>7 DEF SinksWired
  <2>2. \A i \in 1..Len(accepted[k]) : accepted[k][i] \in gone \cup Stored
    BY <1>3, <2>1 DEF LoggerInv, TableFollowsPipe, IsSqlite
  <2>3. Range(accepted[k]) \subseteq gone \cup Stored
    BY <1>1, <2>2 DEF Range
  <2> QED
    BY <1>5, <1>7, <2>1, <2>3 DEF Source
<1> QED
  BY <1>5, <1>6, <1>7 DEF Source

\* Whatever came of opening the database, the API's source ends up with what
\* its sink was given, and the console with what its switches let through.
THEOREM SourceServesLog == Spec => []ApiServesLog
<1>1. LoggerInv => ApiServesLog
  BY SourceFollows
<1> QED
  BY <1>1, LoggerInvariant, PTL
-----------------------------------------------------------------------------
(* What the API lists.                                                     *)

\* The memory source lists what came out of the channel, from the end.
LEMMA RecentIs ==
    ASSUME RingCap \in Nat \ {0}, Limit \in Nat, NEW S, NEW s \in Seq(S),
           NEW d \in 0..Len(s), ring = Newest(SubSeq(s, 1, d)), NEW list \in Recent
    PROVE  /\ \E n \in Nat : /\ DOMAIN list = 1..n
                             /\ \A i \in 1..n : i <= d /\ list[i] = s[d - i + 1]
           /\ \A e \in Range(ring) : \E m \in 1..d : e = s[m]
<1> DEFINE a == Larger(1, d - RingCap + 1)
           l == d - a + 1
<1>1. a \in 1..(d + 1) /\ ring = SubSeq(s, a, d)
  BY NewestIs
<1> HIDE DEF a
<1>2. l \in 0..d
  BY <1>1
<1>3. /\ ring \in Seq(S) /\ Len(ring) = l /\ DOMAIN ring = 1..l
      /\ \A m \in 1..l : ring[m] = s[a + m - 1]
  <2> DEFINE h == a - 1
  <2>1. h \in 0..d /\ a = h + 1 /\ d - h = l
    BY <1>1
  <2> HIDE DEF h, l
  <2>2. /\ SubSeq(s, h + 1, d) \in Seq(S) /\ Len(SubSeq(s, h + 1, d)) = d - h
        /\ \A m \in 1..(d - h) : SubSeq(s, h + 1, d)[m] = s[h + m]
    BY <2>1, WindowLength
  <2>3. ring = SubSeq(s, h + 1, d)
    BY <1>1, <2>1
  <2>4. \A m \in 1..l : h + m = a + m - 1
    BY <1>1, <1>2, <2>1
  <2>5. ring \in Seq(S) /\ Len(ring) = l
    BY <2>1, <2>2, <2>3
  <2>6. DOMAIN ring = 1..l
    BY <2>5
  <2>7. \A m \in 1..l : ring[m] = s[h + m]
    BY <2>1, <2>2, <2>3
  <2> QED
    BY <2>4, <2>5, <2>6, <2>7
<1>4. \A m \in 1..l : a + m - 1 \in 1..d
  BY <1>1
<1>5. \A e \in Range(ring) : \E m \in 1..d : e = s[m]
  BY <1>3, <1>4 DEF Range
<1> DEFINE r == [i \in 1..l |-> ring[(l - i) + 1]]
           n == Smaller(Limit, l)
<1>6. list = SubSeq(r, 1, n)
  BY <1>3 DEF Recent, Reverse
<1>7. n \in 0..l
  BY <1>2 DEF Smaller
<1>8. \A i \in 1..l : (l - i) + 1 \in 1..l /\ a + ((l - i) + 1) - 1 = d - i + 1 /\ i <= d
  BY <1>1, <1>2
<1>9. r \in Seq(S) /\ Len(r) = l /\ \A i \in 1..l : r[i] = s[d - i + 1]
  <2>1. \A i \in 1..l : ring[(l - i) + 1] = s[d - i + 1]
    BY <1>3, <1>8
  <2>2. \A i \in 1..l : ring[(l - i) + 1] \in S
    BY <1>3, <1>8
  <2> HIDE DEF l
  <2> QED
    BY <1>2, <2>1, <2>2
<1> HIDE DEF r, n, l
<1>10. DOMAIN list = 1..n /\ \A i \in 1..n : list[i] = r[i]
  BY <1>2, <1>6, <1>7, <1>9
<1>11. \A i \in 1..n : i \in 1..l
  BY <1>2, <1>7
<1>12. n \in Nat /\ \A i \in 1..n : i <= d /\ list[i] = s[d - i + 1]
  <2>1. n \in Nat
    BY <1>2, <1>7
  <2>2. \A i \in 1..n : i <= d
    BY <1>8, <1>11
  <2>3. \A i \in 1..n : list[i] = s[d - i + 1]
    BY <1>9, <1>10, <1>11
  <2> QED
    BY <2>1, <2>2, <2>3
<1> QED
  BY <1>5, <1>10, <1>12

\* The database lists different rows, all of them when none is kept back, and
\* each that is newer than one it lists before that.
LEMMA SelectedIs ==
    ASSUME LoggerInv, NEW list \in Selected
    PROVE  \E t \in [DOMAIN list -> rows] :
              /\ \A i \in DOMAIN list : i \in Nat \ {0} /\ list[i] = t[i].entry
              /\ \A i \in DOMAIN list, row \in rows :
                    row.timestamp > t[i].timestamp => \E j \in 1..(i - 1) :
                                                         j \in DOMAIN list /\ t[j] = row
<1>1. PICK t \in {u \in UNION {SetToSeqs(ids) : ids \in Latests} : NewerFirst(u)} :
         list = [i \in DOMAIN t |-> t[i].entry]
  BY DEF Selected
<1>2. PICK ids \in Latests : t \in SetToSeqs(ids)
  BY <1>1
<1>3. ids \subseteq rows /\ \A r \in ids, s \in rows \ ids : r.timestamp >= s.timestamp
  BY <1>2 DEF Latests, kSubset
<1>4. /\ t \in [1..Cardinality(ids) -> ids]
      /\ \A i, j \in 1..Cardinality(ids) : i # j => t[i] # t[j]
  BY <1>2 DEF SetToSeqs
<1>5. IsFiniteSet(ids) /\ Cardinality(ids) \in Nat
  BY <1>3, FS_Subset, FS_CardinalityType DEF LoggerInv, StoreInv
<1> DEFINE n == Cardinality(ids)
<1>6. \A row \in ids : \E j \in 1..n : t[j] = row
  <2>1. t \in Injection(1..n, ids)
    BY <1>4 DEF Injection, IsInjective
  <2>2. Cardinality(1..n) = n
    <3>1. 1 \in Int /\ n \in Int
      BY <1>5
    <3>2. Cardinality(1..n) = IF 1 > n THEN 0 ELSE n - 1 + 1
      BY <3>1, FS_Interval
    <3> HIDE DEF n
    <3> QED
      BY <1>5, <3>2 DEF n
  <2>3. t \in Surjection(1..n, ids)
    BY <1>5, <2>1, <2>2, FS_Injection
  <2> QED
    BY <2>3 DEF Surjection
<1>7. DOMAIN list = 1..n /\ DOMAIN t = 1..n /\ \A i \in 1..n : list[i] = t[i].entry
  BY <1>1, <1>4
<1>8. \A i, j \in 1..n : i < j => t[i].timestamp >= t[j].timestamp
  BY <1>1, <1>7 DEF NewerFirst
<1> HIDE DEF n
<1>9. ASSUME NEW i \in 1..n, NEW row \in rows, row.timestamp > t[i].timestamp
      PROVE  \E j \in 1..(i - 1) : j \in 1..n /\ t[j] = row
  <2>1. t[i] \in ids /\ t[i] \in rows
    BY <1>3, <1>4 DEF n
  <2>2. t[i].timestamp \in Nat /\ row.timestamp \in Nat
    BY <2>1, LoggerAssumption, StoreTypes DEF LoggerInv
  <2>3. row \in ids
    BY <1>3, <1>9, <2>1, <2>2
  <2>4. PICK j \in 1..n : t[j] = row
    BY <1>6, <2>3
  <2>5. ~(i < j) /\ i # j
    BY <1>8, <1>9, <2>2, <2>4
  <2> QED
    BY <1>5, <2>4, <2>5 DEF n
<1>10. t \in [1..n -> rows]
  BY <1>3, <1>4 DEF n
<1>11. \A i \in 1..n : i \in Nat \ {0}
  BY <1>5 DEF n
<1>12. /\ t \in [DOMAIN list -> rows]
       /\ \A i \in DOMAIN list : i \in Nat \ {0} /\ list[i] = t[i].entry
       /\ \A i \in DOMAIN list, row \in rows :
             row.timestamp > t[i].timestamp => \E j \in 1..(i - 1) :
                                                  j \in DOMAIN list /\ t[j] = row
  BY <1>7, <1>9, <1>10, <1>11
<1> QED
  BY <1>12

LEMMA ListsNewestFirst ==
    ASSUME LoggerInv
    PROVE  NewestFirst
<1> SUFFICES ASSUME NEW k \in SinkIds, sinks[k] = Source, NEW list \in GetLogs,
                    NEW a \in DOMAIN accepted[k], NEW b \in DOMAIN accepted[k],
                    NEW i \in DOMAIN list, a < b, list[i] = accepted[k][a],
                    accepted[k][b] \in Held
             PROVE  \/ \E j \in 1..(i - 1) : list[j] = accepted[k][b]
                    \/ Source = "sqlite" /\ Seconds(accepted[k][a]) = Seconds(accepted[k][b])
  BY DEF NewestFirst
<1> DEFINE s == accepted[k]
<1>1. /\ s \in Seq(Entries) /\ Len(s) \in Nat /\ DOMAIN s = 1..Len(s)
      /\ Delivered(k) \in 0..Len(s) /\ k \in Nat /\ k >= 1
      /\ IsSqlite(k) => Handled(k) \in 0..Delivered(k)
      /\ RingCap \in Nat \ {0} /\ Limit \in Nat /\ SinksWired
  BY LoggerAssumption, LoggerTypes DEF LoggerAssumption
<1>2. \A x, y \in 1..Len(s) : s[x] = s[y] => x = y
  BY <1>1 DEF LoggerInv, SentOnce
<1>3. a \in 1..Len(s) /\ b \in 1..Len(s)
  BY <1>1
<1>4. CASE Source = "memory"
  <2> DEFINE d == Delivered(k)
  <2>1. /\ ring = Newest(SubSeq(s, 1, d)) /\ list \in Recent
        /\ s[b] \in Range(ring)
    BY <1>4 DEF LoggerInv, InOrder, GetLogs, Held
  <2>10. s \in Seq(Entries) /\ d \in 0..Len(s) /\ RingCap \in Nat \ {0} /\ Limit \in Nat
    BY <1>1
  <2> HIDE DEF s, d
  <2>2. /\ \E n \in Nat : /\ DOMAIN list = 1..n
                          /\ \A x \in 1..n : x <= d /\ list[x] = s[d - x + 1]
        /\ \E m \in 1..d : s[b] = s[m]
    <3>1. /\ \E n \in Nat : /\ DOMAIN list = 1..n
                            /\ \A x \in 1..n : x <= d /\ list[x] = s[d - x + 1]
          /\ \A e \in Range(ring) : \E m \in 1..d : e = s[m]
      BY <2>1, <2>10, RecentIs
    <3> QED
      BY <2>1, <3>1
  <2>3. PICK n \in Nat : /\ DOMAIN list = 1..n
                         /\ \A x \in 1..n : x <= d /\ list[x] = s[d - x + 1]
    BY <2>2
  <2>4. i \in 1..n /\ i <= d /\ list[i] = s[d - i + 1] /\ d \in 0..Len(s)
    BY <1>1, <2>3 DEF d
  <2>5. d - i + 1 \in 1..Len(s) /\ a = d - i + 1
    <3>1. d - i + 1 \in 1..Len(s)
      BY <1>1, <2>4
    <3> QED
      BY <1>2, <1>3, <2>4, <3>1 DEF s
  <2>6. b \in 1..d
    <3>1. \A m \in 1..d : m \in 1..Len(s)
      BY <1>1, <2>4
    <3> QED
      BY <1>2, <1>3, <2>2, <3>1
  <2> DEFINE j == d - b + 1
  <2>7. j \in 1..(i - 1) /\ j \in 1..n /\ d - j + 1 = b
    BY <1>1, <1>3, <2>4, <2>5, <2>6
  <2> HIDE DEF j
  <2> QED
    BY <2>3, <2>7 DEF s
<1>5. CASE Source = "sqlite"
  <2>1. list \in Selected /\ s[b] \in Stored /\ IsSqlite(k)
    BY <1>5 DEF GetLogs, IsSqlite, Held
  <2>2. PICK t \in [DOMAIN list -> rows] :
           /\ \A x \in DOMAIN list : x \in Nat \ {0} /\ list[x] = t[x].entry
           /\ \A x \in DOMAIN list, row \in rows :
                 row.timestamp > t[x].timestamp => \E j \in 1..(x - 1) :
                                                      j \in DOMAIN list /\ t[j] = row
    BY <2>1, SelectedIs
  <2> DEFINE r == t[i]
  <2>3. r \in rows /\ r.entry = s[a]
    BY <2>2
  <2>4. PICK q \in rows : q.entry = s[b]
    BY <2>1 DEF Stored
  <2>5. \A x \in 1..Len(s), row \in rows : row.entry = s[x] => x \in 1..Handled(k)
    <3> SUFFICES ASSUME NEW x \in 1..Len(s), NEW row \in rows, row.entry = s[x]
                 PROVE  x \in 1..Handled(k)
      OBVIOUS
    <3>1. at[s[x]] > k
      BY <1>1 DEF LoggerInv, SentOnce
    <3>2. at[row.entry] # Cut
      BY <1>1, <3>1 DEF Cut
    <3>3. PICK m \in SinkIds : IsSqlite(m) /\ \E y \in 1..Handled(m) : accepted[m][y] = row.entry
      BY <3>2 DEF LoggerInv, TableFollowsPipe
    <3>4. m = k
      BY <1>1, <2>1, <3>3 DEF SinksWired, IsSqlite
    <3>5. PICK y \in 1..Handled(k) : s[y] = s[x]
      BY <3>3, <3>4
    <3>6. y \in 1..Len(s)
      BY <1>1, <2>1
    <3> QED
      BY <1>2, <3>5, <3>6
  <2>6. r.timestamp <= q.timestamp
    <3>1. a \in 1..Handled(k) /\ b \in 1..Handled(k)
      BY <1>3, <2>3, <2>4, <2>5
    <3> QED
      BY <2>1, <2>3, <2>4, <3>1 DEF LoggerInv, TableFollowsPipe
  <2>7. r.timestamp \in Nat /\ q.timestamp \in Nat
    BY <2>3, <2>4, LoggerAssumption, StoreTypes DEF LoggerInv
  <2>8. CASE q.timestamp > r.timestamp
    <3>1. PICK j \in 1..(i - 1) : j \in DOMAIN list /\ t[j] = q
      BY <2>2, <2>4, <2>8
    <3> QED
      BY <2>2, <2>4, <3>1
  <2>9. CASE q.timestamp = r.timestamp
    <3>1. \A x, y \in rows : x.entry = y.entry => x = y
      BY DEF LoggerInv, TableFollowsPipe
    <3>2. {x \in rows : x.entry = s[a]} = {r} /\ {x \in rows : x.entry = s[b]} = {q}
      BY <2>3, <2>4, <3>1
    <3>3. Seconds(s[a]) = {r.timestamp} /\ Seconds(s[b]) = {q.timestamp}
      BY <3>2 DEF Seconds
    <3> QED
      BY <1>5, <2>9, <3>3
  <2>10. \A x, y \in Nat : x <= y => y > x \/ y = x
    OBVIOUS
  <2> QED
    BY <2>6, <2>7, <2>8, <2>9, <2>10
<1> QED
  BY <1>4, <1>5 DEF Source

\* The API never lists an entry of its sink without the newer ones before it,
\* except entries of the same second.
THEOREM ApiListsNewestFirst == Spec => []NewestFirst
<1>1. LoggerInv => NewestFirst
  BY ListsNewestFirst
<1> QED
  BY <1>1, LoggerInvariant, PTL
=============================================================================
