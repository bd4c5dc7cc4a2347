-------------------------- MODULE RetrievalProofs --------------------------
(***************************************************************************)
(* Proofs about Retrieval, for any number of channels, reports, chunks,    *)
(* results and commits.                                                    *)
(***************************************************************************)
EXTENDS Retrieval, FiniteSetTheorems, FunctionTheorems, SequenceTheorems, TLAPS

-----------------------------------------------------------------------------
(* The operators of the model.                                             *)

(* A finite set written as a sequence lists all of its members, once.      *)
LEMMA Listing ==
  ASSUME NEW S, IsFiniteSet(S), NEW s \in SetToSeqs(S)
  PROVE  /\ s \in Seq(S)
         /\ Len(s) = Cardinality(S)
         /\ \A i, j \in DOMAIN s : s[i] = s[j] => i = j
         /\ \A x \in S : \E i \in DOMAIN s : s[i] = x
<1> DEFINE D == 1 .. Cardinality(S)
<1>1. Cardinality(S) \in Nat
  BY FS_CardinalityType
<1>2. s \in [D -> S] /\ \A i, j \in D : i # j => s[i] # s[j]
  BY DEF SetToSeqs
<1>3. s \in Seq(S) /\ Len(s) = Cardinality(S) /\ DOMAIN s = D
  BY <1>1, <1>2
<1>4. IsFiniteSet(D) /\ Cardinality(D) = Cardinality(S)
  BY <1>1, FS_Interval
<1>5. s \in Injection(D, S)
  BY <1>2 DEF Injection, IsInjective
<1>6. s \in Surjection(D, S)
  BY <1>4, <1>5, FS_Injection
<1> QED
  BY <1>2, <1>3, <1>6, Fun_SurjectionProperties

LEMMA CutOff ==
  ASSUME NEW S, NEW s \in Seq(S), NEW n \in Nat
  PROVE  /\ UpTo(s, n) \in Seq(S)
         /\ Len(UpTo(s, n)) = IF Len(s) < n THEN Len(s) ELSE n
         /\ \A i \in DOMAIN UpTo(s, n) : i \in DOMAIN s /\ UpTo(s, n)[i] = s[i]
<1> DEFINE m == IF Len(s) < n THEN Len(s) ELSE n
<1>1. m \in Nat /\ m <= Len(s)
  OBVIOUS
<1>2. \A i \in 1 .. m : s[i] \in S
  BY <1>1
<1>3. /\ SubSeq(s, 1, m) \in Seq(S)
      /\ Len(SubSeq(s, 1, m)) = IF 1 <= m THEN m - 1 + 1 ELSE 0
      /\ \A i \in 1 .. m - 1 + 1 : SubSeq(s, 1, m)[i] = s[1 + i - 1]
  BY <1>1, <1>2, SubSeqProperties
<1>4. UpTo(s, n) = SubSeq(s, 1, m)
  BY DEF UpTo
<1> QED
  BY <1>1, <1>3, <1>4

LEMMA RankOf ==
  ASSUME NEW S, NEW s \in Seq(S), NEW c
  PROVE  /\ RankIn(s, c) \in 0 .. Len(s)
         /\ c \in ToSet(s) => RankIn(s, c) # 0
  BY DEF RankIn, Contains, ToSet

(* The rows of a scope, whichever statement reads them.                    *)
Current(c) == c.version = Len(versions[c.report]) /\ c.key \in versions[c.report][c.version]
InScope(c) == Home[c.report] = chan /\ only \in {c.report, AnyReport}

VersionsOK == versions \in [Reports -> Seq(SUBSET Keys)] /\ \A r \in Reports : versions[r] # <<>>

LEMMA ChunksOfReport ==
  ASSUME VersionsOK, NEW r \in Reports
  PROVE  /\ ChunksOf(r) = {c \in Chunk : c.report = r /\ Current(c)}
         /\ IsFiniteSet(ChunksOf(r))
<1>1. /\ Len(versions[r]) \in Nat \ {0}
      /\ versions[r][Len(versions[r])] \subseteq Keys
  BY DEF VersionsOK
<1>2. ChunksOf(r) = {c \in Chunk : c.report = r /\ Current(c)}
  BY <1>1 DEF ChunksOf, Chunk, Current
<1>3. [c \in ChunksOf(r) |-> c.key] \in Injection(ChunksOf(r), Keys)
  BY <1>1 DEF ChunksOf, Injection, IsInjective
<1>4. IsFiniteSet(Keys)
  BY ConstantsAssumption, FS_Interval DEF Keys
<1> QED
  BY <1>2, <1>3, <1>4, FS_Injection

LEMMA ScopeOf ==
  ASSUME VersionsOK, NEW c, NEW r
  PROVE  /\ Scope(c, r) = {d \in Chunk : /\ Current(d)
                                         /\ Home[d.report] = c
                                         /\ r \in {d.report, AnyReport}}
         /\ IsFiniteSet(Scope(c, r))
<1> DEFINE Q == {q \in Reports : Home[q] = c /\ r \in {q, AnyReport}}
<1>1. Scope(c, r) = UNION {ChunksOf(q) : q \in Q}
  BY DEF Scope
<1>2. \A q \in Q : /\ ChunksOf(q) = {d \in Chunk : d.report = q /\ Current(d)}
                   /\ IsFiniteSet(ChunksOf(q))
  BY ChunksOfReport
<1>3. Scope(c, r) = {d \in Chunk : /\ Current(d)
                                   /\ Home[d.report] = c
                                   /\ r \in {d.report, AnyReport}}
  BY <1>1, <1>2 DEF Chunk
<1>4. [d \in Scope(c, r) |-> <<d.report, d.key>>] \in Injection(Scope(c, r), Reports \X Keys)
  BY <1>3 DEF Chunk, Current, Injection, IsInjective
<1>5. IsFiniteSet(Reports) /\ IsFiniteSet(Keys)
  BY ConstantsAssumption, FS_Interval DEF Keys
<1>6. IsFiniteSet(Reports \X Keys)
  BY <1>5, FS_Product
<1> QED
  BY <1>3, <1>4, <1>6, FS_Injection

(* What a ranking contributes: rows of the scope, each once, with ranks up *)
(* to the number of candidates.                                            *)
LEMMA RankingOf ==
  ASSUME NEW S, IsFiniteSet(S), NEW s \in Rankings(S)
  PROVE  s \in Seq(S) /\ Len(s) <= Candidates
<1>1. PICK T \in SUBSET S : s \in SetToSeqs(T) /\ Cardinality(T) <= Candidates
  BY DEF Rankings
<1>2. IsFiniteSet(T)
  BY FS_Subset
<1>3. s \in Seq(T) /\ Len(s) = Cardinality(T)
  BY <1>1, <1>2, Listing
<1> QED
  BY <1>1, <1>3

LEMMA RowsOf ==
  ASSUME NEW S \in SUBSET Chunk, IsFiniteSet(S),
         NEW dense \in Rankings(S), NEW sparse \in Rankings(S)
  PROVE  /\ Rows(dense, sparse) \subseteq Hit
         /\ IsFiniteSet(Rows(dense, sparse))
         /\ \A h \in Rows(dense, sparse) : h.chunk \in S
         /\ \A g, h \in Rows(dense, sparse) : g.chunk = h.chunk => g = h
         /\ \A h \in Rows(dense, sparse) : h.dense # 0 \/ h.sparse # 0
<1> DEFINE R == Rows(dense, sparse)
<1>1. /\ dense \in Seq(S) /\ Len(dense) <= Candidates
      /\ sparse \in Seq(S) /\ Len(sparse) <= Candidates
  BY RankingOf
<1>2. Candidates \in Nat
  BY ConstantsAssumption
<1>3. \A c : /\ RankIn(dense, c) \in 0 .. Len(dense)
             /\ RankIn(sparse, c) \in 0 .. Len(sparse)
             /\ c \in ToSet(dense) => RankIn(dense, c) # 0
             /\ c \in ToSet(sparse) => RankIn(sparse, c) # 0
  BY <1>1, RankOf
<1>4. \A c : RankIn(dense, c) \in 0 .. Candidates /\ RankIn(sparse, c) \in 0 .. Candidates
  BY <1>1, <1>2, <1>3
<1>5. ToSet(dense) \cup ToSet(sparse) \subseteq S
  BY <1>1 DEF ToSet
<1>6. R \subseteq Hit
  BY <1>4, <1>5 DEF Rows, Hit
<1>7. /\ \A h \in R : h.chunk \in S
      /\ \A g, h \in R : g.chunk = h.chunk => g = h
  BY <1>5 DEF Rows
<1>8. \A h \in R : h.dense # 0 \/ h.sparse # 0
  BY <1>3 DEF Rows
<1>9. [h \in R |-> h.chunk] \in Injection(R, S)
  BY <1>7 DEF Injection, IsInjective
<1>10. IsFiniteSet(R)
  BY <1>9, FS_Injection
<1> QED
  BY <1>6, <1>7, <1>8, <1>10

(* Positions count up without a gap, so every row has its own.             *)
SameDocument(S) == \A c, d \in S : c.key = d.key => c = d

LEMMA PosType ==
  ASSUME NEW S \in SUBSET Chunk, IsFiniteSet(S), NEW c \in S
  PROVE  Pos(S, c) \in 1 .. Cardinality(S)
<1> DEFINE B == {d \in S : d.key <= c.key}
<1>1. c \in B
  BY DEF Chunk, Keys
<1>2. /\ IsFiniteSet(B) /\ Cardinality(B) <= Cardinality(S)
  BY FS_Subset
<1>3. Cardinality(B) \in Nat /\ Cardinality(S) \in Nat
  BY <1>2, FS_CardinalityType
<1>4. Cardinality(B) # 0
  BY <1>1, <1>2, FS_EmptySet
<1> QED
  BY <1>2, <1>3, <1>4 DEF Pos

LEMMA PosGrows ==
  ASSUME NEW S \in SUBSET Chunk, IsFiniteSet(S), NEW c \in S, NEW d \in S, c.key < d.key
  PROVE  Pos(S, c) < Pos(S, d)
<1> DEFINE B(x) == {e \in S : e.key <= x.key}
<1>1. \A e \in S : e.key \in Int
  BY DEF Chunk, Keys
<1>2. B(c) \subseteq B(d) /\ d \in B(d) /\ d \notin B(c)
  BY <1>1
<1>3. IsFiniteSet(B(c)) /\ IsFiniteSet(B(d))
  BY FS_Subset
<1>4. Cardinality(B(c)) \in Nat /\ Cardinality(B(d)) \in Nat
  BY <1>3, FS_CardinalityType
<1>5. Cardinality(B(c)) <= Cardinality(B(d)) /\ Cardinality(B(c)) # Cardinality(B(d))
  <2> HIDE DEF B
  <2> QED BY <1>2, <1>3, FS_Subset
<1> QED
  BY <1>4, <1>5 DEF Pos

LEMMA InReadingOrder ==
  ASSUME NEW S \in SUBSET Chunk, IsFiniteSet(S), SameDocument(S)
  PROVE  \A n \in 1 .. Cardinality(S) : ReadingOrder(S)[n] \in S
<1> DEFINE D == 1 .. Cardinality(S)
           f == [c \in S |-> Pos(S, c)]
<1>1. f \in [S -> D]
  BY PosType
<1>2. \A c, d \in S : f[c] = f[d] => c = d
  <2> SUFFICES ASSUME NEW c \in S, NEW d \in S, c # d PROVE Pos(S, c) # Pos(S, d)
    BY Zenon
  <2>1. c.key \in Int /\ d.key \in Int /\ c.key # d.key
    BY DEF Chunk, Keys, SameDocument
  <2>2. Pos(S, c) \in Int /\ Pos(S, d) \in Int
    BY PosType
  <2> QED
    BY <2>1, <2>2, PosGrows
<1>3. f \in Injection(S, D)
  BY <1>1, <1>2 DEF Injection, IsInjective
<1>4. Cardinality(S) \in Nat
  BY FS_CardinalityType
<1>5. IsFiniteSet(D) /\ Cardinality(D) = Cardinality(S)
  BY <1>4, FS_Interval
<1>6. f \in Surjection(S, D)
  BY <1>3, <1>5, FS_Injection
<1>7. \A n \in D : \E c \in S : f[c] = n
  <2> HIDE DEF f, D
  <2> QED BY <1>6, Fun_SurjectionProperties
<1> QED
  BY <1>7 DEF ReadingOrder

-----------------------------------------------------------------------------
(* What a query holds was found in its scope, and by one statement as far  *)
(* as ranks go: no two versions of a report.                               *)
Found(C) ==
    /\ \A c \in C : InScope(c)
    /\ \A c, d \in C : c.report = d.report => c.version = d.version

HitsOK ==
    /\ IsFiniteSet(hits)
    /\ Found({h.chunk : h \in hits})
    /\ \A g, h \in hits : g.chunk = h.chunk => g = h
    /\ \A h \in hits : h.dense # 0 \/ h.sparse # 0

PoolOK ==
    /\ Found({pool[i].chunk : i \in DOMAIN pool})
    /\ \A i, j \in DOMAIN pool : pool[i].chunk = pool[j].chunk => i = j

RankedOK ==
    /\ Found({ranked[i] : i \in DOMAIN ranked})
    /\ \A i, j \in DOMAIN ranked : ranked[i] = ranked[j] => i = j

(* The window is one version of the report it is read for.                 *)
VersionOf(r, v) == {c \in Chunk : c.report = r /\ c.version = v /\ c.key \in versions[r][v]}

WindowOK ==
    IF at = AnyReport THEN window = {}
    ELSE /\ Home[at] = chan
         /\ only \in {at, AnyReport}
         /\ \E v \in 1 .. Len(versions[at]) : window = VersionOf(at, v)

(* A row of the answer is of the version of a result.                      *)
OutOK ==
    \A i \in DOMAIN out : \E k \in DOMAIN ranked :
        out[i].chunk.report = ranked[k].report /\ out[i].chunk.version = ranked[k].version

(* Nothing is ranked or answered before its stage.                         *)
StageOK ==
    pc \notin {"ranked", "answered"} =>
        ranked = <<>> /\ left = {} /\ at = AnyReport /\ window = {} /\ out = <<>>

FoundInv ==
    /\ HitsOK /\ PoolOK /\ RankedOK /\ WindowOK /\ OutOK /\ StageOK
    /\ \A c \in centroid : InScope(c)

TypeInv == TypeOK /\ \A r \in Reports : versions[r] # <<>>

IInv == TypeInv /\ FoundInv

(* A query that has found nothing yet.                                     *)
LEMMA NothingFound ==
  ASSUME TypeInv, chan' \in Channels, only' \in Reports \cup {AnyReport}, options' \in Options,
         pc' \in Ended \cup Running, Forget, UNCHANGED <<versions, writes>>
  PROVE  IInv'
<1>1. /\ hits' = {} /\ centroid' = {} /\ pool' = <<>> /\ ranked' = <<>> /\ left' = {}
      /\ at' = AnyReport /\ window' = {} /\ out' = <<>>
  BY DEF Forget
<1>2. TypeInv'
  BY <1>1 DEF TypeInv, TypeOK
<1>3. HitsOK' /\ PoolOK' /\ RankedOK' /\ WindowOK' /\ OutOK' /\ StageOK'
  BY <1>1, FS_EmptySet DEF HitsOK, PoolOK, RankedOK, WindowOK, OutOK, StageOK, Found
<1> QED
  BY <1>1, <1>2, <1>3 DEF IInv, FoundInv

LEMMA InitInv == Init => IInv
<1> SUFFICES ASSUME Init PROVE IInv
  OBVIOUS
<1>1. Keys \in SUBSET Keys /\ 0 \in 0 .. MaxWrites
  BY ConstantsAssumption
<1>2. TypeInv
  BY <1>1, ConstantsAssumption DEF Init, TypeInv, TypeOK, Ended
<1>3. HitsOK /\ PoolOK /\ RankedOK /\ WindowOK /\ OutOK /\ StageOK
  BY FS_EmptySet DEF Init, HitsOK, PoolOK, RankedOK, WindowOK, OutOK, StageOK, Found
<1> QED
  BY <1>2, <1>3 DEF IInv, FoundInv, Init

(* What a statement finds in the scope of the query.                       *)
LEMMA FoundByStatement ==
  ASSUME IInv,
         NEW dense \in Rankings(Scope(chan, only)), NEW sparse \in Rankings(Scope(chan, only)),
         hits' = Rows(dense, sparse), UNCHANGED <<versions, chan, only>>
  PROVE  hits' \subseteq Hit /\ HitsOK'
<1>1. VersionsOK
  BY DEF IInv, TypeInv, TypeOK, VersionsOK
<1> DEFINE S == Scope(chan, only)
<1>2. /\ S = {d \in Chunk : Current(d) /\ Home[d.report] = chan /\ only \in {d.report, AnyReport}}
      /\ IsFiniteSet(S)
  BY <1>1, ScopeOf
<1>3. S \in SUBSET Chunk
  BY <1>2
<1>4. /\ Rows(dense, sparse) \subseteq Hit
      /\ IsFiniteSet(Rows(dense, sparse))
      /\ \A h \in Rows(dense, sparse) : h.chunk \in S
      /\ \A g, h \in Rows(dense, sparse) : g.chunk = h.chunk => g = h
      /\ \A h \in Rows(dense, sparse) : h.dense # 0 \/ h.sparse # 0
  BY <1>2, <1>3, RowsOf
<1>5. \A h \in hits' : Current(h.chunk) /\ InScope(h.chunk)'
  BY <1>2, <1>4 DEF InScope
<1>6. Found({h.chunk : h \in hits})'
  BY <1>5 DEF Found, Current
<1> QED
  BY <1>4, <1>6 DEF HitsOK

-----------------------------------------------------------------------------
(* The steps.                                                              *)

(* A step of the query that finds nothing and forgets nothing.             *)
LEMMA QuietStep ==
  ASSUME IInv, pc' \in Ended \cup Running, pc' \in {"ranked", "answered"} => pc = pc',
         pc \notin {"ranked", "answered"},
         UNCHANGED <<versions, writes, query>>
  PROVE  IInv'
<1> USE DEF IInv, query, asked
<1>1. TypeInv'
  BY DEF TypeInv, TypeOK
<1>2. HitsOK' /\ PoolOK' /\ RankedOK' /\ OutOK'
  BY DEF FoundInv, HitsOK, PoolOK, RankedOK, OutOK, Found, InScope
<1>3. WindowOK' /\ StageOK'
  BY DEF FoundInv, WindowOK, StageOK, VersionOf
<1>4. \A c \in centroid' : InScope(c)'
  BY DEF FoundInv, InScope
<1> QED
  BY <1>1, <1>2, <1>3, <1>4 DEF FoundInv

LEMMA CommitInv ==
  ASSUME IInv, NEW r \in Reports, NEW ks \in SUBSET Keys, Commit(r, ks)
  PROVE  IInv'
<1>1. /\ versions \in [Reports -> Seq(SUBSET Keys)]
      /\ Append(versions[r], ks) \in Seq(SUBSET Keys)
      /\ Append(versions[r], ks) # <<>>
      /\ Len(Append(versions[r], ks)) = Len(versions[r]) + 1
      /\ \A v \in 1 .. Len(versions[r]) : Append(versions[r], ks)[v] = versions[r][v]
  <2>1. versions \in [Reports -> Seq(SUBSET Keys)]
    BY DEF IInv, TypeInv, TypeOK
  <2>2. versions[r] \in Seq(SUBSET Keys)
    BY <2>1
  <2> HIDE DEF Keys
  <2> QED
    BY <2>1, <2>2, AppendProperties
<1> USE DEF IInv, Commit, query, asked
<1>2. versions' \in [Reports -> Seq(SUBSET Keys)] /\ \A q \in Reports : versions'[q] # <<>>
  BY <1>1 DEF TypeInv
<1>3. writes' \in 0 .. MaxWrites
  BY ConstantsAssumption DEF TypeInv, TypeOK
<1>4. TypeInv'
  BY <1>2, <1>3 DEF TypeInv, TypeOK
<1>5. HitsOK' /\ PoolOK' /\ RankedOK' /\ OutOK' /\ StageOK'
  BY DEF FoundInv, HitsOK, PoolOK, RankedOK, OutOK, Found, InScope, StageOK
<1>6. \A q \in Reports : /\ Len(versions[q]) <= Len(versions'[q])
                         /\ Len(versions[q]) \in Nat /\ Len(versions'[q]) \in Nat
                         /\ \A v \in 1 .. Len(versions[q]) : versions'[q][v] = versions[q][v]
  BY <1>1
<1>7. WindowOK'
  <2>1. CASE at = AnyReport
    BY <2>1 DEF FoundInv, WindowOK
  <2>2. CASE at # AnyReport
    <3>1. at \in Reports
      BY <2>2 DEF TypeInv, TypeOK
    <3>2. PICK v \in 1 .. Len(versions[at]) : window = VersionOf(at, v)
      BY <2>2 DEF FoundInv, WindowOK
    <3>3. v \in 1 .. Len(versions'[at]) /\ versions'[at][v] = versions[at][v]
      BY <1>6, <3>1
    <3>4. window' = VersionOf(at, v)'
      BY <3>2, <3>3 DEF VersionOf
    <3> QED
      BY <2>2, <3>3, <3>4 DEF FoundInv, WindowOK
  <2> QED
    BY <2>1, <2>2
<1>8. \A c \in centroid' : InScope(c)'
  BY DEF FoundInv, InScope
<1> QED
  BY <1>4, <1>5, <1>7, <1>8 DEF FoundInv

LEMMA RequestInv ==
  ASSUME IInv,
         \/ \E c \in Channels, r \in Reports \cup {AnyReport}, o \in Options : Ask(c, r, o)
         \/ Fail \/ CheckChannel \/ Embed
  PROVE  IInv'
<1>1. ASSUME NEW c \in Channels, NEW r \in Reports \cup {AnyReport}, NEW o \in Options,
             Ask(c, r, o)
      PROVE  IInv'
  BY <1>1, NothingFound DEF Ask, IInv, Running
<1>2. CASE Fail
  <2>1. /\ chan' \in Channels /\ only' \in Reports \cup {AnyReport} /\ options' \in Options
        /\ pc' \in Ended \cup Running /\ Forget /\ UNCHANGED <<versions, writes>>
    BY <1>2 DEF Fail, IInv, TypeInv, TypeOK, asked, Ended
  <2> QED
    BY <2>1, NothingFound DEF IInv
<1>3. CASE CheckChannel
  BY <1>3, QuietStep DEF CheckChannel, Ended, Running
<1>4. CASE Embed
  BY <1>4, QuietStep DEF Embed, Ended, Running
<1> QED
  BY <1>1, <1>2, <1>3, <1>4

LEMMA SearchInv ==
  ASSUME IInv, FirstPass \/ Retrieve \/ Expand
  PROVE  IInv'
<1>1. CASE FirstPass \/ Retrieve
  <2>1. PICK dense \in Rankings(Scope(chan, only)), sparse \in Rankings(Scope(chan, only)) :
           hits' = Rows(dense, sparse)
    BY <1>1 DEF FirstPass, Retrieve
  <2>2. /\ UNCHANGED <<versions, writes, chan, only, options, pool, ranked, left, at, window, out>>
        /\ centroid' \subseteq centroid
        /\ pc' \in Ended \cup Running
        /\ pc \notin {"ranked", "answered"} /\ pc' # "ranked"
    BY <1>1 DEF FirstPass, Retrieve, asked, Ended, Running
  <2>3. hits' \subseteq Hit /\ HitsOK'
    BY <2>1, <2>2, FoundByStatement
  <2>4. TypeInv'
    BY <2>2, <2>3 DEF IInv, TypeInv, TypeOK
  <2>5. PoolOK' /\ RankedOK' /\ OutOK'
    BY <2>2 DEF IInv, FoundInv, PoolOK, RankedOK, OutOK, Found, InScope
  <2>6. WindowOK' /\ StageOK'
    BY <2>2 DEF IInv, FoundInv, WindowOK, StageOK, VersionOf
  <2>7. \A c \in centroid' : InScope(c)'
    BY <2>2 DEF IInv, FoundInv, InScope
  <2> QED
    BY <2>3, <2>4, <2>5, <2>6, <2>7 DEF IInv, FoundInv
<1>2. CASE Expand
  <2>1. /\ UNCHANGED <<versions, writes, chan, only, options, pool, ranked, left, at, window, out>>
        /\ centroid' \subseteq {h.chunk : h \in hits}
        /\ hits' = {} /\ pc = "first pass" /\ pc' = "expanded"
    BY <1>2 DEF Expand, asked
  <2>2. TypeInv'
    BY <2>1 DEF IInv, TypeInv, TypeOK, Hit, Running
  <2>3. HitsOK'
    BY <2>1, FS_EmptySet DEF HitsOK, Found
  <2>4. PoolOK' /\ RankedOK' /\ OutOK'
    <3>1. UNCHANGED <<chan, only, pool, ranked, out>>
      BY <2>1
    <3> QED
      BY <3>1 DEF IInv, FoundInv, PoolOK, RankedOK, OutOK, Found, InScope
  <2>5. WindowOK' /\ StageOK'
    BY <2>1 DEF IInv, FoundInv, WindowOK, StageOK, VersionOf
  <2>6. \A c \in centroid' : InScope(c)'
    BY <2>1 DEF IInv, FoundInv, HitsOK, Found, InScope
  <2> QED
    BY <2>2, <2>3, <2>4, <2>5, <2>6 DEF IInv, FoundInv
<1> QED
  BY <1>1, <1>2

(* The fused pool and the results are cut from listings of what was found. *)
LEMMA LimitType == TypeOK => FusedLimit \in Nat
<1> SUFFICES ASSUME TypeOK PROVE FusedLimit \in Nat
  OBVIOUS
<1>1. TopK \in Nat /\ Candidates \in Nat
  BY ConstantsAssumption
<1>2. \A a, b \in Nat : LargerOf(a, b) \in Nat
  BY DEF LargerOf
<1>3. 3 * TopK \in Nat
  BY <1>1
<1> QED
  BY <1>1, <1>2, <1>3 DEF FusedLimit

LEMMA FuseInv == ASSUME IInv, Fuse PROVE IInv'
<1>1. IsFiniteSet(hits) /\ hits \subseteq Hit
  BY DEF IInv, FoundInv, HitsOK, TypeInv, TypeOK
<1>2. PICK s \in SetToSeqs(hits) : pool' = UpTo(s, FusedLimit)
  BY DEF Fuse
<1>3. s \in Seq(hits) /\ \A i, j \in DOMAIN s : s[i] = s[j] => i = j
  BY <1>1, Listing
<1>4. FusedLimit \in Nat
  BY LimitType DEF IInv, TypeInv
<1>5. pool' \in Seq(hits) /\ \A i \in DOMAIN pool' : i \in DOMAIN s /\ pool'[i] = s[i]
  BY <1>2, <1>3, <1>4, CutOff
<1>6. /\ UNCHANGED <<versions, writes, chan, only, options, hits, centroid, ranked,
                     left, at, window, out>>
      /\ pc = "retrieved" /\ pc' = "fused"
  BY DEF Fuse, asked
<1>7. TypeInv'
  BY <1>1, <1>5, <1>6 DEF IInv, TypeInv, TypeOK, Running
<1>8. HitsOK' /\ RankedOK' /\ OutOK'
  BY <1>6 DEF IInv, FoundInv, HitsOK, RankedOK, OutOK, Found, InScope
<1>9. PoolOK'
  <2>1. \A i \in DOMAIN pool' : pool'[i] \in hits
    BY <1>5
  <2>2. \A i, j \in DOMAIN pool' : pool'[i].chunk = pool'[j].chunk => i = j
    BY <1>3, <1>5, <2>1 DEF IInv, FoundInv, HitsOK
  <2>3. Found({h.chunk : h \in hits})
    BY DEF IInv, FoundInv, HitsOK
  <2>4. Found({pool[i].chunk : i \in DOMAIN pool})'
    BY <1>6, <2>1, <2>3 DEF Found, InScope
  <2> QED
    BY <2>2, <2>4 DEF PoolOK
<1>10. WindowOK' /\ StageOK'
  BY <1>6 DEF IInv, FoundInv, WindowOK, StageOK, VersionOf
<1>11. \A c \in centroid' : InScope(c)'
  BY <1>6 DEF IInv, FoundInv, InScope
<1> QED
  BY <1>7, <1>8, <1>9, <1>10, <1>11 DEF IInv, FoundInv

(* The results are of the pool, each once, whoever orders them.            *)
PoolChunks == {pool[i].chunk : i \in DOMAIN pool}

LEMMA RankedFromPool ==
  ASSUME IInv, Rank
  PROVE  /\ ranked' \in Seq(PoolChunks)
         /\ \A i, j \in DOMAIN ranked' : ranked'[i] = ranked'[j] => i = j
<1>1. PICK s \in IF options.rerank THEN Reranked ELSE {<<>>} :
         ranked' = IF s = <<>> THEN UpTo([i \in DOMAIN pool |-> pool[i].chunk], TopK) ELSE s
  BY DEF Rank
<1>2. TopK \in Nat /\ pool \in Seq(Hit)
  BY ConstantsAssumption DEF IInv, TypeInv, TypeOK
<1>3. CASE s = <<>>
  <2> DEFINE f == [i \in DOMAIN pool |-> pool[i].chunk]
  <2>1. f \in Seq(PoolChunks) /\ DOMAIN f = DOMAIN pool
    BY <1>2 DEF PoolChunks
  <2>2. \A i, j \in DOMAIN f : f[i] = f[j] => i = j
    BY DEF IInv, FoundInv, PoolOK
  <2>3. ranked' = UpTo(f, TopK)
    BY <1>1, <1>3
  <2> HIDE DEF f
  <2>4. ranked' \in Seq(PoolChunks) /\ \A i \in DOMAIN ranked' : i \in DOMAIN f /\ ranked'[i] = f[i]
    BY <1>2, <2>1, <2>3, CutOff
  <2> QED
    BY <2>2, <2>4
<1>4. CASE s # <<>>
  <2>1. PICK t \in SetToSeqs(PoolChunks) : s = UpTo(t, TopK)
    BY <1>1, <1>4 DEF Reranked, PoolChunks
  <2>2. IsFiniteSet(PoolChunks)
    <3> DEFINE f == [i \in 1 .. Len(pool) |-> pool[i].chunk]
    <3>1. f \in [1 .. Len(pool) -> PoolChunks] /\ DOMAIN pool = 1 .. Len(pool)
      BY <1>2 DEF PoolChunks
    <3>2. \A c \in PoolChunks : \E i \in 1 .. Len(pool) : f[i] = c
      BY <3>1 DEF PoolChunks
    <3>3. f \in Surjection(1 .. Len(pool), PoolChunks)
      BY <3>1, <3>2 DEF Surjection
    <3>4. IsFiniteSet(1 .. Len(pool))
      BY <1>2, FS_Interval
    <3> QED
      BY <3>3, <3>4, FS_Surjection
  <2>3. t \in Seq(PoolChunks) /\ \A i, j \in DOMAIN t : t[i] = t[j] => i = j
    BY <2>2, Listing
  <2>4. s \in Seq(PoolChunks) /\ \A i \in DOMAIN s : i \in DOMAIN t /\ s[i] = t[i]
    BY <1>2, <2>1, <2>3, CutOff
  <2> QED
    BY <1>1, <1>4, <2>3, <2>4
<1> QED
  BY <1>3, <1>4

LEMMA RankInv == ASSUME IInv, Rank PROVE IInv'
<1>1. /\ ranked' \in Seq(PoolChunks)
      /\ \A i, j \in DOMAIN ranked' : ranked'[i] = ranked'[j] => i = j
  BY RankedFromPool
<1>2. PoolChunks \subseteq Chunk
  <2>1. pool \in Seq(Hit) /\ \A h \in Hit : h.chunk \in Chunk
    BY DEF IInv, TypeInv, TypeOK, Hit
  <2> QED
    BY <2>1 DEF PoolChunks
<1>3. /\ UNCHANGED <<versions, writes, chan, only, options, centroid, at, window>>
      /\ hits' = {} /\ pool' = <<>> /\ pc' \in {"ranked", "answered"} /\ pc = "fused"
  BY DEF Rank, asked
<1>4. \/ /\ out' = [i \in DOMAIN ranked' |-> Result(ranked'[i])]
         /\ left' = {}
      \/ out' = <<>> /\ left' = DOMAIN ranked'
  BY <1>3 DEF Rank, IInv, FoundInv, StageOK
<1>5. ranked' \in Seq(Chunk)
  BY <1>1, <1>2
<1>6. out' \in Seq(Item)
  <2>1. \A c \in Chunk : Result(c) \in Item
    BY DEF Item, Result
  <2>2. [i \in DOMAIN ranked' |-> Result(ranked'[i])] \in Seq(Item)
    BY <1>5, <2>1
  <2>3. <<>> \in Seq(Item)
    OBVIOUS
  <2> QED
    BY <1>4, <2>2, <2>3, Zenon
<1>7. TypeInv'
  <2>1. hits' \subseteq Hit /\ pool' \in Seq(Hit)
    BY <1>3
  <2>2. pc' \in Ended \cup Running
    BY <1>3 DEF Running, Ended
  <2>3. left' \subseteq DOMAIN ranked'
    BY <1>4, Zenon
  <2> QED
    BY <1>3, <1>5, <1>6, <2>1, <2>2, <2>3 DEF IInv, TypeInv, TypeOK
<1>8. HitsOK' /\ PoolOK' /\ StageOK'
  BY <1>3, FS_EmptySet DEF HitsOK, PoolOK, Found, StageOK
<1>9. RankedOK'
  <2>1. \A i \in DOMAIN ranked' : ranked'[i] \in PoolChunks
    BY <1>1
  <2>2. Found(PoolChunks)
    BY DEF IInv, FoundInv, PoolOK, PoolChunks
  <2>3. Found({ranked[i] : i \in DOMAIN ranked})'
    BY <1>3, <2>1, <2>2 DEF Found, InScope
  <2> QED
    BY <1>1, <2>3 DEF RankedOK
<1>10. OutOK'
  BY <1>3, <1>4 DEF OutOK, Result
<1>11. WindowOK' /\ \A c \in centroid' : InScope(c)'
  BY <1>3 DEF IInv, FoundInv, WindowOK, VersionOf, InScope
<1> QED
  BY <1>7, <1>8, <1>9, <1>10, <1>11 DEF IInv, FoundInv

LEMMA FetchInv == ASSUME IInv, Fetch PROVE IInv'
<1>1. PICK i \in left : at' = ranked[i].report /\ window' = Scope(chan, ranked[i].report)
  BY DEF Fetch
<1>2. /\ UNCHANGED <<versions, writes, pc, chan, only, options, hits, centroid, pool, ranked,
                     left, out>>
      /\ pc = "ranked"
  BY DEF Fetch, asked
<1> DEFINE r == ranked[i].report
<1>3. i \in DOMAIN ranked /\ ranked[i] \in Chunk /\ r \in Reports
  <2>1. left \subseteq DOMAIN ranked /\ ranked \in Seq(Chunk)
    BY DEF IInv, TypeInv, TypeOK
  <2>2. i \in DOMAIN ranked /\ ranked[i] \in Chunk
    BY <2>1
  <2> QED
    BY <2>2 DEF Chunk
<1>4. Home[r] = chan /\ only \in {r, AnyReport}
  BY <1>3 DEF IInv, FoundInv, RankedOK, Found, InScope
<1>5. r # AnyReport
  BY <1>3, ConstantsAssumption
<1>6. VersionsOK
  BY DEF IInv, TypeInv, TypeOK, VersionsOK
<1>7. window' = {d \in Chunk : Current(d) /\ Home[d.report] = chan /\ r \in {d.report, AnyReport}}
  BY <1>1, <1>6, ScopeOf
<1>8. window' = VersionOf(r, Len(versions[r]))
  BY <1>4, <1>5, <1>7 DEF VersionOf, Current
<1>9. Len(versions[r]) \in 1 .. Len(versions[r])
  BY <1>3, <1>6 DEF VersionsOK
<1>10. TypeInv'
  BY <1>1, <1>2, <1>3, <1>7 DEF IInv, TypeInv, TypeOK
<1>11. WindowOK'
  BY <1>1, <1>2, <1>4, <1>5, <1>8, <1>9 DEF WindowOK, VersionOf
<1>12. HitsOK' /\ PoolOK' /\ RankedOK' /\ OutOK'
  BY <1>2 DEF IInv, FoundInv, HitsOK, PoolOK, RankedOK, OutOK, Found, InScope
<1>13. StageOK' /\ \A c \in centroid' : InScope(c)'
  BY <1>2 DEF IInv, FoundInv, StageOK, InScope
<1> QED
  BY <1>10, <1>11, <1>12, <1>13 DEF IInv, FoundInv

LEMMA AnswerInv == ASSUME IInv, Answer PROVE IInv'
<1>1. /\ UNCHANGED <<versions, writes, chan, only, options, hits, centroid, pool, ranked, left, out>>
      /\ pc' = "answered" /\ at' = AnyReport /\ window' = {}
  BY DEF Answer, asked
<1>2. TypeInv'
  BY <1>1 DEF IInv, TypeInv, TypeOK, Ended
<1>3. HitsOK' /\ PoolOK' /\ RankedOK' /\ OutOK'
  BY <1>1 DEF IInv, FoundInv, HitsOK, PoolOK, RankedOK, OutOK, Found, InScope
<1>4. WindowOK' /\ StageOK' /\ \A c \in centroid' : InScope(c)'
  BY <1>1 DEF IInv, FoundInv, WindowOK, StageOK, InScope
<1> QED
  BY <1>2, <1>3, <1>4 DEF IInv, FoundInv

(* The rows around a result are of the window and not results; with the    *)
(* result between them, it is the only row that is nobody's context.       *)
Near(c, p) ==
    \/ Pos(window, c) \in Pos(window, p) - options.around .. Pos(window, p) - 1
    \/ Pos(window, c) \in Pos(window, p) + 1 .. Pos(window, p) + options.around

LEMMA WindowFacts ==
  ASSUME IInv, at # AnyReport
  PROVE  /\ at \in Reports
         /\ IsFiniteSet(window) /\ window \subseteq Chunk /\ SameDocument(window)
         /\ \A c, d \in window : c.report = at /\ d.report = at /\ c.version = d.version
<1>1. at \in Reports
  BY DEF IInv, TypeInv, TypeOK
<1>2. PICK v \in 1 .. Len(versions[at]) : window = VersionOf(at, v)
  BY DEF IInv, FoundInv, WindowOK
<1>3. [c \in window |-> c.key] \in Injection(window, Keys)
  BY <1>2 DEF VersionOf, Chunk, Injection, IsInjective
<1>4. IsFiniteSet(Keys)
  BY ConstantsAssumption, FS_Interval DEF Keys
<1>5. IsFiniteSet(window)
  BY <1>3, <1>4, FS_Injection
<1> QED
  BY <1>1, <1>2, <1>5 DEF VersionOf, SameDocument, Chunk

LEMMA AroundRows ==
  ASSUME IInv, at # AnyReport, NEW p \in Chunk, NEW from \in Int, NEW to \in Int
  PROVE  /\ Around(p, from, to) \in Seq(Item)
         /\ \A n \in DOMAIN Around(p, from, to) :
              LET row == Around(p, from, to)[n]
              IN  /\ row.parent = p
                  /\ row.chunk \in window /\ IsContext(row.chunk)
                  /\ Pos(window, row.chunk) \in from .. to
<1> DEFINE S == {c \in window : Pos(window, c) \in from .. to /\ IsContext(c)}
           A == [n \in 1 .. Cardinality(S) |-> [chunk |-> ReadingOrder(S)[n], parent |-> p]]
<1>1. Around(p, from, to) = A
  BY DEF Around
<1>2. S \subseteq window
  OBVIOUS
<1>3. S \in SUBSET Chunk /\ IsFiniteSet(S) /\ SameDocument(S)
  BY <1>2, WindowFacts, FS_Subset DEF SameDocument
<1>4. Cardinality(S) \in Nat
  BY <1>3, FS_CardinalityType
<1>5. \A n \in 1 .. Cardinality(S) : ReadingOrder(S)[n] \in S
  <2> HIDE DEF S
  <2> QED BY <1>3, InReadingOrder
<1>6. \A n \in 1 .. Cardinality(S) : ReadingOrder(S)[n] \in Chunk
  BY <1>3, <1>5
<1>7. A \in Seq(Item)
  <2> DEFINE k == Cardinality(S)
  <2>1. k \in Nat /\ \A n \in 1 .. k : [chunk |-> ReadingOrder(S)[n], parent |-> p] \in Item
    BY <1>4, <1>6 DEF Item
  <2>2. A = [n \in 1 .. k |-> [chunk |-> ReadingOrder(S)[n], parent |-> p]]
    OBVIOUS
  <2> HIDE DEF S, A, k
  <2> QED
    BY <2>1, <2>2
<1>8. DOMAIN A = 1 .. Cardinality(S)
  OBVIOUS
<1>9. \A n \in DOMAIN A : A[n].chunk \in S /\ A[n].parent = p
  <2> HIDE DEF S
  <2> QED BY <1>5
<1> QED
  BY <1>1, <1>7, <1>9

LEMMA Concatenated ==
  ASSUME NEW S, NEW a \in Seq(S), NEW b \in Seq(S), NEW c, c = a \o b
  PROVE  /\ c \in Seq(S)
         /\ Len(c) = Len(a) + Len(b)
         /\ \A i \in 1 .. Len(a) + Len(b) : c[i] = IF i <= Len(a) THEN a[i] ELSE b[i - Len(a)]
  BY ConcatProperties

LEMMA ContextRows ==
  ASSUME IInv, NEW i \in LeftOf(at)
  PROVE  LET p == ranked[i]
             rows == WithContext(p)
         IN  /\ rows \in Seq(Item)
             /\ \E m \in DOMAIN rows :
                  /\ rows[m] = Result(p)
                  /\ \A n \in DOMAIN rows \ {m} :
                       /\ p \in window
                       /\ rows[n].parent = p
                       /\ rows[n].chunk \in window /\ IsContext(rows[n].chunk)
                       /\ Near(rows[n].chunk, p)
<1> DEFINE p == ranked[i]
           rows == WithContext(p)
<1>1. p \in Chunk /\ p.report = at
  BY DEF LeftOf, IInv, TypeInv, TypeOK
<1>2. at # AnyReport
  BY <1>1, ConstantsAssumption DEF Chunk
<1>3. Result(p) \in Item
  BY <1>1 DEF Item, Result
<1> HIDE DEF p
<1>4. CASE p \notin window
  <2>1. rows = <<Result(p)>>
    BY <1>4 DEF WithContext, IsVisible
  <2>2. rows \in Seq(Item) /\ 1 \in DOMAIN rows /\ rows[1] = Result(p) /\ DOMAIN rows \ {1} = {}
    BY <1>3, <2>1
  <2> QED
    BY <2>2 DEF p
<1>5. CASE p \in window
  <2> DEFINE pos == Pos(window, p)
             before == Around(p, pos - options.around, pos - 1)
             after == Around(p, pos + 1, pos + options.around)
  <2>1. rows = before \o <<Result(p)>> \o after
    BY <1>5 DEF WithContext, IsVisible
  <2>2. pos \in Int /\ options.around \in Int
    <3>1. options \in Option
      BY ConstantsAssumption DEF IInv, TypeInv, TypeOK
    <3>2. pos \in 1 .. Cardinality(window)
      BY <1>2, <1>5, WindowFacts, PosType
    <3> QED
      BY <3>1, <3>2 DEF Option
  <2>3. /\ before \in Seq(Item)
        /\ \A n \in DOMAIN before :
             /\ before[n].parent = p
             /\ before[n].chunk \in window /\ IsContext(before[n].chunk)
             /\ Near(before[n].chunk, p)
    <3>1. pos - options.around \in Int /\ pos - 1 \in Int
      BY <2>2
    <3> HIDE DEF pos
    <3>2. /\ before \in Seq(Item)
          /\ \A n \in DOMAIN before :
               /\ before[n].parent = p
               /\ before[n].chunk \in window /\ IsContext(before[n].chunk)
               /\ Pos(window, before[n].chunk) \in pos - options.around .. pos - 1
      BY <1>1, <1>2, <3>1, AroundRows
    <3> QED
      BY <3>2 DEF Near, pos
  <2>4. /\ after \in Seq(Item)
        /\ \A n \in DOMAIN after :
             /\ after[n].parent = p
             /\ after[n].chunk \in window /\ IsContext(after[n].chunk)
             /\ Near(after[n].chunk, p)
    <3>1. pos + 1 \in Int /\ pos + options.around \in Int
      BY <2>2
    <3> HIDE DEF pos
    <3>2. /\ after \in Seq(Item)
          /\ \A n \in DOMAIN after :
               /\ after[n].parent = p
               /\ after[n].chunk \in window /\ IsContext(after[n].chunk)
               /\ Pos(window, after[n].chunk) \in pos + 1 .. pos + options.around
      BY <1>1, <1>2, <3>1, AroundRows
    <3> QED
      BY <3>2 DEF Near, pos
  <2> HIDE DEF before, after, rows
  <2>5. rows \in Seq(Item) /\ \E m \in DOMAIN rows :
             /\ rows[m] = Result(p)
             /\ \A n \in DOMAIN rows \ {m} : \/ \E j \in DOMAIN before : rows[n] = before[j]
                                             \/ \E j \in DOMAIN after : rows[n] = after[j]
    <3> DEFINE me == <<Result(p)>>
               half == before \o me
    <3>1. before \in Seq(Item) /\ after \in Seq(Item) /\ me \in Seq(Item)
      BY <1>3, <2>3, <2>4
    <3>2. Len(me) = 1 /\ me[1] = Result(p)
      BY <1>3
    <3>3. half = before \o me /\ rows = half \o after
      BY <2>1
    <3> HIDE DEF me, half
    <3>4. /\ half \in Seq(Item) /\ Len(half) = Len(before) + Len(me)
          /\ \A n \in 1 .. Len(before) + Len(me) :
               half[n] = IF n <= Len(before) THEN before[n] ELSE me[n - Len(before)]
      BY <3>1, <3>3, Concatenated
    <3>5. /\ rows \in Seq(Item) /\ Len(rows) = Len(half) + Len(after)
          /\ \A n \in 1 .. Len(half) + Len(after) :
               rows[n] = IF n <= Len(half) THEN half[n] ELSE after[n - Len(half)]
      BY <3>1, <3>3, <3>4, Concatenated
    <3>6. /\ Len(before) \in Nat /\ Len(after) \in Nat
          /\ DOMAIN before = 1 .. Len(before) /\ DOMAIN after = 1 .. Len(after)
          /\ DOMAIN rows = 1 .. Len(before) + 1 + Len(after)
      BY <3>1, <3>2, <3>4, <3>5
    <3> DEFINE k == Len(before) + 1
    <3>7. k \in DOMAIN rows /\ rows[k] = Result(p)
      BY <3>2, <3>4, <3>5, <3>6
    <3>8. ASSUME NEW n \in DOMAIN rows \ {k}
          PROVE  \/ \E j \in DOMAIN before : rows[n] = before[j]
                 \/ \E j \in DOMAIN after : rows[n] = after[j]
      <4>1. CASE n <= Len(before)
        BY <3>2, <3>4, <3>5, <3>6, <4>1
      <4>2. CASE n > k
        <5>1. n - k \in DOMAIN after /\ rows[n] = after[n - k]
          BY <3>2, <3>4, <3>5, <3>6, <4>2
        <5> QED
          BY <5>1
      <4> QED
        BY <3>6, <4>1, <4>2
    <3> QED
      BY <3>5, <3>7, <3>8
  <2>6. PICK m \in DOMAIN rows :
             /\ rows[m] = Result(p)
             /\ \A n \in DOMAIN rows \ {m} : \/ \E j \in DOMAIN before : rows[n] = before[j]
                                             \/ \E j \in DOMAIN after : rows[n] = after[j]
    BY <2>5
  <2>7. \A n \in DOMAIN rows \ {m} :
             /\ rows[n].parent = p
             /\ rows[n].chunk \in window /\ IsContext(rows[n].chunk)
             /\ Near(rows[n].chunk, p)
    BY <2>3, <2>4, <2>6
  <2> QED
    BY <1>5, <2>5, <2>6, <2>7 DEF p, rows
<1> QED
  BY <1>4, <1>5

(* The rows that Attach adds, at m the result and around it its context.   *)
Added(i, m, n) ==
    LET p == ranked[i]
        row == out'[n]
    IN  /\ p \in window
        /\ row.parent = p
        /\ row.chunk \in window /\ IsContext(row.chunk)
        /\ Near(row.chunk, p)

LEMMA AttachStep ==
  ASSUME IInv, Attach
  PROVE  /\ out \in Seq(Item) /\ out' \in Seq(Item)
         /\ \A n \in DOMAIN out : n \in DOMAIN out' /\ out'[n] = out[n]
         /\ \E i \in LeftOf(at), m \in DOMAIN out' \ DOMAIN out :
              /\ First(i, LeftOf(at))
              /\ left' = left \ {i}
              /\ out'[m] = Result(ranked[i])
              /\ \A n \in DOMAIN out' \ DOMAIN out : n # m => Added(i, m, n)
<1>1. PICK i \in LeftOf(at) : /\ First(i, LeftOf(at))
                              /\ out' = out \o WithContext(ranked[i])
                              /\ left' = left \ {i}
  BY DEF Attach
<1> DEFINE rows == WithContext(ranked[i])
<1>2. rows \in Seq(Item)
  BY ContextRows
<1>3. PICK m \in DOMAIN rows :
         /\ rows[m] = Result(ranked[i])
         /\ \A n \in DOMAIN rows \ {m} :
              /\ ranked[i] \in window
              /\ rows[n].parent = ranked[i]
              /\ rows[n].chunk \in window /\ IsContext(rows[n].chunk)
              /\ Near(rows[n].chunk, ranked[i])
  BY ContextRows
<1>4. out \in Seq(Item)
  BY DEF IInv, TypeInv, TypeOK
<1>5. out' = out \o rows
  BY <1>1
<1> HIDE DEF rows
<1>6. /\ out' \in Seq(Item) /\ Len(out') = Len(out) + Len(rows)
      /\ \A n \in 1 .. Len(out) + Len(rows) :
           out'[n] = IF n <= Len(out) THEN out[n] ELSE rows[n - Len(out)]
  BY <1>2, <1>4, <1>5, Concatenated
<1>7. /\ Len(out) \in Nat /\ Len(rows) \in Nat /\ DOMAIN rows = 1 .. Len(rows)
      /\ DOMAIN out = 1 .. Len(out) /\ DOMAIN out' = 1 .. Len(out) + Len(rows)
  BY <1>2, <1>4, <1>6
<1>8. \A n \in DOMAIN out : n \in DOMAIN out' /\ out'[n] = out[n]
  BY <1>6, <1>7
<1>9. \A n \in DOMAIN out' \ DOMAIN out :
        n - Len(out) \in DOMAIN rows /\ out'[n] = rows[n - Len(out)]
  BY <1>6, <1>7
<1> DEFINE k == Len(out) + m
<1>10. k \in DOMAIN out' \ DOMAIN out /\ out'[k] = rows[m]
  BY <1>6, <1>7
<1>11. \A n \in DOMAIN out' \ DOMAIN out : n # k => n - Len(out) # m
  BY <1>7
<1> HIDE DEF k
<1>12. \A n \in DOMAIN out' \ DOMAIN out : n # k => Added(i, k, n)
  BY <1>3, <1>9, <1>11 DEF Added
<1> QED
  BY <1>1, <1>3, <1>4, <1>6, <1>8, <1>10, <1>12

LEMMA AttachInv == ASSUME IInv, Attach PROVE IInv'
<1>1. PICK i \in LeftOf(at), m \in DOMAIN out' \ DOMAIN out :
         /\ left' = left \ {i}
         /\ out'[m] = Result(ranked[i])
         /\ \A n \in DOMAIN out' \ DOMAIN out : n # m => Added(i, m, n)
  BY AttachStep
<1>2. /\ out' \in Seq(Item)
      /\ \A n \in DOMAIN out : n \in DOMAIN out' /\ out'[n] = out[n]
  BY AttachStep
<1>3. /\ UNCHANGED <<versions, writes, pc, chan, only, options, hits, centroid, pool, ranked,
                     at, window>>
      /\ pc = "ranked"
  BY DEF Attach, asked
<1>4. i \in DOMAIN ranked /\ at # AnyReport
  <2>1. left \subseteq DOMAIN ranked /\ ranked \in Seq(Chunk)
    BY DEF IInv, TypeInv, TypeOK
  <2>2. i \in DOMAIN ranked /\ ranked[i].report = at /\ ranked[i] \in Chunk
    BY <2>1 DEF LeftOf
  <2> QED
    BY <2>2, ConstantsAssumption DEF Chunk
<1>5. TypeInv'
  BY <1>1, <1>2, <1>3 DEF IInv, TypeInv, TypeOK
<1>6. HitsOK' /\ PoolOK' /\ RankedOK'
  BY <1>3 DEF IInv, FoundInv, HitsOK, PoolOK, RankedOK, Found, InScope
<1>7. OutOK'
  <2> SUFFICES ASSUME NEW n \in DOMAIN out'
               PROVE  \E k \in DOMAIN ranked : /\ out'[n].chunk.report = ranked[k].report
                                               /\ out'[n].chunk.version = ranked[k].version
    BY <1>3 DEF OutOK
  <2>1. CASE n \in DOMAIN out
    BY <1>2, <2>1 DEF IInv, FoundInv, OutOK
  <2>2. CASE n = m
    BY <1>1, <1>4, <2>2 DEF Result
  <2>3. CASE n \notin DOMAIN out /\ n # m
    BY <1>1, <1>4, <2>3, WindowFacts DEF Added
  <2> QED
    BY <2>1, <2>2, <2>3
<1>8. WindowOK' /\ StageOK' /\ \A c \in centroid' : InScope(c)'
  BY <1>3 DEF IInv, FoundInv, WindowOK, StageOK, VersionOf, InScope
<1> QED
  BY <1>5, <1>6, <1>7, <1>8 DEF IInv, FoundInv

LEMMA StutterInv == ASSUME IInv, UNCHANGED vars PROVE IInv'
<1> USE DEF vars, query, asked
<1>1. TypeInv'
  BY DEF IInv, TypeInv, TypeOK
<1>2. HitsOK' /\ PoolOK' /\ RankedOK' /\ OutOK'
  BY DEF IInv, FoundInv, HitsOK, PoolOK, RankedOK, OutOK, Found, InScope
<1>3. WindowOK' /\ StageOK' /\ \A c \in centroid' : InScope(c)'
  BY DEF IInv, FoundInv, WindowOK, StageOK, VersionOf, InScope
<1> QED
  BY <1>1, <1>2, <1>3 DEF IInv, FoundInv

LEMMA NextInv == IInv /\ [Next]_vars => IInv'
<1> SUFFICES ASSUME IInv, [Next]_vars PROVE IInv'
  OBVIOUS
<1>1. ASSUME NEW r \in Reports, NEW ks \in SUBSET Keys, Commit(r, ks) PROVE IInv'
  BY <1>1, CommitInv
<1>2. CASE \/ \E c \in Channels, r \in Reports \cup {AnyReport}, o \in Options : Ask(c, r, o)
           \/ Fail \/ CheckChannel \/ Embed
  BY <1>2, RequestInv
<1>3. CASE FirstPass \/ Retrieve \/ Expand
  BY <1>3, SearchInv
<1>4. CASE Fuse
  BY <1>4, FuseInv
<1>5. CASE Rank
  BY <1>5, RankInv
<1>6. CASE Fetch
  BY <1>6, FetchInv
<1>7. CASE Attach
  BY <1>7, AttachInv
<1>8. CASE Answer
  BY <1>8, AnswerInv
<1>9. CASE UNCHANGED vars
  BY <1>9, StutterInv
<1> QED
  BY <1>1, <1>2, <1>3, <1>4, <1>5, <1>6, <1>7, <1>8, <1>9 DEF Next

LEMMA InvHolds == Spec => []IInv
  BY InitInv, NextInv, PTL DEF Spec

(* Rankings, pools, results and answers keep their types, whatever is      *)
(* committed meanwhile; a head contributes no more rows than it may.       *)
THEOREM TypeCorrect == Spec => []TypeOK
<1>1. IInv => TypeOK
  BY DEF IInv, TypeInv
<1> QED
  BY <1>1, InvHolds, PTL

(* Whatever is committed between its statements, and for any number of     *)
(* channels, a query expands and answers with chunks of its own channel,   *)
(* and of its own report if it names one: both statements say WHERE        *)
(* "ChannelId" (_HYBRID_SQL, _NEIGHBOURS_SQL).                             *)
THEOREM QueriesStayInScope == Spec => []TenantScoped
<1>1. ASSUME IInv PROVE TenantScoped
  <2>1. \A k \in DOMAIN ranked : InScope(ranked[k])
    BY <1>1 DEF IInv, FoundInv, RankedOK, Found
  <2>2. \A i \in DOMAIN out : InScope(out[i].chunk)
    BY <1>1, <2>1 DEF IInv, FoundInv, OutOK, InScope
  <2>3. \A c \in centroid : InScope(c)
    BY <1>1 DEF IInv, FoundInv
  <2> QED
    BY <2>2, <2>3 DEF TenantScoped, InScope
<1> QED
  BY <1>1, InvHolds, PTL

(* However its statements and the commits interleave, an answer shows one  *)
(* version of a report: the hybrid statement is one snapshot, and a result *)
(* that is no longer there gets no context (_attach_neighbours).           *)
THEOREM AnswersAreOfOneVersion == Spec => []OneVersionPerReport
<1>1. ASSUME IInv PROVE OneVersionPerReport
  <2>1. \A k, l \in DOMAIN ranked :
          ranked[k].report = ranked[l].report => ranked[k].version = ranked[l].version
    BY <1>1 DEF IInv, FoundInv, RankedOK, Found
  <2> QED
    BY <1>1, <2>1 DEF IInv, FoundInv, OutOK, OneVersionPerReport
<1> QED
  BY <1>1, InvHolds, PTL

-----------------------------------------------------------------------------
(* The answer has every result, once, and in order within its report.      *)

LEMMA ResultsAreNotContext == \A p \in Chunk : p # <<>>
<1>1. DOMAIN <<>> = {}
  OBVIOUS
<1>2. \A p \in Chunk : DOMAIN p = {"report", "version", "key"}
  BY DEF Chunk
<1> QED
  BY <1>1, <1>2

Placed == DOMAIN ranked \ left

ResultsInv ==
    /\ \A k \in Placed : \E i \in DOMAIN out : out[i] = Result(ranked[k])
    /\ \A i \in DOMAIN out :
          out[i].parent = <<>> => \E k \in Placed : ranked[k] = out[i].chunk
    /\ \A i, j \in DOMAIN out : out[i].chunk.report = out[j].chunk.report => ~Misplaced(i, j)
    /\ \A k \in Placed, l \in left : ranked[k].report = ranked[l].report => k < l
    /\ pc = "answered" => left = {}

LEMMA RankResults == ASSUME IInv, Rank PROVE ResultsInv'
<1>1. PICK n \in Nat : DOMAIN ranked' = 1 .. n
  <2>1. IInv'
    BY RankInv
  <2>2. ranked' \in Seq(Chunk)
    BY <2>1 DEF IInv, TypeInv, TypeOK
  <2> QED
    BY <2>2
<1>2. pc = "fused"
  BY DEF Rank
<1>3. out = <<>>
  BY <1>2 DEF IInv, FoundInv, StageOK
<1>4. CASE options.around = 0
  <2>1. /\ out' = [i \in DOMAIN ranked' |-> Result(ranked'[i])]
        /\ left' = {}
    BY <1>4 DEF Rank
  <2>2. DOMAIN out' = DOMAIN ranked' /\ Placed' = DOMAIN ranked'
    BY <2>1 DEF Placed
  <2>3. \A i \in DOMAIN ranked' :
          out'[i] = Result(ranked'[i]) /\ out'[i].chunk = ranked'[i] /\ out'[i].parent = <<>>
    BY <2>1 DEF Result
  <2> QED
    BY <2>1, <2>2, <2>3 DEF ResultsInv, Misplaced
<1>5. CASE options.around # 0
  <2>1. out' = <<>> /\ left' = DOMAIN ranked' /\ pc' = "ranked"
    BY <1>3, <1>5 DEF Rank
  <2>2. DOMAIN out' = {} /\ Placed' = {}
    BY <2>1 DEF Placed
  <2> QED
    BY <2>1, <2>2 DEF ResultsInv
<1> QED
  BY <1>4, <1>5

LEMMA AttachResults == ASSUME IInv, ResultsInv, Attach PROVE ResultsInv'
<1>1. PICK i \in LeftOf(at), m \in DOMAIN out' \ DOMAIN out :
         /\ First(i, LeftOf(at))
         /\ left' = left \ {i}
         /\ out'[m] = Result(ranked[i])
         /\ \A n \in DOMAIN out' \ DOMAIN out : n # m => Added(i, m, n)
  BY AttachStep
<1>2. /\ out \in Seq(Item) /\ out' \in Seq(Item)
      /\ \A n \in DOMAIN out : n \in DOMAIN out' /\ out'[n] = out[n]
  BY AttachStep
<1>3. UNCHANGED <<ranked, pc>> /\ pc = "ranked"
  BY DEF Attach
<1>4. left \subseteq DOMAIN ranked /\ ranked \in Seq(Chunk)
  BY DEF IInv, TypeInv, TypeOK
<1>5. i \in left /\ i \in DOMAIN ranked /\ ranked[i] \in Chunk /\ ranked[i].report = at
  BY <1>4 DEF LeftOf
<1>6. Placed' = Placed \cup {i}
  BY <1>1, <1>3, <1>5 DEF Placed
<1>7. \A n \in DOMAIN out : n < m
  BY <1>2
<1>8. \A n \in DOMAIN out' \ DOMAIN out : n # m => out'[n].parent # <<>>
  BY <1>1, <1>5, ResultsAreNotContext DEF Added
<1>9. out'[m].parent = <<>> /\ out'[m].chunk = ranked[i] /\ m \in DOMAIN out'
  BY <1>1 DEF Result
<1>10. \A k \in Placed' : \E n \in DOMAIN out' : out'[n] = Result(ranked'[k])
  BY <1>1, <1>2, <1>3, <1>6 DEF ResultsInv
<1>11. \A n \in DOMAIN out' :
         out'[n].parent = <<>> => \E k \in Placed' : ranked'[k] = out'[n].chunk
  BY <1>2, <1>3, <1>6, <1>8, <1>9 DEF ResultsInv
<1>12. ASSUME NEW n \in DOMAIN out', NEW j \in DOMAIN out',
              out'[n].chunk.report = out'[j].chunk.report,
              n < j, out'[n].parent = <<>>, out'[j].parent = <<>>
       PROVE  \E k, l \in DOMAIN ranked :
                 k < l /\ ranked[k] = out'[n].chunk /\ ranked[l] = out'[j].chunk
  <2>1. CASE n \in DOMAIN out /\ j \in DOMAIN out
    BY <1>2, <1>12, <2>1 DEF ResultsInv, Misplaced
  <2>2. CASE n \in DOMAIN out /\ j = m
    <3>1. PICK k \in Placed : ranked[k] = out'[n].chunk
      BY <1>2, <1>12, <2>2 DEF ResultsInv
    <3>2. ranked[k].report = ranked[i].report
      BY <1>9, <1>12, <2>2, <3>1
    <3>3. k < i
      BY <1>5, <3>2 DEF ResultsInv
    <3> QED
      BY <1>5, <1>9, <2>2, <3>1, <3>3 DEF Placed
  <2>3. n \in DOMAIN out \cup {m} /\ j \in DOMAIN out \cup {m}
    BY <1>8, <1>12
  <2>4. n \in Int /\ j \in Int /\ m \in Int
    BY <1>2
  <2> QED
    BY <1>7, <1>12, <2>1, <2>2, <2>3, <2>4
<1>13. \A n, j \in DOMAIN out' :
          out'[n].chunk.report = out'[j].chunk.report => ~Misplaced(n, j)'
  BY <1>3, <1>12 DEF Misplaced
<1>14. ASSUME NEW k \in Placed', NEW l \in left', ranked[k].report = ranked[l].report
       PROVE  k < l
  <2>1. l \in left /\ l # i
    BY <1>1
  <2>2. CASE k = i
    <3>1. l \in LeftOf(at) /\ i <= l
      BY <1>1, <1>5, <1>14, <2>1, <2>2 DEF LeftOf, First
    <3> QED
      BY <1>4, <1>5, <2>1, <2>2, <3>1
  <2>3. CASE k \in Placed
    BY <1>14, <2>1, <2>3 DEF ResultsInv
  <2> QED
    BY <1>6, <2>2, <2>3
<1> QED
  BY <1>3, <1>10, <1>11, <1>13, <1>14 DEF ResultsInv

(* A step that leaves the results and their rows alone.                    *)
LEMMA KeptResults ==
  ASSUME ResultsInv, UNCHANGED <<ranked, left, out>>, pc' = "answered" => left = {}
  PROVE  ResultsInv'
  BY DEF ResultsInv, Placed, Misplaced

LEMMA NoResults ==
  ASSUME ranked' = <<>>, left' = {}, out' = <<>>
  PROVE  ResultsInv'
<1>1. DOMAIN ranked' = {} /\ DOMAIN out' = {}
  OBVIOUS
<1> QED
  BY <1>1 DEF ResultsInv, Placed

LEMMA NextResults == IInv /\ ResultsInv /\ [Next]_vars => ResultsInv'
<1> SUFFICES ASSUME IInv, ResultsInv, [Next]_vars PROVE ResultsInv'
  OBVIOUS
<1>1. CASE \/ \E r \in Reports, ks \in SUBSET Keys : Commit(r, ks)
           \/ CheckChannel \/ Embed \/ FirstPass \/ Expand \/ Retrieve \/ Fuse \/ Fetch \/ Answer
           \/ UNCHANGED vars
  <2>1. UNCHANGED <<ranked, left, out>>
    BY <1>1 DEF Commit, CheckChannel, Embed, FirstPass, Expand, Retrieve, Fuse, Fetch, Answer,
                vars, query
  <2>2. pc' = "answered" => left = {}
    <3>1. pc' = "answered" => pc = "answered" \/ Answer \/ Retrieve
      BY <1>1 DEF Commit, CheckChannel, Embed, FirstPass, Expand, Fuse, Fetch, vars
    <3>2. Retrieve => pc \notin {"ranked", "answered"}
      BY DEF Retrieve
    <3> QED
      BY <3>1, <3>2 DEF ResultsInv, Answer, IInv, FoundInv, StageOK
  <2> QED
    BY <2>1, <2>2, KeptResults
<1>2. CASE Fail \/ \E c \in Channels, r \in Reports \cup {AnyReport}, o \in Options : Ask(c, r, o)
  <2>1. Forget
    BY <1>2 DEF Fail, Ask
  <2> QED
    BY <2>1, NoResults DEF Forget
<1>3. CASE Rank
  BY <1>3, RankResults
<1>4. CASE Attach
  BY <1>4, AttachResults
<1> QED
  BY <1>1, <1>2, <1>3, <1>4 DEF Next

(* The loop over the reports of the results and over the results of each   *)
(* (_attach_neighbours) returns all of them, none twice, and those of one  *)
(* report as they were ranked, even those that a commit has taken away.    *)
THEOREM NoResultIsLost == Spec => []ResultsSurvive
<1>1. Init => ResultsInv
  <2>1. ASSUME Init PROVE DOMAIN ranked = {} /\ DOMAIN out = {} /\ left = {}
    BY <2>1 DEF Init
  <2> QED
    BY <2>1 DEF ResultsInv, Placed
<1>2. ResultsInv => ResultsSurvive
  BY DEF ResultsInv, ResultsSurvive, Placed
<1> QED
  BY <1>1, <1>2, NextResults, InvHolds, PTL DEF Spec

-----------------------------------------------------------------------------
(* Context is adjacent.                                                    *)

(* As many rows as they have keys.                                         *)
LEMMA KeyCount ==
  ASSUME NEW S \in SUBSET Chunk, IsFiniteSet(S), SameDocument(S)
  PROVE  Cardinality({c.key : c \in S}) = Cardinality(S)
<1> DEFINE K == {c.key : c \in S}
           f == [c \in S |-> c.key]
<1>1. f \in Surjection(S, K)
  BY DEF Surjection
<1>2. f \in Injection(S, K)
  BY DEF Injection, IsInjective, SameDocument
<1> QED
  BY <1>1, <1>2, FS_Surjection

(* From one row to another: those after the one, up to the other, and      *)
(* those from the one, before the other.                                   *)
UpToRow(S, c, d)   == {e \in S : c.key < e.key /\ e.key <= d.key}
BeforeRow(S, c, d) == {e \in S : c.key <= e.key /\ e.key < d.key}

LEMMA CountOff ==
  ASSUME NEW S \in SUBSET Chunk, IsFiniteSet(S), SameDocument(S),
         NEW c \in S, NEW d \in S, c.key < d.key
  PROVE  /\ Cardinality(UpToRow(S, c, d)) = Pos(S, d) - Pos(S, c)
         /\ Cardinality(BeforeRow(S, c, d)) = Pos(S, d) - Pos(S, c)
<1> DEFINE B(x) == {e \in S : e.key <= x.key}
           L(x) == B(x) \ {x}
<1>1. \A e \in S : e.key \in Int
  BY DEF Chunk, Keys
<1>2. IsFiniteSet(B(c)) /\ IsFiniteSet(B(d))
  BY FS_Subset
<1>3. Cardinality(B(c)) \in Nat /\ Cardinality(B(d)) \in Nat
  BY <1>2, FS_CardinalityType
<1>4. Cardinality(UpToRow(S, c, d)) = Cardinality(B(d)) - Cardinality(B(c))
  <2>1. B(d) \ B(c) = UpToRow(S, c, d) /\ B(d) \cap B(c) = B(c)
    BY <1>1 DEF UpToRow
  <2>2. Cardinality(B(d) \ B(c)) = Cardinality(B(d)) - Cardinality(B(d) \cap B(c))
    BY <1>2, FS_Difference
  <2> QED
    BY <2>1, <2>2
<1>5. Cardinality(BeforeRow(S, c, d)) = Cardinality(B(d)) - Cardinality(B(c))
  <2>1. c \in B(c) /\ d \in B(d)
    BY <1>1
  <2>2. L(d) \ L(c) = BeforeRow(S, c, d) /\ L(d) \cap L(c) = L(c)
    <3>1. \A e \in S : e.key = c.key <=> e = c
      BY DEF SameDocument
    <3>2. \A e \in S : e.key = d.key <=> e = d
      BY DEF SameDocument
    <3>3. L(c) = {e \in S : e.key < c.key} /\ L(d) = {e \in S : e.key < d.key}
      BY <1>1, <3>1, <3>2
    <3> HIDE DEF L
    <3> QED
      BY <1>1, <3>3 DEF BeforeRow
  <2>3. /\ IsFiniteSet(L(c)) /\ Cardinality(L(c)) = Cardinality(B(c)) - 1
        /\ IsFiniteSet(L(d)) /\ Cardinality(L(d)) = Cardinality(B(d)) - 1
    <3> HIDE DEF B
    <3> QED
      BY <1>2, <2>1, FS_RemoveElement
  <2>4. Cardinality(L(d) \ L(c)) = Cardinality(L(d)) - Cardinality(L(d) \cap L(c))
    <3> HIDE DEF L
    <3> QED
      BY <2>3, FS_Difference
  <2> HIDE DEF B, L
  <2>5. /\ Cardinality(BeforeRow(S, c, d)) = Cardinality(L(d) \ L(c))
        /\ Cardinality(L(d) \cap L(c)) = Cardinality(L(c))
    BY <2>2, Zenon
  <2> QED
    BY <1>3, <2>3, <2>4, <2>5
<1> QED
  BY <1>4, <1>5 DEF Pos

(* The text between a row and the result it is context of.                 *)
Between(c, p) ==
    {k \in versions[c.report][c.version] :
       (p.key < k /\ k <= c.key) \/ (c.key <= k /\ k < p.key)}

LEMMA NearIsAdjacent ==
  ASSUME IInv, at # AnyReport, NEW p \in window, NEW c \in window, Near(c, p)
  PROVE  /\ c # p
         /\ c.version \in 1 .. Len(versions[c.report])
         /\ Cardinality(Between(c, p)) \in 1 .. options.around
<1>1. PICK v \in 1 .. Len(versions[at]) : window = VersionOf(at, v)
  BY DEF IInv, FoundInv, WindowOK
<1>2. /\ IsFiniteSet(window) /\ window \in SUBSET Chunk /\ SameDocument(window)
      /\ at \in Reports
  BY WindowFacts
<1>3. c.report = at /\ c.version = v /\ c \in Chunk /\ p \in Chunk
  BY <1>1 DEF VersionOf
<1>4. c.key \in Int /\ p.key \in Int
  BY <1>3 DEF Chunk, Keys
<1>5. versions[at][v] = {d.key : d \in window} /\ \A d \in window : d.key \in Int
  <2>1. versions[at][v] \subseteq Keys
    BY <1>2 DEF IInv, TypeInv, TypeOK
  <2>2. v \in Nat \ {0}
    OBVIOUS
  <2>3. \A k \in versions[at][v] : [report |-> at, version |-> v, key |-> k] \in window
    BY <1>1, <1>2, <2>1, <2>2 DEF VersionOf, Chunk
  <2>4. \A d \in window : d.key \in versions[at][v]
    BY <1>1 DEF VersionOf
  <2>5. ASSUME NEW k \in versions[at][v] PROVE \E d \in window : d.key = k
    <3> DEFINE d == [report |-> at, version |-> v, key |-> k]
    <3>1. d \in window /\ d.key = k
      BY <2>3
    <3> QED
      BY <3>1
  <2> QED
    BY <2>1, <2>4, <2>5 DEF Keys
<1>6. /\ Pos(window, c) \in Nat /\ Pos(window, p) \in Nat
  BY <1>2, PosType
<1>7. options.around \in Nat
  BY ConstantsAssumption DEF IInv, TypeInv, TypeOK, Option
<1>8. CASE c.key = p.key
  <2>1. c = p
    BY <1>2, <1>8 DEF SameDocument
  <2> QED
    BY <1>6, <1>7, <2>1 DEF Near
<1>9. CASE p.key < c.key
  <2>1. Between(c, p) = {d.key : d \in UpToRow(window, p, c)}
    BY <1>3, <1>4, <1>5, <1>9 DEF Between, UpToRow
  <2>2. /\ UpToRow(window, p, c) \in SUBSET Chunk
        /\ IsFiniteSet(UpToRow(window, p, c)) /\ SameDocument(UpToRow(window, p, c))
    BY <1>2, FS_Subset DEF UpToRow, SameDocument
  <2>3. Cardinality(Between(c, p)) = Pos(window, c) - Pos(window, p)
    BY <1>2, <1>9, <2>1, <2>2, KeyCount, CountOff
  <2>4. Pos(window, p) < Pos(window, c)
    BY <1>2, <1>9, PosGrows
  <2> QED
    BY <1>1, <1>3, <1>6, <1>7, <1>9, <2>3, <2>4 DEF Near
<1>10. CASE c.key < p.key
  <2>1. Between(c, p) = {d.key : d \in BeforeRow(window, c, p)}
    BY <1>3, <1>4, <1>5, <1>10 DEF Between, BeforeRow
  <2>2. /\ BeforeRow(window, c, p) \in SUBSET Chunk
        /\ IsFiniteSet(BeforeRow(window, c, p)) /\ SameDocument(BeforeRow(window, c, p))
    BY <1>2, FS_Subset DEF BeforeRow, SameDocument
  <2>3. Cardinality(Between(c, p)) = Pos(window, p) - Pos(window, c)
    BY <1>2, <1>10, <2>1, <2>2, KeyCount, CountOff
  <2>4. Pos(window, c) < Pos(window, p)
    BY <1>2, <1>10, PosGrows
  <2> QED
    BY <1>1, <1>3, <1>6, <1>7, <1>10, <2>3, <2>4 DEF Near
<1> QED
  BY <1>4, <1>8, <1>9, <1>10

ContextOK(row) ==
    row.parent # <<>> =>
        /\ row.chunk # row.parent
        /\ row.chunk.version \in 1 .. Len(versions[row.chunk.report])
        /\ Cardinality(Between(row.chunk, row.parent)) \in 1 .. options.around
        /\ IsContext(row.chunk)

ContextInv == \A i \in DOMAIN out : ContextOK(out[i])

LEMMA NextContext == IInv /\ ContextInv /\ [Next]_vars => ContextInv'
<1> SUFFICES ASSUME IInv, ContextInv, [Next]_vars PROVE ContextInv'
  OBVIOUS
<1>1. ASSUME NEW r \in Reports, NEW ks \in SUBSET Keys, Commit(r, ks) PROVE ContextInv'
  <2>1. UNCHANGED <<out, ranked, options>> /\ versions' = [versions EXCEPT ![r] = Append(@, ks)]
    BY <1>1 DEF Commit, query, asked
  <2>2. versions \in [Reports -> Seq(SUBSET Keys)]
    BY DEF IInv, TypeInv, TypeOK
  <2>3. \A q \in Reports : \A v \in 1 .. Len(versions[q]) :
          v \in 1 .. Len(versions'[q]) /\ versions'[q][v] = versions[q][v]
    <3> SUFFICES ASSUME NEW q \in Reports, NEW v \in 1 .. Len(versions[q])
                 PROVE  v \in 1 .. Len(versions'[q]) /\ versions'[q][v] = versions[q][v]
      OBVIOUS
    <3>1. CASE q # r
      BY <2>1, <2>2, <3>1
    <3>2. CASE q = r
      <4>1. versions[r] \in Seq(SUBSET Keys) /\ versions'[r] = Append(versions[r], ks)
        BY <2>1, <2>2
      <4> HIDE DEF Keys
      <4>2. /\ Len(Append(versions[r], ks)) = Len(versions[r]) + 1
            /\ \A i \in 1 .. Len(versions[r]) : Append(versions[r], ks)[i] = versions[r][i]
        BY <4>1, AppendProperties
      <4> QED
        BY <3>2, <4>1, <4>2
    <3> QED
      BY <3>1, <3>2
  <2>4. \A i \in DOMAIN out : out[i].chunk.report \in Reports
    <3>1. out \in Seq(Item)
      BY DEF IInv, TypeInv, TypeOK
    <3>2. \A row \in Item : row.chunk.report \in Reports
      BY DEF Item, Chunk
    <3> QED
      BY <3>1, <3>2
  <2>5. ASSUME NEW i \in DOMAIN out, out[i].parent # <<>> PROVE ContextOK(out[i])'
    <3> DEFINE c == out[i].chunk
    <3>1. ContextOK(out[i]) /\ c.report \in Reports /\ c.version \in 1 .. Len(versions[c.report])
      BY <2>4, <2>5 DEF ContextInv, ContextOK
    <3>2. /\ c.version \in 1 .. Len(versions'[c.report])
          /\ versions'[c.report][c.version] = versions[c.report][c.version]
      BY <2>3, <3>1
    <3>3. Between(c, out[i].parent)' = Between(c, out[i].parent)
      BY <2>1, <3>2 DEF Between
    <3> QED
      BY <2>1, <2>5, <3>1, <3>2, <3>3 DEF ContextOK, IsContext
  <2> QED
    BY <2>1, <2>5 DEF ContextInv, ContextOK
<1>2. CASE \/ CheckChannel \/ Embed \/ FirstPass \/ Expand \/ Retrieve \/ Fuse \/ Fetch \/ Answer
           \/ UNCHANGED vars
  <2>1. UNCHANGED <<versions, options, ranked, out>>
    BY <1>2 DEF CheckChannel, Embed, FirstPass, Expand, Retrieve, Fuse, Fetch, Answer,
                vars, query, asked
  <2> QED
    BY <2>1 DEF ContextInv, ContextOK, Between, IsContext
<1>3. CASE Fail \/ \E c \in Channels, r \in Reports \cup {AnyReport}, o \in Options : Ask(c, r, o)
  <2>1. out' = <<>>
    BY <1>3 DEF Fail, Ask, Forget
  <2>2. DOMAIN out' = {}
    BY <2>1
  <2> QED
    BY <2>2 DEF ContextInv
<1>4. CASE Rank
  <2>1. out = <<>>
    BY <1>4 DEF Rank, IInv, FoundInv, StageOK
  <2>2. CASE out' = out
    <3>1. DOMAIN out' = {}
      BY <2>1, <2>2
    <3> QED
      BY <3>1 DEF ContextInv
  <2>3. CASE out' = [i \in DOMAIN ranked' |-> Result(ranked'[i])]
    BY <2>3 DEF ContextInv, ContextOK, Result
  <2> QED
    BY <1>4, <2>2, <2>3 DEF Rank
<1>5. CASE Attach
  <2>1. PICK i \in LeftOf(at), m \in DOMAIN out' \ DOMAIN out :
           /\ out'[m] = Result(ranked[i])
           /\ \A n \in DOMAIN out' \ DOMAIN out : n # m => Added(i, m, n)
    BY <1>5, AttachStep
  <2>2. \A n \in DOMAIN out : n \in DOMAIN out' /\ out'[n] = out[n]
    BY <1>5, AttachStep
  <2>3. UNCHANGED <<versions, options, ranked>>
    BY <1>5 DEF Attach, asked
  <2>4. at # AnyReport
    <3>1. left \subseteq DOMAIN ranked /\ ranked \in Seq(Chunk)
      BY DEF IInv, TypeInv, TypeOK
    <3>2. ranked[i].report = at /\ ranked[i] \in Chunk
      BY <3>1 DEF LeftOf
    <3> QED
      BY <3>2, ConstantsAssumption DEF Chunk
  <2>5. ASSUME NEW n \in DOMAIN out' PROVE ContextOK(out[n])'
    <3>1. CASE n \in DOMAIN out
      <4>1. ContextOK(out[n]) /\ out'[n] = out[n]
        BY <2>2, <3>1 DEF ContextInv
      <4> QED
        BY <2>3, <4>1 DEF ContextOK, Between, IsContext
    <3>2. CASE n = m
      BY <2>1, <3>2 DEF ContextOK, Result
    <3>3. CASE n \notin DOMAIN out /\ n # m
      <4> DEFINE c == out'[n].chunk
                 p == ranked[i]
      <4>1. p \in window /\ c \in window /\ Near(c, p) /\ out'[n].parent = p /\ IsContext(c)
        BY <2>1, <3>3 DEF Added
      <4>2. /\ c # p
            /\ c.version \in 1 .. Len(versions[c.report])
            /\ Cardinality(Between(c, p)) \in 1 .. options.around
        BY <2>4, <4>1, NearIsAdjacent
      <4>3. Between(c, p) = Between(out[n].chunk, out[n].parent)'
        BY <2>3, <4>1 DEF Between
      <4> QED
        BY <2>3, <4>1, <4>2, <4>3 DEF ContextOK, IsContext
    <3> QED
      BY <3>1, <3>2, <3>3
  <2> QED
    BY <2>5 DEF ContextInv
<1> QED
  BY <1>1, <1>2, <1>3, <1>4, <1>5 DEF Next

(* Context is the text around its result, in the version of the result: no *)
(* further than was asked for, never the result itself or another one,     *)
(* even while the report is replaced (_NEIGHBOURS_SQL counts positions in  *)
(* the report, where the chunk index of a page would not do).              *)
THEOREM ContextSurroundsResults == Spec => []ContextIsAdjacent
<1>1. Init => ContextInv
  <2>1. ASSUME Init PROVE DOMAIN out = {}
    BY <2>1 DEF Init
  <2> QED
    BY <2>1 DEF ContextInv
<1>2. ContextInv => ContextIsAdjacent
  BY DEF ContextInv, ContextOK, ContextIsAdjacent, Between, IsContext
<1> QED
  BY <1>1, <1>2, NextContext, InvHolds, PTL DEF Spec

-----------------------------------------------------------------------------
(* The fused order.                                                        *)

LEMMA Monotone ==
  ASSUME NEW x \in Nat, NEW y \in Nat, NEW u \in Nat, u > 0
  PROVE  /\ x <= y => x * u <= y * u
         /\ x < y => x * u < y * u
<1>1. ASSUME NEW d \in Nat, y = x + d PROVE x * u <= y * u /\ (d > 0 => x * u < y * u)
  <2>1. y * u = x * u + d * u
    BY <1>1
  <2>2. d * u \in Nat /\ x * u \in Nat /\ (d > 0 => d * u > 0)
    OBVIOUS
  <2> QED
    BY <2>1, <2>2
<1>2. x <= y => y - x \in Nat /\ y = x + (y - x)
  OBVIOUS
<1> QED
  BY <1>1, <1>2

(* A sum of two shares grows with both of them.                            *)
LEMMA SumOfShares ==
  ASSUME NEW a \in Nat, NEW b \in Nat, NEW c \in Nat, NEW d \in Nat,
         NEW aa \in Nat, NEW bb \in Nat, NEW cc \in Nat, NEW dd \in Nat,
         aa > 0, bb > 0, cc > 0, dd > 0,
         c * aa <= a * cc, d * bb <= b * dd,
         c * aa < a * cc \/ d * bb < b * dd
  PROVE  (c * dd + d * cc) * (aa * bb) < (a * bb + b * aa) * (cc * dd)
<1> DEFINE x == c * aa
           y == a * cc
           z == d * bb
           w == b * dd
           u == dd * bb
           v == cc * aa
<1>1. (c * dd + d * cc) * (aa * bb) = x * u + z * v
  OBVIOUS
<1>2. (a * bb + b * aa) * (cc * dd) = y * u + w * v
  OBVIOUS
<1>3. x \in Nat /\ y \in Nat /\ z \in Nat /\ w \in Nat /\ u \in Nat /\ v \in Nat /\ u > 0 /\ v > 0
  OBVIOUS
<1>4. x <= y /\ z <= w /\ (x < y \/ z < w)
  OBVIOUS
<1> HIDE DEF x, y, z, w, u, v
<1>5. /\ x * u <= y * u /\ (x < y => x * u < y * u)
      /\ z * v <= w * v /\ (z < w => z * v < w * v)
  BY <1>3, <1>4, Monotone
<1>6. x * u \in Nat /\ y * u \in Nat /\ z * v \in Nat /\ w * v \in Nat
  BY <1>3
<1>7. x * u + z * v < y * u + w * v
  BY <1>4, <1>5, <1>6
<1> QED
  BY <1>1, <1>2, <1>7

Better(a, b) == a # 0 /\ (b = 0 \/ a < b)

LEMMA ShareGrows ==
  ASSUME NEW weight \in Nat, NEW a \in Nat, NEW b \in Nat, Better(a, b)
  PROVE  /\ Share(weight, a)[1] \in Nat /\ Share(weight, a)[2] \in Nat
         /\ Share(weight, b)[1] \in Nat /\ Share(weight, b)[2] \in Nat
         /\ Share(weight, a)[2] > 0 /\ Share(weight, b)[2] > 0
         /\ Share(weight, b)[1] * Share(weight, a)[2] <= Share(weight, a)[1] * Share(weight, b)[2]
         /\ weight > 0 =>
              Share(weight, b)[1] * Share(weight, a)[2] < Share(weight, a)[1] * Share(weight, b)[2]
<1>1. RrfK \in Nat
  BY ConstantsAssumption
<1>2. Share(weight, a) = <<weight, RrfK + a>> /\ a > 0
  BY DEF Share, Better
<1>3. CASE b = 0
  <2>1. Share(weight, b) = <<0, 1>>
    BY <1>3 DEF Share
  <2> QED
    BY <1>1, <1>2, <2>1
<1>4. CASE b # 0
  <2>1. Share(weight, b) = <<weight, RrfK + b>> /\ a < b
    BY <1>4 DEF Share, Better
  <2> DEFINE x == RrfK + a
             y == RrfK + b
  <2>2. x \in Nat /\ y \in Nat /\ 0 < x /\ x < y
    BY <1>1, <1>2, <2>1
  <2> HIDE DEF x, y
  <2>3. x * weight <= y * weight /\ (weight > 0 => x * weight < y * weight)
    <3>1. CASE weight > 0
      BY <2>2, <3>1, Monotone
    <3>2. CASE weight = 0
      BY <2>2, <3>2
    <3> QED
      BY <3>1, <3>2
  <2>4. weight * x = x * weight /\ weight * y = y * weight
    BY <2>2
  <2>5. Share(weight, a)[1] = weight /\ Share(weight, a)[2] = x
        /\ Share(weight, b)[1] = weight /\ Share(weight, b)[2] = y
    BY <1>2, <2>1 DEF x, y
  <2> QED
    BY <2>2, <2>3, <2>4, <2>5
<1> QED
  BY <1>3, <1>4

LEMMA BetterScoresHigher ==
  ASSUME NEW g \in Hit, NEW h \in Hit, Better(g.dense, h.dense), Better(g.sparse, h.sparse)
  PROVE  ~NotBelow(h, g)
<1> DEFINE dg == Share(DenseWeight, g.dense)
           sg == Share(SparseWeight, g.sparse)
           dh == Share(DenseWeight, h.dense)
           sh == Share(SparseWeight, h.sparse)
<1>1. /\ g.dense \in Nat /\ g.sparse \in Nat /\ h.dense \in Nat /\ h.sparse \in Nat
      /\ DenseWeight \in Nat /\ SparseWeight \in Nat /\ DenseWeight + SparseWeight > 0
  BY ConstantsAssumption DEF Hit
<1>2. /\ dg[1] \in Nat /\ dg[2] \in Nat /\ dh[1] \in Nat /\ dh[2] \in Nat
      /\ dg[2] > 0 /\ dh[2] > 0
      /\ dh[1] * dg[2] <= dg[1] * dh[2]
      /\ DenseWeight > 0 => dh[1] * dg[2] < dg[1] * dh[2]
  BY <1>1, ShareGrows
<1>3. /\ sg[1] \in Nat /\ sg[2] \in Nat /\ sh[1] \in Nat /\ sh[2] \in Nat
      /\ sg[2] > 0 /\ sh[2] > 0
      /\ sh[1] * sg[2] <= sg[1] * sh[2]
      /\ SparseWeight > 0 => sh[1] * sg[2] < sg[1] * sh[2]
  BY <1>1, ShareGrows
<1>4. /\ Rrf(g)[1] = dg[1] * sg[2] + sg[1] * dg[2] /\ Rrf(g)[2] = dg[2] * sg[2]
      /\ Rrf(h)[1] = dh[1] * sh[2] + sh[1] * dh[2] /\ Rrf(h)[2] = dh[2] * sh[2]
  BY DEF Rrf
<1> HIDE DEF dg, sg, dh, sh
<1>5. DenseWeight > 0 \/ SparseWeight > 0
  BY <1>1
<1>6. (dh[1] * sh[2] + sh[1] * dh[2]) * (dg[2] * sg[2])
        < (dg[1] * sg[2] + sg[1] * dg[2]) * (dh[2] * sh[2])
  BY <1>2, <1>3, <1>5, SumOfShares
<1>7. Rrf(h)[1] * Rrf(g)[2] < Rrf(g)[1] * Rrf(h)[2]
  BY <1>4, <1>6
<1>8. Rrf(h)[1] * Rrf(g)[2] \in Nat /\ Rrf(g)[1] * Rrf(h)[2] \in Nat
  BY <1>2, <1>3, <1>4
<1>9. ~(Rrf(h)[1] * Rrf(g)[2] >= Rrf(g)[1] * Rrf(h)[2])
  BY <1>7, <1>8
<1> QED
  BY <1>9 DEF NotBelow

LEMMA FuseOrders == ASSUME IInv, Fuse PROVE BetterOnBothComesFirst'
<1>1. IsFiniteSet(hits) /\ hits \subseteq Hit
  BY DEF IInv, FoundInv, HitsOK, TypeInv, TypeOK
<1>2. PICK s \in SetToSeqs(hits) :
         /\ \A i, j \in DOMAIN s : i < j => NotBelow(s[i], s[j])
         /\ pool' = UpTo(s, FusedLimit)
  BY DEF Fuse
<1>3. s \in Seq(hits) /\ \A x \in hits : \E i \in DOMAIN s : s[i] = x
  BY <1>1, Listing
<1>4. FusedLimit \in Nat
  BY LimitType DEF IInv, TypeInv
<1>5. /\ pool' \in Seq(hits)
      /\ Len(pool') = IF Len(s) < FusedLimit THEN Len(s) ELSE FusedLimit
      /\ \A i \in DOMAIN pool' : i \in DOMAIN s /\ pool'[i] = s[i]
  BY <1>2, <1>3, <1>4, CutOff
<1>6. hits' = hits
  BY DEF Fuse
<1> SUFFICES ASSUME NEW g \in hits, NEW j \in DOMAIN pool',
                    Better(g.dense, pool'[j].dense), Better(g.sparse, pool'[j].sparse)
             PROVE  \E i \in 1 .. j - 1 : pool'[i] = g
  BY <1>6 DEF BetterOnBothComesFirst, Better
<1>7. PICK i \in DOMAIN s : s[i] = g
  BY <1>3
<1>8. j \in DOMAIN s /\ pool'[j] = s[j] /\ s[j] \in hits
  BY <1>3, <1>5
<1>9. ~NotBelow(s[j], s[i])
  BY <1>1, <1>7, <1>8, BetterScoresHigher
<1>10. i \in Nat /\ i >= 1 /\ j \in Nat /\ j <= Len(pool')
  BY <1>3, <1>5
<1>11. i # j
  <2>1. ~(Better(g.dense, g.dense))
    BY <1>1 DEF Better, Hit
  <2> QED
    BY <1>7, <1>8, <2>1
<1>12. ~(j < i)
  BY <1>2, <1>7, <1>8, <1>9
<1>13. i \in 1 .. j - 1
  BY <1>10, <1>11, <1>12
<1>14. i \in DOMAIN pool'
  BY <1>5, <1>10, <1>13
<1> QED
  BY <1>5, <1>7, <1>13, <1>14

(* A candidate that both heads rank strictly higher is never behind in the *)
(* fused pool, nor cut while the other stays, for any weights that are not *)
(* both zero and any rrf_k (_weighted_rrf).                                *)
THEOREM FusionRespectsBothHeads == Spec => []BetterOnBothComesFirst
<1>1. Init => BetterOnBothComesFirst
  BY DEF Init, BetterOnBothComesFirst
<1>2. IInv /\ BetterOnBothComesFirst /\ [Next]_vars => BetterOnBothComesFirst'
  <2> SUFFICES ASSUME IInv, BetterOnBothComesFirst, [Next]_vars PROVE BetterOnBothComesFirst'
    OBVIOUS
  <2>1. CASE Fuse
    BY <2>1, FuseOrders
  <2>2. CASE UNCHANGED <<pc, hits, pool>>
    BY <2>2 DEF BetterOnBothComesFirst
  <2>3. CASE pc' # "fused"
    BY <2>3 DEF BetterOnBothComesFirst
  <2>4. Fuse \/ UNCHANGED <<pc, hits, pool>> \/ pc' # "fused"
    BY DEF Next, vars, query, Commit, Ask, CheckChannel, Fail, Embed, FirstPass, Expand,
           Retrieve, Rank, Fetch, Attach, Answer
  <2> QED
    BY <2>1, <2>2, <2>3, <2>4
<1> QED
  BY <1>1, <1>2, InvHolds, PTL DEF Spec
=============================================================================
