----------------------------- MODULE Retrieval -----------------------------
(***************************************************************************)
(* The read side of the RAG service: hybrid_query                          *)
(* (epsilon_rag/pipeline/retrieval.py) answering one question after        *)
(* another while ingests and deletions commit.  One SQL statement ranks    *)
(* the chunks of a channel by both heads of the embedding; the ranks are   *)
(* fused, a cross-encoder re-ranks the pool, and one more statement per    *)
(* report, each with a snapshot of its own, fetches the chunks around the  *)
(* results.                                                                *)
(*                                                                         *)
(* Distances and scores are arbitrary: the model chooses the rankings.  A  *)
(* chunk is identified, as by its UUID, by the report and by the version   *)
(* of the report that inserted it; its key stands for (PageNumber,         *)
(* ChunkIndex).  An ingest replaces all chunks of its report at once.      *)
(***************************************************************************)
EXTENDS Integers, Sequences, FiniteSets, SequencesExt

CONSTANTS
    Channels, Reports,
    Known,       \* the channels that exist; callers may name others
    Home,        \* the channel of each report
    MaxKey,      \* keys of chunks are 1..MaxKey
    Candidates,  \* rows each head contributes (candidates)
    TopK,        \* results asked for (top_k)
    RrfK,        \* RRF softening constant (rrf_k)
    DenseWeight, SparseWeight, \* alpha and 1 - alpha, scaled to integers
    PrfTopN,     \* size of the centroid pool of PRF (prf_topn)
    Options,     \* what a caller may ask for: see Option
    MaxWrites,   \* bound on the commits of a run
    AnyReport    \* no report filter

(* Whether the caller is the command line (query.py) or rag_service,       *)
(* whether to rerank, whether PRF is on (prf_beta > 0), and how many       *)
(* chunks to add on either side of a result (neighbours).                  *)
Option == [command : BOOLEAN, rerank : BOOLEAN, expand : BOOLEAN, around : Nat]

ASSUME ConstantsAssumption ==
    /\ Known \subseteq Channels
    /\ IsFiniteSet(Reports)
    /\ Home \in [Reports -> Known]
    /\ Options \subseteq Option
    /\ {MaxKey, MaxWrites, RrfK, DenseWeight, SparseWeight} \subseteq Nat
    /\ {Candidates, TopK, PrfTopN} \subseteq Nat \ {0}
    /\ DenseWeight + SparseWeight > 0
    /\ AnyReport \notin Reports

VARIABLES
    versions,  \* the versions of each report: the keys of its chunks
    writes,    \* how many commits there have been
    pc,        \* stage of the query
    chan, only, options, \* its channel_id, report filter and options
    hits,      \* rows of the hybrid SQL: chunks with their ranks
    centroid,  \* the rows whose embeddings PRF has averaged
    pool,      \* the fused candidates, in order
    ranked,    \* the results, in order
    left,      \* which of them are not yet in the answer
    at,        \* the report whose results are being given their context
    window,    \* the chunks read for that
    out        \* the rows of the answer so far

asked == <<chan, only, options>>
query == <<asked, hits, centroid, pool, ranked, left, at, window, out>>
vars  == <<versions, writes, pc, query>>

(* No answer yet or an error, an answer, and the command line's refusal.   *)
Ended   == {"idle", "answered", "refused"}
Running == {"asked", "checked", "embedded", "first pass", "expanded", "retrieved",
            "fused", "ranked"}

Keys  == 1..MaxKey
Chunk == [report : Reports, version : Nat \ {0}, key : Keys]
Hit   == [chunk : Chunk, dense : 0..Candidates, sparse : 0..Candidates]
Item  == [chunk : Chunk, parent : Chunk \cup {<<>>}]

(* The committed chunks of a report, and of a query's scope.               *)
ChunksOf(r) ==
    {[report |-> r, version |-> Len(versions[r]), key |-> k] :
        k \in versions[r][Len(versions[r])]}

(* Mutated form of Scope: a report filter replaces that of the channel.    *)
ScopeReportOnly(c, r) ==
    UNION {ChunksOf(q) : q \in {q \in Reports : IF r = AnyReport THEN Home[q] = c ELSE q = r}}

Scope(c, r) ==
    UNION {ChunksOf(q) :
             q \in {q \in Reports : Home[q] = c /\ r \in {q, AnyReport}}}

TypeOK ==
    /\ versions \in [Reports -> Seq(SUBSET Keys)]
    /\ writes \in 0..MaxWrites
    /\ pc \in Ended \cup Running
    /\ chan \in Channels
    /\ only \in Reports \cup {AnyReport}
    /\ options \in Options
    /\ hits \subseteq Hit
    /\ centroid \subseteq Chunk
    /\ pool \in Seq(Hit)
    /\ ranked \in Seq(Chunk)
    /\ left \subseteq DOMAIN ranked
    /\ at \in Reports \cup {AnyReport}
    /\ window \subseteq Chunk
    /\ out \in Seq(Item)

Forget ==
    /\ hits' = {}
    /\ centroid' = {}
    /\ pool' = <<>>
    /\ ranked' = <<>>
    /\ left' = {}
    /\ at' = AnyReport
    /\ window' = {}
    /\ out' = <<>>

Init ==
    /\ versions = [r \in Reports |-> <<Keys>>]
    /\ writes = 0
    /\ pc = "idle"
    /\ chan \in Channels
    /\ only = AnyReport
    /\ options \in Options
    /\ hits = {} /\ centroid = {} /\ pool = <<>> /\ ranked = <<>>
    /\ left = {} /\ at = AnyReport /\ window = {} /\ out = <<>>

-----------------------------------------------------------------------------
(* The writers: an ingest or a deletion commits.                           *)
Commit(r, ks) ==
    /\ writes < MaxWrites
    /\ writes' = writes + 1
    /\ versions' = [versions EXCEPT ![r] = Append(@, ks)]
    /\ UNCHANGED <<pc, query>>

-----------------------------------------------------------------------------
(* The query                                                               *)

(* POST /query, for the channel of the caller's token, or the command line.*)
Ask(c, r, o) ==
    /\ pc \in Ended
    /\ Forget
    /\ chan' = c
    /\ only' = r
    /\ options' = o
    /\ pc' = "asked"
    /\ UNCHANGED <<versions, writes>>

(* The command line asks whether the channel exists; rag_service does not, *)
(* and answers a question about no channel with no results.                *)
CheckChannel ==
    /\ pc = "asked"
    /\ options.command
    /\ pc' = IF chan \in Known THEN "checked" ELSE "refused"
    /\ UNCHANGED <<versions, writes, query>>

Embed ==
    /\ pc = IF options.command THEN "checked" ELSE "asked"
    /\ pc' = "embedded"
    /\ UNCHANGED <<versions, writes, query>>

(* An exception at any stage: the model is not loaded or returns nothing,  *)
(* a statement fails.  Nothing that was found is answered.                 *)
Fail ==
    /\ pc \in Running
    /\ Forget
    /\ pc' = "idle"
    /\ UNCHANGED <<versions, writes, asked>>

(* The rows of _HYBRID_SQL: what each head ranks first, with its ranks.    *)
RankIn(s, c) == IF Contains(s, c) THEN CHOOSE i \in DOMAIN s : s[i] = c ELSE 0

(* Mutated form of Rankings: a statement without LIMIT.                    *)
RankingsNoLimit(S) == SetToAllKPermutations(S)

Rankings(S) ==
    UNION {SetToSeqs(T) : T \in {T \in SUBSET S : Cardinality(T) <= Candidates}}

Rows(dense, sparse) ==
    {[chunk |-> c, dense |-> RankIn(dense, c), sparse |-> RankIn(sparse, c)] :
        c \in ToSet(dense) \cup ToSet(sparse)}

(* PRF: a first pass with the vector of the question, ...                  *)
FirstPass ==
    /\ pc = "embedded"
    /\ options.expand
    /\ \E dense, sparse \in Rankings(Scope(chan, only)) :
         hits' = Rows(dense, sparse)
    /\ pc' = "first pass"
    /\ UNCHANGED <<versions, writes, asked, centroid, pool, ranked, left, at, window, out>>

(* ... whose first rows, in whatever order they come, give the centroid.   *)
Expand ==
    /\ pc = "first pass"
    /\ \E S \in SUBSET {h.chunk : h \in hits} :
         /\ Cardinality(S) = IF Cardinality(hits) < PrfTopN
                             THEN Cardinality(hits) ELSE PrfTopN
         /\ centroid' = S
    /\ hits' = {}
    /\ pc' = "expanded"
    /\ UNCHANGED <<versions, writes, asked, pool, ranked, left, at, window, out>>

Retrieve ==
    /\ pc = IF options.expand THEN "expanded" ELSE "embedded"
    /\ \E dense, sparse \in Rankings(Scope(chan, only)) :
         hits' = Rows(dense, sparse)
    /\ centroid' = {}
    /\ pc' = IF hits' = {} THEN "answered" ELSE "retrieved"
    /\ UNCHANGED <<versions, writes, asked, pool, ranked, left, at, window, out>>

(* Mutated form of Share: a missing rank counts as the best.               *)
ShareMissingFirst(weight, rank) == <<weight, RrfK + rank>>

(* Weighted RRF: DenseWeight / (RrfK + dense) + SparseWeight / (RrfK +     *)
(* sparse), a missing rank contributing nothing, as numerator and          *)
(* denominator.                                                            *)
Share(weight, rank) == IF rank = 0 THEN <<0, 1>> ELSE <<weight, RrfK + rank>>

Rrf(h) ==
    LET d == Share(DenseWeight, h.dense)
        s == Share(SparseWeight, h.sparse)
    IN  <<d[1] * s[2] + s[1] * d[2], d[2] * s[2]>>

NotBelow(g, h) == Rrf(g)[1] * Rrf(h)[2] >= Rrf(h)[1] * Rrf(g)[2]

LargerOf(a, b) == IF a < b THEN b ELSE a

FusedLimit ==
    LET limit == LargerOf(TopK, Candidates)
    IN IF options.rerank THEN LargerOf(limit, 3 * TopK) ELSE limit

UpTo(s, n) == SubSeq(s, 1, IF Len(s) < n THEN Len(s) ELSE n)

(* Sorted by falling score, ties in any order, and cut.                    *)
Fuse ==
    /\ pc = "retrieved"
    /\ \E s \in SetToSeqs(hits) :
         /\ \A i, j \in DOMAIN s : i < j => NotBelow(s[i], s[j])
         /\ pool' = UpTo(s, FusedLimit)
    /\ pc' = "fused"
    /\ UNCHANGED <<versions, writes, asked, hits, centroid, ranked, left, at, window, out>>

(* reranker.rerank: the best of the pool in the cross-encoder's order, or  *)
(* nothing when it is not loaded or fails.                                 *)
Reranked ==
    {<<>>} \cup {UpTo(s, TopK) :
                   s \in SetToSeqs({pool[i].chunk : i \in DOMAIN pool})}

(* A row of the answer that is a result, and not context of one.           *)
Result(p) == [chunk |-> p, parent |-> <<>>]

(* _rerank: the fused order when there is no other.                        *)
Rank ==
    /\ pc = "fused"
    /\ \E s \in IF options.rerank THEN Reranked ELSE {<<>>} :
         ranked' = IF s = <<>>
                   THEN UpTo([i \in DOMAIN pool |-> pool[i].chunk], TopK)
                   ELSE s
    /\ hits' = {}
    /\ pool' = <<>>
    /\ IF options.around = 0
       THEN /\ out' = [i \in DOMAIN ranked' |-> Result(ranked'[i])]
            /\ left' = {}
            /\ pc' = "answered"
       ELSE /\ left' = DOMAIN ranked'
            /\ pc' = "ranked"
            /\ UNCHANGED out
    /\ UNCHANGED <<versions, writes, asked, centroid, at, window>>

(* ROW_NUMBER() of _NEIGHBOURS_SQL among the rows S, and the rows by it.   *)
Pos(S, c) == Cardinality({d \in S : d.key <= c.key})

ReadingOrder(S) == [n \in 1 .. Cardinality(S) |-> CHOOSE c \in S : Pos(S, c) = n]

(* The results of a report that are not yet in the answer.                 *)
LeftOf(r) == {i \in left : ranked[i].report = r}

(* Mutated form of First: the results of a report in reading order.        *)
FirstInReadingOrder(i, S) == i \in S /\ \A j \in S : ranked[i].key <= ranked[j].key

First(i, S) == i \in S /\ \A j \in S : i <= j

(* One statement for all results of a report, the reports in the order of  *)
(* their first results.                                                    *)
Fetch ==
    /\ pc = "ranked"
    /\ LeftOf(at) = {}
    /\ \E i \in left :
         /\ First(i, left)
         /\ at' = ranked[i].report
         /\ window' = Scope(chan, ranked[i].report)
    /\ UNCHANGED <<versions, writes, pc, asked, hits, centroid, pool, ranked, left, out>>

(* Mutated form of IsVisible: a parent is looked up by page and index.     *)
IsVisibleByKey(p) == \E c \in window : c.key = p.key

IsVisible(p) == p \in window

(* Mutated form of IsContext: results are not left out.                    *)
IsContextAny(c) == TRUE

IsContext(c) == \A i \in DOMAIN ranked : ranked[i] # c

(* What stands at the positions from..to of the window, as context of p.   *)
Around(p, from, to) ==
    LET S == {c \in window : Pos(window, c) \in from .. to /\ IsContext(c)}
    IN  [n \in 1 .. Cardinality(S) |-> [chunk |-> ReadingOrder(S)[n], parent |-> p]]

WithContext(p) ==
    IF IsVisible(p)
    THEN LET pos == Pos(window, p)
         IN  Around(p, pos - options.around, pos - 1) \o <<Result(p)>>
               \o Around(p, pos + 1, pos + options.around)
    ELSE <<Result(p)>>

(* The loop over the results of the report.                                *)
Attach ==
    /\ pc = "ranked"
    /\ \E i \in LeftOf(at) :
         /\ First(i, LeftOf(at))
         /\ out' = out \o WithContext(ranked[i])
         /\ left' = left \ {i}
    /\ UNCHANGED <<versions, writes, pc, asked, hits, centroid, pool, ranked, at, window>>

Answer ==
    /\ pc = "ranked"
    /\ left = {}
    /\ pc' = "answered"
    /\ at' = AnyReport
    /\ window' = {}
    /\ UNCHANGED <<versions, writes, asked, hits, centroid, pool, ranked, left, out>>

Next ==
    \/ \E r \in Reports, ks \in SUBSET Keys : Commit(r, ks)
    \/ \E c \in Channels, r \in Reports \cup {AnyReport}, o \in Options : Ask(c, r, o)
    \/ CheckChannel \/ Fail
    \/ Embed \/ FirstPass \/ Expand \/ Retrieve \/ Fuse \/ Rank \/ Fetch \/ Attach \/ Answer

Spec == Init /\ [][Next]_vars

-----------------------------------------------------------------------------
(* Properties                                                              *)

(* "Every query is channel-scoped": results, context and the rows that     *)
(* expand the question come from the query's channel, and from its report  *)
(* when it names one, whatever is committed between the statements.        *)
TenantScoped ==
    \A c \in centroid \cup {out[i].chunk : i \in DOMAIN out} :
        Home[c.report] = chan /\ only \in {c.report, AnyReport}

(* Of two candidates, the one that both heads rank strictly higher comes   *)
(* first in the fused pool, and is not cut while the other stays.          *)
BetterOnBothComesFirst ==
    pc = "fused" =>
        \A g \in hits, j \in DOMAIN pool :
            LET h == pool[j]
                Better(a, b) == a # 0 /\ (b = 0 \/ a < b)
            IN Better(g.dense, h.dense) /\ Better(g.sparse, h.sparse)
                 => \E i \in 1..(j-1) : pool[i] = g

(* An answer never mixes two versions of a report, although its results    *)
(* and their context are read by statements of different snapshots.        *)
OneVersionPerReport ==
    \A i, j \in DOMAIN out :
        out[i].chunk.report = out[j].chunk.report
            => out[i].chunk.version = out[j].chunk.version

(* Context is what the reader of the document would find around a result:  *)
(* in the version of the result, as near as was asked for, and never a     *)
(* result itself.                                                          *)
ContextIsAdjacent ==
    \A i \in DOMAIN out :
        LET c == out[i].chunk
            p == out[i].parent
            between == {k \in versions[c.report][c.version] :
                          (p.key < k /\ k <= c.key) \/ (c.key <= k /\ k < p.key)}
        IN p # <<>> => /\ c # p
                       /\ Cardinality(between) \in 1..options.around
                       /\ \A j \in DOMAIN ranked : ranked[j] # c

(* Two results of the answer that are not in the order of their rank.      *)
Misplaced(i, j) ==
    /\ i < j
    /\ out[i].parent = <<>> /\ out[j].parent = <<>>
    /\ ~ \E k, l \in DOMAIN ranked :
            k < l /\ ranked[k] = out[i].chunk /\ ranked[l] = out[j].chunk

(* The neighbour lookup loses no result, invents and repeats none, and     *)
(* keeps the order of those of a report, although it regroups them by      *)
(* report and a re-ingest or a deletion may have taken any of them out of  *)
(* the snapshot it reads.                                                  *)
ResultsSurvive ==
    pc = "answered" =>
        /\ \A k \in DOMAIN ranked : \E i \in DOMAIN out : out[i] = Result(ranked[k])
        /\ \A i \in DOMAIN out :
              out[i].parent = <<>> => \E k \in DOMAIN ranked : ranked[k] = out[i].chunk
        /\ \A i, j \in DOMAIN out :
              out[i].chunk.report = out[j].chunk.report => ~Misplaced(i, j)

(* retrieval.py _attach_neighbours: "Parents retain their RRF/rerank       *)
(* order": the results of an answer come in the order of their rank.       *)
AnswerIsRanked == pc = "answered" => \A i, j \in DOMAIN out : ~Misplaced(i, j)
=============================================================================
