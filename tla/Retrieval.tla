------------------------------ MODULE Retrieval ------------------------------
(***************************************************************************)
(* ContextForge: one search for the evidence of a message.  The service    *)
(* counts the documents, plans a route, gathers hits by several queries of *)
(* my_agents/knowledge/retrieval.py, fuses their rankings, reranks and     *)
(* packs the best into the context, and searches once more when required   *)
(* evidence was not found.  Every query decides anew what the person may   *)
(* read, and access is revoked between queries.                            *)
(*                                                                         *)
(* A wording is what the message meets in each index, as scores in         *)
(* thousandths; tokens, embeddings and similarity are left out.            *)
(***************************************************************************)
EXTENDS Integers, Sequences, SequencesExt, FiniteSetsExt

CONSTANTS
    Corpus,          \* chunk number |-> [doc, ordinal, size, text]; newer documents have larger numbers
    NoDocument,
    AmbientDocs,     \* documents of system knowledge bases
    FactTypes,       \* types of the facts extracted from documents
    SourceLimit,     \* limit of each ranking
    FactLimit,       \* limit of the facts listed
    ProfileChunks,   \* chunks taken from a document that its profile located
    RerankLimit, InjectedLimit, CharBudget, OverviewBudget,
    BatchSize,       \* candidates of one rubric request
    MaxRevocations   \* bound

Chunks == DOMAIN Corpus
Documents == {Corpus[c].doc : c \in Chunks}

ASSUME RetrievalAssumption ==
    /\ NoDocument \notin Documents /\ AmbientDocs \subseteq Documents
    /\ {SourceLimit, FactLimit, ProfileChunks, RerankLimit, InjectedLimit, CharBudget, OverviewBudget, BatchSize}
          \subseteq Nat \ {0}

VARIABLES
    granted,   \* the documents the person may read now, in the scope of the turn
    asked,     \* the wording, and how candidates are reranked
    search,    \* the search in progress
    revoked

rvars == <<granted, asked, search, revoked>>

FallbackScore == 100
ExpansionScore == 100
OverviewScore == 50

\* A search that starts: nothing found, nothing cached.
Started(attempt) ==
    [at |-> "authorized", attempt |-> attempt, counts |-> <<0, 0>>, route |-> "none",
     located |-> {}, cached |-> {}, cache |-> {}, found |-> <<>>, profiles |-> <<>>, ranked |-> <<>>,
     lexical |-> <<>>, fused |-> <<>>, judged |-> <<>>, reranked |-> <<>>, injected |-> <<>>,
     insufficient |-> FALSE]

-----------------------------------------------------------------------------
(* Rankings. *)

Ordered(S, Before(_, _)) ==
    [i \in 1..Cardinality(S) |-> CHOOSE x \in S : Cardinality({y \in S : y # x /\ Before(y, x)}) = i - 1]

First(s, n) == IF Len(s) <= n THEN s ELSE SubSeq(s, 1, n)

\* The order of rows: newer documents first, then as in the document.
RowBefore(c, d) ==
    LET a == Corpus[c] b == Corpus[d]
    IN  \/ a.doc > b.doc
        \/ a.doc = b.doc /\ a.ordinal < b.ordinal
        \/ a.doc = b.doc /\ a.ordinal = b.ordinal /\ c < d

\* The order of a ranking: by score, ordinal and id.
HitBefore(h, i) ==
    LET a == Corpus[h.chunk] b == Corpus[i.chunk]
    IN  \/ h.score > i.score
        \/ h.score = i.score /\ a.ordinal < b.ordinal
        \/ h.score = i.score /\ a.ordinal = b.ordinal /\ h.chunk < i.chunk

Hit(c, source, score) == [chunk |-> c, source |-> source, score |-> score]
Ranking(S) == Ordered(S, HitBefore)
ChunksIn(hits) == {h.chunk : h \in ToSet(hits)}
RowsOf(ds) == {c \in Chunks : Corpus[c].doc \in ds}

\* Two chunks of one document at the same place or with the same text.
Repeats(c, d) ==
    /\ Corpus[c].doc = Corpus[d].doc
    /\ \/ c = d
       \/ Corpus[c].ordinal = Corpus[d].ordinal
       \/ Corpus[c].text = Corpus[d].text

\* _dedupe_retrieved_chunks.
Dedupe(hits, limit) ==
    FoldLeft(LAMBDA kept, h : IF Len(kept) = limit \/ \E k \in ToSet(kept) : Repeats(k.chunk, h.chunk)
                              THEN kept ELSE Append(kept, h),
             <<>>, hits)

SourcesOf(hits) == {h.source : h \in ToSet(hits)}

\* _rank_retrieval_sources: each source keeps a ranking of its own.
RankSources(hits) ==
    LET Best(s) == Dedupe(Ranking({h \in ToSet(hits) : h.source = s}), SourceLimit)
    IN  FoldSet(LAMBDA s, all : all \o Best(s), <<>>, SourcesOf(hits))

-----------------------------------------------------------------------------
(* Counting and planning. *)

\* authorized_document_count; a selected document counts as one.
CountAuthorized ==
    /\ search.at = "authorized"
    /\ search' = [search EXCEPT !.at = "choosable",
                     !.counts[1] = IF asked.selected # NoDocument THEN 1 ELSE Cardinality(granted)]

\* route_retrieval.
BaseRoute(kind, authorized, choosable) ==
    CASE kind = "ambiguous" -> IF choosable > 1 THEN "clarification_required" ELSE "retrieval_required"
      [] kind = "required" -> "retrieval_required"
      [] kind = "optional" -> "retrieval_optional"
      [] kind = "general" -> "no_retrieval"
      [] OTHER -> IF authorized > 0 THEN "retrieval_optional" ELSE "no_retrieval"

\* Facts are asked for, and there are documents, or the message names one.
ListsFacts(authorized) == asked.types # {} /\ (authorized > 0 \/ asked.named)

\* The route of the plan: an enumeration of facts requires evidence; force_retrieval.
RouteOf(kind, authorized, choosable) ==
    LET base == BaseRoute(kind, authorized, choosable)
        route == IF ListsFacts(authorized) /\ base \in {"no_retrieval", "retrieval_optional"}
                 THEN "retrieval_required" ELSE base
    IN  IF asked.force /\ route = "no_retrieval" THEN "retrieval_optional" ELSE route

Plan ==
    /\ search.at = "choosable"
    /\ LET choosable == IF asked.selected # NoDocument THEN 1 ELSE Cardinality(granted \ AmbientDocs)
           route == RouteOf(asked.kind, search.counts[1], choosable)
       IN  search' = [search EXCEPT !.counts[2] = choosable, !.route = route,
                         !.at = IF route \in {"no_retrieval", "clarification_required"} THEN "assess"
                                ELSE IF asked.selected # NoDocument THEN "selected" ELSE "titles"]

\* retrieve_selected_document: every chunk of the document, if it may still be read.
GatherSelected ==
    /\ search.at = "selected"
    /\ LET rows == RowsOf(granted \cap {asked.selected})
           hits == {Hit(c, "selected", Max({500, asked.meaning[c]})) : c \in rows}
       IN  search' = [search EXCEPT !.ranked = First(Ranking(hits), RerankLimit), !.at = "fuse"]

-----------------------------------------------------------------------------
(* Gathering: one query at a time. *)

\* Documents whose title or file name the message names.
MatchTitles ==
    /\ search.at = "titles"
    /\ LET located == {d \in granted : asked.title[d] > 0}
       IN  search' = [search EXCEPT !.located = located, !.at = IF located = {} THEN "profiles" ELSE "titlerows"]

\* _authorized_chunks_for_document_ids: documents not asked for before in this search are
\* loaded, the others come from the cache.
Loaded(ds) == search.cache \cup RowsOf(granted \cap (ds \ search.cached))
Cached(u, ds) == [u EXCEPT !.cache = Loaded(ds), !.cached = @ \cup ds]
RowsFor(ds) == {c \in Loaded(ds) : Corpus[c].doc \in ds}

TitleRows ==
    /\ search.at = "titlerows"
    /\ LET rows == RowsFor(search.located)
           Score(c) == asked.title[Corpus[c].doc]
           Before(c, d) == Score(c) > Score(d) \/ (Score(c) = Score(d) /\ RowBefore(c, d))
           Titled(c) == Hit(c, "metadata", Max({Score(c) - Corpus[c].ordinal, 10}))
           hits == [i \in DOMAIN First(Ordered(rows, Before), SourceLimit) |-> Titled(Ordered(rows, Before)[i])]
       IN  search' = [Cached(search, search.located) EXCEPT !.found = hits, !.at = "profiles"]

\* Documents whose generated profile meets the message.
MatchProfiles ==
    /\ search.at = "profiles"
    /\ LET located == {d \in granted : asked.profile[d] > 50}
       IN  search' = [search EXCEPT !.located = located, !.at = IF located = {} THEN "vectors" ELSE "profilerows"]

\* The best documents, and a few chunks of each, until there are enough.
ProfileRows ==
    /\ search.at = "profilerows"
    /\ LET rows == RowsFor(search.located)
           DocBefore(d, e) == asked.profile[d] > asked.profile[e]
                             \/ (asked.profile[d] = asked.profile[e] /\ d > e)
           BodyBefore(c, d) == asked.words[c] > asked.words[d]
                              \/ (asked.words[c] = asked.words[d] /\ RowBefore(c, d))
           Profiled(c) == Hit(c, "profile", Max({asked.profile[Corpus[c].doc]
                                                   + Min({asked.words[c], 350}) - Corpus[c].ordinal, 10}))
           OfDoc(d) == {Profiled(c) : c \in ToSet(First(Ordered({x \in rows : Corpus[x].doc = d}, BodyBefore),
                                                        ProfileChunks))}
           hits == FoldLeft(LAMBDA got, d : IF Cardinality(got) >= SourceLimit THEN got ELSE got \cup OfDoc(d),
                            {}, Ordered(search.located, DocBefore))
       IN  search' = [Cached(search, search.located) EXCEPT
                         !.profiles = First(Ranking(hits), SourceLimit), !.at = "vectors"]

\* The rows whose embedding is near.
Near == {Hit(c, "semantic", asked.meaning[c]) : c \in {x \in RowsOf(granted) : asked.meaning[x] > 0}}

\* The vector query of Postgres; when it fails or finds nothing every row is compared.
MatchVectors ==
    /\ search.at = "vectors"
    /\ \/ Near # {} /\ search' = [search EXCEPT !.found = @ \o First(Ranking(Near), SourceLimit), !.at = "related"]
       \/ search' = [search EXCEPT !.at = "scan"]

ScanVectors ==
    /\ search.at = "scan"
    /\ search' = [search EXCEPT !.found = @ \o Ranking(Near), !.at = "related"]

\* Chunks that mention what the found ones mention; profiles are no seeds.
Related(rows, seeds) ==
    {Hit(c, "expansion", ExpansionScore) :
        c \in {x \in rows \ seeds : \E s \in seeds : asked.mentions[x] \cap asked.mentions[s] # {}}}

\* Fault: a search without hits ends before the lexical ranking.
AfterScopedOnly(ranked) ==
    IF ranked = <<>> THEN (IF asked.personal THEN "recent" ELSE "fuse")
    ELSE IF asked.overview THEN "overview" ELSE "corpus"

\* What retrieve_scoped does with its rankings; the lexical ranking is independent of them.
AfterScoped(ranked) ==
    IF ranked = <<>> /\ asked.personal THEN "recent"
    ELSE IF asked.overview /\ ranked # <<>> THEN "overview" ELSE "corpus"

ExpandRelated ==
    /\ search.at = "related"
    /\ LET related == Related(RowsOf(granted), ChunksIn(search.found))
           ranked == RankSources(search.found \o search.profiles \o Ranking(related))
       IN  search' = [search EXCEPT !.ranked = ranked, !.at = AfterScoped(ranked)]

\* The fallback for personal documents: the latest rows.
RecentRows ==
    /\ search.at = "recent"
    /\ LET recent == First(Ordered(RowsOf(granted), RowBefore), SourceLimit)
       IN  search' = [search EXCEPT !.at = "corpus",
                         !.ranked = Dedupe([i \in DOMAIN recent |-> Hit(recent[i], "fallback", FallbackScore)],
                                           SourceLimit)]

\* For an overview, the remaining rows of the documents found, as far as they fit.
Overview ==
    /\ search.at = "overview"
    /\ LET seed == Dedupe(Ranking(ToSet(search.ranked)), SourceLimit)
           ds == {Corpus[c].doc : c \in ChunksIn(seed)}
           Chars(hits) == FoldLeft(LAMBDA n, h : n + Corpus[h.chunk].size, 0, hits)
           More == FoldLeft(LAMBDA all, c : IF c \in ChunksIn(all) \/ Chars(all) + Corpus[c].size > OverviewBudget
                                            THEN all ELSE Append(all, Hit(c, "overview", OverviewScore)),
                            seed, Ordered(RowsFor(ds), RowBefore))
       IN  search' = [Cached(search, ds) EXCEPT !.at = "corpus",
                         !.ranked = @ \o SelectSeq(More, LAMBDA h : h.source = "overview")]

\* The lexical ranking over the texts that may be read, as chunk ids ...
RankLexical ==
    /\ search.at = "corpus"
    /\ LET matched == {Hit(c, "keyword", asked.words[c]) : c \in {x \in RowsOf(granted) : asked.words[x] > 0}}
       IN  search' = [search EXCEPT !.lexical = First(Ranking(matched), SourceLimit),
                         !.at = IF matched = {} THEN "facts" ELSE "hydrate"]

\* Fault: the chunks are loaded by their ids alone.
HydratedAll(hits) == hits

\* ... which are loaded by a query that decides again what may be read.
Hydrated(hits) == SelectSeq(hits, LAMBDA h : Corpus[h.chunk].doc \in granted)

Hydrate ==
    /\ search.at = "hydrate"
    /\ search' = [search EXCEPT !.ranked = @ \o Hydrated(search.lexical), !.at = "facts"]

\* The newest facts of the types asked for, as rows of a chunk and an index; a chunk has at
\* most one fact of a type.
Facts ==
    LET rows == {<<c, i>> \in RowsOf(granted) \X (1..Cardinality(FactTypes)) :
                    i \in DOMAIN asked.facts[c] /\ asked.facts[c][i].type \in asked.types}
    IN  First(Ordered(rows, LAMBDA r, q : RowBefore(r[1], q[1]) \/ (r[1] = q[1] /\ r[2] < q[2])), FactLimit)

\* Each type of fact is a source of its own; the limit is applied before the scores are known.
GatherFacts ==
    /\ search.at = "facts"
    /\ LET HitOf(r) == Hit(r[1], asked.facts[r[1]][r[2]].type, asked.facts[r[1]][r[2]].score)
       IN  search' = [search EXCEPT !.ranked = [i \in DOMAIN Facts |-> HitOf(Facts[i])] \o @, !.at = "fuse"]

-----------------------------------------------------------------------------
(* Fusing, reranking, packing. *)

Priority(source) ==
    CASE source \in FactTypes -> 50 [] source = "metadata" -> 40 [] source = "expansion" -> 30
      [] source = "semantic" -> 20 [] source = "profile" -> 15 [] OTHER -> 10

\* The place of a chunk in the ranking of a source.
RankIn(hits, source, c) ==
    LET h == CHOOSE x \in ToSet(hits) : x.source = source /\ x.chunk = c
    IN  1 + Cardinality({x \in ToSet(hits) : x.source = source /\ x # h /\ HitBefore(x, h)})

SourcesFor(hits, c) == {h.source : h \in {x \in ToSet(hits) : x.chunk = c}}

\* Fault: a chunk found again keeps its worst place only.
FusedScoreWorst(hits, c) == 10000000 \div (60 + Max({RankIn(hits, s, c) : s \in SourcesFor(hits, c)}))

\* Reciprocal ranks, added up, in ten-millionths.
FusedScore(hits, c) ==
    FoldSet(LAMBDA s, sum : sum + 10000000 \div (60 + RankIn(hits, s, c)), 0, SourcesFor(hits, c))

\* _preferred_chunk: the hit that stands for the chunk; of equal ones the first.
Preferred(hits, c) ==
    LET at == CHOOSE i \in {j \in DOMAIN hits : hits[j].chunk = c} :
                 \A j \in {k \in DOMAIN hits : hits[k].chunk = c} :
                     LET p == Priority(hits[i].source) q == Priority(hits[j].source)
                     IN  \/ p > q
                         \/ p = q /\ hits[i].score > hits[j].score
                         \/ p = q /\ hits[i].score = hits[j].score /\ i <= j
    IN  hits[at]

Candidate(hits, c) ==
    [hit |-> Preferred(hits, c), score |-> FusedScore(hits, c), sources |-> Cardinality(SourcesFor(hits, c)),
     best |-> Max({h.score : h \in {x \in ToSet(hits) : x.chunk = c}})]

\* fuse_candidates: by fused score, number of sources, priority, best score, ordinal, id.
Fused(hits) ==
    LET Keys(x) == <<x.score, x.sources, Priority(x.hit.source), x.best,
                     0 - Corpus[x.hit.chunk].ordinal, 0 - x.hit.chunk>>
        Before(x, y) == \E i \in 1..6 : Keys(x)[i] > Keys(y)[i] /\ \A j \in 1..i - 1 : Keys(x)[j] = Keys(y)[j]
    IN  Ordered({Candidate(hits, c) : c \in ChunksIn(hits)}, Before)

Fuse ==
    /\ search.at = "fuse"
    /\ search' = [search EXCEPT !.fused = First(Fused(search.ranked), RerankLimit), !.at = "rerank"]

\* A stable sort of the candidates by scores, highest first; equal ones by ordinal, or as fused.
Sorted(cs, scores, byOrdinal) ==
    LET Before(i, j) == \/ scores[i] > scores[j]
                        \/ /\ scores[i] = scores[j]
                           /\ LET p == Corpus[cs[i].hit.chunk].ordinal q == Corpus[cs[j].hit.chunk].ordinal
                              IN  IF byOrdinal /\ p # q THEN p < q ELSE i < j
        order == Ordered(DOMAIN cs, Before)
    IN  [i \in DOMAIN cs |-> cs[order[i]]]

\* Fault: a failure keeps the candidates judged so far.
RerankFallbackJudged(cs, scores) == First(cs, Len(scores))

\* A reranker that fails leaves the fused order.
RerankFallback(cs, scores) == cs

Reranked(cs) == search' = [search EXCEPT !.reranked = cs, !.judged = <<>>, !.at = "pack"]

RerankDeterministic ==
    /\ search.at = "rerank" /\ asked.reranker = "deterministic"
    /\ Reranked(Sorted(search.fused, [i \in DOMAIN search.fused |-> search.fused[i].score], TRUE))

\* The cross-encoder scores all pairs at once.
RerankPairs ==
    /\ search.at = "rerank" /\ asked.reranker = "cross_encoder"
    /\ \/ \E scores \in [DOMAIN search.fused -> 0..1] : Reranked(Sorted(search.fused, scores, TRUE))
       \/ Reranked(RerankFallback(search.fused, <<>>))

\* The rubric scores batches; a batch is smaller when its input is too long.
RerankBatch ==
    /\ search.at = "rerank" /\ asked.reranker = "jev"
    /\ LET left == Len(search.fused) - Len(search.judged)
       IN  IF left = 0 THEN Reranked(Sorted(search.fused, search.judged, FALSE))
           ELSE \/ \E n \in 1..Min({BatchSize, left}) : \E scores \in [1..n -> 0..1] :
                      search' = [search EXCEPT !.judged = @ \o scores]
                \/ Reranked(RerankFallback(search.fused, search.judged))

\* Fault: the characters used are not added up.
UsedLast(cs) == IF cs = <<>> THEN 0 ELSE Corpus[Last(cs).hit.chunk].size

Used(cs) == FoldLeft(LAMBDA n, x : n + Corpus[x.hit.chunk].size, 0, cs)

\* ContextCurator.pack: the first candidate always, then each that fits.
Packed(cs) ==
    FoldLeft(LAMBDA in, x : IF Len(in) >= InjectedLimit
                               \/ (in # <<>> /\ Used(in) + Corpus[x.hit.chunk].size > CharBudget)
                            THEN in ELSE Append(in, x),
             <<>>, cs)

Pack ==
    /\ search.at = "pack"
    /\ search' = [search EXCEPT !.injected = Packed(search.reranked), !.at = "assess"]

-----------------------------------------------------------------------------
(* Assessing. *)

\* is_relevant_retrieval_result: the fallback counts only when documents are required.
Relevant(route, hit) == hit.score > 0 /\ (hit.source = "fallback" => route = "retrieval_required")

Consulted == {x.hit : x \in {y \in ToSet(search.injected) : Relevant(search.route, y.hit)}}

\* Required evidence that was not found is searched for once more, with more words.
Assess ==
    /\ search.at = "assess"
    /\ IF search.route = "retrieval_required" /\ Consulted = {} /\ search.attempt = 1
       THEN /\ search' = Started(2)
            /\ asked' \in {asked} \cup {[asked EXCEPT !.words[c] = 900] : c \in Chunks}
       ELSE /\ search' = [search EXCEPT !.at = "done",
                              !.insufficient = (search.route = "retrieval_required" /\ Consulted = {})]
            /\ UNCHANGED asked

Query ==
    \/ CountAuthorized \/ Plan \/ GatherSelected
    \/ MatchTitles \/ TitleRows \/ MatchProfiles \/ ProfileRows \/ MatchVectors \/ ScanVectors
    \/ ExpandRelated \/ RecentRows \/ Overview \/ RankLexical \/ Hydrate \/ GatherFacts
    \/ Fuse \/ RerankDeterministic \/ RerankPairs \/ RerankBatch \/ Pack

\* Between two queries a document is deleted, or access to it is lost.
Revoke ==
    /\ revoked < MaxRevocations /\ revoked' = revoked + 1
    /\ search.at \notin {"fuse", "rerank", "pack", "assess", "done"}
    /\ \E d \in granted \ AmbientDocs : granted' = granted \ {d}
    /\ UNCHANGED <<asked, search>>

RetrievalNext ==
    \/ Query /\ UNCHANGED <<granted, asked, revoked>>
    \/ Assess /\ UNCHANGED <<granted, revoked>>
    \/ Revoke

-----------------------------------------------------------------------------
(* Properties. *)

\* A query adds only hits in documents that may be read when it runs, or rows that an
\* earlier query of the same search was allowed to load.
NoForeignHit ==
    [][\A c \in (ChunksIn(search'.found) \ ChunksIn(search.found))
                \cup (ChunksIn(search'.ranked) \ ChunksIn(search.ranked \o search.found \o search.profiles)) :
          Corpus[c].doc \in granted \/ c \in search.cache]_rvars

\* A turn is told that the evidence is insufficient only if nothing that it could read all
\* along matches the message, in any of the rankings.
InsufficientHonest ==
    search.insufficient =>
        \A c \in RowsOf({d \in granted : asked.selected \in {NoDocument, d}}) :
            /\ asked.words[c] = 0 /\ asked.meaning[c] = 0 /\ asked.title[Corpus[c].doc] = 0
            /\ \A i \in DOMAIN asked.facts[c] : asked.facts[c][i].type \notin asked.types

\* A chunk that every ranking of another one places before it stays before it.
FusionMonotone ==
    LET hits == search.ranked
        Dominates(c, d) == \A s \in SourcesFor(hits, d) :
                              s \in SourcesFor(hits, c) /\ RankIn(hits, s, c) < RankIn(hits, s, d)
    IN  \A j \in DOMAIN search.fused : \A c \in ChunksIn(hits) :
            Dominates(c, search.fused[j].hit.chunk) => \E i \in 1..j - 1 : search.fused[i].hit.chunk = c

\* Reranking, complete or cut short, neither drops nor repeats a candidate.
RerankKeepsAll ==
    search.at = "pack" =>
        Len(search.reranked) = Len(search.fused) /\ ToSet(search.reranked) = ToSet(search.fused)

\* The context holds at most its budget, unless one chunk alone exceeds it, and is never
\* empty when there were candidates.
WithinBudget ==
    LET Size(in) == MapThenSumSet(LAMBDA x : Corpus[x.hit.chunk].size, ToSet(in))
    IN  /\ Len(search.injected) <= InjectedLimit
        /\ Len(search.injected) > 1 => Size(search.injected) <= CharBudget
        /\ search.at = "assess" /\ search.reranked # <<>> => search.injected # <<>>

\* Evidence is called insufficient only if nothing readable matches; fusion respects what
\* all rankings agree on, reranking loses no candidate, and what is injected fits.
EvidenceSound == InsufficientHonest /\ FusionMonotone /\ RerankKeepsAll /\ WithinBudget
=============================================================================
