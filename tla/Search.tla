------------------------------- MODULE Search -------------------------------
(***************************************************************************)
(* One search request over a space's index (internal/indexer: Search,      *)
(* titlePass, ftsLeg, vectorLeg, hostSet, fuseRRF, groupHits; handler      *)
(* internal/server/handlers_search.go).                                    *)
(*                                                                         *)
(* The index holds chunk docs; a reply is a page of RECORDS.  The object   *)
(* filter of a request reads the live objects collection, which another    *)
(* request may change between any two reads of this one.  The filter is    *)
(* probed once, then a leg either rides the exact id set as a residual or  *)
(* judges its rows in batches, rescuing a narrow filter by materialising   *)
(* the set after filterScanRows rows.  Ranking itself (BM25, cosine) is    *)
(* the store's: `lexical' and `nearest' are the two orders it answers.     *)
(***************************************************************************)
EXTENDS Integers, Sequences, FiniteSets, SequencesExt

CONSTANTS Objects,               \* host objects
          Docs,                  \* chunk docs (ids, also the tie-break order)
          ObjectOf, RecordOf,    \* doc -> its object, its record
          TierOf,                \* name doc -> the first tier that finds it
          TermsOf,               \* doc -> the terms it contains
          Lexicals, Nearests,    \* the rank orders a corpus may answer
          ScoreSets,             \* BM25 scores by rank position
          Requests,              \* [mode, limit, filtered, require, exclude]
          Adaptive,              \* index.search.adaptiveWeights values tried
          Far,                   \* docs at or below the similarity floor
          IdsMax, Batch, ScanRows, ScanRowsMax,      \* filter budgets
          MaterializeMax, ResidualMax, MaxLegFetch,
          FetchMin, FetchMax,    \* the over-fetch clamp (30 and 100)
          MaxChanges             \* bound: concurrent object writes

VARIABLES
  req,       \* the request, its mode after degrading
  lexical,   \* rank order of the docs the full-text query matches
  nearest,   \* distance order of the embedded docs
  scores,    \* BM25 score by position in lexical
  adaptive,  \* Options.AdaptiveWeights
  match,     \* objects that satisfy the filter now
  ever,      \* objects that satisfied it at some moment of the request
  changes,
  hs,        \* hostSet: [exact, ids, known, verdicts, tried, small]
  leg,       \* the lexical cursor being pulled
  tier,      \* tier the title pass is at
  titles,    \* title hits, in page order
  vec,       \* vector hits
  budgetOut,
  page,      \* the reply: records in order
  truncated,
  stage

vars == <<req, lexical, nearest, scores, adaptive, match, ever, changes, hs,
          leg, tier, titles, vec, budgetOut, page, truncated, stage>>

(* The first n elements, or all of a shorter sequence. *)
First(s, n) == SubSeq(s, 1, IF Len(s) < n THEN Len(s) ELSE n)

Index(s, x) == CHOOSE i \in 1..Len(s) : s[i] = x

(* The records of a hit list, in order of their best hit. *)
RecordsOf(hits) ==
  FoldLeft(LAMBDA rs, d : IF Contains(rs, RecordOf[d]) THEN rs
                          ELSE Append(rs, RecordOf[d]), <<>>, hits)

countGroups(hits) == Cardinality({RecordOf[d] : d \in Range(hits)})

withoutRecords(hits, skip) == SelectSeq(hits, LAMBDA d : RecordOf[d] \notin skip)

shownRecords == {RecordOf[d] : d \in Range(titles)}

Tiers == {TierOf[d] : d \in DOMAIN TierOf}

-----------------------------------------------------------------------------
(* hostSet *)

NoFilter == [exact |-> FALSE, ids |-> {}, known |-> {}, tried |-> 0,
             small |-> FALSE, verdicts |-> {}]

residual == req.filtered /\ hs.exact /\ Cardinality(hs.ids) <= ResidualMax

lazy == req.filtered /\ ~residual

(* Resolve answers the whole set when it holds at most max ids. *)
Resolved(h, max) ==
  IF h.exact \/ max <= h.tried THEN h
  ELSE IF Cardinality(match) > max THEN [h EXCEPT !.tried = max]
  ELSE [h EXCEPT !.exact = TRUE, !.ids = match, !.known = {}, !.verdicts = {}]

(* keep: one Match over the objects no verdict is cached for. *)
Judged(h, hits) ==
  IF h.exact THEN h
  ELSE LET ask == {ObjectOf[d] : d \in Range(hits)} \ h.known
       IN [h EXCEPT !.known = h.known \cup ask,
                    !.verdicts = h.verdicts \cup (ask \cap match)]

has(h, o) == o \in (IF h.exact THEN h.ids ELSE h.verdicts)

keep(h, hits) == SelectSeq(hits, LAMBDA d : has(h, ObjectOf[d]))

-----------------------------------------------------------------------------
(* The store's answers *)

(* A doc the request's require / exclude terms admit, as the full-text     *)
(* engine evaluates them.                                                  *)
Admits(d) == /\ req.require \subseteq TermsOf[d]
             /\ req.exclude \cap TermsOf[d] = {}

(* Mutant of FilterTerms: an exclude-only filter asked straight, though    *)
(* negated clauses alone match nothing to drop.                            *)
FilterTermsStraight(hits) ==
  IF req.require = {} THEN hits ELSE SelectSeq(hits, Admits)

(* FilterTerms re-checks vector hits against the text index.  Negated      *)
(* clauses only bind docs a positive one scored, so an exclude-only filter *)
(* is run inverted: what matches is dropped.                               *)
FilterTerms(hits) ==
  LET keepMatched == req.require # {}
      matched == {d \in Range(hits) :
                    IF keepMatched THEN Admits(d)
                    ELSE req.exclude \cap TermsOf[d] # {}}
  IN IF req.require = {} /\ req.exclude = {} THEN hits
     ELSE SelectSeq(hits, LAMBDA d : (d \in matched) = keepMatched)

(* openFTS: the admitted matches in rank order, cut to the residual. *)
openFTS(rows) ==
  SelectSeq(rows, LAMBDA d : Admits(d) /\ (residual => ObjectOf[d] \in hs.ids))

(* searchVector: the k nearest.  Under a residual the candidate beam is    *)
(* sized from k, so a short answer may grow with k; a small set is probed  *)
(* doc by doc instead.                                                     *)
Knn(k) ==
  LET beam == IF residual /\ ~hs.small THEN First(nearest, 2 * k) ELSE nearest
      rows == SelectSeq(beam, LAMBDA d : residual => ObjectOf[d] \in hs.ids)
  IN First(rows, k)

covered(cover, hits) ==
  Len(hits) >= cover.fetch /\ countGroups(hits) >= cover.groups

(* vectorStop: whether the widening loop ends after a round that asked for *)
(* k rows and got n before the similarity floor.                           *)
vectorStop(cover, kept, n, k, prevN, floorDropped) ==
  \/ covered(cover, kept)
  \/ floorDropped
  \/ n < k /\ (~residual \/ n <= prevN)
  \/ n >= k /\ k >= MaxLegFetch

-----------------------------------------------------------------------------
(* Fusion *)

(* Scale of a reciprocal rank: divisible by 61..64, so ranks are exact. *)
RankScale == 61 * 62 * 63 * 64
WeightScale == 12

(* legConfidence: 1 - mean/top over the leg's scores, in twelfths. *)
legConfidence(hits) ==
  LET sc(i) == scores[Index(lexical, hits[i])]
      rest == FoldFunction(+, 0, [i \in 2..Len(hits) |-> sc(i)])
      whole == (Len(hits) - 1) * sc(1)
  IN IF Len(hits) < 2 THEN WeightScale
     ELSE ((whole - rest) * WeightScale) \div whole

(* The lexical leg's share: adaptive weighting scales it by confidence,    *)
(* and fuseRRF reads a weight that is not positive as 1.                   *)
ftsWeight(hits, fetch) ==
  LET w == IF adaptive THEN legConfidence(First(hits, fetch)) ELSE WeightScale
  IN IF w > 0 THEN w ELSE WeightScale

Reciprocal(hits, d) ==
  IF Contains(hits, d) THEN RankScale \div (60 + Index(hits, d)) ELSE 0

fuseRRF(ftsHits, vecHits, fetch) ==
  LET w == ftsWeight(ftsHits, fetch)
      score == [d \in Range(ftsHits) \cup Range(vecHits) |->
                  w * Reciprocal(ftsHits, d) + WeightScale * Reciprocal(vecHits, d)]
  IN SetToSortSeq(DOMAIN score,
                  LAMBDA a, b : score[a] > score[b] \/ (score[a] = score[b] /\ a < b))

(* groupHits: one record per group, by its best hit, cut to the page. *)
groupHits(hits, limit) == First(RecordsOf(hits), limit)

-----------------------------------------------------------------------------

NoLeg == [pc |-> "none", cur |-> <<>>, lazy |-> FALSE, cover |-> [fetch |-> 0, groups |-> 0],
          skip |-> {}, read |-> 0, batch |-> <<>>, hits |-> <<>>, rescued |-> FALSE,
          prev |-> -1]

Init ==
  /\ req \in Requests
  /\ lexical \in Lexicals
  /\ nearest \in Nearests
  /\ scores \in ScoreSets
  /\ adaptive \in Adaptive
  /\ match \in SUBSET Objects
  /\ ever = match
  /\ changes = 0
  /\ hs = NoFilter
  /\ leg = NoLeg
  /\ tier = 0
  /\ titles = <<>>
  /\ vec = <<>>
  /\ budgetOut = FALSE
  /\ page = <<>>
  /\ truncated = FALSE
  /\ stage = "probe"

Corpus == <<lexical, nearest, scores, adaptive>>

(* An object write of another request: it enters or leaves the filter. *)
Change(o) ==
  /\ stage \notin {"done", "failed"}
  /\ req.filtered
  /\ changes < MaxChanges
  /\ changes' = changes + 1
  /\ match' = IF o \in match THEN match \ {o} ELSE match \cup {o}
  /\ ever' = ever \cup match'
  /\ UNCHANGED <<req, Corpus, hs, leg, tier, titles, vec, budgetOut, page, truncated, stage>>

Env == <<match, ever, changes>>

(* newHostSet, and the answer of a filter nothing satisfies. *)
Probe ==
  /\ stage = "probe"
  /\ hs' = IF ~req.filtered THEN NoFilter
           ELSE LET h == Resolved(NoFilter, IdsMax) IN [h EXCEPT !.small = h.exact]
  /\ stage' = IF req.filtered /\ match = {} THEN "done"
              ELSE IF req.mode = "vector" THEN "content" ELSE "title"
  /\ tier' = 1
  /\ UNCHANGED <<req, Corpus, Env, leg, titles, vec, budgetOut, page, truncated>>

OpenLeg(rows, cover, skip) ==
  leg' = [NoLeg EXCEPT !.pc = "pull", !.cur = openFTS(rows), !.lazy = lazy,
                       !.cover = cover, !.skip = skip]

(* The names a tier's query finds.  The tiers nest, and the exact tier's   *)
(* anchored phrase also finds longer names, ranked behind the exact ones.  *)
TierRows == SelectSeq(lexical, LAMBDA d : /\ d \in DOMAIN TierOf
                                          /\ TierOf[d] <= (IF tier = 1 THEN 2 ELSE tier))

(* titlePass opens the next tier, limit records deep. *)
TitleOpen ==
  /\ stage = "title" /\ leg.pc = "none"
  /\ tier \in Tiers /\ Len(titles) < req.limit
  /\ OpenLeg(TierRows, [fetch |-> req.limit, groups |-> req.limit], {})
  /\ UNCHANGED <<req, Corpus, Env, hs, tier, titles, vec, budgetOut, page, truncated, stage>>

(* The tier's hits: the exact tier keeps exact names only, an object shows *)
(* once, in the first tier that found it, and the page bounds the list.    *)
TitleTake ==
  /\ stage = "title" /\ leg.pc = "end"
  /\ titles' = LET got == SelectSeq(leg.hits, LAMBDA d : tier = 1 => TierOf[d] = 1)
                   new == SelectSeq(got, LAMBDA d : \A t \in Range(titles) : ObjectOf[t] # ObjectOf[d])
               IN First(titles \o new, req.limit)
  /\ leg' = NoLeg
  /\ tier' = tier + 1
  /\ UNCHANGED <<req, Corpus, Env, hs, vec, budgetOut, page, truncated, stage>>

TitleEnd ==
  /\ stage = "title" /\ leg.pc = "none"
  /\ tier \notin Tiers \/ Len(titles) >= req.limit
  /\ stage' = IF req.mode = "title" \/ Len(titles) >= req.limit THEN "answer" ELSE "content"
  /\ UNCHANGED <<req, Corpus, Env, hs, leg, tier, titles, vec, budgetOut, page, truncated>>

Rest == req.limit - Len(titles)

Fetch == LET f == IF 3 * Rest > FetchMin THEN 3 * Rest ELSE FetchMin
         IN IF f < FetchMax THEN f ELSE FetchMax

(* The query embedding: over its timeout, of another dimension or failed,  *)
(* hybrid degrades to full text and vector mode fails.                     *)
EmbedFails ==
  /\ stage = "content" /\ req.mode \in {"vector", "hybrid"}
  /\ \/ req.mode = "vector" /\ stage' = "failed" /\ UNCHANGED req
     \/ req.mode = "hybrid" /\ req' = [req EXCEPT !.mode = "fts"] /\ UNCHANGED stage
  /\ UNCHANGED <<Corpus, Env, hs, leg, tier, titles, vec, budgetOut, page, truncated>>

(* vectorLeg opens by resolving a lazy set up to the residual bound. *)
VectorOpen ==
  /\ stage = "content" /\ req.mode \in {"vector", "hybrid"}
  /\ hs' = IF lazy THEN Resolved(hs, ResidualMax) ELSE hs
  /\ leg' = [NoLeg EXCEPT !.pc = "knn", !.read = Fetch, !.cover = [fetch |-> Fetch, groups |-> Rest],
                          !.skip = shownRecords]
  /\ stage' = "vector"
  /\ UNCHANGED <<req, Corpus, Env, tier, titles, vec, budgetOut, page, truncated>>

(* One widening round: k rows, the floor, the terms, the filter, the       *)
(* records already shown.  leg.read is k.                                  *)
VectorRound ==
  /\ stage = "vector"
  /\ LET k == leg.read
         rows == Knn(k)
         raw == SelectSeq(rows, LAMBDA d : d \notin Far)
         termed == FilterTerms(raw)
         h == IF lazy THEN Judged(hs, termed) ELSE hs
         kept == withoutRecords(IF lazy THEN keep(h, termed) ELSE termed, leg.skip)
     IN /\ hs' = h
        /\ IF vectorStop(leg.cover, kept, Len(rows), k, leg.prev, Len(raw) < Len(rows))
           THEN /\ vec' = kept
                /\ budgetOut' = (budgetOut \/ (lazy /\ k >= MaxLegFetch /\ ~covered(leg.cover, kept)))
                /\ leg' = NoLeg
                /\ stage' = IF req.mode = "vector" THEN "answer" ELSE "fts"
           ELSE /\ leg' = [leg EXCEPT !.read = IF 4 * k < MaxLegFetch THEN 4 * k ELSE MaxLegFetch,
                                      !.prev = Len(rows)]
                /\ UNCHANGED <<vec, budgetOut, stage>>
  /\ UNCHANGED <<req, Corpus, Env, tier, titles, page, truncated>>

FtsOpen ==
  /\ \/ stage = "content" /\ req.mode = "fts"
     \/ stage = "fts" /\ leg.pc = "none"
  /\ OpenLeg(lexical, [fetch |-> Fetch, groups |-> 2 * Rest], shownRecords)
  /\ stage' = "fts"
  /\ UNCHANGED <<req, Corpus, Env, hs, tier, titles, vec, budgetOut, page, truncated>>

-----------------------------------------------------------------------------
(* ftsLeg, one cursor step at a time *)

legCovered == Len(leg.hits) >= MaxLegFetch \/ covered(leg.cover, leg.hits)

(* The top of the loop: covered, out of budget, due for the rescue, or     *)
(* one more row.                                                           *)
Pull ==
  /\ leg.pc = "pull"
  /\ LET spent == leg.lazy /\ leg.read >= ScanRowsMax
         rescue == leg.lazy /\ leg.read = ScanRows /\ ~hs.exact /\ ~leg.rescued
     IN /\ budgetOut' = (budgetOut \/ (~legCovered /\ spent))
        /\ leg' = CASE legCovered \/ spent -> [leg EXCEPT !.pc = "last"]
                    [] ~legCovered /\ ~spent /\ rescue -> [leg EXCEPT !.pc = "rescue"]
                    [] ~legCovered /\ ~spent /\ ~rescue /\ leg.cur = <<>> -> [leg EXCEPT !.pc = "last"]
                    [] OTHER ->
                         LET b == Append(leg.batch, Head(leg.cur))
                         IN [leg EXCEPT !.cur = Tail(leg.cur), !.read = @ + 1, !.batch = b,
                                        !.pc = IF ~leg.lazy \/ hs.exact \/ Len(b) >= Batch
                                               THEN "flush" ELSE "pull"]
  /\ UNCHANGED <<req, Corpus, Env, hs, tier, titles, vec, page, truncated, stage>>

(* flush: the batch is judged in one lookup and what it keeps counts. *)
FlushBatch(pc, next) ==
  /\ leg.pc = pc
  /\ LET h == IF leg.lazy THEN Judged(hs, leg.batch) ELSE hs
         kept == withoutRecords(IF leg.lazy THEN keep(h, leg.batch) ELSE leg.batch, leg.skip)
     IN /\ hs' = h
        /\ leg' = [leg EXCEPT !.hits = @ \o kept, !.batch = <<>>, !.pc = next]
  /\ UNCHANGED <<req, Corpus, Env, tier, titles, vec, budgetOut, page, truncated, stage>>

Flush == FlushBatch("flush", "pull") \/ FlushBatch("rescue", "materialize")
         \/ FlushBatch("last", "cut")

(* The rescue: the whole set, when it is small enough to hold; the same    *)
(* cursor goes on.                                                         *)
Materialize ==
  /\ leg.pc = "materialize"
  /\ hs' = Resolved(hs, MaterializeMax)
  /\ leg' = [leg EXCEPT !.pc = "pull", !.rescued = TRUE]
  /\ UNCHANGED <<req, Corpus, Env, tier, titles, vec, budgetOut, page, truncated, stage>>

Cut ==
  /\ leg.pc = "cut"
  /\ leg' = [leg EXCEPT !.pc = "end", !.hits = First(@, MaxLegFetch)]
  /\ UNCHANGED <<req, Corpus, Env, hs, tier, titles, vec, budgetOut, page, truncated, stage>>

(* The reply: titles, then the groups of the fused legs. *)
Answer ==
  /\ \/ stage = "answer"
     \/ stage = "fts" /\ leg.pc = "end"
  /\ LET fused == CASE req.mode = "hybrid" -> fuseRRF(leg.hits, vec, Fetch)
                    [] req.mode = "vector" -> vec
                    [] OTHER -> leg.hits
         groups == IF Rest > 0 THEN groupHits(fused, Rest) ELSE <<>>
     IN /\ page' = RecordsOf(titles) \o groups
        /\ truncated' = (budgetOut /\ Len(titles) + Len(groups) < req.limit)
  /\ stage' = "done"
  /\ UNCHANGED <<req, Corpus, Env, hs, leg, tier, titles, vec, budgetOut>>

Next ==
  \/ \E o \in Objects : Change(o)
  \/ Probe \/ TitleOpen \/ TitleTake \/ TitleEnd
  \/ EmbedFails \/ VectorOpen \/ VectorRound \/ FtsOpen
  \/ Pull \/ Flush \/ Materialize \/ Cut \/ Answer

Spec == Init /\ [][Next]_vars

-----------------------------------------------------------------------------
TypeOK ==
  /\ match \subseteq ever /\ ever \subseteq Objects
  /\ leg.pc \in {"none", "pull", "flush", "rescue", "materialize", "last", "cut", "end", "knn"}
  /\ stage \in {"probe", "title", "content", "vector", "fts", "answer", "done", "failed"}
  /\ Range(titles) \subseteq DOMAIN TierOf /\ Range(vec) \subseteq Docs
  /\ hs.verdicts \subseteq hs.known

(* The matches of the whole index that the request admits, in rank order. *)
Wanted == SelectSeq(lexical, LAMBDA d : Admits(d) /\ (req.filtered => ObjectOf[d] \in match))

(* The page a reader of the whole index would put together: the names,     *)
(* tier by tier, then the other records by their best chunk.               *)
WantedPage ==
  LET names(t) == SelectSeq(Wanted, LAMBDA d : d \in DOMAIN TierOf /\ TierOf[d] = t)
      heads == FlattenSeq([t \in 1..Cardinality(Tiers) |-> names(t)])
  IN First(RecordsOf(heads \o (IF req.mode = "title" THEN <<>> ELSE Wanted)), req.limit)

(* Whatever the filter's objects do meanwhile, a reply shows no record     *)
(* twice, none past the limit, and none whose object never satisfied the   *)
(* filter during the request or whose every chunk the require / exclude    *)
(* terms refuse: both legs, the title pass and fusion enforce the contract *)
(* of the hit (indexer.go Search, vectorLeg, host_filter.go keep).         *)
PageSound ==
  stage = "done" =>
    /\ IsInjective(page) /\ Len(page) <= req.limit
    /\ \A r \in Range(page) :
         \E d \in Docs : RecordOf[d] = r /\ Admits(d) /\ (req.filtered => ObjectOf[d] \in ever)

(* When no object changed meanwhile, batching, the rescue and the residual *)
(* plans are invisible: a lexical page that no budget cut is exactly the   *)
(* page of the whole index, and a page shorter than the matches it could   *)
(* have shown says so, unless one record's chunks filled the leg's window  *)
(* (indexer.go ftsLeg, maxLegFetch).                                       *)
PageWhole ==
  stage = "done" /\ changes = 0 /\ req.mode # "vector" =>
    /\ (~budgetOut /\ Len(leg.hits) < MaxLegFetch /\ req.mode # "hybrid") => page = WantedPage
    /\ Len(page) < Len(WantedPage) => truncated \/ Len(leg.hits) >= MaxLegFetch
=============================================================================
