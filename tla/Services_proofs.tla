--------------------------- MODULE Services_proofs ---------------------------
(***************************************************************************)
(* The services around the orchestrator: the tuner's search, the crawler's *)
(* cache, the review's verdicts, the stop hook's files and lock, the       *)
(* guided start's contract, the loop of the four levels, backup and        *)
(* restore, the integrity check, the event journal, what recovery says of  *)
(* checkpoints, the verifier's verdict, the evidence index, the reports    *)
(* and the write boundary, for every value of their constants.  Each proof *)
(* is an inductive invariant and what follows.                             *)
(***************************************************************************)
EXTENDS PerfTuner, Crawler, ReviewLoop, StopHook, GuidedStart, LevelLoop, Backup, Inspection,
  EventJournal, Checkpoints, Verifier, Evidence, Reports, WriteBoundary,
  Loops_proofs, SequenceTheorems

-----------------------------------------------------------------------------
(* Numbers *)

\* Some numbers up to n have a greatest one.
LEMMA GreatestOf ==
  ASSUME NEW n \in Nat, NEW T \in SUBSET (1..n), T # {}
  PROVE  Max(T) \in T
<1> DEFINE U == {n - k : k \in T}
<1>1. U \in SUBSET Nat /\ U # {}
  <2>1. \A k \in T : k \in Int /\ n - k \in Nat
    OBVIOUS
  <2> QED BY <2>1
<1>2. PICK m \in U : \A u \in U : m <= u
  BY <1>1, LeastNatural
<1>3. PICK x \in T : m = n - x
  BY <1>2
<1>4. \A y \in T : n - x <= n - y
  BY <1>2, <1>3
<1>5. \A y \in T : x >= y
  BY <1>4
<1>6. \E z \in T : \A y \in T : z >= y
  BY <1>5
<1> QED BY <1>6, Zenon DEF Max

-----------------------------------------------------------------------------
(* The capacity search *)

TunerInv == TunerTypeOK /\ Interval /\ CapacityIsBoundary

\* The middle of an interval lies in it.
LEMMA Middle ==
  ASSUME NEW l \in Nat, NEW h \in Nat, l <= h
  PROVE  /\ (l + h) \div 2 \in Nat
         /\ l <= (l + h) \div 2 /\ (l + h) \div 2 <= h
OBVIOUS

\* Four fifths are no more than the whole.
LEMMA FourFifths ==
  ASSUME NEW b \in Nat \ {0}
  PROVE  Recommended(b) \in Nat /\ Recommended(b) <= b
BY DEF Recommended

\* The search's interval lies between the batches that ran and those that did not, and
\* every batch that is written was tried: TunerInv is inductive.
LEMMA TunerInductive == TunerInv /\ [TunerNext]_tunerVars => TunerInv'
<1> SUFFICES ASSUME TunerInv, [TunerNext]_tunerVars PROVE TunerInv'
  OBVIOUS
<1> USE TunerAssumption DEF TunerInv, TunerTypeOK, Interval, Batch, Row
<1>1. CASE Health
  BY <1>1 DEF Health, Report, searchVars, CapacityIsBoundary, NoCapacity
<1>2. CASE Baseline
  BY <1>2 DEF Baseline, Report, searchVars, CapacityIsBoundary, NoCapacity
<1>3. CASE Parity \/ SoakTest \/ Recommend
  BY <1>3 DEF Parity, SoakTest, Recommend, Writes, Report, searchVars, CapacityIsBoundary, NoCapacity
<1>4. CASE CapacityStart
  BY <1>4 DEF CapacityStart, CapacityIsBoundary, NoCapacity
<1>5. ASSUME NEW ok \in BOOLEAN, Trial(ok) PROVE TunerInv'
  <2> DEFINE mid == (low + high) \div 2
  <2>1. mid \in Batch /\ low <= mid /\ mid <= high
    BY <1>5, Middle DEF Trial
  <2>2. rows' = rows \cup {[batch |-> mid, ok |-> ok]} /\ Narrow(mid, ok)
    BY <1>5 DEF Trial
  <2>3. UNCHANGED <<phase, capacity, reports>> /\ phase = "capacity" /\ low <= high
    BY <1>5 DEF Trial
  <2> HIDE DEF mid
  <2>4. CapacityIsBoundary'
    BY <2>3 DEF CapacityIsBoundary, NoCapacity
  <2>5. rows' \subseteq Row
    BY <2>1, <2>2
  <2>9. low' \in Nat /\ high' \in Nat
    BY <2>1, <2>2, <2>3 DEF Narrow
  <2>6. /\ low' \in 1..MaxBatch + 1 /\ high' \in 0..MaxBatch /\ low' <= high' + 1
        /\ safeBatch' \in 0..MaxBatch /\ oomBatch' \in 0..MaxBatch
        /\ low' = safeBatch' + 1 /\ high' = (IF oomBatch' = 0 THEN MaxBatch ELSE oomBatch' - 1)
    BY <2>1, <2>2, <2>3 DEF Narrow
  <2>7. \A row \in rows' : IF row.ok THEN row.batch < low' ELSE row.batch > high'
    <3>0. low <= low' /\ high' <= high
      BY <2>1, <2>2, <2>3 DEF Narrow
    <3>3. low \in Nat /\ high \in Nat
      OBVIOUS
    <3>1. IF ok THEN mid < low' ELSE mid > high'
      BY <2>1, <2>2, <2>3 DEF Narrow
    <3>2. ASSUME NEW row \in rows PROVE IF row.ok THEN row.batch < low' ELSE row.batch > high'
      <4>1. row.batch \in Nat /\ row.ok \in BOOLEAN
        OBVIOUS
      <4>2. IF row.ok THEN row.batch < low ELSE row.batch > high
        BY <2>3
      <4>4. CASE row.ok
        BY <3>0, <3>3, <2>9, <4>1, <4>2, <4>4
      <4>5. CASE ~row.ok
        BY <3>0, <3>3, <2>9, <4>1, <4>2, <4>5
      <4> QED BY <4>4, <4>5
    <3> QED BY <2>2, <3>1, <3>2
  <2>8. /\ safeBatch' # 0 => [batch |-> safeBatch', ok |-> TRUE] \in rows'
        /\ oomBatch' # 0 => [batch |-> oomBatch', ok |-> FALSE] \in rows'
    <3>1. CASE ok = TRUE
      BY <2>1, <2>2, <2>3, <3>1 DEF Narrow
    <3>2. CASE ok = FALSE
      BY <2>1, <2>2, <2>3, <3>2 DEF Narrow
    <3> QED BY <3>1, <3>2
  <2> QED BY <2>3, <2>4, <2>5, <2>6, <2>7, <2>8
<1>6. CASE WriteCapacity
  <2>1. low = high + 1 /\ safeBatch = high
    BY <1>6 DEF WriteCapacity
  <2>2. Recommended(safeBatch) \in Nat /\ (safeBatch # 0 => Recommended(safeBatch) <= safeBatch)
    BY FourFifths DEF Recommended
  <2>3. \A row \in rows : IF row.ok THEN row.batch <= safeBatch ELSE row.batch > safeBatch
    BY <2>1, <1>6 DEF WriteCapacity
  <2>4. IF oomBatch = 0 THEN safeBatch = MaxBatch ELSE oomBatch = safeBatch + 1
    BY <2>1, <1>6 DEF WriteCapacity
  <2> QED BY <1>6, <2>1, <2>2, <2>3, <2>4 DEF WriteCapacity, CapacityIsBoundary
<1>7. CASE KillTuner
  BY <1>7 DEF KillTuner, CapacityIsBoundary, NoCapacity
<1>8. CASE UNCHANGED tunerVars
  BY <1>8 DEF tunerVars, CapacityIsBoundary, NoCapacity
<1> QED BY <1>1, <1>2, <1>3, <1>4, <1>5, <1>6, <1>7, <1>8 DEF TunerNext

\* For every largest batch: safe_capacity.yaml is the boundary its own trials show
\* (binary_search_capacity), however each trial comes out.
THEOREM CapacityBoundary == TunerSpec => []CapacityIsBoundary
<1>1. TunerInit => TunerInv
  BY TunerAssumption DEF TunerInit, TunerInv, TunerTypeOK, Interval, CapacityIsBoundary, NoCapacity,
     Batch, Row, Report
<1>2. TunerInv => CapacityIsBoundary
  BY DEF TunerInv
<1> QED BY <1>1, <1>2, TunerInductive, PTL DEF TunerSpec

-----------------------------------------------------------------------------
(* The crawler's cache *)

\* ETags are tags the server gives; a page is written that it sent.
Known(f) ==
  LET r == fetch[f]
  IN  /\ r.cached # 0 => tagged[r.cached]
      /\ r.at \in {"etag", "fillEtag"} => tagged[r.got]
      /\ r.at \in {"body", "fillBody", "etag", "fillEtag"} => r.got # 0

\* A lone crawler, and a page that was never put back: the ETag it read, and the one on
\* file if any, is of the body on file or older than the page; older, once the page was
\* sent; and the ETag follows its body.
TagSound == etag # 0 => etag <= version /\ (etag = body \/ etag < version)
Sound(f) ==
  LET r == fetch[f]
  IN  /\ r.got <= version /\ r.cached <= version
      /\ r.at # "idle" => etag = 0 \/ etag = r.cached
      /\ r.at = "ask" => r.cached = 0 \/ r.cached = body \/ r.cached < version
      /\ r.at \in {"body", "fillBody", "etag", "fillEtag"} => r.cached = 0 \/ r.cached < version
      /\ r.at \in {"etag", "fillEtag"} => body = r.got

\* A lone crawler, and no body written over without its ETag: what ETag there is belongs
\* to the body on file, but for the one a fetch in progress is about to replace.
Paired(f) ==
  LET r == fetch[f]
  IN  /\ r.at \in {"ask", "body"} => (etag = 0 \/ etag = body) /\ (r.cached = 0 \/ r.cached = body)
      /\ r.at # "idle" => etag = 0 \/ etag = r.cached
      /\ r.at = "fillEtag" => etag = 0
      /\ r.at \in {"etag", "fillEtag"} => body = r.got

CacheInv ==
  /\ CrawlerTypeOK
  /\ etag # 0 => tagged[etag]
  /\ \A f \in Fetcher : Known(f)
  /\ ~overlap =>
       /\ ~putBack => ~staleHit /\ TagSound /\ \A f \in Fetcher : Sound(f)
       /\ ~unpaired => /\ ~staleHit /\ \A f \in Fetcher : Paired(f)
                       /\ (\A f \in Fetcher : fetch[f].at = "idle") => etag = 0 \/ etag = body
       /\ \A f, g \in Fetcher : fetch[f].at # "idle" /\ fetch[g].at # "idle" => f = g

Fetch == [at : FetchStep, cached : 0..MaxVersion, got : 0..MaxVersion, attempt : 0..RetryMax]

\* A step of one crawler disturbs what holds of the others only through the files, and
\* without overlap the others are idle.
LEMMA OneFetches ==
  ASSUME CacheInv, NEW f \in Fetcher, NEW r \in Fetch, fetch' = [fetch EXCEPT ![f] = r],
         UNCHANGED <<version, tagged, putBack>>, body' \in 0..MaxVersion, etag' \in 0..MaxVersion,
         overlap' \in BOOLEAN, staleHit' \in BOOLEAN, unpaired' \in BOOLEAN, overlap => overlap',
         unpaired => unpaired', etag' # 0 => tagged[etag'], Known(f)',
         fetch[f].at = "idle" /\ r.at # "idle" => overlap' \/ \A g \in Fetcher : fetch[g].at = "idle",
         fetch[f].at # "idle" \/ r.at # "idle",
         ~overlap' /\ ~putBack => ~staleHit' /\ TagSound' /\ Sound(f)',
         ~overlap' /\ ~unpaired' => ~staleHit' /\ Paired(f)',
         ~overlap' /\ ~unpaired' => (r.at = "idle" => etag' = 0 \/ etag' = body')
  PROVE  CacheInv'
<1> USE DEF CacheInv, CrawlerTypeOK, Fetch
<1>1. \A g \in Fetcher : fetch'[g] = IF g = f THEN r ELSE fetch[g]
  OBVIOUS
<1>2. CrawlerTypeOK'
  BY <1>1
<1>3. \A g \in Fetcher : Known(g)'
  BY <1>1 DEF Known
<1>4. ASSUME ~overlap'
      PROVE  \A g \in Fetcher : g # f => fetch[g].at = "idle"
  BY <1>4
<1>5. ASSUME ~overlap', ~putBack
      PROVE  \A g \in Fetcher : Sound(g)'
  BY <1>1, <1>4, <1>5 DEF Sound
<1>6. ASSUME ~overlap', ~unpaired'
      PROVE  \A g \in Fetcher : Paired(g)'
  BY <1>1, <1>4, <1>6 DEF Paired
<1>7. ASSUME ~overlap'
      PROVE  \A g, h \in Fetcher : fetch'[g].at # "idle" /\ fetch'[h].at # "idle" => g = h
  BY <1>1, <1>4, <1>7
<1>8. (\A g \in Fetcher : fetch'[g].at = "idle") => r.at = "idle"
  BY <1>1
<1> QED BY <1>2, <1>3, <1>5, <1>6, <1>7, <1>8

\* What is asked of a step of a crawler that was at the page and has it to itself.
LEMMA FetcherSteps ==
  ASSUME CacheInv, NEW f \in Fetcher, fetch[f].at # "idle", ~overlap
  PROVE  /\ Known(f) /\ (~putBack => ~staleHit /\ TagSound /\ Sound(f))
         /\ ~unpaired => ~staleHit /\ Paired(f)
BY DEF CacheInv

\* Every step of a fetcher keeps the cache consistent.
LEMMA CacheInductive == CacheInv /\ [CrawlerNext]_crawlerVars => CacheInv'
<1> SUFFICES ASSUME CacheInv, [CrawlerNext]_crawlerVars PROVE CacheInv'
  OBVIOUS
<1>0. /\ fetch \in [Fetcher -> Fetch] /\ version \in 1..MaxVersion /\ version \in 0..MaxVersion
      /\ body \in 0..MaxVersion /\ etag \in 0..MaxVersion /\ tagged \in [1..MaxVersion -> BOOLEAN]
      /\ overlap \in BOOLEAN /\ putBack \in BOOLEAN /\ unpaired \in BOOLEAN /\ staleHit \in BOOLEAN
      /\ MaxVersion \in Nat /\ RetryMax \in Nat /\ (etag # 0 => tagged[etag])
  BY CrawlerAssumption DEF CacheInv, CrawlerTypeOK, Fetch
<1>1. CASE Publish
  BY <1>0, <1>1 DEF Publish, CacheInv, CrawlerTypeOK, Known, Sound, Paired, TagSound, Fetch
<1>2. CASE PutPageBack
  BY <1>0, <1>2 DEF PutPageBack, CacheInv, CrawlerTypeOK, Known, Paired
<1>3. ASSUME NEW f \in Fetcher, AskPage(f) PROVE CacheInv'
  <2> DEFINE r == [at |-> "ask", cached |-> etag, got |-> 0, attempt |-> 0]
  <2>1. r \in Fetch /\ fetch' = [fetch EXCEPT ![f] = r]
    BY <1>0, <1>3 DEF AskPage, Fetch, FetchStep
  <2>2. fetch'[f] = r
    BY <1>0, <2>1
  <2>3. r.at = "ask" /\ r.cached = etag /\ r.got = 0
    OBVIOUS
  <2> HIDE DEF r
  <2>4. /\ UNCHANGED <<version, tagged, putBack, body, etag, unpaired, staleHit>> /\ fetch[f].at = "idle"
        /\ overlap' = (overlap \/ \E g \in Fetcher : fetch[g].at # "idle")
    BY <1>3 DEF AskPage, AtStep, serverVars, fileVarsOf
  <2>5. Known(f)'
    BY <1>0, <2>2, <2>3, <2>4 DEF Known
  <2>6. ~overlap' => ~overlap /\ \A g \in Fetcher : fetch[g].at = "idle"
    BY <1>0, <2>4
  <2>7. ~overlap' /\ ~putBack => ~staleHit' /\ TagSound' /\ Sound(f)'
    BY <1>0, <2>2, <2>3, <2>4, <2>6 DEF CacheInv, TagSound, Sound
  <2>8. ~overlap' /\ ~unpaired' => ~staleHit' /\ Paired(f)'
    BY <1>0, <2>2, <2>3, <2>4, <2>6 DEF CacheInv, Paired
  <2> QED BY <1>0, <2>1, <2>2, <2>3, <2>4, <2>5, <2>6, <2>7, <2>8, OneFetches
\* A fetch that ends.
<1>4. ASSUME NEW f \in Fetcher, Done(f), fetch[f].at # "idle",
             UNCHANGED <<serverVars, overlap>>, body' \in 0..MaxVersion, etag' \in 0..MaxVersion,
             staleHit' \in BOOLEAN, unpaired' \in BOOLEAN, unpaired => unpaired',
             etag' # 0 => tagged[etag'],
             ~overlap /\ ~putBack => ~staleHit' /\ TagSound',
             ~overlap /\ ~unpaired' => ~staleHit' /\ (etag' = 0 \/ etag' = body')
      PROVE  CacheInv'
  <2>1. Resting \in Fetch /\ fetch' = [fetch EXCEPT ![f] = Resting] /\ fetch'[f] = Resting
    BY <1>0, <1>4 DEF Done, Fetch, FetchStep, Resting
  <2>2. Known(f)' /\ Sound(f)' /\ Paired(f)'
    BY <1>0, <1>4, <2>1 DEF Known, Sound, Paired, Resting, serverVars
  <2> QED BY <1>0, <1>4, <2>1, <2>2, OneFetches DEF serverVars, Resting
\* A fetch that goes on.
<1>5. ASSUME NEW f \in Fetcher, NEW r \in Fetch, fetch' = [fetch EXCEPT ![f] = r], fetch[f].at # "idle",
             r.at # "idle", r.cached = fetch[f].cached,
             UNCHANGED <<serverVars, overlap, staleHit>>, body' \in 0..MaxVersion, etag' \in 0..MaxVersion,
             unpaired' \in BOOLEAN, unpaired => unpaired', etag' # 0 => tagged[etag'],
             r.at \in {"etag", "fillEtag"} => tagged[r.got],
             r.at \in {"body", "fillBody", "etag", "fillEtag"} => r.got # 0,
             ~overlap /\ ~putBack => TagSound' /\ Sound(f)',
             ~overlap /\ ~unpaired' => Paired(f)'
      PROVE  CacheInv'
  <2>1. fetch'[f] = r
    BY <1>0, <1>5
  <2>2. Known(f)'
    BY <1>5, <2>1 DEF Known, CacheInv, serverVars
  <2>3. ~overlap => (~putBack => ~staleHit) /\ (~unpaired => ~staleHit)
    BY <1>5, FetcherSteps
  <2> QED BY <1>0, <1>5, <2>1, <2>2, <2>3, OneFetches DEF serverVars
<1>6. ASSUME NEW f \in Fetcher, NotModified(f) PROVE CacheInv'
  <2>1. /\ fetch[f].at = "ask" /\ fetch[f].cached = version /\ Done(f)
        /\ staleHit' = (staleHit \/ body # version)
        /\ UNCHANGED <<serverVars, body, etag, overlap, unpaired>>
    BY <1>6 DEF NotModified, AtStep, fileVarsOf
  <2>2. ~overlap => (~putBack => ~staleHit' /\ TagSound) /\ (~unpaired => ~staleHit' /\ (etag = 0 \/ etag = body))
    BY <1>0, <2>1, FetcherSteps DEF Sound, Paired
  <2> QED BY <1>0, <1>4, <2>1, <2>2 DEF TagSound, serverVars
<1>7. ASSUME NEW f \in Fetcher, Answer(f) PROVE CacheInv'
  <2> DEFINE r == [fetch[f] EXCEPT !.at = "body", !.got = version]
  <2>1. /\ fetch[f].at = "ask" /\ ~(fetch[f].cached = version /\ tagged[version])
        /\ UNCHANGED <<serverVars, body, etag, overlap, unpaired, staleHit>>
    BY <1>7 DEF Answer, AtStep, fileVarsOf
  <2>2. ~overlap => (~putBack => ~staleHit /\ TagSound /\ Sound(f)) /\ (~unpaired => ~staleHit /\ Paired(f))
    BY <2>1, FetcherSteps
  <2>3. CASE Done(f)
    <3>1. ~overlap /\ ~unpaired => etag = 0 \/ etag = body
      BY <2>1, <2>2 DEF Paired
    <3> QED BY <1>0, <1>4, <2>1, <2>2, <2>3, <3>1 DEF TagSound, serverVars
  <2>4. CASE fetch' = [fetch EXCEPT ![f] = [@ EXCEPT !.at = "body", !.got = version]]
    <3>1. fetch[f] \in Fetch
      BY <1>0
    <3>2. r \in Fetch /\ r.at = "body" /\ r.got = version /\ r.cached = fetch[f].cached
      BY <1>0, <3>1 DEF Fetch, FetchStep
    <3>3. fetch' = [fetch EXCEPT ![f] = r]
      BY <2>4
    <3> HIDE DEF r
    <3>4. fetch'[f] = r
      BY <1>0, <3>2, <3>3
    <3>5. Known(f) /\ version # 0 /\ fetch[f].cached \in 0..MaxVersion
      BY <1>0, <3>1 DEF CacheInv, Fetch
    <3>6. ~overlap /\ ~putBack => TagSound' /\ Sound(f)'
      BY <1>0, <2>1, <2>2, <3>2, <3>4, <3>5 DEF TagSound, Sound, Known, serverVars
    <3>7. ~overlap /\ ~unpaired' => Paired(f)'
      BY <2>1, <2>2, <3>2, <3>4 DEF Paired
    <3> QED BY <1>0, <1>5, <2>1, <3>2, <3>3, <3>5, <3>6, <3>7
  <2> QED BY <1>7, <2>3, <2>4 DEF Answer
<1>8. ASSUME NEW f \in Fetcher, FetchFails(f) PROVE CacheInv'
  <2> DEFINE r == [fetch[f] EXCEPT !.at = "ask", !.attempt = @ + 1]
  <2>1. fetch[f].at # "idle" /\ UNCHANGED <<serverVars, body, etag, overlap, staleHit>>
    BY <1>8 DEF FetchFails, AtStep, fileVarsOf
  <2>2. ~overlap => (~putBack => ~staleHit /\ TagSound /\ Sound(f)) /\ (~unpaired => ~staleHit /\ Paired(f))
    BY <2>1, FetcherSteps
  <2>3. fetch[f] \in Fetch
    BY <1>0
  <2>4. CASE Done(f) /\ CutOff(f, etag)
    <3>1. unpaired' = (unpaired \/ (fetch[f].at \in {"fillBody", "etag", "fillEtag"} /\ etag # 0))
      BY <2>4 DEF CutOff
    <3>2. ~overlap /\ ~unpaired' => etag = 0 \/ etag = body
      BY <2>1, <2>2, <2>3, <3>1 DEF Paired, Fetch, FetchStep
    <3>3. unpaired' \in BOOLEAN /\ (unpaired => unpaired')
      BY <3>1
    <3> QED BY <1>0, <1>4, <2>1, <2>2, <2>4, <3>2, <3>3 DEF TagSound, serverVars
  <2>5. CASE /\ fetch[f].attempt # RetryMax /\ fetch' = [fetch EXCEPT ![f].at = "ask", ![f].attempt = @ + 1]
             /\ CutOff(f, fetch[f].cached)
    <3>1. unpaired' = (unpaired \/ (fetch[f].at \in {"fillBody", "etag", "fillEtag"} /\ fetch[f].cached # 0))
      BY <2>5 DEF CutOff
    <3>2. fetch' = [fetch EXCEPT ![f] = r] /\ r \in Fetch
      <4>1. fetch' = [fetch EXCEPT ![f] = r]
        BY <2>5
      <4>2. fetch[f].attempt + 1 \in 0..RetryMax
        BY <1>0, <2>3, <2>5 DEF Fetch
      <4>3. r \in Fetch
        BY <2>3, <4>2 DEF Fetch, FetchStep
      <4> QED BY <4>1, <4>3
    <3>3. r.at = "ask" /\ r.cached = fetch[f].cached /\ r.got = fetch[f].got
      BY <2>3 DEF Fetch
    <3> HIDE DEF r
    <3>4. fetch'[f] = r
      BY <1>0, <3>2
    <3>5. ~overlap /\ ~putBack => TagSound' /\ Sound(f)'
      BY <2>1, <2>2, <2>3, <3>3, <3>4 DEF TagSound, Sound, Fetch, FetchStep, serverVars
    <3>6. ~overlap /\ ~unpaired' => Paired(f)'
      BY <2>1, <2>2, <2>3, <3>1, <3>3, <3>4 DEF Paired, Fetch, FetchStep
    <3>7. unpaired' \in BOOLEAN /\ (unpaired => unpaired')
      BY <3>1
    <3> QED BY <1>0, <1>5, <2>1, <3>2, <3>3, <3>5, <3>6, <3>7
  <2> QED BY <1>8, <2>4, <2>5 DEF FetchFails
\* The writes.
<1>9. ASSUME NEW f \in Fetcher, NEW s \in {"fillBody", "etag", "fillEtag"}, Move(f, s),
             fetch[f].at \in {"body", "fillBody", "etag"},
             UNCHANGED <<serverVars, overlap, unpaired, staleHit>>,
             body' \in 0..MaxVersion, etag' \in {etag, 0},
             s \in {"etag", "fillEtag"} => tagged[fetch[f].got] /\ body' = fetch[f].got,
             s = "fillEtag" => etag' = 0,
             fetch[f].at = "body" => body' = 0
      PROVE  CacheInv'
  <2> DEFINE r == [fetch[f] EXCEPT !.at = s]
  <2>1. fetch[f] \in Fetch
    BY <1>0
  <2>2. r \in Fetch /\ r.at = s /\ r.got = fetch[f].got /\ r.cached = fetch[f].cached
    BY <2>1 DEF Fetch, FetchStep
  <2>3. fetch' = [fetch EXCEPT ![f] = r]
    BY <1>0, <1>9, <2>1 DEF Move, Fetch
  <2> HIDE DEF r
  <2>4. fetch'[f] = r
    BY <1>0, <2>2, <2>3
  <2>5. fetch[f].got # 0 /\ fetch[f].at # "idle" /\ fetch[f].cached \in 0..MaxVersion
    BY <1>9, <2>1 DEF CacheInv, Known, Fetch
  <2>6. ~overlap => (~putBack => TagSound /\ Sound(f)) /\ (~unpaired => Paired(f))
    BY <2>5, FetcherSteps
  <2>7. ~overlap /\ ~putBack => TagSound' /\ Sound(f)'
    BY <1>0, <1>9, <2>2, <2>4, <2>5, <2>6 DEF TagSound, Sound, serverVars
  <2>8. ~overlap /\ ~unpaired' => Paired(f)'
    <3>1. ~overlap /\ ~unpaired => etag = 0 \/ etag = fetch[f].cached
      <4> SUFFICES ASSUME ~overlap, ~unpaired PROVE etag = 0 \/ etag = fetch[f].cached
        OBVIOUS
      <4>1. CASE fetch[f].at = "body"
        BY <1>9, <2>6, <4>1 DEF Paired, Sound
      <4>2. CASE fetch[f].at \in {"fillBody", "etag"}
        BY <2>6, <4>2 DEF Paired
      <4> QED BY <1>9, <4>1, <4>2
    <3> QED BY <1>9, <2>2, <2>4, <3>1 DEF Paired
  <2>9. /\ UNCHANGED <<serverVars, overlap, staleHit>> /\ body' \in 0..MaxVersion /\ etag' \in 0..MaxVersion
        /\ unpaired' \in BOOLEAN /\ (unpaired => unpaired') /\ (etag' # 0 => tagged[etag'])
    BY <1>0, <1>9
  <2>10. r.at # "idle" /\ r.got # 0 /\ (r.at \in {"etag", "fillEtag"} => tagged[r.got])
    BY <1>9, <2>2, <2>5
  <2> QED BY <1>5, <2>2, <2>3, <2>5, <2>7, <2>8, <2>9, <2>10
<1>10. ASSUME NEW f \in Fetcher, OpenBody(f) PROVE CacheInv'
  BY <1>0, <1>9, <1>10 DEF OpenBody, AtStep
<1>11. ASSUME NEW f \in Fetcher, FillBody(f) PROVE CacheInv'
  <2>1. fetch[f].at = "fillBody" /\ body' = fetch[f].got /\ UNCHANGED <<serverVars, etag, overlap, staleHit>>
    BY <1>11 DEF FillBody, AtStep
  <2>2. ~overlap => (~putBack => ~staleHit /\ TagSound /\ Sound(f)) /\ (~unpaired => ~staleHit /\ Paired(f))
    BY <2>1, FetcherSteps
  <2>3. fetch[f].got \in 0..MaxVersion /\ fetch[f].cached \in 0..MaxVersion
    BY <1>0 DEF Fetch
  <2>4. CASE tagged[fetch[f].got] /\ Move(f, "etag") /\ UNCHANGED unpaired
    BY <1>9, <2>1, <2>3, <2>4
  <2>5. CASE Done(f) /\ CutOff(f, etag)
    <3>1. unpaired' = (unpaired \/ etag # 0)
      BY <2>1, <2>5 DEF CutOff
    <3>2. ~overlap /\ ~putBack => TagSound'
      BY <1>0, <2>1, <2>2, <2>3 DEF TagSound, Sound, serverVars
    <3>3. unpaired' \in BOOLEAN /\ (unpaired => unpaired') /\ (~unpaired' => etag = 0)
      BY <3>1
    <3> QED BY <1>0, <1>4, <2>1, <2>2, <2>3, <2>5, <3>2, <3>3 DEF serverVars
  <2> QED BY <1>11, <2>4, <2>5 DEF FillBody
<1>12. ASSUME NEW f \in Fetcher, OpenEtag(f) PROVE CacheInv'
  <2>1. /\ fetch[f].at = "etag" /\ etag' = 0 /\ Move(f, "fillEtag")
        /\ UNCHANGED <<serverVars, body, overlap, unpaired, staleHit>>
    BY <1>12 DEF OpenEtag, AtStep
  <2>2. tagged[fetch[f].got] /\ fetch[f].got # 0
    BY <2>1 DEF CacheInv, Known
  <2>3. CASE body = fetch[f].got
    BY <1>0, <1>9, <2>1, <2>2, <2>3
  <2>4. CASE body # fetch[f].got
    <3>1. overlap \/ (putBack /\ unpaired)
      BY <2>1, <2>4, FetcherSteps DEF Sound, Paired
    <3>5. ~(~overlap /\ ~putBack) /\ ~(~overlap /\ ~unpaired')
      BY <2>1, <3>1
    <3> DEFINE r == [fetch[f] EXCEPT !.at = "fillEtag"]
    <3>2. fetch[f] \in Fetch
      BY <1>0
    <3>3. r \in Fetch /\ r.at = "fillEtag" /\ r.got = fetch[f].got /\ r.cached = fetch[f].cached
      BY <3>2 DEF Fetch, FetchStep
    <3>4. fetch' = [fetch EXCEPT ![f] = r]
      BY <1>0, <2>1, <3>2 DEF Move, Fetch
    <3> HIDE DEF r
    <3>6. /\ UNCHANGED <<serverVars, overlap, staleHit>> /\ body' \in 0..MaxVersion /\ etag' \in 0..MaxVersion
          /\ unpaired' \in BOOLEAN /\ (unpaired => unpaired') /\ (etag' # 0 => tagged[etag'])
      BY <1>0, <2>1
    <3>7. fetch[f].at # "idle" /\ r.at # "idle" /\ tagged[r.got] /\ r.got # 0
      BY <2>1, <2>2, <3>3
    <3> QED BY <1>5, <3>3, <3>4, <3>5, <3>6, <3>7
  <2> QED BY <2>3, <2>4
<1>13. ASSUME NEW f \in Fetcher, FillEtag(f) PROVE CacheInv'
  <2>1. /\ fetch[f].at = "fillEtag" /\ etag' = fetch[f].got /\ Done(f)
        /\ UNCHANGED <<serverVars, body, overlap, unpaired, staleHit>>
    BY <1>13 DEF FillEtag, AtStep
  <2>2. tagged[fetch[f].got] /\ fetch[f].got \in 0..MaxVersion
    BY <1>0, <2>1 DEF CacheInv, Known, Fetch
  <2>3. ~overlap => (~putBack => ~staleHit /\ TagSound /\ Sound(f)) /\ (~unpaired => ~staleHit /\ Paired(f))
    BY <2>1, FetcherSteps
  <2>4. ~overlap /\ ~putBack => TagSound'
    BY <2>1, <2>3 DEF TagSound, Sound, serverVars
  <2>5. ~overlap /\ ~unpaired => etag' = body
    BY <2>1, <2>3 DEF Paired
  <2> QED BY <1>0, <1>4, <2>1, <2>2, <2>3, <2>4, <2>5 DEF serverVars
<1>14. ASSUME NEW f \in Fetcher, KillCrawler(f) PROVE CacheInv'
  <2>1. /\ fetch[f].at # "idle" /\ Done(f) /\ UNCHANGED <<serverVars, body, etag, overlap, staleHit>>
        /\ unpaired' = (unpaired \/ (fetch[f].at \in {"fillBody", "etag", "fillEtag"} /\ etag # 0))
    BY <1>14 DEF KillCrawler, AtStep, fileVarsOf, CutOff
  <2>2. ~overlap => (~putBack => ~staleHit /\ TagSound /\ Sound(f)) /\ (~unpaired => ~staleHit /\ Paired(f))
    BY <2>1, FetcherSteps
  <2>3. fetch[f] \in Fetch
    BY <1>0
  <2>4. ~overlap /\ ~unpaired' => etag = 0 \/ etag = body
    BY <2>1, <2>2, <2>3 DEF Paired, Fetch, FetchStep
  <2>5. unpaired' \in BOOLEAN /\ (unpaired => unpaired')
    BY <2>1
  <2> QED BY <1>0, <1>4, <2>1, <2>2, <2>4, <2>5 DEF TagSound, serverVars
<1>15. CASE UNCHANGED crawlerVars
  BY <1>15 DEF crawlerVars, CacheInv, CrawlerTypeOK, Known, Sound, Paired, TagSound
<1> QED
  BY <1>1, <1>2, <1>3, <1>6, <1>7, <1>8, <1>10, <1>11, <1>12, <1>13, <1>14, <1>15 DEF CrawlerNext

\* For any crawlers, versions and retries: "not modified" (_fetch_one) is only ever said of
\* the body on file, unless two crawlers were at the page at once, or a body was written
\* over without its ETag and the page was put back.
THEOREM CacheHitIsCurrent == CrawlerSpec => []HitIsCurrent
<1>1. CrawlerInit => CacheInv
  <2> SUFFICES ASSUME CrawlerInit PROVE CacheInv
    OBVIOUS
  <2>1. Resting \in Fetch
    BY CrawlerAssumption DEF Resting, Fetch, FetchStep
  <2>2. \A f \in Fetcher : fetch[f] = Resting
    BY DEF CrawlerInit
  <2>3. \A f \in Fetcher : Known(f) /\ Sound(f) /\ Paired(f) /\ fetch[f].at = "idle"
    <3>0. Resting.at = "idle" /\ Resting.cached = 0 /\ Resting.got = 0
      BY DEF Resting
    <3>1. \A f \in Fetcher : fetch[f].at = "idle" /\ fetch[f].cached = 0 /\ fetch[f].got = 0
      BY <2>2, <3>0
    <3>2. version = 1 /\ etag = 0 /\ body = 0
      BY DEF CrawlerInit
    <3>3. \A f \in Fetcher : Known(f)
      BY <3>1 DEF Known
    <3>4. \A f \in Fetcher : Sound(f)
      <4> TAKE f \in Fetcher
      <4>1. fetch[f].got <= version /\ fetch[f].cached <= version
        BY <3>1, <3>2
      <4> QED BY <3>1, <3>2, <4>1 DEF Sound
    <3>5. \A f \in Fetcher : Paired(f)
      BY <3>1, <3>2 DEF Paired
    <3> QED BY <3>1, <3>3, <3>4, <3>5
  <2>4. CrawlerTypeOK
    <3>1. fetch \in [Fetcher -> Fetch] /\ tagged \in [1..MaxVersion -> BOOLEAN]
      BY <2>1 DEF CrawlerInit
    <3>2. version \in 1..MaxVersion /\ body \in 0..MaxVersion /\ etag \in 0..MaxVersion
      BY CrawlerAssumption DEF CrawlerInit
    <3>3. overlap \in BOOLEAN /\ staleHit \in BOOLEAN /\ putBack \in BOOLEAN /\ unpaired \in BOOLEAN
      BY DEF CrawlerInit
    <3> QED BY <3>1, <3>2, <3>3 DEF CrawlerTypeOK, Fetch
  <2> QED BY <2>3, <2>4 DEF CrawlerInit, CacheInv, TagSound
<1>2. CacheInv => HitIsCurrent
  BY DEF CacheInv, HitIsCurrent
<1> QED BY <1>1, <1>2, CacheInductive, PTL DEF CrawlerSpec

-----------------------------------------------------------------------------
(* The review *)

\* While it runs every look has failed, and neither bound is reached.
ReviewInv ==
  /\ config \in [iterations : Nat, autoStop : BOOLEAN, threshold : Nat]
  /\ iteration \in Nat /\ fails \in Nat /\ (iteration = 0 => failures = {})
  /\ final = "none" =>
       /\ fails = iteration /\ iteration <= config.iterations
       /\ iteration = config.iterations => iteration = 0
       /\ iteration # 0 /\ config.autoStop => fails < config.threshold
  /\ ReviewSettles

\* What a look finds: nothing only if no task is underway and no metric asked for.
LEMMA NothingFound ==
  ASSUME NEW f \in FailuresNow, f = {}
  PROVE  Evidence = {} /\ "metric" \notin demands
BY DEF FailuresNow

\* One look.
LEMMA OneLook ==
  ASSUME ReviewInv, Iterate
  PROVE  ReviewInv'
<1> DEFINE i == config.iterations
           t == config.threshold
<1>1. /\ final = "none" /\ iteration \in Nat /\ fails = iteration /\ iteration < i
      /\ i \in Nat /\ t \in Nat /\ config.autoStop \in BOOLEAN
      /\ iteration # 0 /\ config.autoStop => fails < t
  BY DEF ReviewInv, Iterate
<1>2. /\ failures' \in FailuresNow /\ verdict' = VerdictOn(failures') /\ iteration' = iteration + 1
      /\ fails' = (IF verdict' = "GO" THEN fails ELSE fails + 1)
      /\ final' = (IF verdict' = "GO" THEN "GO"
                   ELSE IF (config.autoStop /\ fails' >= t) \/ iteration' = i THEN Aggregate(fails', verdict')
                   ELSE "none")
      /\ taskOf' = taskOf /\ config' = config /\ demands' = demands
  BY DEF Iterate
<1>3. Evidence' = Evidence
  BY <1>2 DEF Evidence
<1>4. /\ verdict' = "GO" <=> failures' = {}
      /\ verdict' # "GO" => (verdict' = "PIVOT" <=> ShouldPivot(failures')) /\ verdict' \in {"PIVOT", "NO-GO"}
  BY <1>2 DEF VerdictOn, ShouldPivot
<1>5. CASE verdict' = "GO"
  <2>1. Evidence = {} /\ "metric" \notin demands
    BY <1>2, <1>4, <1>5, NothingFound
  <2>2. final' = "GO" /\ fails' = fails /\ iteration' = iteration + 1
    BY <1>2, <1>5
  <2>3. config.autoStop => fails <= t \/ fails <= 1
    BY <1>1
  <2> HIDE DEF i, t
  <2>4. ReviewSettles'
    BY <1>1, <1>2, <1>3, <1>4, <1>5, <2>1, <2>2, <2>3 DEF ReviewSettles, t
  <2> QED BY <1>1, <1>2, <2>2, <2>4 DEF ReviewInv
<1>6. CASE verdict' # "GO"
  <2>1. fails' = fails + 1
    BY <1>2, <1>6
  <2>2. config.autoStop => fails' <= t \/ fails' <= 1
    BY <1>1, <2>1
  <2>3. CASE (config.autoStop /\ fails' >= t) \/ iteration' = i
    <3>1. final' = Aggregate(fails', verdict')
      BY <1>2, <1>6, <2>3
    <3>2. /\ final' \in {"PIVOT", "NO-GO"}
          /\ final' = "PIVOT" => ShouldPivot(failures') /\ ~(fails' >= t)
          /\ final' = "NO-GO" => fails' >= t \/ ~ShouldPivot(failures')
      BY <1>4, <1>6, <3>1 DEF Aggregate
    <3>3. final' = "PIVOT" => t > i
      BY <1>1, <1>2, <2>1, <2>3, <3>2
    <3>4. ReviewSettles'
      BY <1>1, <1>2, <2>1, <2>2, <2>3, <3>2, <3>3 DEF ReviewSettles, ShouldPivot
    <3> QED BY <1>1, <1>2, <2>1, <3>2, <3>4 DEF ReviewInv
  <2>4. CASE ~((config.autoStop /\ fails' >= t) \/ iteration' = i)
    <3>1. final' = "none"
      BY <1>2, <1>6, <2>4
    <3>2. ReviewSettles'
      BY <3>1 DEF ReviewSettles
    <3>3. config'.autoStop => fails' < t
      BY <1>1, <1>2, <2>1, <2>4
    <3> QED BY <1>1, <1>2, <2>1, <2>4, <3>1, <3>2, <3>3 DEF ReviewInv
  <2> QED BY <2>3, <2>4
<1> QED BY <1>5, <1>6

\* For any tasks and configurations: a review ends GO, NO-GO or PIVOT for the reasons given,
\* and no preset's ends with PIVOT (run, _aggregate_results).
THEOREM ReviewAlwaysSettles == ReviewSpec => []ReviewSettles
<1>1. ReviewInit => ReviewInv
  BY ReviewAssumption DEF ReviewInit, ReviewInv, ReviewSettles
<1>2. ReviewInv /\ [ReviewNext]_reviewVars => ReviewInv'
  <2> SUFFICES ASSUME ReviewInv, [ReviewNext]_reviewVars PROVE ReviewInv'
    OBVIOUS
  <2>1. CASE Iterate
    BY <2>1, OneLook
  <2>2. CASE NoResults
    <3>1. /\ final = "none" /\ config.iterations = 0 /\ final' = "NO-GO"
          /\ UNCHANGED <<taskOf, config, demands, iteration, fails, verdict, failures>>
      BY <2>2 DEF NoResults
    <3>2. iteration = 0 /\ fails = 0 /\ failures = {}
      BY <3>1 DEF ReviewInv
    <3>3. config.threshold \in Nat
      BY DEF ReviewInv
    <3>4. ReviewSettles'
      <4>1. fails' = iteration' /\ iteration' = config'.iterations /\ fails' <= 1
        BY <3>1, <3>2
      <4>2. fails' >= config'.threshold \/ ~ShouldPivot(failures)'
        <5>1. failures = {} => ~ShouldPivot(failures)
          BY DEF ShouldPivot
        <5> QED BY <3>1, <3>2, <5>1 DEF ShouldPivot
      <4> QED BY <3>1, <4>1, <4>2 DEF ReviewSettles
    <3> QED BY <3>1, <3>2, <3>4 DEF ReviewInv
  <2>3. ASSUME NEW t \in ReviewTask, TaskMoves(t) PROVE ReviewInv'
    BY <2>3 DEF TaskMoves, ReviewInv, ReviewSettles
  <2>4. CASE UNCHANGED reviewVars
    BY <2>4 DEF reviewVars, ReviewInv, ReviewSettles, Evidence, ShouldPivot
  <2> QED BY <2>1, <2>2, <2>3, <2>4 DEF ReviewNext
<1>3. ReviewInv => ReviewSettles
  BY DEF ReviewInv
<1> QED BY <1>1, <1>2, <1>3, PTL DEF ReviewSpec

-----------------------------------------------------------------------------
(* The stop hook *)

\* The store stands still while a save is in progress, so what the save on top has read is
\* what the store says, and once it has replaced the file, so does the file.
HookInv ==
  /\ HookTypeOK /\ HandoffIsFinal
  /\ saves # <<>> =>
       /\ Top.step = "replace" => Top.read = work \/ "handoff" \in missed
       /\ Top.step = "export" => handoff = work \/ "handoff" \in missed
  /\ stage = "over" => saves = <<>>

\* What a step does to the top of the stack, it does to no other save.
LEMMA TopMoves ==
  ASSUME HookTypeOK, saves # <<>>, NEW r \in Save, saves' = [saves EXCEPT ![Len(saves)] = r]
  PROVE  /\ saves' \in Seq(Save) /\ Len(saves') = Len(saves)
         /\ \A i \in 1..Len(saves) : saves'[i] = IF i = Len(saves) THEN r ELSE saves[i]
         /\ Top' = r /\ saves' # <<>>
<1>1. /\ saves' \in Seq(Save) /\ Len(saves') = Len(saves) /\ Len(saves) \in 1..Len(saves)
      /\ \A i \in 1..Len(saves) : saves'[i] = IF i = Len(saves) THEN r ELSE saves[i]
  BY DEF HookTypeOK
<1>2. Top' = r /\ saves' # <<>>
  BY <1>1 DEF Top
<1> QED BY <1>1, <1>2

\* HookInv is kept by the program, by signals and by every step of a save.
LEMMA HookInductive == HookInv /\ [HookNext]_hookVars => HookInv'
<1> SUFFICES ASSUME HookInv, [HookNext]_hookVars PROVE HookInv'
  OBVIOUS
<1>0. /\ stage \in {"work", "exit", "over"} /\ saves \in Seq(Save) /\ hookLock \in BOOLEAN
      /\ work \in 0..MaxWork /\ handoff \in 0..Untold /\ storeSnap \in 0..MaxWork
      /\ missed \subseteq {"handoff", "store"} /\ stops \in 0..MaxStops
  BY DEF HookInv, HookTypeOK
<1>00. 0 \in 0..Untold /\ work \in 0..Untold /\ Untold \in 0..Untold /\ MaxWork \in Nat /\ MaxStops \in Nat
  BY <1>0, StopAssumption DEF Untold
<1>1. ASSUME NEW step \in SaveStep \ {"replace", "export"}, saves # <<>>, ToStep(step),
             UNCHANGED <<stage, work, handoff, storeSnap, missed, stops>>, hookLock' \in BOOLEAN
      PROVE  HookInv'
  <2> DEFINE r == [saves[Len(saves)] EXCEPT !.step = step]
  <2>1. Len(saves) \in 1..Len(saves) /\ saves[Len(saves)] \in Save
    BY <1>0, <1>1
  <2>2. r \in Save /\ saves' = [saves EXCEPT ![Len(saves)] = r] /\ r.step = step
    BY <1>1, <2>1 DEF ToStep, Save
  <2> HIDE DEF r
  <2>3. saves' \in Seq(Save) /\ Top' = r /\ saves' # <<>>
    BY <1>1, <2>2, TopMoves DEF HookInv
  <2> QED BY <1>0, <1>1, <2>2, <2>3 DEF HookInv, HookTypeOK, HandoffIsFinal
<1>2. ASSUME NEW signal \in BOOLEAN, BeginSave(signal), stage # "over" /\ stage' \in {"work", "exit"},
             UNCHANGED <<hookLock, work, handoff, storeSnap>>, stops' \in 0..MaxStops
      PROVE  HookInv'
  <2> DEFINE r == [step |-> "lock", read |-> 0, signal |-> signal]
  <2>1. r \in Save /\ saves' = Append(saves, r) /\ r.step = "lock" /\ missed' = {}
    BY <1>00, <1>2 DEF BeginSave, Save, SaveStep
  <2> HIDE DEF r
  <2>2. saves' \in Seq(Save) /\ Top' = r
    BY <1>0, <2>1 DEF Top
  <2>3. HookTypeOK'
    BY <1>0, <1>2, <2>1, <2>2 DEF HookTypeOK
  <2> QED BY <1>2, <2>1, <2>2, <2>3 DEF HookInv, HandoffIsFinal
<1>3. CASE Work
  <2>1. stage = "work" /\ saves = <<>> /\ work' = work + 1 /\ work' \in 0..MaxWork
        /\ UNCHANGED <<stage, saves, hookLock, handoff, storeSnap, missed, stops>>
    BY <1>0, <1>00, <1>3 DEF Work
  <2> QED BY <1>0, <2>1 DEF HookInv, HookTypeOK, HandoffIsFinal
<1>4. CASE ProgramEnds
  BY <1>0, <1>2, <1>4 DEF ProgramEnds
<1>5. CASE SignalArrives
  <2>1. stops' \in 0..MaxStops /\ stage' \in {"work", "exit"}
    BY <1>0, <1>00, <1>5 DEF SignalArrives
  <2> QED BY <1>2, <1>5, <2>1 DEF SignalArrives
<1>6. CASE TakeLock
  BY <1>1, <1>6 DEF TakeLock, Saving, SaveStep
<1>7. CASE CountSave
  BY <1>1, <1>7 DEF CountSave, Saving, SaveStep
<1>8. CASE ReadTasks
  <2>1. saves # <<>> /\ Len(saves) \in 1..Len(saves) /\ Top \in Save /\ Top = saves[Len(saves)]
    BY <1>0, <1>8 DEF ReadTasks, Saving, Top
  <2>2. PICK told \in {work, Untold} :
          /\ saves' = [saves EXCEPT ![Len(saves)].step = "replace", ![Len(saves)].read = told]
          /\ missed' \subseteq {"handoff", "store"} /\ (told = work \/ "handoff" \in missed')
    BY <1>0, <1>8 DEF ReadTasks
  <2>3. UNCHANGED <<stage, hookLock, work, handoff, storeSnap, stops>> /\ stage # "over"
    BY <1>8, <2>1 DEF ReadTasks, HookInv
  <2> DEFINE r == [Top EXCEPT !.step = "replace", !.read = told]
  <2>4. r \in Save /\ saves' = [saves EXCEPT ![Len(saves)] = r] /\ r.step = "replace" /\ r.read = told
    BY <1>00, <2>1, <2>2 DEF Save, SaveStep
  <2> HIDE DEF r
  <2>5. saves' \in Seq(Save) /\ Top' = r /\ saves' # <<>>
    BY <2>1, <2>4, TopMoves DEF HookInv
  <2> QED BY <1>0, <2>2, <2>3, <2>4, <2>5 DEF HookInv, HookTypeOK, HandoffIsFinal
<1>9. CASE ReplaceHandoff
  <2>1. saves # <<>> /\ Len(saves) \in 1..Len(saves) /\ Top \in Save /\ Top = saves[Len(saves)]
    BY <1>0, <1>9 DEF ReplaceHandoff, Saving, Top
  <2> DEFINE r == [Top EXCEPT !.step = "export"]
  <2>2. r \in Save /\ saves' = [saves EXCEPT ![Len(saves)] = r] /\ r.step = "export"
    BY <1>9, <2>1 DEF ReplaceHandoff, ToStep, Save, SaveStep
  <2>3. handoff' \in 0..Untold /\ (handoff' = work \/ "handoff" \in missed)
    BY <1>9, <2>1 DEF ReplaceHandoff, Saving, HookInv, Save
  <2>4. UNCHANGED <<stage, hookLock, work, storeSnap, missed, stops>> /\ stage # "over"
    BY <1>9, <2>1 DEF ReplaceHandoff, HookInv
  <2> HIDE DEF r
  <2>5. saves' \in Seq(Save) /\ Top' = r /\ saves' # <<>>
    BY <2>1, <2>2, TopMoves DEF HookInv
  <2> QED BY <1>0, <2>2, <2>3, <2>4, <2>5 DEF HookInv, HookTypeOK, HandoffIsFinal
<1>10. ASSUME NEW without \in SUBSET {"handoff", "store"}, HookEnds(without),
              UNCHANGED <<hookLock, work, handoff, stops>>, storeSnap' \in 0..MaxWork,
              handoff = work \/ "handoff" \in without, storeSnap' = work \/ "store" \in without
       PROVE  HookInv'
  <2> DEFINE first == [step |-> "lock", read |-> 0, signal |-> FALSE]
  <2>1. first \in Save /\ first.step = "lock"
    BY <1>00 DEF Save, SaveStep
  <2> HIDE DEF first
  <2>2. CASE stage = "work"
    <3>1. stage' = "exit" /\ saves' = <<first>> /\ missed' = {}
      BY <1>10, <2>2 DEF HookEnds, first
    <3>2. saves' \in Seq(Save) /\ Top' = first
      BY <2>1, <3>1 DEF Top
    <3> QED BY <1>0, <1>10, <2>1, <3>1, <3>2 DEF HookInv, HookTypeOK, HandoffIsFinal
  <2>3. CASE stage # "work"
    <3>1. stage' = "over" /\ saves' = <<>> /\ missed' = without /\ saves' \in Seq(Save)
      BY <1>10, <2>3 DEF HookEnds
    <3> QED BY <1>0, <1>10, <3>1 DEF HookInv, HookTypeOK, HandoffIsFinal
  <2> QED BY <2>2, <2>3
<1>11. CASE ReplaceFails
  BY <1>0, <1>10, <1>11 DEF ReplaceFails
<1>12. CASE EndSave
  <2>1. handoff = work \/ "handoff" \in missed
    BY <1>12 DEF EndSave, Saving, HookInv
  <2>2. CASE storeSnap' = work /\ HookEnds(missed)
    BY <1>0, <1>10, <1>12, <2>1, <2>2 DEF EndSave
  <2>3. CASE UNCHANGED storeSnap /\ HookEnds(missed \cup {"store"})
    BY <1>0, <1>10, <1>12, <2>1, <2>3 DEF EndSave
  <2> QED BY <1>12, <2>2, <2>3 DEF EndSave
<1>13. CASE UNCHANGED hookVars
  BY <1>13 DEF hookVars, HookInv, HookTypeOK, HandoffIsFinal, Top
<1> QED BY <1>3, <1>4, <1>5, <1>6, <1>7, <1>8, <1>9, <1>11, <1>12, <1>13 DEF HookNext

\* A controller that has just begun has nothing on its stack.
LEMMA HookStarts == HookInit => HookInv
<1> SUFFICES ASSUME HookInit PROVE HookInv
  OBVIOUS
<1>1. saves \in Seq(Save) /\ saves = <<>>
  BY DEF HookInit
<1>2. /\ work \in 0..MaxWork /\ handoff \in 0..Untold /\ storeSnap \in 0..MaxWork
      /\ stops \in 0..MaxStops /\ stage = "work" /\ missed = {}
  BY StopAssumption DEF HookInit, Untold
<1>3. hookLock \in BOOLEAN
  BY DEF HookInit
<1> QED BY <1>1, <1>2, <1>3 DEF HookInv, HookTypeOK, HandoffIsFinal

\* For any number of signals, on top of one another, and whatever fails in a save: once the
\* program is over, a file that did not fail in the last save tells of the last change
\* (_save_state, _signal_handler).
THEOREM HandoffFinal == HookSpec => []HandoffIsFinal
<1>1. HookInv => HandoffIsFinal
  BY DEF HookInv
<1> QED BY <1>1, HookStarts, HookInductive, PTL DEF HookSpec

\* A save that holds the lock is counting itself, no other one is, and what came on top
\* of it has not begun.
LockHolder ==
  /\ hookLock => \E i \in DOMAIN saves :
       /\ saves[i].step = "count"
       /\ \A j \in DOMAIN saves :
            /\ j # i => saves[j].step # "count"
            /\ j > i => saves[j].step = "lock"
  /\ ~hookLock => \A i \in DOMAIN saves : saves[i].step # "count"

\* A save that steps from one place that needs no lock to another leaves the holder alone.
LEMMA LockHolderInductive == HookTypeOK /\ LockHolder /\ [HookNext]_hookVars => LockHolder'
<1> SUFFICES ASSUME HookTypeOK, LockHolder, [HookNext]_hookVars PROVE LockHolder'
  OBVIOUS
<1>1. saves \in Seq(Save) /\ DOMAIN saves = 1..Len(saves) /\ Len(saves) \in Nat
  BY DEF HookTypeOK
<1>2. ASSUME NEW signal \in BOOLEAN, BeginSave(signal), UNCHANGED hookLock
      PROVE  LockHolder'
  <2> DEFINE r == [step |-> "lock", read |-> 0, signal |-> signal]
  <2>1. r.step = "lock" /\ saves' = Append(saves, r)
    BY <1>2 DEF BeginSave
  <2> HIDE DEF r
  <2>2. /\ DOMAIN saves' = 1..Len(saves) + 1
        /\ \A i \in 1..Len(saves) : saves'[i] = saves[i]
        /\ saves'[Len(saves) + 1] = r
    BY <1>1, <2>1
  <2>3. CASE hookLock
    <3>1. PICK i \in DOMAIN saves :
            /\ saves[i].step = "count"
            /\ \A j \in DOMAIN saves :
                 /\ j # i => saves[j].step # "count"
                 /\ j > i => saves[j].step = "lock"
      BY <2>3 DEF LockHolder
    <3>2. i \in DOMAIN saves' /\ saves'[i].step = "count"
      BY <1>1, <2>2, <3>1
    <3>3. ASSUME NEW j \in DOMAIN saves'
          PROVE  (j # i => saves'[j].step # "count") /\ (j > i => saves'[j].step = "lock")
      BY <1>1, <2>1, <2>2, <3>1
    <3>4. hookLock'
      BY <1>2, <2>3
    <3> QED BY <3>2, <3>3, <3>4 DEF LockHolder
  <2>4. CASE ~hookLock
    BY <1>1, <1>2, <2>1, <2>2, <2>4 DEF LockHolder
  <2> QED BY <2>3, <2>4
<1>3. ASSUME NEW r \in Save, saves # <<>>, saves' = [saves EXCEPT ![Len(saves)] = r]
      PROVE  /\ DOMAIN saves' = 1..Len(saves) /\ Len(saves) \in 1..Len(saves)
             /\ \A i \in 1..Len(saves) : saves'[i] = IF i = Len(saves) THEN r ELSE saves[i]
  BY <1>1, <1>3
<1>0. saves # <<>> => Top \in Save /\ Top = saves[Len(saves)]
  BY <1>1 DEF Top
<1>4. CASE Work
  BY <1>4 DEF Work, LockHolder
<1>5. CASE ProgramEnds
  BY <1>2, <1>5 DEF ProgramEnds
<1>6. CASE SignalArrives
  BY <1>2, <1>6 DEF SignalArrives
<1>7. CASE TakeLock
  <2> DEFINE r == [Top EXCEPT !.step = "count"]
  <2>1. saves # <<>> /\ ~hookLock /\ hookLock' /\ saves' = [saves EXCEPT ![Len(saves)] = r]
    BY <1>1, <1>7 DEF TakeLock, Saving, ToStep, Top
  <2>2. r \in Save /\ r.step = "count"
    BY <1>0, <2>1 DEF Save, SaveStep
  <2> HIDE DEF r
  <2>3. /\ DOMAIN saves' = 1..Len(saves) /\ Len(saves) \in 1..Len(saves)
        /\ \A i \in 1..Len(saves) : saves'[i] = IF i = Len(saves) THEN r ELSE saves[i]
    BY <1>3, <2>1, <2>2
  <2>4. \A i \in 1..Len(saves) : saves[i].step # "count"
    BY <1>1, <2>1 DEF LockHolder
  <2> QED BY <1>1, <2>1, <2>2, <2>3, <2>4 DEF LockHolder
<1>8. ASSUME NEW r \in Save, saves # <<>>, Top.step \notin {"lock", "count"}, r.step # "count",
             saves' = [saves EXCEPT ![Len(saves)] = r], UNCHANGED hookLock
      PROVE  LockHolder'
  <2>1. /\ DOMAIN saves' = 1..Len(saves) /\ Len(saves) \in 1..Len(saves)
        /\ \A i \in 1..Len(saves) : saves'[i] = IF i = Len(saves) THEN r ELSE saves[i]
    BY <1>3, <1>8
  <2>2. ~hookLock
    <3>1. ASSUME hookLock, NEW i \in DOMAIN saves, saves[i].step = "count",
                 \A j \in DOMAIN saves : j > i => saves[j].step = "lock"
          PROVE  FALSE
      BY <1>1, <1>8, <2>1, <3>1 DEF Top
    <3> QED BY <3>1 DEF LockHolder
  <2> QED BY <1>1, <1>8, <2>1, <2>2 DEF LockHolder
<1>9. CASE CountSave
  <2> DEFINE r == [Top EXCEPT !.step = "read"]
  <2>1. saves # <<>> /\ Top.step = "count" /\ ~hookLock' /\ saves' = [saves EXCEPT ![Len(saves)] = r]
    BY <1>1, <1>9 DEF CountSave, Saving, ToStep, Top
  <2>2. r \in Save /\ r.step = "read"
    BY <1>0, <2>1 DEF Save, SaveStep
  <2> HIDE DEF r
  <2>3. /\ DOMAIN saves' = 1..Len(saves) /\ Len(saves) \in 1..Len(saves)
        /\ \A i \in 1..Len(saves) : saves'[i] = IF i = Len(saves) THEN r ELSE saves[i]
    BY <1>3, <2>1, <2>2
  <2>4. hookLock
    BY <1>1, <2>1, <2>3 DEF LockHolder, Top
  <2>5. ASSUME NEW i \in DOMAIN saves, saves[i].step = "count",
               \A j \in DOMAIN saves : j # i => saves[j].step # "count"
        PROVE  \A j \in 1..Len(saves) : j # Len(saves) => saves[j].step # "count"
    BY <1>1, <2>1, <2>3, <2>5 DEF Top
  <2>6. \A j \in 1..Len(saves) : j # Len(saves) => saves[j].step # "count"
    BY <2>4, <2>5 DEF LockHolder
  <2> QED BY <2>1, <2>2, <2>3, <2>6 DEF LockHolder
<1>10. CASE ReadTasks
  <2>0. work \in 0..Untold /\ Untold \in 0..Untold
    BY StopAssumption DEF HookTypeOK, Untold
  <2>3. PICK told \in {work, Untold} :
          saves' = [saves EXCEPT ![Len(saves)].step = "replace", ![Len(saves)].read = told]
    BY <1>10 DEF ReadTasks
  <2> DEFINE r == [Top EXCEPT !.step = "replace", !.read = told]
  <2>4. saves # <<>>
    BY <1>10 DEF ReadTasks, Saving
  <2>1. r \in Save /\ saves' = [saves EXCEPT ![Len(saves)] = r] /\ r.step = "replace"
    BY <1>0, <2>0, <2>3, <2>4 DEF Save, SaveStep
  <2>2. saves # <<>> /\ Top.step = "read" /\ UNCHANGED hookLock
    BY <1>10 DEF ReadTasks, Saving
  <2> HIDE DEF r
  <2> QED BY <1>8, <2>1, <2>2
<1>11. CASE ReplaceHandoff
  <2> DEFINE r == [Top EXCEPT !.step = "export"]
  <2>1. r \in Save /\ saves' = [saves EXCEPT ![Len(saves)] = r] /\ r.step = "export"
    BY <1>11, <1>0 DEF ReplaceHandoff, ToStep, Saving, Save, SaveStep
  <2>2. saves # <<>> /\ Top.step = "replace" /\ UNCHANGED hookLock
    BY <1>11 DEF ReplaceHandoff, Saving
  <2> HIDE DEF r
  <2> QED BY <1>8, <2>1, <2>2
<1>12. CASE EndSave \/ ReplaceFails
  <2>1. /\ Len(saves) \in DOMAIN saves /\ saves[Len(saves)].step \in {"export", "replace"}
        /\ UNCHANGED hookLock /\ \E without \in SUBSET {"handoff", "store"} : HookEnds(without)
    BY <1>1, <1>12 DEF EndSave, ReplaceFails, Saving, Top, HookTypeOK
  <2>2. ~hookLock
    <3>1. ASSUME hookLock, NEW i \in DOMAIN saves, saves[i].step = "count",
                 \A j \in DOMAIN saves : j > i => saves[j].step = "lock"
          PROVE  FALSE
      BY <1>1, <2>1, <3>1
    <3> QED BY <3>1 DEF LockHolder
  <2>3. \A i \in DOMAIN saves' : saves'[i].step # "count"
    BY <2>1 DEF HookEnds
  <2> QED BY <2>1, <2>2, <2>3 DEF LockHolder
<1>13. CASE UNCHANGED hookVars
  BY <1>13 DEF hookVars, LockHolder
<1> QED
  BY <1>4, <1>5, <1>6, <1>7, <1>9, <1>10, <1>11, <1>12, <1>13 DEF HookNext

\* For any number of signals: the process hangs in its own lock only if one of the saves
\* was cut off while it counted itself (_save_state and the lock that is not reentrant).
THEOREM StuckOnlyWhileCounting == HookSpec => []StuckOnlyInCount
<1>1. HookInit => HookInv /\ LockHolder
  BY HookStarts DEF HookInit, LockHolder
<1>2. (HookInv /\ LockHolder) /\ [HookNext]_hookVars => (HookInv /\ LockHolder)'
  BY HookInductive, LockHolderInductive DEF HookInv
<1>3. LockHolder => StuckOnlyInCount
  BY DEF LockHolder, StuckOnlyInCount, Stuck
<1> QED BY <1>1, <1>2, <1>3, PTL DEF HookSpec

-----------------------------------------------------------------------------
(* The guided start *)

OnItsWay == {"contract", "write", "fill", "hand over", "running"}
Author == GuidedMode \cup {"human", "nobody"}
GuidedContract == [is : {"absent", "torn", "whole"}, automation : {"safe-auto", "manual", "unset"},
                   author : Author]
GuidedStep == OnItsWay \cup {"idle", "doctor", "refused", "dry", "killed"}
GuidedState == [at : GuidedStep, mode : GuidedMode \cup {"none"}, dry : BOOLEAN,
                doctor : {"none", "PASS", "FAIL"}, automation : {"safe-auto", "manual", "none"},
                author : Author]

\* Who may have chosen an automation.
Owned(automation, author) ==
  /\ automation = "manual" => author \in {"strict", "human"}
  /\ automation = "safe-auto" => author # "strict"

\* How far one guided start has come: past the doctor it has passed it if it is strict; what
\* it writes is the default of its mode; and what it hands over belongs to its author.
Fair(r) ==
  /\ r.at \in OnItsWay \cup {"doctor"} => r.mode \in GuidedMode
  /\ r.at \in OnItsWay /\ r.mode = "strict" => r.doctor = "PASS"
  /\ r.at \in {"write", "fill"} => r.author = r.mode /\ r.automation = DefaultAutomation(r.mode)
  /\ r.at \in {"hand over", "running"} => Owned(r.automation, r.author)

\* A contract that is there is its author's too, and what a strict start left says so.
GuidedInv ==
  /\ contractFile \in GuidedContract /\ start \in [Start -> GuidedState]
  /\ Owned(contractFile.automation, contractFile.author)
  /\ contractFile.author = "strict" => contractFile.automation = "manual"
  /\ \A s \in Start : Fair(start[s])

\* A start that moves alone keeps the invariant if it stays fair.
LEMMA StartMoves ==
  ASSUME GuidedInv, NEW s \in Start, NEW r \in GuidedState, Fair(r),
         start' = [start EXCEPT ![s] = r], UNCHANGED contractFile
  PROVE  GuidedInv'
<1>1. start' \in [Start -> GuidedState] /\ \A q \in Start : start'[q] = IF q = s THEN r ELSE start[q]
  BY DEF GuidedInv
<1>2. \A q \in Start : Fair(start'[q])
  BY <1>1 DEF GuidedInv
<1> QED BY <1>1, <1>2 DEF GuidedInv, Fair

\* Every step of a guided start, and a human, keeps the automation its author's.
LEMMA GuidedInductive == GuidedInv /\ [GuidedNext]_guidedVars => GuidedInv'
<1> SUFFICES ASSUME GuidedInv, [GuidedNext]_guidedVars PROVE GuidedInv'
  OBVIOUS
<1>1. CASE WriteByHand
  <2>1. PICK automation \in {"safe-auto", "manual", "unset"} :
          contractFile' = [is |-> "whole", automation |-> automation, author |-> "human"]
    BY <1>1 DEF WriteByHand
  <2>2. contractFile' \in GuidedContract /\ start' = start
    BY <1>1, <2>1 DEF WriteByHand, GuidedContract, Author
  <2>3. contractFile'.author = "human"
    BY <2>1
  <2> QED BY <2>2, <2>3 DEF GuidedInv, Owned
<1>2. ASSUME NEW s \in Start, NEW mode \in GuidedMode, NEW dry \in BOOLEAN, BeginStart(s, mode, dry)
      PROVE  GuidedInv'
  <2> DEFINE r == [NewStart EXCEPT !.at = "doctor", !.mode = mode, !.dry = dry]
  <2>1. r \in GuidedState /\ r.at = "doctor" /\ r.mode \in GuidedMode
    BY DEF NewStart, GuidedState, GuidedStep, Author
  <2>2. Fair(r)
    BY <2>1 DEF Fair, OnItsWay
  <2>3. start' = [start EXCEPT ![s] = r] /\ UNCHANGED contractFile
    BY <1>2 DEF BeginStart, Untouched
  <2> HIDE DEF r
  <2> QED BY <2>1, <2>2, <2>3, StartMoves
<1>3. ASSUME NEW s \in Start, NEW overall \in {"PASS", "FAIL"}, RunDoctorFirst(s, overall)
      PROVE  GuidedInv'
  <2> DEFINE r == [start[s] EXCEPT !.doctor = overall,
                     !.at = IF overall = "FAIL" /\ start[s].mode = "strict" THEN "refused" ELSE "contract"]
  <2>1. start[s] \in GuidedState
    BY DEF GuidedInv
  <2>2. r \in GuidedState
    BY <2>1 DEF GuidedState, GuidedStep, OnItsWay
  <2>3. Fair(r)
    <3>1. start[s].mode \in GuidedMode
      BY <1>3 DEF GuidedInv, Fair, RunDoctorFirst
    <3>2. r.mode = start[s].mode /\ r.doctor = overall
      BY <2>1 DEF GuidedState
    <3>3. r.at = IF overall = "FAIL" /\ start[s].mode = "strict" THEN "refused" ELSE "contract"
      BY <2>1 DEF GuidedState
    <3> HIDE DEF r
    <3> QED BY <3>1, <3>2, <3>3 DEF Fair, OnItsWay
  <2>4. start' = [start EXCEPT ![s] = r] /\ UNCHANGED contractFile
    BY <1>3, <2>1 DEF RunDoctorFirst, Untouched, GuidedState, GuidedInv
  <2> HIDE DEF r
  <2> QED BY <2>2, <2>3, <2>4, StartMoves
<1>4. ASSUME NEW s \in Start, TakeContract(s) PROVE GuidedInv'
  <2> DEFINE automation == IF contractFile.automation = "unset" THEN "safe-auto" ELSE contractFile.automation
             r == [start[s] EXCEPT !.at = "hand over", !.automation = automation,
                                   !.author = contractFile.author]
  <2>1. start[s] \in GuidedState /\ start[s].at = "contract"
    BY <1>4 DEF GuidedInv, TakeContract
  <2>2. automation \in {"safe-auto", "manual"} /\ contractFile.author \in Author
    BY DEF GuidedInv, GuidedContract
  <2>3. Owned(automation, contractFile.author)
    BY DEF GuidedInv, Owned
  <2>4. start' = [start EXCEPT ![s] = r] /\ UNCHANGED contractFile
    BY <1>4, <2>1 DEF TakeContract, Untouched, GuidedState, GuidedInv
  <2> HIDE DEF automation
  <2>5. r \in GuidedState /\ r.at = "hand over" /\ r.mode = start[s].mode /\ r.doctor = start[s].doctor
    BY <2>1, <2>2 DEF GuidedState, GuidedStep, OnItsWay
  <2>6. Fair(r)
    BY <2>1, <2>3, <2>5 DEF Fair, OnItsWay, GuidedState, GuidedInv
  <2> HIDE DEF r
  <2> QED BY <2>4, <2>5, <2>6, StartMoves
<1>5. ASSUME NEW s \in Start, DefaultContract(s) PROVE GuidedInv'
  <2> DEFINE r == [start[s] EXCEPT !.at = "write", !.author = start[s].mode,
                                   !.automation = DefaultAutomation(start[s].mode)]
  <2>1. start[s] \in GuidedState /\ start[s].at = "contract" /\ Fair(start[s])
    BY <1>5 DEF GuidedInv, DefaultContract
  <2>2. start[s].mode \in GuidedMode /\ (start[s].mode = "strict" => start[s].doctor = "PASS")
    BY <2>1 DEF Fair, OnItsWay
  <2>3. DefaultAutomation(start[s].mode) \in {"safe-auto", "manual"}
    BY DEF DefaultAutomation
  <2>4. start' = [start EXCEPT ![s] = r] /\ UNCHANGED contractFile
    BY <1>5, <2>1 DEF DefaultContract, Untouched, GuidedState, GuidedInv
  <2>5. /\ r \in GuidedState /\ r.at = "write" /\ r.mode = start[s].mode /\ r.doctor = start[s].doctor
        /\ r.author = start[s].mode /\ r.automation = DefaultAutomation(start[s].mode)
    BY <2>1, <2>2, <2>3 DEF GuidedState, GuidedStep, OnItsWay, Author
  <2> HIDE DEF r
  <2>6. Fair(r)
    BY <2>2, <2>5 DEF Fair
  <2> QED BY <2>4, <2>5, <2>6, StartMoves
\* The file first, then the start.
<1>6. ASSUME NEW s \in Start, NEW then \in GuidedStep, start' = [start EXCEPT ![s].at = then],
             then \in OnItsWay => start[s].at \in OnItsWay,
             then \in {"write", "fill"} => start[s].at \in {"write", "fill"},
             then \in {"hand over", "running"} => start[s].at \in {"write", "fill", "hand over"},
             then # "doctor"
      PROVE  start' \in [Start -> GuidedState] /\ \A q \in Start : Fair(start'[q])
  <2> DEFINE r == [start[s] EXCEPT !.at = then]
  <2>1. start[s] \in GuidedState /\ Fair(start[s]) /\ start' = [start EXCEPT ![s] = r]
    BY <1>6 DEF GuidedInv
  <2>2. /\ r \in GuidedState /\ r.at = then /\ r.mode = start[s].mode /\ r.doctor = start[s].doctor
        /\ r.author = start[s].author /\ r.automation = start[s].automation
    BY <2>1 DEF GuidedState
  <2> HIDE DEF r
  <2>3. start[s].at \in {"write", "fill"} => Owned(start[s].automation, start[s].author)
    BY <2>1 DEF Fair, Owned, DefaultAutomation, OnItsWay, GuidedMode
  <2>4. Fair(r)
    BY <1>6, <2>1, <2>2, <2>3 DEF Fair, OnItsWay
  <2>5. start' \in [Start -> GuidedState] /\ \A q \in Start : start'[q] = IF q = s THEN r ELSE start[q]
    BY <2>1, <2>2 DEF GuidedInv
  <2> QED BY <2>4, <2>5 DEF GuidedInv
<1>7. ASSUME NEW s \in Start, EmptyContract(s) \/ FillContract(s) PROVE GuidedInv'
  <2>1. start[s] \in GuidedState /\ Fair(start[s])
    BY DEF GuidedInv
  <2>2. CASE EmptyContract(s)
    <3>1. start[s].at = "write" /\ start' = [start EXCEPT ![s].at = "fill"] /\ "fill" \in GuidedStep
      BY <2>2 DEF EmptyContract, Guided, GuidedStep, OnItsWay
    <3>2. start' \in [Start -> GuidedState] /\ \A q \in Start : Fair(start'[q])
      BY <1>6, <3>1 DEF OnItsWay
    <3>3. contractFile' \in GuidedContract /\ contractFile'.automation = "unset" /\ contractFile'.author = "nobody"
      BY <2>2 DEF EmptyContract, GuidedContract, Author
    <3> QED BY <3>2, <3>3 DEF GuidedInv, Owned
  <2>3. CASE FillContract(s)
    <3>1. start[s].at = "fill" /\ start' = [start EXCEPT ![s].at = "hand over"] /\ "hand over" \in GuidedStep
      BY <2>3 DEF FillContract, Guided, GuidedStep, OnItsWay
    <3>2. start' \in [Start -> GuidedState] /\ \A q \in Start : Fair(start'[q])
      BY <1>6, <3>1 DEF OnItsWay
    <3>3. start[s].mode \in GuidedMode /\ start[s].automation = DefaultAutomation(start[s].mode)
      BY <2>1, <3>1 DEF Fair, OnItsWay
    <3>4. contractFile' = [is |-> "whole", automation |-> start[s].automation, author |-> start[s].mode]
      BY <2>3 DEF FillContract
    <3>5. start[s].automation \in {"safe-auto", "manual"}
      BY <3>3 DEF DefaultAutomation
    <3>6. /\ contractFile' \in GuidedContract
          /\ contractFile'.automation = start[s].automation /\ contractFile'.author = start[s].mode
      BY <3>3, <3>4, <3>5 DEF GuidedContract, Author
    <3>7. Owned(start[s].automation, start[s].mode) /\ (start[s].mode = "strict" => start[s].automation = "manual")
      BY <3>3 DEF Owned, DefaultAutomation
    <3> QED BY <3>2, <3>6, <3>7 DEF GuidedInv, Owned
  <2> QED BY <1>7, <2>2, <2>3
<1>8. ASSUME NEW s \in Start, CannotWrite(s) \/ HandOver(s) \/ StartKilled(s) PROVE GuidedInv'
  <2>1. PICK then \in {"hand over", "dry", "running", "killed"} :
          /\ start' = [start EXCEPT ![s].at = then] /\ UNCHANGED contractFile
          /\ start[s].at \in OnItsWay \cup {"doctor"}
          /\ then \in {"hand over", "running"} => start[s].at \in {"write", "hand over"}
    BY <1>8 DEF CannotWrite, HandOver, StartKilled, Guided, Untouched, OnItsWay
  <2>2. then \in GuidedStep /\ then # "doctor" /\ then \notin {"write", "fill"}
    BY DEF GuidedStep, OnItsWay
  <2>3. then \in OnItsWay => start[s].at \in OnItsWay
    BY <2>1 DEF OnItsWay
  <2>4. start' \in [Start -> GuidedState] /\ \A q \in Start : Fair(start'[q])
    BY <1>6, <2>1, <2>2, <2>3
  <2> QED BY <2>1, <2>4 DEF GuidedInv, Owned
<1>9. CASE UNCHANGED guidedVars
  BY <1>9 DEF guidedVars, GuidedInv, Fair, Owned
<1> QED BY <1>1, <1>2, <1>3, <1>4, <1>5, <1>6, <1>7, <1>8, <1>9 DEF GuidedNext

\* For any number of guided starts, killed wherever they are: one that runs has passed its
\* doctor if it is strict, and the boundary it has given up is a strict start's or a human's
\* (repro_start.main and the contract it finds or writes).
THEOREM BoundaryOnlyGivenUp == GuidedSpec => []BoundaryGivenUp
<1>1. GuidedInit => GuidedInv
  <2> SUFFICES ASSUME GuidedInit PROVE GuidedInv
    OBVIOUS
  <2>1. contractFile \in GuidedContract
    BY DEF GuidedInit, GuidedContract, Author
  <2>2. NewStart \in GuidedState /\ NewStart.at = "idle"
    BY DEF NewStart, GuidedState, GuidedStep, Author
  <2>3. start \in [Start -> GuidedState] /\ \A s \in Start : start[s] = NewStart
    BY <2>2 DEF GuidedInit
  <2>4. Fair(NewStart)
    BY <2>2 DEF Fair, OnItsWay
  <2> QED BY <2>1, <2>3, <2>4 DEF GuidedInv, GuidedInit, Owned
<1>2. GuidedInv => BoundaryGivenUp
  BY DEF GuidedInv, BoundaryGivenUp, Fair, Owned, OnItsWay
<1> QED BY <1>1, <1>2, GuidedInductive, PTL DEF GuidedSpec

-----------------------------------------------------------------------------
(* The loop of the four levels *)

LevelVerdict == {"PASS", "FAIL"}
LevelState == [at : {"idle", "run", "save", "fill", "filled", "ended", "killed"}, goOn : BOOLEAN,
               said : Seq(LevelVerdict), exit : {"none", "ok", "failed"}]

AllPass(said) == \A i \in DOMAIN said : said[i] = "PASS"
SomeFail(said) == \E i \in DOMAIN said : said[i] = "FAIL"

\* Where a loop is tells what its levels have said: it runs on while there are levels left
\* and, unless it was asked to pass over failures, all have passed; it stops with all four
\* or with a failure; and its exit code is what they said.
Answers(r) ==
  /\ r.at = "idle" => r.said = <<>>
  /\ r.at # "ended" => r.exit = "none"
  /\ r.at = "run" => Len(r.said) < Len(Levels) /\ (r.goOn \/ AllPass(r.said))
  /\ r.at \in {"save", "fill", "filled"} => Len(r.said) = Len(Levels) \/ SomeFail(r.said)
  /\ r.exit = "ok" => Len(r.said) = Len(Levels) /\ AllPass(r.said)
  /\ r.exit = "failed" => SomeFail(r.said)
  /\ ~r.goOn => \A i \in 1..(Len(r.said) - 1) : r.said[i] = "PASS"

ResultsOnFile ==
  /\ resultsFile.is = "torn" => \E l \in Loop : loop[l].at \in {"fill", "killed"}
  /\ resultsFile.is = "whole" =>
       \E l \in Loop : loop[l].at \in {"filled", "ended", "killed"} /\ loop[l].said = resultsFile.said

\* Until two have the file open at once, whoever has it open finds it empty.
OneWrites ==
  ~shared =>
    /\ \A l, k \in Loop : loop[l].at = "fill" /\ loop[k].at = "fill" => l = k
    /\ \A l \in Loop : loop[l].at = "fill" => resultsFile.is = "torn"
    /\ resultsFile.is # "mixed"

LevelInv ==
  /\ loop \in [Loop -> LevelState] /\ \A l \in Loop : Answers(loop[l])
  /\ shared \in BOOLEAN /\ ResultsOnFile /\ OneWrites

\* As many passed as ran exactly if none failed.
LEMMA AllPassedIsAll ==
  ASSUME NEW said \in Seq(LevelVerdict)
  PROVE  AllPassed(said) <=> AllPass(said)
<1> DEFINE passed == {i \in DOMAIN said : said[i] = "PASS"}
<1>1. DOMAIN said = 1..Len(said) /\ Len(said) \in Nat
  OBVIOUS
<1>2. IsFiniteSet(DOMAIN said) /\ Cardinality(DOMAIN said) = Len(said)
  BY <1>1, FS_Interval
<1>3. passed \subseteq DOMAIN said
  OBVIOUS
<1>4. Cardinality(passed) = Cardinality(DOMAIN said) <=> passed = DOMAIN said
  BY <1>2, <1>3, FS_Subset
<1>5. passed = DOMAIN said <=> AllPass(said)
  BY DEF AllPass
<1> QED BY <1>2, <1>4, <1>5 DEF AllPassed, PassCount

\* What a step of a loop does to the loops.
LEMMA LoopMoves ==
  ASSUME LevelInv, NEW l \in Loop, NEW r \in LevelState, Answers(r), loop' = [loop EXCEPT ![l] = r]
  PROVE  /\ loop' \in [Loop -> LevelState] /\ \A k \in Loop : Answers(loop'[k])
         /\ \A k \in Loop : loop'[k] = IF k = l THEN r ELSE loop[k]
<1>1. loop' \in [Loop -> LevelState] /\ \A k \in Loop : loop'[k] = IF k = l THEN r ELSE loop[k]
  BY DEF LevelInv
<1>2. \A k \in Loop : Answers(loop'[k])
  BY <1>1 DEF LevelInv
<1> QED BY <1>1, <1>2

\* A step that leaves the file alone and opens it for nobody.
LEMMA LoopStays ==
  ASSUME LevelInv, NEW l \in Loop, NEW r \in LevelState, Answers(r), loop' = [loop EXCEPT ![l] = r],
         UNCHANGED <<resultsFile, shared>>, r.at # "fill", loop[l].at = "fill" => r.at = "killed",
         loop[l].at # "killed",
         loop[l].at \in {"filled", "ended"} => r.at \in {"filled", "ended", "killed"} /\ r.said = loop[l].said
  PROVE  LevelInv'
<1>1. /\ loop' \in [Loop -> LevelState] /\ \A k \in Loop : Answers(loop'[k])
      /\ \A k \in Loop : loop'[k] = IF k = l THEN r ELSE loop[k]
  BY LoopMoves
<1>2. ASSUME resultsFile.is = "torn" PROVE \E k \in Loop : loop'[k].at \in {"fill", "killed"}
  <2>1. PICK k \in Loop : loop[k].at \in {"fill", "killed"}
    BY <1>2 DEF LevelInv, ResultsOnFile
  <2> QED BY <1>1, <2>1
<1>3. ASSUME resultsFile.is = "whole"
      PROVE  \E k \in Loop : loop'[k].at \in {"filled", "ended", "killed"} /\ loop'[k].said = resultsFile.said
  <2>1. PICK k \in Loop : loop[k].at \in {"filled", "ended", "killed"} /\ loop[k].said = resultsFile.said
    BY <1>3 DEF LevelInv, ResultsOnFile
  <2> QED BY <1>1, <2>1
<1>4. ResultsOnFile'
  BY <1>2, <1>3 DEF ResultsOnFile
<1>5. OneWrites'
  BY <1>1 DEF LevelInv, OneWrites
<1> QED BY <1>1, <1>4, <1>5 DEF LevelInv, Answers

\* Every step of a loop keeps its answers.
LEMMA LevelInductive == LevelInv /\ [LevelNext]_levelVars => LevelInv'
<1> SUFFICES ASSUME LevelInv, [LevelNext]_levelVars PROVE LevelInv'
  OBVIOUS
<1>1. ASSUME NEW l \in Loop, NEW goOn \in BOOLEAN, BeginLoop(l, goOn) PROVE LevelInv'
  <2> DEFINE r == [loop[l] EXCEPT !.at = "run", !.goOn = goOn]
  <2>1. loop[l] \in LevelState /\ Answers(loop[l]) /\ loop[l].at = "idle"
    BY <1>1 DEF LevelInv, BeginLoop
  <2>2. r \in LevelState /\ r.at = "run" /\ r.said = <<>> /\ r.exit = "none"
    BY <2>1 DEF LevelState, Answers
  <2>3. loop' = [loop EXCEPT ![l] = r] /\ UNCHANGED <<resultsFile, shared>>
    BY <1>1, <2>1 DEF BeginLoop, LevelState, LevelInv
  <2> HIDE DEF r
  <2>4. Answers(r)
    BY <2>2 DEF Answers, AllPass, Levels
  <2> QED BY <2>1, <2>2, <2>3, <2>4, LoopStays
<1>2. ASSUME NEW l \in Loop, NEW result \in LevelVerdict, RunLevel(l, result) PROVE LevelInv'
  <2> DEFINE said == Append(loop[l].said, result)
             next == IF result = "FAIL" /\ ~loop[l].goOn THEN "save"
                   ELSE IF Len(said) = Len(Levels) THEN "save" ELSE "run"
             r == [loop[l] EXCEPT !.said = said, !.at = next]
  <2>1. loop[l] \in LevelState /\ Answers(loop[l]) /\ loop[l].at = "run" /\ UNCHANGED <<resultsFile, shared>>
    BY <1>2 DEF LevelInv, RunLevel
  <2>2. /\ said \in Seq(LevelVerdict) /\ Len(said) = Len(loop[l].said) + 1 /\ said[Len(said)] = result
        /\ Len(said) \in DOMAIN said
        /\ \A i \in 1..(Len(said) - 1) : said[i] = loop[l].said[i]
        /\ loop[l].said \in Seq(LevelVerdict)
    BY <2>1 DEF LevelState
  <2>3. loop' = [loop EXCEPT ![l] = r]
    BY <1>2, <2>1 DEF RunLevel, Verdicts, LevelState, LevelInv
  <2>4. Len(Levels) = 4 /\ Len(loop[l].said) < 4 /\ loop[l].exit = "none"
    BY <2>1 DEF Answers, Levels
  <2>5. loop[l].goOn \/ \A i \in 1..(Len(said) - 1) : said[i] = "PASS"
    BY <2>1, <2>2 DEF Answers, AllPass
  <2>6. /\ next \in {"run", "save"}
        /\ next = "run" => Len(said) < 4 /\ (loop[l].goOn \/ result = "PASS")
        /\ next = "save" => Len(said) = 4 \/ result = "FAIL"
    BY <2>2, <2>4 DEF LevelVerdict
  <2> HIDE DEF said, next
  <2>7. r \in LevelState /\ r.at = next /\ r.said = said /\ r.goOn = loop[l].goOn /\ r.exit = "none"
    BY <2>1, <2>2, <2>4, <2>6 DEF LevelState
  <2> HIDE DEF r
  <2>8. r.at = "run" => Len(r.said) < Len(Levels) /\ (r.goOn \/ AllPass(r.said))
    BY <2>2, <2>4, <2>5, <2>6, <2>7 DEF AllPass
  <2>9. r.at = "save" => Len(r.said) = Len(Levels) \/ SomeFail(r.said)
    BY <2>2, <2>4, <2>6, <2>7 DEF SomeFail
  <2>10. ~r.goOn => \A i \in 1..(Len(r.said) - 1) : r.said[i] = "PASS"
    BY <2>5, <2>7
  <2>11. Answers(r)
    BY <2>6, <2>7, <2>8, <2>9, <2>10 DEF Answers
  <2> QED BY <2>1, <2>3, <2>6, <2>7, <2>11, LoopStays
<1>3. ASSUME NEW l \in Loop, LoopKilled(l) PROVE LevelInv'
  <2> DEFINE r == [loop[l] EXCEPT !.at = "killed"]
  <2>1. /\ loop[l] \in LevelState /\ Answers(loop[l]) /\ loop[l].at \in {"run", "save", "fill", "filled"}
        /\ UNCHANGED <<resultsFile, shared>>
    BY <1>3 DEF LevelInv, LoopKilled
  <2>2. loop' = [loop EXCEPT ![l] = r]
    BY <1>3, <2>1 DEF LoopKilled, LevelState, LevelInv
  <2>3. /\ r \in LevelState /\ r.at = "killed" /\ r.said = loop[l].said /\ r.goOn = loop[l].goOn
        /\ r.exit = loop[l].exit
    BY <2>1 DEF LevelState
  <2> HIDE DEF r
  <2>4. Answers(r)
    BY <2>1, <2>3 DEF Answers
  <2> QED BY <2>1, <2>2, <2>3, <2>4, LoopStays
<1>4. ASSUME NEW l \in Loop, SaveResults(l) PROVE LevelInv'
  <2> DEFINE r == [loop[l] EXCEPT !.at = "fill"]
  <2>1. /\ loop[l] \in LevelState /\ Answers(loop[l]) /\ loop[l].at = "save" /\ resultsFile'.is = "torn"
        /\ shared' = (shared \/ \E k \in Loop : loop[k].at = "fill")
    BY <1>4 DEF LevelInv, SaveResults
  <2>2. loop' = [loop EXCEPT ![l] = r]
    BY <1>4, <2>1 DEF SaveResults, LevelState, LevelInv
  <2>3. /\ r \in LevelState /\ r.at = "fill" /\ r.said = loop[l].said /\ r.goOn = loop[l].goOn
        /\ r.exit = loop[l].exit
    BY <2>1 DEF LevelState
  <2> HIDE DEF r
  <2>4. Answers(r)
    BY <2>1, <2>3 DEF Answers
  <2>5. /\ loop' \in [Loop -> LevelState] /\ \A k \in Loop : Answers(loop'[k])
        /\ \A k \in Loop : loop'[k] = IF k = l THEN r ELSE loop[k]
    BY <2>2, <2>3, <2>4, LoopMoves
  <2>6. ResultsOnFile' /\ OneWrites'
    BY <2>1, <2>3, <2>5 DEF ResultsOnFile, OneWrites
  <2>7. shared' \in BOOLEAN
    BY <2>1
  <2> QED BY <2>5, <2>6, <2>7 DEF LevelInv, Answers
<1>5. ASSUME NEW l \in Loop, FillResults(l) PROVE LevelInv'
  <2> DEFINE r == [loop[l] EXCEPT !.at = "filled"]
  <2>1. /\ loop[l] \in LevelState /\ Answers(loop[l]) /\ loop[l].at = "fill" /\ UNCHANGED shared
        /\ resultsFile' \in ResultTexts(loop[l].said)
    BY <1>5 DEF LevelInv, FillResults
  <2>2. loop' = [loop EXCEPT ![l] = r]
    BY <1>5, <2>1 DEF FillResults, LevelState, LevelInv
  <2>3. /\ r \in LevelState /\ r.at = "filled" /\ r.said = loop[l].said /\ r.goOn = loop[l].goOn
        /\ r.exit = loop[l].exit
    BY <2>1 DEF LevelState
  <2> HIDE DEF r
  <2>4. Answers(r)
    BY <2>1, <2>3 DEF Answers
  <2>5. /\ loop' \in [Loop -> LevelState] /\ \A k \in Loop : Answers(loop'[k])
        /\ \A k \in Loop : loop'[k] = IF k = l THEN r ELSE loop[k]
    BY <2>2, <2>3, <2>4, LoopMoves
  <2>6. /\ resultsFile'.is \in {"whole", "mixed"}
        /\ resultsFile'.is = "whole" => resultsFile'.said = loop[l].said
        /\ resultsFile.is = "torn" => resultsFile'.is = "whole"
    BY <2>1 DEF ResultTexts
  <2>7. ResultsOnFile'
    BY <2>3, <2>5, <2>6 DEF ResultsOnFile
  <2>8. OneWrites'
    BY <2>1, <2>3, <2>5, <2>6 DEF LevelInv, OneWrites
  <2> QED BY <2>1, <2>5, <2>7, <2>8 DEF LevelInv, Answers
<1>6. ASSUME NEW l \in Loop, EndLoop(l) PROVE LevelInv'
  <2> DEFINE exit == IF AllPassed(loop[l].said) THEN "ok" ELSE "failed"
             r == [loop[l] EXCEPT !.at = "ended", !.exit = exit]
  <2>1. /\ loop[l] \in LevelState /\ Answers(loop[l]) /\ loop[l].at = "filled"
        /\ loop[l].said \in Seq(LevelVerdict) /\ UNCHANGED <<resultsFile, shared>>
    BY <1>6 DEF LevelInv, EndLoop, LevelState
  <2>2. loop' = [loop EXCEPT ![l] = r]
    BY <1>6, <2>1 DEF EndLoop, LevelState, LevelInv
  <2>3. Len(loop[l].said) = Len(Levels) \/ SomeFail(loop[l].said)
    BY <2>1 DEF Answers
  <2>4. exit = "ok" => Len(loop[l].said) = Len(Levels) /\ AllPass(loop[l].said)
    BY <2>1, <2>3, AllPassedIsAll DEF AllPass, SomeFail
  <2>5. exit = "failed" => SomeFail(loop[l].said)
    BY <2>1, AllPassedIsAll DEF AllPass, SomeFail, LevelVerdict
  <2>6. exit \in {"ok", "failed"}
    OBVIOUS
  <2> HIDE DEF exit
  <2>7. /\ r \in LevelState /\ r.at = "ended" /\ r.said = loop[l].said /\ r.goOn = loop[l].goOn
        /\ r.exit = exit
    BY <2>1, <2>6 DEF LevelState
  <2> HIDE DEF r
  <2>8. Answers(r)
    BY <2>1, <2>4, <2>5, <2>6, <2>7 DEF Answers
  <2> QED BY <2>1, <2>2, <2>7, <2>8, LoopStays
<1>7. CASE UNCHANGED levelVars
  BY <1>7 DEF levelVars, LevelInv, Answers, ResultsOnFile, OneWrites
<1> QED BY <1>1, <1>2, <1>3, <1>4, <1>5, <1>6, <1>7 DEF LevelNext, LevelVerdict

\* For any number of loops in one project: a loop ends with 0 exactly if all four levels
\* passed, and what is saved is one loop's whole answer unless two had the file open at
\* once (run_all, save_results).
THEOREM LevelsAlwaysAnswer == LevelSpec => []LevelsAnswer
<1>1. LevelInit => LevelInv
  <2> SUFFICES ASSUME LevelInit PROVE LevelInv
    OBVIOUS
  <2> DEFINE r == [at |-> "idle", goOn |-> FALSE, said |-> <<>>, exit |-> "none"]
  <2>1. r \in LevelState
    BY DEF LevelState
  <2>2. Answers(r)
    BY DEF Answers
  <2> HIDE DEF r
  <2>3. loop \in [Loop -> LevelState] /\ \A l \in Loop : loop[l] = r
    BY <2>1 DEF LevelInit, r
  <2>4. resultsFile.is = "absent" /\ shared = FALSE /\ r.at = "idle"
    BY DEF LevelInit, r
  <2> QED BY <2>2, <2>3, <2>4 DEF LevelInv, ResultsOnFile, OneWrites
<1>2. LevelInv => LevelsAnswer
  <2> SUFFICES ASSUME LevelInv PROVE LevelsAnswer
    OBVIOUS
  <2>1. ASSUME NEW l \in Loop
        PROVE  /\ loop[l].exit = "ok" => loop[l].said = [i \in DOMAIN Levels |-> "PASS"]
               /\ loop[l].exit = "failed" => \E i \in DOMAIN loop[l].said : loop[l].said[i] = "FAIL"
               /\ ~loop[l].goOn => \A i \in 1..(Len(loop[l].said) - 1) : loop[l].said[i] = "PASS"
    <3>1. loop[l].said \in Seq(LevelVerdict) /\ Answers(loop[l])
      BY DEF LevelInv, LevelState
    <3>2. DOMAIN Levels = 1..4 /\ Len(Levels) = 4
      BY DEF Levels
    <3>3. ASSUME Len(loop[l].said) = 4, AllPass(loop[l].said)
          PROVE  loop[l].said = [i \in 1..4 |-> "PASS"]
      BY <3>1, <3>3 DEF AllPass
    <3> QED BY <3>1, <3>2, <3>3 DEF Answers, SomeFail
  <2> QED BY <2>1 DEF LevelInv, LevelsAnswer, ResultsOnFile, OneWrites
<1> QED BY <1>1, <1>2, LevelInductive, PTL DEF LevelSpec

-----------------------------------------------------------------------------
(* Backup and restore *)

\* A file that a restore has dealt with is what its hash says, unless it was written since.
PutBack(f) == recorded[f] # 0 /\ Dest(f) \notin touched => disk[Dest(f)] = recorded[f]

\* Only files of the list are on record, and a backup goes through files there are; while a
\* restore runs every copy is what its hash says and the files it has come past are back; a
\* job in progress has not succeeded yet.
BackupInv ==
  /\ BackupTypeOK
  /\ \A f \in Place : recorded[f] # 0 => f \in Patterns
  /\ at # "none" => at \in Patterns
  /\ job = "backup" => \A f \in left : disk[f] # 0
  /\ job = "restore" =>
       /\ Verified /\ \A f \in left : recorded[f] # 0
       /\ \A f \in Place \ left : PutBack(f)
  /\ job # "none" => ~restored
  /\ restored => \A f \in Place : PutBack(f)

\* No two files of the list are put back at one place.
LEMMA DestApart == \A f, g \in Patterns : Dest(f) = Dest(g) => f = g
BY DEF Patterns, Dest

\* Every step of a backup, a restore or the program keeps BackupInv.
LEMMA BackupInductive == BackupInv /\ [BackupNext]_backupVars => BackupInv'
<1> SUFFICES ASSUME BackupInv, [BackupNext]_backupVars PROVE BackupInv'
  OBVIOUS
<1> USE BackupAssumption
<1>1. /\ disk \in [Place -> 0..MaxWrites + 1] /\ copy \in [Place -> 0..MaxWrites + 1]
      /\ recorded \in [Place -> 0..MaxWrites + 1] /\ at \in Place \cup {"none"}
  BY DEF BackupInv, BackupTypeOK
<1>2. ASSUME NEW f \in Place, WriteFile(f) PROVE BackupInv'
  <2>1. writes + 2 \in 0..MaxWrites + 1 /\ writes' \in 0..MaxWrites
    BY <1>2 DEF WriteFile, BackupInv, BackupTypeOK
  <2>2. /\ disk' \in [Place -> 0..MaxWrites + 1] /\ touched' = touched \cup {f}
        /\ disk'[f] # 0 /\ \A g \in Place : g # f => disk'[g] = disk[g]
        /\ UNCHANGED <<copy, recorded, manifest, job, at, left, restored, jobs>>
    BY <1>1, <1>2, <2>1 DEF WriteFile, BackupInv, BackupTypeOK
  <2>3. BackupTypeOK'
    BY <2>1, <2>2 DEF BackupInv, BackupTypeOK
  <2>4. ASSUME NEW g \in Place, recorded[g] # 0 => g \in Patterns, PutBack(g) PROVE PutBack(g)'
    <3>1. g \in Patterns => Dest(g) \in Place
      OBVIOUS
    <3> QED BY <2>2, <2>4, <3>1 DEF PutBack
  <2>5. ASSUME job = "backup", NEW g \in left PROVE disk'[g] # 0
    BY <2>2, <2>5 DEF BackupInv, BackupTypeOK
  <2>6. job = "restore" => Verified' /\ \A g \in left' : recorded'[g] # 0
    BY <2>2 DEF BackupInv, Verified
  <2>7. \A g \in Place : recorded'[g] # 0 => g \in Patterns
    BY <2>2 DEF BackupInv
  <2>8. job = "restore" => \A g \in Place \ left : PutBack(g)'
    BY <2>4, <2>7 DEF BackupInv
  <2>9. restored => \A g \in Place : PutBack(g)'
    BY <2>4, <2>7 DEF BackupInv
  <2> QED BY <2>2, <2>3, <2>5, <2>6, <2>7, <2>8, <2>9 DEF BackupInv
<1>3. ASSUME NEW f \in Place, CopyFile(f) PROVE BackupInv'
  <2>1. /\ copy' \in [Place -> 0..MaxWrites + 1] /\ copy'[f] = disk[f] /\ at' = f /\ left' = left \ {f}
        /\ job = "backup" /\ f \in left /\ f \in Patterns /\ disk[f] # 0
        /\ UNCHANGED <<disk, recorded, manifest, job, restored, touched, writes, jobs>>
    BY <1>1, <1>3 DEF CopyFile, BackupInv, BackupTypeOK
  <2>2. BackupTypeOK'
    BY <2>1 DEF BackupInv, BackupTypeOK
  <2> QED BY <2>1, <2>2 DEF BackupInv, PutBack
<1>4. ASSUME NEW f \in Place, RestoreFile(f) PROVE BackupInv'
  <2>1. /\ job = "restore" /\ f \in left /\ left' = left \ {f} /\ copy[f] = recorded[f]
        /\ disk' = [disk EXCEPT ![Dest(f)] = copy[f]]
        /\ UNCHANGED <<copy, recorded, manifest, job, at, restored, touched, writes, jobs>>
    <3>1. recorded[f] # 0
      BY <1>4 DEF RestoreFile, BackupInv
    <3> QED BY <1>4, <3>1 DEF RestoreFile, BackupInv, Verified
  <2>2. f \in Patterns /\ Dest(f) \in Place
    BY <2>1 DEF BackupInv, BackupTypeOK
  <2>3. /\ disk' \in [Place -> 0..MaxWrites + 1] /\ disk'[Dest(f)] = recorded[f]
        /\ \A g \in Place : g # Dest(f) => disk'[g] = disk[g]
    BY <1>1, <2>1, <2>2
  <2>4. BackupTypeOK'
    BY <2>1, <2>3 DEF BackupInv, BackupTypeOK
  <2>5. ASSUME NEW g \in Place \ left' PROVE PutBack(g)'
    <3>1. CASE g = f
      BY <2>1, <2>3, <3>1 DEF PutBack
    <3>2. CASE g # f
      <4>1. PutBack(g) /\ (recorded[g] # 0 => g \in Patterns)
        BY <2>1, <3>2 DEF BackupInv
      <4>2. g \in Patterns => Dest(g) # Dest(f) /\ Dest(g) \in Place
        BY <2>2, <3>2, DestApart
      <4> QED BY <2>1, <2>3, <4>1, <4>2 DEF PutBack
    <3> QED BY <3>1, <3>2
  <2> QED BY <2>1, <2>4, <2>5 DEF BackupInv, Verified
<1>5. CASE BackupStart
  <2>1. /\ copy' = [f \in Place |-> 0] /\ recorded' = [f \in Place |-> 0] /\ job' = "backup"
        /\ left' \subseteq Patterns \cap Place /\ restored' = FALSE /\ jobs' = jobs + 1 /\ job = "none"
        /\ jobs < MaxJobs /\ manifest' = FALSE /\ UNCHANGED <<disk, at, touched, writes>>
    BY <1>5 DEF BackupStart
  <2>2. at = "none" /\ 0 \in 0..MaxWrites + 1 /\ jobs' \in 0..MaxJobs
    BY <2>1 DEF BackupInv, BackupTypeOK
  <2>3. copy' \in [Place -> 0..MaxWrites + 1] /\ recorded' \in [Place -> 0..MaxWrites + 1]
    BY <2>1, <2>2
  <2>4. BackupTypeOK'
    BY <2>1, <2>2, <2>3 DEF BackupInv, BackupTypeOK
  <2>5. (\A f \in Place : recorded'[f] = 0) /\ \A f \in left' : disk'[f] # 0
    BY <1>5, <2>1 DEF BackupStart
  <2> QED BY <2>1, <2>2, <2>4, <2>5 DEF BackupInv
<1>6. CASE HashFile
  <2>1. at \in Place /\ job = "backup" /\ at \in Patterns /\ at' = "none"
    BY <1>6 DEF HashFile, BackupInv, BackupTypeOK
  <2>2. /\ recorded' \in [Place -> 0..MaxWrites + 1]
        /\ \A g \in Place : g # at => recorded'[g] = recorded[g]
        /\ UNCHANGED <<disk, copy, manifest, job, left, restored, touched, writes, jobs>>
    BY <1>1, <1>6, <2>1 DEF HashFile
  <2>3. BackupTypeOK'
    BY <2>1, <2>2 DEF BackupInv, BackupTypeOK
  <2> QED BY <2>1, <2>2, <2>3 DEF BackupInv
<1>7. CASE WriteManifest
  BY <1>7 DEF WriteManifest, BackupInv, BackupTypeOK, PutBack
<1>8. CASE RestoreStart
  <2>1. /\ job = "none" /\ left = {} /\ at = "none" /\ jobs' \in 0..MaxJobs
        /\ restored' = FALSE /\ touched' = {}
        /\ UNCHANGED <<disk, copy, recorded, manifest, at, writes>>
    BY <1>8 DEF RestoreStart, BackupInv, BackupTypeOK
  <2>2. CASE manifest /\ Verified
    <3>1. job' = "restore" /\ left' = {f \in Place : recorded[f] # 0}
      BY <1>8, <2>2 DEF RestoreStart
    <3>2. left' \subseteq Patterns \cap Place
      BY <3>1 DEF BackupInv
    <3>3. BackupTypeOK'
      BY <2>1, <3>1, <3>2 DEF BackupInv, BackupTypeOK
    <3> QED BY <2>1, <2>2, <3>1, <3>3 DEF BackupInv, PutBack, Verified
  <2>3. CASE ~(manifest /\ Verified)
    <3>1. UNCHANGED <<job, left>>
      BY <1>8, <2>3 DEF RestoreStart
    <3>2. BackupTypeOK'
      BY <2>1, <3>1 DEF BackupInv, BackupTypeOK
    <3> QED BY <2>1, <3>1, <3>2 DEF BackupInv
  <2> QED BY <2>2, <2>3
<1>9. CASE RestoreDone
  <2>1. /\ job = "restore" /\ left = {} /\ job' = "none" /\ restored' = TRUE
        /\ UNCHANGED <<disk, copy, recorded, manifest, at, left, touched, writes, jobs>>
    BY <1>9 DEF RestoreDone
  <2>2. BackupTypeOK'
    BY <2>1 DEF BackupInv, BackupTypeOK
  <2> QED BY <2>1, <2>2 DEF BackupInv, PutBack
<1>10. CASE KillJob
  BY <1>10 DEF KillJob, BackupInv, BackupTypeOK, PutBack
<1>11. CASE UNCHANGED backupVars
  BY <1>11 DEF backupVars, BackupInv, BackupTypeOK, PutBack, Verified
<1> QED BY <1>2, <1>3, <1>4, <1>5, <1>6, <1>7, <1>8, <1>9, <1>10, <1>11 DEF BackupNext

\* For any files and any number of writes meanwhile: a restore that reports success has put
\* back exactly what the hashes of the manifest were taken from (backup_project,
\* restore_project).
THEOREM RestoreMatches == BackupSpec => []RestoredMatchesManifest
<1>1. BackupInit => BackupInv
  <2> SUFFICES ASSUME BackupInit PROVE BackupInv
    OBVIOUS
  <2>1. 0 \in 0..MaxWrites + 1 /\ 1 \in 0..MaxWrites + 1 /\ 0 \in 0..MaxWrites /\ 0 \in 0..MaxJobs
    BY BackupAssumption
  <2>2. BackupTypeOK
    BY <2>1 DEF BackupInit, BackupTypeOK
  <2> QED BY <2>2 DEF BackupInit, BackupInv
<1>2. BackupInv => RestoredMatchesManifest
  BY DEF BackupInv, RestoredMatchesManifest, PutBack
<1> QED BY <1>1, <1>2, BackupInductive, PTL DEF BackupSpec

-----------------------------------------------------------------------------
(* The integrity check *)

Issue == {"ledger", "orphan", "unfinished", "no tests"}
InspectionTyped ==
  /\ inRow \in [state : {"READY", "RUNNING", "PASSED", "FAILED"}, pid : BOOLEAN,
                finished : BOOLEAN, tests : BOOLEAN]
  /\ controllers \in [up : BOOLEAN, killed : BOOLEAN]
  /\ inspector \in [at : {"idle", "ledger", "rows", "probe", "rest", "done"}, saw : BOOLEAN,
                    issues : SUBSET Issue]

\* The row has a pid exactly while the process it was given has not been collected.
RowOfProcess ==
  /\ inRow.pid => inRow.state = "RUNNING" /\ process # "none"
  /\ inRow.state = "RUNNING" /\ ~inRow.pid => process = "none"
  /\ inRow.state = "READY" => process = "none"
  /\ inRow.state = "PASSED" => inRow.finished

\* What the check has found so far is what there is, as long as nothing moves.
FoundSoFar ==
  /\ inspector.at = "ledger" => inspector.issues = {}
  /\ "unfinished" \notin inspector.issues
  /\ "orphan" \in inspector.issues => inspector.at \in {"rest", "done"}
  /\ ~meanwhile =>
       /\ inspector.at \in {"rows", "probe", "rest", "done"} =>
            ("ledger" \in inspector.issues <=> ledgerFile = "torn")
       /\ inspector.at = "probe" => (inspector.saw <=> inRow.pid)
       /\ inspector.at \in {"rest", "done"} =>
            ("orphan" \in inspector.issues <=> inRow.pid /\ process = "gone")

InspectionInv == InspectionTyped /\ RowOfProcess /\ FoundSoFar

\* Whoever moves something leaves the check as it is and tells it.
LEMMA MovesAreTold ==
  ASSUME InspectionInv, meanwhile' = TRUE, UNCHANGED inspector
  PROVE  FoundSoFar'
BY DEF InspectionInv, FoundSoFar

\* A row that is moved by the scheduler or by the controller.
LEMMA RowMoves ==
  ASSUME InspectionTyped, NEW state \in {"READY", "RUNNING", "PASSED", "FAILED"},
         NEW pid \in BOOLEAN, NEW finished \in BOOLEAN,
         inRow' = [inRow EXCEPT !.state = state, !.pid = pid, !.finished = finished],
         UNCHANGED <<controllers, inspector>>
  PROVE  InspectionTyped' /\ inRow'.state = state /\ inRow'.pid = pid /\ inRow'.finished = finished
BY DEF InspectionTyped

\* A step of the check.
LEMMA InspectMoves ==
  ASSUME InspectionTyped, NEW next \in {"idle", "ledger", "rows", "probe", "rest", "done"},
         NEW saw \in BOOLEAN, NEW found \in SUBSET Issue, Inspect(next, saw, found)
  PROVE  /\ InspectionTyped'
         /\ inspector'.at = next /\ inspector'.saw = saw
         /\ inspector'.issues = inspector.issues \cup found
         /\ UNCHANGED <<inRow, process, ledgerFile>>
BY DEF InspectionTyped, Inspect

\* Every step of the check, and of what goes on beside it, keeps InspectionInv.
LEMMA InspectionInductive == InspectionInv /\ [InspectionNext]_inspectionVars => InspectionInv'
<1> SUFFICES ASSUME InspectionInv, [InspectionNext]_inspectionVars PROVE InspectionInv'
  OBVIOUS
<1>0. /\ InspectionTyped /\ RowOfProcess /\ FoundSoFar
      /\ inRow = [inRow EXCEPT !.state = inRow.state, !.pid = inRow.pid, !.finished = inRow.finished]
  BY DEF InspectionInv, InspectionTyped
<1>1. CASE Claim
  <2>1. /\ inRow' = [inRow EXCEPT !.state = "RUNNING"] /\ inRow.state = "READY"
        /\ meanwhile' = TRUE /\ UNCHANGED <<process, controllers, inspector>>
    BY <1>1 DEF Claim, Moves
  <2>2. InspectionTyped' /\ inRow'.state = "RUNNING" /\ inRow'.pid = inRow.pid
    BY <1>0, <2>1 DEF InspectionTyped
  <2> QED BY <1>0, <2>1, <2>2, MovesAreTold DEF InspectionInv, RowOfProcess
<1>2. CASE StartProcess
  <2>1. /\ inRow' = [inRow EXCEPT !.pid = TRUE] /\ inRow.state = "RUNNING" /\ process' = "child"
        /\ meanwhile' = TRUE /\ UNCHANGED <<controllers, inspector>>
    BY <1>2 DEF StartProcess, Moves
  <2>2. InspectionTyped' /\ inRow'.state = "RUNNING" /\ inRow'.pid
    BY <1>0, <2>1 DEF InspectionTyped
  <2> QED BY <1>0, <2>1, <2>2, MovesAreTold DEF InspectionInv, RowOfProcess
<1>3. CASE Collect
  <2>1. PICK outcome \in {"PASSED", "FAILED"} :
          inRow' = [inRow EXCEPT !.state = outcome, !.pid = FALSE, !.finished = TRUE]
    BY <1>3 DEF Collect
  <2>2. meanwhile' = TRUE /\ UNCHANGED <<controllers, inspector>>
    BY <1>3 DEF Collect, Moves
  <2>3. InspectionTyped' /\ inRow'.state = outcome /\ inRow'.pid = FALSE /\ inRow'.finished = TRUE
    BY <1>0, <2>1, <2>2, RowMoves
  <2> QED BY <2>2, <2>3, MovesAreTold DEF InspectionInv, RowOfProcess
<1>4. CASE ProcessEnds \/ Reap \/ ControllerKilled \/ ControllerRestarted \/ SaveFiles
  <2>1. /\ meanwhile' = TRUE /\ UNCHANGED <<inRow, inspector>>
        /\ process' = "none" <=> process = "none"
    BY <1>4 DEF ProcessEnds, Reap, ControllerKilled, ControllerRestarted, SaveFiles, Moves
  <2>2. controllers' \in [up : BOOLEAN, killed : BOOLEAN]
    <3>1. CASE ControllerKilled
      BY <3>1 DEF ControllerKilled
    <3>2. CASE ControllerRestarted
      BY <1>0, <3>2 DEF ControllerRestarted, InspectionTyped
    <3>3. CASE UNCHANGED controllers
      BY <1>0, <3>3 DEF InspectionTyped
    <3> QED BY <1>4, <3>1, <3>2, <3>3 DEF ProcessEnds, Reap, SaveFiles, Moves
  <2>3. InspectionTyped' /\ RowOfProcess'
    BY <1>0, <2>1, <2>2 DEF InspectionTyped, RowOfProcess
  <2> QED BY <2>1, <2>3, MovesAreTold DEF InspectionInv
<1>5. CASE BeginCheck
  <2>1. inspector' = [at |-> "ledger", saw |-> FALSE, issues |-> {}] /\ UNCHANGED <<inRow, process, controllers>>
    BY <1>5 DEF BeginCheck, NoCheck
  <2>2. InspectionTyped' /\ inspector'.at = "ledger" /\ inspector'.issues = {}
    BY <1>0, <2>1 DEF InspectionTyped
  <2> QED BY <1>0, <2>1, <2>2 DEF InspectionInv, RowOfProcess, FoundSoFar
<1>6. CASE CheckLedger
  <2> DEFINE found == IF ledgerFile = "torn" THEN {"ledger"} ELSE {}
  <2>1. Inspect("rows", FALSE, found) /\ inspector.at = "ledger" /\ UNCHANGED meanwhile
    BY <1>6 DEF CheckLedger
  <2>2. found \in SUBSET Issue /\ ("ledger" \in found <=> ledgerFile = "torn")
        /\ "orphan" \notin found /\ "unfinished" \notin found
    BY DEF Issue
  <2> HIDE DEF found
  <2>3. /\ InspectionTyped' /\ inspector'.at = "rows" /\ inspector'.issues = inspector.issues \cup found
        /\ UNCHANGED <<inRow, process, ledgerFile>>
    BY <1>0, <2>1, <2>2, InspectMoves
  <2>4. "ledger" \notin inspector.issues
    BY <1>0, <2>1 DEF FoundSoFar
  <2> QED BY <1>0, <2>1, <2>2, <2>3, <2>4 DEF InspectionInv, RowOfProcess, FoundSoFar
<1>7. CASE ReadRunning
  <2> DEFINE saw == inRow.state = "RUNNING" /\ inRow.pid
  <2>1. Inspect("probe", saw, {}) /\ inspector.at = "rows" /\ UNCHANGED meanwhile
    BY <1>7 DEF ReadRunning
  <2>2. saw \in BOOLEAN /\ (saw <=> inRow.pid)
    BY <1>0 DEF RowOfProcess
  <2> HIDE DEF saw
  <2>3. {} \in SUBSET Issue /\ inspector.issues \cup {} = inspector.issues
    OBVIOUS
  <2>4. /\ InspectionTyped' /\ inspector'.at = "probe" /\ inspector'.issues = inspector.issues
        /\ inspector'.saw = saw /\ UNCHANGED <<inRow, process, ledgerFile>>
    BY <1>0, <2>1, <2>2, <2>3, InspectMoves
  <2> QED BY <1>0, <2>1, <2>2, <2>4 DEF InspectionInv, RowOfProcess, FoundSoFar
<1>8. CASE ProbePid
  <2> DEFINE found == IF inspector.saw /\ process \in {"gone", "none"} THEN {"orphan"} ELSE {}
  <2>1. Inspect("rest", FALSE, found) /\ inspector.at = "probe" /\ UNCHANGED meanwhile
    BY <1>8 DEF ProbePid
  <2>2. /\ found \in SUBSET Issue /\ "ledger" \notin found /\ "unfinished" \notin found
        /\ "orphan" \in found <=> inspector.saw /\ process \in {"gone", "none"}
    BY DEF Issue
  <2> HIDE DEF found
  <2>3. /\ InspectionTyped' /\ inspector'.at = "rest" /\ inspector'.issues = inspector.issues \cup found
        /\ UNCHANGED <<inRow, process, ledgerFile>>
    BY <1>0, <2>1, <2>2, InspectMoves
  <2>4. "orphan" \notin inspector.issues
    BY <1>0, <2>1 DEF FoundSoFar
  <2>5. ~meanwhile => ("orphan" \in found <=> inRow.pid /\ process = "gone")
    BY <1>0, <2>1, <2>2 DEF FoundSoFar, RowOfProcess
  <2> QED BY <1>0, <2>1, <2>2, <2>3, <2>4, <2>5 DEF InspectionInv, RowOfProcess, FoundSoFar
<1>9. CASE CheckRest
  <2> DEFINE found == (IF inRow.state = "PASSED" /\ ~inRow.finished THEN {"unfinished"} ELSE {})
                        \cup (IF inRow.tests THEN {} ELSE {"no tests"})
  <2>1. Inspect("done", FALSE, found) /\ inspector.at = "rest" /\ UNCHANGED meanwhile
    BY <1>9 DEF CheckRest
  <2>2. /\ found \in SUBSET Issue /\ "ledger" \notin found /\ "orphan" \notin found
        /\ "unfinished" \notin found
    BY <1>0 DEF Issue, RowOfProcess
  <2> HIDE DEF found
  <2>3. /\ InspectionTyped' /\ inspector'.at = "done" /\ inspector'.issues = inspector.issues \cup found
        /\ UNCHANGED <<inRow, process, ledgerFile>>
    BY <1>0, <2>1, <2>2, InspectMoves
  <2> QED BY <1>0, <2>1, <2>2, <2>3 DEF InspectionInv, RowOfProcess, FoundSoFar
<1>10. CASE RunDoctor \/ UNCHANGED inspectionVars
  BY <1>0, <1>10 DEF RunDoctor, inspectionVars, InspectionInv, InspectionTyped, RowOfProcess, FoundSoFar
<1> QED
  BY <1>1, <1>2, <1>3, <1>4, <1>5, <1>6, <1>7, <1>8, <1>9, <1>10 DEF InspectionNext

\* For any number of checks beside a controller that starts, reaps, collects, dies and
\* comes back: the check cries orphan only with reason, never for a process that has just
\* ended, and misses nothing that was there all along (integrity_check).
THEOREM IntegrityAlwaysRight == InspectionSpec => []IntegrityVerdict
<1>1. InspectionInit => InspectionInv
  BY DEF InspectionInit, InspectionInv, InspectionTyped, RowOfProcess, FoundSoFar, NoCheck, Issue
<1>2. InspectionInv => IntegrityVerdict
  BY DEF InspectionInv, RowOfProcess, FoundSoFar, IntegrityVerdict
<1> QED BY <1>1, <1>2, InspectionInductive, PTL DEF InspectionSpec

-----------------------------------------------------------------------------
(* The event journal *)

\* The loop of missing_from over the first n events, R being those on record.
MissingLoop(f, R, n) ==
  f = [i \in 0..n |-> IF i = 0 THEN <<>> ELSE IF i \in R THEN f[i - 1] ELSE Append(f[i - 1], i)]

\* The loop is defined for every n.
LEMMA MissingLoopDefined ==
  ASSUME NEW R, NEW n \in Nat
  PROVE  \E f : MissingLoop(f, R, n)
<1> DEFINE V == Seq(Nat)
           first == <<>>
           step == [i \in 1..n |-> [v \in V |-> IF i \in R THEN v ELSE Append(v, i)]]
<1>1. first \in V /\ \A i \in 1..n : \A v \in V : step[i][v] \in V
  OBVIOUS
<1>2. \A i \in 1..n : \A v \in V : step[i][v] = IF i \in R THEN v ELSE Append(v, i)
  OBVIOUS
<1> HIDE DEF step, first, V
<1>3. PICK f : LoopOf(f, n, first, step) /\ \A i \in 0..n : f[i] \in V
  BY <1>1, LoopDefined
<1>4. \A i \in 0..n : i # 0 => i \in 1..n /\ i - 1 \in 0..n
  OBVIOUS
<1>5. \A i \in 0..n : i # 0 => step[i][f[i - 1]] = IF i \in R THEN f[i - 1] ELSE Append(f[i - 1], i)
  BY <1>2, <1>3, <1>4
<1>6. MissingLoop(f, R, n)
  BY <1>3, <1>5 DEF LoopOf, MissingLoop, first
<1> QED BY <1>6

\* The events that are missing are events of the store, and if the record is the first few
\* of them in order they are the others in order.
LEMMA MissingAre ==
  ASSUME emitted \in Nat, NEW js
  PROVE  /\ MissingFrom(js) \in Seq(1..emitted)
         /\ \A l \in 0..emitted : Recorded(js) = 1..l =>
              /\ Len(MissingFrom(js)) = emitted - l
              /\ \A i \in 1..emitted - l : MissingFrom(js)[i] = l + i
<1> DEFINE R == Recorded(js)
           upTo == CHOOSE f : f = [i \in 0..emitted |->
                     IF i = 0 THEN <<>> ELSE IF i \in R THEN f[i - 1] ELSE Append(f[i - 1], i)]
<1> HIDE DEF R
<1>1. upTo = [i \in 0..emitted |->
                IF i = 0 THEN <<>> ELSE IF i \in R THEN upTo[i - 1] ELSE Append(upTo[i - 1], i)]
  <2>1. \E f : f = [i \in 0..emitted |->
                IF i = 0 THEN <<>> ELSE IF i \in R THEN f[i - 1] ELSE Append(f[i - 1], i)]
    <3>1. \E f : MissingLoop(f, R, emitted)
      BY MissingLoopDefined
    <3> QED BY <3>1, Zenon DEF MissingLoop
  <2> QED BY <2>1, Zenon
<1>2. MissingFrom(js) = upTo[emitted]
  BY DEF MissingFrom, R
<1> HIDE DEF upTo
<1>3. \A i \in 0..emitted :
        upTo[i] = IF i = 0 THEN <<>> ELSE IF i \in R THEN upTo[i - 1] ELSE Append(upTo[i - 1], i)
  BY <1>1
<1>4. upTo[emitted] \in Seq(1..emitted)
  <2> DEFINE S == {k \in 0..emitted : upTo[k] \in Seq(1..emitted)}
  <2>1. 0 \in S
    <3>1. upTo[0] = <<>> /\ 0 \in 0..emitted
      BY <1>3
    <3>2. <<>> \in Seq(1..emitted)
      OBVIOUS
    <3> QED BY <3>1, <3>2
  <2>2. ASSUME NEW k \in 0..emitted - 1, k \in S PROVE k + 1 \in S
    <3>1. k + 1 \in 1..emitted /\ k + 1 \in 0..emitted /\ k + 1 # 0 /\ (k + 1) - 1 = k
      OBVIOUS
    <3>2. upTo[k + 1] = IF k + 1 \in R THEN upTo[k] ELSE Append(upTo[k], k + 1)
      BY <1>3, <3>1
    <3>3. upTo[k] \in Seq(1..emitted)
      BY <2>2
    <3>4. Append(upTo[k], k + 1) \in Seq(1..emitted)
      BY <3>1, <3>3
    <3>5. upTo[k + 1] \in Seq(1..emitted)
      BY <3>2, <3>3, <3>4
    <3> QED BY <3>1, <3>5
  <2> HIDE DEF S
  <2>3. emitted \in S
    BY <2>1, <2>2, UpTo
  <2> QED BY <2>3 DEF S
<1>5. ASSUME NEW l \in 0..emitted, R = 1..l
      PROVE  Len(upTo[emitted]) = emitted - l /\ \A i \in 1..emitted - l : upTo[emitted][i] = l + i
  <2> DEFINE Rest(k) == IF k <= l THEN <<>> ELSE [i \in 1..k - l |-> l + i]
             S == {k \in 0..emitted : upTo[k] = Rest(k)}
  <2>1. 0 \in S
    BY <1>3
  <2>2. ASSUME NEW k \in 0..emitted - 1, k \in S PROVE k + 1 \in S
    <3>1. k + 1 \in 0..emitted /\ k + 1 # 0 /\ (k + 1) - 1 = k
      OBVIOUS
    <3>2. upTo[k + 1] = IF k + 1 \in R THEN upTo[k] ELSE Append(upTo[k], k + 1)
      BY <1>3, <3>1
    <3>3. CASE k + 1 <= l
      <4>1. k + 1 \in R
        BY <1>5, <3>1, <3>3
      <4> QED BY <2>2, <3>1, <3>2, <3>3, <4>1
    <3>4. CASE k + 1 > l
      <4>1. k + 1 \notin R
        BY <1>5, <3>4
      <4>2. upTo[k + 1] = Append(Rest(k), k + 1)
        BY <2>2, <3>2, <4>1
      <4>3. Append(Rest(k), k + 1) = [i \in 1..(k + 1) - l |-> l + i]
        <5>1. CASE k = l
          <6>1. Append(<<>>, k + 1) = <<k + 1>> /\ 1..(k + 1) - l = {1}
            BY <5>1
          <6> QED BY <5>1, <6>1
        <5>2. CASE k > l
          <6> DEFINE r == [i \in 1..k - l |-> l + i]
          <6>1. r \in Seq(Nat) /\ Len(r) = k - l /\ \A i \in 1..k - l : r[i] = l + i
            BY <5>2
          <6>2. Rest(k) = r
            BY <5>2
          <6> HIDE DEF r
          <6>3. /\ Append(r, k + 1) = [i \in 1..(k - l) + 1 |-> IF i = (k - l) + 1 THEN k + 1 ELSE r[i]]
            BY <6>1
          <6> QED BY <5>2, <6>1, <6>2, <6>3
        <5> QED BY <3>4, <5>1, <5>2
      <4>4. Rest(k + 1) = [i \in 1..(k + 1) - l |-> l + i]
        BY <3>4
      <4>5. upTo[k + 1] = Rest(k + 1)
        BY <4>2, <4>3, <4>4
      <4> QED BY <3>1, <4>5
    <3> QED BY <3>3, <3>4
  <2> HIDE DEF S
  <2>3. emitted \in S
    BY <2>1, <2>2, UpTo
  <2>4. upTo[emitted] = Rest(emitted)
    BY <2>3 DEF S
  <2> QED BY <2>4
<1> QED BY <1>2, <1>4, <1>5 DEF R

Legible == \A i \in 1..Len(lines) : lines[i] # 0

\* While every line can be read, what is still to append is what comes next.
JournalInv ==
  /\ JournalTypeOK /\ JournalIsPrefix
  /\ Legible /\ repair = "appending" => \A i \in 1..Len(missing) : missing[i] = Len(lines) + i

\* A legible journal of the first events records them and no other.
LEMMA PrefixRecords ==
  ASSUME JournalInv, Legible
  PROVE  Recorded(lines) = 1..Len(lines) /\ Len(lines) \in 0..emitted
<1>1. lines \in Seq(0..emitted) /\ emitted \in Nat /\ \A i \in 1..Len(lines) : lines[i] = i
  BY DEF JournalInv, JournalTypeOK, JournalIsPrefix, Legible
<1>2. DOMAIN lines = 1..Len(lines) /\ Len(lines) \in Nat
  BY <1>1
<1>3. Len(lines) # 0 => lines[Len(lines)] \in 0..emitted /\ lines[Len(lines)] = Len(lines)
  BY <1>1, <1>2
<1>4. ToSet(lines) = 1..Len(lines)
  BY <1>1, <1>2 DEF ToSet
<1> QED BY <1>1, <1>2, <1>3, <1>4 DEF Recorded

\* A line is appended, or spoils a torn one for good.
LEMMA AppendedIs ==
  ASSUME JournalTypeOK, NEW n \in 0..emitted
  PROVE  /\ Appended(lines, n) \in Seq(0..emitted) /\ Appended(lines, n) # <<>>
         /\ ~Legible => \E i \in 1..Len(Appended(lines, n)) : Appended(lines, n)[i] = 0
         /\ open \/ n = 0 => \E i \in 1..Len(Appended(lines, n)) : Appended(lines, n)[i] = 0
         /\ ~open => /\ Len(Appended(lines, n)) = Len(lines) + 1
                     /\ Appended(lines, n)[Len(lines) + 1] = n
                     /\ \A i \in 1..Len(lines) : Appended(lines, n)[i] = lines[i]
<1>1. lines \in Seq(0..emitted) /\ emitted \in Nat /\ (open => lines # <<>>)
  BY DEF JournalTypeOK
<1>2. CASE open
  <2>1. Len(lines) \in 1..Len(lines) /\ 0 \in 0..emitted /\ Appended(lines, n) = [lines EXCEPT ![Len(lines)] = 0]
    BY <1>1, <1>2 DEF Appended
  <2>2. /\ [lines EXCEPT ![Len(lines)] = 0] \in Seq(0..emitted)
        /\ Len([lines EXCEPT ![Len(lines)] = 0]) = Len(lines)
        /\ [lines EXCEPT ![Len(lines)] = 0][Len(lines)] = 0
    BY <1>1, <2>1
  <2>3. /\ Appended(lines, n) \in Seq(0..emitted) /\ Len(Appended(lines, n)) = Len(lines)
        /\ Appended(lines, n)[Len(lines)] = 0
    BY <2>1, <2>2
  <2>4. Appended(lines, n) # <<>>
    BY <2>1, <2>3
  <2> QED BY <1>2, <2>1, <2>3, <2>4
<1>3. CASE ~open
  <2>1. Appended(lines, n) = Append(lines, n)
    BY <1>3 DEF Appended
  <2>2. /\ Append(lines, n) \in Seq(0..emitted) /\ Len(Append(lines, n)) = Len(lines) + 1
        /\ Append(lines, n)[Len(lines) + 1] = n
        /\ \A i \in 1..Len(lines) : Append(lines, n)[i] = lines[i]
    BY <1>1
  <2>3. Len(lines) + 1 \in 1..Len(Append(lines, n)) /\ 1..Len(lines) \subseteq 1..Len(Append(lines, n))
    BY <1>1, <2>2
  <2> QED BY <1>3, <2>1, <2>2, <2>3 DEF Legible
<1> QED BY <1>2, <1>3

\* Every step of the store, of a repair and of a kill keeps the journal.
LEMMA JournalInductive == JournalInv /\ [JournalNext]_journalVars => JournalInv'
<1> SUFFICES ASSUME JournalInv, [JournalNext]_journalVars PROVE JournalInv'
  OBVIOUS
<1> USE JournalAssumption
<1>0. JournalTypeOK /\ emitted \in Nat /\ lines \in Seq(0..emitted) /\ missing \in Seq(1..emitted)
  BY DEF JournalInv, JournalTypeOK
<1>1. CASE EmitEvent
  <2>1. emitted' = emitted + 1 /\ emitted < MaxEvents /\ UNCHANGED <<lines, open, repair, missing, kills>>
    BY <1>1 DEF EmitEvent
  <2>2. 0..emitted \subseteq 0..emitted' /\ 1..emitted \subseteq 1..emitted' /\ emitted' \in 0..MaxEvents
    BY <1>0, <2>1
  <2>3. lines \in Seq(0..emitted') /\ missing \in Seq(1..emitted')
    BY <1>0, <2>2
  <2> QED BY <2>1, <2>2, <2>3 DEF JournalInv, JournalTypeOK, JournalIsPrefix, Legible
<1>2. CASE RepairStart
  <2>1. UNCHANGED <<emitted, lines, open, kills>>
    BY <1>2 DEF RepairStart
  <2>2. CASE Corrupt(lines)
    <3>1. repair' = "raised" /\ UNCHANGED missing
      BY <1>2, <2>2 DEF RepairStart
    <3> QED BY <2>1, <3>1 DEF JournalInv, JournalTypeOK, JournalIsPrefix, Legible
  <2>3. CASE ~Corrupt(lines)
    <3>1. missing' = MissingFrom(lines) /\ repair' = IF missing' = <<>> THEN "idle" ELSE "appending"
      BY <1>2, <2>3 DEF RepairStart
    <3>2. missing' \in Seq(1..emitted)
      BY <1>0, <3>1, MissingAre
    <3>3. Legible => \A i \in 1..Len(missing') : missing'[i] = Len(lines) + i
      <4>1. Legible => /\ Len(missing') = emitted - Len(lines)
                       /\ \A i \in 1..emitted - Len(lines) : missing'[i] = Len(lines) + i
        BY <1>0, <3>1, MissingAre, PrefixRecords
      <4> QED BY <4>1
    <3>4. JournalTypeOK'
      BY <2>1, <3>1, <3>2 DEF JournalInv, JournalTypeOK
    <3> QED BY <2>1, <3>3, <3>4 DEF JournalInv, JournalIsPrefix, Legible
  <2> QED BY <2>2, <2>3
<1>3. ASSUME NEW n \in 0..emitted, repair = "appending", missing # <<>>, n \in {0, Head(missing)},
             lines' = Appended(lines, n), UNCHANGED emitted
      PROVE  /\ lines' \in Seq(0..emitted) /\ lines' # <<>> /\ JournalIsPrefix'
             /\ Legible' => Legible /\ Len(lines') = Len(lines) + 1
  <2>1. CASE ~Legible \/ open \/ n = 0
    <3>1. lines' \in Seq(0..emitted) /\ lines' # <<>> /\ \E i \in 1..Len(lines') : lines'[i] = 0
      BY <1>0, <1>3, <2>1, AppendedIs
    <3> QED BY <3>1 DEF JournalIsPrefix, Legible
  <2>2. CASE Legible /\ ~open /\ n # 0
    <3>1. /\ lines' \in Seq(0..emitted) /\ lines' # <<>> /\ Len(lines') = Len(lines) + 1
          /\ lines'[Len(lines) + 1] = n /\ \A i \in 1..Len(lines) : lines'[i] = lines[i]
      BY <1>0, <1>3, <2>2, AppendedIs
    <3>2. n = Len(lines) + 1
      <4>1. 1 \in 1..Len(missing) /\ Head(missing) = missing[1]
        BY <1>0, <1>3
      <4> QED BY <1>3, <2>2, <4>1 DEF JournalInv
    <3>3. \A i \in 1..Len(lines) : lines[i] = i
      BY <2>2 DEF JournalInv, JournalIsPrefix, Legible
    <3>4. \A i \in 1..Len(lines') : lines'[i] = i
      <4>1. ASSUME NEW i \in 1..Len(lines') PROVE i \in 1..Len(lines) \/ i = Len(lines) + 1
        BY <1>0, <3>1
      <4> QED BY <3>1, <3>2, <3>3, <4>1
    <3>5. lines' = [i \in 1..Len(lines') |-> i]
      BY <3>1, <3>4
    <3> QED BY <2>2, <3>1, <3>5 DEF JournalIsPrefix
  <2> QED BY <2>1, <2>2
<1>4. CASE AppendEvent
  <2>1. /\ repair = "appending" /\ missing # <<>> /\ lines' = Appended(lines, Head(missing))
        /\ open' = FALSE /\ missing' = Tail(missing) /\ UNCHANGED <<emitted, kills>>
        /\ repair' = IF missing' = <<>> THEN "idle" ELSE "appending"
    BY <1>4 DEF AppendEvent, JournalInv, JournalTypeOK
  <2>2. Head(missing) \in 0..emitted
    <3>1. Head(missing) \in 1..emitted
      BY <1>0, <2>1
    <3> QED BY <1>0, <3>1
  <2>3. /\ lines' \in Seq(0..emitted) /\ lines' # <<>> /\ JournalIsPrefix'
        /\ Legible' => Legible /\ Len(lines') = Len(lines) + 1
    BY <1>3, <2>1, <2>2
  <2>4. /\ missing' \in Seq(1..emitted) /\ Len(missing') = Len(missing) - 1
        /\ \A i \in 1..Len(missing') : missing'[i] = missing[i + 1] /\ i + 1 \in 1..Len(missing)
    <3> DEFINE rest == Tail(missing)
    <3>1. rest \in Seq(1..emitted) /\ Len(rest) = Len(missing) - 1
      BY <1>0, <2>1
    <3>2. \A i \in 1..Len(missing) - 1 : rest[i] = missing[i + 1] /\ i + 1 \in 1..Len(missing)
      BY <1>0, <2>1
    <3> QED BY <2>1, <3>1, <3>2
  <2>5. JournalTypeOK'
    BY <2>1, <2>3, <2>4 DEF JournalInv, JournalTypeOK
  <2>6. Legible' => \A i \in 1..Len(missing') : missing'[i] = Len(lines') + i
    <3> SUFFICES ASSUME Legible', NEW i \in 1..Len(missing') PROVE missing'[i] = Len(lines') + i
      OBVIOUS
    <3>1. missing[i + 1] = Len(lines) + (i + 1)
      BY <2>1, <2>3, <2>4 DEF JournalInv
    <3>2. Len(lines') = Len(lines) + 1 /\ missing'[i] = missing[i + 1]
      BY <2>3, <2>4
    <3>3. Len(lines) \in Nat /\ i \in Nat
      BY <1>0, <2>4
    <3> QED BY <3>1, <3>2, <3>3
  <2> QED BY <2>3, <2>5, <2>6 DEF JournalInv
<1>5. CASE KillRepair
  <2>1. /\ repair = "appending" /\ missing # <<>> /\ repair' = "idle" /\ missing' = <<>>
        /\ kills' \in 0..MaxKills /\ UNCHANGED emitted
    BY <1>5 DEF KillRepair, JournalInv, JournalTypeOK
  <2>2. missing' \in Seq(1..emitted)
    BY <2>1
  <2>3. CASE UNCHANGED <<lines, open>>
    BY <2>1, <2>2, <2>3 DEF JournalInv, JournalTypeOK, JournalIsPrefix, Legible
  <2>4. CASE ~UNCHANGED <<lines, open>>
    <3>1. PICK n \in {0, Head(missing)} : lines' = Appended(lines, n) /\ open' = TRUE
      BY <1>5, <2>4 DEF KillRepair
    <3>2. n \in 0..emitted
      BY <1>0, <2>1, <3>1
    <3>3. lines' \in Seq(0..emitted) /\ lines' # <<>> /\ JournalIsPrefix'
      BY <1>3, <2>1, <3>1, <3>2
    <3>4. JournalTypeOK'
      BY <2>1, <2>2, <3>1, <3>3 DEF JournalInv, JournalTypeOK
    <3> QED BY <2>1, <3>3, <3>4 DEF JournalInv
  <2> QED BY <2>3, <2>4
<1>6. CASE UNCHANGED journalVars
  BY <1>6 DEF journalVars, JournalInv, JournalTypeOK, JournalIsPrefix, Legible
<1> QED BY <1>1, <1>2, <1>4, <1>5, <1>6 DEF JournalNext

\* For any number of events and of repairs cut off anywhere: as long as every line can be
\* read, the journal is the first events of the store, in order and each once
\* (EventJournal.repair_from, missing_from, append).
THEOREM JournalAlwaysPrefix == JournalSpec => []JournalIsPrefix
<1>1. JournalInit => JournalInv
  <2> SUFFICES ASSUME JournalInit PROVE JournalInv
    OBVIOUS
  <2>1. lines \in Seq(0..emitted) /\ missing \in Seq(1..emitted) /\ Len(lines) = 0
    BY DEF JournalInit
  <2>2. emitted \in 0..MaxEvents /\ kills \in 0..MaxKills
    BY JournalAssumption DEF JournalInit
  <2>3. lines = [i \in 1..Len(lines) |-> i]
    BY <2>1 DEF JournalInit
  <2> QED BY <2>1, <2>2, <2>3 DEF JournalInit, JournalInv, JournalTypeOK, JournalIsPrefix
<1>2. JournalInv => JournalIsPrefix
  BY DEF JournalInv
<1> QED BY <1>1, <1>2, JournalInductive, PTL DEF JournalSpec

-----------------------------------------------------------------------------
(* Checkpoints *)

CkptFiles == [is : {"absent", "torn", "checkpoint", "object"}, size : {"tiny", "small", "big"}, written : Nat]
Searches == [is : {"off", "on"}, left : SUBSET CkptName, written : [CkptName -> Nat]]

CkptTyped ==
  /\ torch \in {"yes", "no"} /\ ckptFile \in [CkptName -> CkptFiles] /\ clock \in Nat
  /\ trainer \in CkptName \cup {"off"} /\ search \in Searches /\ savedSince \in SUBSET CkptName
  /\ advice \in [asked : {"nothing", "directory"} \cup CkptName, file : CkptName \cup {"none"}]

\* No write is later than the clock; a file that is not there has no size.
DatesInv ==
  \A n \in CkptName : /\ ckptFile[n].written <= clock
                      /\ ckptFile[n].is = "absent" => ckptFile[n].size = "tiny"

\* While the directory is searched, a file as it was seen that is left has the time it is
\* sorted by, and one that is not left is not valid.
SearchInv ==
  search.is = "on" =>
    /\ advice = NoAdvice
    /\ \A n \in CkptName :
         /\ search.written[n] <= ckptFile[n].written
         /\ AsSeen(n) /\ n \in search.left => ckptFile[n].written = search.written[n]
         /\ AsSeen(n) /\ n \notin search.left => ~VerifyCheckpoint(ckptFile[n])

\* An answer that is as it was seen is still valid.
AnswerInv == advice.file # "none" /\ AsSeen(advice.file) => VerifyCheckpoint(ckptFile[advice.file])

CkptInv == CkptTyped /\ DatesInv /\ SearchInv /\ AnswerInv /\ ResumesFromWhole

\* A save touches its file and is later than all before it.
LEMMA SavesOne ==
  ASSUME CkptInv, NEW n \in CkptName, NEW is \in {"torn"} \cup Whole, NEW size \in {"tiny", "small", "big"},
         NEW next \in CkptName \cup {"off"}, Saves(n, is, size, next)
  PROVE  CkptInv'
<1> DEFINE f == [is |-> is, size |-> size, written |-> clock + 1]
<1>1. /\ ckptFile' = [ckptFile EXCEPT ![n] = f] /\ clock' = clock + 1 /\ trainer' = next
      /\ savedSince' = savedSince \cup {n} /\ UNCHANGED <<torch, search, advice, resumed>>
  BY DEF Saves
<1>2. clock \in Nat /\ ckptFile \in [CkptName -> CkptFiles]
  BY DEF CkptInv, CkptTyped
<1>3. f \in CkptFiles /\ f.written = clock + 1 /\ f.is # "absent"
  BY <1>2 DEF CkptFiles, Whole
<1> HIDE DEF f
<1>4. ckptFile'[n] = f /\ \A m \in CkptName : m # n => ckptFile'[m] = ckptFile[m]
  BY <1>1, <1>2
<1>5. \A m \in CkptName : AsSeen(m)' => m # n /\ AsSeen(m)
  BY <1>1 DEF AsSeen
<1>6. \A m \in CkptName : ckptFile[m].written \in Nat /\ ckptFile[m].written <= clock
  BY <1>2 DEF CkptInv, DatesInv, CkptFiles
<1>7. CkptTyped'
  BY <1>1, <1>2, <1>3 DEF CkptInv, CkptTyped
<1>8. DatesInv'
  BY <1>1, <1>2, <1>3, <1>4, <1>6 DEF CkptInv, DatesInv
<1>9. \A m \in CkptName : m # n => (VerifyCheckpoint(ckptFile[m])' <=> VerifyCheckpoint(ckptFile[m]))
  BY <1>1, <1>4 DEF VerifyCheckpoint
<1>10. SearchInv'
  <2> SUFFICES ASSUME search.is = "on" PROVE SearchInv'
    BY <1>1 DEF SearchInv
  <2>1. \A m \in CkptName : search.written[m] \in Nat
    BY DEF CkptInv, CkptTyped, Searches
  <2>2. advice = NoAdvice /\ \A m \in CkptName :
          /\ search.written[m] <= ckptFile[m].written
          /\ AsSeen(m) /\ m \in search.left => ckptFile[m].written = search.written[m]
          /\ AsSeen(m) /\ m \notin search.left => ~VerifyCheckpoint(ckptFile[m])
    BY DEF CkptInv, SearchInv
  <2>3. ASSUME NEW m \in CkptName
        PROVE  search.written[m] <= ckptFile'[m].written
    <3>1. CASE m = n
      BY <1>2, <1>3, <1>4, <1>6, <2>1, <2>2, <3>1
    <3>2. CASE m # n
      BY <1>4, <2>2, <3>2
    <3> QED BY <3>1, <3>2
  <2>4. ASSUME NEW m \in CkptName, AsSeen(m)'
        PROVE  /\ m \in search.left => ckptFile'[m].written = search.written[m]
               /\ m \notin search.left => ~VerifyCheckpoint(ckptFile[m])'
    BY <1>4, <1>5, <1>9, <2>2, <2>4
  <2>5. search' = search /\ advice' = advice
    BY <1>1
  <2> QED BY <2>2, <2>3, <2>4, <2>5 DEF SearchInv, NoAdvice
<1>11. advice' = advice /\ resumed' = resumed /\ torch' = torch
  BY <1>1
<1>12. advice.file \in CkptName \cup {"none"}
  BY DEF CkptInv, CkptTyped
<1>13. AnswerInv'
  BY <1>5, <1>9, <1>11, <1>12 DEF CkptInv, AnswerInv
<1>14. ResumesFromWhole'
  <2>1. resumed \notin {"not yet", "checkpoint"} => torch = "no" \/ ~AsSeen(advice.file)'
    BY <1>1 DEF CkptInv, ResumesFromWhole, AsSeen
  <2>2. advice.file = "none" =>
          \A m \in CkptName : advice.asked \in {"directory", m} /\ AsSeen(m)'
                                => ~VerifyCheckpoint(ckptFile[m])'
    BY <1>5, <1>9 DEF CkptInv, ResumesFromWhole
  <2>3. ASSUME advice.asked = "directory", advice.file # "none", NEW m \in CkptName, AsSeen(m)',
               ckptFile'[m].written > ckptFile'[advice.file].written
        PROVE  ~VerifyCheckpoint(ckptFile[m])'
    <3>1. advice.file \in CkptName
      BY <1>12, <2>3
    <3>2. advice.file # n
      BY <1>2, <1>3, <1>4, <1>5, <1>6, <2>3
    <3>3. ckptFile[m].written > ckptFile[advice.file].written /\ AsSeen(m)
      BY <1>4, <1>5, <2>3, <3>1, <3>2
    <3>4. ~VerifyCheckpoint(ckptFile[m])
      BY <2>3, <3>3 DEF CkptInv, ResumesFromWhole
    <3> QED BY <1>5, <1>9, <2>3, <3>4
  <2> QED BY <1>11, <2>1, <2>2, <2>3 DEF ResumesFromWhole
<1> QED BY <1>7, <1>8, <1>10, <1>13, <1>14 DEF CkptInv

\* A step that writes no file leaves every judgement as it is.
LEMMA Unwritten ==
  ASSUME CkptInv, Unsaved
  PROVE  /\ ckptFile' = ckptFile /\ torch' = torch /\ DatesInv'
         /\ \A m \in CkptName : VerifyCheckpoint(ckptFile[m])' <=> VerifyCheckpoint(ckptFile[m])
         /\ search' \in Searches /\ savedSince' \in SUBSET CkptName
              /\ advice' \in [asked : {"nothing", "directory"} \cup CkptName, file : CkptName \cup {"none"}]
              => CkptTyped'
<1>1. UNCHANGED <<torch, ckptFile, clock, trainer>>
  BY DEF Unsaved
<1>2. DatesInv'
  BY <1>1 DEF DatesInv, CkptInv
<1>3. \A m \in CkptName : VerifyCheckpoint(ckptFile[m])' <=> VerifyCheckpoint(ckptFile[m])
  BY <1>1 DEF VerifyCheckpoint
<1>4. search' \in Searches /\ savedSince' \in SUBSET CkptName
        /\ advice' \in [asked : {"nothing", "directory"} \cup CkptName, file : CkptName \cup {"none"}]
        => CkptTyped'
  BY <1>1 DEF CkptTyped, CkptInv
<1> QED BY <1>1, <1>2, <1>3, <1>4

\* The directory's answer: what is newer was looked at before.
LEMMA DirectoryAnswers ==
  ASSUME CkptInv, NEW n \in CkptName, FindLooks(n)
  PROVE  CkptInv'
<1>1. search.is = "on" /\ IsNewest(n) /\ Looked(n) /\ Unsaved
  BY DEF FindLooks
<1>2. /\ ckptFile' = ckptFile /\ torch' = torch /\ DatesInv'
      /\ \A m \in CkptName : VerifyCheckpoint(ckptFile[m])' <=> VerifyCheckpoint(ckptFile[m])
  BY <1>1, Unwritten
<1>3. savedSince' = savedSince \ {n} /\ \A m \in CkptName : AsSeen(m)' <=> AsSeen(m) \/ m = n
  BY <1>1 DEF Looked, AsSeen, CkptInv, CkptTyped
<1>4. n \in search.left /\ \A m \in search.left : search.written[m] <= search.written[n]
  BY <1>1 DEF IsNewest
<1>5. advice = NoAdvice /\ \A m \in CkptName :
        /\ search.written[m] <= ckptFile[m].written
        /\ AsSeen(m) /\ m \in search.left => ckptFile[m].written = search.written[m]
        /\ AsSeen(m) /\ m \notin search.left => ~VerifyCheckpoint(ckptFile[m])
  BY <1>1 DEF CkptInv, SearchInv
<1>6. \A m \in CkptName : search.written[m] \in Nat /\ ckptFile[m].written \in Nat
  BY DEF CkptInv, CkptTyped, Searches, CkptFiles
<1>7. search \in Searches /\ savedSince' \in SUBSET CkptName
  BY <1>3 DEF CkptInv, CkptTyped
<1>8. CASE VerifyCheckpoint(ckptFile[n]) /\ search' = NoSearch /\ Advises("directory", n)
  <2>1. advice' = [asked |-> "directory", file |-> n] /\ resumed' = "not yet" /\ search' = NoSearch
    BY <1>8 DEF Advises
  <2>2. NoSearch \in Searches /\ NoSearch.is = "off"
    BY DEF NoSearch, Searches
  <2>3. CkptTyped'
    <3>1. advice' \in [asked : {"nothing", "directory"} \cup CkptName, file : CkptName \cup {"none"}]
      BY <2>1
    <3> QED BY <1>1, <1>7, <2>1, <2>2, <3>1, Unwritten
  <2>4. SearchInv'
    BY <2>1, <2>2 DEF SearchInv
  <2>5. advice'.file = n /\ advice'.asked = "directory" /\ n # "none"
    BY <2>1 DEF CkptName
  <2>6. AnswerInv'
    BY <1>2, <1>8, <2>5 DEF AnswerInv
  <2>7. ASSUME NEW m \in CkptName, AsSeen(m)', ckptFile[m].written > ckptFile[n].written
        PROVE  ~VerifyCheckpoint(ckptFile[m])
    <3>1. AsSeen(m)
      BY <1>3, <1>6, <2>7
    <3>2. m \notin search.left
      BY <1>4, <1>5, <1>6, <2>7, <3>1
    <3> QED BY <1>5, <3>1, <3>2
  <2>8. ResumesFromWhole'
    BY <1>2, <2>1, <2>5, <2>7 DEF ResumesFromWhole
  <2> QED BY <1>2, <2>3, <2>4, <2>6, <2>8 DEF CkptInv
<1>9. CASE ~VerifyCheckpoint(ckptFile[n]) /\ search' = [search EXCEPT !.left = @ \ {n}] /\ UNCHANGED <<advice, resumed>>
  <2>1. search' \in Searches /\ search'.left = search.left \ {n} /\ search'.written = search.written
    BY <1>7, <1>9 DEF Searches
  <2>2. advice' = NoAdvice /\ resumed' = resumed
    BY <1>5, <1>9
  <2>3. CkptTyped'
    <3>1. advice' \in [asked : {"nothing", "directory"} \cup CkptName, file : CkptName \cup {"none"}]
      BY <1>9 DEF CkptInv, CkptTyped
    <3> QED BY <1>1, <1>7, <2>1, <3>1, Unwritten
  <2>4. \A m \in CkptName :
          /\ AsSeen(m)' /\ m \in search'.left => ckptFile[m].written = search.written[m]
          /\ AsSeen(m)' /\ m \notin search'.left => ~VerifyCheckpoint(ckptFile[m])
    BY <1>3, <1>5, <1>9, <2>1
  <2>5. SearchInv'
    BY <1>2, <1>5, <2>1, <2>2, <2>4 DEF SearchInv
  <2>6. NoAdvice.file = "none" /\ NoAdvice.asked = "nothing"
    BY DEF NoAdvice
  <2>7. AnswerInv'
    BY <2>2, <2>6 DEF AnswerInv
  <2>8. ResumesFromWhole'
    <3>1. resumed \notin {"not yet", "checkpoint"} => torch = "no" \/ ~AsSeen(advice.file)'
      <4>1. ~AsSeen(advice.file) => ~AsSeen(advice.file)'
        <5>1. advice.file = "none" /\ advice'.file = "none"
          BY <1>5, <2>2, <2>6
        <5>2. "none" \notin savedSince
          BY DEF CkptInv, CkptTyped, CkptName
        <5> QED BY <5>1, <5>2 DEF AsSeen
      <4> QED BY <4>1 DEF CkptInv, ResumesFromWhole
    <3>2. \A m \in CkptName : ~(advice'.asked \in {"directory", m})
      BY <2>2, <2>6 DEF CkptName
    <3> QED BY <1>2, <1>9, <2>2, <2>6, <3>1, <3>2 DEF ResumesFromWhole
  <2> QED BY <1>2, <2>3, <2>5, <2>7, <2>8 DEF CkptInv
<1> QED BY <1>8, <1>9 DEF FindLooks

\* Every save, question, look and answer keeps CkptInv.
LEMMA CkptInductive == CkptInv /\ [CkptNext]_ckptVars => CkptInv'
<1> SUFFICES ASSUME CkptInv, [CkptNext]_ckptVars PROVE CkptInv'
  OBVIOUS
<1>0. NoSearch \in Searches /\ NoSearch.is = "off" /\ NoAdvice.file = "none" /\ NoAdvice.asked = "nothing"
      /\ NoAdvice \in [asked : {"nothing", "directory"} \cup CkptName, file : CkptName \cup {"none"}]
      /\ "none" \notin CkptName /\ "nothing" \notin CkptName
  BY DEF NoSearch, NoAdvice, Searches, CkptName
<1>1. ASSUME NEW n \in CkptName, SaveBegins(n) PROVE CkptInv'
  BY <1>1, SavesOne DEF SaveBegins
<1>2. CASE SaveGoesOn
  <2>1. trainer \in CkptName
    BY <1>2 DEF SaveGoesOn, CkptInv, CkptTyped
  <2> QED BY <1>2, <2>1, SavesOne DEF SaveGoesOn
<1>3. CASE SaveEnds
  <2>1. trainer \in CkptName
    BY <1>3 DEF SaveEnds, CkptInv, CkptTyped
  <2> QED BY <1>3, <2>1, SavesOne DEF SaveEnds
<1>4. CASE TrainingKilled
  BY <1>4 DEF TrainingKilled, CkptInv, CkptTyped, DatesInv, SearchInv, AnswerInv, ResumesFromWhole,
    AsSeen, VerifyCheckpoint
<1>5. CASE FindBegins
  <2>1. /\ savedSince' = {} /\ advice' = NoAdvice /\ resumed' = "not yet" /\ Unsaved
        /\ search' = [is |-> "on", left |-> {n \in CkptName : ckptFile[n].is # "absent"},
                      written |-> [n \in CkptName |-> ckptFile[n].written]]
    BY <1>5 DEF FindBegins
  <2>2. /\ ckptFile' = ckptFile /\ torch' = torch /\ DatesInv'
        /\ \A m \in CkptName : VerifyCheckpoint(ckptFile[m])' <=> VerifyCheckpoint(ckptFile[m])
    BY <2>1, Unwritten
  <2>3. \A n \in CkptName : ckptFile[n].written \in Nat
    BY DEF CkptInv, CkptTyped, CkptFiles
  <2>4. search' \in Searches /\ search'.left = {n \in CkptName : ckptFile[n].is # "absent"}
        /\ \A n \in CkptName : search'.written[n] = ckptFile[n].written
    BY <2>1, <2>3 DEF Searches
  <2>5. CkptTyped'
    <3>1. savedSince' \in SUBSET CkptName
      BY <2>1
    <3> QED BY <1>0, <2>1, <2>4, <3>1, Unwritten
  <2>6. \A n \in CkptName : n \notin search'.left => ~VerifyCheckpoint(ckptFile[n])
    BY <2>4 DEF VerifyCheckpoint, CkptInv, DatesInv
  <2>7. SearchInv'
    <3>1. \A n \in CkptName :
            /\ search'.written[n] <= ckptFile'[n].written
            /\ n \in search'.left => ckptFile'[n].written = search'.written[n]
            /\ n \notin search'.left => ~VerifyCheckpoint(ckptFile[n])'
      <4> SUFFICES ASSUME NEW n \in CkptName
                   PROVE  /\ search'.written[n] <= ckptFile'[n].written
                          /\ n \in search'.left => ckptFile'[n].written = search'.written[n]
                          /\ n \notin search'.left => ~VerifyCheckpoint(ckptFile[n])'
        OBVIOUS
      <4>1. search'.written[n] = ckptFile'[n].written /\ ckptFile'[n].written \in Nat
        BY <2>2, <2>3, <2>4
      <4>2. n \notin search'.left => ~VerifyCheckpoint(ckptFile[n])'
        BY <2>2, <2>6
      <4> QED BY <4>1, <4>2
    <3> QED BY <2>1, <3>1 DEF SearchInv
  <2>8. AnswerInv'
    BY <1>0, <2>1 DEF AnswerInv
  <2>9. ResumesFromWhole'
    BY <1>0, <2>1 DEF ResumesFromWhole
  <2> QED BY <2>2, <2>5, <2>7, <2>8, <2>9 DEF CkptInv
<1>6. ASSUME NEW n \in CkptName, FindLooks(n) PROVE CkptInv'
  BY <1>6, DirectoryAnswers
<1>7. CASE FindsNone
  <2>1. /\ search.is = "on" /\ search.left = {} /\ search' = NoSearch /\ savedSince' = savedSince /\ Unsaved
        /\ advice' = [asked |-> "directory", file |-> "none"] /\ resumed' = "not yet"
    BY <1>7 DEF FindsNone, Advises
  <2>2. /\ ckptFile' = ckptFile /\ torch' = torch /\ DatesInv'
        /\ \A m \in CkptName : VerifyCheckpoint(ckptFile[m])' <=> VerifyCheckpoint(ckptFile[m])
    BY <2>1, Unwritten
  <2>3. CkptTyped'
    <3>1. savedSince' \in SUBSET CkptName
      BY <2>1 DEF CkptInv, CkptTyped
    <3>2. advice' \in [asked : {"nothing", "directory"} \cup CkptName, file : CkptName \cup {"none"}]
      BY <2>1
    <3> QED BY <1>0, <2>1, <3>1, <3>2, Unwritten
  <2>4. advice'.file = "none" /\ advice'.asked = "directory"
    BY <2>1
  <2>5. \A n \in CkptName : AsSeen(n)' => ~VerifyCheckpoint(ckptFile[n])
    BY <2>1 DEF CkptInv, SearchInv, AsSeen
  <2>6. SearchInv' /\ AnswerInv'
    BY <1>0, <2>1, <2>4 DEF SearchInv, AnswerInv
  <2>7. ResumesFromWhole'
    BY <2>1, <2>2, <2>4, <2>5 DEF ResumesFromWhole
  <2> QED BY <2>2, <2>3, <2>6, <2>7 DEF CkptInv
<1>8. ASSUME NEW n \in CkptName, RecoveryInfo(n) PROVE CkptInv'
  <2>1. search.is = "off" /\ savedSince' = savedSince \ {n} /\ search' = search /\ Unsaved
    BY <1>8 DEF RecoveryInfo, Looked
  <2>2. /\ ckptFile' = ckptFile /\ torch' = torch /\ DatesInv'
        /\ \A m \in CkptName : VerifyCheckpoint(ckptFile[m])' <=> VerifyCheckpoint(ckptFile[m])
    BY <2>1, Unwritten
  <2>3. search' \in Searches /\ savedSince' \in SUBSET CkptName
    BY <2>1 DEF CkptInv, CkptTyped
  <2>4. SearchInv'
    BY <2>1 DEF SearchInv
  <2>5. CASE VerifyCheckpoint(ckptFile[n]) /\ Advises(n, n)
    <3>1. advice' = [asked |-> n, file |-> n] /\ resumed' = "not yet"
      BY <2>5 DEF Advises
    <3>2. advice' \in [asked : {"nothing", "directory"} \cup CkptName, file : CkptName \cup {"none"}]
      BY <3>1
    <3>3. CkptTyped'
      BY <2>1, <2>3, <3>2, Unwritten
    <3>4. advice'.file = n /\ advice'.asked = n /\ n # "none" /\ n # "directory"
      BY <3>1 DEF CkptName
    <3>5. AnswerInv'
      BY <2>2, <2>5, <3>4 DEF AnswerInv
    <3>6. ResumesFromWhole'
      BY <3>1, <3>4 DEF ResumesFromWhole
    <3> QED BY <2>2, <2>4, <3>3, <3>5, <3>6 DEF CkptInv
  <2>6. CASE ~VerifyCheckpoint(ckptFile[n]) /\ Advises(n, "none")
    <3>1. advice' = [asked |-> n, file |-> "none"] /\ resumed' = "not yet"
      BY <2>6 DEF Advises
    <3>2. advice' \in [asked : {"nothing", "directory"} \cup CkptName, file : CkptName \cup {"none"}]
      BY <3>1
    <3>3. CkptTyped'
      BY <2>1, <2>3, <3>2, Unwritten
    <3>4. advice'.file = "none" /\ advice'.asked = n /\ n # "directory"
      BY <3>1 DEF CkptName
    <3>5. AnswerInv'
      BY <3>4 DEF AnswerInv
    <3>6. ResumesFromWhole'
      BY <2>2, <2>6, <3>1, <3>4 DEF ResumesFromWhole
    <3> QED BY <2>2, <2>4, <3>3, <3>5, <3>6 DEF CkptInv
  <2> QED BY <1>8, <2>5, <2>6 DEF RecoveryInfo
<1>9. CASE Resume
  <2>1. /\ search.is = "off" /\ advice.file # "none" /\ resumed' = ckptFile[advice.file].is
        /\ UNCHANGED <<torch, ckptFile, clock, trainer, search, advice, savedSince>>
    BY <1>9 DEF Resume
  <2>2. CkptTyped' /\ DatesInv'
    BY <2>1 DEF CkptInv, CkptTyped, DatesInv
  <2>3. SearchInv' /\ AnswerInv'
    BY <2>1 DEF CkptInv, SearchInv, AnswerInv, AsSeen, VerifyCheckpoint
  <2>4. AsSeen(advice.file) => torch = "no" \/ ckptFile[advice.file].is = "checkpoint"
    BY <2>1 DEF CkptInv, AnswerInv, VerifyCheckpoint, CkptTyped
  <2>5. ResumesFromWhole'
    BY <2>1, <2>4 DEF CkptInv, ResumesFromWhole, AsSeen, VerifyCheckpoint
  <2> QED BY <2>2, <2>3, <2>5 DEF CkptInv
<1>10. CASE UNCHANGED ckptVars
  BY <1>10 DEF ckptVars, CkptInv, CkptTyped, DatesInv, SearchInv, AnswerInv, ResumesFromWhole,
    AsSeen, VerifyCheckpoint
<1> QED BY <1>1, <1>2, <1>3, <1>4, <1>5, <1>6, <1>7, <1>8, <1>9, <1>10 DEF CkptNext

\* For any number of writes: with PyTorch nobody is sent to what is no checkpoint, unless that
\* file was written to after recovery looked at it; a search that finds none has missed no
\* file that stayed valid, nor one that finds a file a newer one (find_last_valid_checkpoint,
\* get_recovery_info).
THEOREM AlwaysResumesFromWhole == CkptSpec => []ResumesFromWhole
<1>1. CkptInit => CkptInv
  <2> SUFFICES ASSUME CkptInit PROVE CkptInv
    OBVIOUS
  <2>1. /\ torch \in {"yes", "no"} /\ ckptFile = [n \in CkptName |-> NoCkpt] /\ clock = 0 /\ trainer = "off"
        /\ search = NoSearch /\ advice = NoAdvice /\ savedSince = {} /\ resumed = "not yet"
    BY DEF CkptInit
  <2>2. NoCkpt \in CkptFiles /\ NoCkpt.written = 0 /\ NoCkpt.size = "tiny"
    BY DEF NoCkpt, CkptFiles
  <2>3. NoSearch \in Searches /\ NoSearch.is = "off"
    BY DEF NoSearch, Searches
  <2>4. CkptTyped
    BY <2>1, <2>2, <2>3 DEF CkptTyped, NoAdvice
  <2>5. DatesInv
    <3>1. \A n \in CkptName : ckptFile[n] = NoCkpt
      BY <2>1
    <3>2. \A n \in CkptName : ckptFile[n].written = 0 /\ ckptFile[n].size = "tiny"
      BY <2>2, <3>1
    <3>3. clock = 0
      BY <2>1
    <3> QED BY <3>2, <3>3 DEF DatesInv
  <2>8. SearchInv
    BY <2>1, <2>3 DEF SearchInv
  <2>6. AnswerInv
    BY <2>1 DEF AnswerInv, NoAdvice
  <2>7. ResumesFromWhole
    BY <2>1, <2>2 DEF ResumesFromWhole, NoAdvice, CkptName
  <2> QED BY <2>4, <2>5, <2>6, <2>7, <2>8 DEF CkptInv
<1>2. CkptInv => ResumesFromWhole
  BY DEF CkptInv
<1> QED BY <1>1, <1>2, CkptInductive, PTL DEF CkptSpec

-----------------------------------------------------------------------------
(* Verifier: the verdict and the rows that stand for it *)

\* The rows up to here are results, one for each of n tests.
ResultRows(n) ==
  /\ Len(verifyRows) = n
  /\ \A i \in 1..n : verifyRows[i].event = "ACCEPTANCE_RESULT"

VerifyEvent == {"VERIFICATION_BYPASS", "VERIFICATION_PASS", "ACCEPTANCE_RESULT", "VERIFICATION_ERROR"}
VerifyRow == [event : VerifyEvent, code : Nat]

\* While verify works every test tried so far has passed, none of them decided alone, and
\* each has left its row; before it nothing is written, and a final answer is as it should be.
VerdictInv ==
  /\ tests \in Seq(Test) /\ testsRun \in 0..Len(tests)
  /\ verifyRows \in Seq(VerifyRow)
  /\ \A i \in DOMAIN tests : tests[i].type = "file_exists" => tests[i].found \in {"missing", "good"}
  /\ answer \in {"none", "open", "pass", "waiver", "fail", "raised"}
  /\ answer = "none" => testsRun = 0 /\ verifyRows = <<>>
  /\ answer = "open" =>
       /\ ResultRows(testsRun)
       /\ \A i \in 1..testsRun : Passes(tests[i]) /\ tests[i].type # "metrics_recompute"
  /\ VerdictRestsOnTests

LEMMA LogRowType ==
  ASSUME NEW e \in VerifyEvent, NEW c \in Nat
  PROVE  LogRow(e, c) \in VerifyRow /\ LogRow(e, c).event = e
BY DEF LogRow, VerifyRow

\* One row more: what it is, and that those before stay.
LEMMA OneRow ==
  ASSUME verifyRows \in Seq(VerifyRow), NEW e \in VerifyEvent, NEW c \in Nat,
         Log(<<LogRow(e, c)>>)
  PROVE  /\ verifyRows' \in Seq(VerifyRow)
         /\ Len(verifyRows') = Len(verifyRows) + 1
         /\ \A i \in 1..Len(verifyRows) : verifyRows'[i] = verifyRows[i]
         /\ verifyRows'[Len(verifyRows) + 1].event = e
<1> DEFINE r == LogRow(e, c)
<1>1. r \in VerifyRow /\ r.event = e
  BY LogRowType
<1> HIDE DEF r
<1>2. verifyRows' = verifyRows \o <<r>>
  BY DEF Log, r
<1> QED BY <1>1, <1>2

LEMMA VerdictInvInit == VerifierInit => VerdictInv
<1> SUFFICES ASSUME VerifierInit PROVE VerdictInv
  OBVIOUS
<1>1. tests = <<>> /\ testsRun = 0 /\ verifyRows = <<>> /\ answer = "none"
  BY DEF VerifierInit
<1> QED BY <1>1 DEF VerdictInv, VerdictRestsOnTests

\* A test is answered by its row; the verdict waits for the next one or is "fail".
LEMMA TestAnswered ==
  ASSUME VerdictInv, TryNext(TestType), NEW code \in Nat, TestAnswer(code),
         code = 0 <=> Passes(Current), Current.type # "metrics_recompute" \/ code # 0
  PROVE  VerdictInv'
<1> DEFINE n == testsRun + 1
<1>1. /\ testsRun \in Nat /\ n \in 1..Len(tests) /\ testsRun' = n /\ tests' = tests
      /\ answer = "open" /\ Current = tests[n] /\ tests \in Seq(Test) /\ Len(tests) \in Nat
  BY DEF VerdictInv, TryNext, Current
<1>2. /\ verifyRows' \in Seq(VerifyRow)
      /\ Len(verifyRows') = n
      /\ \A i \in 1..testsRun : verifyRows'[i].event = "ACCEPTANCE_RESULT"
      /\ verifyRows'[n].event = "ACCEPTANCE_RESULT"
  BY <1>1, OneRow DEF VerdictInv, TestAnswer, ResultRows, VerifyEvent
<1>3. \A i \in 1..n : verifyRows'[i].event = "ACCEPTANCE_RESULT"
  BY <1>1, <1>2
<1>4. /\ Cardinality({i \in DOMAIN verifyRows' : verifyRows'[i].event = "ACCEPTANCE_RESULT"}) = n
      /\ \A i \in DOMAIN verifyRows' : verifyRows'[i].event # "VERIFICATION_PASS"
  <2>1. DOMAIN verifyRows' = 1..n
    BY <1>2
  <2>2. {i \in DOMAIN verifyRows' : verifyRows'[i].event = "ACCEPTANCE_RESULT"} = 1..n
    BY <1>3, <2>1
  <2>3. Cardinality(1..n) = n
    BY <1>1, FS_Interval
  <2> QED BY <1>3, <2>1, <2>2, <2>3
<1>5. CASE code = 0
  <2>1. answer' = "open" /\ Passes(tests[n]) /\ tests[n].type # "metrics_recompute"
    BY <1>1, <1>5 DEF TestAnswer
  <2>2. \A i \in 1..n : Passes(tests[i]) /\ tests[i].type # "metrics_recompute"
    BY <1>1, <2>1 DEF VerdictInv
  <2>3. VerdictRestsOnTests'
    BY <1>4, <2>1 DEF VerdictRestsOnTests
  <2> QED BY <1>1, <1>2, <1>3, <2>1, <2>2, <2>3 DEF VerdictInv, ResultRows, Passes
<1>6. CASE code # 0
  <2>1. answer' = "fail" /\ ~Passes(tests'[n])
    BY <1>1, <1>6 DEF TestAnswer, Passes
  <2>2. VerdictRestsOnTests'
    BY <1>1, <1>4, <2>1 DEF VerdictRestsOnTests, Passes
  <2> QED BY <1>1, <1>2, <2>1, <2>2 DEF VerdictInv
<1> QED BY <1>5, <1>6

LEMMA VerdictInvStep == VerdictInv /\ [VerifierNext]_verifierVars => VerdictInv'
<1> SUFFICES ASSUME VerdictInv, [VerifierNext]_verifierVars PROVE VerdictInv'
  OBVIOUS
<1>0. /\ tests \in Seq(Test) /\ testsRun \in Nat /\ Len(tests) \in Nat /\ testsRun <= Len(tests)
      /\ verifyRows \in Seq(VerifyRow)
  BY DEF VerdictInv
<1>1. ASSUME NEW t \in Test, WriteTest(t) PROVE VerdictInv'
  <2>1. /\ answer = "none" /\ tests' = Append(tests, t) /\ answer' = answer
        /\ testsRun' = 0 /\ verifyRows' = <<>>
        /\ t.type = "file_exists" => t.found \in {"missing", "good"}
    BY <1>1 DEF WriteTest, VerdictInv
  <2>2. /\ tests' \in Seq(Test) /\ 0 \in 0..Len(tests')
        /\ \A i \in DOMAIN tests' :
             tests'[i].type = "file_exists" => tests'[i].found \in {"missing", "good"}
    BY <1>0, <2>1 DEF VerdictInv
  <2>3. VerdictRestsOnTests'
    BY <2>1 DEF VerdictRestsOnTests
  <2> QED BY <2>1, <2>2, <2>3 DEF VerdictInv
<1>2. CASE BeginVerify
  <2>1. /\ answer = "none" /\ testsRun = 0 /\ verifyRows = <<>>
        /\ UNCHANGED <<tests, evidentiary, testsRun>>
    BY <1>2 DEF BeginVerify, VerdictInv
  <2>2. CASE answer' = "open"
    <3>1. verifyRows' = <<>>
      BY <1>2, <2>1, <2>2 DEF BeginVerify
    <3>2. VerdictRestsOnTests'
      BY <2>2, <3>1 DEF VerdictRestsOnTests
    <3> QED BY <2>1, <2>2, <3>1, <3>2 DEF VerdictInv, ResultRows
  <2>3. CASE answer' = "waiver"
    <3>1. Log(<<LogRow("VERIFICATION_BYPASS", 0)>>) /\ ~evidentiary
      BY <1>2, <2>3 DEF BeginVerify
    <3>2. /\ verifyRows' \in Seq(VerifyRow) /\ Len(verifyRows') = 1
          /\ verifyRows'[1].event = "VERIFICATION_BYPASS"
      BY <1>0, <2>1, <3>1, OneRow DEF VerifyEvent
    <3>3. VerdictRestsOnTests'
      BY <2>1, <2>3, <3>1, <3>2 DEF VerdictRestsOnTests
    <3> QED BY <2>1, <2>3, <3>2, <3>3 DEF VerdictInv
  <2>4. CASE answer' = "pass"
    <3>1. Log(<<LogRow("VERIFICATION_PASS", 0)>>) /\ tests = <<>>
      BY <1>2, <2>4 DEF BeginVerify
    <3>2. /\ verifyRows' \in Seq(VerifyRow) /\ Len(verifyRows') = 1
          /\ verifyRows'[1].event = "VERIFICATION_PASS"
      BY <1>0, <2>1, <3>1, OneRow DEF VerifyEvent
    <3>3. {i \in DOMAIN verifyRows' : verifyRows'[i].event = "ACCEPTANCE_RESULT"} = {}
      BY <3>2
    <3>4. Cardinality({i \in DOMAIN verifyRows' : verifyRows'[i].event = "ACCEPTANCE_RESULT"}) = 0
      BY <3>3, FS_EmptySet
    <3>5. /\ testsRun' = 0 /\ tests' = <<>> /\ Len(tests') = 0
          /\ {i \in DOMAIN tests' : tests'[i].type = "metrics_recompute"} = {}
          /\ \E i \in DOMAIN verifyRows' : verifyRows'[i].event = "VERIFICATION_PASS"
      BY <2>1, <3>1, <3>2
    <3>6. VerdictRestsOnTests'
      BY <2>4, <3>4, <3>5 DEF VerdictRestsOnTests
    <3> QED BY <2>1, <2>4, <3>2, <3>6 DEF VerdictInv
  <2> QED BY <1>2, <2>2, <2>3, <2>4 DEF BeginVerify
<1>3. CASE SchemaError
  BY <1>3, TestAnswered DEF SchemaError, Passes
<1>4. CASE FileExists
  <2>1. /\ TryNext(TestType) /\ Current.complete /\ Current.type = "file_exists"
        /\ Current.found \in {"missing", "good"}
        /\ TestAnswer(IF Current.found = "missing" THEN 1 ELSE 0)
    BY <1>0, <1>4 DEF FileExists, TryNext, TestType, Current, VerdictInv
  <2>2. CASE Current.found = "missing"
    BY <2>1, <2>2, TestAnswered DEF Passes
  <2>3. CASE Current.found = "good"
    BY <2>1, <2>3, TestAnswered DEF Passes
  <2> QED BY <2>1, <2>2, <2>3
<1>5. CASE NumericRange \/ CommandTest
  <2>1. /\ TryNext(TestType) /\ Current.complete /\ Current.type # "metrics_recompute"
        /\ TestAnswer(IF Current.found = "good" THEN 0 ELSE 1)
    BY <1>5 DEF NumericRange, CommandTest, TryNext, TestType, Current
  <2>2. CASE Current.found # "good"
    BY <2>1, <2>2, TestAnswered DEF Passes
  <2>3. CASE Current.found = "good"
    BY <2>1, <2>3, TestAnswered DEF Passes
  <2> QED BY <2>2, <2>3
<1>6. CASE MetricsRecompute
  <2>1. TryNext(TestType) /\ Current.complete /\ Current.type = "metrics_recompute"
    BY <1>6 DEF MetricsRecompute, TryNext, TestType, Current
  <2>2. CASE Current.found # "good"
    BY <1>6, <2>1, <2>2, TestAnswered DEF MetricsRecompute, Passes
  <2>3. CASE Current.found = "good"
    <3> DEFINE n == testsRun + 1
    <3>1. /\ n \in 1..Len(tests) /\ testsRun' = n /\ tests' = tests
          /\ answer = "open" /\ Current = tests[n] /\ answer' = "pass"
          /\ Log(<<LogRow("ACCEPTANCE_RESULT", 0)>>)
      BY <1>0, <1>6, <2>1, <2>3 DEF VerdictInv, TryNext, Current, MetricsRecompute
    <3>2. /\ verifyRows' \in Seq(VerifyRow)
          /\ Len(verifyRows') = n
          /\ \A i \in 1..n : verifyRows'[i].event = "ACCEPTANCE_RESULT"
      <4>1. /\ verifyRows' \in Seq(VerifyRow)
            /\ Len(verifyRows') = Len(verifyRows) + 1
            /\ \A i \in 1..Len(verifyRows) : verifyRows'[i] = verifyRows[i]
            /\ verifyRows'[Len(verifyRows) + 1].event = "ACCEPTANCE_RESULT"
        BY <1>0, <3>1, OneRow DEF VerifyEvent
      <4>2. Len(verifyRows) = testsRun /\ \A i \in 1..testsRun : verifyRows[i].event = "ACCEPTANCE_RESULT"
        BY <3>1 DEF VerdictInv, ResultRows
      <4> QED BY <1>0, <4>1, <4>2
    <3>3. Cardinality({i \in DOMAIN verifyRows' : verifyRows'[i].event = "ACCEPTANCE_RESULT"}) = n
      <4>1. {i \in DOMAIN verifyRows' : verifyRows'[i].event = "ACCEPTANCE_RESULT"} = 1..n
        BY <3>2
      <4>2. Cardinality(1..n) = n
        BY <1>0, FS_Interval
      <4> QED BY <4>1, <4>2
    <3>4. /\ \A i \in 1..n : Passes(tests'[i])
          /\ n \in {i \in DOMAIN tests' : tests'[i].type = "metrics_recompute"}
          /\ \A i \in DOMAIN tests' : tests'[i].type = "metrics_recompute" => n <= i
      BY <1>0, <2>1, <2>3, <3>1 DEF VerdictInv, Passes
    <3>5. ~ \E i \in DOMAIN verifyRows' : verifyRows'[i].event = "VERIFICATION_PASS"
      BY <3>2
    <3>6. VerdictRestsOnTests'
      BY <3>1, <3>3, <3>4, <3>5 DEF VerdictRestsOnTests, Passes
    <3> QED BY <1>0, <3>1, <3>2, <3>6 DEF VerdictInv
  <2> QED BY <2>2, <2>3
<1>7. CASE EndVerify
  <2> DEFINE n == testsRun
  <2>1. /\ n = Len(tests) /\ testsRun' = n /\ tests' = tests /\ answer = "open" /\ answer' = "pass"
        /\ Log(<<LogRow("VERIFICATION_PASS", n)>>) /\ ResultRows(n)
        /\ \A i \in 1..n : Passes(tests[i]) /\ tests[i].type # "metrics_recompute"
    BY <1>7 DEF EndVerify, VerdictInv
  <2>2. /\ verifyRows' \in Seq(VerifyRow)
        /\ Len(verifyRows') = n + 1
        /\ \A i \in 1..n : verifyRows'[i].event = "ACCEPTANCE_RESULT"
        /\ verifyRows'[n + 1].event = "VERIFICATION_PASS"
    BY <1>0, <2>1, OneRow DEF ResultRows, VerifyEvent
  <2>3. Cardinality({i \in DOMAIN verifyRows' : verifyRows'[i].event = "ACCEPTANCE_RESULT"}) = n
    <3>1. {i \in DOMAIN verifyRows' : verifyRows'[i].event = "ACCEPTANCE_RESULT"} = 1..n
      BY <1>0, <2>2
    <3>2. Cardinality(1..n) = n
      BY <1>0, FS_Interval
    <3> QED BY <3>1, <3>2
  <2>4. /\ \A i \in 1..n : Passes(tests'[i])
        /\ {i \in DOMAIN tests' : tests'[i].type = "metrics_recompute"} = {}
        /\ \E i \in DOMAIN verifyRows' : verifyRows'[i].event = "VERIFICATION_PASS"
    BY <1>0, <2>1, <2>2 DEF Passes
  <2>5. VerdictRestsOnTests'
    BY <2>1, <2>3, <2>4 DEF VerdictRestsOnTests, Passes
  <2> QED BY <1>0, <2>1, <2>2, <2>5 DEF VerdictInv
<1>8. ASSUME NEW n \in {testsRun, testsRun + 1}, n <= Len(tests), testsRun' = n, tests' = tests, Breaks,
             \A i \in DOMAIN verifyRows : verifyRows[i].event = "ACCEPTANCE_RESULT"
      PROVE  VerdictInv'
  <2>1. CASE answer' = "fail" /\ Log(<<LogRow("VERIFICATION_ERROR", 1)>>)
    <3>1. /\ verifyRows' \in Seq(VerifyRow)
          /\ Len(verifyRows') = Len(verifyRows) + 1
          /\ \A i \in 1..Len(verifyRows) : verifyRows'[i] = verifyRows[i]
          /\ verifyRows'[Len(verifyRows) + 1].event = "VERIFICATION_ERROR"
      BY <1>0, <2>1, OneRow DEF VerifyEvent
    <3>2. \A i \in DOMAIN verifyRows' :
            verifyRows'[i].event \in {"ACCEPTANCE_RESULT", "VERIFICATION_ERROR"}
      BY <1>0, <1>8, <3>1
    <3>3. \E i \in DOMAIN verifyRows' : verifyRows'[i].event = "VERIFICATION_ERROR"
      BY <1>0, <3>1
    <3>4. VerdictRestsOnTests'
      BY <2>1, <3>2, <3>3 DEF VerdictRestsOnTests
    <3> QED BY <1>0, <1>8, <2>1, <3>1, <3>4 DEF VerdictInv
  <2>2. CASE answer' = "raised" /\ UNCHANGED verifyRows
    <3>1. VerdictRestsOnTests'
      BY <1>8, <2>2 DEF VerdictRestsOnTests
    <3> QED BY <1>0, <1>8, <2>2, <3>1 DEF VerdictInv
  <2> QED BY <1>8, <2>1, <2>2 DEF Breaks
<1>11. CASE Crash
  <2>1. /\ testsRun + 1 <= Len(tests) /\ testsRun' = testsRun + 1 /\ tests' = tests /\ Breaks
        /\ ResultRows(testsRun)
    BY <1>0, <1>11 DEF VerdictInv, TryNext, Crash
  <2>2. \A i \in DOMAIN verifyRows : verifyRows[i].event = "ACCEPTANCE_RESULT"
    BY <1>0, <2>1 DEF ResultRows
  <2> QED BY <1>8, <2>1, <2>2
<1>12. CASE CrashAround
  <2>1. testsRun' = testsRun /\ tests' = tests /\ Breaks
    BY <1>12 DEF CrashAround
  <2>2. \A i \in DOMAIN verifyRows : verifyRows[i].event = "ACCEPTANCE_RESULT"
    BY <1>0, <1>12 DEF CrashAround, VerdictInv, ResultRows
  <2> QED BY <1>0, <1>8, <2>1, <2>2
<1>9. CASE VerifierSelfTest
  <2> DEFINE t == [type |-> "file_exists", complete |-> TRUE, found |-> "good"]
  <2>1. t \in Test /\ t.type = "file_exists" /\ t.found = "good"
    BY DEF Test, TestType, Found
  <2> HIDE DEF t
  <2>2. /\ answer = "none" /\ tests' = <<t>> /\ answer' = "open" /\ testsRun' = 0 /\ verifyRows' = <<>>
    BY <1>9 DEF VerifierSelfTest, VerdictInv, t
  <2>3. VerdictRestsOnTests'
    BY <2>2 DEF VerdictRestsOnTests
  <2> QED BY <2>1, <2>2, <2>3 DEF VerdictInv, ResultRows
<1>10. CASE UNCHANGED verifierVars
  BY <1>10 DEF VerdictInv, VerdictRestsOnTests, verifierVars, ResultRows
<1> QED BY <1>1, <1>2, <1>3, <1>4, <1>5, <1>6, <1>7, <1>9, <1>10, <1>11, <1>12 DEF VerifierNext

\* The verdict of verify and the rows it leaves agree with the tests it ran, for any list of
\* tests, whatever breaks under them.
THEOREM VerdictAlwaysRests == VerifierSpec => []VerdictRestsOnTests
<1>1. VerdictInv => VerdictRestsOnTests
  BY DEF VerdictInv
<1> QED BY <1>1, VerdictInvInit, VerdictInvStep, PTL DEF VerifierSpec

-----------------------------------------------------------------------------
(* Evidence: the index and the directories of the runs in it *)

RunId == 1..LastSecond
FileIs == {"absent", "whole"} \cup Torn
CreatedAt == {"created", "update", "fill update", "updated", "fill metrics", "measured"}
IndexAt == {"empty index", "fill index"}
EvidenceAt == {"idle", "create", "fill manifest", "command", "read index", "raised", "killed"} \cup IndexAt \cup CreatedAt
ManifestRow == [is : FileIs, task : EvidenceTask \cup {"none"}, status : {"none", "RUNNING", "COMPLETE", "FAILED"}]
DirRow == [manifest : ManifestRow, command : {"absent", "whole"}, metrics : {"absent", "empty", "whole"}]
Entries == UNION {[D -> EvidenceTask] : D \in SUBSET RunId}
WorkerRow == [at : EvidenceAt, task : EvidenceTask \cup {"none"}, run : RunId \cup {0}, seen : Entries,
              read : ManifestRow, cut : EvidenceAt \cup {"none"}]

EvidenceTyped ==
  /\ now \in RunId /\ now # EarlierRun
  /\ runDir \in [RunId -> DirRow]
  /\ index \in [is : FileIs, runs : Entries]
  /\ worker \in [Worker -> WorkerRow] /\ beside \in SUBSET Worker

\* Whoever has begun has a task and a run, which is not the one from before; and what he
\* read could be read.
Begun ==
  \A w \in Worker :
    /\ worker[w].run # EarlierRun
    /\ worker[w].at = "idle" <=> worker[w].run = 0
    /\ worker[w].at \notin {"idle", "raised", "killed"} => worker[w].task \in EvidenceTask
    /\ worker[w].read.is \notin Torn

\* The index is empty only while it is filled or after a kill, a mixture only after two were
\* at it; and those are known.
IndexInv ==
  /\ index.is = "empty" => \E w \in Worker : CutAt(w, {"fill index"})
  /\ index.is = "mixed" => beside # {}
  /\ \A w \in Worker : worker[w].at = "fill index" /\ index.is # "empty" => w \in beside
  /\ \A v, w \in Worker : v # w /\ worker[v].at \in IndexAt /\ worker[w].at \in IndexAt => v \in beside

\* Likewise the manifest of a run.
ManifestOf(r) ==
  /\ runDir[r].manifest.is = "empty" =>
       \E w \in Worker : worker[w].run = r /\ CutAt(w, {"fill manifest", "fill update"})
  /\ runDir[r].manifest.is = "mixed" => \E w \in Worker : worker[w].run = r /\ Shared(w)

\* What create_run has returned is in the index, and in every index about to be written.
Entered(entries, v) == worker[v].run \in DOMAIN entries /\ entries[worker[v].run] = worker[v].task
RunRecorded(v) ==
  v \notin beside /\ worker[v].at \in CreatedAt /\ ~Shared(v) =>
    /\ index.is \notin Torn => Entered(index.runs, v)
    /\ \A w \in Worker : worker[w].at \in IndexAt => Entered(worker[w].seen, v)

\* The run from before as well.
Kept(entries) == EarlierRun \in DOMAIN entries /\ entries[EarlierRun] = "train"
EarlierKept ==
  runDir[EarlierRun] = EarlierDir =>
    /\ index.is \notin Torn => Kept(index.runs)
    /\ \A w \in Worker : worker[w].at \in IndexAt => Kept(worker[w].seen)

\* The directory of a worker alone in its second is as far as the worker is.
InOrder(w) ==
  LET step == worker[w].at
      dir  == runDir[worker[w].run]
  IN  /\ step \in {"fill manifest", "fill update"} => dir.manifest.is = "empty"
      /\ step \in {"command", "read index"} \cup IndexAt \cup (CreatedAt \ {"fill update"}) => dir.manifest.is = "whole"
      /\ step \in {"read index"} \cup IndexAt \cup CreatedAt => dir.command = "whole"
      /\ step \in CreatedAt \ {"created"} => worker[w].read.is = "whole"
      /\ step \in {"updated", "fill metrics", "measured"} => dir.manifest = worker[w].read
      /\ step = "measured" => dir.metrics = "whole"

EvidenceInv ==
  /\ EvidenceTyped /\ Begun /\ IndexInv /\ EarlierKept
  /\ \A r \in RunId : ManifestOf(r)
  /\ \A w \in Worker : RunRecorded(w) /\ (~Shared(w) => InOrder(w))

LEMMA NothingTyped ==
  /\ NoManifest \in ManifestRow /\ NoDir \in DirRow /\ EarlierDir \in DirRow
  /\ NoEntries \in Entries /\ Off \in WorkerRow /\ EarlierRun \in RunId
  /\ [r \in {EarlierRun} |-> "train"] \in Entries
<1>1. NoManifest \in ManifestRow
  BY DEF NoManifest, ManifestRow, FileIs
<1>2. EarlierRun \in RunId
  BY EvidenceAssumption DEF EarlierRun, RunId
<1>3. NoEntries \in Entries
  <2>1. NoEntries \in [{} -> EvidenceTask] /\ {} \in SUBSET RunId
    BY DEF NoEntries
  <2> QED BY <2>1 DEF Entries
<1>4. [r \in {EarlierRun} |-> "train"] \in Entries
  <2>1. [r \in {EarlierRun} |-> "train"] \in [{EarlierRun} -> EvidenceTask] /\ {EarlierRun} \in SUBSET RunId
    BY <1>2 DEF EvidenceTask
  <2> QED BY <2>1 DEF Entries
<1>5. NoDir \in DirRow /\ EarlierDir \in DirRow
  BY <1>1 DEF NoDir, EarlierDir, DirRow, ManifestRow, FileIs, EvidenceTask
<1>6. Off \in WorkerRow
  BY <1>1, <1>3 DEF Off, WorkerRow, EvidenceAt
<1> QED BY <1>1, <1>2, <1>3, <1>4, <1>5, <1>6

\* One more entry.
LEMMA EntriesWith ==
  ASSUME NEW runs \in Entries, NEW r \in RunId, NEW t \in EvidenceTask
  PROVE  /\ WithRunIn(runs, r, t) \in Entries
         /\ DOMAIN WithRunIn(runs, r, t) = DOMAIN runs \cup {r}
         /\ WithRunIn(runs, r, t)[r] = t
         /\ \A s \in DOMAIN runs : s # r => WithRunIn(runs, r, t)[s] = runs[s]
<1>1. PICK D \in SUBSET RunId : runs \in [D -> EvidenceTask]
  BY DEF Entries
<1>2. DOMAIN runs = D
  BY <1>1
<1>3. WithRunIn(runs, r, t) \in [D \cup {r} -> EvidenceTask]
  BY <1>1, <1>2 DEF WithRunIn
<1>4. D \cup {r} \in SUBSET RunId
  OBVIOUS
<1>5. WithRunIn(runs, r, t) \in Entries
  BY <1>3, <1>4 DEF Entries
<1> QED BY <1>2, <1>5 DEF WithRunIn

LEMMA EvidenceInvInit == EvidenceInit => EvidenceInv
<1> SUFFICES ASSUME EvidenceInit PROVE EvidenceInv
  OBVIOUS
<1>1. \A w \in Worker : worker[w].at = "idle" /\ worker[w].run = 0 /\ worker[w].read.is \notin Torn
  BY DEF EvidenceInit, Off, NoManifest, Torn
<1>2. now \in RunId /\ now # EarlierRun /\ beside = {} /\ EarlierRun # 0
  BY EvidenceAssumption DEF EvidenceInit, RunId, EarlierRun
<1>3. worker \in [Worker -> WorkerRow]
  BY NothingTyped DEF EvidenceInit
<1>4. runDir \in [RunId -> DirRow] /\ \A r \in RunId : runDir[r] \in {NoDir, EarlierDir}
  BY NothingTyped DEF EvidenceInit, RunId
<1>5. NoDir.manifest.is = "absent" /\ EarlierDir.manifest.is = "whole"
  BY DEF NoDir, EarlierDir, NoManifest
<1>6. index \in [is : FileIs, runs : Entries] /\ index.is \in {"absent", "whole"}
  <2>1. CASE index = [is |-> "absent", runs |-> NoEntries]
    BY <2>1, NothingTyped DEF FileIs
  <2>2. CASE index = [is |-> "whole", runs |-> [r \in {EarlierRun} |-> "train"]]
    <3> DEFINE e == [r \in {EarlierRun} |-> "train"]
    <3>1. e \in Entries /\ index = [is |-> "whole", runs |-> e]
      BY <2>2, NothingTyped
    <3> HIDE DEF e
    <3> QED BY <3>1 DEF FileIs
  <2> QED BY <2>1, <2>2 DEF EvidenceInit
<1>7. EarlierKept
  <2> SUFFICES ASSUME runDir[EarlierRun] = EarlierDir PROVE EarlierKept
    BY DEF EarlierKept
  <2>1. NoDir # EarlierDir
    BY DEF NoDir, EarlierDir
  <2>2. index = [is |-> "whole", runs |-> [r \in {EarlierRun} |-> "train"]]
    BY <2>1, NothingTyped DEF EvidenceInit, RunId
  <2> QED BY <1>1, <2>2 DEF EarlierKept, Kept, IndexAt
<1>8. \A r \in RunId : ManifestOf(r)
  <2>1. \A r \in RunId : runDir[r].manifest.is \in {"absent", "whole"}
    BY <1>4, <1>5
  <2> QED BY <2>1 DEF ManifestOf
<1> QED
  BY <1>1, <1>2, <1>3, <1>4, <1>6, <1>7, <1>8
  DEF EvidenceInv, EvidenceTyped, Begun, IndexInv, RunRecorded, InOrder, CreatedAt, IndexAt

\* The fields of a worker after a step of its own, and the others.
LEMMA OneWorker ==
  ASSUME EvidenceTyped, NEW w \in Worker, NEW row \in WorkerRow, worker' = [worker EXCEPT ![w] = row]
  PROVE  /\ worker' \in [Worker -> WorkerRow] /\ worker'[w] = row
         /\ \A v \in Worker : v # w => worker'[v] = worker[v]
BY DEF EvidenceTyped

\* Which runs are shared changes only with the runs.
LEMMA SharedSame ==
  ASSUME \A v \in Worker : worker'[v].run = worker[v].run
  PROVE  \A v \in Worker : Shared(v)' <=> Shared(v)
BY DEF Shared

\* The directories of the others are theirs.
LEMMA OthersInOrder ==
  ASSUME EvidenceInv, NEW w \in Worker,
         \A v \in Worker : v # w => worker'[v] = worker[v],
         \A r \in RunId : r # worker[w].run => runDir'[r] = runDir[r],
         worker'[w].run = worker[w].run
  PROVE  \A v \in Worker : v # w /\ ~Shared(v)' => InOrder(v)'
<1> SUFFICES ASSUME NEW v \in Worker, v # w, ~Shared(v)' PROVE InOrder(v)'
  OBVIOUS
<1>1. worker'[v] = worker[v] /\ worker[v].run # worker[w].run /\ worker[v] \in WorkerRow
  BY DEF Shared, EvidenceInv, EvidenceTyped
<1>2. \A u \in Worker : worker'[u].run = worker[u].run
  OBVIOUS
<1>3. InOrder(v)
  BY <1>2, SharedSame DEF EvidenceInv
<1>4. CASE worker[v].run = 0
  <2>1. worker[v].at = "idle"
    BY <1>4 DEF EvidenceInv, Begun
  <2> QED BY <1>1, <2>1 DEF InOrder, CreatedAt, IndexAt
<1>5. CASE worker[v].run # 0
  <2>1. runDir'[worker[v].run] = runDir[worker[v].run]
    BY <1>1, <1>5 DEF WorkerRow
  <2> QED BY <1>1, <1>3, <2>1 DEF InOrder
<1> QED BY <1>4, <1>5

\* A worker goes on, is refused or is killed, and leaves the index alone; in its own
\* directory everything is in place.
LEMMA WorkerGoesOn ==
  ASSUME EvidenceInv, NEW w \in Worker, NEW row \in WorkerRow, worker' = [worker EXCEPT ![w] = row],
         row.run = worker[w].run, row.run # 0, row.at # "idle", row.read.is \notin Torn,
         row.at \notin {"raised", "killed"} => row.task \in EvidenceTask,
         UNCHANGED <<now, index, beside>>, row.at \notin IndexAt, worker[w].at # "killed",
         row.at \in CreatedAt => worker[w].at \in CreatedAt /\ row.task = worker[w].task,
         runDir' \in [RunId -> DirRow], \A r \in RunId : r # row.run => runDir'[r] = runDir[r],
         worker[w].at = "fill index" => row.at = "killed" /\ row.cut = "fill index",
         ManifestOf(row.run)', ~Shared(w) => InOrder(w)'
  PROVE  EvidenceInv'
<1>1. /\ worker' \in [Worker -> WorkerRow] /\ worker'[w] = row
      /\ \A v \in Worker : v # w => worker'[v] = worker[v]
  BY OneWorker DEF EvidenceInv
<1>2. EvidenceTyped'
  BY <1>1 DEF EvidenceInv, EvidenceTyped
<1>3. Begun'
  BY <1>1 DEF EvidenceInv, Begun
<1>4. \A v \in Worker : worker'[v].run = worker[v].run
  BY <1>1
<1>5. \A v \in Worker : Shared(v)' <=> Shared(v)
  BY <1>4, SharedSame
<1>6. \A v \in Worker : /\ worker'[v].at \in IndexAt => worker'[v] = worker[v]
                        /\ worker'[v].at \in CreatedAt => worker[v].at \in CreatedAt /\ worker'[v].task = worker[v].task
  BY <1>1
<1>7. IndexInv'
  <2>1. \A v \in Worker : CutAt(v, {"fill index"}) => CutAt(v, {"fill index"})'
    BY <1>1 DEF CutAt
  <2>2. \A v \in Worker : worker'[v].at = "fill index" => worker[v].at = "fill index"
    BY <1>6 DEF IndexAt
  <2>3. index' = index /\ beside' = beside /\ IndexInv
    BY DEF EvidenceInv
  <2> QED BY <1>6, <2>1, <2>2, <2>3 DEF IndexInv
<1>8. \A r \in RunId : ManifestOf(r)'
  <2> SUFFICES ASSUME NEW r \in RunId, r # row.run PROVE ManifestOf(r)'
    OBVIOUS
  <2>1. ManifestOf(r) /\ runDir'[r] = runDir[r]
    BY DEF EvidenceInv
  <2>2. \A v \in Worker : worker[v].run = r => worker'[v] = worker[v]
    BY <1>1
  <2> QED BY <1>4, <1>5, <2>1, <2>2 DEF ManifestOf, CutAt
<1>9. \A v \in Worker : RunRecorded(v)'
  <2> TAKE v \in Worker
  <2>1. RunRecorded(v) /\ index' = index /\ beside' = beside
    BY DEF EvidenceInv
  <2> QED BY <1>4, <1>5, <1>6, <2>1 DEF RunRecorded, Entered
<1>10. EarlierKept'
  <2>1. EarlierRun \in RunId /\ EarlierRun # row.run /\ EarlierKept
    BY NothingTyped DEF EvidenceInv, Begun
  <2>2. runDir'[EarlierRun] = runDir[EarlierRun] /\ index' = index
    BY <2>1
  <2> QED BY <1>6, <2>1, <2>2 DEF EarlierKept
<1>11. \A v \in Worker : ~Shared(v)' => InOrder(v)'
  <2>1. \A v \in Worker : v # w /\ ~Shared(v)' => InOrder(v)'
    BY <1>1, OthersInOrder
  <2> QED BY <1>5, <2>1
<1> QED BY <1>2, <1>3, <1>7, <1>8, <1>9, <1>10, <1>11 DEF EvidenceInv

\* A file of the worker's directory is written.
LEMMA DirWritten ==
  ASSUME EvidenceTyped, NEW w \in Worker, worker[w].run # 0, NEW field, NEW value, InDir(w, field, value),
         \/ field = "manifest" /\ value \in ManifestRow
         \/ field = "command" /\ value \in {"absent", "whole"}
         \/ field = "metrics" /\ value \in {"absent", "empty", "whole"}
  PROVE  /\ runDir' \in [RunId -> DirRow] /\ UNCHANGED <<now, index, beside>>
         /\ \A r \in RunId : r # worker[w].run => runDir'[r] = runDir[r]
         /\ runDir'[worker[w].run].manifest = IF field = "manifest" THEN value ELSE runDir[worker[w].run].manifest
         /\ runDir'[worker[w].run].command = IF field = "command" THEN value ELSE runDir[worker[w].run].command
         /\ runDir'[worker[w].run].metrics = IF field = "metrics" THEN value ELSE runDir[worker[w].run].metrics
<1> DEFINE r == worker[w].run
           d == [runDir[r] EXCEPT ![field] = value]
<1>1. r \in RunId /\ runDir[r] \in DirRow
  BY DEF EvidenceTyped, WorkerRow
<1>2. /\ d \in DirRow
      /\ d.manifest = IF field = "manifest" THEN value ELSE runDir[r].manifest
      /\ d.command = IF field = "command" THEN value ELSE runDir[r].command
      /\ d.metrics = IF field = "metrics" THEN value ELSE runDir[r].metrics
  <2>1. CASE field = "manifest" /\ value \in ManifestRow
    BY <1>1, <2>1 DEF DirRow
  <2>2. CASE field = "command" /\ value \in {"absent", "whole"}
    BY <1>1, <2>2 DEF DirRow
  <2>3. CASE field = "metrics" /\ value \in {"absent", "empty", "whole"}
    BY <1>1, <2>3 DEF DirRow
  <2> QED BY <2>1, <2>2, <2>3
<1>3. runDir' = [runDir EXCEPT ![r] = d] /\ UNCHANGED <<now, index, beside>>
  BY DEF InDir
<1> HIDE DEF d
<1> QED BY <1>1, <1>2, <1>3 DEF EvidenceTyped

\* A worker's row with another step.
LEMMA StepTaken ==
  ASSUME EvidenceTyped, NEW w \in Worker, NEW step \in EvidenceAt, Proceed(w, step)
  PROVE  \E row \in WorkerRow :
           /\ worker' = [worker EXCEPT ![w] = row]
           /\ row.at = step /\ row.run = worker[w].run /\ row.task = worker[w].task
           /\ row.seen = worker[w].seen /\ row.read = worker[w].read
<1> DEFINE row == [worker[w] EXCEPT !.at = step]
<1>1. worker[w] \in WorkerRow
  BY DEF EvidenceTyped
<1>2. /\ row \in WorkerRow /\ row.at = step /\ row.run = worker[w].run /\ row.task = worker[w].task
      /\ row.seen = worker[w].seen /\ row.read = worker[w].read
  BY <1>1 DEF WorkerRow
<1>3. worker' = [worker EXCEPT ![w] = row]
  BY DEF Proceed
<1> HIDE DEF row
<1> QED BY <1>2, <1>3

\* The row a worker leaves.
LEMMA LeftRow ==
  ASSUME EvidenceTyped, NEW w \in Worker, NEW how \in {"raised", "killed"}, Left(w, how)
  PROVE  \E row \in WorkerRow :
           /\ worker' = [worker EXCEPT ![w] = row]
           /\ row.at = how /\ row.run = worker[w].run /\ row.cut = worker[w].at /\ row.read.is \notin Torn
<1> DEFINE row == [Off EXCEPT !.at = how, !.run = worker[w].run, !.cut = worker[w].at]
<1>1. Off \in WorkerRow /\ worker[w].run \in RunId \cup {0} /\ worker[w].at \in EvidenceAt
  BY NothingTyped DEF EvidenceTyped, WorkerRow
<1>2. row \in WorkerRow /\ row.at = how /\ row.run = worker[w].run /\ row.cut = worker[w].at
  BY <1>1 DEF WorkerRow, EvidenceAt
<1>4. row.read.is \notin Torn
  BY DEF Off, NoManifest, Torn
<1>3. worker' = [worker EXCEPT ![w] = row]
  BY DEF Left
<1> HIDE DEF row
<1> QED BY <1>2, <1>3, <1>4

\* What is known of a worker that has begun.
LEMMA AtWork ==
  ASSUME EvidenceInv, NEW w \in Worker, worker[w].at \notin {"idle", "raised", "killed"}
  PROVE  /\ EvidenceTyped /\ worker[w] \in WorkerRow /\ worker[w].run \in RunId /\ worker[w].run # 0
         /\ worker[w].read.is \notin Torn
         /\ worker[w].task \in EvidenceTask /\ runDir[worker[w].run] \in DirRow
         /\ runDir[worker[w].run].manifest \in ManifestRow
         /\ ManifestOf(worker[w].run) /\ (~Shared(w) => InOrder(w))
<1>1. /\ EvidenceTyped /\ worker[w] \in WorkerRow /\ worker[w].run # 0 /\ worker[w].task \in EvidenceTask
      /\ worker[w].read.is \notin Torn
  BY DEF EvidenceInv, EvidenceTyped, Begun
<1>2. worker[w].run \in RunId
  BY <1>1 DEF WorkerRow
<1>3. runDir[worker[w].run] \in DirRow
  BY <1>1, <1>2 DEF EvidenceTyped
<1> QED BY <1>1, <1>2, <1>3 DEF EvidenceInv, DirRow

\* A worker of a run stays one.
LEMMA RunsStay ==
  ASSUME EvidenceTyped, NEW w \in Worker, NEW row \in WorkerRow, worker' = [worker EXCEPT ![w] = row],
         row.run = worker[w].run
  PROVE  /\ \A v \in Worker : worker'[v].run = worker[v].run /\ (Shared(v)' <=> Shared(v))
         /\ \A v \in Worker : v # w => \A steps : CutAt(v, steps)' <=> CutAt(v, steps)
<1>1. worker'[w] = row /\ \A v \in Worker : v # w => worker'[v] = worker[v]
  BY OneWorker
<1>2. \A v \in Worker : worker'[v].run = worker[v].run
  BY <1>1
<1> QED BY <1>1, <1>2, SharedSame DEF CutAt

\* write_run_manifest and update_run_manifest open the manifest.
LEMMA EmptiesManifest ==
  ASSUME EvidenceInv, NEW w \in Worker, EmptyManifest(w) \/ EmptyForUpdate(w)
  PROVE  EvidenceInv'
<1> DEFINE none == [NoManifest EXCEPT !.is = "empty"]
           to == IF EmptyManifest(w) THEN "fill manifest" ELSE "fill update"
<1>1. none \in ManifestRow /\ none.is = "empty"
  BY DEF NoManifest, ManifestRow, FileIs, Torn
<1> HIDE DEF none
<1>2. /\ to \in {"fill manifest", "fill update"} /\ to \in EvidenceAt /\ Proceed(w, to) /\ InDir(w, "manifest", none)
      /\ to = "fill update" => worker[w].at = "update"
      /\ worker[w].at \in {"create", "update"}
  BY DEF EmptyManifest, EmptyForUpdate, none, Doing, EvidenceAt, CreatedAt
<1> HIDE DEF to
<1>3. /\ EvidenceTyped /\ worker[w].run \in RunId /\ worker[w].run # 0 /\ worker[w].task \in EvidenceTask
      /\ ~Shared(w) => InOrder(w)
  BY <1>2, AtWork
<1>4. PICK row \in WorkerRow :
        /\ worker' = [worker EXCEPT ![w] = row]
        /\ row.at = to /\ row.run = worker[w].run /\ row.task = worker[w].task
        /\ row.seen = worker[w].seen /\ row.read = worker[w].read
  BY <1>2, <1>3, StepTaken
<1>5. /\ runDir' \in [RunId -> DirRow] /\ UNCHANGED <<now, index, beside>> /\ worker[w].read.is \notin Torn
      /\ \A r \in RunId : r # worker[w].run => runDir'[r] = runDir[r]
      /\ runDir'[worker[w].run].manifest = none /\ runDir'[worker[w].run].command = runDir[worker[w].run].command
  BY <1>1, <1>2, <1>3, DirWritten, AtWork
<1>6. worker'[w] = row
  BY <1>3, <1>4, OneWorker
<1>7. ManifestOf(row.run)'
  BY <1>1, <1>2, <1>4, <1>5, <1>6 DEF ManifestOf, CutAt
<1>8. ~Shared(w) => InOrder(w)'
  BY <1>1, <1>2, <1>3, <1>4, <1>5, <1>6 DEF InOrder, CreatedAt, IndexAt
<1> QED BY <1>2, <1>3, <1>4, <1>5, <1>7, <1>8, WorkerGoesOn DEF CreatedAt, IndexAt

\* They fill it: with a mixture only where two have the run.
LEMMA FillsManifest ==
  ASSUME EvidenceInv, NEW w \in Worker, FillManifest(w) \/ FillUpdate(w)
  PROVE  EvidenceInv'
<1> DEFINE text == IF FillManifest(w) THEN [is |-> "whole", task |-> worker[w].task, status |-> "RUNNING"]
                                      ELSE worker[w].read
           to == IF FillManifest(w) THEN "command" ELSE "updated"
           old == runDir[worker[w].run].manifest
<1>1. worker[w].at \in {"fill manifest", "fill update"}
  BY DEF FillManifest, FillUpdate, Doing
<1>2. /\ EvidenceTyped /\ worker[w] \in WorkerRow /\ worker[w].run \in RunId /\ worker[w].run # 0
      /\ worker[w].task \in EvidenceTask /\ (~Shared(w) => InOrder(w)) /\ old \in ManifestRow
      /\ worker[w].read.is \notin Torn
  BY <1>1, AtWork
<1>3. text \in ManifestRow
  BY <1>2 DEF ManifestRow, WorkerRow, FileIs
<1>4. PICK m \in Filled(old, text) : InDir(w, "manifest", m)
  BY DEF FillManifest, FillUpdate
<1>5. /\ to \in {"command", "updated"} /\ to \in EvidenceAt /\ Proceed(w, to)
      /\ to = "updated" => worker[w].at = "fill update" /\ text = worker[w].read
      /\ to = "command" => worker[w].at = "fill manifest" /\ text.is = "whole"
  BY DEF FillManifest, FillUpdate, Doing, EvidenceAt, CreatedAt
<1> HIDE DEF to, text
<1>13. text.is \notin Torn
  BY <1>2, <1>5 DEF Torn
<1>6. m \in ManifestRow /\ (m = text \/ (m.is = "mixed" /\ old.is \in {"whole", "mixed"}))
  BY <1>3, <1>4 DEF Filled, ManifestRow, FileIs, Torn
<1>7. ~Shared(w) => old.is = "empty" /\ m = text /\ text.is = "whole"
  <2>1. ~Shared(w) => old.is = "empty"
    BY <1>1, <1>2 DEF InOrder
  <2>2. ~Shared(w) /\ to = "updated" => worker[w].read.is = "whole"
    BY <1>2, <1>5 DEF InOrder, CreatedAt
  <2> QED BY <1>5, <1>6, <2>1, <2>2
<1>8. PICK row \in WorkerRow :
        /\ worker' = [worker EXCEPT ![w] = row]
        /\ row.at = to /\ row.run = worker[w].run /\ row.task = worker[w].task
        /\ row.seen = worker[w].seen /\ row.read = worker[w].read
  BY <1>2, <1>5, StepTaken
<1>9. /\ runDir' \in [RunId -> DirRow] /\ UNCHANGED <<now, index, beside>>
      /\ \A r \in RunId : r # worker[w].run => runDir'[r] = runDir[r]
      /\ runDir'[worker[w].run].manifest = m /\ runDir'[worker[w].run].command = runDir[worker[w].run].command
  BY <1>2, <1>4, <1>6, DirWritten
<1>10. worker'[w] = row /\ (Shared(w)' <=> Shared(w)) /\ worker'[w].run = worker[w].run
  BY <1>2, <1>8, OneWorker, RunsStay
<1>11. ManifestOf(row.run)'
  <2>1. m.is \in Torn => Shared(w)
    BY <1>7 DEF Torn
  <2>2. m.is # "empty"
    BY <1>5, <1>6, <1>13 DEF Torn
  <2> QED BY <1>8, <1>9, <1>10, <2>1, <2>2 DEF ManifestOf, Torn
<1>12. ~Shared(w) => InOrder(w)'
  BY <1>2, <1>5, <1>7, <1>8, <1>9, <1>10 DEF InOrder, CreatedAt, IndexAt
<1> QED BY <1>2, <1>5, <1>8, <1>9, <1>11, <1>12, WorkerGoesOn DEF CreatedAt, IndexAt

\* The command and the metrics.
LEMMA WritesBeside ==
  ASSUME EvidenceInv, NEW w \in Worker, NEW to, NEW field, NEW value, Proceed(w, to), InDir(w, field, value),
         \/ to = "read index" /\ worker[w].at = "command" /\ field = "command" /\ value = "whole"
         \/ to = "fill metrics" /\ worker[w].at = "updated" /\ field = "metrics" /\ value = "empty"
         \/ to = "measured" /\ worker[w].at = "fill metrics" /\ field = "metrics" /\ value = "whole"
  PROVE  EvidenceInv'
<1>1. /\ to \in EvidenceAt /\ to \notin IndexAt /\ to \notin {"idle", "killed", "raised"}
      /\ worker[w].at \in {"command", "updated", "fill metrics"}
  BY DEF EvidenceAt, CreatedAt, IndexAt
<1>8. \/ field = "manifest" /\ value \in ManifestRow
      \/ field = "command" /\ value \in {"absent", "whole"}
      \/ field = "metrics" /\ value \in {"absent", "empty", "whole"}
  OBVIOUS
<1>2. /\ EvidenceTyped /\ worker[w].run \in RunId /\ worker[w].run # 0 /\ worker[w].task \in EvidenceTask
      /\ (~Shared(w) => InOrder(w)) /\ worker[w].read.is \notin Torn /\ ManifestOf(worker[w].run)
  BY <1>1, AtWork
<1>3. PICK row \in WorkerRow :
        /\ worker' = [worker EXCEPT ![w] = row]
        /\ row.at = to /\ row.run = worker[w].run /\ row.task = worker[w].task
        /\ row.seen = worker[w].seen /\ row.read = worker[w].read
  BY <1>1, <1>2, StepTaken
<1>4. /\ runDir' \in [RunId -> DirRow]
      /\ UNCHANGED <<now, index, beside>>
      /\ \A r \in RunId : r # worker[w].run => runDir'[r] = runDir[r]
      /\ runDir'[worker[w].run].manifest = runDir[worker[w].run].manifest
      /\ runDir'[worker[w].run].command = IF field = "command" THEN value ELSE runDir[worker[w].run].command
      /\ runDir'[worker[w].run].metrics = IF field = "metrics" THEN value ELSE runDir[worker[w].run].metrics
  <2>1. InDir(w, field, value)
    OBVIOUS
  <2>2. CASE field = "command"
    <3>1. value \in {"absent", "whole"}
      BY <2>2
    <3> QED BY ONLY <1>2, <2>1, <2>2, <3>1, DirWritten, w \in Worker
  <2>3. CASE field = "metrics"
    <3>1. value \in {"absent", "empty", "whole"}
      BY <2>3
    <3> QED BY ONLY <1>2, <2>1, <2>3, <3>1, DirWritten, w \in Worker
  <2> QED BY <1>8, <2>2, <2>3
<1>5. worker'[w] = row
  BY <1>2, <1>3, OneWorker
<1>6. ManifestOf(row.run)'
  <2>1. \A v \in Worker : worker'[v].run = worker[v].run /\ (Shared(v)' <=> Shared(v))
    BY <1>2, <1>3, RunsStay
  <2>2. \A v \in Worker : CutAt(v, {"fill manifest", "fill update"}) => CutAt(v, {"fill manifest", "fill update"})'
    <3>1. ~CutAt(w, {"fill manifest", "fill update"})
      BY <1>1 DEF CutAt
    <3> QED BY <1>2, <1>3, <3>1, RunsStay
  <2> QED BY <1>2, <1>3, <1>4, <2>1, <2>2 DEF ManifestOf
<1>7. ~Shared(w) => InOrder(w)'
  BY <1>1, <1>2, <1>3, <1>4, <1>5 DEF InOrder, CreatedAt, IndexAt
<1> QED BY <1>1, <1>2, <1>3, <1>4, <1>6, <1>7, WorkerGoesOn DEF CreatedAt

\* A worker that writes nothing and leaves the index alone.
LEMMA WritesNothing ==
  ASSUME EvidenceInv, NEW w \in Worker, NEW row \in WorkerRow, worker' = [worker EXCEPT ![w] = row],
         worker[w].at \notin {"idle", "raised", "killed"}, row.run = worker[w].run, row.read.is \notin Torn,
         UNCHANGED <<now, runDir, index, beside>>,
         \/ row.at = "raised" /\ worker[w].at \in {"read index", "created"}
         \/ row.at = "killed" /\ row.cut = worker[w].at
         \/ row.at = "update" /\ worker[w].at = "created" /\ row.task = worker[w].task
            /\ (~Shared(w) => row.read.is = "whole")
  PROVE  EvidenceInv'
<1>1. /\ EvidenceTyped /\ worker[w].run \in RunId /\ worker[w].run # 0 /\ worker[w].task \in EvidenceTask
      /\ (~Shared(w) => InOrder(w)) /\ ManifestOf(worker[w].run)
  BY AtWork
<1>2. worker'[w] = row /\ \A v \in Worker : v # w => worker'[v] = worker[v]
  BY <1>1, OneWorker
<1>3. runDir' \in [RunId -> DirRow]
  BY <1>1 DEF EvidenceTyped
<1>4. ManifestOf(row.run)'
  <2>1. \A v \in Worker : worker'[v].run = worker[v].run /\ (Shared(v)' <=> Shared(v))
    BY <1>1, RunsStay
  <2>2. \A v \in Worker : CutAt(v, {"fill manifest", "fill update"}) => CutAt(v, {"fill manifest", "fill update"})'
    BY <1>2 DEF CutAt
  <2> QED BY <1>1, <2>1, <2>2 DEF ManifestOf
<1>5. ~Shared(w) => InOrder(w)'
  BY <1>1, <1>2 DEF InOrder, CreatedAt, IndexAt
<1> QED BY <1>1, <1>3, <1>4, <1>5, WorkerGoesOn DEF CreatedAt, IndexAt

\* A worker is killed, maybe while a file is empty.
LEMMA KilledInOrder ==
  ASSUME EvidenceInv, NEW w \in Worker, Killed(w)
  PROVE  EvidenceInv'
<1>1. worker[w].at \notin {"idle", "raised", "killed"} /\ Left(w, "killed") /\ UNCHANGED <<now, runDir, index, beside>>
  BY DEF Killed
<1>2. PICK row \in WorkerRow :
        /\ worker' = [worker EXCEPT ![w] = row]
        /\ row.at = "killed" /\ row.run = worker[w].run /\ row.cut = worker[w].at /\ row.read.is \notin Torn
  BY <1>1, LeftRow DEF EvidenceInv
<1> QED BY <1>1, <1>2, WritesNothing

\* The manifest is read for the update, and raises if it is torn.
LEMMA ReadsManifest ==
  ASSUME EvidenceInv, NEW w \in Worker, NEW status \in {"COMPLETE", "FAILED"}, ReadManifest(w, status)
  PROVE  EvidenceInv'
<1> DEFINE m == runDir[worker[w].run].manifest
<1>1. worker[w].at = "created" /\ UNCHANGED <<now, runDir, index, beside>>
  BY DEF ReadManifest, Doing
<1>2. EvidenceTyped /\ worker[w] \in WorkerRow /\ m \in ManifestRow /\ (~Shared(w) => InOrder(w))
  BY <1>1, AtWork
<1>3. CASE m.is \in Torn
  <2>1. Left(w, "raised")
    BY <1>3 DEF ReadManifest
  <2>2. PICK row \in WorkerRow : /\ worker' = [worker EXCEPT ![w] = row] /\ row.read.is \notin Torn
                                 /\ row.at = "raised" /\ row.run = worker[w].run
    BY <1>2, <2>1, LeftRow
  <2> QED BY <1>1, <2>2, WritesNothing
<1>4. CASE m.is \notin Torn
  <2> DEFINE read == [m EXCEPT !.status = status]
             row == [worker[w] EXCEPT !.at = "update", !.read = read]
  <2>1. read \in ManifestRow /\ read.is = m.is
    BY <1>2 DEF ManifestRow
  <2> HIDE DEF read
  <2>2. /\ row \in WorkerRow /\ row.at = "update" /\ row.run = worker[w].run
        /\ row.task = worker[w].task /\ row.read = read
    BY <1>2, <2>1 DEF WorkerRow, EvidenceAt, CreatedAt
  <2>3. worker' = [worker EXCEPT ![w] = row]
    BY <1>4 DEF ReadManifest, read
  <2> HIDE DEF row
  <2>4. ~Shared(w) => row.read.is = "whole"
    BY <1>1, <1>2, <2>1, <2>2 DEF InOrder, CreatedAt
  <2> QED BY <1>1, <1>4, <2>1, <2>2, <2>3, <2>4, WritesNothing
<1> QED BY <1>3, <1>4

\* A worker at the index: what is left to show is what the index says.
LEMMA AtIndex ==
  ASSUME EvidenceInv, NEW w \in Worker, NEW row \in WorkerRow, worker' = [worker EXCEPT ![w] = row],
         row.run = worker[w].run, row.task = worker[w].task, row.read = worker[w].read,
         worker[w].at \in {"read index"} \cup IndexAt, row.at \in IndexAt \cup {"created"},
         UNCHANGED <<now, runDir>>, index' \in [is : FileIs, runs : Entries], beside' \in SUBSET Worker,
         IndexInv', \A v \in Worker : RunRecorded(v)', EarlierKept'
  PROVE  EvidenceInv'
<1>1. /\ EvidenceTyped /\ worker[w].run \in RunId /\ worker[w].run # 0 /\ worker[w].task \in EvidenceTask
      /\ (~Shared(w) => InOrder(w))
  BY AtWork DEF IndexAt
<1>2. /\ worker' \in [Worker -> WorkerRow] /\ worker'[w] = row
      /\ \A v \in Worker : v # w => worker'[v] = worker[v]
  BY <1>1, OneWorker
<1>3. EvidenceTyped'
  BY <1>1, <1>2 DEF EvidenceTyped
<1>4. Begun'
  BY <1>1, <1>2 DEF EvidenceInv, Begun, IndexAt
<1>5. \A v \in Worker : worker'[v].run = worker[v].run /\ (Shared(v)' <=> Shared(v))
  BY <1>1, RunsStay
<1>6. \A r \in RunId : ManifestOf(r)'
  <2> TAKE r \in RunId
  <2>1. ManifestOf(r) /\ runDir' = runDir
    BY DEF EvidenceInv
  <2>2. \A v \in Worker : CutAt(v, {"fill manifest", "fill update"}) => CutAt(v, {"fill manifest", "fill update"})'
    <3>1. ~CutAt(w, {"fill manifest", "fill update"})
      BY DEF CutAt, IndexAt
    <3> QED BY <1>1, <3>1, RunsStay
  <2> QED BY <1>5, <2>1, <2>2 DEF ManifestOf
<1>7. \A v \in Worker : v # w /\ ~Shared(v)' => InOrder(v)'
  BY <1>2, OthersInOrder
<1>8. ~Shared(w)' => InOrder(w)'
  BY <1>1, <1>2, <1>5 DEF InOrder, CreatedAt, IndexAt
<1> QED BY <1>3, <1>4, <1>6, <1>7, <1>8 DEF EvidenceInv

\* The index is read: whoever is at it already is noted.
LEMMA ReadsIndex ==
  ASSUME EvidenceInv, NEW w \in Worker, ReadIndex(w)
  PROVE  EvidenceInv'
<1>1. worker[w].at = "read index" /\ UNCHANGED <<now, runDir, index>>
  BY DEF ReadIndex, Doing
<1>2. EvidenceTyped /\ worker[w] \in WorkerRow /\ index.runs \in Entries
  BY <1>1, AtWork DEF EvidenceTyped
<1>3. CASE index.is \in Torn
  <2>1. Left(w, "raised") /\ UNCHANGED beside
    BY <1>3 DEF ReadIndex
  <2>2. PICK row \in WorkerRow : /\ worker' = [worker EXCEPT ![w] = row] /\ row.read.is \notin Torn
                                 /\ row.at = "raised" /\ row.run = worker[w].run
    BY <1>2, <2>1, LeftRow
  <2> QED BY <1>1, <2>1, <2>2, WritesNothing
<1>4. CASE index.is \notin Torn
  <2> DEFINE others == {v \in Worker \ {w} : worker[v].at \in IndexAt}
             row == [worker[w] EXCEPT !.at = "empty index", !.seen = index.runs]
  <2>1. worker' = [worker EXCEPT ![w] = row] /\ beside' = beside \cup others \cup {v \in {w} : others # {}}
    BY <1>4 DEF ReadIndex, IndexAt
  <2>2. /\ row \in WorkerRow /\ row.at = "empty index" /\ row.run = worker[w].run /\ row.task = worker[w].task
        /\ row.read = worker[w].read /\ row.seen = index.runs
    BY <1>2 DEF WorkerRow, EvidenceAt, IndexAt
  <2> HIDE DEF row
  <2>3. worker'[w] = row /\ \A v \in Worker : v # w => worker'[v] = worker[v]
    BY <1>2, <2>1, <2>2, OneWorker
  <2>4. /\ \A v \in Worker : v \in beside => v \in beside'
        /\ \A v \in Worker : v # w /\ worker[v].at \in IndexAt => v \in beside' /\ w \in beside'
    BY <2>1
  <2>5. beside' \in SUBSET Worker
    BY <1>2, <2>1 DEF EvidenceTyped
  <2> HIDE DEF others
  <2>6. IndexInv'
    <3>1. \A v \in Worker : CutAt(v, {"fill index"}) => CutAt(v, {"fill index"})'
      BY <1>1, <2>3 DEF CutAt
    <3>2. IndexInv /\ index' = index
      BY <1>1 DEF EvidenceInv
    <3>3. index.is \notin {"empty", "mixed"}
      BY <1>4 DEF Torn
    <3>4. \A v \in Worker : worker'[v].at = "fill index" /\ index'.is # "empty" => v \in beside'
      BY <2>2, <2>3, <2>4, <3>2 DEF IndexInv
    <3>5. \A u, v \in Worker : u # v /\ worker'[u].at \in IndexAt /\ worker'[v].at \in IndexAt => u \in beside'
      BY <2>3, <2>4, <3>2 DEF IndexInv
    <3> QED BY <3>2, <3>3, <3>4, <3>5 DEF IndexInv
  <2>7. \A v \in Worker : RunRecorded(v)'
    <3> TAKE v \in Worker
    <3>1. RunRecorded(v) /\ index' = index
      BY <1>1 DEF EvidenceInv
    <3>2. (Shared(v)' <=> Shared(v)) /\ worker'[v].run = worker[v].run
      BY <1>2, <2>1, <2>2, RunsStay
    <3>3. worker'[v].at \in CreatedAt => worker[v].at \in CreatedAt /\ worker'[v].task = worker[v].task
      BY <2>2, <2>3 DEF CreatedAt
    <3> QED BY <1>4, <2>2, <2>3, <2>4, <3>1, <3>2, <3>3 DEF RunRecorded, Entered
  <2>8. EarlierKept'
    <3>1. EarlierKept /\ index' = index /\ runDir' = runDir
      BY <1>1 DEF EvidenceInv
    <3> QED BY <1>4, <2>2, <2>3, <3>1 DEF EarlierKept
  <2>9. index' \in [is : FileIs, runs : Entries] /\ row.at \in IndexAt /\ worker[w].at \in {"read index"} \cup IndexAt
    BY <1>1, <1>2, <2>2 DEF EvidenceTyped, IndexAt
  <2> QED BY <1>1, <2>1, <2>2, <2>5, <2>6, <2>7, <2>8, <2>9, AtIndex
<1> QED BY <1>3, <1>4

\* The index is opened to be written.
LEMMA EmptiesIndex ==
  ASSUME EvidenceInv, NEW w \in Worker, EmptyIndex(w)
  PROVE  EvidenceInv'
<1>1. /\ worker[w].at = "empty index" /\ UNCHANGED <<now, runDir, beside>> /\ Proceed(w, "fill index")
      /\ index' = [is |-> "empty", runs |-> NoEntries]
  BY DEF EmptyIndex, Doing
<1>2. EvidenceTyped
  BY DEF EvidenceInv
<1>3. PICK row \in WorkerRow :
        /\ worker' = [worker EXCEPT ![w] = row]
        /\ row.at = "fill index" /\ row.run = worker[w].run /\ row.task = worker[w].task
        /\ row.seen = worker[w].seen /\ row.read = worker[w].read
  <2>1. "fill index" \in EvidenceAt
    BY DEF EvidenceAt, IndexAt
  <2> QED BY <1>1, <1>2, <2>1, StepTaken
<1>4. worker'[w] = row /\ \A v \in Worker : v # w => worker'[v] = worker[v]
  BY <1>2, <1>3, OneWorker
<1>5. index' \in [is : FileIs, runs : Entries] /\ index'.is = "empty"
  <2>1. NoEntries \in Entries
    BY NothingTyped
  <2> HIDE DEF NoEntries
  <2> QED BY <1>1, <2>1 DEF FileIs, Torn
<1>6. IndexInv'
  <2>1. CutAt(w, {"fill index"})'
    BY <1>3, <1>4 DEF CutAt
  <2>2. \A u, v \in Worker : u # v /\ worker'[u].at \in IndexAt /\ worker'[v].at \in IndexAt => u \in beside'
    <3>1. \A v \in Worker : worker'[v].at \in IndexAt => worker[v].at \in IndexAt
      BY <1>1, <1>4 DEF IndexAt
    <3>2. IndexInv /\ beside' = beside
      BY <1>1 DEF EvidenceInv
    <3> QED BY <3>1, <3>2 DEF IndexInv
  <2> QED BY <1>5, <2>1, <2>2 DEF IndexInv
<1>7. \A v \in Worker : RunRecorded(v)'
  <2> TAKE v \in Worker
  <2>1. RunRecorded(v) /\ beside' = beside
    BY <1>1 DEF EvidenceInv
  <2>2. (Shared(v)' <=> Shared(v)) /\ worker'[v].run = worker[v].run
    BY <1>2, <1>3, RunsStay
  <2>3. worker'[v].at \in CreatedAt => worker[v].at \in CreatedAt /\ worker'[v].task = worker[v].task
    BY <1>3, <1>4 DEF CreatedAt
  <2>4. \A u \in Worker : worker'[u].at \in IndexAt => worker[u].at \in IndexAt /\ worker'[u].seen = worker[u].seen
    BY <1>1, <1>3, <1>4 DEF IndexAt
  <2>5. index'.is \in Torn
    BY <1>5 DEF Torn
  <2> QED BY <2>1, <2>2, <2>3, <2>4, <2>5 DEF RunRecorded, Entered
<1>8. EarlierKept'
  <2>1. EarlierKept /\ runDir' = runDir /\ index'.is \in Torn
    BY <1>1, <1>5 DEF EvidenceInv, Torn
  <2>2. \A u \in Worker : worker'[u].at \in IndexAt => worker[u].at \in IndexAt /\ worker'[u].seen = worker[u].seen
    BY <1>1, <1>3, <1>4 DEF IndexAt
  <2> QED BY <2>1, <2>2 DEF EarlierKept
<1>9. row.at \in IndexAt /\ worker[w].at \in IndexAt /\ beside' \in SUBSET Worker
  BY <1>1, <1>2, <1>3 DEF IndexAt, EvidenceTyped
<1> QED BY <1>1, <1>3, <1>5, <1>6, <1>7, <1>8, <1>9, AtIndex

\* The index is written, with the new run; as a mixture only beside another worker.
LEMMA FillsIndex ==
  ASSUME EvidenceInv, NEW w \in Worker, FillIndex(w)
  PROVE  EvidenceInv'
<1> DEFINE entries == WithRunIn(worker[w].seen, worker[w].run, worker[w].task)
           text == [is |-> "whole", runs |-> entries]
           row == [worker[w] EXCEPT !.at = "created", !.seen = NoEntries]
<1>1. /\ worker[w].at = "fill index" /\ UNCHANGED <<now, runDir, beside>> /\ worker' = [worker EXCEPT ![w] = row]
      /\ index' \in Filled(index, text)
  BY DEF FillIndex, Doing
<1>2. /\ EvidenceTyped /\ worker[w] \in WorkerRow /\ worker[w].run \in RunId /\ worker[w].run # 0
      /\ worker[w].task \in EvidenceTask /\ worker[w].seen \in Entries
  BY <1>1, AtWork DEF WorkerRow
<1>3. /\ entries \in Entries /\ worker[w].run \in DOMAIN entries /\ entries[worker[w].run] = worker[w].task
      /\ \A s \in DOMAIN worker[w].seen : s # worker[w].run => s \in DOMAIN entries /\ entries[s] = worker[w].seen[s]
  <2>0. PICK seen \in Entries, r \in RunId, t \in EvidenceTask :
          seen = worker[w].seen /\ r = worker[w].run /\ t = worker[w].task
    BY <1>2
  <2>5. entries = WithRunIn(seen, r, t)
    BY <2>0
  <2> HIDE DEF entries
  <2>1. /\ entries \in Entries /\ DOMAIN entries = DOMAIN worker[w].seen \cup {worker[w].run}
        /\ entries[worker[w].run] = worker[w].task
        /\ \A s \in DOMAIN worker[w].seen : s # worker[w].run => entries[s] = worker[w].seen[s]
    <3>1. /\ WithRunIn(seen, r, t) \in Entries
          /\ DOMAIN WithRunIn(seen, r, t) = DOMAIN seen \cup {r}
          /\ WithRunIn(seen, r, t)[r] = t
          /\ \A s \in DOMAIN seen : s # r => WithRunIn(seen, r, t)[s] = seen[s]
      BY EntriesWith
    <3> QED BY <2>0, <2>5, <3>1
  <2> QED BY <2>1
<1> HIDE DEF entries
<1>4. /\ row \in WorkerRow /\ row.at = "created" /\ row.run = worker[w].run /\ row.task = worker[w].task
      /\ row.read = worker[w].read
  BY <1>2, NothingTyped DEF WorkerRow, EvidenceAt, CreatedAt
<1> HIDE DEF row
<1>5. worker'[w] = row /\ \A v \in Worker : v # w => worker'[v] = worker[v]
  BY <1>1, <1>2, <1>4, OneWorker
<1>6. /\ index' \in [is : FileIs, runs : Entries] /\ index'.runs = entries /\ index'.is \in {"whole", "mixed"}
      /\ index'.is = "mixed" => index.is # "empty"
  <2> DEFINE mixture == [is |-> "mixed", runs |-> entries]
  <2>1. [text EXCEPT !.is = "mixed"] = mixture
    OBVIOUS
  <2>2. index' = text \/ (index' = mixture /\ index.is \in {"whole", "mixed"})
    BY <1>1, <2>1 DEF Filled
  <2> QED BY <1>3, <2>2 DEF FileIs, Torn
<1>7. IndexInv /\ beside' = beside
  BY <1>1 DEF EvidenceInv
<1>8. \A v \in Worker : worker'[v].at \in IndexAt => v # w /\ worker[v].at \in IndexAt /\ worker'[v] = worker[v]
  BY <1>4, <1>5 DEF IndexAt
<1>9. \A v \in Worker : v # w /\ worker[v].at \in IndexAt => v \in beside /\ w \in beside
  BY <1>1, <1>7 DEF IndexInv, IndexAt
<1>10. IndexInv'
  <2>1. index'.is = "mixed" => beside' # {}
    BY <1>1, <1>6, <1>7 DEF IndexInv
  <2>2. \A v \in Worker : worker'[v].at \in IndexAt => v \in beside'
    BY <1>7, <1>8, <1>9
  <2> QED BY <1>6, <2>1, <2>2 DEF IndexInv, IndexAt
<1>11. \A v \in Worker : RunRecorded(v)'
  <2> SUFFICES ASSUME NEW v \in Worker, v \notin beside, worker'[v].at \in CreatedAt, ~Shared(v)'
               PROVE  /\ Entered(index.runs, v)'
                      /\ \A u \in Worker : worker'[u].at \in IndexAt => Entered(worker[u].seen, v)'
    BY <1>7 DEF RunRecorded
  <2>1. ~Shared(v) /\ worker'[v].run = worker[v].run
    BY <1>1, <1>2, <1>4, RunsStay
  <2>2. CASE v = w
    <3>1. \A u \in Worker : worker'[u].at \notin IndexAt
      BY <1>8, <1>9, <2>2
    <3> QED BY <1>3, <1>4, <1>5, <1>6, <2>2, <3>1 DEF Entered
  <2>3. CASE v # w
    <3>1. worker'[v] = worker[v] /\ RunRecorded(v) /\ worker[v].run # worker[w].run
      BY <1>5, <2>1, <2>3 DEF EvidenceInv, Shared
    <3>2. \A u \in Worker : worker[u].at \in IndexAt => Entered(worker[u].seen, v)
      BY <2>1, <3>1 DEF RunRecorded
    <3>3. Entered(worker[w].seen, v)
      BY <1>1, <3>2 DEF IndexAt
    <3>4. Entered(index.runs, v)'
      BY <1>3, <1>6, <3>1, <3>3 DEF Entered
    <3> QED BY <1>8, <3>1, <3>2, <3>4 DEF Entered
  <2> QED BY <2>2, <2>3
<1>12. EarlierKept'
  <2> SUFFICES ASSUME runDir[EarlierRun] = EarlierDir
               PROVE  Kept(index'.runs) /\ \A u \in Worker : worker'[u].at \in IndexAt => Kept(worker'[u].seen)
    BY <1>1 DEF EarlierKept
  <2>1. \A u \in Worker : worker[u].at \in IndexAt => Kept(worker[u].seen)
    BY DEF EvidenceInv, EarlierKept
  <2>2. worker[w].run # EarlierRun /\ Kept(worker[w].seen)
    BY <1>1, <2>1 DEF EvidenceInv, Begun, IndexAt
  <2>3. Kept(entries)
    BY <1>3, <2>2 DEF Kept
  <2> QED BY <1>6, <1>8, <2>1, <2>3
<1>13. beside' \in SUBSET Worker /\ worker[w].at \in IndexAt
  BY <1>1, <1>2 DEF EvidenceTyped, IndexAt
<1> QED BY <1>1, <1>4, <1>6, <1>10, <1>11, <1>12, <1>13, AtIndex

\* A run is created, maybe in the second of another.
LEMMA CreatesRun ==
  ASSUME EvidenceInv, NEW w \in Worker, NEW t \in EvidenceTask, CreateRun(w, t)
  PROVE  EvidenceInv'
<1>1. /\ EvidenceTyped /\ worker[w].at = "idle" /\ now \in RunId /\ now # 0 /\ now # EarlierRun
      /\ UNCHANGED <<now, runDir, index, beside>> /\ worker[w].run = 0
  BY DEF CreateRun, Doing, EvidenceInv, EvidenceTyped, RunId, Begun
<1> DEFINE row == [Off EXCEPT !.at = "create", !.task = t, !.run = now]
<1>2. /\ row \in WorkerRow /\ row.at = "create" /\ row.run = now /\ row.task = t /\ row.read = NoManifest
  BY <1>1, NothingTyped DEF Off, WorkerRow, EvidenceAt
<1>3. worker' = [worker EXCEPT ![w] = row] /\ NoManifest.is \notin Torn
  BY DEF CreateRun, NoManifest, Torn
<1> HIDE DEF row
<1>4. /\ worker' \in [Worker -> WorkerRow] /\ worker'[w] = row
      /\ \A v \in Worker : v # w => worker'[v] = worker[v]
  BY <1>1, <1>2, <1>3, OneWorker
<1>5. EvidenceTyped' /\ Begun'
  BY <1>1, <1>2, <1>3, <1>4 DEF EvidenceInv, EvidenceTyped, Begun
<1>6. \A v \in Worker : v # w /\ worker[v].run # 0 /\ Shared(v) => Shared(v)'
  <2> TAKE v \in Worker
  <2> SUFFICES ASSUME v # w, worker[v].run # 0, Shared(v) PROVE Shared(v)'
    OBVIOUS
  <2>1. PICK u \in Worker \ {v} : worker[u].run = worker[v].run
    BY DEF Shared
  <2>2. worker'[u] = worker[u] /\ worker'[v] = worker[v]
    BY <1>1, <1>4, <2>1
  <2> QED BY <2>1, <2>2 DEF Shared
<1>7. \A v \in Worker : worker'[v].at \in IndexAt \cup CreatedAt \cup {"fill index"} => v # w /\ worker'[v] = worker[v]
  BY <1>2, <1>4 DEF IndexAt, CreatedAt
<1>8. \A v \in Worker, steps \in {{"fill index"}, {"fill manifest", "fill update"}} :
        CutAt(v, steps) => v # w /\ worker'[v] = worker[v] /\ CutAt(v, steps)'
  BY <1>1, <1>4 DEF CutAt
<1>9. IndexInv'
  <2>1. IndexInv /\ index' = index /\ beside' = beside
    BY <1>1 DEF EvidenceInv
  <2> QED BY <1>7, <1>8, <2>1 DEF IndexInv
<1>10. \A r \in RunId : ManifestOf(r)'
  <2> TAKE r \in RunId
  <2>1. ManifestOf(r) /\ runDir' = runDir /\ r # 0
    BY <1>1 DEF EvidenceInv, RunId
  <2>2. \A v \in Worker : worker[v].run = r => v # w /\ worker'[v] = worker[v]
    BY <1>1, <1>4, <2>1
  <2> QED BY <1>6, <1>8, <2>1, <2>2 DEF ManifestOf
<1>11. \A v \in Worker : RunRecorded(v)'
  <2> SUFFICES ASSUME NEW v \in Worker, v \notin beside, worker'[v].at \in CreatedAt, ~Shared(v)'
               PROVE  /\ index'.is \notin Torn => Entered(index.runs, v)'
                      /\ \A u \in Worker : worker'[u].at \in IndexAt => Entered(worker[u].seen, v)'
    BY <1>1 DEF RunRecorded
  <2>1. v # w /\ worker'[v] = worker[v] /\ RunRecorded(v)
    BY <1>7 DEF EvidenceInv
  <2>2. worker[v].run # 0
    BY <2>1 DEF EvidenceInv, Begun, CreatedAt
  <2>3. ~Shared(v)
    BY <1>6, <2>1, <2>2
  <2> QED BY <1>1, <1>7, <2>1, <2>3 DEF RunRecorded, Entered
<1>12. EarlierKept'
  <2>1. EarlierKept
    BY DEF EvidenceInv
  <2> QED BY <1>1, <1>7, <2>1 DEF EarlierKept
<1>13. \A v \in Worker : ~Shared(v)' => InOrder(v)'
  <2> TAKE v \in Worker
  <2>1. CASE v = w
    BY <1>2, <1>4, <2>1 DEF InOrder, CreatedAt, IndexAt
  <2>2. CASE v # w /\ worker[v].run # 0
    BY <1>1, <1>4, <1>6, <2>2 DEF InOrder, EvidenceInv
  <2>3. CASE v # w /\ worker[v].run = 0
    <3>1. worker'[v].at = "idle"
      BY <1>4, <2>3 DEF EvidenceInv, Begun
    <3> QED BY <3>1 DEF InOrder, CreatedAt, IndexAt
  <2> QED BY <2>1, <2>2, <2>3
<1> QED BY <1>5, <1>9, <1>10, <1>11, <1>12, <1>13 DEF EvidenceInv

LEMMA EvidenceInvStep == EvidenceInv /\ [EvidenceNext]_evidenceVars => EvidenceInv'
<1> SUFFICES ASSUME EvidenceInv, [EvidenceNext]_evidenceVars PROVE EvidenceInv'
  OBVIOUS
<1>1. ASSUME now' \in RunId, now' # EarlierRun, UNCHANGED <<runDir, index, worker, beside>> PROVE EvidenceInv'
  <2>1. EvidenceTyped' /\ Begun' /\ EarlierKept'
    BY <1>1 DEF EvidenceInv, EvidenceTyped, Begun, EarlierKept
  <2>2. IndexInv'
    BY <1>1 DEF EvidenceInv, IndexInv, CutAt
  <2>3. \A v \in Worker : Shared(v)' <=> Shared(v)
    BY <1>1 DEF Shared
  <2>4. \A r \in RunId : ManifestOf(r)'
    BY <1>1, <2>3 DEF EvidenceInv, ManifestOf, CutAt
  <2>5. \A v \in Worker : RunRecorded(v)'
    BY <1>1, <2>3 DEF EvidenceInv, RunRecorded, Entered
  <2>6. \A v \in Worker : ~Shared(v)' => InOrder(v)'
    BY <1>1, <2>3 DEF EvidenceInv, InOrder
  <2> QED BY <2>1, <2>2, <2>4, <2>5, <2>6 DEF EvidenceInv
<1>2. CASE OneMore
  <2>1. now' \in RunId /\ now' # EarlierRun
    BY <1>2, EvidenceAssumption DEF OneMore, EvidenceInv, EvidenceTyped, RunId, EarlierRun
  <2> QED BY <1>1, <1>2, <2>1 DEF OneMore
<1>3. CASE UNCHANGED evidenceVars
  BY <1>1, <1>3 DEF evidenceVars, EvidenceInv, EvidenceTyped
<1>4. ASSUME NEW w \in Worker, WriteCommand(w) \/ EmptyMetrics(w) \/ FillMetrics(w) PROVE EvidenceInv'
  <2>1. CASE WriteCommand(w)
    BY <2>1, WritesBeside DEF WriteCommand, Doing
  <2>2. CASE EmptyMetrics(w)
    BY <2>2, WritesBeside DEF EmptyMetrics, Doing
  <2>3. CASE FillMetrics(w)
    BY <2>3, WritesBeside DEF FillMetrics, Doing
  <2> QED BY <1>4, <2>1, <2>2, <2>3
<1> QED
  BY <1>2, <1>3, <1>4, EmptiesManifest, FillsManifest, ReadsIndex, EmptiesIndex, FillsIndex, CreatesRun,
     ReadsManifest, KilledInOrder
  DEF EvidenceNext

\* What EvidenceInv says of the workers is what readers are told.
LEMMA EvidenceRead ==
  ASSUME EvidenceInv
  PROVE  EvidenceListed
<1>1. ASSUME NEW task \in EvidenceTask, ListRaises(task)
      PROVE  \/ beside # {} \/ \E w \in Worker : CutAt(w, {"fill index"})
             \/ \E w \in Worker : /\ worker[w].run \in RunsOf(task)
                                  /\ CutAt(w, {"fill manifest", "fill update"}) \/ Shared(w)
  <2>1. CASE index.is \in Torn
    BY <2>1 DEF EvidenceInv, IndexInv, Torn
  <2>2. CASE \E r \in RunsOf(task) : runDir[r].manifest.is \in Torn
    <3>1. PICK r \in RunsOf(task) : runDir[r].manifest.is \in Torn
      BY <2>2
    <3>2. r \in RunId
      <4>1. index.runs \in Entries
        BY DEF EvidenceInv, EvidenceTyped
      <4>2. PICK D \in SUBSET RunId : index.runs \in [D -> EvidenceTask]
        BY <4>1 DEF Entries
      <4> QED BY <4>2 DEF RunsOf
    <3> QED BY <3>1, <3>2 DEF EvidenceInv, ManifestOf, Torn
  <2> QED BY <1>1, <2>1, <2>2 DEF ListRaises
<1>2. ASSUME NEW task \in EvidenceTask, ~ListRaises(task), NEW w \in Worker \ beside, Created(w), ~Shared(w),
             worker[w].task = task
      PROVE  LET r == worker[w].run
             IN  /\ r \in ListedRuns(task) /\ VerifyEvidenceChain(r)
                 /\ worker[w].at \in {"updated", "fill metrics", "measured"} => runDir[r].manifest = worker[w].read
                 /\ Doing(w, "measured") => r \in EvidenceForClaim
  <2>1. worker[w].at \in CreatedAt /\ index.is \notin Torn
    BY <1>2 DEF Created, CreatedAt, ListRaises
  <2>2. RunRecorded(w) /\ InOrder(w)
    BY <1>2 DEF EvidenceInv
  <2>3. worker[w].run \in DOMAIN index.runs /\ index.runs[worker[w].run] = task
    BY <1>2, <2>1, <2>2 DEF RunRecorded, Entered
  <2>4. runDir[worker[w].run].manifest.is \notin Torn
    BY <1>2, <2>3 DEF ListRaises, RunsOf
  <2>5. worker[w].at # "fill update"
    BY <2>2, <2>4 DEF InOrder, Torn
  <2>6. runDir[worker[w].run].manifest.is = "whole" /\ runDir[worker[w].run].command = "whole"
    BY <2>1, <2>2, <2>5 DEF InOrder
  <2> QED BY <2>2, <2>3, <2>6 DEF ListedRuns, RunsOf, VerifyEvidenceChain, EvidenceForClaim, InOrder, Doing
<1>3. ASSUME ~ListRaises("train"), runDir[EarlierRun] = EarlierDir
      PROVE  EarlierRun \in ListedRuns("train")
  <2>1. Kept(index.runs)
    BY <1>3 DEF EvidenceInv, EarlierKept, ListRaises
  <2>2. runDir[EarlierRun].manifest.is = "whole"
    BY <1>3 DEF EarlierDir
  <2> QED BY <2>1, <2>2 DEF Kept, ListedRuns, RunsOf
<1> QED BY <1>1, <1>2, <1>3 DEF EvidenceListed

\* For any number of workers and seconds, whoever is killed at whichever write: list_runs
\* raises only for the reasons EvidenceListed names, and when it answers, no run is missing
\* that was created alone in its second and at the index, nor the run from before.
THEOREM EvidenceAlwaysListed == EvidenceSpec => []EvidenceListed
<1> QED BY EvidenceInvInit, EvidenceInvStep, EvidenceRead, PTL DEF EvidenceSpec

-----------------------------------------------------------------------------
(* Sums and least values over some of the indices of a sequence *)

\* The indices up to k, one at a time.
LEMMA Below ==
  ASSUME NEW n \in Nat, NEW T \in SUBSET (1..n)
  PROVE  /\ T \cap (1..0) = {} /\ T \cap (1..n) = T
         /\ \A k \in 0..n - 1 :
              /\ k + 1 \notin T => T \cap (1..k + 1) = T \cap (1..k)
              /\ k + 1 \in T => T \cap (1..k + 1) = (T \cap (1..k)) \cup {k + 1}
              /\ k + 1 \notin T \cap (1..k)
<1>0. T \cap (1..0) = {}
  OBVIOUS
<1>1. T \cap (1..n) = T
  OBVIOUS
<1>2. ASSUME NEW k \in 0..n - 1, k + 1 \notin T PROVE T \cap (1..k + 1) = T \cap (1..k)
  BY <1>2
<1>3. ASSUME NEW k \in 0..n - 1, k + 1 \in T PROVE T \cap (1..k + 1) = (T \cap (1..k)) \cup {k + 1}
  BY <1>3
<1>4. ASSUME NEW k \in 0..n - 1 PROVE k + 1 \notin T \cap (1..k)
  OBVIOUS
<1> QED BY <1>0, <1>1, <1>2, <1>3, <1>4

\* Of finitely many numbers one is the least.
LEMMA LeastOf ==
  ASSUME NEW n \in Nat, NEW x \in [1..n -> Int], NEW T \in SUBSET (1..n), T # {}
  PROVE  \E i \in T : \A j \in T : x[i] <= x[j]
<1> DEFINE Up(k) == T \cap (1..k)
           Least(k) == \E i \in Up(k) : \A j \in Up(k) : x[i] <= x[j]
           S == {k \in 0..n : Up(k) # {} => Least(k)}
<1>1. \A i \in T : i \in 1..n /\ x[i] \in Int
  OBVIOUS
<1>2. 0 \in S
  <2>1. Up(0) = {}
    BY Below
  <2> QED BY <2>1
<1>3. ASSUME NEW k \in 0..n - 1, k \in S PROVE k + 1 \in S
  <2>1. CASE k + 1 \notin T
    <3>1. Up(k + 1) = Up(k)
      BY <2>1, Below
    <3> HIDE DEF Up
    <3> QED BY <1>3, <3>1
  <2>2. CASE k + 1 \in T
    <3>1. Up(k + 1) = Up(k) \cup {k + 1}
      BY <2>2, Below
    <3>2. \A i \in Up(k) : x[i] \in Int
      BY <1>1
    <3>3. x[k + 1] \in Int
      BY <1>1, <2>2
    <3> HIDE DEF Up
    <3>4. CASE Up(k) = {}
      <4>1. Up(k + 1) = {k + 1}
        BY <3>1, <3>4
      <4> QED BY <1>3, <3>3, <4>1
    <3>5. CASE Up(k) # {}
      <4>1. PICK i \in Up(k) : \A j \in Up(k) : x[i] <= x[j]
        BY <1>3, <3>5
      <4>2. x[i] \in Int
        BY <3>2
      <4>3. CASE x[i] <= x[k + 1]
        <5>1. i \in Up(k + 1) /\ \A j \in Up(k + 1) : x[i] <= x[j]
          BY <3>1, <4>1, <4>3
        <5> QED BY <1>3, <5>1
      <4>4. CASE x[k + 1] < x[i]
        <5>1. k + 1 \in Up(k + 1) /\ \A j \in Up(k + 1) : x[k + 1] <= x[j]
          BY <3>1, <3>2, <3>3, <4>1, <4>2, <4>4
        <5> QED BY <1>3, <5>1
      <4> QED BY <3>3, <4>2, <4>3, <4>4
    <3> QED BY <3>4, <3>5
  <2> QED BY <2>1, <2>2
<1> HIDE DEF S
<1>4. \A k \in 0..n - 1 : k \in S => k + 1 \in S
  BY <1>3
<1>5. \A k \in 0..n : k \in S
  BY <1>2, <1>4, UpTo
<1>6. Up(n) = T
  BY Below
<1> HIDE DEF Up
<1>7. n \in S
  BY <1>5
<1> QED BY <1>6, <1>7 DEF S

\* A sum over some of the indices up to n, as it grows.
Sums(f, n, x, T) ==
  f = [i \in 0..n |-> IF i = 0 THEN 0 ELSE IF i \in T THEN f[i - 1] + x[i] ELSE f[i - 1]]

LEMMA SumDefined ==
  ASSUME NEW n \in Nat, NEW x \in [1..n -> Int], NEW T
  PROVE  \E f : Sums(f, n, x, T)
<1> DEFINE V == Int
           first == 0
           step == [i \in 1..n |-> [v \in V |-> IF i \in T THEN v + x[i] ELSE v]]
<1>1. first \in V /\ \A i \in 1..n : \A v \in V : step[i][v] \in V
  OBVIOUS
<1>2. \A i \in 1..n : \A v \in V : step[i][v] = IF i \in T THEN v + x[i] ELSE v
  OBVIOUS
<1> HIDE DEF step, first, V
<1>3. PICK f : LoopOf(f, n, first, step) /\ \A i \in 0..n : f[i] \in V
  BY <1>1, LoopDefined
<1>4. \A i \in 0..n : i # 0 => i \in 1..n /\ i - 1 \in 0..n
  OBVIOUS
<1>5. \A i \in 0..n : i # 0 => step[i][f[i - 1]] = IF i \in T THEN f[i - 1] + x[i] ELSE f[i - 1]
  BY <1>2, <1>3, <1>4
<1>6. Sums(f, n, x, T)
  BY <1>3, <1>5 DEF LoopOf, Sums, first
<1> QED BY <1>6

\* The sum over some indices, taken in order, is bounded by their number times a bound.
LEMMA SumBetween ==
  ASSUME NEW n \in Nat, NEW x \in [1..n -> Int], NEW T \in SUBSET (1..n), NEW f, Sums(f, n, x, T),
         NEW lo \in Int, NEW hi \in Int, \A i \in T : lo <= x[i] /\ x[i] <= hi
  PROVE  f[n] \in Int /\ lo * Cardinality(T) <= f[n] /\ f[n] <= hi * Cardinality(T)
<1> DEFINE Part(k) == T \cap (1..k)
           Bounded(k) == lo * Cardinality(Part(k)) <= f[k] /\ f[k] <= hi * Cardinality(Part(k))
           S == {k \in 0..n : f[k] \in Int /\ Bounded(k)}
<1>0. f[0] = 0 /\ \A i \in 1..n : f[i] = IF i \in T THEN f[i - 1] + x[i] ELSE f[i - 1]
  <2>1. \A i \in 0..n : f[i] = IF i = 0 THEN 0 ELSE IF i \in T THEN f[i - 1] + x[i] ELSE f[i - 1]
    BY DEF Sums
  <2> QED BY <2>1
<1>1. 0 \in S
  <2>1. Part(0) = {}
    BY Below
  <2>2. Cardinality(Part(0)) = 0
    BY <2>1, FS_EmptySet
  <2> QED BY <1>0, <2>2
<1>2. ASSUME NEW k \in 0..n - 1, k \in S PROVE k + 1 \in S
  <2> DEFINE P == Part(k)
             c == Cardinality(P)
  <2>1. IsFiniteSet(P) /\ c \in Nat
    <3>1. IsFiniteSet(1..n)
      BY FS_Interval
    <3>2. P \subseteq 1..n
      OBVIOUS
    <3> QED BY <3>1, <3>2, FS_Subset, FS_CardinalityType
  <2>2. lo * c <= f[k] /\ f[k] <= hi * c /\ f[k] \in Int
    BY <1>2
  <2>3. k + 1 \in 1..n /\ (k + 1) - 1 = k
    OBVIOUS
  <2>4. CASE k + 1 \notin T
    <3>1. Part(k + 1) = P
      BY <2>4, Below
    <3>2. f[k + 1] = f[k]
      BY <1>0, <2>3, <2>4
    <3> HIDE DEF Part
    <3> QED BY <1>2, <3>1, <3>2
  <2>5. CASE k + 1 \in T
    <3>1. Part(k + 1) = P \cup {k + 1} /\ k + 1 \notin P
      BY <2>5, Below
    <3> HIDE DEF P, Part
    <3>2. Cardinality(Part(k + 1)) = c + 1
      BY <2>1, <3>1, FS_AddElement
    <3> HIDE DEF c
    <3>3. f[k + 1] = f[k] + x[k + 1] /\ x[k + 1] \in Int /\ lo <= x[k + 1] /\ x[k + 1] <= hi
      BY <1>0, <2>3, <2>5
    <3>4. lo * (c + 1) = lo * c + lo /\ hi * (c + 1) = hi * c + hi /\ lo * c \in Int /\ hi * c \in Int
      BY <2>1
    <3>5. lo * (c + 1) <= f[k + 1] /\ f[k + 1] <= hi * (c + 1)
      BY <2>2, <3>3, <3>4
    <3>6. Bounded(k + 1) /\ f[k + 1] \in Int
      BY <2>2, <3>2, <3>3, <3>5
    <3> HIDE DEF Bounded
    <3> QED BY <2>3, <3>6
  <2> QED BY <2>4, <2>5
<1> HIDE DEF S
<1>3. \A k \in 0..n - 1 : k \in S => k + 1 \in S
  BY <1>2
<1>4. n \in S
  <2>1. \A k \in 0..n : k \in S
    BY <1>1, <1>3, UpTo
  <2> QED BY <2>1
<1>5. Part(n) = T
  BY Below
<1> QED BY <1>4, <1>5 DEF S

-----------------------------------------------------------------------------
(* Reports: what is concluded from any rows and any claims *)

ReportClaim == [paper : Int, ours : Int]
Sample == [is : {"number", "text", "absent"}, value : Int]

ReportsTyped ==
  /\ about \in {"tasks", "paper", "metrics"}
  /\ rowCount \in [RowState -> Nat] /\ claims \in Seq(ReportClaim) /\ sample \in Seq(Sample)

LEMMA ReportsTypedInit == ReportsInit => ReportsTyped
BY DEF ReportsInit, ReportsTyped

LEMMA ReportsTypedStep == ReportsTyped /\ [ReportsNext]_reportVars => ReportsTyped'
<1> SUFFICES ASSUME ReportsTyped, [ReportsNext]_reportVars PROVE ReportsTyped'
  OBVIOUS
<1> USE DEF ReportsTyped
<1>1. CASE AddRow
  BY <1>1 DEF AddRow
<1>2. CASE AddClaim
  <2>1. PICK paper \in Value, ours \in Value : claims' = Append(claims, [paper |-> paper, ours |-> ours])
    BY <1>2 DEF AddClaim
  <2>2. [paper |-> paper, ours |-> ours] \in ReportClaim
    BY ReportsAssumption DEF ReportClaim
  <2>3. claims' \in Seq(ReportClaim)
    BY <2>1, <2>2
  <2> QED BY <1>2, <2>3 DEF AddClaim
<1>3. CASE AddSample
  <2>1. PICK v \in Value, is \in {"number", "text", "absent"} : sample' = Append(sample, [is |-> is, value |-> v])
    BY <1>3 DEF AddSample
  <2>2. [is |-> is, value |-> v] \in Sample
    BY ReportsAssumption DEF Sample
  <2>3. sample' \in Seq(Sample)
    BY <2>1, <2>2
  <2> QED BY <1>3, <2>3 DEF AddSample
<1>4. CASE UNCHANGED reportVars
  BY <1>4 DEF reportVars
<1> QED BY <1>1, <1>2, <1>3, <1>4 DEF ReportsNext

\* The shares the verdicts go by only grow with one more pass.
LEMMA TasksAgree ==
  ASSUME ReportsTyped
  PROVE  LET passed == rowCount["PASSED"]
             failed == rowCount["FAILED"]
             says == GoPivotNogo(passed, failed, RowTotal)
             markdown == MarkdownVerdict(passed, RowTotal)
         IN  /\ RowTotal # 0 =>
                  /\ markdown \in {"GO", "GO with caveats"} <=> says = "GO"
                  /\ \A word \in {"PIVOT", "NO-GO"} : markdown = word <=> says = word
             /\ says = "GO" => passed >= 2 * failed
             /\ Worth(GoPivotNogo(passed + 1, failed, RowTotal + 1)) >= Worth(says)
<1> DEFINE p == rowCount["PASSED"]
           f == rowCount["FAILED"]
           t == RowTotal
           says == GoPivotNogo(p, f, t)
           markdown == MarkdownVerdict(p, t)
<1>1. p \in Nat /\ f \in Nat /\ t \in Nat /\ p + f <= t
  BY DEF ReportsTyped, RowTotal, RowState
<1> HIDE DEF p, f, t
<1>2. t # 0 => markdown \in {"GO", "GO with caveats"} <=> says = "GO"
  BY <1>1 DEF MarkdownVerdict, GoPivotNogo, AtLeast
<1>3. t # 0 => \A word \in {"PIVOT", "NO-GO"} : markdown = word <=> says = word
  <2>1. t # 0 => (markdown = "PIVOT" <=> says = "PIVOT")
    BY <1>1 DEF MarkdownVerdict, GoPivotNogo, AtLeast
  <2>2. t # 0 => (markdown = "NO-GO" <=> says = "NO-GO")
    BY <1>1 DEF MarkdownVerdict, GoPivotNogo, AtLeast
  <2> HIDE DEF markdown, says
  <2> QED BY <2>1, <2>2
<1>4. says = "GO" => p >= 2 * f
  BY <1>1 DEF GoPivotNogo, AtLeast
<1>5. Worth(GoPivotNogo(p + 1, f, t + 1)) >= Worth(says)
  BY <1>1 DEF Worth, GoPivotNogo, AtLeast
<1> QED BY <1>2, <1>3, <1>4, <1>5 DEF p, f, t

\* Of a positive value, near the paper's is within the tolerance; no other value is near.
LEMMA CloseIsWithin ==
  ASSUME NEW c \in ReportClaim
  PROVE  /\ FairlyClose(c) => WithinTolerance(c)
         /\ c.paper > 0 /\ WithinTolerance(c) => FairlyClose(c)
<1>1. c.paper \in Int /\ c.ours \in Int
  BY DEF ReportClaim
<1>2. Distance(c) \in Nat
  BY <1>1 DEF Distance
<1> QED BY <1>1, <1>2 DEF FairlyClose, WithinTolerance

LEMMA ComparisonAgrees ==
  ASSUME ReportsTyped
  PROVE  /\ PaperVerdict = "SUCCESS" => \A i \in DOMAIN claims : claims[i].paper > 0 => FairlyClose(claims[i])
         /\ PaperVerdict = "FAILURE" => 2 * Cardinality({i \in DOMAIN claims : FairlyClose(claims[i])}) < Len(claims)
<1> DEFINE within == {i \in DOMAIN claims : WithinTolerance(claims[i])}
           near == {i \in DOMAIN claims : FairlyClose(claims[i])}
           n == Len(claims)
<1>1. n \in Nat /\ DOMAIN claims = 1..n /\ \A i \in 1..n : claims[i] \in ReportClaim
  BY DEF ReportsTyped
<1>2. near \subseteq within /\ within \subseteq 1..n
  BY <1>1, CloseIsWithin
<1>3. IsFiniteSet(1..n) /\ Cardinality(1..n) = n
  BY <1>1, FS_Interval
<1>4. IsFiniteSet(within) /\ Cardinality(near) <= Cardinality(within)
  BY <1>2, <1>3, FS_Subset
<1>5. IsFiniteSet(near) /\ Cardinality(near) \in Nat /\ Cardinality(within) \in Nat
  BY <1>2, <1>4, FS_Subset, FS_CardinalityType
<1>6. Cardinality(within) = n => within = 1..n
  BY <1>2, <1>3, FS_Subset
<1>7. /\ PaperVerdict = "SUCCESS" => Cardinality(within) = n
      /\ PaperVerdict = "FAILURE" => 2 * Cardinality(within) < n
  <2>1. PaperVerdict = CASE claims = <<>> -> "INCONCLUSIVE"
                         [] claims # <<>> /\ Cardinality(within) = n -> "SUCCESS"
                         [] Cardinality(within) < n /\ 2 * Cardinality(within) >= n -> "PARTIAL"
                         [] OTHER -> "FAILURE"
    BY DEF PaperVerdict
  <2>2. Cardinality(within) <= n
    BY <1>2, <1>3, FS_Subset
  <2> HIDE DEF within, n
  <2>3. CASE claims = <<>>
    BY <2>1, <2>3
  <2>4. CASE claims # <<>>
    BY <1>1, <1>5, <2>1, <2>2, <2>4
  <2> QED BY <2>3, <2>4
<1>8. ASSUME Cardinality(within) = n, NEW i \in DOMAIN claims, claims[i].paper > 0
      PROVE  FairlyClose(claims[i])
  <2>1. WithinTolerance(claims[i])
    BY <1>1, <1>6, <1>8
  <2> QED BY <1>1, <1>8, <2>1, CloseIsWithin
<1>9. 2 * Cardinality(within) < n => 2 * Cardinality(near) < n
  BY <1>1, <1>4, <1>5
<1> QED BY <1>7, <1>8, <1>9

\* A mean rounded to the nearest place is at most half a place outside what the mean is within.
LEMMA RoundedBetween ==
  ASSUME NEW sum \in Int, NEW count \in Nat \ {0}, NEW lo \in Int, NEW hi \in Int,
         lo * count <= sum, sum <= hi * count, NEW m \in RoundedMeans(sum, count)
  PROVE  2 * lo - Place4 <= 2 * Place4 * m /\ 2 * Place4 * m <= 2 * hi + Place4
<1>1. Place4 \in Nat \ {0} /\ Place4 * count \in Nat \ {0}
  BY ReportsAssumption
<1>2. m \in Int /\ 2 * (Place4 * m * count - sum) <= Place4 * count
      /\ 2 * (sum - Place4 * m * count) <= Place4 * count
  <2> DEFINE unit == Place4 * count
  <2>1. sum \div unit \in Int
    <3> HIDE DEF unit
    <3>1. unit \in Nat \ {0} => sum \div unit \in Int
      OBVIOUS
    <3> QED BY <1>1, <3>1 DEF unit
  <2> HIDE DEF unit
  <2>2. m \in {sum \div unit, (sum \div unit) + 1}
    BY DEF RoundedMeans, unit
  <2>3. m \in Int
    BY <2>1, <2>2
  <2>4. 2 * (Place4 * m * count - sum) <= Place4 * count /\ 2 * (sum - Place4 * m * count) <= Place4 * count
    BY DEF RoundedMeans
  <2> QED BY <2>3, <2>4
<1> DEFINE above == 2 * Place4 * m - 2 * lo + Place4
           under == 2 * hi + Place4 - 2 * Place4 * m
<1>3. above \in Int /\ under \in Int
  BY <1>1, <1>2
<1>4. above * count = 2 * (Place4 * m * count) - 2 * (lo * count) + Place4 * count
  BY <1>1, <1>2
<1>5. under * count = 2 * (hi * count) + Place4 * count - 2 * (Place4 * m * count)
  BY <1>1, <1>2
<1>6. above * count >= 0 /\ under * count >= 0
  <2>1. Place4 * m * count \in Int /\ lo * count \in Int /\ hi * count \in Int
    BY <1>1, <1>2
  <2> HIDE DEF above, under
  <2> QED BY <1>1, <1>2, <1>4, <1>5, <2>1
<1> HIDE DEF above, under
<1>7. above >= 0 /\ under >= 0
  BY <1>3, <1>6
<1> QED BY <1>1, <1>2, <1>7 DEF above, under

LEMMA AggregateBetween ==
  ASSUME ReportsTyped
  PROVE  LET report == MetricReport
         IN  \A m \in report.means : 2 * report.min - Place4 <= 2 * Place4 * m
                                    /\ 2 * Place4 * m <= 2 * report.max + Place4
<1> DEFINE n == Len(sample)
           T == {i \in DOMAIN sample : sample[i].is # "absent"}
           values == {sample[i].value : i \in T}
           x == [i \in 1..n |-> sample[i].value]
           sum == CHOOSE f : f = [i \in 0..n |->
                    IF i = 0 THEN 0 ELSE IF i \in T THEN f[i - 1] + sample[i].value ELSE f[i - 1]]
<1>1. n \in Nat /\ DOMAIN sample = 1..n /\ \A i \in 1..n : sample[i] \in Sample
  BY DEF ReportsTyped
<1>2. T \in SUBSET (1..n) /\ x \in [1..n -> Int] /\ \A i \in 1..n : x[i] = sample[i].value
  BY <1>1 DEF Sample
<1>3. values = {x[i] : i \in T}
  BY <1>2
<1>4. MetricReport = IF T # {} /\ \A i \in T : sample[i].is = "number"
                     THEN [means |-> RoundedMeans(sum[n], Cardinality(T)), min |-> Min(values), max |-> Max(values)]
                     ELSE [means |-> {}, min |-> 0, max |-> 0]
  BY DEF MetricReport
<1>5. CASE ~(T # {} /\ \A i \in T : sample[i].is = "number")
  <2>1. MetricReport = [means |-> {}, min |-> 0, max |-> 0]
    BY <1>4, <1>5
  <2> QED BY <2>1
<1>6. CASE T # {} /\ \A i \in T : sample[i].is = "number"
  <2>1. MetricReport = [means |-> RoundedMeans(sum[n], Cardinality(T)), min |-> Min(values), max |-> Max(values)]
    BY <1>4, <1>6
  <2> HIDE DEF n, T, values, x
  <2>2. PICK f : Sums(f, n, x, T)
    BY <1>1, <1>2, SumDefined
  <2>3. f = [i \in 0..n |-> IF i = 0 THEN 0 ELSE IF i \in T THEN f[i - 1] + sample[i].value ELSE f[i - 1]]
    <3>1. f = [i \in 0..n |-> IF i = 0 THEN 0 ELSE IF i \in T THEN f[i - 1] + x[i] ELSE f[i - 1]]
      BY <2>2 DEF Sums
    <3>2. \A i \in 0..n : i \in T => x[i] = sample[i].value
      BY <1>2
    <3> QED BY <3>1, <3>2
  <2>4. sum = [i \in 0..n |-> IF i = 0 THEN 0 ELSE IF i \in T THEN sum[i - 1] + sample[i].value ELSE sum[i - 1]]
    BY <2>3, Zenon
  <2> HIDE DEF sum
  <2>5. Sums(sum, n, x, T)
    <3>1. \A i \in 0..n : i \in T => x[i] = sample[i].value
      BY <1>2
    <3>2. sum = [i \in 0..n |-> IF i = 0 THEN 0 ELSE IF i \in T THEN sum[i - 1] + x[i] ELSE sum[i - 1]]
      BY <2>4, <3>1
    <3> QED BY <3>2 DEF Sums
  <2>6. Min(values) \in Int /\ \A i \in T : Min(values) <= x[i]
    <3>1. PICK i \in T : \A j \in T : x[i] <= x[j]
      BY <1>1, <1>2, <1>6, LeastOf
    <3>2. \E v \in values : \A w \in values : v <= w
      BY <1>3, <3>1
    <3>3. Min(values) \in values /\ \A w \in values : Min(values) <= w
      BY <3>2, Zenon DEF Min
    <3> QED BY <1>2, <1>3, <3>3
  <2>7. Max(values) \in Int /\ \A i \in T : x[i] <= Max(values)
    <3> DEFINE y == [i \in 1..n |-> -x[i]]
    <3>1. y \in [1..n -> Int] /\ \A i \in 1..n : y[i] = -x[i]
      BY <1>2
    <3> HIDE DEF y
    <3>2. PICK i \in T : \A j \in T : y[i] <= y[j]
      BY <1>1, <1>2, <1>6, <3>1, LeastOf
    <3>3. \A j \in T : x[i] >= x[j]
      BY <1>2, <3>1, <3>2
    <3>4. \E v \in values : \A w \in values : v >= w
      BY <1>3, <3>3
    <3>5. Max(values) \in values /\ \A w \in values : Max(values) >= w
      BY <3>4, Zenon DEF Max
    <3> QED BY <1>2, <1>3, <3>5
  <2> DEFINE lo == Min(values)
             hi == Max(values)
  <2>8. sum[n] \in Int /\ lo * Cardinality(T) <= sum[n] /\ sum[n] <= hi * Cardinality(T)
    <3>1. lo \in Int /\ hi \in Int /\ \A i \in T : lo <= x[i] /\ x[i] <= hi
      BY <2>6, <2>7
    <3> HIDE DEF lo, hi
    <3> QED BY <1>1, <1>2, <2>5, <3>1, SumBetween
  <2>9. Cardinality(T) \in Nat \ {0}
    <3>1. IsFiniteSet(1..n)
      BY <1>1, FS_Interval
    <3>2. IsFiniteSet(T)
      BY <1>2, <3>1, FS_Subset
    <3> QED BY <1>6, <3>2, FS_CardinalityType, FS_EmptySet
  <2>10. lo \in Int /\ hi \in Int
    BY <2>6, <2>7
  <2> HIDE DEF lo, hi
  <2>11. ASSUME NEW m \in RoundedMeans(sum[n], Cardinality(T))
         PROVE  2 * lo - Place4 <= 2 * Place4 * m /\ 2 * Place4 * m <= 2 * hi + Place4
    BY <2>8, <2>9, <2>10, RoundedBetween
  <2> QED BY <2>1, <2>11 DEF lo, hi
<1> QED BY <1>5, <1>6

\* For any number of rows and of metrics, with any values: the two verdicts on the tasks agree
\* and grow with what passed, a comparison calls SUCCESS and FAILURE what is, and a rounded
\* mean is within half a place of the extremes it is printed with (report_generator.py).
THEOREM VerdictsAlwaysFollow == ReportsSpec => []VerdictsFollow
<1>1. ReportsTyped => VerdictsFollow
  BY TasksAgree, ComparisonAgrees, AggregateBetween DEF VerdictsFollow
<1> QED BY <1>1, ReportsTypedInit, ReportsTypedStep, PTL DEF ReportsSpec

-----------------------------------------------------------------------------
(* Write boundary: resolved paths, and answers that still hold *)

Location == Seq(Name)
LinksTyped == \A p \in DOMAIN links : links[p] \in Location

\* A name further.
Further(v, name) ==
  IF name = ".." THEN IF v = <<>> THEN <<>> ELSE Front(v)
  ELSE LET to == Append(v, name) IN IF to \in DOMAIN links THEN links[to] ELSE to

LEMMA FurtherTyped ==
  ASSUME LinksTyped, NEW v \in Location, NEW name \in Name
  PROVE  Further(v, name) \in Location
<1>1. CASE name = ".."
  <2>1. CASE v = <<>>
    BY <1>1, <2>1 DEF Further, Location
  <2>2. CASE v # <<>>
    <3>1. Len(v) \in Nat /\ Len(v) # 0
      BY <2>2 DEF Location
    <3>2. Front(v) = SubSeq(v, 1, Len(v) - 1)
      BY DEF Front
    <3>3. SubSeq(v, 1, Len(v) - 1) \in Seq(Name)
      BY <3>1 DEF Location
    <3> QED BY <1>1, <2>2, <3>2, <3>3 DEF Further, Location
  <2> QED BY <2>1, <2>2
<1>2. CASE name # ".."
  <2>1. Append(v, name) \in Location
    BY DEF Location
  <2> QED BY <1>2, <2>1 DEF Further, LinksTyped
<1> QED BY <1>1, <1>2

\* The loop of Resolve.
Reaches(f, place) == f = [n \in 0..Len(place) |-> IF n = 0 THEN <<>> ELSE Further(f[n - 1], place[n])]

LEMMA ResolveReaches ==
  ASSUME LinksTyped, NEW place \in Location
  PROVE  \E f : Reaches(f, place) /\ Resolve(place) = f[Len(place)]
                /\ \A n \in 0..Len(place) : f[n] \in Location
<1> DEFINE n == Len(place)
           V == Location
           first == <<>>
           step == [i \in 1..n |-> [v \in V |-> Further(v, place[i])]]
           reached == CHOOSE f : f = [i \in 0..n |->
                        IF i = 0 THEN <<>>
                        ELSE IF place[i] = ".." THEN IF f[i - 1] = <<>> THEN <<>> ELSE Front(f[i - 1])
                        ELSE LET to == Append(f[i - 1], place[i])
                             IN  IF to \in DOMAIN links THEN links[to] ELSE to]
<1>1. n \in Nat /\ \A i \in 1..n : place[i] \in Name
  BY DEF Location
<1>2. first \in V
  BY DEF Location
<1>3. \A i \in 1..n : \A v \in V : step[i][v] = Further(v, place[i]) /\ step[i][v] \in V
  BY <1>1, FurtherTyped
<1> HIDE DEF n, V, first, step
<1>4. PICK f : LoopOf(f, n, first, step) /\ \A i \in 0..n : f[i] \in V
  BY <1>1, <1>2, <1>3, LoopDefined
<1>5. f = [i \in 0..n |-> IF i = 0 THEN <<>> ELSE Further(f[i - 1], place[i])]
  <2>1. \A i \in 0..n : i # 0 => i \in 1..n /\ i - 1 \in 0..n
    BY <1>1
  <2>2. \A i \in 0..n : i # 0 => step[i][f[i - 1]] = Further(f[i - 1], place[i])
    BY <1>3, <1>4, <2>1
  <2>3. f = [i \in 0..n |-> IF i = 0 THEN first ELSE step[i][f[i - 1]]]
    BY <1>4 DEF LoopOf
  <2> QED BY <2>2, <2>3 DEF first
<1>6. \E g : g = [i \in 0..n |->
                   IF i = 0 THEN <<>>
                   ELSE IF place[i] = ".." THEN IF g[i - 1] = <<>> THEN <<>> ELSE Front(g[i - 1])
                   ELSE LET to == Append(g[i - 1], place[i])
                        IN  IF to \in DOMAIN links THEN links[to] ELSE to]
  BY <1>5 DEF Further
<1>7. reached = [i \in 0..n |->
                   IF i = 0 THEN <<>>
                   ELSE IF place[i] = ".." THEN IF reached[i - 1] = <<>> THEN <<>> ELSE Front(reached[i - 1])
                   ELSE LET to == Append(reached[i - 1], place[i])
                        IN  IF to \in DOMAIN links THEN links[to] ELSE to]
  BY <1>6, Zenon
<1>8. Resolve(place) = reached[n]
  BY DEF Resolve, n
<1> HIDE DEF reached
<1>9. reached = [i \in 0..n |-> IF i = 0 THEN <<>> ELSE Further(reached[i - 1], place[i])]
  BY <1>7 DEF Further
<1>10. \A i \in 0..n : reached[i] \in V
  <2> DEFINE S == {i \in 0..n : reached[i] \in V}
  <2>1. 0 \in S
    BY <1>1, <1>2, <1>9 DEF first
  <2>2. ASSUME NEW k \in 0..n - 1, k \in S PROVE k + 1 \in S
    <3>1. k + 1 \in 0..n /\ k + 1 # 0 /\ (k + 1) - 1 = k /\ place[k + 1] \in Name
      BY <1>1
    <3>2. reached[k + 1] = Further(reached[k], place[k + 1])
      BY <1>9, <3>1
    <3>3. reached[k] \in Location
      BY <2>2 DEF V
    <3>4. reached[k + 1] \in V
      BY <3>1, <3>2, <3>3, FurtherTyped DEF V
    <3> QED BY <3>1, <3>4
  <2> HIDE DEF S
  <2>3. \A k \in 0..n - 1 : k \in S => k + 1 \in S
    BY <2>2
  <2>4. \A k \in 0..n : k \in S
    BY <1>1, <2>1, <2>3, UpTo
  <2> QED BY <2>4 DEF S
<1> QED BY <1>8, <1>9, <1>10 DEF Reaches, n, V

\* A path without `..` that meets no link is where it says.
LEMMA PlainPath ==
  ASSUME LinksTyped, NEW place \in Location, ~ClimbsUp(place), ~MeetsLink(place)
  PROVE  Resolve(place) = place
<1> DEFINE n == Len(place)
<1>1. PICK f : Reaches(f, place) /\ Resolve(place) = f[n]
  BY ResolveReaches
<1>2. n \in Nat /\ DOMAIN place = 1..n /\ \A i \in 1..n : place[i] \in Name
  BY DEF Location
<1>3. \A i \in 0..n : f[i] = IF i = 0 THEN <<>> ELSE Further(f[i - 1], place[i])
  BY <1>1 DEF Reaches
<1> DEFINE S == {k \in 0..n : f[k] = SubSeq(place, 1, k)}
<1>4. 0 \in S
  <2>1. SubSeq(place, 1, 0) = <<>>
    BY DEF Location
  <2>2. 0 \in 0..n
    BY <1>2
  <2>3. f[0] = <<>>
    BY <1>3, <2>2
  <2> HIDE DEF n
  <2> QED BY <2>1, <2>2, <2>3
<1>5. ASSUME NEW k \in 0..n - 1, k \in S PROVE k + 1 \in S
  <2>1. k + 1 \in 1..n /\ k + 1 \in 0..n /\ k + 1 # 0 /\ (k + 1) - 1 = k
    BY <1>2
  <2>2. f[k + 1] = Further(SubSeq(place, 1, k), place[k + 1])
    BY <1>3, <1>5, <2>1
  <2>3. place[k + 1] # ".."
    BY <1>2, <2>1 DEF ClimbsUp
  <2>4. Append(SubSeq(place, 1, k), place[k + 1]) = SubSeq(place, 1, k + 1)
    BY <1>2, <2>1 DEF Location
  <2>5. SubSeq(place, 1, k + 1) \notin DOMAIN links
    BY <2>1 DEF MeetsLink
  <2>6. f[k + 1] = SubSeq(place, 1, k + 1)
    BY <2>2, <2>3, <2>4, <2>5 DEF Further
  <2> QED BY <2>1, <2>6
<1>6. SubSeq(place, 1, n) = place
  BY <1>2 DEF Location
<1> HIDE DEF S, n
<1>7. \A k \in 0..n - 1 : k \in S => k + 1 \in S
  BY <1>5
<1>8. \A k \in 0..n : k \in S
  BY <1>2, <1>4, <1>7, UpTo
<1>9. n \in S
  BY <1>2, <1>8
<1> QED BY <1>1, <1>6, <1>9 DEF S

Question == [judge : {"nobody", "policy", "contract", "task:run", "task:stop", "task:delete"},
        path : [abs : BOOLEAN, parts : Location], cwd : Location, root : {Project, Alias, <<>>}, says : {"yes", "no"}]
BoundaryTyped ==
  /\ LinksTyped /\ asked \in Question /\ contractDoc.roots \subseteq Location

\* As long as nothing has changed, the answer given is the one that would be given now.
StillHolds ==
  ~stale /\ asked.says = "yes" =>
    /\ asked.judge = "policy" => BoundaryAllows(asked.path) /\ asked.cwd = Project
    /\ asked.judge = "contract" =>
         asked.root \in {Project, Alias} /\ CheckWritePath(asked.path, asked.cwd, asked.root)
LandsAsAsked ==
  landed # <<>> =>
    /\ asked.says = "yes"
    /\ ~stale => landed = Resolve(From(asked.cwd, asked.path))
BoundaryInv == BoundaryTyped /\ StillHolds /\ LandsAsAsked

LEMMA BoundaryInvInit == BoundaryInit => BoundaryInv
<1> SUFFICES ASSUME BoundaryInit PROVE BoundaryInv
  OBVIOUS
<1>1. <<>> \in Location
  BY DEF Location
<1>2. NoQuestion \in Question
  BY <1>1 DEF NoQuestion, Question
<1> QED BY <1>2 DEF BoundaryInit, BoundaryInv, BoundaryTyped, LinksTyped, NoContract, NoQuestion, StillHolds, LandsAsAsked

\* Where links do not change, paths lead where they led.
LEMMA SamePlace == ASSUME UNCHANGED links, NEW p PROVE Resolve(p)' = Resolve(p)
BY DEF Resolve

\* What is said depends on the links, the contract and the day only.
LEMMA SameAnswer ==
  ASSUME UNCHANGED <<links, day, contractDoc>>, NEW path, NEW cwd, NEW root
  PROVE  BoundaryAllows(path)' = BoundaryAllows(path) /\ CheckWritePath(path, cwd, root)' = CheckWritePath(path, cwd, root)
BY DEF BoundaryAllows, JudgedParts, CheckWritePath, IsActive, From, Within, Resolve

\* Whatever changes what was asked about says so.
LEMMA ChangeIsNoted ==
  ASSUME BoundaryInv, stale', UNCHANGED <<asked, landed>>, BoundaryTyped'
  PROVE  BoundaryInv'
BY DEF BoundaryInv, StillHolds, LandsAsAsked

LEMMA BoundaryInvStep == BoundaryInv /\ [BoundaryNext]_boundaryVars => BoundaryInv'
<1> SUFFICES ASSUME BoundaryInv, [BoundaryNext]_boundaryVars PROVE BoundaryInv'
  OBVIOUS
<1> USE WriteBoundaryAssumption
<1>0. BoundaryTyped /\ Project \in Location /\ Alias \in Location /\ <<"away">> \in Location /\ <<>> \in Location
  BY DEF BoundaryInv, Project, Alias, Location
<1>1. ASSUME NEW l \in LinkTo, MakeLink(l) PROVE BoundaryInv'
  <2>1. l.to \in Location
    BY DEF Location
  <2>2. LinksTyped'
    BY <1>0, <1>1, <2>1 DEF MakeLink, BoundaryTyped, LinksTyped
  <2> QED BY <1>0, <1>1, <2>2, ChangeIsNoted DEF MakeLink, BoundaryTyped
<1>2. ASSUME NEW p \in DOMAIN links, RemoveLink(p) PROVE BoundaryInv'
  <2>1. LinksTyped'
    BY <1>0, <1>2 DEF RemoveLink, BoundaryTyped, LinksTyped
  <2> QED BY <1>0, <1>2, <2>1, ChangeIsNoted DEF RemoveLink, BoundaryTyped
<1>3. CASE DayPasses
  BY <1>0, <1>3, ChangeIsNoted DEF DayPasses, BoundaryTyped, LinksTyped
<1>4. CASE Revoke
  <2>1. contractDoc'.roots = contractDoc.roots
    BY <1>4 DEF Revoke
  <2> QED BY <1>0, <1>4, <2>1, ChangeIsNoted DEF Revoke, BoundaryTyped, LinksTyped
<1>5. ASSUME NEW valid \in BOOLEAN, NEW state \in {"active", "revoked"}, NEW expires \in {"garbled", "dated"},
             NEW roots \in RootList, LoadContract(valid, state, expires, roots)
      PROVE  BoundaryInv'
  <2>1. contractDoc'.roots \subseteq Location
    BY <1>5 DEF LoadContract, NoContract, Location
  <2> QED BY <1>0, <1>5, <2>1, ChangeIsNoted DEF LoadContract, BoundaryTyped, LinksTyped
<1>6. CASE Write
  <2>1. BoundaryTyped' /\ StillHolds'
    <3>1. UNCHANGED <<links, day, contractDoc, asked, stale>>
      BY <1>6 DEF Write
    <3>2. StillHolds
      BY DEF BoundaryInv
    <3>3. StillHolds'
      <4>1. BoundaryAllows(asked.path)' = BoundaryAllows(asked.path)
        BY <3>1, SameAnswer
      <4> QED BY <3>1, <3>2, <4>1, SameAnswer DEF StillHolds
    <3> QED BY <1>0, <3>1, <3>3 DEF BoundaryTyped, LinksTyped
  <2>2. LandsAsAsked'
    <3>1. UNCHANGED <<links, asked>> /\ asked.says = "yes" /\ landed' = Resolve(From(asked.cwd, asked.path))
      BY <1>6 DEF Write
    <3>2. (Resolve(From(asked.cwd, asked.path)))' = Resolve(From(asked.cwd, asked.path))
      <4>1. UNCHANGED <<links, asked>>
        BY <3>1
      <4> QED BY <4>1 DEF Resolve, From
    <3> QED BY <3>1, <3>2 DEF LandsAsAsked
  <2> QED BY <2>1, <2>2 DEF BoundaryInv
<1>7. ASSUME NEW path \in AnyPath, AskPolicy(path) PROVE BoundaryInv'
  <2>1. /\ UNCHANGED <<links, day, contractDoc, landed>> /\ asked = NoQuestion /\ ~stale'
        /\ asked' = [judge |-> "policy", path |-> path, cwd |-> Project, root |-> Project,
                     says |-> IF BoundaryAllows(path) THEN "yes" ELSE "no"]
    BY <1>7 DEF AskPolicy
  <2>2. BoundaryTyped'
    BY <1>0, <2>1 DEF BoundaryTyped, LinksTyped, Question, Location
  <2>3. landed' = <<>>
    BY <2>1 DEF BoundaryInv, LandsAsAsked, NoQuestion
  <2>4. BoundaryAllows(path)' = BoundaryAllows(path)
    BY <2>1, SameAnswer
  <2>5. /\ asked'.path = path /\ asked'.cwd = Project /\ asked'.judge = "policy"
        /\ asked'.says = "yes" => BoundaryAllows(path)
    BY <2>1
  <2>6. StillHolds'
    BY <2>4, <2>5 DEF StillHolds
  <2> QED BY <2>2, <2>3, <2>6 DEF BoundaryInv, LandsAsAsked
<1>8. ASSUME NEW path \in AnyPath, NEW cwd \in {Project, <<"away">>}, NEW root \in {Project, Alias},
             AskContract(path, cwd, root)
      PROVE  BoundaryInv'
  <2>1. /\ UNCHANGED <<links, day, contractDoc, landed>> /\ asked = NoQuestion /\ ~stale'
        /\ asked' = [judge |-> "contract", path |-> path, cwd |-> cwd, root |-> root,
                     says |-> IF CheckWritePath(path, cwd, root) THEN "yes" ELSE "no"]
    BY <1>8 DEF AskContract
  <2>2. BoundaryTyped'
    BY <1>0, <2>1 DEF BoundaryTyped, LinksTyped, Question, Location
  <2>3. landed' = <<>>
    BY <2>1 DEF BoundaryInv, LandsAsAsked, NoQuestion
  <2>4. CheckWritePath(path, cwd, root)' = CheckWritePath(path, cwd, root)
    BY <2>1, SameAnswer
  <2>5. /\ asked'.path = path /\ asked'.cwd = cwd /\ asked'.root = root /\ asked'.judge = "contract"
        /\ asked'.says = "yes" => CheckWritePath(path, cwd, root)
    BY <2>1
  <2>6. StillHolds'
    BY <2>4, <2>5 DEF StillHolds
  <2> QED BY <2>2, <2>3, <2>6 DEF BoundaryInv, LandsAsAsked
<1>9. ASSUME NEW action \in {"task:run", "task:stop", "task:delete"}, AskAction(action) PROVE BoundaryInv'
  <2>1. /\ UNCHANGED <<links, contractDoc, landed>> /\ asked = NoQuestion
        /\ asked' = [NoQuestion EXCEPT !.judge = action, !.says = IF CheckAction(action) THEN "yes" ELSE "no"]
    BY <1>9 DEF AskAction
  <2>2. asked' \in Question /\ asked'.judge = action
    BY <1>0, <2>1 DEF Question, NoQuestion
  <2>3. landed' = <<>>
    BY <2>1 DEF BoundaryInv, LandsAsAsked, NoQuestion
  <2>4. BoundaryTyped'
    BY <1>0, <2>1, <2>2 DEF BoundaryTyped, LinksTyped
  <2> QED BY <2>2, <2>3, <2>4 DEF BoundaryInv, StillHolds, LandsAsAsked
<1>10. CASE UNCHANGED boundaryVars
  <2>1. UNCHANGED <<links, day, contractDoc, asked, stale, landed>>
    BY <1>10 DEF boundaryVars
  <2>2. /\ (Resolve(From(asked.cwd, asked.path)))' = Resolve(From(asked.cwd, asked.path))
        /\ BoundaryAllows(asked.path)' = BoundaryAllows(asked.path)
        /\ CheckWritePath(asked.path, asked.cwd, asked.root)' = CheckWritePath(asked.path, asked.cwd, asked.root)
    BY <2>1 DEF Resolve, From, BoundaryAllows, JudgedParts, CheckWritePath, IsActive, Within
  <2> QED BY <2>1, <2>2 DEF BoundaryInv, BoundaryTyped, LinksTyped, StillHolds, LandsAsAsked
<1> QED BY <1>1, <1>2, <1>3, <1>4, <1>5, <1>6, <1>7, <1>8, <1>9, <1>10 DEF BoundaryNext

\* A place in a directory is one of the names behind it.
LEMMA WithinIs ==
  ASSUME NEW place \in Location, NEW root \in Location
  PROVE  Within(place, root) <=> Len(root) <= Len(place) /\ \A i \in 1..Len(root) : place[i] = root[i]
<1>1. SubSeq(root, 1, Len(root)) = root
  BY DEF Location
<1>2. ASSUME Len(root) <= Len(place)
      PROVE  SubSeq(place, 1, Len(root)) = root <=> \A i \in 1..Len(root) : place[i] = root[i]
  <2>1. SubSeq(place, 1, Len(root)) = [i \in 1..Len(root) |-> place[i]]
    BY <1>2 DEF Location
  <2>2. root = [i \in 1..Len(root) |-> root[i]]
    BY DEF Location
  <2> QED BY <2>1, <2>2
<1> QED BY <1>1, <1>2 DEF Within, IsPrefix

LEMMA ResolvedIsPlace == ASSUME LinksTyped, NEW place \in Location PROVE Resolve(place) \in Location
BY ResolveReaches DEF Location

\* A path behind one name.
LEMMA BehindName ==
  ASSUME NEW a \in Name, NEW s \in Location
  PROVE  /\ <<a>> \o s \in Location /\ Len(<<a>> \o s) = Len(s) + 1 /\ (<<a>> \o s)[1] = a
         /\ \A i \in 1..Len(s) : (<<a>> \o s)[i + 1] = s[i]
<1>1. <<a>> \in Seq(Name) /\ s \in Seq(Name) /\ Len(<<a>>) = 1 /\ Len(s) \in Nat
  BY DEF Location
<1>2. <<a>> \o s \in Seq(Name) /\ Len(<<a>> \o s) = Len(s) + 1
  BY <1>1
<1>3. \A i \in 1..Len(s) + 1 : (<<a>> \o s)[i] = IF i <= 1 THEN <<a>>[i] ELSE s[i - 1]
  BY <1>1
<1>4. (<<a>> \o s)[1] = a
  BY <1>1, <1>3
<1>5. ASSUME NEW i \in 1..Len(s) PROVE (<<a>> \o s)[i + 1] = s[i]
  <2>1. i + 1 \in 1..Len(s) + 1 /\ ~(i + 1 <= 1) /\ (i + 1) - 1 = i
    BY <1>1
  <2> QED BY <1>3, <2>1
<1> QED BY <1>2, <1>4, <1>5 DEF Location

\* Parts in order, behind the project, are a safe place.
LEMMA SafeParts ==
  ASSUME NEW place \in Location, NEW parts \in Location, Len(place) = Len(parts) + 1, place[1] = "proj",
         \A i \in 1..Len(parts) : parts[i] = place[i + 1],
         parts # <<>>, parts[1] \in SafeTop, \A i \in DOMAIN parts : parts[i] \notin ForbiddenName
  PROVE  /\ Len(place) > 1 /\ Within(place, Project) /\ place[2] \in SafeTop
         /\ \A i \in 3..Len(place) : place[i] \notin ForbiddenName
<1>1. Len(parts) \in Nat \ {0} /\ DOMAIN parts = 1..Len(parts) /\ Len(place) \in Nat
  BY DEF Location
<1>2. Project \in Location /\ Len(Project) = 1 /\ Project[1] = "proj"
  BY WriteBoundaryAssumption DEF Project, Location
<1>3. Within(place, Project)
  BY <1>1, <1>2, WithinIs
<1>4. place[2] = parts[1]
  BY <1>1
<1>5. ASSUME NEW i \in 3..Len(place) PROVE place[i] \notin ForbiddenName
  <2>1. i - 1 \in 1..Len(parts) /\ (i - 1) + 1 = i
    BY <1>1
  <2>2. parts[i - 1] = place[i]
    BY <2>1
  <2> QED BY <1>1, <2>1, <2>2
<1> QED BY <1>1, <1>3, <1>4, <1>5

\* An allowed path of the policy lands in a safe directory, unless it climbs or meets a link.
LEMMA PolicyLands ==
  ASSUME BoundaryTyped, BoundaryAllows(asked.path), asked.cwd = Project,
         landed = Resolve(From(asked.cwd, asked.path))
  PROVE  LET way == From(asked.cwd, asked.path)
         IN  \/ Len(landed) > 1 /\ Within(landed, Project) /\ landed[2] \in SafeTop
                  /\ \A i \in 3..Len(landed) : landed[i] \notin ForbiddenName
             \/ ~asked.path.abs /\ (MeetsLink(way) \/ ClimbsUp(way))
<1> DEFINE path == asked.path
           way == From(asked.cwd, path)
           parts == JudgedParts(path)
<1>1. path.parts \in Location /\ Project \in Location /\ Len(Project) = 1 /\ Project[1] = "proj" /\ LinksTyped
  BY WriteBoundaryAssumption DEF BoundaryTyped, Question, Project, Location
<1>2. parts # <<>> /\ parts[1] \in SafeTop /\ \A i \in DOMAIN parts : parts[i] \notin ForbiddenName
  BY DEF BoundaryAllows
<1>3. CASE path.abs
  <2>1. way = path.parts
    BY <1>3 DEF From
  <2>2. landed \in Location
    BY <1>1, <2>1, ResolvedIsPlace
  <2>3. Within(landed, Project)
    BY <1>3, <2>1 DEF BoundaryAllows
  <2>4. Len(landed) \in Nat /\ 1 <= Len(landed) /\ landed[1] = "proj"
    <3>1. Len(Project) <= Len(landed) /\ \A i \in 1..Len(Project) : landed[i] = Project[i]
      BY <1>1, <2>2, <2>3, WithinIs
    <3>2. Len(landed) \in Nat
      BY <2>2 DEF Location
    <3>3. 1 \in 1..Len(Project)
      BY <1>1
    <3> QED BY <1>1, <3>1, <3>2, <3>3
  <2>5. parts = SubSeq(landed, 2, Len(landed))
    BY <1>1, <1>3, <2>1 DEF JudgedParts
  <2>6. parts \in Location /\ Len(parts) = Len(landed) - 1 /\ \A i \in 1..Len(parts) : parts[i] = landed[i + 1]
    BY <2>2, <2>4, <2>5 DEF Location
  <2>7. Len(landed) = Len(parts) + 1
    BY <2>4, <2>6
  <2> HIDE DEF parts
  <2> QED BY <1>2, <2>2, <2>4, <2>6, <2>7, SafeParts
<1>4. CASE ~path.abs /\ ~MeetsLink(way) /\ ~ClimbsUp(way)
  <2>1. way = Project \o path.parts
    BY <1>4 DEF From
  <2>2. /\ way \in Location /\ Len(way) = Len(path.parts) + 1 /\ way[1] = "proj"
        /\ \A i \in 1..Len(path.parts) : way[i + 1] = path.parts[i]
    <3> DEFINE s == path.parts
               a == "proj"
    <3>1. a \in Name /\ s \in Location /\ way = <<a>> \o s
      BY <1>1, <2>1, WriteBoundaryAssumption DEF Project
    <3> HIDE DEF s, a, way
    <3>2. way \in Location /\ Len(way) = Len(s) + 1 /\ way[1] = a /\ \A i \in 1..Len(s) : way[i + 1] = s[i]
      BY <3>1, BehindName
    <3> QED BY <3>2 DEF s, a
  <2>3. landed = way
    BY <1>1, <1>4, <2>2, PlainPath
  <2>4. parts = path.parts
    BY <1>4 DEF JudgedParts
  <2> HIDE DEF parts, way
  <2> QED BY <1>1, <1>2, <2>2, <2>3, <2>4, SafeParts
<1> QED BY <1>3, <1>4

\* Nor does one of the contract, and a path spelled out is judged as the relative one unless
\* the root climbs or meets a link.
LEMMA ContractLands ==
  ASSUME BoundaryTyped, asked.root \in {Project, Alias},
         CheckWritePath(asked.path, asked.cwd, asked.root),
         landed = Resolve(From(asked.cwd, asked.path))
  PROVE  LET way == From(asked.cwd, asked.path)
         IN  /\ contractDoc.state = "active" /\ (contractDoc.expires # 0 => day <= contractDoc.expires)
             /\ \E r \in contractDoc.roots : Within(landed, Resolve(asked.root \o r))
             /\ \/ CheckWritePath([abs |-> TRUE, parts |-> way], asked.cwd, asked.root)
                \/ \E r \in contractDoc.roots : MeetsLink(asked.root \o r) \/ ClimbsUp(r)
<1> DEFINE path == asked.path
           way == From(asked.cwd, path)
<1>1. LinksTyped /\ contractDoc.roots \subseteq Location
  BY DEF BoundaryTyped
<1>2. IsActive /\ \E r \in contractDoc.roots : Within(landed, Resolve(asked.root \o r))
  BY DEF CheckWritePath
<1>3. contractDoc.state = "active" /\ (contractDoc.expires # 0 => day <= contractDoc.expires)
  BY <1>2 DEF IsActive
<1>4. PICK r \in contractDoc.roots : Within(landed, Resolve(asked.root \o r))
  BY <1>2
<1>5. ASSUME ~MeetsLink(asked.root \o r), ~ClimbsUp(r)
      PROVE  CheckWritePath([abs |-> TRUE, parts |-> way], asked.cwd, asked.root)
  <2>1. asked.root \in {Project, Alias}
    OBVIOUS
  <2>2. asked.root \o r \in Location /\ ~ClimbsUp(asked.root \o r)
    <3>1. PICK a \in {"proj", "alias"} : asked.root = <<a>>
      BY <2>1 DEF Project, Alias
    <3>2. a \in Name /\ a # ".." /\ r \in Location
      BY <1>1, WriteBoundaryAssumption
    <3> DEFINE p == <<a>> \o r
    <3>3. p \in Location /\ Len(p) = Len(r) + 1 /\ p[1] = a /\ \A i \in 1..Len(r) : p[i + 1] = r[i]
      BY <3>2, BehindName
    <3> HIDE DEF p
    <3>4. DOMAIN p = 1..Len(r) + 1 /\ DOMAIN r = 1..Len(r) /\ Len(r) \in Nat
      BY <3>2, <3>3 DEF Location
    <3>5. ASSUME NEW i \in DOMAIN p PROVE p[i] # ".."
      <4>1. CASE i = 1
        BY <3>2, <3>3, <4>1
      <4>2. CASE i # 1
        <5>1. i - 1 \in 1..Len(r) /\ (i - 1) + 1 = i
          BY <3>4, <4>2
        <5>2. p[i] = r[i - 1]
          BY <3>3, <5>1
        <5> QED BY <1>5, <3>4, <5>1, <5>2 DEF ClimbsUp
      <4> QED BY <4>1, <4>2
    <3> QED BY <3>1, <3>3, <3>5 DEF p, ClimbsUp
  <2>3. Resolve(asked.root \o r) = asked.root \o r
    BY <1>1, <1>5, <2>2, PlainPath
  <2>4. From(asked.cwd, [abs |-> TRUE, parts |-> way]) = way
    BY DEF From
  <2> HIDE DEF way
  <2>5. [abs |-> TRUE, parts |-> way].abs
    OBVIOUS
  <2> QED BY <1>2, <1>4, <2>3, <2>4 DEF CheckWritePath, way
<1> QED BY <1>2, <1>3, <1>5

\* For any paths, roots and links, any number of links made or removed and of days: a write
\* that was allowed, and is made before anything changes, lands where the judge meant it to
\* (policy_engine.py, startup/authorization.py); the exceptions are those of the property.
THEOREM AllowedWritesAlwaysLand == BoundarySpec => []AllowedWritesLand
<1>1. BoundaryInv => AllowedWritesLand
  <2> SUFFICES ASSUME BoundaryInv, landed # <<>>, ~stale PROVE AllowedWritesLand
    BY DEF AllowedWritesLand
  <2>1. /\ BoundaryTyped /\ landed = Resolve(From(asked.cwd, asked.path)) /\ asked.says = "yes"
        /\ asked.judge = "policy" => BoundaryAllows(asked.path) /\ asked.cwd = Project
        /\ asked.judge = "contract" =>
             asked.root \in {Project, Alias} /\ CheckWritePath(asked.path, asked.cwd, asked.root)
    BY DEF BoundaryInv, StillHolds, LandsAsAsked
  <2> QED BY <2>1, PolicyLands, ContractLands DEF AllowedWritesLand
<1> QED BY <1>1, BoundaryInvInit, BoundaryInvStep, PTL DEF BoundarySpec
=============================================================================
