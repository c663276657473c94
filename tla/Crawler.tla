------------------------------ MODULE Crawler -------------------------------
(***************************************************************************)
(* The research crawler's cache of one page, two files: the body and its   *)
(* ETag.  Crawlers ask, retry, write and are killed; the page changes on   *)
(* the server, its versions numbered upwards and some without an ETag, and *)
(* is put back to an earlier version, with the ETag it had then.           *)
(*                                                                         *)
(* Depth, whitelist, forbidden patterns, robots and the per-host cap come  *)
(* before the request and leave nothing behind: one refusal stands for     *)
(* all.  Times, rates and the page counters of one process are left out.   *)
(***************************************************************************)
EXTENDS Naturals

CONSTANTS
  Fetcher,      \* crawler processes
  MaxVersion,   \* bound on the versions of the page
  RetryMax      \* retry_max

ASSUME CrawlerAssumption == MaxVersion \in Nat \ {0} /\ RetryMax \in Nat

VARIABLES
  version,      \* the page on the server
  tagged,       \* version -> does the server send an ETag with it?
  body,         \* the .bin file: its version, 0 for no file or a part of one
  etag,         \* the .etag file: the version it names, 0 for no file or an empty one
  fetch,        \* each crawler: its step, the ETag it read, the version it got, its attempts
  overlap,      \* history: two crawlers were at the page at the same time
  putBack,      \* history: the page was put back to an earlier version
  unpaired,     \* history: a body was written over without its ETag, under an older one
  staleHit      \* history: an answer "not modified" met a body that is not the page

crawlerVars == <<version, tagged, body, etag, fetch, overlap, putBack, unpaired, staleHit>>

FetchStep == {"idle", "ask", "body", "fillBody", "etag", "fillEtag"}
Resting == [at |-> "idle", cached |-> 0, got |-> 0, attempt |-> 0]

CrawlerTypeOK ==
  /\ version \in 1..MaxVersion /\ tagged \in [1..MaxVersion -> BOOLEAN]
  /\ body \in 0..MaxVersion /\ etag \in 0..MaxVersion
  /\ fetch \in [Fetcher -> [at : FetchStep, cached : 0..MaxVersion,
                            got : 0..MaxVersion, attempt : 0..RetryMax]]
  /\ overlap \in BOOLEAN /\ putBack \in BOOLEAN /\ unpaired \in BOOLEAN /\ staleHit \in BOOLEAN

CrawlerInit ==
  /\ version = 1 /\ tagged \in [1..MaxVersion -> BOOLEAN]
  /\ body = 0 /\ etag = 0 /\ fetch = [f \in Fetcher |-> Resting]
  /\ overlap = FALSE /\ putBack = FALSE /\ unpaired = FALSE /\ staleHit = FALSE

Publish ==
  /\ version < MaxVersion /\ version' = version + 1
  /\ UNCHANGED <<tagged, body, etag, fetch, overlap, putBack, unpaired, staleHit>>

PutPageBack ==
  /\ \E old \in 1..MaxVersion : old < version /\ version' = old
  /\ putBack' = TRUE
  /\ UNCHANGED <<tagged, body, etag, fetch, overlap, unpaired, staleHit>>

-----------------------------------------------------------------------------
(* _fetch_one *)

AtStep(f, s) == fetch[f].at = s
Move(f, s) == fetch' = [fetch EXCEPT ![f].at = s]
Done(f) == fetch' = [fetch EXCEPT ![f] = Resting]
\* A fetch ends between the opening of the body and the end of the ETag, with an older
\* ETag about.
CutOff(f, old) ==
  unpaired' = (unpaired \/ (fetch[f].at \in {"fillBody", "etag", "fillEtag"} /\ old # 0))
serverVars == <<version, tagged, putBack>>
fileVarsOf == <<body, etag>>

\* The ETag is read once, before the first request; a crawl that is refused is no step.
AskPage(f) ==
  /\ AtStep(f, "idle")
  /\ fetch' = [fetch EXCEPT ![f] = [at |-> "ask", cached |-> etag, got |-> 0, attempt |-> 0]]
  /\ overlap' = (overlap \/ \E g \in Fetcher : ~AtStep(g, "idle"))
  /\ UNCHANGED <<serverVars, fileVarsOf, unpaired, staleHit>>

\* 304: the body on file is the answer.
NotModified(f) ==
  /\ AtStep(f, "ask") /\ fetch[f].cached = version /\ tagged[version]
  /\ staleHit' = (staleHit \/ body # version) /\ Done(f)
  /\ UNCHANGED <<serverVars, fileVarsOf, overlap, unpaired>>

\* Mutant of Answer: the ETag is written at once, before the page.
AnswerTagging(f) ==
  /\ AtStep(f, "ask") /\ ~(fetch[f].cached = version /\ tagged[version])
  /\ fetch' = [fetch EXCEPT ![f].at = "body", ![f].got = version]
  /\ etag' = IF tagged[version] THEN version ELSE etag
  /\ UNCHANGED <<serverVars, body, overlap, unpaired, staleHit>>

\* 200, with the page or too large a page.
Answer(f) ==
  /\ AtStep(f, "ask") /\ ~(fetch[f].cached = version /\ tagged[version])
  /\ \/ fetch' = [fetch EXCEPT ![f] = [@ EXCEPT !.at = "body", !.got = version]]
     \/ Done(f)
  /\ UNCHANGED <<serverVars, fileVarsOf, overlap, unpaired, staleHit>>

\* Any exception, one of the writes' as well: again after a pause, with the ETag read at
\* the beginning, until the retries are used up.
FetchFails(f) ==
  /\ ~AtStep(f, "idle")
  /\ IF fetch[f].attempt = RetryMax THEN Done(f) /\ CutOff(f, etag)
     ELSE /\ fetch' = [fetch EXCEPT ![f].at = "ask", ![f].attempt = @ + 1]
          /\ CutOff(f, fetch[f].cached)
  /\ UNCHANGED <<serverVars, fileVarsOf, overlap, staleHit>>

\* write_bytes opens, which empties the file, and fills it.
OpenBody(f) ==
  /\ AtStep(f, "body") /\ body' = 0 /\ Move(f, "fillBody")
  /\ UNCHANGED <<serverVars, etag, overlap, unpaired, staleHit>>

\* A page without an ETag leaves the older one where it is.
FillBody(f) ==
  /\ AtStep(f, "fillBody") /\ body' = fetch[f].got
  /\ IF tagged[fetch[f].got] THEN Move(f, "etag") /\ UNCHANGED unpaired ELSE Done(f) /\ CutOff(f, etag)
  /\ UNCHANGED <<serverVars, etag, overlap, staleHit>>

\* write_text likewise.
OpenEtag(f) ==
  /\ AtStep(f, "etag") /\ etag' = 0 /\ Move(f, "fillEtag")
  /\ UNCHANGED <<serverVars, body, overlap, unpaired, staleHit>>

FillEtag(f) ==
  /\ AtStep(f, "fillEtag") /\ etag' = fetch[f].got /\ Done(f)
  /\ UNCHANGED <<serverVars, body, overlap, unpaired, staleHit>>

KillCrawler(f) ==
  /\ ~AtStep(f, "idle") /\ Done(f) /\ CutOff(f, etag)
  /\ UNCHANGED <<serverVars, fileVarsOf, overlap, staleHit>>

CrawlerNext ==
  \/ Publish \/ PutPageBack
  \/ \E f \in Fetcher :
       \/ AskPage(f) \/ NotModified(f) \/ Answer(f) \/ FetchFails(f)
       \/ OpenBody(f) \/ FillBody(f) \/ OpenEtag(f) \/ FillEtag(f) \/ KillCrawler(f)

CrawlerSpec == CrawlerInit /\ [][CrawlerNext]_crawlerVars

-----------------------------------------------------------------------------
(* Properties *)

\* A crawler that is told "not modified" has the page on file, whole, however the page
\* changed meanwhile, and whatever was killed or failed before at whichever write: unless
\* two crawlers were at the page at once, or two things come together, a body written
\* over without its ETag (a kill, a failure or a page that has none) and the page put
\* back to the version of the ETag that stayed.
HitIsCurrent == staleHit => overlap \/ (putBack /\ unpaired)
=============================================================================
