------------------------------ MODULE Adapters ------------------------------
(***************************************************************************)
(* What a provider's answer comes to: the parse of each of the five        *)
(* adapters (packages/adapters/src/<provider>/index.ts) and runChain's     *)
(* judgement of what parse returned (apps/gateway/src/chain.ts).           *)
(*                                                                         *)
(* A response keeps what those functions read and nothing else.  What a    *)
(* provider says in a situation (Says) is external: it is taken from the   *)
(* responses recorded in packages/adapters/src/<provider>/fixtures.        *)
(***************************************************************************)
EXTENDS Outcome, Integers

Providers == {"scraperapi", "scrapingbee", "scrapfly", "brightdata", "firecrawl"}

None == 0     \* no status there
Garbled == 1  \* something that is not a status

\* The bytes of an answer: a page with and without the awaited element, something
\* that is no HTML, a challenge page, nothing or white space, a page too big to be
\* sent inline.
Pages == {"page", "bare", "document", "challenge", "blank", "large"}

\* What of Bright Data's error headers a target sends of its own, and Bright Data
\* passes on: nothing, the code of an account's refusal, or a rejection's code.
Forgeries == {"nothing", "refusal", "rejection"}

\* What the caller waits for: nothing, an element that elementPresentIn looks for, or
\* one whose selector it cannot judge.
Waits == {"nothing", "element", "unjudged"}

\* status: the answer's own; target: where the provider puts the target's; code:
\* its structured word; told: a status named in its message.
Response(status, target, code, page) ==
  [status |-> status, target |-> target, code |-> code, told |-> None, page |-> page]

Rejected(status) ==
  [Response(200, 502, "http_status", "none") EXCEPT !.told = status]

\* The codes of Bright Data's error header that its adapter tells apart; the last
\* stands for the others.
Rejections == {"http_status", "reject_block", "could_not_resolve", "proxy_error"}

-----------------------------------------------------------------------------
(* What happened: the target answered the provider, or something else.     *)

Forged(status, page, forges) ==
  [kind |-> "served", status |-> status, page |-> page, forges |-> forges]
Served(status, page) == Forged(status, page, "nothing")
Fact(kind) == [kind |-> kind, status |-> None, page |-> "none", forges |-> "nothing"]

ServedFacts == [kind : {"served"}, status : 100 .. 599, page : Pages, forges : Forgeries]
TargetFacts == {Fact("dead_host"), Fact("slow_target")}
AccountFacts == {Fact("bad_key"), Fact("spent"), Fact("capped")}
ProviderFacts == {Fact("down"), Fact("changed")}

SaysScraperapi(f) ==
  CASE f.kind = "served" -> {Response(f.status, f.status, "none", f.page),
                             Response(500, f.status, "none", f.page)}
    [] f.kind = "dead_host" -> {Response(500, 502, "none", "none")}
    [] f.kind = "slow_target" -> {Response(500, 504, "none", "none")}
    [] f.kind = "bad_key" -> {Response(401, None, "none", "none")}
    [] f.kind = "spent" -> {Response(403, None, "none", "none")}
    [] f.kind = "capped" -> {Response(429, None, "none", "none")}
    [] f.kind = "down" -> {Response(500, None, "none", "none")}
    [] f.kind = "changed" -> {Response(200, Garbled, "none", "page")}

SaysScrapingbee(f) ==
  CASE f.kind = "served" -> {Response(f.status, f.status, "none", f.page)}
    [] f.kind \in {"dead_host", "slow_target"} -> {Response(503, 503, "none", "none")}
    [] f.kind = "bad_key" -> {Response(401, None, "none", "none")}
    [] f.kind = "spent" -> {Response(401, None, "spent", "none"),
                            Response(402, None, "none", "none")}
    [] f.kind = "capped" -> {Response(429, None, "none", "none")}
    [] f.kind = "down" -> {Response(500, None, "none", "none")}
    [] f.kind = "changed" -> {Response(200, Garbled, "none", "page")}

\* Scrapfly's own status is of no account once its envelope holds a result.
SaysScrapfly(f) ==
  CASE f.kind = "served" -> {Response(200, f.status, "result", f.page)}
    [] f.kind = "dead_host" -> {Response(400, None, "invalid_hostname", "none")}
    [] f.kind = "slow_target" -> {Response(422, None, "network_error", "none")}
    [] f.kind = "bad_key" -> {Response(401, None, "no_result", "none")}
    [] f.kind = "spent" -> {Response(429, None, "quota_limit", "none")}
    [] f.kind = "capped" -> {Response(429, None, "no_result", "none"),
                             Response(429, None, "max_concurrent", "none")}
    [] f.kind = "down" -> {Response(500, None, "no_result", "none")}
    [] f.kind = "changed" -> {Response(200, Garbled, "broken", "none")}

\* What of a target's answer Bright Data passes on, the target's own words of its
\* header family included; a blank answer may be empty.
Passes(f) ==
  CASE f.forges = "nothing" -> {Response(200, f.status, "none", f.page)}
    [] f.forges = "refusal" ->
         {Response(200, f.status, "client", f.page)}
           \cup (IF f.page = "blank" THEN {Response(200, f.status, "client", "none")} ELSE {})
    [] f.forges = "rejection" ->
         {[Response(200, f.status, code, f.page) EXCEPT !.told = told] :
            code \in Rejections, told \in {None, 404, 503}}

\* A target status comes in the header or, rejected, in the message.
SaysBrightdata(f) ==
  CASE f.kind = "served" ->
         Passes(f) \cup (IF f.status \in {404, 429, 503} THEN {Rejected(f.status)} ELSE {})
    [] f.kind = "dead_host" -> {Response(200, 502, "could_not_resolve", "none")}
    [] f.kind = "slow_target" -> {Response(200, 502, "req_timeout", "none")}
    [] f.kind \in {"bad_key", "spent"} -> {Response(401, None, "none", "none"),
                                           Response(200, 407, "client", "none")}
    [] f.kind = "capped" -> {Response(429, None, "none", "none")}
    [] f.kind = "down" -> {Response(500, None, "none", "none"),
                           Response(200, 502, "proxy_error", "none")}
    [] f.kind = "changed" -> {Response(200, None, "none", "page")}

SaysFirecrawl(f) ==
  CASE f.kind = "served" /\ f.status = 200 -> {Response(200, 200, "success", f.page)}
    [] f.kind = "served" /\ f.status # 200 ->
         {Response(500, None, "all_engines_failed", "none")}
    [] f.kind = "dead_host" -> {Response(200, None, "dns_resolution", "none")}
    [] f.kind = "slow_target" -> {Response(500, None, "all_engines_failed", "none")}
    [] f.kind = "bad_key" -> {Response(401, None, "failure", "none")}
    [] f.kind = "spent" -> {Response(402, None, "failure", "none")}
    [] f.kind = "capped" -> {Response(429, None, "failure", "none")}
    [] f.kind = "down" -> {Response(500, None, "failure", "none")}
    [] f.kind = "changed" -> {Response(200, 200, "success", "none"),
                              Response(200, None, "broken", "none")}

Says(p, f) ==
  CASE p = "scraperapi" -> SaysScraperapi(f)
    [] p = "scrapingbee" -> SaysScrapingbee(f)
    [] p = "scrapfly" -> SaysScrapfly(f)
    [] p = "brightdata" -> SaysBrightdata(f)
    [] p = "firecrawl" -> SaysFirecrawl(f)

-----------------------------------------------------------------------------
(* The adapters' parse.                                                    *)

\* The status came from the target (the same in four adapters).
outcomeForTarget(s) ==
  CASE s \in 200 .. 299 -> "OK"
    [] s = 404 -> "TARGET_NOT_FOUND"
    [] s = 403 -> "HARD_BLOCK"
    [] s = 429 -> "TARGET_RATE_LIMITED"
    [] OTHER -> "TARGET_ERROR"

ScraperapiOwn(status) ==
  CASE status = 400 -> "INVALID_REQUEST"
    [] status = 401 -> "AUTH_FAILED"
    [] status = 403 -> "QUOTA_EXHAUSTED"
    [] status = 429 -> "RATE_LIMITED"
    [] OTHER -> "PROVIDER_ERROR"

parseScraperapi_StatusFirst(r) ==
  IF r.status \in {401, 403, 429} \/ r.target \in {None, Garbled}
  THEN ScraperapiOwn(r.status)
  ELSE outcomeForTarget(r.target)

parseScraperapi(r) ==
  IF r.target = Garbled THEN "PROVIDER_DRIFT"
  ELSE IF r.target # None THEN outcomeForTarget(r.target)
  ELSE ScraperapiOwn(r.status)

ScrapingbeeOwn(status, code) ==
  CASE status = 400 -> "INVALID_REQUEST"
    [] status = 402 \/ (status = 401 /\ code = "spent") -> "QUOTA_EXHAUSTED"
    [] status = 403 \/ (status = 401 /\ code # "spent") -> "AUTH_FAILED"
    [] status = 429 -> "RATE_LIMITED"
    [] OTHER -> "PROVIDER_ERROR"

parseScrapingbee(r) ==
  IF r.target = Garbled THEN "PROVIDER_DRIFT"
  ELSE IF r.target # None THEN outcomeForTarget(r.target)
  ELSE ScrapingbeeOwn(r.status, r.code)

\* What Scrapfly's structured codes say, inside a result ("" is no opinion).
outcomeForErrorCode(code) ==
  CASE code = "asp" -> "HARD_BLOCK"
    [] code \in {"upstream_timeout", "network_error"} -> "TARGET_ERROR"
    [] code = "max_concurrent" -> "RATE_LIMITED"
    [] code = "quota_limit" -> "QUOTA_EXHAUSTED"
    [] OTHER -> ""

\* An answer without a result: the account's error, then the status.
ScrapflyAccount(r) ==
  IF r.code = "invalid_hostname" THEN "TARGET_ERROR"
  ELSE CASE r.status = 400 -> "INVALID_REQUEST"
         [] r.status \in {401, 402, 403} -> "AUTH_FAILED"
         [] r.status = 429 -> "RATE_LIMITED"
         [] OTHER -> "PROVIDER_ERROR"

parseScrapfly(r) ==
  IF r.code = "broken" THEN "PROVIDER_DRIFT"
  ELSE IF r.code \in {"no_result", "invalid_hostname"} THEN ScrapflyAccount(r)
  ELSE IF r.page = "large" THEN "PROVIDER_BODY_OFFLOADED"
  ELSE IF outcomeForErrorCode(r.code) # "" THEN outcomeForErrorCode(r.code)
  ELSE IF r.target = None THEN "PROVIDER_ERROR"
  ELSE outcomeForTarget(r.target)

\* Bright Data's status in the header, or in the message of a rejection.
BrightTarget(s) ==
  CASE s = 404 -> "TARGET_NOT_FOUND"
    [] s = 429 -> "TARGET_RATE_LIMITED"
    [] s \in {401, 403} -> "HARD_BLOCK"
    [] s >= 500 -> "TARGET_ERROR"
    [] OTHER -> "OK"

\* A rejection, by the code of its error header.
BrightRejected(r) ==
  CASE r.code = "http_status" /\ BrightTarget(r.told) # "OK" -> BrightTarget(r.told)
    [] r.code = "reject_block" -> "HARD_BLOCK"
    [] r.code = "could_not_resolve" -> "TARGET_ERROR"
    [] OTHER -> "PROVIDER_ERROR"

parseBrightdata_AnyRefusal(r) ==
  IF r.status \in {400, 401, 403} THEN "AUTH_FAILED"
  ELSE IF r.status = 429 THEN "RATE_LIMITED"
  ELSE IF r.status # 200 THEN "PROVIDER_ERROR"
  ELSE IF r.code = "client" THEN "AUTH_FAILED"
  ELSE IF r.code # "none" THEN BrightRejected(r)
  ELSE IF r.target \in {None, Garbled} THEN "PROVIDER_DRIFT"
  ELSE BrightTarget(r.target)

\* The account's refusal is taken for one only in its whole recorded shape.
parseBrightdata(r) ==
  IF r.status \in {400, 401, 403} THEN "AUTH_FAILED"
  ELSE IF r.status = 429 THEN "RATE_LIMITED"
  ELSE IF r.status # 200 THEN "PROVIDER_ERROR"
  ELSE IF r.code = "client" /\ r.target = 407 /\ r.page = "none" THEN "AUTH_FAILED"
  ELSE IF r.code \notin {"none", "client"} THEN BrightRejected(r)
  ELSE IF r.target \in {None, Garbled} THEN "PROVIDER_DRIFT"
  ELSE BrightTarget(r.target)

FirecrawlOwn(status) ==
  CASE status = 400 -> "INVALID_REQUEST"
    [] status \in {401, 403} -> "AUTH_FAILED"
    [] status = 402 -> "QUOTA_EXHAUSTED"
    [] status = 429 -> "RATE_LIMITED"
    [] OTHER -> "PROVIDER_ERROR"

parseFirecrawl(r) ==
  IF r.code = "broken" \/ (r.code = "success" /\ r.page = "none") THEN "PROVIDER_DRIFT"
  ELSE IF r.code = "success" THEN outcomeForTarget(r.target)
  ELSE IF r.code \in {"dns_resolution", "all_engines_failed"} THEN "TARGET_ERROR"
  ELSE FirecrawlOwn(r.status)

parse(p, r) ==
  CASE p = "scraperapi" -> parseScraperapi(r)
    [] p = "scrapingbee" -> parseScrapingbee(r)
    [] p = "scrapfly" -> parseScrapfly(r)
    [] p = "brightdata" -> parseBrightdata(r)
    [] p = "firecrawl" -> parseFirecrawl(r)

-----------------------------------------------------------------------------
(* runChain's judgement.                                                   *)

\* Scrapfly and Firecrawl answer in a JSON envelope, which detect does not read.
RawIsPage(p) == p \notin {"scrapfly", "firecrawl"}

judge_NoDetect(p, r, waitFor) == parse(p, r)

\* The caller's finish line: a page is found wanting only when it is HTML and the
\* element one that can be looked for; otherwise it stays what it is, unverified.
Unmet(r, waitFor) == waitFor = "element" /\ r.page = "bare"

\* A success is examined (an empty page, a challenge, the caller's finish line), and
\* so is a target's failure as it came over the wire.
judge(p, r, waitFor) ==
  LET said == parse(p, r) IN
  CASE said = "OK" /\ r.page \in {"blank", "challenge", "none"} -> "SOFT_BLOCK"
    [] said = "OK" /\ Unmet(r, waitFor) -> "WAIT_FOR_UNMET"
    [] said = "TARGET_ERROR" /\ r.page = "challenge" /\ RawIsPage(p) -> "SOFT_BLOCK"
    [] OTHER -> said
=============================================================================
