----------------------------- MODULE MCAttempt -----------------------------
(***************************************************************************)
(* Two small instances of Attempt for TLC in one: three hops and their     *)
(* timing at a few kinds of target, and every pair of providers with every *)
(* situation that their adapters tell apart, in a hurry.                   *)
(***************************************************************************)
EXTENDS Attempt

Order(a, b, c) == [k \in 0 .. Hops - 1 |-> IF k = 0 THEN a ELSE IF k = 1 THEN b ELSE c]
Back(order) == Order(order[2], order[1], order[0])

\* Each provider in a chain.
TimedChains == {Order("scraperapi", "scrapingbee", "brightdata"),
                Order("scrapfly", "brightdata", "firecrawl")}

\* One of each pair before the other.
Triples == TimedChains \cup {Order("scraperapi", "scrapfly", "scrapingbee"),
                             Order("scraperapi", "brightdata", "firecrawl"),
                             Order("scrapingbee", "scraperapi", "firecrawl")}
ChainsDef == Triples \cup {Back(order) : order \in Triples}

TimedSites == TargetFacts \cup {Served(200, "page"), Served(200, "blank"), Served(404, "page")}

SitesDef == TargetFacts
              \cup {Served(status, page) :
                      status \in {200, 301, 401, 403, 404, 410, 429, 503}, page \in Pages}
              \cup {Forged(status, page, forges) :
                      status \in {200, 407}, page \in {"page", "blank"},
                      forges \in {"refusal", "rejection"}}

\* A floor of 2, fast caps of 3 and a last hop of 5.
CapDef == [k \in 0 .. Hops - 1 |-> IF k = Hops - 1 THEN 5 ELSE 3]

\* Deadlines that just give every hop its floor, or leave one hop room.
Timed ==
  /\ deadline >= Hops * MinUseful
  /\ chain \in TimedChains /\ site \in TimedSites /\ waitFor = "element"

\* Time for answers that come at once.  What is waited for matters to a page alone.
Hurried ==
  /\ deadline = MinUseful
  /\ waitFor = "element" \/ (site.kind = "served" /\ site.status = 200)

MCInit == Init /\ (Timed \/ Hurried)
MCSpec == MCInit /\ [][Next]_vars /\ Fairness
=============================================================================
