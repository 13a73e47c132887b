--------------------------- MODULE MCVerification ---------------------------
(* Model checking of Verification on small instances.                      *)
EXTENDS Verification, TLC

Finding(url, named, future, low, category, stance) ==
  [url |-> url, named |-> named, future |-> future, low |-> low, category |-> category, stance |-> stance]

MCFindings ==
  {Finding("page", TRUE, FALSE, FALSE, "flows", "supporting"),
   Finding("page", TRUE, FALSE, FALSE, "flows", "contradicting"),
   Finding("page", TRUE, FALSE, TRUE, "crash", "supporting"),
   Finding("none", TRUE, TRUE, FALSE, "crash", "supporting"),
   Finding("none", FALSE, FALSE, FALSE, "crash", "supporting")}

MCVerdicts ==
  [id : Evidence, status : Statuses, source : Urls \cup {NoUrl}]
    \cup [id : {Unknown}, status : {"verified"}, source : {NoUrl}]
    \cup [id : {"e1"}, status : {"verified"}, source : {"web_search"}]

Trace(tool, url, role, ok) == [tool |-> tool, url |-> url, role |-> role, ok |-> ok]

MCResearchTraces ==
  {Trace("web_search", "page", "research", TRUE),
   Trace("mock", "none", "research", TRUE)}

MCVerifierTraces ==
  {Trace("read_url", "page", "verifier", TRUE), Trace("read_url", "page", "verifier", FALSE)}
=============================================================================
