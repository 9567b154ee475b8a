------------------------------ MODULE Outcome ------------------------------
(***************************************************************************)
(* The outcome taxonomy (packages/shared/src/outcome.ts): what an attempt  *)
(* can come to, and the policy FAILOVER gives each outcome.                *)
(***************************************************************************)

Blocked == {"SOFT_BLOCK", "HARD_BLOCK"}
Target == {"TARGET_NOT_FOUND", "WAIT_FOR_UNMET", "TARGET_ERROR", "TARGET_RATE_LIMITED"}
Provider == {"PROVIDER_TIMEOUT", "PROVIDER_ERROR", "RATE_LIMITED", "PROVIDER_DRIFT",
             "PROVIDER_BODY_OFFLOADED"}
Client == {"BAD_REQUEST", "TARGET_FORBIDDEN"}
Gateway == {"QUOTA_EXHAUSTED", "AUTH_FAILED", "INVALID_REQUEST", "NO_PROVIDER_AVAILABLE",
            "RESPONSE_TOO_LARGE", "BUDGET_EXCEEDED", "GATEWAY_BUSY"}

Outcomes == {"OK"} \cup Blocked \cup Target \cup Provider \cup Client \cup Gateway

outcomeClass(o) ==
  CASE o = "OK" -> "ok"
    [] o \in Blocked -> "blocked"
    [] o \in Target -> "target"
    [] o \in Provider -> "provider"
    [] o \in Client -> "client"
    [] OTHER -> "gateway"

\* Does the chain go on after this outcome: always, never, or once a request?
failover(o) ==
  CASE o \in {"WAIT_FOR_UNMET", "TARGET_ERROR"} -> "once"
    [] \/ o \in Blocked \cup Provider
       \/ o \in {"TARGET_RATE_LIMITED", "QUOTA_EXHAUSTED", "AUTH_FAILED"} -> "true"
    [] OTHER -> "false"

\* Which cooldown key the outcome arms, if any.
cooldownScope(o) ==
  CASE o \in Blocked \cup {"TARGET_RATE_LIMITED"} -> "blk"
    [] o \in {"PROVIDER_TIMEOUT", "PROVIDER_ERROR", "RATE_LIMITED", "QUOTA_EXHAUSTED",
              "AUTH_FAILED"} -> "acct"
    [] OTHER -> "none"
=============================================================================
