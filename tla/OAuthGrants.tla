---------------------------- MODULE OAuthGrants -----------------------------
(***************************************************************************)
(* The gateway as an authorization server (apps/gateway/src/oauth.ts,      *)
(* oauth-token.ts, oauth-routes.ts, grant-store.ts and the grant store of  *)
(* valkey.ts).  Everything it issues is a sealed box that anybody may      *)
(* present as often as he likes; what is kept is only which boxes have     *)
(* been used and which families of grants are revoked.                     *)
(*                                                                         *)
(* An exchange reads the clock once and then talks to the store: each of   *)
(* its commands is a step, and others' requests run in between.            *)
(***************************************************************************)
EXTENDS Integers, FiniteSets

CONSTANTS
  Families,          \* bound: the grants that are made
  Issues,            \* bound: the times tokens are issued
  Requests,          \* the requests under way at the token endpoint
  CODE_TTL, ACCESS_TTL, REFRESH_TTL,
  Shared,            \* the store is Valkey: it survives restarts, and may fail
  MaxClock,          \* bound: the last moment
  MaxFailures,       \* bound: failed store commands and lost answers
  MaxRestarts,       \* bound: restarts of the gateway
  None

ASSUME GrantsAssumption ==
  /\ Families \subseteq Nat /\ Issues \subseteq Nat
  /\ {CODE_TTL, ACCESS_TTL, REFRESH_TTL} \subseteq Nat \ {0}
  /\ ACCESS_TTL <= REFRESH_TTL /\ CODE_TTL <= REFRESH_TTL
  /\ Shared \in BOOLEAN
  /\ {MaxClock, MaxFailures, MaxRestarts} \subseteq Nat

VARIABLES
  clock,
  boxes,       \* the codes and tokens sealed so far
  held,        \* those whose answer arrived
  until,       \* GrantStore: how long a use is remembered
  famUntil,    \* GrantStore: how long a family is revoked
  denied,      \* the tenant token behind the grants is on the denylist
  pc, box, now,  \* of each request: its next step, what it presents, its clock
  won,         \* history: the uses granted
  late,        \* history: families with a use granted after its box had expired
  revokedOnce, \* history: families revoked
  failures, restarts

store == <<until, famUntil, won, late, revokedOnce>>
requests == <<pc, box, now>>
vars == <<clock, boxes, held, store, denied, requests, failures, restarts>>

Kinds == {"code", "access", "refresh"}
Box == [kind : Kinds, n : Families \cup Issues, family : Families, sealed : 0 .. MaxClock]
SingleUse == {"code", "refresh"}
Ids == SingleUse \X (Families \cup Issues)
Id(b) == <<b.kind, b.n>>

Ttl(kind) ==
  CASE kind = "code" -> CODE_TTL
    [] kind = "access" -> ACCESS_TTL
    [] kind = "refresh" -> REFRESH_TTL

End(b) == b.sealed + Ttl(b.kind)

\* unseal: a box opens up to and at its last moment.
Opens(b, t) == t <= End(b)

\* A mark of the store is alive strictly before its end.
Live(mark) == mark > clock

Init ==
  /\ clock = 0
  /\ boxes = {}
  /\ held = {}
  /\ until = [i \in Ids |-> 0]
  /\ famUntil = [f \in Families |-> 0]
  /\ denied = FALSE
  /\ pc = [q \in Requests |-> "idle"]
  /\ box = [q \in Requests |-> None]
  /\ now = [q \in Requests |-> 0]
  /\ won = {}
  /\ late = {}
  /\ revokedOnce = {}
  /\ failures = 0
  /\ restarts = 0

-----------------------------------------------------------------------------
\* POST /oauth/authorize: the form names a tenant token that opens and is not denied.
\* Each code starts a family of its own, and one form may be posted again.
FinishAuthorize ==
  /\ ~denied
  /\ \E f \in Families \ {b.family : b \in boxes} :
       LET code == [kind |-> "code", n |-> f, family |-> f, sealed |-> clock]
       IN  /\ boxes' = boxes \cup {code}
           /\ held' = held \cup {code}
  /\ UNCHANGED <<clock, store, denied, requests, failures, restarts>>

Goto(q, step) == pc' = [pc EXCEPT ![q] = step]

\* exchange opens the box and looks first, for a refresh token, at its family.
Present(q) ==
  /\ pc[q] = "idle"
  /\ \E b \in held :
       /\ b.kind \in SingleUse
       /\ Opens(b, clock)
       /\ Goto(q, IF b.kind = "refresh" THEN "revoked" ELSE "claim")
       /\ box' = [box EXCEPT ![q] = b]
       /\ now' = [now EXCEPT ![q] = clock]
  /\ UNCHANGED <<clock, boxes, held, store, denied, failures, restarts>>

Done(q) ==
  /\ pc' = [pc EXCEPT ![q] = "idle"]
  /\ box' = [box EXCEPT ![q] = None]
  /\ now' = [now EXCEPT ![q] = 0]

AskRevoked(q) ==
  /\ pc[q] = "revoked"
  /\ IF Live(famUntil[box[q].family]) THEN Done(q)
     ELSE Goto(q, "claim") /\ UNCHANGED <<box, now>>
  /\ UNCHANGED <<clock, boxes, held, store, denied, failures, restarts>>

RememberFor_Code(kind) == CODE_TTL

RememberFor(kind) == Ttl(kind)

\* claim as the store executes it: the first use is recorded, and no other.
Record(q) ==
  LET id == Id(box[q])
  IN  IF Live(until[id]) THEN UNCHANGED store
      ELSE /\ until' = [until EXCEPT ![id] = clock + RememberFor(box[q].kind)]
           /\ won' = won \cup {id}
           /\ late' = IF clock < End(box[q]) THEN late
                      ELSE late \cup {box[q].family}
           /\ UNCHANGED <<famUntil, revokedOnce>>

Claim(q) ==
  /\ pc[q] = "claim"
  /\ Record(q)
  /\ Goto(q, IF Live(until[Id(box[q])]) THEN "revoke" ELSE "issue")
  /\ UNCHANGED <<clock, boxes, held, denied, box, now, failures, restarts>>

RevokeFor_Code == CODE_TTL

RevokeFor == REFRESH_TTL

\* revoke as the store executes it.
Mark(q) ==
  LET f == box[q].family
  IN  /\ famUntil' = [famUntil EXCEPT ![f] = clock + RevokeFor]
      /\ revokedOnce' = revokedOnce \cup {f}
      /\ UNCHANGED <<until, won, late>>

\* A box used before: its family is revoked.
Revoke(q) ==
  /\ pc[q] = "revoke"
  /\ Mark(q)
  /\ Done(q)
  /\ UNCHANGED <<clock, boxes, held, denied, failures, restarts>>

\* The numbers (jti) no token has, and a token sealed with one of them for the family
\* of the box a request presents, at the moment the exchange began.
Unissued == {n \in Issues : \A b \in boxes : b.kind = "code" \/ b.n # n}

Token(q, kind) ==
  [kind |-> kind, n |-> CHOOSE n \in Unissued : TRUE,
   family |-> box[q].family, sealed |-> now[q]]

\* Unless the tenant token is denied, an access and a refresh token are sealed; the
\* answer may be lost on its way.
Issue(q) ==
  /\ pc[q] = "issue"
  /\ IF denied \/ Unissued = {}
     THEN UNCHANGED <<boxes, held, failures>>
     ELSE LET pair == {Token(q, "access"), Token(q, "refresh")}
          IN  /\ boxes' = boxes \cup pair
              /\ \/ /\ held' = held \cup pair
                    /\ UNCHANGED failures
                 \/ /\ failures < MaxFailures
                    /\ failures' = failures + 1
                    /\ UNCHANGED held
  /\ Done(q)
  /\ UNCHANGED <<clock, store, denied, restarts>>

\* The store fails before or after it executes the command: 503.
StoreFails(q) ==
  /\ Shared /\ failures < MaxFailures
  /\ failures' = failures + 1
  /\ \/ /\ pc[q] \in {"revoked", "claim", "revoke"}
        /\ UNCHANGED store
     \/ /\ pc[q] = "claim"
        /\ Record(q)
     \/ /\ pc[q] = "revoke"
        /\ Mark(q)
  /\ Done(q)
  /\ UNCHANGED <<clock, boxes, held, denied, restarts>>

\* A restart ends the requests, may add the token to the denylist, and takes the
\* marks of a store in memory along.
Restart ==
  /\ restarts < MaxRestarts
  /\ restarts' = restarts + 1
  /\ IF Shared THEN UNCHANGED <<until, famUntil>>
     ELSE /\ until' = [i \in Ids |-> 0]
          /\ famUntil' = [f \in Families |-> 0]
  /\ denied' \in {denied, TRUE}
  /\ pc' = [q \in Requests |-> "idle"]
  /\ box' = [q \in Requests |-> None]
  /\ now' = [q \in Requests |-> 0]
  /\ UNCHANGED <<clock, boxes, held, won, late, revokedOnce, failures>>

\* Marks whose time is over are gone: swept, or expired by Valkey.
Tick ==
  /\ clock < MaxClock
  /\ clock' = clock + 1
  /\ until' = [i \in Ids |-> IF until[i] > clock' THEN until[i] ELSE 0]
  /\ famUntil' = [f \in Families |-> IF famUntil[f] > clock' THEN famUntil[f] ELSE 0]
  /\ UNCHANGED <<boxes, held, won, late, revokedOnce, denied, requests, failures,
                 restarts>>

\* The bounded run is over.
Rest ==
  /\ clock = MaxClock
  /\ \A q \in Requests : pc[q] = "idle"
  /\ UNCHANGED vars

Step(q) ==
  \/ Present(q)
  \/ AskRevoked(q)
  \/ Claim(q)
  \/ Revoke(q)
  \/ Issue(q)
  \/ StoreFails(q)

Next ==
  \/ FinishAuthorize
  \/ \E q \in Requests : Step(q)
  \/ Restart
  \/ Tick
  \/ Rest

Spec == Init /\ [][Next]_vars

-----------------------------------------------------------------------------
TypeOK ==
  /\ clock \in 0 .. MaxClock
  /\ boxes \subseteq Box
  /\ held \subseteq boxes
  /\ until \in [Ids -> Nat]
  /\ famUntil \in [Families -> Nat]
  /\ denied \in BOOLEAN
  /\ pc \in [Requests -> {"idle", "revoked", "claim", "revoke", "issue"}]
  /\ box \in [Requests -> Box \cup {None}]
  /\ now \in [Requests -> 0 .. MaxClock]
  /\ \A q \in Requests : pc[q] # "idle" => box[q] \in boxes
  /\ won \subseteq Ids
  /\ late \subseteq Families
  /\ revokedOnce \subseteq Families
  /\ failures \in 0 .. MaxFailures
  /\ restarts \in 0 .. MaxRestarts

\* While a store keeps its marks, a family never forks: at most one of its codes and
\* refresh tokens can still be exchanged, whoever presents which box how often and
\* wherever answers are lost, unless a command reaches the store after its box has
\* expired (grant-store.ts, single use).
NeverForks ==
  (Shared \/ restarts = 0) =>
    \A f \in Families \ late :
      Cardinality({b \in boxes : b.family = f /\ b.kind \in SingleUse /\ Id(b) \notin won
                                 /\ clock < End(b)}) <= 1

\* A revoked family stays dead: until the last of its boxes has expired, those that
\* a request under way seals after the revocation included, the mark that refuses
\* them at /mcp and at the token endpoint is there (oauth-token.ts, REFRESH_TTL_MS).
RevokedStaysDead ==
  (Shared \/ restarts = 0) =>
    \A f \in revokedOnce \ late :
      Live(famUntil[f]) \/ \A b \in boxes : b.family = f => clock >= End(b)
=============================================================================
