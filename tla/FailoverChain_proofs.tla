------------------------ MODULE FailoverChain_proofs ------------------------
(***************************************************************************)
(* Proofs about the chains of any number of requests, for any deployment,  *)
(* health, answers and traffic: the cooldown keys that they share, then    *)
(* the walk of each of them.                                               *)
(***************************************************************************)
EXTENDS FailoverChain, FiniteSetTheorems, SequenceTheorems, TLAPS

\* What the proofs need to know of a request: it has these two parts.
Shaped(s) == {"pc", "claimedKey"} \subseteq DOMAIN s

Claimless(s) == s.pc \in {"new", "flooring", "floored", "claiming", "done"} => s.claimedKey = None

Books ==
  /\ DOMAIN q = Requests
  /\ store \in [Keys -> Statuses]
  /\ \A r \in Requests : Shaped(q[r]) /\ Claimless(q[r])

LEMMA InitBooks == Init => Books /\ NoStrandedProbe
<1> SUFFICES ASSUME Init PROVE Books /\ NoStrandedProbe
  OBVIOUS
<1>1. store \in [Keys -> Statuses \ {"probing"}]
  BY ChainAssumption DEF Init
<1>2. \A r \in Requests : Shaped(q[r]) /\ q[r].claimedKey = None
  BY DEF Init, Shaped
<1>3. DOMAIN q = Requests
  BY DEF Init
<1> QED
  BY <1>1, <1>2, <1>3 DEF Books, Claimless, NoStrandedProbe, Statuses

LEMMA ReturnBooks ==
  ASSUME NEW s, NEW o, NEW p, NEW why, Shaped(s)
  PROVE  /\ Shaped(Return(s, o, p, why))
         /\ Return(s, o, p, why).pc = "done"
         /\ Return(s, o, p, why).claimedKey = None
BY DEF Return, Shaped

\* Going on with the walk takes no claim and gives none up, but at its end.
LEMMA AtHopBooks ==
  ASSUME NEW s, Shaped(s)
  PROVE  /\ Shaped(AtHop(s))
         /\ AtHop(s).pc \in {"claiming", "launching", "done"}
         /\ AtHop(s).claimedKey = s.claimedKey \/ (AtHop(s).pc = "done" /\ AtHop(s).claimedKey = None)
BY ReturnBooks DEF AtHop, ReturnSummary, Shaped

LEMMA RerankBooks ==
  ASSUME NEW s, Shaped(s)
  PROVE  /\ Shaped(Rerank(s))
         /\ Rerank(s).pc \in {"claiming", "launching", "done"}
         /\ Rerank(s).claimedKey = s.claimedKey
              \/ (Rerank(s).pc = "done" /\ Rerank(s).claimedKey = None)
<1> DEFINE t == [s EXCEPT !.chain = rank(s), !.i = 1]
<1>1. Shaped(t) /\ t.claimedKey = s.claimedKey
  BY DEF Shaped
<1> QED
  BY <1>1, AtHopBooks DEF Rerank

LEMMA AfterBooks ==
  ASSUME NEW s, NEW o, Shaped(s)
  PROVE  /\ Shaped(After(s, o))
         /\ After(s, o).pc \in {"claiming", "launching", "done", "lastResort"}
         /\ After(s, o).claimedKey = s.claimedKey
              \/ (After(s, o).pc = "done" /\ After(s, o).claimedKey = None)
<1> DEFINE onward == [s EXCEPT !.onceUsed = @ \/ failover(o) = "once"]
<1>1. Shaped(onward) /\ onward.claimedKey = s.claimedKey
  BY DEF Shaped
<1> HIDE DEF onward
<1>2. /\ Shaped([onward EXCEPT !.i = @ + 1])
      /\ [onward EXCEPT !.i = @ + 1].claimedKey = s.claimedKey
  BY <1>1 DEF Shaped
<1>3. /\ Shaped([onward EXCEPT !.retries = @ - 1])
      /\ [onward EXCEPT !.retries = @ - 1].claimedKey = s.claimedKey
  BY <1>1 DEF Shaped
<1>4. /\ Shaped([onward EXCEPT !.exhaustionForced = TRUE])
  BY <1>1 DEF Shaped
<1>5. LET t == [onward EXCEPT !.pc = "lastResort", !.exhaustionForced = TRUE]
      IN  Shaped(t) /\ t.pc = "lastResort" /\ t.claimedKey = s.claimedKey
  BY <1>1 DEF Shaped
<1>6. \/ After(s, o) = Return(s, o, provider(s), "answer")
      \/ After(s, o) = AtHop([onward EXCEPT !.i = @ + 1])
      \/ After(s, o) = AtHop([onward EXCEPT !.retries = @ - 1])
      \/ After(s, o) = [onward EXCEPT !.pc = "lastResort", !.exhaustionForced = TRUE]
      \/ After(s, o) = ReturnSummary([onward EXCEPT !.exhaustionForced = TRUE])
  BY DEF After, onward
<1>7. CASE After(s, o) = AtHop([onward EXCEPT !.i = @ + 1])
  BY <1>2, <1>7, AtHopBooks
<1>8. CASE After(s, o) = AtHop([onward EXCEPT !.retries = @ - 1])
  BY <1>3, <1>8, AtHopBooks
<1>9. CASE After(s, o) = Return(s, o, provider(s), "answer")
  BY <1>9, ReturnBooks
<1>10. CASE After(s, o) = ReturnSummary([onward EXCEPT !.exhaustionForced = TRUE])
  BY <1>4, <1>10, ReturnBooks DEF ReturnSummary
<1> QED
  BY <1>5, <1>6, <1>7, <1>8, <1>9, <1>10

-----------------------------------------------------------------------------
\* What a write and a release leave of the keys.
LEMMA WritesKeys ==
  ASSUME NEW before \in [Keys -> Statuses], NEW k, NEW statuses \in SUBSET Statuses,
         NEW after \in Writes(before, k, statuses)
  PROVE  /\ after \in [Keys -> Statuses]
         /\ \A j \in Keys : after[j] = before[j] \/ (j = k /\ after[j] \in statuses)
         /\ ~StoreErrors /\ k \in Keys => after[k] \in statuses
BY DEF Writes

LEMMA ReleasedKeys ==
  ASSUME NEW before \in [Keys -> Statuses], NEW s, NEW after \in Released(before, s)
  PROVE  /\ after \in [Keys -> Statuses]
         /\ \A j \in Keys : after[j] = "probing" => before[j] = "probing"
         /\ ~StoreErrors => \A j \in Keys : j = s.claimedKey => after[j] # "probing"
<1>1. CASE s.claimedKey = None \/ before[s.claimedKey] # "probing"
  BY <1>1, ChainAssumption DEF Released
<1>2. CASE ~(s.claimedKey = None \/ before[s.claimedKey] # "probing")
  <2>1. after \in Writes(before, s.claimedKey, {"halfopen"})
    BY <1>2 DEF Released
  <2>2. {"halfopen"} \in SUBSET Statuses
    BY DEF Statuses
  <2> QED
    BY <2>1, <2>2, WritesKeys
<1> QED
  BY <1>1, <1>2

LEMMA WrittenKeys ==
  ASSUME store \in [Keys -> Statuses], NEW p, NEW o, NEW after \in Written(p, o)
  PROVE  /\ after \in [Keys -> Statuses]
         /\ \A j \in Keys : after[j] = "probing" => store[j] = "probing"
         /\ ~StoreErrors => \A j \in Keys : j = wroteKey(p, o) => after[j] # "probing"
<1>1. {"cooling", "halfopen"} \in SUBSET Statuses /\ {"open"} \in SUBSET Statuses
  BY DEF Statuses
<1>2. CASE wroteKey(p, o) = None
  BY <1>2, ChainAssumption DEF Written
<1>3. CASE wroteKey(p, o) # None
  <2>1. \/ after \in Writes(store, wroteKey(p, o), {"cooling", "halfopen"})
        \/ after \in Writes(store, wroteKey(p, o), {"open"})
    BY <1>3 DEF Written
  <2> QED
    BY <1>1, <2>1, WritesKeys
<1> QED
  BY <1>2, <1>3

-----------------------------------------------------------------------------
\* Request s must see to it that the probe of key k is settled.
Owes(s, k) ==
  \/ s.pc \in {"launching", "attempting", "lastResort", "lastArm"} /\ s.claimedKey = k
  \/ k = ForcedKey /\ s.pc \in {"floored", "lastArm"}

\* A step that makes of request r what t is: it takes a probe only from a key that
\* offers one, and then owes it; and what it owed it settles or goes on owing.
Pays(r, t) ==
  /\ q' = [q EXCEPT ![r] = t]
  /\ Shaped(t) /\ Claimless(t)
  /\ store' \in [Keys -> Statuses]
  /\ \A k \in Keys : store'[k] = "probing" =>
       /\ store[k] \in {"halfopen", "probing"}
       /\ ~StoreErrors => Owes(t, k) \/ (store[k] = "probing" /\ ~Owes(q[r], k))

LEMMA PaidBooks ==
  ASSUME Books, NEW r \in Requests, NEW t, Pays(r, t)
  PROVE  Books' /\ (~StoreErrors /\ NoStrandedProbe => NoStrandedProbe')
<1>1. q'[r] = t /\ \A s \in Requests \ {r} : q'[s] = q[s]
  BY DEF Books, Pays
<1>2. Books'
  BY <1>1 DEF Books, Pays
<1>3. ASSUME ~StoreErrors, NoStrandedProbe, NEW k \in Keys, store'[k] = "probing"
      PROVE  \E s \in Requests : Owes(q'[s], k)
  <2>1. CASE Owes(t, k)
    BY <1>1, <2>1
  <2>2. CASE store[k] = "probing" /\ ~Owes(q[r], k)
    <3>1. PICK s \in Requests : Owes(q[s], k)
      BY <1>3, <2>2 DEF NoStrandedProbe, Owes, Active
    <3> QED
      BY <1>1, <2>2, <3>1
  <2> QED
    BY <1>3, <2>1, <2>2 DEF Pays
<1> QED
  BY <1>2, <1>3 DEF NoStrandedProbe, Owes, Active

\* An answer that sends nothing releases the claim.
LEMMA UnsentPays ==
  ASSUME Books, NEW r \in Requests, NEW s, NEW o, NEW p, NEW why, Shaped(s),
         q[r].pc \in {"launching", "attempting", "lastResort"},
         ReturnUnsent(r, Return(s, o, p, why))
  PROVE  Pays(r, Return(s, o, p, why))
<1> DEFINE t == Return(s, o, p, why)
<1>1. Shaped(t) /\ Claimless(t)
  BY ReturnBooks DEF Claimless
<1>2. store' \in Released(store, q[r]) /\ q' = [q EXCEPT ![r] = t]
  BY DEF ReturnUnsent
<1> HIDE DEF t
<1>3. /\ store' \in [Keys -> Statuses]
      /\ \A j \in Keys : store'[j] = "probing" => store[j] = "probing"
      /\ ~StoreErrors => \A j \in Keys : j = q[r].claimedKey => store'[j] # "probing"
  BY <1>2, ReleasedKeys DEF Books
<1>4. Pays(r, t)
  BY <1>1, <1>2, <1>3 DEF Pays, Owes
<1> QED
  BY <1>4 DEF t

\* A step that writes no key pays, if the request owed nothing or goes on owing.
LEMMA IdlePays ==
  ASSUME Books, NEW r \in Requests, NEW t, store' = store, q' = [q EXCEPT ![r] = t],
         Shaped(t), Claimless(t), \A k \in Keys : Owes(q[r], k) => Owes(t, k)
  PROVE  Pays(r, t)
BY DEF Books, Pays

\* A granted claim.
LEMMA GrantPays ==
  ASSUME Books, NEW r \in Requests, NEW t, NEW k, ClaimGranted(k),
         q' = [q EXCEPT ![r] = t], Shaped(t), Claimless(t), Owes(t, k),
         \A j \in Keys : Owes(q[r], j) => Owes(t, j)
  PROVE  Pays(r, t)
<1>1. store' \in [Keys -> Statuses]
  BY DEF ClaimGranted, Books, Statuses
<1>2. \A j \in Keys \ {k} : store'[j] = store[j]
  BY DEF ClaimGranted, Books
<1>3. k \in Keys /\ store'[k] = "probing" => store[k] = "halfopen"
  BY DEF ClaimGranted, Books
<1> QED
  BY <1>1, <1>2, <1>3 DEF Pays

LEMMA StartPays ==
  ASSUME Books, NEW r \in Requests, Start(r)
  PROVE  \E t : Pays(r, t)
<1>1. PICK s : /\ \E view, snap : s = [q[r] EXCEPT !.snap = snap, !.health = view]
               /\ q' = [q EXCEPT ![r] = IF notCooling(s) = {} THEN [s EXCEPT !.pc = "flooring"]
                                        ELSE Rerank(s)]
  BY DEF Start
<1> DEFINE t == IF notCooling(s) = {} THEN [s EXCEPT !.pc = "flooring"] ELSE Rerank(s)
<1>2. Shaped(q[r]) /\ q[r].pc = "new" /\ q[r].claimedKey = None
  BY DEF Start, Books, Claimless
<1>3. Shaped(s) /\ s.claimedKey = None
  BY <1>1, <1>2 DEF Shaped
<1>4. q' = [q EXCEPT ![r] = t] /\ store' = store
  BY <1>1 DEF Start
<1>5. Shaped(t) /\ t.claimedKey = None
  BY <1>3, RerankBooks DEF Shaped
<1>6. \A k \in Keys : ~Owes(q[r], k)
  BY <1>2 DEF Owes
<1> HIDE DEF t
<1>7. Pays(r, t)
  BY <1>4, <1>5, <1>6, IdlePays DEF Claimless
<1> QED
  BY <1>7

LEMMA FloorPays ==
  ASSUME Books, NEW r \in Requests, ClaimFloor(r)
  PROVE  \E t : Pays(r, t)
<1>1. Shaped(q[r]) /\ q[r].pc = "flooring" /\ q[r].claimedKey = None
  BY DEF ClaimFloor, Books, Claimless
<1>2. \A k \in Keys : ~Owes(q[r], k)
  BY <1>1 DEF Owes
<1>3. CASE ClaimGranted(ForcedKey) /\ q' = [q EXCEPT ![r].pc = "floored"]
  <2> DEFINE t == [q[r] EXCEPT !.pc = "floored"]
  <2>1. Shaped(t) /\ t.pc = "floored" /\ t.claimedKey = None
    BY <1>1 DEF Shaped
  <2>2. q' = [q EXCEPT ![r] = t]
    BY <1>3
  <2> HIDE DEF t
  <2>3. ForcedKey \in Keys /\ Owes(t, ForcedKey) /\ Claimless(t)
    BY <2>1 DEF Keys, Owes, Claimless
  <2> QED
    BY <1>2, <1>3, <2>1, <2>2, <2>3, GrantPays
<1>4. CASE /\ store' = store
           /\ q' = [q EXCEPT ![r] = Return(@, "NO_PROVIDER_AVAILABLE", None, "cooling")]
  <2> DEFINE t == Return(q[r], "NO_PROVIDER_AVAILABLE", None, "cooling")
  <2>1. Shaped(t) /\ Claimless(t)
    BY <1>1, ReturnBooks DEF Claimless
  <2>2. q' = [q EXCEPT ![r] = t]
    BY <1>4
  <2> HIDE DEF t
  <2> QED
    BY <1>2, <1>4, <2>1, <2>2, IdlePays
<1> QED
  BY <1>3, <1>4 DEF ClaimFloor, ClaimRefused

\* The forced slot is armed: the request's claim of it is settled.
LEMMA ArmFloorPays ==
  ASSUME Books, NEW r \in Requests, ArmFloor(r)
  PROVE  \E t : Pays(r, t)
<1>1. Shaped(q[r]) /\ q[r].pc = "floored" /\ q[r].claimedKey = None
  BY DEF ArmFloor, Books, Claimless
<1>2. PICK p \in cooled(q[r]) : q' = [q EXCEPT ![r] = Rerank([@ EXCEPT !.forcedBy = p])]
  BY DEF ArmFloor
<1> DEFINE s == [q[r] EXCEPT !.forcedBy = p]
           t == Rerank(s)
<1>3. Shaped(s) /\ s.claimedKey = None
  BY <1>1 DEF Shaped
<1>4. q' = [q EXCEPT ![r] = t]
  BY <1>2
<1> HIDE DEF s
<1>5. Shaped(t) /\ t.claimedKey = None
  BY <1>3, RerankBooks
<1> HIDE DEF t
<1>6. store' \in Writes(store, ForcedKey, {"cooling"}) /\ {"cooling"} \in SUBSET Statuses
  BY DEF ArmFloor, Statuses
<1>7. /\ store' \in [Keys -> Statuses]
      /\ \A j \in Keys : store'[j] = "probing" => store[j] = "probing"
      /\ ~StoreErrors /\ ForcedKey \in Keys => store'[ForcedKey] # "probing"
  BY <1>6, WritesKeys DEF Books
<1>8. \A k \in Keys : Owes(q[r], k) => k = ForcedKey
  BY <1>1 DEF Owes
<1>9. Pays(r, t)
  BY <1>4, <1>5, <1>7, <1>8 DEF Pays, Claimless
<1> QED
  BY <1>9

LEMMA ClaimPays ==
  ASSUME Books, NEW r \in Requests, Claim(r)
  PROVE  \E t : Pays(r, t)
<1>1. Shaped(q[r]) /\ q[r].pc = "claiming" /\ q[r].claimedKey = None
  BY DEF Claim, Books, Claimless
<1>2. \A k \in Keys : ~Owes(q[r], k)
  BY <1>1 DEF Owes
<1>3. CASE /\ ClaimGranted(probeKey(q[r])) \/ store' = store
           /\ q' = [q EXCEPT ![r].pc = "launching", ![r].claimedKey = probeKey(q[r])]
  <2> DEFINE t == [q[r] EXCEPT !.pc = "launching", !.claimedKey = probeKey(q[r])]
  <2>1. Shaped(t) /\ t.pc = "launching" /\ t.claimedKey = probeKey(q[r])
    BY <1>1 DEF Shaped
  <2>2. q' = [q EXCEPT ![r] = t]
    BY <1>1, <1>3 DEF Books, Shaped
  <2> HIDE DEF t
  <2>3. Owes(t, probeKey(q[r])) /\ Claimless(t)
    BY <2>1 DEF Owes, Claimless
  <2>4. Pays(r, t)
    BY <1>2, <1>3, <2>1, <2>2, <2>3, GrantPays, IdlePays
  <2> QED
    BY <2>4
<1>4. CASE /\ store' = store
           /\ q' = [q EXCEPT ![r] =
                      Rerank([q[r] EXCEPT !.unusable = @ \cup {provider(q[r])}])]
  <2> DEFINE s == [q[r] EXCEPT !.unusable = @ \cup {provider(q[r])}]
             t == Rerank(s)
  <2>1. Shaped(s) /\ s.claimedKey = None
    BY <1>1 DEF Shaped
  <2> HIDE DEF s
  <2>2. Shaped(t) /\ Claimless(t)
    BY <2>1, RerankBooks DEF Claimless
  <2>3. q' = [q EXCEPT ![r] = t]
    BY <1>4 DEF s
  <2> HIDE DEF t
  <2> QED
    BY <1>2, <1>4, <2>2, <2>3, IdlePays
<1> QED
  BY <1>3, <1>4 DEF Claim, ClaimRefused

LEMMA LaunchPays ==
  ASSUME Books, NEW r \in Requests, Launch(r)
  PROVE  \E t : Pays(r, t)
<1>1. Shaped(q[r]) /\ q[r].pc = "launching"
  BY DEF Launch, Books
<1>2. CASE ReturnUnsent(r, Return(q[r], "BUDGET_EXCEEDED", None, "time"))
  BY <1>1, <1>2, UnsentPays
<1>3. CASE q' = [q EXCEPT ![r].pc = "attempting"] /\ store' = store
  <2> DEFINE t == [q[r] EXCEPT !.pc = "attempting"]
  <2>1. Shaped(t) /\ t.pc = "attempting" /\ t.claimedKey = q[r].claimedKey
    BY <1>1 DEF Shaped
  <2>2. q' = [q EXCEPT ![r] = t]
    BY <1>3
  <2> HIDE DEF t
  <2>3. Claimless(t) /\ \A k \in Keys : Owes(q[r], k) => Owes(t, k)
    BY <1>1, <2>1 DEF Claimless, Owes
  <2> QED
    BY <1>3, <2>1, <2>2, <2>3, IdlePays
<1>4. ASSUME NEW a,
             ReturnUnsent(r, Return([q[r] EXCEPT !.attempts = a], "INVALID_REQUEST", None, "answer"))
      PROVE  \E t : Pays(r, t)
  <2> DEFINE s == [q[r] EXCEPT !.attempts = a]
  <2>1. Shaped(s)
    BY <1>1 DEF Shaped
  <2> HIDE DEF s
  <2>2. Pays(r, Return(s, "INVALID_REQUEST", None, "answer"))
    BY <1>1, <1>4, <2>1, UnsentPays DEF s
  <2> QED
    BY <2>2
<1> QED
  BY <1>2, <1>3, <1>4 DEF Launch

LEMMA GonePays ==
  ASSUME Books, NEW r \in Requests, ClientGone(r)
  PROVE  \E t : Pays(r, t)
<1>1. Shaped(q[r]) /\ q[r].pc = "attempting"
  BY DEF ClientGone, Books
<1>2. Pays(r, Return(q[r], "BUDGET_EXCEEDED", None, "gone"))
  BY <1>1, UnsentPays DEF ClientGone
<1> QED
  BY <1>2

\* Whatever an outcome writes, under the claimed key or another, the claim is
\* settled by that write, released, or kept for the end of the last resort.
LEMMA ReplyPays ==
  ASSUME Books, NEW r \in Requests, Reply(r)
  PROVE  \E t : Pays(r, t)
<1>1. Shaped(q[r]) /\ q[r].pc = "attempting"
  BY DEF Reply, Books
<1> DEFINE p == provider(q[r])
           Booked(o, spent, late) == Bookkept(Late(q[r], late), p, o, spent)
<1>2. PICK o, spent, late, written :
        /\ written \in Written(p, o)
        /\ LET s == Settled(Booked(o, spent, late), p, o)
               next == After(s, o)
           IN  IF next.pc = "lastResort"
               THEN store' = written /\ q' = [q EXCEPT ![r] = next]
               ELSE /\ store' \in Released(written, s)
                    /\ q' = [q EXCEPT ![r] = [next EXCEPT !.claimedKey = None]]
  BY DEF Reply
<1> DEFINE b == Booked(o, spent, late)
           s == Settled(b, p, o)
           next == After(s, o)
<1>3. Shaped(b) /\ b.claimedKey = q[r].claimedKey
  BY <1>1 DEF Shaped, Bookkept, Late
<1> HIDE DEF b
<1>4. /\ Shaped(s)
      /\ s.claimedKey = IF wroteKey(p, o) = q[r].claimedKey THEN None ELSE q[r].claimedKey
  BY <1>3 DEF Shaped, Settled
<1> HIDE DEF s
<1>5. /\ Shaped(next)
      /\ next.pc \in {"claiming", "launching", "done", "lastResort"}
      /\ next.claimedKey = s.claimedKey \/ (next.pc = "done" /\ next.claimedKey = None)
  BY <1>4, AfterBooks
<1>6. IF next.pc = "lastResort"
      THEN store' = written /\ q' = [q EXCEPT ![r] = next]
      ELSE /\ store' \in Released(written, s)
           /\ q' = [q EXCEPT ![r] = [next EXCEPT !.claimedKey = None]]
  BY <1>2 DEF s, b
<1> HIDE DEF next, p
<1>7. /\ written \in [Keys -> Statuses]
      /\ \A j \in Keys : written[j] = "probing" => store[j] = "probing"
      /\ ~StoreErrors => \A j \in Keys : j = wroteKey(p, o) => written[j] # "probing"
  BY <1>2, WrittenKeys DEF Books
<1>8. \A k \in Keys : Owes(q[r], k) => q[r].claimedKey = k
  BY <1>1 DEF Owes
<1>9. CASE next.pc = "lastResort"
  <2>1. store' = written /\ q' = [q EXCEPT ![r] = next]
    BY <1>6, <1>9
  <2>2. next.claimedKey = s.claimedKey /\ Claimless(next)
    BY <1>5, <1>9 DEF Claimless
  <2>3. ASSUME NEW k \in Keys, store'[k] = "probing", ~StoreErrors, Owes(q[r], k)
        PROVE  Owes(next, k)
    <3>1. q[r].claimedKey = k /\ wroteKey(p, o) # k
      BY <1>7, <1>8, <2>1, <2>3
    <3> QED
      BY <1>4, <1>9, <2>2, <3>1 DEF Owes
  <2>4. Pays(r, next)
    BY <1>5, <1>7, <2>1, <2>2, <2>3 DEF Pays
  <2> QED
    BY <2>4
<1>10. CASE next.pc # "lastResort"
  <2> DEFINE t == [next EXCEPT !.claimedKey = None]
  <2>1. store' \in Released(written, s) /\ q' = [q EXCEPT ![r] = t]
    BY <1>6, <1>10
  <2>2. Shaped(t) /\ Claimless(t)
    BY <1>5 DEF Shaped, Claimless
  <2> HIDE DEF t
  <2>3. /\ store' \in [Keys -> Statuses]
        /\ \A j \in Keys : store'[j] = "probing" => written[j] = "probing"
        /\ ~StoreErrors => \A j \in Keys : j = s.claimedKey => store'[j] # "probing"
    BY <1>7, <2>1, ReleasedKeys
  <2>4. ASSUME NEW k \in Keys, store'[k] = "probing", ~StoreErrors
        PROVE  ~Owes(q[r], k)
    <3>1. written[k] = "probing" /\ wroteKey(p, o) # k /\ s.claimedKey # k
      BY <1>7, <2>3, <2>4
    <3> QED
      BY <1>4, <1>8, <3>1
  <2>5. Pays(r, t)
    BY <1>7, <2>1, <2>2, <2>3, <2>4 DEF Pays
  <2> QED
    BY <2>5
<1> QED
  BY <1>9, <1>10

LEMMA LastResortPays ==
  ASSUME Books, NEW r \in Requests, ClaimLastResort(r)
  PROVE  \E t : Pays(r, t)
<1>1. Shaped(q[r]) /\ q[r].pc = "lastResort"
  BY DEF ClaimLastResort, Books
<1>2. CASE ClaimGranted(ForcedKey) /\ q' = [q EXCEPT ![r].pc = "lastArm"]
  <2> DEFINE t == [q[r] EXCEPT !.pc = "lastArm"]
  <2>1. Shaped(t) /\ t.pc = "lastArm" /\ t.claimedKey = q[r].claimedKey
    BY <1>1 DEF Shaped
  <2>2. q' = [q EXCEPT ![r] = t]
    BY <1>2
  <2> HIDE DEF t
  <2>3. /\ Claimless(t) /\ Owes(t, ForcedKey)
        /\ \A k \in Keys : Owes(q[r], k) => Owes(t, k)
    BY <1>1, <2>1 DEF Claimless, Owes
  <2> QED
    BY <1>2, <2>1, <2>2, <2>3, GrantPays
<1>3. CASE ReturnUnsent(r, ReturnSummary(q[r]))
  <2>1. Pays(r, ReturnSummary(q[r]))
    BY <1>1, <1>3, UnsentPays DEF ReturnSummary
  <2> QED
    BY <2>1
<1> QED
  BY <1>2, <1>3 DEF ClaimLastResort

\* Arming the slot settles the last resort's claim of it; the probe's own claim, if
\* it is still there, is released.
LEMMA ArmLastResortPays ==
  ASSUME Books, NEW r \in Requests, ArmLastResort(r)
  PROVE  \E t : Pays(r, t)
<1>1. Shaped(q[r]) /\ q[r].pc = "lastArm"
  BY DEF ArmLastResort, Books
<1>2. PICK armed, u :
        /\ armed \in Writes(store, ForcedKey, {"cooling"}) /\ store' \in Released(armed, q[r])
        /\ \E p : u = [q[r] EXCEPT !.forcedBy = p, !.chain = <<p>>, !.i = 1, !.claimedKey = None]
        /\ q' = [q EXCEPT ![r] = AtHop(u)]
  BY DEF ArmLastResort
<1> DEFINE t == AtHop(u)
<1>3. Shaped(u) /\ u.claimedKey = None
  BY <1>1, <1>2 DEF Shaped
<1>4. Shaped(t) /\ Claimless(t)
  BY <1>3, AtHopBooks DEF Claimless
<1>5. q' = [q EXCEPT ![r] = t]
  BY <1>2
<1> HIDE DEF t
<1>6. {"cooling"} \in SUBSET Statuses
  BY DEF Statuses
<1>7. /\ armed \in [Keys -> Statuses]
      /\ \A j \in Keys : armed[j] = "probing" => store[j] = "probing"
      /\ ~StoreErrors => \A j \in Keys : j = ForcedKey => armed[j] # "probing"
  BY <1>2, <1>6, WritesKeys DEF Books
<1>8. /\ store' \in [Keys -> Statuses]
      /\ \A j \in Keys : store'[j] = "probing" => armed[j] = "probing"
      /\ ~StoreErrors => \A j \in Keys : j = q[r].claimedKey => store'[j] # "probing"
  BY <1>2, <1>7, ReleasedKeys
<1>9. \A k \in Keys : Owes(q[r], k) => k = ForcedKey \/ k = q[r].claimedKey
  BY <1>1 DEF Owes
<1>10. Pays(r, t)
  BY <1>4, <1>5, <1>7, <1>8, <1>9 DEF Pays
<1> QED
  BY <1>10

-----------------------------------------------------------------------------
\* What one step of the system may make of a key.
LEMMA WaitPays ==
  ASSUME Books, NEW r \in Requests, Wait(r)
  PROVE  \E t : Pays(r, t)
<1>1. PICK d : q' = [q EXCEPT ![r] = Late(@, d)]
  BY DEF Wait
<1> DEFINE t == Late(q[r], d)
<1>2. q' = [q EXCEPT ![r] = t] /\ store' = store
  BY <1>1 DEF Wait
<1>3. Shaped(q[r]) /\ Claimless(q[r])
  BY DEF Books
<1>4. Shaped(t) /\ t.pc = q[r].pc /\ t.claimedKey = q[r].claimedKey
  BY <1>3 DEF Late, Shaped
<1> HIDE DEF t
<1>5. Pays(r, t)
  BY <1>2, <1>3, <1>4 DEF Pays, Owes, Claimless, Books
<1> QED
  BY <1>5

LEMMA NextBooks ==
  ASSUME Books, [Next]_vars
  PROVE  /\ Books'
         /\ ~StoreErrors /\ NoStrandedProbe => NoStrandedProbe'
<1>1. CASE \E r \in Requests : Step(r) \/ Wait(r)
  <2>1. PICK r \in Requests : Step(r) \/ Wait(r)
    BY <1>1
  <2>2. PICK t : Pays(r, t)
    BY <2>1, WaitPays, StartPays, FloorPays, ArmFloorPays, ClaimPays, LaunchPays, GonePays, ReplyPays,
       LastResortPays, ArmLastResortPays DEF Step
  <2> QED
    BY <2>2, PaidBooks
<1>2. CASE \E k \in Lapsing : Expire(k) \/ Forget(k)
  <2>1. PICK k \in Lapsing : Expire(k) \/ Forget(k)
    BY <1>2
  <2>2. /\ q' = q /\ store' \in [Keys -> Statuses]
        /\ \A j \in Keys : store'[j] = "probing" => store[j] = "probing"
    BY <2>1 DEF Expire, Forget, Books, Statuses
  <2> QED
    BY <2>2 DEF Books, NoStrandedProbe, Active, Shaped, Claimless
<1>3. CASE UNCHANGED vars
  BY <1>3 DEF vars, Books, NoStrandedProbe, Active, Shaped, Claimless
<1> QED
  BY <1>1, <1>2, <1>3 DEF Next, Finished

\* Where no store call fails, a probe that is taken always has a request under way
\* that will settle it, whichever key its outcome writes, however its walk is
\* ranked again or ends (chain.ts, settleProbe).
THEOREM ChainStrandsNoProbe == ~StoreErrors => (Spec => []NoStrandedProbe)
<1> SUFFICES ASSUME ~StoreErrors PROVE Spec => []NoStrandedProbe
  OBVIOUS
<1>1. Init => Books /\ NoStrandedProbe
  BY InitBooks
<1>2. Books /\ NoStrandedProbe /\ [Next]_vars => Books' /\ NoStrandedProbe'
  BY NextBooks
<1> QED
  BY <1>1, <1>2, PTL DEF Spec

-----------------------------------------------------------------------------
\* The ranking of providers.  Sorted by a key that tells them apart, a finite set
\* has an enumeration, which is what orderChain chooses.
LEMMA SortedExists ==
  ASSUME NEW set, IsFiniteSet(set), NEW key, \A p \in set : key[p] \in Int,
         \A p, o \in set : p # o => key[p] # key[o]
  PROVE  \E c \in [1 .. Cardinality(set) -> set] :
           \A m, n \in 1 .. Cardinality(set) : m < n => key[c[m]] < key[c[n]]
<1> DEFINE N == Cardinality(set)
           below(p) == {o \in set : key[o] < key[p]}
           place == [p \in set |-> Cardinality(below(p)) + 1]
<1>1. N \in Nat
  BY FS_CardinalityType
<1>2. ASSUME NEW p \in set
      PROVE  IsFiniteSet(below(p)) /\ Cardinality(below(p)) \in Nat /\ Cardinality(below(p)) < N
  <2>1. below(p) \in SUBSET set /\ below(p) # set
    OBVIOUS
  <2> HIDE DEF below
  <2> QED
    BY <1>1, <2>1, FS_Subset, FS_CardinalityType
<1>3. place \in [set -> 1 .. N]
  <2> HIDE DEF below, N
  <2>1. \A p \in set : Cardinality(below(p)) + 1 \in 1 .. N
    BY <1>1, <1>2
  <2> QED
    BY <2>1
<1>4. ASSUME NEW p \in set, NEW o \in set, key[p] < key[o]
      PROVE  place[p] < place[o]
  <2>1. below(p) \in SUBSET below(o) /\ below(p) # below(o)
    BY <1>4
  <2>2. Cardinality(below(p)) < Cardinality(below(o))
    <3> HIDE DEF below
    <3> QED
      BY <1>2, <2>1, FS_Subset
  <2> HIDE DEF below
  <2> QED
    BY <1>2, <2>2
<1>5. \A p, o \in set : place[p] = place[o] => p = o
  BY <1>3, <1>4
<1>6. place \in Injection(set, 1 .. N)
  BY <1>3, <1>5 DEF Injection, IsInjective
<1>7. IsFiniteSet(1 .. N) /\ Cardinality(1 .. N) = N
  BY <1>1, FS_Interval
<1>8. place \in Surjection(set, 1 .. N)
  BY <1>6, <1>7, FS_Injection
<1> HIDE DEF place
<1>9. \A n \in 1 .. N : \E p \in set : place[p] = n
  BY <1>8 DEF Surjection
<1> DEFINE c == [n \in 1 .. N |-> CHOOSE p \in set : place[p] = n]
<1>10. \A n \in 1 .. N : c[n] \in set /\ place[c[n]] = n
  BY <1>9
<1>11. c \in [1 .. N -> set]
  BY <1>10
<1>12. \A m, n \in 1 .. N : m < n => key[c[m]] < key[c[n]]
  <2> SUFFICES ASSUME NEW m \in 1 .. N, NEW n \in 1 .. N, m < n PROVE key[c[m]] < key[c[n]]
    OBVIOUS
  <2> HIDE DEF c
  <2>1. c[m] \in set /\ c[n] \in set /\ place[c[m]] = m /\ place[c[n]] = n
    BY <1>10
  <2>2. ~ (key[c[n]] < key[c[m]]) /\ key[c[m]] # key[c[n]]
    BY <1>1, <1>4, <2>1
  <2> QED
    BY <2>1, <2>2
<1> HIDE DEF c
<1> QED
  BY <1>11, <1>12

\* A function on an interval is a sequence.
LEMMA IntervalSeq ==
  ASSUME NEW S, NEW n \in Nat, NEW c \in [1 .. n -> S]
  PROVE  c \in Seq(S) /\ Len(c) = n
<1>1. c \in Seq(S)
  BY SeqDef
<1>2. DOMAIN c = 1 .. Len(c) /\ Len(c) \in Nat
  BY <1>1, LenProperties
<1> QED
  BY <1>1, <1>2

\* orderChain enumerates the set, the smaller key first.
LEMMA OrderChain ==
  ASSUME NEW set, IsFiniteSet(set), NEW key, \A p \in set : key[p] \in Int,
         \A p, o \in set : p # o => key[p] # key[o]
  PROVE  LET c == orderChain(set, key) IN
         /\ c \in Seq(set) /\ Len(c) = Cardinality(set)
         /\ \A m, n \in 1 .. Len(c) : m < n => c[m] # c[n]
         /\ \A p \in set : \E n \in 1 .. Len(c) : c[n] = p
<1> DEFINE N == Cardinality(set)
           c == orderChain(set, key)
<1>1. N \in Nat
  BY FS_CardinalityType
<1>2. /\ c \in [1 .. N -> set]
      /\ \A m, n \in 1 .. N : m < n => key[c[m]] < key[c[n]]
  BY SortedExists DEF orderChain
<1> HIDE DEF c
<1>3. c \in Seq(set) /\ Len(c) = N
  BY <1>1, <1>2, IntervalSeq
<1>4. \A m, n \in 1 .. N : m < n => c[m] # c[n]
  <2> SUFFICES ASSUME NEW m \in 1 .. N, NEW n \in 1 .. N, m < n, c[m] = c[n] PROVE FALSE
    OBVIOUS
  <2>1. key[c[m]] \in Int /\ key[c[m]] < key[c[n]]
    BY <1>2
  <2> QED
    BY <2>1
<1>5. c \in Injection(1 .. N, set)
  BY <1>1, <1>2, <1>4 DEF Injection, IsInjective
<1>6. IsFiniteSet(1 .. N) /\ Cardinality(1 .. N) = N
  BY <1>1, FS_Interval
<1>7. c \in Surjection(1 .. N, set)
  BY <1>5, <1>6, FS_Injection
<1>8. \A p \in set : \E n \in 1 .. N : c[n] = p
  BY <1>7 DEF Surjection
<1> QED
  BY <1>3, <1>4, <1>8 DEF c

LEMMA ProvidersFinite == IsFiniteSet(Providers) /\ Cardinality(Providers) <= Len(Priority)
<1>1. Priority \in Seq(Providers) /\ Len(Priority) \in Nat /\ DOMAIN Priority = 1 .. Len(Priority)
  BY ChainAssumption, LenProperties
<1>2. Priority \in Surjection(1 .. Len(Priority), Providers)
  BY <1>1, LenProperties DEF Surjection, Providers, ToSet
<1>3. IsFiniteSet(1 .. Len(Priority)) /\ Cardinality(1 .. Len(Priority)) = Len(Priority)
  BY <1>1, FS_Interval
<1> QED
  BY <1>2, <1>3, FS_Surjection

LEMMA PriorityKey ==
  ASSUME NEW p \in Providers
  PROVE  byPriority[p] \in 1 .. Len(Priority) /\ Priority[byPriority[p]] = p
<1>1. \E n \in DOMAIN Priority : Priority[n] = p
  BY DEF Providers, ToSet
<1>2. DOMAIN Priority = 1 .. Len(Priority)
  BY ChainAssumption, LenProperties
<1> QED
  BY <1>1, <1>2 DEF byPriority

\* Where one range of keys ends the next begins.
LEMMA HealthKey ==
  ASSUME NEW s, s.health \in HealthViews
  PROVE  /\ \A p \in Providers : byHealth(s)[p] \in Int
         /\ \A p, o \in Providers : p # o => byHealth(s)[p] # byHealth(s)[o]
<1> DEFINE L == Len(Priority)
<1>1. L \in Nat
  BY ChainAssumption, LenProperties
<1>2. ASSUME NEW p \in Providers
      PROVE  byHealth(s)[p] - byPriority[p] \in {0, L, L + L}
  <2>1. s.health[p] \in {"healthy", "degraded", "demoted"}
    BY ChainAssumption
  <2>2. RANK[s.health[p]] \in {0, 1, 2}
    BY <2>1 DEF RANK
  <2>3. RANK[s.health[p]] * L \in {0, L, L + L}
    BY <1>1, <2>2
  <2>4. byHealth(s)[p] = RANK[s.health[p]] * L + byPriority[p]
    BY DEF byHealth
  <2>5. byPriority[p] \in Int
    BY PriorityKey
  <2> HIDE DEF L
  <2> QED
    BY <1>1, <2>3, <2>4, <2>5
<1>3. \A p \in Providers : byHealth(s)[p] \in Int
  <2>1. \A p \in Providers : RANK[s.health[p]] \in Nat
    BY ChainAssumption DEF RANK
  <2> QED
    BY <1>1, <2>1, PriorityKey DEF byHealth
<1>4. \A p \in Providers : byPriority[p] \in 1 .. L
  BY PriorityKey
<1>5. \A p, o \in Providers : byPriority[p] = byPriority[o] => p = o
  BY PriorityKey
<1> HIDE DEF L
<1>6. ASSUME NEW p \in Providers, NEW o \in Providers, byHealth(s)[p] = byHealth(s)[o]
      PROVE  p = o
  <2>1. /\ byHealth(s)[p] - byPriority[p] \in {0, L, L + L}
        /\ byHealth(s)[o] - byPriority[o] \in {0, L, L + L}
    BY <1>2
  <2>2. byHealth(s)[p] \in Int
    BY <1>3
  <2>3. byPriority[p] = byPriority[o]
    BY <1>1, <1>4, <1>6, <2>1, <2>2
  <2> QED
    BY <1>5, <2>3
<1> QED
  BY <1>6, <1>3

-----------------------------------------------------------------------------
Usable(s) == notCooling(s) \ s.unusable
Up(s) == {p \in Usable(s) : s.health[p] # "demoted"}

\* What a ranking is: it has every usable provider that is not demoted, once, and
\* a demoted one only when there is no other.
IsRanking(s, c) ==
  /\ c \in Seq(Providers)
  /\ \A n \in 1 .. Len(c) : c[n] \in Usable(s)
  /\ \A m, n \in 1 .. Len(c) : m < n => c[m] # c[n]
  /\ \A p \in Up(s) : \E n \in 1 .. Len(c) : c[n] = p
  /\ (\E n \in 1 .. Len(c) : s.health[c[n]] = "demoted") => Up(s) = {}
  /\ Len(c) <= (IF Up(s) = {} THEN 1 ELSE Cardinality(Up(s)))

LEMMA Ranking == ASSUME NEW s \in Request PROVE IsRanking(s, rank(s))
<1> DEFINE c == rank(s)
           key == byHealth(s)
<1> SUFFICES IsRanking(s, c)
  OBVIOUS
<1>1. s.health \in HealthViews /\ s.forcedBy \in Providers \cup {None}
  BY DEF Request
<1>2. Usable(s) \in SUBSET Providers /\ Up(s) \in SUBSET Usable(s) /\ Up(s) \in SUBSET Providers
  BY <1>1 DEF Usable, Up, notCooling
<1>3. IsFiniteSet(Usable(s)) /\ IsFiniteSet(Up(s))
  BY <1>2, ProvidersFinite, FS_Subset
<1>4. /\ \A p \in Providers : key[p] \in Int
      /\ \A p, o \in Providers : p # o => key[p] # key[o]
  BY <1>1, HealthKey
<1> HIDE DEF key
<1>5. CASE Up(s) # {} \/ Usable(s) = {}
  <2>1. c = orderChain(Up(s), key)
    BY <1>5 DEF rank, Usable, Up, key
  <2>2. /\ c \in Seq(Up(s)) /\ Len(c) = Cardinality(Up(s))
        /\ \A m, n \in 1 .. Len(c) : m < n => c[m] # c[n]
        /\ \A p \in Up(s) : \E n \in 1 .. Len(c) : c[n] = p
    BY <1>2, <1>3, <1>4, <2>1, OrderChain
  <2> HIDE DEF c
  <2>3. c \in Seq(Providers) /\ \A n \in 1 .. Len(c) : c[n] \in Up(s)
    BY <1>2, <2>2, SeqMonotonic, ElementOfSeq
  <2>4. Up(s) = {} => Len(c) = 0
    BY <2>2, FS_EmptySet
  <2>5. \A n \in 1 .. Len(c) : c[n] \in Usable(s) /\ s.health[c[n]] # "demoted"
    BY <2>3 DEF Up
  <2>6. Len(c) <= IF Up(s) = {} THEN 1 ELSE Cardinality(Up(s))
    <3>1. Len(c) \in Nat
      BY <2>2, LenProperties
    <3> QED
      BY <2>2, <2>4, <3>1
  <2> QED
    BY <2>2, <2>3, <2>5, <2>6 DEF IsRanking
<1>6. CASE ~(Up(s) # {} \/ Usable(s) = {})
  <2> DEFINE d == orderChain(Usable(s), key)
  <2>1. c = <<Head(d)>>
    BY <1>6 DEF rank, Usable, Up, key
  <2>2. d \in Seq(Usable(s)) /\ Len(d) = Cardinality(Usable(s))
    BY <1>2, <1>3, <1>4, OrderChain
  <2>3. Cardinality(Usable(s)) \in Nat \ {0}
    BY <1>3, <1>6, FS_EmptySet, FS_CardinalityType
  <2> HIDE DEF d
  <2>4. Head(d) \in Usable(s)
    BY <2>2, <2>3, EmptySeq, HeadTailProperties
  <2>5. c \in Seq(Providers) /\ Len(c) = 1 /\ c[1] \in Usable(s)
    BY <1>2, <2>1, <2>4
  <2> HIDE DEF c
  <2> QED
    BY <1>2, <1>6, <2>1, <2>4, <2>5 DEF IsRanking
<1> QED
  BY <1>5, <1>6

-----------------------------------------------------------------------------
\* The invariant of one request's walk.
TriedBy(s) == {a.provider : a \in ToSet(s.attempts)}

\* What its attempts have left of the deadline, as though nothing else took time.
Spare(s) == s.left + s.lost

RetriesOnly(s) ==
  \A b \in 2 .. Len(s.attempts) :
    (\E a \in 1 .. b - 1 : s.attempts[a].provider = s.attempts[b].provider) =>
      /\ s.attempts[b - 1].provider = s.attempts[b].provider
      /\ s.attempts[b - 1].outcome \in Retryable

\* A second attempt was a retry, and every attempt is accounted for by a provider
\* or a retry; of the cooled providers only the forced one was tried; and the last
\* verdict is kept.
Ledger(s) ==
  /\ RetriesOnly(s)
  /\ Len(s.attempts) + s.retries <= Cardinality(TriedBy(s)) + TerminalRetries
  /\ ~StoreErrors => TriedBy(s) \cap cooled(s) \subseteq {s.forcedBy}
  /\ (\E a \in ToSet(s.attempts) : IsVerdict(a)) => s.lastVerdict # None
  /\ s.lastVerdict # None => IsVerdict(s.lastVerdict)

Untouched(s) ==
  /\ s.attempts = <<>> /\ s.unusable = {} /\ s.forcedBy = None /\ ~s.exhaustionForced
  /\ s.retries = TerminalRetries /\ Spare(s) = Deadline /\ s.lastVerdict = None

\* What is ahead of the walk: hops not tried before, but for a retry of the last
\* one; no cooled provider that was not forced; a demoted one only when there is no
\* better; and, while no last resort is forced, every better one, and time for all.
Ahead(s) ==
  /\ s.i \in 1 .. Len(s.chain)
  /\ \A m, n \in 1 .. Len(s.chain) : m < n => s.chain[m] # s.chain[n]
  /\ \A n \in s.i + 1 .. Len(s.chain) : s.chain[n] \notin s.unusable

Again(s) ==
  provider(s) \in s.unusable =>
    /\ s.i = Len(s.chain) /\ s.attempts # <<>>
    /\ lastCompleted(s).provider = provider(s) /\ lastCompleted(s).outcome \in Retryable
    /\ Len(s.attempts) + s.retries < Cardinality(TriedBy(s)) + TerminalRetries

OnlyForced(s) == \A n \in 1 .. Len(s.chain) : s.chain[n] \in cooled(s) => s.chain[n] = s.forcedBy

OnlyFloor(s) ==
  (\E n \in 1 .. Len(s.chain) : s.health[s.chain[n]] = "demoted" /\ s.chain[n] # s.forcedBy)
    => \A p \in Providers : s.health[p] # "demoted" => p \in cooled(s) \cup s.unusable

InTime(s) ==
  ~s.exhaustionForced =>
    /\ \A p \in Up(s) : \E n \in s.i .. Len(s.chain) : s.chain[n] = p
    /\ Deadline >= Len(Priority) * MinUseful =>
         Spare(s) >= (Len(s.chain) - s.i + 1) * MinUseful

Course(s) == Ahead(s) /\ Again(s) /\ OnlyForced(s) /\ OnlyFloor(s) /\ InTime(s)

OutOfTime(s) ==
  \/ Deadline < Len(Priority) * MinUseful
  \/ s.exhaustionForced
  \/ s.lost > hopsLeft(s) * MinUseful

Ended(s) ==
  /\ s.result.why = "time" => OutOfTime(s)
  /\ s.result.why = "exhausted" /\ s.lastVerdict # None => IsVerdict(s.result)

Walking(s) == s.pc \in {"claiming", "launching", "attempting"}

Sound(s) ==
  /\ s \in Request
  /\ Ledger(s)
  /\ s.pc # "done" => TriedBy(s) \subseteq s.unusable
  /\ s.pc \in {"new", "flooring", "floored"} => Untouched(s)
  /\ Walking(s) => Course(s)
  /\ s.pc \in {"lastResort", "lastArm"} => s.attempts # <<>> /\ s.exhaustionForced
  /\ s.pc = "lastArm" /\ ~StoreErrors => s.forcedBy = None
  /\ s.pc = "done" => Ended(s)

\* Two records of a request at the same point of the same walk.
Same(s, t) ==
  /\ t.snap = s.snap /\ t.health = s.health /\ t.chain = s.chain /\ t.i = s.i
  /\ t.unusable = s.unusable /\ t.forcedBy = s.forcedBy /\ t.retries = s.retries
  /\ t.exhaustionForced = s.exhaustionForced /\ Spare(t) = Spare(s)
  /\ t.attempts = s.attempts /\ t.lastVerdict = s.lastVerdict

LEMMA RequestParts ==
  ASSUME NEW s \in Request
  PROVE  /\ s.pc \in PCs /\ s.snap \in [Keys -> {"open", "cooling", "probe"}]
         /\ s.health \in HealthViews /\ s.chain \in Seq(Providers) /\ s.i \in Nat
         /\ s.unusable \in SUBSET Providers /\ s.forcedBy \in Providers \cup {None}
         /\ s.claimedKey \in Keys \cup {None} /\ s.retries \in Nat /\ s.left \in Int
         /\ s.lost \in 0 .. Overhead /\ s.lost \in Nat /\ Spare(s) \in Int
         /\ s.exhaustionForced \in BOOLEAN /\ s.attempts \in Seq(Attempts)
         /\ s.lastVerdict \in Attempts \cup {None}
BY ChainAssumption DEF Request, Spare

LEMMA SameWalk ==
  ASSUME NEW s, NEW t, Same(s, t)
  PROVE  /\ TriedBy(t) = TriedBy(s) /\ cooled(t) = cooled(s)
         /\ Ledger(s) => Ledger(t)
         /\ Course(s) => Course(t)
         /\ Untouched(s) => Untouched(t)
<1>1. TriedBy(t) = TriedBy(s) /\ cooled(t) = cooled(s) /\ provider(t) = provider(s)
  BY DEF Same, TriedBy, cooled, cooldownFor, provider
<1>2. Usable(t) = Usable(s)
  BY <1>1 DEF Same, Usable, notCooling
<1>3. Up(t) = Up(s)
  BY <1>2 DEF Same, Up
<1>4. Ledger(s) => Ledger(t)
  BY <1>1 DEF Same, Ledger, RetriesOnly
<1>5. Ahead(s) => Ahead(t)
  BY <1>1 DEF Same, Ahead
<1>6. Again(s) => Again(t)
  BY <1>1 DEF Same, Again, lastCompleted
<1>7. OnlyForced(s) => OnlyForced(t)
  BY <1>1 DEF Same, OnlyForced
<1>8. OnlyFloor(s) => OnlyFloor(t)
  BY <1>1 DEF Same, OnlyFloor
<1>9. InTime(s) => InTime(t)
  BY <1>1, <1>3 DEF Same, InTime
<1>10. Untouched(s) => Untouched(t)
  BY DEF Same, Untouched
<1> QED
  BY <1>1, <1>4, <1>5, <1>6, <1>7, <1>8, <1>9, <1>10 DEF Course

LEMMA ReturnType ==
  ASSUME NEW s \in Request, NEW o \in Outcomes, NEW p \in Providers \cup {None},
         NEW why \in {"answer", "exhausted", "time", "gone", "cooling", "probed"}
  PROVE  LET t == Return(s, o, p, why) IN
         /\ t \in Request /\ t.pc = "done" /\ Same(s, t) /\ t.lost = s.lost
         /\ t.result = [outcome |-> o, provider |-> p, why |-> why]
<1>1. [outcome |-> o, provider |-> p, why |-> why] \in Results
  BY DEF Results
<1> QED
  BY <1>1 DEF Return, Request, PCs, Same, Spare

LEMMA ReturnSound ==
  ASSUME NEW s \in Request, NEW o \in Outcomes, NEW p \in Providers \cup {None},
         NEW why \in {"answer", "time", "gone", "cooling", "probed"}, Ledger(s),
         why = "time" => OutOfTime(s)
  PROVE  Sound(Return(s, o, p, why))
<1> DEFINE t == Return(s, o, p, why)
           whys == {"answer", "exhausted", "time", "gone", "cooling", "probed"}
<1>1. why \in whys /\ why # "exhausted"
  OBVIOUS
<1>2. /\ t \in Request /\ t.pc = "done" /\ Same(s, t) /\ t.lost = s.lost
      /\ t.result = [outcome |-> o, provider |-> p, why |-> why]
  <2> HIDE DEF t
  <2> QED
    BY <1>1, ReturnType DEF t
<1>3. Ledger(t) /\ (OutOfTime(s) => OutOfTime(t))
  BY <1>2, SameWalk DEF Same, OutOfTime, hopsLeft
<1> HIDE DEF t
<1>4. Ended(t)
  BY <1>1, <1>2, <1>3 DEF Ended
<1>5. Sound(t)
  BY <1>2, <1>3, <1>4 DEF Sound, Walking
<1> QED
  BY <1>5 DEF t

LEMMA SummaryType ==
  ASSUME NEW s \in Request, s.attempts # <<>> \/ s.lastVerdict # None
  PROVE  summary(s) \in Attempts /\ (s.lastVerdict # None => summary(s) = s.lastVerdict)
<1>1. s.attempts \in Seq(Attempts) /\ s.lastVerdict \in Attempts \cup {None}
  BY DEF Request
<1>2. CASE s.lastVerdict # None
  BY <1>1, <1>2 DEF summary
<1>3. CASE s.lastVerdict = None
  <2>1. Len(s.attempts) \in 1 .. Len(s.attempts)
    BY <1>1, <1>3, EmptySeq
  <2>2. Last(s.attempts) \in Attempts
    BY <1>1, <2>1, ElementOfSeq DEF Last
  <2> QED
    BY <1>3, <2>2 DEF summary, lastCompleted
<1> QED
  BY <1>2, <1>3

LEMMA SummarySound ==
  ASSUME NEW s \in Request, Ledger(s), s.attempts # <<>>
  PROVE  Sound(ReturnSummary(s)) /\ ReturnSummary(s).forcedBy = s.forcedBy
<1> DEFINE a == summary(s)
           t == Return(s, a.outcome, a.provider, "exhausted")
<1>1. a \in Attempts /\ (s.lastVerdict # None => a = s.lastVerdict)
  BY SummaryType
<1> HIDE DEF a
<1>2. a.outcome \in Outcomes /\ a.provider \in Providers \cup {None}
  BY <1>1 DEF Attempts
<1>3. /\ t \in Request /\ t.pc = "done" /\ Same(s, t)
      /\ t.result = [outcome |-> a.outcome, provider |-> a.provider, why |-> "exhausted"]
  BY <1>2, ReturnType
<1> HIDE DEF t
<1>4. Ledger(t) /\ t.lastVerdict = s.lastVerdict /\ t.forcedBy = s.forcedBy
  BY <1>3, SameWalk DEF Same
<1>5. Ended(t)
  <2>1. t.result.why = "exhausted" /\ t.result.outcome = a.outcome
    BY <1>3
  <2>2. s.lastVerdict # None => IsVerdict(t.result)
    BY <1>1, <2>1 DEF Ledger, IsVerdict
  <2> QED
    BY <1>4, <2>1, <2>2 DEF Ended
<1>6. Sound(t)
  BY <1>3, <1>4, <1>5 DEF Sound, Walking
<1> QED
  BY <1>4, <1>6 DEF ReturnSummary, t, a

\* The walk goes on soundly from any hop that its course leads to.
LEMMA AtHopSound ==
  ASSUME NEW s \in Request, Ledger(s), TriedBy(s) \subseteq s.unusable,
         s.i <= Len(s.chain) => Course(s)
  PROVE  Sound(AtHop(s)) /\ AtHop(s).forcedBy = s.forcedBy
<1>1. CASE s.i <= Len(s.chain)
  <2> DEFINE pc == IF cooldownFor(s, provider(s)) = "probe" THEN "claiming" ELSE "launching"
             t == [s EXCEPT !.pc = pc]
  <2>1. pc \in {"claiming", "launching"}
    OBVIOUS
  <2>2. AtHop(s) = t
    BY <1>1 DEF AtHop
  <2> HIDE DEF pc
  <2>3. t \in Request /\ t.pc \in {"claiming", "launching"} /\ Same(s, t)
    BY <2>1 DEF Request, PCs, Same, Spare
  <2> HIDE DEF t
  <2>4. Ledger(t) /\ Course(t) /\ TriedBy(t) \subseteq t.unusable /\ t.forcedBy = s.forcedBy
    BY <1>1, <2>3, SameWalk DEF Same
  <2>5. Sound(t)
    BY <2>3, <2>4 DEF Sound
  <2> QED
    BY <2>2, <2>4, <2>5
<1>2. CASE ~(s.i <= Len(s.chain)) /\ s.attempts # <<>>
  <2>1. AtHop(s) = ReturnSummary(s)
    BY <1>2 DEF AtHop
  <2> QED
    BY <1>2, <2>1, SummarySound
<1>3. CASE ~(s.i <= Len(s.chain)) /\ s.attempts = <<>>
  <2>1. AtHop(s) = Return(s, "NO_PROVIDER_AVAILABLE", None, "probed")
    BY <1>3 DEF AtHop
  <2>2. "NO_PROVIDER_AVAILABLE" \in Outcomes
    BY DEF Outcomes, Gateway
  <2>3. Sound(AtHop(s))
    BY <2>1, <2>2, ReturnSound
  <2>4. AtHop(s).forcedBy = s.forcedBy
    BY <2>1 DEF Return, Request
  <2> QED
    BY <2>3, <2>4
<1> QED
  BY <1>1, <1>2, <1>3

\* A chain ranked anew is a sound course, if there is time for all of it.
LEMMA RerankSound ==
  ASSUME NEW s \in Request, Ledger(s), TriedBy(s) \subseteq s.unusable,
         ~s.exhaustionForced /\ Deadline >= Len(Priority) * MinUseful =>
           Spare(s) >= Len(rank(s)) * MinUseful
  PROVE  Sound(Rerank(s)) /\ Rerank(s).forcedBy = s.forcedBy
<1> DEFINE c == rank(s)
           t == [s EXCEPT !.chain = c, !.i = 1]
<1>1. IsRanking(s, c)
  BY Ranking
<1>2. /\ ~s.exhaustionForced /\ Deadline >= Len(Priority) * MinUseful =>
           Spare(s) >= Len(c) * MinUseful
      /\ Rerank(s) = AtHop(t)
  BY DEF Rerank
<1> HIDE DEF c
<1>3. c \in Seq(Providers) /\ Len(c) \in Nat
  BY <1>1, LenProperties DEF IsRanking
<1>4. t \in Request
  BY <1>3 DEF Request
<1>5. /\ t.snap = s.snap /\ t.health = s.health /\ t.chain = c /\ t.i = 1
      /\ t.unusable = s.unusable /\ t.forcedBy = s.forcedBy /\ t.retries = s.retries
      /\ t.exhaustionForced = s.exhaustionForced /\ Spare(t) = Spare(s)
      /\ t.attempts = s.attempts /\ t.lastVerdict = s.lastVerdict
  BY DEF Request, Spare
<1> HIDE DEF t
<1>6. TriedBy(t) = TriedBy(s) /\ cooled(t) = cooled(s) /\ provider(t) = c[1]
  BY <1>5 DEF TriedBy, cooled, cooldownFor, provider
<1>7. Usable(t) = Usable(s)
  BY <1>5, <1>6 DEF Usable, notCooling
<1>8. Up(t) = Up(s)
  BY <1>5, <1>7 DEF Up
<1>9. Ledger(t)
  BY <1>5, <1>6 DEF Ledger, RetriesOnly
<1>10. ASSUME t.i <= Len(t.chain) PROVE Course(t)
  <2>1. 1 \in 1 .. Len(c)
    BY <1>3, <1>5, <1>10
  <2>2. Ahead(t)
    BY <1>1, <1>3, <1>5, <2>1 DEF Ahead, IsRanking, Usable
  <2>3. Again(t)
    BY <1>1, <1>5, <1>6, <2>1 DEF Again, IsRanking, Usable
  <2>4. OnlyForced(t)
    BY <1>1, <1>5, <1>6 DEF OnlyForced, IsRanking, Usable, notCooling
  <2>5. OnlyFloor(t)
    <3> SUFFICES ASSUME \E n \in 1 .. Len(c) : s.health[c[n]] = "demoted",
                        NEW p \in Providers, s.health[p] # "demoted"
                 PROVE  p \in cooled(s) \cup s.unusable
      BY <1>5, <1>6 DEF OnlyFloor
    <3>1. p \notin Up(s)
      BY <1>1 DEF IsRanking
    <3> QED
      BY <3>1 DEF Up, Usable, notCooling
  <2>6. InTime(t)
    <3>1. \A p \in Up(t) : \E n \in t.i .. Len(t.chain) : t.chain[n] = p
      BY <1>1, <1>5, <1>8 DEF IsRanking
    <3>2. Len(t.chain) - t.i + 1 = Len(c)
      BY <1>3, <1>5
    <3> QED
      BY <1>2, <1>5, <3>1, <3>2 DEF InTime
  <2> QED
    BY <2>2, <2>3, <2>4, <2>5, <2>6 DEF Course
<1> QED
  BY <1>2, <1>4, <1>5, <1>6, <1>9, <1>10, AtHopSound

\* t is what s becomes when an attempt at the current hop has come to outcome o.
Recorded(s, t, o) ==
  /\ t.attempts = Append(s.attempts, [provider |-> provider(s), outcome |-> o])
  /\ t.snap = s.snap /\ t.forcedBy = s.forcedBy /\ t.retries = s.retries
  /\ t.exhaustionForced = s.exhaustionForced
  /\ t.lastVerdict = IF IsVerdict([provider |-> provider(s), outcome |-> o])
                     THEN [provider |-> provider(s), outcome |-> o] ELSE s.lastVerdict

LEMMA AppendLedger ==
  ASSUME NEW s \in Request, NEW t \in Request, NEW o \in Outcomes, Recorded(s, t, o),
         Ledger(s), Course(s), TriedBy(s) \subseteq s.unusable
  PROVE  /\ Ledger(t) /\ TriedBy(t) = TriedBy(s) \cup {provider(s)} /\ t.attempts # <<>>
         /\ lastCompleted(t) = [provider |-> provider(s), outcome |-> o]
<1> DEFINE p == provider(s)
           a == [provider |-> p, outcome |-> o]
           N == Len(s.attempts)
<1>1. s.attempts \in Seq(Attempts) /\ s.chain \in Seq(Providers) /\ s.retries \in Nat
  BY DEF Request
<1>2. p \in Providers /\ s.i \in 1 .. Len(s.chain) /\ p = s.chain[s.i]
  <2>1. s.i \in 1 .. Len(s.chain)
    BY DEF Course, Ahead
  <2> QED
    BY <1>1, <2>1, ElementOfSeq DEF provider
<1> HIDE DEF p
<1>3. a \in Attempts /\ a.provider = p /\ a.outcome = o
  BY <1>2 DEF Attempts
<1>4. Recorded(s, t, o) /\ t.attempts = Append(s.attempts, a)
  BY DEF Recorded, p
<1>5. t.lastVerdict = IF IsVerdict(a) THEN a ELSE s.lastVerdict
  BY DEF Recorded, p
<1> HIDE DEF a
<1>6. /\ t.attempts \in Seq(Attempts) /\ t.attempts # <<>> /\ Len(t.attempts) = N + 1
      /\ \A n \in 1 .. N : t.attempts[n] = s.attempts[n]
      /\ t.attempts[N + 1] = a
  BY <1>1, <1>3, <1>4, AppendProperties
<1>7. N \in Nat /\ DOMAIN s.attempts = 1 .. N /\ DOMAIN t.attempts = 1 .. (N + 1)
  BY <1>1, <1>6, LenProperties
<1>8. ToSet(t.attempts) = ToSet(s.attempts) \cup {a}
  <2>1. ToSet(s.attempts) = {s.attempts[n] : n \in 1 .. N}
    BY <1>7 DEF ToSet
  <2>2. ToSet(t.attempts) = {t.attempts[n] : n \in 1 .. (N + 1)}
    BY <1>7 DEF ToSet
  <2>3. 1 .. (N + 1) = (1 .. N) \cup {N + 1}
    BY <1>7
  <2> HIDE DEF N
  <2> QED
    BY <1>6, <2>1, <2>2, <2>3
<1>9. TriedBy(t) = TriedBy(s) \cup {p}
  BY <1>3, <1>8 DEF TriedBy
<1>10. lastCompleted(t) = a
  BY <1>6 DEF lastCompleted, Last
<1>11. \A n \in 1 .. N : s.attempts[n].provider \in TriedBy(s)
  BY <1>7 DEF TriedBy, ToSet
<1>12. p \in TriedBy(s) =>
         /\ N > 0 /\ s.attempts[N].provider = p /\ s.attempts[N].outcome \in Retryable
         /\ N + s.retries < Cardinality(TriedBy(s)) + TerminalRetries
  <2> SUFFICES ASSUME p \in TriedBy(s)
               PROVE  /\ N > 0 /\ s.attempts[N].provider = p /\ s.attempts[N].outcome \in Retryable
                      /\ N + s.retries < Cardinality(TriedBy(s)) + TerminalRetries
    OBVIOUS
  <2>1. Again(s) /\ p \in s.unusable
    BY DEF Course
  <2> QED
    BY <1>1, <1>7, <2>1, EmptySeq DEF Again, lastCompleted, Last, p
<1>13. RetriesOnly(t)
  <2> SUFFICES ASSUME NEW m \in 2 .. (N + 1), NEW n \in 1 .. m - 1,
                      t.attempts[n].provider = t.attempts[m].provider
               PROVE  /\ t.attempts[m - 1].provider = t.attempts[m].provider
                      /\ t.attempts[m - 1].outcome \in Retryable
    BY <1>6 DEF RetriesOnly
  <2>1. CASE m = N + 1
    <3>1. n \in 1 .. N /\ t.attempts[m] = a /\ t.attempts[n] = s.attempts[n]
      BY <1>6, <1>7, <2>1
    <3>2. p \in TriedBy(s)
      BY <1>3, <1>11, <3>1
    <3>3. m - 1 = N /\ N \in 1 .. N
      BY <1>7, <1>12, <2>1, <3>2
    <3> QED
      BY <1>3, <1>6, <1>12, <3>1, <3>2, <3>3
  <2>2. CASE m # N + 1
    <3>1. m \in 2 .. N /\ m \in 1 .. N /\ n \in 1 .. N /\ m - 1 \in 1 .. N
      BY <1>7, <2>2
    <3>2. /\ t.attempts[n] = s.attempts[n] /\ t.attempts[m] = s.attempts[m]
          /\ t.attempts[m - 1] = s.attempts[m - 1]
      BY <1>6, <3>1
    <3>3. RetriesOnly(s)
      BY DEF Ledger
    <3> QED
      BY <3>1, <3>2, <3>3 DEF RetriesOnly
  <2> QED
    BY <2>1, <2>2
<1>14. Len(t.attempts) + t.retries <= Cardinality(TriedBy(t)) + TerminalRetries
  <2>1. TriedBy(s) \in SUBSET Providers
    BY DEF Request
  <2>2. IsFiniteSet(TriedBy(s)) /\ Cardinality(TriedBy(s)) \in Nat
    BY <2>1, ProvidersFinite, FS_Subset, FS_CardinalityType
  <2>3. Cardinality(TriedBy(t)) = IF p \in TriedBy(s) THEN Cardinality(TriedBy(s))
                                  ELSE Cardinality(TriedBy(s)) + 1
    BY <1>9, <2>2, FS_AddElement
  <2>4. t.retries = s.retries /\ TerminalRetries \in Nat
    BY ChainAssumption DEF Recorded
  <2>5. N + s.retries <= Cardinality(TriedBy(s)) + TerminalRetries
    BY DEF Ledger
  <2> QED
    BY <1>1, <1>6, <1>7, <1>12, <2>2, <2>3, <2>4, <2>5
<1>15. ~StoreErrors => TriedBy(t) \cap cooled(t) \subseteq {t.forcedBy}
  <2>1. cooled(t) = cooled(s) /\ t.forcedBy = s.forcedBy
    BY DEF Recorded, cooled, cooldownFor
  <2>2. p \in cooled(s) => p = s.forcedBy
    BY <1>2 DEF Course, OnlyForced
  <2> QED
    BY <1>9, <2>1, <2>2 DEF Ledger
<1>16. /\ (\E b \in ToSet(t.attempts) : IsVerdict(b)) => t.lastVerdict # None
       /\ t.lastVerdict # None => IsVerdict(t.lastVerdict)
  <2>1. a # None
    BY <1>3, ChainAssumption
  <2> QED
    BY <1>5, <1>8, <2>1 DEF Ledger
<1> QED
  BY <1>6, <1>9, <1>10, <1>13, <1>14, <1>15, <1>16 DEF Ledger, p, a

-----------------------------------------------------------------------------
\* The attempt of the current hop is in the books: what is ahead of the walk now.
Booked(s, o) ==
  /\ Ledger(s) /\ TriedBy(s) \subseteq s.unusable /\ s.attempts # <<>>
  /\ lastCompleted(s) = [provider |-> provider(s), outcome |-> o]
  /\ Ahead(s) /\ OnlyForced(s) /\ OnlyFloor(s)
  /\ ~s.exhaustionForced =>
       /\ \A p \in Up(s) : \E n \in s.i + 1 .. Len(s.chain) : s.chain[n] = p
       /\ Deadline >= Len(Priority) * MinUseful => Spare(s) >= hopsLeft(s) * MinUseful

\* A hop's budget keeps the floor of every hop after it, but for what was lost.
LEMMA BudgetReserve ==
  ASSUME NEW left \in Int, NEW spare \in Int, left <= spare,
         NEW hops \in Nat, NEW c \in Nat, MinUseful <= c
  PROVE  /\ perAttempt(left, hops, c) \in Int
         /\ spare >= (hops + 1) * MinUseful =>
              perAttempt(left, hops, c) <= spare - hops * MinUseful
<1>1. MinUseful \in Nat /\ hops * MinUseful \in Int
      /\ (hops + 1) * MinUseful = hops * MinUseful + MinUseful
  BY MinUsefulAssumption
<1> DEFINE floor == hops * MinUseful
<1>2. floor \in Int /\ (hops + 1) * MinUseful = floor + MinUseful
  BY <1>1
<1>3. perAttempt(left, hops, c) = Lesser(Greater(MinUseful, Lesser(c, left - floor)), c)
  BY DEF perAttempt
<1> HIDE DEF floor
<1>4. /\ perAttempt(left, hops, c) \in Int
      /\ spare >= floor + MinUseful => perAttempt(left, hops, c) <= spare - floor
  BY <1>1, <1>2, <1>3 DEF Lesser, Greater
<1> QED
  BY <1>2, <1>4 DEF floor

LEMMA BookedCourse ==
  ASSUME NEW s \in Request, NEW t \in Request, NEW o \in Outcomes, Recorded(s, t, o),
         Ledger(s), Course(s), TriedBy(s) \subseteq s.unusable,
         t.health = s.health, t.chain = s.chain, t.i = s.i,
         t.unusable = s.unusable \cup {provider(s)},
         Spare(s) >= (hopsLeft(s) + 1) * MinUseful => Spare(t) >= hopsLeft(s) * MinUseful
  PROVE  Booked(t, o)
<1> DEFINE p == provider(s)
<1>1. provider(t) = p /\ hopsLeft(t) = hopsLeft(s) /\ cooled(t) = cooled(s)
  BY DEF Recorded, provider, hopsLeft, cooled, cooldownFor
<1>2. /\ Ledger(t) /\ TriedBy(t) = TriedBy(s) \cup {p} /\ t.attempts # <<>>
      /\ lastCompleted(t) = [provider |-> p, outcome |-> o]
  BY AppendLedger
<1>3. TriedBy(t) \subseteq t.unusable
  BY <1>2
<1>4. /\ s.i \in 1 .. Len(s.chain) /\ p = s.chain[s.i] /\ s.chain \in Seq(Providers)
      /\ Len(s.chain) \in Nat /\ s.i \in Nat
  BY LenProperties DEF Course, Ahead, provider, Request
<1> HIDE DEF p
<1>5. Ahead(t)
  <2> SUFFICES ASSUME NEW n \in s.i + 1 .. Len(s.chain)
               PROVE  s.chain[n] \notin t.unusable
    BY DEF Ahead, Course
  <2>1. s.chain[n] \notin s.unusable
    BY DEF Course, Ahead
  <2>2. s.i < n /\ n \in 1 .. Len(s.chain)
    BY <1>4
  <2>3. s.chain[n] # p
    BY <1>4, <2>2 DEF Course, Ahead
  <2> QED
    BY <2>1, <2>3 DEF p
<1>6. OnlyForced(t)
  BY <1>1 DEF OnlyForced, Course, Recorded
<1>7. OnlyFloor(t)
  BY <1>1 DEF OnlyFloor, Course, Recorded
<1>8. ASSUME ~t.exhaustionForced
      PROVE  /\ \A u \in Up(t) : \E n \in t.i + 1 .. Len(t.chain) : t.chain[n] = u
             /\ Deadline >= Len(Priority) * MinUseful => Spare(t) >= hopsLeft(t) * MinUseful
  <2>1. /\ \A u \in Up(s) : \E n \in s.i .. Len(s.chain) : s.chain[n] = u
        /\ Deadline >= Len(Priority) * MinUseful =>
             Spare(s) >= (Len(s.chain) - s.i + 1) * MinUseful
    BY <1>8 DEF Course, InTime, Recorded
  <2>2. ASSUME NEW u \in Up(t)
        PROVE  \E n \in t.i + 1 .. Len(t.chain) : t.chain[n] = u
    <3>1. u \in Up(s) /\ u # p
      BY <1>1, <2>2 DEF Up, Usable, notCooling, Recorded, p
    <3>2. PICK n \in s.i .. Len(s.chain) : s.chain[n] = u
      BY <2>1, <3>1
    <3>3. n # s.i
      BY <1>4, <3>1, <3>2
    <3>4. n \in s.i + 1 .. Len(s.chain)
      BY <1>4, <3>3
    <3> QED
      BY <3>2, <3>4
  <2> QED
    BY <1>1, <2>1, <2>2 DEF hopsLeft
<1> QED
  BY <1>1, <1>2, <1>3, <1>5, <1>6, <1>7, <1>8 DEF Booked, p

LEMMA AfterSound ==
  ASSUME NEW s \in Request, NEW o \in Outcomes, Booked(s, o)
  PROVE  Sound(After(s, o)) /\ After(s, o).forcedBy = s.forcedBy
<1> DEFINE onward == [s EXCEPT !.onceUsed = @ \/ failover(o) = "once"]
<1>1. onward \in Request /\ Same(s, onward)
  BY DEF Request, Same, Spare
<1>2. s.i \in 1 .. Len(s.chain) /\ s.chain \in Seq(Providers) /\ Len(s.chain) \in Nat
      /\ provider(s) \in Providers
  <2>1. s.chain \in Seq(Providers) /\ s.i \in 1 .. Len(s.chain)
    BY DEF Booked, Ahead, Request
  <2> QED
    BY <2>1, LenProperties, ElementOfSeq DEF provider
<1> HIDE DEF onward
<1>3. CASE After(s, o) = Return(s, o, provider(s), "answer")
  <2>1. Sound(Return(s, o, provider(s), "answer"))
    BY <1>2, ReturnSound DEF Booked
  <2> QED
    BY <1>3, <2>1 DEF Return, Request
<1>4. CASE hopsLeft(s) > 0 /\ After(s, o) = AtHop([onward EXCEPT !.i = @ + 1])
  <2> DEFINE t == [onward EXCEPT !.i = @ + 1]
  <2>1. t \in Request
    <3>1. onward.i + 1 \in Nat
      BY <1>1 DEF Request
    <3> QED
      BY <1>1, <3>1 DEF Request
  <2>2. /\ t.snap = s.snap /\ t.health = s.health /\ t.chain = s.chain /\ t.i = s.i + 1
        /\ t.unusable = s.unusable /\ t.forcedBy = s.forcedBy /\ t.retries = s.retries
        /\ t.exhaustionForced = s.exhaustionForced /\ Spare(t) = Spare(s)
        /\ t.attempts = s.attempts /\ t.lastVerdict = s.lastVerdict
    BY <1>1 DEF Same, Request, Spare
  <2> HIDE DEF t
  <2>3. TriedBy(t) = TriedBy(s) /\ cooled(t) = cooled(s) /\ provider(t) = s.chain[s.i + 1]
    BY <2>2 DEF TriedBy, cooled, cooldownFor, provider
  <2>4. Up(t) = Up(s)
    BY <2>2, <2>3 DEF Up, Usable, notCooling
  <2>5. Ledger(t) /\ TriedBy(t) \subseteq t.unusable
    BY <2>2, <2>3 DEF Booked, Ledger, RetriesOnly
  <2>6. s.i + 1 \in 1 .. Len(s.chain) /\ s.i + 1 \in s.i + 1 .. Len(s.chain)
    BY <1>2, <1>4 DEF hopsLeft
  <2>7. Ahead(t)
    <3>1. \A n \in (s.i + 1) + 1 .. Len(s.chain) : n \in s.i + 1 .. Len(s.chain)
      BY <1>2
    <3> QED
      BY <2>2, <2>6, <3>1 DEF Booked, Ahead
  <2>8. Again(t)
    BY <2>2, <2>3, <2>6 DEF Booked, Ahead, Again
  <2>9. OnlyForced(t) /\ OnlyFloor(t)
    BY <2>2, <2>3 DEF Booked, OnlyForced, OnlyFloor
  <2>10. InTime(t)
    <3>1. Len(t.chain) - t.i + 1 = hopsLeft(s)
      BY <1>2, <2>2 DEF hopsLeft
    <3> QED
      BY <2>2, <2>4, <3>1 DEF Booked, InTime
  <2>11. Sound(AtHop(t)) /\ AtHop(t).forcedBy = t.forcedBy
    BY <2>1, <2>5, <2>7, <2>8, <2>9, <2>10, AtHopSound DEF Course
  <2> QED
    BY <1>4, <2>2, <2>11 DEF t
<1>5. CASE /\ ~(hopsLeft(s) > 0) /\ s.retries > 0 /\ o \in Retryable /\ s.left > FastCap
           /\ After(s, o) = AtHop([onward EXCEPT !.retries = @ - 1])
  <2> DEFINE t == [onward EXCEPT !.retries = @ - 1]
  <2>1. t \in Request
    <3>1. onward.retries - 1 \in Nat
      BY <1>1, <1>5 DEF Request, Same
    <3> QED
      BY <1>1, <3>1 DEF Request
  <2>2. /\ t.snap = s.snap /\ t.health = s.health /\ t.chain = s.chain /\ t.i = s.i
        /\ t.unusable = s.unusable /\ t.forcedBy = s.forcedBy /\ t.retries = s.retries - 1
        /\ t.exhaustionForced = s.exhaustionForced /\ Spare(t) = Spare(s)
        /\ t.attempts = s.attempts /\ t.lastVerdict = s.lastVerdict
    BY <1>1 DEF Same, Request, Spare
  <2> HIDE DEF t
  <2>3. TriedBy(t) = TriedBy(s) /\ cooled(t) = cooled(s) /\ provider(t) = provider(s)
    BY <2>2 DEF TriedBy, cooled, cooldownFor, provider
  <2>4. Up(t) = Up(s)
    BY <2>2, <2>3 DEF Up, Usable, notCooling
  <2>5. s.i = Len(s.chain)
    BY <1>2, <1>5 DEF hopsLeft
  <2>6. /\ Len(s.attempts) \in Nat /\ s.retries \in Nat /\ TerminalRetries \in Nat
        /\ Cardinality(TriedBy(s)) \in Nat
        /\ Len(s.attempts) + s.retries <= Cardinality(TriedBy(s)) + TerminalRetries
    <3>1. TriedBy(s) \in SUBSET Providers
      BY DEF Booked, Request
    <3>2. Cardinality(TriedBy(s)) \in Nat
      BY <3>1, ProvidersFinite, FS_Subset, FS_CardinalityType
    <3>3. s.attempts \in Seq(Attempts) /\ s.retries \in Nat
      BY DEF Request
    <3> QED
      BY <3>2, <3>3, LenProperties, ChainAssumption DEF Booked, Ledger
  <2>7. /\ Len(s.attempts) + (s.retries - 1) < Cardinality(TriedBy(s)) + TerminalRetries
        /\ Len(s.attempts) + (s.retries - 1) <= Cardinality(TriedBy(s)) + TerminalRetries
    BY <2>6
  <2>8. Ledger(t) /\ TriedBy(t) \subseteq t.unusable
    BY <2>2, <2>3, <2>7 DEF Booked, Ledger, RetriesOnly
  <2>9. Ahead(t) /\ OnlyForced(t) /\ OnlyFloor(t)
    BY <2>2, <2>3 DEF Booked, Ahead, OnlyForced, OnlyFloor
  <2>10. Again(t)
    <3>1. /\ lastCompleted(t).provider = provider(t) /\ lastCompleted(t).outcome \in Retryable
          /\ t.attempts # <<>>
      BY <1>5, <2>2, <2>3 DEF Booked, lastCompleted
    <3> QED
      BY <2>2, <2>3, <2>5, <2>7, <3>1 DEF Again
  <2>11. InTime(t)
    <3>1. Spare(s) >= MinUseful
      BY <1>5, ChainAssumption, MinUsefulAssumption, RequestParts DEF Spare
    <3>2. (Len(t.chain) - t.i + 1) * MinUseful = MinUseful
      BY <1>2, <2>2, <2>5, MinUsefulAssumption
    <3>3. ~s.exhaustionForced => Up(t) = {}
      BY <1>2, <2>4, <2>5 DEF Booked
    <3> QED
      BY <2>2, <3>1, <3>2, <3>3 DEF InTime
  <2>12. Sound(AtHop(t)) /\ AtHop(t).forcedBy = t.forcedBy
    BY <2>1, <2>8, <2>9, <2>10, <2>11, AtHopSound DEF Course
  <2> QED
    BY <1>5, <2>2, <2>12 DEF t
<1>6. CASE After(s, o) = [onward EXCEPT !.pc = "lastResort", !.exhaustionForced = TRUE]
  <2> DEFINE t == [onward EXCEPT !.pc = "lastResort", !.exhaustionForced = TRUE]
  <2>1. t \in Request /\ t.pc = "lastResort" /\ t.exhaustionForced
    BY <1>1 DEF Request, PCs
  <2>2. /\ t.snap = s.snap /\ t.unusable = s.unusable /\ t.forcedBy = s.forcedBy
        /\ t.retries = s.retries /\ t.attempts = s.attempts /\ t.lastVerdict = s.lastVerdict
    BY <1>1 DEF Same, Request, Spare
  <2> HIDE DEF t
  <2>3. TriedBy(t) = TriedBy(s) /\ cooled(t) = cooled(s)
    BY <2>2 DEF TriedBy, cooled, cooldownFor
  <2>4. Ledger(t) /\ TriedBy(t) \subseteq t.unusable /\ t.attempts # <<>>
    BY <2>2, <2>3 DEF Booked, Ledger, RetriesOnly
  <2>5. Sound(t)
    BY <2>1, <2>4 DEF Sound, Walking
  <2> QED
    BY <1>6, <2>2, <2>5 DEF t
<1>7. CASE After(s, o) = ReturnSummary([onward EXCEPT !.exhaustionForced = TRUE])
  <2> DEFINE t == [onward EXCEPT !.exhaustionForced = TRUE]
  <2>1. t \in Request
    BY <1>1 DEF Request
  <2>2. /\ t.snap = s.snap /\ t.unusable = s.unusable /\ t.forcedBy = s.forcedBy
        /\ t.retries = s.retries /\ t.attempts = s.attempts /\ t.lastVerdict = s.lastVerdict
    BY <1>1 DEF Same, Request, Spare
  <2> HIDE DEF t
  <2>3. TriedBy(t) = TriedBy(s) /\ cooled(t) = cooled(s)
    BY <2>2 DEF TriedBy, cooled, cooldownFor
  <2>4. Ledger(t) /\ t.attempts # <<>>
    BY <2>2, <2>3 DEF Booked, Ledger, RetriesOnly
  <2> QED
    BY <1>7, <2>1, <2>2, <2>4, SummarySound DEF t
<1> QED
  BY <1>3, <1>4, <1>5, <1>6, <1>7 DEF After, onward

\* A step of request r that makes t of it goes on soundly, forcing a provider only
\* on the slot it has just armed.
Goes(r, t) ==
  /\ q' = [q EXCEPT ![r] = t]
  /\ Sound(t)
  /\ ~StoreErrors => t.forcedBy = q[r].forcedBy \/ store'[ForcedKey] = "cooling"

\* No ranking is longer than the deployment's list, so a deadline with the floor for
\* every provider has it for every hop.
LEMMA RankFits ==
  ASSUME NEW s \in Request, Spare(s) = Deadline, Deadline >= Len(Priority) * MinUseful
  PROVE  Spare(s) >= Len(rank(s)) * MinUseful
<1>1. IsRanking(s, rank(s))
  BY Ranking
<1>2. Up(s) \in SUBSET Providers
  BY RequestParts DEF Up, Usable, notCooling
<1>3. Cardinality(Up(s)) \in Nat /\ Cardinality(Up(s)) <= Len(Priority)
  BY <1>2, ProvidersFinite, FS_Subset, FS_CardinalityType, ChainAssumption, LenProperties
<1>4. Len(Priority) \in Nat /\ Len(Priority) >= 1 /\ Len(rank(s)) \in Nat
  BY <1>1, ChainAssumption, EmptySeq, LenProperties DEF IsRanking
<1>5. Len(rank(s)) <= Len(Priority)
  BY <1>1, <1>3, <1>4 DEF IsRanking
<1>6. Len(rank(s)) * MinUseful <= Len(Priority) * MinUseful
  BY <1>4, <1>5, MinUsefulAssumption
<1>7. /\ Len(rank(s)) * MinUseful \in Int /\ Len(Priority) * MinUseful \in Int
      /\ Deadline \in Int
  BY <1>4, MinUsefulAssumption, ChainAssumption
<1> QED
  BY <1>6, <1>7

\* A request that has sent nothing has an empty ledger.
LEMMA UntouchedLedger ==
  ASSUME NEW s \in Request, Untouched(s)
  PROVE  Ledger(s) /\ TriedBy(s) = {}
<1>1. ToSet(s.attempts) = {} /\ Len(s.attempts) = 0
  <2>1. DOMAIN s.attempts = {} /\ Len(s.attempts) = 0
    BY DEF Untouched
  <2> QED
    BY <2>1 DEF ToSet
<1>2. TriedBy(s) = {}
  BY <1>1 DEF TriedBy
<1>3. Cardinality(TriedBy(s)) = 0 /\ TerminalRetries \in Nat
  BY <1>2, FS_EmptySet, ChainAssumption
<1> QED
  BY <1>1, <1>2, <1>3 DEF Untouched, Ledger, RetriesOnly

LEMMA StartGoes ==
  ASSUME store \in [Keys -> Statuses], NEW r \in Requests, Sound(q[r]), Start(r)
  PROVE  \E t : Goes(r, t)
<1>1. PICK view \in HealthViews,
           snap \in {[k \in Keys |-> decide(store[k])]}
                      \cup (IF StoreErrors THEN {[k \in Keys |-> "open"]} ELSE {}) :
        LET s == [q[r] EXCEPT !.snap = snap, !.health = view]
        IN  q' = [q EXCEPT ![r] = IF notCooling(s) = {} THEN [s EXCEPT !.pc = "flooring"]
                                  ELSE Rerank(s)]
  BY DEF Start
<1> DEFINE s == [q[r] EXCEPT !.snap = snap, !.health = view]
           t == IF notCooling(s) = {} THEN [s EXCEPT !.pc = "flooring"] ELSE Rerank(s)
<1>2. q[r] \in Request /\ Untouched(q[r]) /\ q[r].pc = "new"
  BY DEF Sound, Start
<1>3. snap \in [Keys -> {"open", "cooling", "probe"}]
  BY DEF decide
<1>4. s \in Request /\ s.pc = "new" /\ s.forcedBy = q[r].forcedBy /\ Untouched(s)
  BY <1>2, <1>3 DEF Request, Untouched, Spare
<1>5. q' = [q EXCEPT ![r] = t]
  BY <1>1
<1> HIDE DEF s
<1>6. /\ Ledger(s) /\ TriedBy(s) = {}
      /\ Deadline >= Len(Priority) * MinUseful => Spare(s) >= Len(rank(s)) * MinUseful
  BY <1>4, UntouchedLedger, RankFits DEF Untouched
<1>7. Sound(Rerank(s)) /\ Rerank(s).forcedBy = s.forcedBy
  BY <1>4, <1>6, RerankSound
<1> DEFINE f == [s EXCEPT !.pc = "flooring"]
<1>8. f \in Request /\ Same(s, f) /\ f.pc = "flooring"
  BY <1>4 DEF Request, PCs, Same, Spare
<1> HIDE DEF f
<1>9. Sound(f) /\ f.forcedBy = s.forcedBy
  <2>1. Ledger(f) /\ Untouched(f) /\ TriedBy(f) = {}
    BY <1>4, <1>6, <1>8, SameWalk
  <2> QED
    BY <1>8, <2>1 DEF Sound, Walking, Same
<1>10. Sound(t) /\ t.forcedBy = s.forcedBy
  BY <1>7, <1>9 DEF f
<1> HIDE DEF t
<1>11. Goes(r, t)
  BY <1>4, <1>5, <1>10 DEF Goes
<1> QED
  BY <1>11

LEMMA FloorGoes ==
  ASSUME NEW r \in Requests, Sound(q[r]), ClaimFloor(r)
  PROVE  \E t : Goes(r, t)
<1>1. q[r] \in Request /\ Untouched(q[r]) /\ Ledger(q[r]) /\ TriedBy(q[r]) \subseteq q[r].unusable
  BY DEF Sound, ClaimFloor
<1>2. CASE q' = [q EXCEPT ![r].pc = "floored"]
  <2> DEFINE t == [q[r] EXCEPT !.pc = "floored"]
  <2>1. t \in Request /\ Same(q[r], t) /\ t.pc = "floored" /\ q' = [q EXCEPT ![r] = t]
    BY <1>1, <1>2 DEF Request, PCs, Same, Spare
  <2> HIDE DEF t
  <2>2. Ledger(t) /\ Untouched(t) /\ TriedBy(t) \subseteq t.unusable /\ t.forcedBy = q[r].forcedBy
    BY <1>1, <2>1, SameWalk DEF Same
  <2>3. Goes(r, t)
    BY <2>1, <2>2 DEF Goes, Sound, Walking
  <2> QED
    BY <2>3
<1>3. CASE q' = [q EXCEPT ![r] = Return(@, "NO_PROVIDER_AVAILABLE", None, "cooling")]
  <2> DEFINE t == Return(q[r], "NO_PROVIDER_AVAILABLE", None, "cooling")
  <2>1. "NO_PROVIDER_AVAILABLE" \in Outcomes
    BY DEF Outcomes, Gateway
  <2>2. Sound(t)
    BY <1>1, <2>1, ReturnSound
  <2>3. t.forcedBy = q[r].forcedBy /\ q' = [q EXCEPT ![r] = t]
    BY <1>1, <1>3 DEF Return, Request
  <2> HIDE DEF t
  <2>4. Goes(r, t)
    BY <2>2, <2>3 DEF Goes
  <2> QED
    BY <2>4
<1> QED
  BY <1>2, <1>3 DEF ClaimFloor

\* What is written to arm the slot stays armed.
LEMMA SlotArmed ==
  ASSUME store \in [Keys -> Statuses], NEW armed \in Writes(store, ForcedKey, {"cooling"})
  PROVE  /\ armed \in [Keys -> Statuses]
         /\ ~StoreErrors \/ store[ForcedKey] = "cooling" => armed[ForcedKey] = "cooling"
<1>1. {"cooling"} \in SUBSET Statuses /\ ForcedKey \in Keys
  BY DEF Statuses, Keys
<1> QED
  BY <1>1, WritesKeys

LEMMA ArmFloorGoes ==
  ASSUME store \in [Keys -> Statuses], NEW r \in Requests, Sound(q[r]), ArmFloor(r)
  PROVE  \E t : Goes(r, t)
<1>1. /\ q[r] \in Request /\ Untouched(q[r]) /\ Ledger(q[r])
      /\ TriedBy(q[r]) \subseteq q[r].unusable
  BY DEF Sound, ArmFloor
<1>2. PICK p \in cooled(q[r]) : q' = [q EXCEPT ![r] = Rerank([@ EXCEPT !.forcedBy = p])]
  BY DEF ArmFloor
<1> DEFINE s == [q[r] EXCEPT !.forcedBy = p]
           t == Rerank(s)
<1>3. p \in Providers
  BY DEF cooled
<1>4. s \in Request
  BY <1>1, <1>3 DEF Request
<1>5. /\ s.snap = q[r].snap /\ s.unusable = q[r].unusable /\ Spare(s) = Deadline
      /\ s.retries = q[r].retries /\ s.attempts = <<>> /\ s.lastVerdict = None
      /\ ~s.exhaustionForced
  BY <1>1 DEF Request, Untouched, Spare
<1>6. q' = [q EXCEPT ![r] = t]
  BY <1>2
<1> HIDE DEF s
<1>7. TriedBy(s) = TriedBy(q[r]) /\ TriedBy(q[r]) = {}
  BY <1>1, <1>5, UntouchedLedger DEF TriedBy, Untouched
<1>8. Ledger(s)
  BY <1>1, <1>5, <1>7 DEF Ledger, RetriesOnly, Untouched
<1>9. Deadline >= Len(Priority) * MinUseful => Spare(s) >= Len(rank(s)) * MinUseful
  BY <1>4, <1>5, RankFits
<1>10. Sound(t)
  BY <1>4, <1>7, <1>8, <1>9, RerankSound
<1>11. ~StoreErrors => store'[ForcedKey] = "cooling"
  BY SlotArmed DEF ArmFloor
<1> HIDE DEF t
<1>12. Goes(r, t)
  BY <1>6, <1>10, <1>11 DEF Goes
<1> QED
  BY <1>12

LEMMA ImageSize ==
  ASSUME NEW c, NEW m \in Nat, NEW n \in Nat, m <= n + 1, NEW set,
         \A p \in set : \E j \in m .. n : c[j] = p
  PROVE  IsFiniteSet(set) /\ Cardinality(set) <= n + 1 - m
<1> DEFINE f == [j \in m .. n |-> c[j]]
           image == {c[j] : j \in m .. n}
<1>1. f \in Surjection(m .. n, image)
  BY DEF Surjection
<1>2. IsFiniteSet(m .. n) /\ Cardinality(m .. n) = n + 1 - m
  BY FS_Interval
<1>3. IsFiniteSet(image) /\ Cardinality(image) <= n + 1 - m
  BY <1>1, <1>2, FS_Surjection
<1>4. set \in SUBSET image
  OBVIOUS
<1> HIDE DEF image
<1>5. /\ Cardinality(set) \in Nat /\ Cardinality(image) \in Nat
      /\ IsFiniteSet(set) /\ Cardinality(set) <= Cardinality(image)
  BY <1>3, <1>4, FS_Subset, FS_CardinalityType
<1> QED
  BY <1>3, <1>5

\* A lost claim strikes its provider off: the chain ranked again is no longer than
\* what was ahead, so there is time for it too.
LEMMA ShorterChain ==
  ASSUME NEW s \in Request, Course(s), NEW t \in Request, t.snap = s.snap,
         t.health = s.health, t.forcedBy = s.forcedBy, Spare(t) = Spare(s),
         t.exhaustionForced = s.exhaustionForced,
         t.unusable = s.unusable \cup {provider(s)}
  PROVE  ~t.exhaustionForced /\ Deadline >= Len(Priority) * MinUseful =>
           Spare(t) >= Len(rank(t)) * MinUseful
<1> SUFFICES ASSUME ~t.exhaustionForced, Deadline >= Len(Priority) * MinUseful
             PROVE  Spare(t) >= Len(rank(t)) * MinUseful
  OBVIOUS
<1> DEFINE ahead == Len(s.chain) - s.i + 1
<1>1. /\ s.i \in 1 .. Len(s.chain) /\ s.i \in Nat /\ Len(s.chain) \in Nat
      /\ Spare(s) \in Int
  BY RequestParts, LenProperties DEF Course, Ahead
<1>2. /\ \A u \in Up(s) : \E n \in s.i .. Len(s.chain) : s.chain[n] = u
      /\ Spare(s) >= ahead * MinUseful
  BY DEF Course, InTime
<1>3. ASSUME NEW u \in Up(t)
      PROVE  \E n \in s.i + 1 .. Len(s.chain) : s.chain[n] = u
  <2>1. cooled(t) = cooled(s)
    BY DEF cooled, cooldownFor
  <2>2. u \in Up(s) /\ u # provider(s)
    BY <1>3, <2>1 DEF Up, Usable, notCooling
  <2>3. PICK n \in s.i .. Len(s.chain) : s.chain[n] = u
    BY <1>2, <2>2
  <2>4. n # s.i
    BY <2>2, <2>3 DEF provider
  <2> QED
    BY <1>1, <2>3, <2>4
<1>4. Cardinality(Up(t)) <= Len(s.chain) + 1 - (s.i + 1) /\ Cardinality(Up(t)) \in Nat
  <2>1. s.i + 1 \in Nat /\ s.i + 1 <= Len(s.chain) + 1
    BY <1>1
  <2>2. IsFiniteSet(Up(t)) /\ Cardinality(Up(t)) <= Len(s.chain) + 1 - (s.i + 1)
    <3> HIDE DEF ahead
    <3> QED
      BY <1>1, <1>3, <2>1, ImageSize
  <2> QED
    BY <2>2, FS_CardinalityType
<1>5. IsRanking(t, rank(t)) /\ Len(rank(t)) \in Nat
  BY Ranking, LenProperties DEF IsRanking
<1>6. Len(rank(t)) <= ahead
  BY <1>1, <1>4, <1>5 DEF IsRanking
<1>7. ahead \in Nat
  BY <1>1
<1> HIDE DEF ahead
<1>8. /\ Len(rank(t)) * MinUseful <= ahead * MinUseful
      /\ Len(rank(t)) * MinUseful \in Int /\ ahead * MinUseful \in Int
  BY <1>5, <1>6, <1>7, MinUsefulAssumption
<1> QED
  BY <1>1, <1>2, <1>8

LEMMA ClaimGoes ==
  ASSUME NEW r \in Requests, q \in [Requests -> Request], Sound(q[r]), Claim(r)
  PROVE  \E t : Goes(r, t)
<1> DEFINE s == q[r]
<1>1. /\ s \in Request /\ Ledger(s) /\ Course(s) /\ TriedBy(s) \subseteq s.unusable
      /\ s.chain \in Seq(Providers) /\ s.i \in 1 .. Len(s.chain)
  BY DEF Sound, Walking, Claim, Course, Ahead, Request
<1>2. provider(s) \in Providers
  BY <1>1, ElementOfSeq DEF provider
<1>3. CASE q' = [q EXCEPT ![r].pc = "launching", ![r].claimedKey = probeKey(s)]
  <2> DEFINE t == [s EXCEPT !.pc = "launching", !.claimedKey = probeKey(s)]
  <2>1. probeKey(s) \in Keys
    BY <1>2 DEF probeKey, Keys
  <2>2. t \in Request /\ Same(s, t) /\ t.pc = "launching"
    BY <1>1, <2>1 DEF Request, PCs, Same, Spare
  <2>3. q' = [q EXCEPT ![r] = t]
    BY <1>3
  <2> HIDE DEF t
  <2>4. Ledger(t) /\ Course(t) /\ TriedBy(t) \subseteq t.unusable /\ t.forcedBy = s.forcedBy
    BY <1>1, <2>2, SameWalk DEF Same
  <2>5. Goes(r, t)
    BY <2>2, <2>3, <2>4 DEF Goes, Sound
  <2> QED
    BY <2>5
<1>4. CASE q' = [q EXCEPT ![r] = Rerank([s EXCEPT !.unusable = @ \cup {provider(s)}])]
  <2> DEFINE u == [s EXCEPT !.unusable = @ \cup {provider(s)}]
             t == Rerank(u)
  <2>1. u \in Request
    BY <1>1, <1>2 DEF Request
  <2>2. /\ u.snap = s.snap /\ u.health = s.health /\ u.forcedBy = s.forcedBy
        /\ Spare(u) = Spare(s) /\ u.exhaustionForced = s.exhaustionForced
        /\ u.unusable = s.unusable \cup {provider(s)}
        /\ u.retries = s.retries /\ u.attempts = s.attempts /\ u.lastVerdict = s.lastVerdict
    BY <1>1 DEF Request, Spare
  <2>3. q' = [q EXCEPT ![r] = t]
    BY <1>4
  <2> HIDE DEF u
  <2>4. TriedBy(u) = TriedBy(s) /\ cooled(u) = cooled(s)
    BY <2>2 DEF TriedBy, cooled, cooldownFor
  <2>5. Ledger(u) /\ TriedBy(u) \subseteq u.unusable
    BY <1>1, <2>2, <2>4 DEF Ledger, RetriesOnly
  <2>6. ~u.exhaustionForced /\ Deadline >= Len(Priority) * MinUseful =>
           Spare(u) >= Len(rank(u)) * MinUseful
    BY <1>1, <2>1, <2>2, ShorterChain
  <2>7. Sound(t) /\ t.forcedBy = s.forcedBy
    BY <2>1, <2>2, <2>5, <2>6, RerankSound
  <2> HIDE DEF t
  <2>8. Goes(r, t)
    BY <2>3, <2>7 DEF Goes
  <2> QED
    BY <2>8
<1> QED
  BY <1>3, <1>4 DEF Claim

LEMMA LaunchGoes ==
  ASSUME NEW r \in Requests, q \in [Requests -> Request], Sound(q[r]), Launch(r)
  PROVE  \E t : Goes(r, t)
<1> DEFINE s == q[r]
           p == provider(s)
<1>1. /\ s \in Request /\ Ledger(s) /\ Course(s) /\ TriedBy(s) \subseteq s.unusable
      /\ s.chain \in Seq(Providers) /\ s.i \in 1 .. Len(s.chain)
  BY DEF Sound, Walking, Launch, Course, Ahead, Request
<1>2. p \in Providers
  BY <1>1, ElementOfSeq DEF provider
<1>3. "BUDGET_EXCEEDED" \in Outcomes /\ "INVALID_REQUEST" \in Outcomes
  BY DEF Outcomes, Gateway
<1>4. CASE Exhausted(s.left) /\ q' = [q EXCEPT ![r] = Return(s, "BUDGET_EXCEEDED", None, "time")]
  <2> DEFINE t == Return(s, "BUDGET_EXCEEDED", None, "time")
  <2>1. OutOfTime(s)
    <3> SUFFICES ASSUME ~s.exhaustionForced, Deadline >= Len(Priority) * MinUseful
                 PROVE  s.lost > hopsLeft(s) * MinUseful
      <4>1. Deadline \in Int /\ Len(Priority) * MinUseful \in Int
        BY ChainAssumption, LenProperties, MinUsefulAssumption
      <4> QED
        BY <4>1 DEF OutOfTime
    <3>1. Spare(s) >= (Len(s.chain) - s.i + 1) * MinUseful
      BY <1>1 DEF Course, InTime
    <3> DEFINE behind == hopsLeft(s)
    <3>2. behind \in Nat /\ Len(s.chain) - s.i + 1 = behind + 1
      BY <1>1, LenProperties DEF hopsLeft
    <3>3. Spare(s) >= (behind + 1) * MinUseful
      BY <3>1, <3>2
    <3> HIDE DEF behind
    <3>4. /\ (behind + 1) * MinUseful = behind * MinUseful + MinUseful
          /\ behind * MinUseful \in Int /\ s.left \in Int /\ s.lost \in Int
      <4>1. s.left \in Int /\ s.lost \in Nat
        BY <1>1, RequestParts
      <4>2. behind \in Nat /\ MinUseful \in Nat
        BY <3>2, MinUsefulAssumption
      <4> HIDE DEF s
      <4>3. (behind + 1) * MinUseful = behind * MinUseful + MinUseful /\ behind * MinUseful \in Int
        BY <4>2
      <4> QED
        BY <4>1, <4>3
    <3>5. s.left < MinUseful
      BY <1>4 DEF Exhausted
    <3>6. s.lost > behind * MinUseful
      BY <3>3, <3>4, <3>5, MinUsefulAssumption DEF Spare
    <3> QED
      BY <3>6 DEF behind
  <2>2. Sound(t)
    BY <1>1, <1>3, <2>1, ReturnSound
  <2>3. t.forcedBy = s.forcedBy /\ q' = [q EXCEPT ![r] = t]
    BY <1>1, <1>4 DEF Return, Request
  <2> HIDE DEF t
  <2>4. Goes(r, t)
    BY <2>2, <2>3 DEF Goes
  <2> QED
    BY <2>4
<1>5. CASE q' = [q EXCEPT ![r].pc = "attempting"]
  <2> DEFINE t == [s EXCEPT !.pc = "attempting"]
  <2>1. t \in Request /\ Same(s, t) /\ t.pc = "attempting"
    BY <1>1 DEF Request, PCs, Same, Spare
  <2>2. q' = [q EXCEPT ![r] = t]
    BY <1>5
  <2> HIDE DEF t
  <2>3. Ledger(t) /\ Course(t) /\ TriedBy(t) \subseteq t.unusable /\ t.forcedBy = s.forcedBy
    BY <1>1, <2>1, SameWalk DEF Same
  <2>4. Goes(r, t)
    BY <2>1, <2>2, <2>3 DEF Goes, Sound
  <2> QED
    BY <2>4
<1>6. CASE q' = [q EXCEPT ![r] =
             Return([s EXCEPT !.attempts = Append(@, [provider |-> p, outcome |-> "INVALID_REQUEST"])],
                    "INVALID_REQUEST", None, "answer")]
  <2> DEFINE a == [provider |-> p, outcome |-> "INVALID_REQUEST"]
             u == [s EXCEPT !.attempts = Append(@, a)]
             t == Return(u, "INVALID_REQUEST", None, "answer")
  <2>1. a \in Attempts
    BY <1>2, <1>3 DEF Attempts
  <2>2. Append(s.attempts, a) \in Seq(Attempts)
    BY <1>1, <2>1, RequestParts, AppendProperties
  <2>3. u \in Request
    BY <1>1, <2>2 DEF Request
  <2>4. ~IsVerdict(a)
    BY DEF IsVerdict, outcomeClass, Blocked, Target, Provider, Client
  <2>5. Recorded(s, u, "INVALID_REQUEST") /\ u.forcedBy = s.forcedBy
    BY <1>1, <2>4 DEF Recorded, Request
  <2>6. q' = [q EXCEPT ![r] = t]
    BY <1>6
  <2> HIDE DEF u
  <2>7. Ledger(u)
    BY <1>1, <1>3, <2>3, <2>5, AppendLedger
  <2>8. Sound(t)
    BY <1>3, <2>3, <2>7, ReturnSound
  <2>9. t.forcedBy = s.forcedBy
    BY <2>3, <2>5 DEF Return, Request
  <2> HIDE DEF t
  <2>10. Goes(r, t)
    BY <2>6, <2>8, <2>9 DEF Goes
  <2> QED
    BY <2>10
<1> QED
  BY <1>4, <1>5, <1>6 DEF Launch, ReturnUnsent

LEMMA GoneGoes ==
  ASSUME NEW r \in Requests, Sound(q[r]), ClientGone(r)
  PROVE  \E t : Goes(r, t)
<1> DEFINE t == Return(q[r], "BUDGET_EXCEEDED", None, "gone")
<1>1. q[r] \in Request /\ Ledger(q[r]) /\ "BUDGET_EXCEEDED" \in Outcomes
  BY DEF Sound, Outcomes, Gateway
<1>2. Sound(t)
  BY <1>1, ReturnSound
<1>3. t.forcedBy = q[r].forcedBy /\ q' = [q EXCEPT ![r] = t]
  BY <1>1 DEF Return, Request, ClientGone, ReturnUnsent
<1> HIDE DEF t
<1>4. Goes(r, t)
  BY <1>2, <1>3 DEF Goes
<1> QED
  BY <1>4

\* Giving up a claim changes nothing else.
LEMMA UnclaimedSound ==
  ASSUME NEW s, Sound(s)
  PROVE  Sound([s EXCEPT !.claimedKey = None]) /\ [s EXCEPT !.claimedKey = None].forcedBy = s.forcedBy
<1> DEFINE t == [s EXCEPT !.claimedKey = None]
<1>1. s \in Request
  BY DEF Sound
<1>2. /\ t \in Request /\ Same(s, t) /\ t.pc = s.pc /\ t.result = s.result
      /\ t.lost = s.lost
  BY <1>1 DEF Request, Same, Spare
<1> HIDE DEF t
<1>3. /\ TriedBy(t) = TriedBy(s) /\ (Ledger(s) => Ledger(t)) /\ (Course(s) => Course(t))
      /\ (Untouched(s) => Untouched(t))
  BY <1>2, SameWalk
<1>4. Ended(s) => Ended(t)
  <2>1. OutOfTime(s) => OutOfTime(t)
    BY <1>2 DEF Same, OutOfTime, hopsLeft
  <2> QED
    BY <1>2, <2>1 DEF Same, Ended
<1>5. Sound(t) /\ t.forcedBy = s.forcedBy
  BY <1>2, <1>3, <1>4 DEF Sound, Walking, Same
<1> QED
  BY <1>5 DEF t

LEMMA BudgetType ==
  ASSUME NEW s \in Request, s.i \in 1 .. Len(s.chain)
  PROVE  /\ hopsLeft(s) \in Nat /\ budget(s) \in Int
         /\ Spare(s) >= (hopsLeft(s) + 1) * MinUseful =>
              /\ Spare(s) - budget(s) >= hopsLeft(s) * MinUseful
              /\ Spare(s) >= hopsLeft(s) * MinUseful
<1>1. hopsLeft(s) \in Nat /\ s.left \in Int /\ s.lost \in Nat /\ Spare(s) = s.left + s.lost
  BY RequestParts, LenProperties DEF hopsLeft, Spare
<1>2. cap(s) \in Nat /\ MinUseful <= cap(s)
  BY ChainAssumption, MinUsefulAssumption DEF cap
<1>3. /\ budget(s) \in Int
      /\ Spare(s) >= (hopsLeft(s) + 1) * MinUseful =>
           budget(s) <= Spare(s) - hopsLeft(s) * MinUseful
  <2>1. Spare(s) \in Int /\ s.left <= Spare(s)
    BY <1>1
  <2> QED
    BY <1>1, <1>2, <2>1, BudgetReserve, Zenon DEF budget
<1>4. /\ hopsLeft(s) * MinUseful \in Int
      /\ (hopsLeft(s) + 1) * MinUseful = hopsLeft(s) * MinUseful + MinUseful
  BY <1>1, MinUsefulAssumption
<1> QED
  BY <1>1, <1>3, <1>4, MinUsefulAssumption

\* What a reply leaves of a request, before the step that follows from it and after.
LEMMA BookedSound ==
  ASSUME NEW u, Sound(u), u.pc = "attempting", NEW o \in Answers,
         NEW spent \in Int,
         Spare(u) >= (hopsLeft(u) + 1) * MinUseful => Spare(u) - spent >= hopsLeft(u) * MinUseful
  PROVE  LET s == Settled(Bookkept(u, provider(u), o, spent), provider(u), o) IN
         s \in Request /\ Sound(After(s, o)) /\ After(s, o).forcedBy = u.forcedBy
<1> DEFINE p == provider(u)
           a == [provider |-> p, outcome |-> o]
           b == Bookkept(u, p, o, spent)
           s == Settled(b, p, o)
           next == After(s, o)
<1>1. /\ u \in Request /\ Ledger(u) /\ Course(u) /\ TriedBy(u) \subseteq u.unusable
      /\ u.chain \in Seq(Providers) /\ u.i \in 1 .. Len(u.chain) /\ Spare(u) \in Int
  BY RequestParts DEF Sound, Walking, Course, Ahead
<1>2. p \in Providers /\ o \in Outcomes
  BY <1>1, ElementOfSeq, ChainAssumption DEF provider
<1>3. a \in Attempts /\ Append(u.attempts, a) \in Seq(Attempts)
  <2>1. a \in Attempts
    BY <1>2 DEF Attempts
  <2> QED
    BY <1>1, <2>1, RequestParts, AppendProperties
<1>5. /\ b = [u EXCEPT !.unusable = @ \cup {p}, !.left = @ - spent,
                       !.attempts = Append(@, a),
                       !.lastVerdict = IF IsVerdict(a) THEN a ELSE @]
  BY DEF Bookkept
<1> HIDE DEF a, p
<1>6. b \in Request
  <2> DEFINE v == IF IsVerdict(a) THEN a ELSE u.lastVerdict
  <2>1. u.left - spent \in Int /\ v \in Attempts \cup {None}
    BY <1>1, <1>3, RequestParts
  <2>2. b = [u EXCEPT !.unusable = @ \cup {p}, !.left = @ - spent,
                      !.attempts = Append(@, a), !.lastVerdict = v]
    BY <1>1, <1>5 DEF Request
  <2> HIDE DEF v, b
  <2> QED
    BY <1>1, <1>2, <1>3, <2>1, <2>2 DEF Request
<1>7. /\ b.attempts = Append(u.attempts, a) /\ b.snap = u.snap /\ b.forcedBy = u.forcedBy
      /\ b.retries = u.retries /\ b.exhaustionForced = u.exhaustionForced
      /\ b.lastVerdict = (IF IsVerdict(a) THEN a ELSE u.lastVerdict)
      /\ b.health = u.health /\ b.chain = u.chain /\ b.i = u.i /\ Spare(b) = Spare(u) - spent
      /\ b.unusable = u.unusable \cup {p}
  BY <1>1, <1>5 DEF Request, Spare
<1> HIDE DEF b
<1>8. s \in Request /\ Same(b, s)
  BY <1>6 DEF Settled, Request, Same, Spare
<1> HIDE DEF s
<1>9. Booked(s, o)
  <2>1. Recorded(u, s, o)
    BY <1>7, <1>8 DEF Same, Recorded, a, p
  <2>2. /\ s.health = u.health /\ s.chain = u.chain /\ s.i = u.i
        /\ s.unusable = u.unusable \cup {provider(u)} /\ Spare(s) = Spare(u) - spent
    BY <1>7, <1>8 DEF Same, p
  <2> QED
    BY <1>1, <1>2, <1>8, <2>1, <2>2, BookedCourse
<1>10. Sound(next) /\ next.forcedBy = u.forcedBy
  <2>1. Sound(next) /\ next.forcedBy = s.forcedBy
    BY <1>2, <1>8, <1>9, AfterSound
  <2> QED
    BY <1>7, <1>8, <2>1 DEF Same
<1> QED
  BY <1>8, <1>10 DEF s, b, p

\* Time that goes by beside the attempts is lost, and everything else stays as it was.
LEMMA LateSound ==
  ASSUME NEW s, Sound(s), s.pc # "done", NEW d \in 0 .. Overhead - s.lost
  PROVE  /\ Late(s, d) \in Request /\ Sound(Late(s, d)) /\ Same(s, Late(s, d))
         /\ Late(s, d).pc = s.pc /\ Late(s, d).lost = s.lost + d
         /\ Late(s, d).claimedKey = s.claimedKey
<1> DEFINE t == Late(s, d)
<1>1. s \in Request
  BY DEF Sound
<1>2. s.left \in Int /\ s.lost \in 0 .. Overhead /\ Overhead \in Nat
  BY <1>1, RequestParts, ChainAssumption
<1>3. s.left - d \in Int /\ s.lost + d \in 0 .. Overhead
      /\ (s.left - d) + (s.lost + d) = s.left + s.lost
  BY <1>2
<1>4. t \in Request /\ t.pc = s.pc /\ t.lost = s.lost + d /\ t.claimedKey = s.claimedKey
  BY <1>1, <1>3 DEF Late, Request
<1>5. Same(s, t)
  BY <1>1, <1>3 DEF Late, Request, Same, Spare
<1> HIDE DEF t
<1>6. /\ TriedBy(t) = TriedBy(s) /\ (Ledger(s) => Ledger(t)) /\ (Course(s) => Course(t))
      /\ (Untouched(s) => Untouched(t))
  BY <1>5, SameWalk
<1>7. Sound(t)
  BY <1>4, <1>5, <1>6 DEF Sound, Walking, Same
<1> QED
  BY <1>4, <1>5, <1>7 DEF t

LEMMA WaitGoes ==
  ASSUME NEW r \in Requests, Sound(q[r]), Wait(r)
  PROVE  \E t : Goes(r, t)
<1>1. PICK d \in 1 .. Overhead - q[r].lost : q' = [q EXCEPT ![r] = Late(@, d)]
  BY DEF Wait
<1> DEFINE t == Late(q[r], d)
<1>2. q[r].pc # "done" /\ q' = [q EXCEPT ![r] = t]
  BY <1>1 DEF Wait
<1>3. d \in 0 .. Overhead - q[r].lost
  BY <1>1
<1>4. Sound(t) /\ Same(q[r], t)
  BY <1>2, <1>3, LateSound
<1> HIDE DEF t
<1>5. Goes(r, t)
  BY <1>2, <1>4 DEF Goes, Same
<1> QED
  BY <1>5

\* What a reply leaves, when it is looked at some time after the attempt was over.
LEMMA LateBooked ==
  ASSUME NEW u, Sound(u), u.pc = "attempting", NEW o \in Answers,
         NEW spent \in {0, budget(u)}, NEW late \in 0 .. Overhead - u.lost
  PROVE  LET s == Settled(Bookkept(Late(u, late), provider(u), o, spent), provider(u), o) IN
         s \in Request /\ Sound(After(s, o)) /\ After(s, o).forcedBy = u.forcedBy
<1> DEFINE v == Late(u, late)
<1>1. v \in Request /\ Sound(v) /\ Same(u, v) /\ v.pc = "attempting"
  BY LateSound
<1> HIDE DEF v
<1>2. provider(v) = provider(u) /\ hopsLeft(v) = hopsLeft(u) /\ Spare(v) = Spare(u)
      /\ v.forcedBy = u.forcedBy
  BY <1>1 DEF Same, provider, hopsLeft
<1>3. u \in Request /\ u.i \in 1 .. Len(u.chain)
  BY DEF Sound, Walking, Course, Ahead
<1>4. /\ spent \in Int
      /\ Spare(u) >= (hopsLeft(u) + 1) * MinUseful => Spare(u) - spent >= hopsLeft(u) * MinUseful
  <2>1. spent = 0 \/ spent = budget(u)
    OBVIOUS
  <2>2. Spare(u) - 0 = Spare(u)
    BY <1>3, RequestParts
  <2> QED
    BY <1>3, <2>1, <2>2, BudgetType
<1>5. LET s == Settled(Bookkept(v, provider(v), o, spent), provider(v), o) IN
      s \in Request /\ Sound(After(s, o)) /\ After(s, o).forcedBy = v.forcedBy
  BY <1>1, <1>2, <1>4, BookedSound
<1> QED
  BY <1>2, <1>5 DEF v

LEMMA ReplyGoes ==
  ASSUME NEW r \in Requests, q \in [Requests -> Request], Sound(q[r]), Reply(r)
  PROVE  \E t : Goes(r, t)
<1> DEFINE u == q[r]
           p == provider(u)
<1>1. PICK o \in Answers \ {"INVALID_REQUEST"}, spent \in {0, budget(u)},
           late \in 0 .. Overhead - u.lost :
        LET s == Settled(Bookkept(Late(u, late), p, o, spent), p, o)
            next == After(s, o)
        IN  \/ q' = [q EXCEPT ![r] = next]
            \/ q' = [q EXCEPT ![r] = [next EXCEPT !.claimedKey = None]]
  BY DEF Reply
<1> DEFINE next == After(Settled(Bookkept(Late(u, late), p, o, spent), p, o), o)
<1>2. Sound(next) /\ next.forcedBy = u.forcedBy
  <2>1. u.pc = "attempting" /\ o \in Answers
    BY DEF Reply
  <2> QED
    BY <2>1, LateBooked
<1>3. \/ q' = [q EXCEPT ![r] = next]
      \/ q' = [q EXCEPT ![r] = [next EXCEPT !.claimedKey = None]]
  BY <1>1
<1> HIDE DEF next
<1>4. CASE q' = [q EXCEPT ![r] = next]
  <2>1. Goes(r, next)
    BY <1>2, <1>4 DEF Goes
  <2> QED
    BY <2>1
<1>5. CASE q' = [q EXCEPT ![r] = [next EXCEPT !.claimedKey = None]]
  <2> DEFINE t == [next EXCEPT !.claimedKey = None]
  <2>1. Sound(t) /\ t.forcedBy = u.forcedBy
    BY <1>2, UnclaimedSound
  <2>2. Goes(r, t)
    BY <1>5, <2>1 DEF Goes
  <2> QED
    BY <2>2
<1> QED
  BY <1>3, <1>4, <1>5

\* No provider is forced before the slot is armed, and the slot stays armed longer
\* than any request.
SlotHeld ==
  ~StoreErrors => \A r \in Requests : q[r].forcedBy # None => store[ForcedKey] = "cooling"

LEMMA LastResortGoes ==
  ASSUME NEW r \in Requests, q \in [Requests -> Request], Sound(q[r]), SlotHeld,
         ClaimLastResort(r)
  PROVE  \E t : Goes(r, t)
<1> DEFINE s == q[r]
<1>1. /\ s \in Request /\ Ledger(s) /\ TriedBy(s) \subseteq s.unusable
      /\ s.attempts # <<>> /\ s.exhaustionForced
  BY DEF Sound, ClaimLastResort
<1>2. CASE ClaimGranted(ForcedKey) /\ q' = [q EXCEPT ![r].pc = "lastArm"]
  <2> DEFINE t == [s EXCEPT !.pc = "lastArm"]
  <2>1. t \in Request /\ Same(s, t) /\ t.pc = "lastArm"
    BY <1>1 DEF Request, PCs, Same, Spare
  <2>2. q' = [q EXCEPT ![r] = t]
    BY <1>2
  <2> HIDE DEF t
  <2>3. /\ Ledger(t) /\ TriedBy(t) \subseteq t.unusable /\ t.forcedBy = s.forcedBy
        /\ t.attempts # <<>> /\ t.exhaustionForced
    BY <1>1, <2>1, SameWalk DEF Same
  <2>4. ~StoreErrors => t.forcedBy = None
    BY <1>2, <2>3 DEF SlotHeld, ClaimGranted
  <2>5. Goes(r, t)
    BY <2>1, <2>2, <2>3, <2>4 DEF Goes, Sound, Walking
  <2> QED
    BY <2>5
<1>3. CASE q' = [q EXCEPT ![r] = ReturnSummary(s)]
  <2>1. Sound(ReturnSummary(s)) /\ ReturnSummary(s).forcedBy = s.forcedBy
    BY <1>1, SummarySound
  <2>2. Goes(r, ReturnSummary(s))
    BY <1>3, <2>1 DEF Goes
  <2> QED
    BY <2>2
<1> QED
  BY <1>2, <1>3 DEF ClaimLastResort, ReturnUnsent

\* A release touches the claimed key only, and only while its probe is out.
LEMMA ReleaseKeepsCooling ==
  ASSUME NEW before \in [Keys -> Statuses], NEW s, NEW after \in Released(before, s),
         before[ForcedKey] = "cooling"
  PROVE  after[ForcedKey] = "cooling"
<1>1. CASE after = before
  BY <1>1
<1>2. CASE before[s.claimedKey] = "probing" /\ after \in Writes(before, s.claimedKey, {"halfopen"})
  <2>1. ForcedKey \in Keys /\ {"halfopen"} \in SUBSET Statuses /\ s.claimedKey # ForcedKey
    BY <1>2 DEF Keys, Statuses
  <2> QED
    BY <1>2, <2>1, WritesKeys
<1> QED
  BY <1>1, <1>2 DEF Released

LEMMA ArmLastResortGoes ==
  ASSUME store \in [Keys -> Statuses], NEW r \in Requests, q \in [Requests -> Request],
         Sound(q[r]), ArmLastResort(r)
  PROVE  \E t : Goes(r, t)
<1> DEFINE s == q[r]
<1>1. /\ s \in Request /\ Ledger(s) /\ TriedBy(s) \subseteq s.unusable
      /\ s.attempts # <<>> /\ s.exhaustionForced /\ (~StoreErrors => s.forcedBy = None)
  BY DEF Sound, ArmLastResort
<1>2. PICK armed \in Writes(store, ForcedKey, {"cooling"}), p \in cooled(s) \ s.unusable :
        /\ store' \in Released(armed, s)
        /\ q' = [q EXCEPT ![r] = AtHop([s EXCEPT !.forcedBy = p, !.chain = <<p>>,
                                                 !.i = 1, !.claimedKey = None])]
  BY DEF ArmLastResort
<1> DEFINE u == [s EXCEPT !.forcedBy = p, !.chain = <<p>>, !.i = 1, !.claimedKey = None]
           t == AtHop(u)
<1>3. p \in Providers /\ <<p>> \in Seq(Providers)
  BY DEF cooled
<1>4. u \in Request
  BY <1>1, <1>3 DEF Request
<1>5. /\ u.snap = s.snap /\ u.health = s.health /\ u.chain = <<p>> /\ u.i = 1
      /\ u.unusable = s.unusable /\ u.forcedBy = p /\ u.retries = s.retries
      /\ u.exhaustionForced /\ u.attempts = s.attempts /\ u.lastVerdict = s.lastVerdict
  BY <1>1 DEF Request
<1>6. q' = [q EXCEPT ![r] = t]
  BY <1>2
<1> HIDE DEF u
<1>7. /\ TriedBy(u) = TriedBy(s) /\ cooled(u) = cooled(s)
      /\ Len(u.chain) = 1 /\ u.chain[1] = p /\ provider(u) = p
  BY <1>5 DEF TriedBy, cooled, cooldownFor, provider
<1>8. Ledger(u) /\ TriedBy(u) \subseteq u.unusable
  <2>1. ~StoreErrors => TriedBy(s) \cap cooled(s) = {}
    <3> SUFFICES ASSUME ~StoreErrors, NEW x \in TriedBy(s) \cap cooled(s) PROVE FALSE
      OBVIOUS
    <3>1. x = None /\ x \in Providers
      BY <1>1 DEF Ledger, cooled
    <3> QED
      BY <3>1, ChainAssumption
  <2> QED
    BY <1>1, <1>5, <1>7, <2>1 DEF Ledger, RetriesOnly
<1>9. Course(u)
  <2>1. \A n \in 1 .. Len(u.chain) : n = 1
    BY <1>7
  <2>2. Ahead(u)
    BY <1>5, <1>7, <2>1 DEF Ahead
  <2>3. Again(u) /\ OnlyForced(u) /\ OnlyFloor(u) /\ InTime(u)
    BY <1>5, <1>7, <2>1 DEF Again, OnlyForced, OnlyFloor, InTime
  <2> QED
    BY <2>2, <2>3 DEF Course
<1>10. Sound(t) /\ t.forcedBy = p
  BY <1>4, <1>5, <1>8, <1>9, AtHopSound
<1> HIDE DEF t
<1>11. ~StoreErrors => store'[ForcedKey] = "cooling"
  <2> SUFFICES ASSUME ~StoreErrors PROVE store'[ForcedKey] = "cooling"
    OBVIOUS
  <2>1. armed \in [Keys -> Statuses] /\ armed[ForcedKey] = "cooling"
    BY SlotArmed
  <2>2. s.claimedKey \in Keys \cup {None}
    BY <1>1, RequestParts
  <2> QED
    BY <1>2, <2>1, <2>2, ReleaseKeepsCooling
<1>12. Goes(r, t)
  BY <1>6, <1>10, <1>11 DEF Goes
<1> QED
  BY <1>12

\* The slot that is armed stays armed: no outcome writes it, no claim of it is
\* granted, and it outlasts every deadline.
LEMMA SlotStays ==
  ASSUME store \in [Keys -> Statuses], store[ForcedKey] = "cooling", [Next]_vars
  PROVE  store'[ForcedKey] = "cooling"
<1>1. ForcedKey \in Keys /\ {"cooling", "halfopen"} \in SUBSET Statuses /\ {"open"} \in SUBSET Statuses
  BY DEF Keys, Statuses
<1>2. ASSUME NEW k, ClaimGranted(k)
      PROVE  store'[ForcedKey] = "cooling"
  BY <1>2 DEF ClaimGranted
<1>3. ASSUME NEW s, store' \in Released(store, s)
      PROVE  store'[ForcedKey] = "cooling"
  BY <1>3, ReleaseKeepsCooling
<1>4. ASSUME NEW p, NEW o, NEW written \in Written(p, o)
      PROVE  written \in [Keys -> Statuses] /\ written[ForcedKey] = "cooling"
  <2>1. wroteKey(p, o) # ForcedKey
    <3>1. blk(p) # ForcedKey /\ acct(p) # ForcedKey /\ None # ForcedKey
      BY <1>1, ChainAssumption DEF blk, acct, ForcedKey
    <3> QED
      BY <3>1 DEF wroteKey
  <2>2. \/ written = store
        \/ written \in Writes(store, wroteKey(p, o), {"cooling", "halfopen"})
        \/ written \in Writes(store, wroteKey(p, o), {"open"})
    BY <1>4 DEF Written
  <2> QED
    BY <1>1, <2>1, <2>2, WritesKeys
<1>5. ASSUME NEW r \in Requests, Step(r)
      PROVE  store'[ForcedKey] = "cooling"
  <2>1. CASE Start(r)
    BY <2>1 DEF Start
  <2>2. CASE ClaimFloor(r)
    BY <1>2, <2>2 DEF ClaimFloor, ClaimRefused
  <2>3. CASE ArmFloor(r)
    BY <2>3, SlotArmed DEF ArmFloor
  <2>4. CASE Claim(r)
    BY <1>2, <2>4 DEF Claim, ClaimRefused
  <2>5. CASE Launch(r)
    BY <1>3, <2>5 DEF Launch, ReturnUnsent
  <2>6. CASE ClientGone(r)
    BY <1>3, <2>6 DEF ClientGone, ReturnUnsent
  <2>7. CASE Reply(r)
    <3>1. PICK p, o, s : \E written \in Written(p, o) :
            store' = written \/ store' \in Released(written, s)
      BY <2>7 DEF Reply
    <3> QED
      BY <1>4, <3>1, ReleaseKeepsCooling
  <2>8. CASE ClaimLastResort(r)
    BY <1>2, <1>3, <2>8 DEF ClaimLastResort, ReturnUnsent
  <2>9. CASE ArmLastResort(r)
    <3>1. PICK armed \in Writes(store, ForcedKey, {"cooling"}) : store' \in Released(armed, q[r])
      BY <2>9 DEF ArmLastResort
    <3> QED
      BY <3>1, SlotArmed, ReleaseKeepsCooling
  <2> QED
    BY <1>5, <2>1, <2>2, <2>3, <2>4, <2>5, <2>6, <2>7, <2>8, <2>9 DEF Step
<1>6. ASSUME NEW k \in Lapsing, Expire(k) \/ Forget(k)
      PROVE  store'[ForcedKey] = "cooling"
  <2>1. k # ForcedKey
    BY ChainAssumption
  <2> QED
    BY <1>1, <1>6, <2>1 DEF Expire, Forget
<1>7. ASSUME NEW r \in Requests, Wait(r)
      PROVE  store'[ForcedKey] = "cooling"
  BY <1>7 DEF Wait
<1>8. CASE UNCHANGED vars
  BY <1>8 DEF vars
<1> QED
  BY <1>5, <1>6, <1>7, <1>8 DEF Next, Finished

-----------------------------------------------------------------------------
\* The inductive invariant.
Walks ==
  /\ store \in [Keys -> Statuses]
  /\ q \in [Requests -> Request]
  /\ \A r \in Requests : Sound(q[r])
  /\ SlotHeld

LEMMA InitWalks == Init => Walks
<1> SUFFICES ASSUME Init PROVE Walks
  OBVIOUS
<1>1. store \in [Keys -> Statuses]
  BY ChainAssumption DEF Init
<1>2. ASSUME NEW r \in Requests
      PROVE  Sound(q[r]) /\ q[r] \in Request /\ q[r].forcedBy = None
  <2>1. (CHOOSE view \in HealthViews : TRUE) \in HealthViews
    BY ChainAssumption
  <2>2. <<>> \in Seq(Providers) /\ <<>> \in Seq(Attempts)
    OBVIOUS
  <2>3. q[r] \in Request
    BY <2>1, <2>2, ChainAssumption DEF Init, Request, PCs
  <2>4. Untouched(q[r]) /\ q[r].pc = "new" /\ q[r].forcedBy = None
    BY ChainAssumption DEF Init, Untouched, Spare
  <2>5. Ledger(q[r]) /\ TriedBy(q[r]) = {}
    BY <2>3, <2>4, UntouchedLedger
  <2> QED
    BY <2>3, <2>4, <2>5 DEF Sound, Walking
<1>3. q \in [Requests -> Request]
  BY <1>2 DEF Init
<1> QED
  BY <1>1, <1>2, <1>3 DEF Walks, SlotHeld

LEMMA StepGoes == ASSUME Walks, NEW r \in Requests, Step(r) PROVE \E t : Goes(r, t)
BY StartGoes, FloorGoes, ArmFloorGoes, ClaimGoes, LaunchGoes, GoneGoes, ReplyGoes,
   LastResortGoes, ArmLastResortGoes DEF Step, Walks

LEMMA NextWalks == Books /\ Books' /\ Walks /\ [Next]_vars => Walks'
<1> SUFFICES ASSUME Books, Books', Walks, [Next]_vars PROVE Walks'
  OBVIOUS
<1>1. store' \in [Keys -> Statuses]
  BY DEF Books
<1>2. store[ForcedKey] = "cooling" => store'[ForcedKey] = "cooling"
  BY SlotStays DEF Walks
<1>3. ASSUME NEW r \in Requests, Step(r) \/ Wait(r)
      PROVE  Walks'
  <2>1. PICK t : Goes(r, t)
    BY <1>3, StepGoes, WaitGoes DEF Walks
  <2>2. t \in Request /\ q' = [q EXCEPT ![r] = t] /\ Sound(t)
    BY <2>1 DEF Goes, Sound
  <2>3. /\ q' \in [Requests -> Request]
        /\ q'[r] = t /\ \A o \in Requests \ {r} : q'[o] = q[o]
    BY <2>2 DEF Walks
  <2>4. \A o \in Requests : Sound(q'[o])
    BY <2>2, <2>3 DEF Walks
  <2>5. SlotHeld'
    BY <1>2, <2>1, <2>3 DEF Walks, SlotHeld, Goes
  <2> QED
    BY <1>1, <2>3, <2>4, <2>5 DEF Walks
<1>4. CASE UNCHANGED q
  BY <1>1, <1>2, <1>4 DEF Walks, SlotHeld
<1> QED
  BY <1>3, <1>4 DEF Next, Finished, Expire, Forget, vars

LEMMA AlwaysWalks == Spec => [](Walks /\ Books)
<1>1. Init => Walks /\ Books
  BY InitWalks, InitBooks
<1>2. Walks /\ Books /\ [Next]_vars => Walks' /\ Books'
  BY NextBooks, NextWalks
<1> QED
  BY <1>1, <1>2, PTL DEF Spec

\* What a request's runChain holds has its type, whatever happens around it.
THEOREM ChainTypes == Spec => []TypeOK
<1>1. Walks => TypeOK
  BY DEF Walks, TypeOK
<1> QED
  BY <1>1, AlwaysWalks, PTL

\* However often the chain is ranked again, a provider is paid a second time only
\* for a retry, and no request has more retries than its deployment allows
\* (chain.ts, unusable and terminalRetriesLeft).
THEOREM RetriesOnlyRetry == Spec => []NoSecondAttempt
<1>1. Walks => NoSecondAttempt
  <2> SUFFICES ASSUME Walks, NEW r \in Requests
               PROVE  LET tries == q[r].attempts IN
                      /\ \A b \in 2 .. Len(tries) :
                           (\E a \in 1 .. b - 1 : tries[a].provider = tries[b].provider) =>
                             /\ tries[b - 1].provider = tries[b].provider
                             /\ tries[b - 1].outcome \in Retryable
                      /\ Len(tries) <= Cardinality(Tried(r)) + TerminalRetries
    BY DEF NoSecondAttempt
  <2>1. q[r] \in Request /\ Ledger(q[r]) /\ TriedBy(q[r]) = Tried(r)
    BY DEF Walks, Sound, TriedBy, Tried
  <2>2. Tried(r) \in SUBSET Providers
    <3>1. q[r].attempts \in Seq(Attempts)
      BY <2>1, RequestParts
    <3>2. DOMAIN q[r].attempts = 1 .. Len(q[r].attempts)
      BY <3>1, LenProperties
    <3>3. \A a \in ToSet(q[r].attempts) : a \in Attempts
      BY <3>1, <3>2, ElementOfSeq DEF ToSet
    <3> QED
      BY <3>3 DEF Tried, Attempts
  <2>3. Cardinality(Tried(r)) \in Nat
    BY <2>2, ProvidersFinite, FS_Subset, FS_CardinalityType
  <2>4. /\ Len(q[r].attempts) \in Nat /\ q[r].retries \in Nat /\ TerminalRetries \in Nat
        /\ Len(q[r].attempts) + q[r].retries <= Cardinality(Tried(r)) + TerminalRetries
    BY <2>1, RequestParts, LenProperties, ChainAssumption DEF Ledger
  <2>5. Len(q[r].attempts) <= Cardinality(Tried(r)) + TerminalRetries
    BY <2>3, <2>4
  <2> QED
    BY <2>1, <2>5 DEF Ledger, RetriesOnly
<1> QED
  BY <1>1, AlwaysWalks, PTL

\* A verdict of the target outranks a later fault in what the request is told
\* (chain.ts, lastVerdict).
THEOREM VerdictIsReported == Spec => []VerdictOutranksFault
<1>1. Walks => VerdictOutranksFault
  BY DEF Walks, Sound, Ledger, Ended, VerdictOutranksFault
<1> QED
  BY <1>1, AlwaysWalks, PTL

\* Where no store call fails, at most one provider that was cooling is tried, and
\* only on the slot of the domain (chain.ts, claimForcedAttempt).
THEOREM OneIsForced == ~StoreErrors => (Spec => []OneForcedAttempt)
<1> SUFFICES ASSUME ~StoreErrors PROVE Spec => []OneForcedAttempt
  OBVIOUS
<1>1. Walks => OneForcedAttempt
  <2> SUFFICES ASSUME Walks, NEW r \in Requests
               PROVE  /\ Cardinality(Tried(r) \cap cooled(q[r])) <= 1
                      /\ Attempting(r) /\ provider(q[r]) \in cooled(q[r]) =>
                           q[r].forcedBy = provider(q[r])
    BY DEF OneForcedAttempt
  <2>1. /\ Sound(q[r]) /\ TriedBy(q[r]) = Tried(r)
        /\ Tried(r) \cap cooled(q[r]) \in SUBSET {q[r].forcedBy}
    BY DEF Walks, Sound, Ledger, TriedBy, Tried
  <2>2. IsFiniteSet({q[r].forcedBy}) /\ Cardinality({q[r].forcedBy}) = 1
    BY FS_Singleton
  <2>3. Cardinality(Tried(r) \cap cooled(q[r])) <= 1
    BY <2>1, <2>2, FS_Subset
  <2>4. Attempting(r) => OnlyForced(q[r]) /\ q[r].i \in 1 .. Len(q[r].chain)
    BY <2>1 DEF Sound, Walking, Attempting, Course, Ahead
  <2> QED
    BY <2>3, <2>4 DEF OnlyForced, provider
<1> QED
  BY <1>1, AlwaysWalks, PTL

\* A demoted provider gets a request only as the floor (health.ts, eligible).
THEOREM DemotedOnlyAsFloor == Spec => []DemotedIsFloor
<1>1. Walks => DemotedIsFloor
  <2> SUFFICES ASSUME Walks, NEW r \in Requests, Attempting(r),
                      q[r].health[provider(q[r])] = "demoted",
                      q[r].forcedBy # provider(q[r]),
                      NEW p \in Providers, q[r].health[p] # "demoted"
               PROVE  p \in cooled(q[r]) \cup q[r].unusable
    BY DEF DemotedIsFloor
  <2>1. OnlyFloor(q[r]) /\ q[r].i \in 1 .. Len(q[r].chain)
    BY DEF Walks, Sound, Walking, Attempting, Course, Ahead
  <2> QED
    BY <2>1 DEF OnlyFloor, provider
<1> QED
  BY <1>1, AlwaysWalks, PTL

\* With the floor for every provider in the deadline, a planned hop finds the time gone
\* only if the walk itself has lost more than the floors behind that hop, in whatever
\* order the chain is ranked again and whatever answers take their whole budget
\* (budget.ts).
THEOREM TimeForPlannedHops == Spec => []PlannedHopsGetTime
<1>1. Walks => PlannedHopsGetTime
  BY DEF Walks, Sound, Ended, OutOfTime, PlannedHopsGetTime
<1> QED
  BY <1>1, AlwaysWalks, PTL

-----------------------------------------------------------------------------
(***************************************************************************)
(* How long a walk can be. Each step spends some of what the request has.  *)
(***************************************************************************)

Untried(s) == Cardinality(Providers \ s.unusable)

Retrying(s) == IF Walking(s) /\ provider(s) \in s.unusable THEN 1 ELSE 0

\* The hops a request has yet to make, at most.
Hops(s) == Untried(s) + s.retries + Retrying(s)

\* The steps it has yet to make before it leaves the hop it is at.
Awaits == [new |-> 6, flooring |-> 5, floored |-> 4, lastResort |-> 5, lastArm |-> 4,
           claiming |-> 3, launching |-> 2, attempting |-> 1, done |-> 0]

Fuel(s) == 5 * Hops(s) + Awaits[s.pc]

LEMMA UntriedLeft ==
  ASSUME NEW unusable \in SUBSET Providers, NEW p \in Providers
  PROVE  LET left(set) == Cardinality(Providers \ set) IN
         /\ left(unusable) \in Nat /\ left(unusable \cup {p}) \in Nat
         /\ p \notin unusable => left(unusable \cup {p}) = left(unusable) - 1
         /\ p \in unusable => left(unusable \cup {p}) = left(unusable)
<1> DEFINE S == Providers \ unusable
           T == Providers \ (unusable \cup {p})
<1>1. IsFiniteSet(S) /\ IsFiniteSet(T)
  BY ProvidersFinite, FS_Subset
<1>2. Cardinality(S) \in Nat /\ Cardinality(T) \in Nat
  BY <1>1, FS_CardinalityType
<1>3. p \notin unusable => p \in S /\ T = S \ {p}
  OBVIOUS
<1>4. p \in S => Cardinality(S \ {p}) = Cardinality(S) - 1
  BY <1>1, FS_RemoveElement
<1>5. p \in unusable => T = S
  OBVIOUS
<1> QED
  BY <1>2, <1>3, <1>4, <1>5

LEMMA FuelType ==
  ASSUME NEW s \in Request
  PROVE  /\ Untried(s) \in Nat /\ s.retries \in Nat /\ Retrying(s) \in {0, 1}
         /\ Hops(s) \in Nat /\ Awaits[s.pc] \in 0 .. 6 /\ Fuel(s) \in Nat
<1>1. s.pc \in PCs /\ s.unusable \in SUBSET Providers /\ s.retries \in Nat
  BY RequestParts
<1>2. IsFiniteSet(Providers \ s.unusable)
  BY ProvidersFinite, FS_Subset
<1>3. Untried(s) \in Nat
  BY <1>2, FS_CardinalityType DEF Untried
<1>4. Retrying(s) \in {0, 1}
  BY DEF Retrying
<1>5. Awaits[s.pc] \in 0 .. 6
  BY <1>1 DEF PCs, Awaits
<1>6. Hops(s) \in Nat
  BY <1>1, <1>3, <1>4 DEF Hops
<1> QED
  BY <1>1, <1>3, <1>4, <1>5, <1>6 DEF Fuel

\* A step that stays at a hop comes nearer to leaving it; one that leaves has a hop less.
LEMMA Spends ==
  ASSUME NEW s \in Request, NEW t \in Request, s.pc # "done",
         \/ Hops(t) <= Hops(s) /\ Awaits[t.pc] < Awaits[s.pc]
         \/ Hops(t) < Hops(s) /\ t.pc # "new"
  PROVE  Fuel(t) < Fuel(s)
<1>1. /\ Hops(s) \in Nat /\ Hops(t) \in Nat
      /\ Awaits[s.pc] \in 0 .. 6 /\ Awaits[t.pc] \in 0 .. 6
  BY FuelType
<1>2. Awaits[s.pc] >= 1 /\ (t.pc # "new" => Awaits[t.pc] <= 5)
  BY RequestParts DEF PCs, Awaits
<1>3. CASE Hops(t) <= Hops(s) /\ Awaits[t.pc] < Awaits[s.pc]
  BY <1>1, <1>3 DEF Fuel
<1>4. CASE Hops(t) < Hops(s) /\ t.pc # "new"
  BY <1>1, <1>2, <1>4 DEF Fuel
<1> QED
  BY <1>3, <1>4

LEMMA ReturnHops ==
  ASSUME NEW s \in Request, NEW o, NEW p, NEW why, Return(s, o, p, why) \in Request
  PROVE  LET t == Return(s, o, p, why) IN
         t.pc = "done" /\ Hops(t) = Untried(s) + s.retries
<1> DEFINE t == Return(s, o, p, why)
<1>1. t.pc = "done" /\ t.unusable = s.unusable /\ t.retries = s.retries
  BY DEF Return, Request
<1> HIDE DEF t
<1>2. Retrying(t) = 0 /\ Untried(t) = Untried(s)
  BY <1>1 DEF Retrying, Walking, Untried
<1>3. Hops(t) = Untried(s) + s.retries
  BY <1>1, <1>2, FuelType DEF Hops
<1> QED
  BY <1>1, <1>3 DEF t

LEMMA AtHopHops ==
  ASSUME NEW s \in Request, AtHop(s) \in Request
  PROVE  LET t == AtHop(s) IN
         /\ t.pc \in {"claiming", "launching", "done"}
         /\ Hops(t) <= Untried(s) + s.retries + 1
         /\ (s.i <= Len(s.chain) => provider(s) \notin s.unusable) =>
              Hops(t) = Untried(s) + s.retries
<1> DEFINE t == AtHop(s)
<1>1. Untried(s) \in Nat /\ s.retries \in Nat
  BY FuelType
<1>2. CASE s.i <= Len(s.chain)
  <2>1. /\ t.pc \in {"claiming", "launching"} /\ t.unusable = s.unusable
        /\ t.retries = s.retries /\ t.chain = s.chain /\ t.i = s.i
    BY <1>2 DEF AtHop, Request
  <2> HIDE DEF t
  <2>2. Untried(t) = Untried(s) /\ provider(t) = provider(s) /\ Retrying(t) \in {0, 1}
    BY <2>1 DEF Untried, provider, Retrying
  <2>3. provider(s) \notin s.unusable => Retrying(t) = 0
    BY <2>1, <2>2 DEF Retrying
  <2>4. /\ Hops(t) <= Untried(s) + s.retries + 1
        /\ provider(s) \notin s.unusable => Hops(t) = Untried(s) + s.retries
    BY <1>1, <2>1, <2>2, <2>3 DEF Hops
  <2> QED
    BY <1>2, <2>1, <2>4 DEF t
<1>3. CASE ~(s.i <= Len(s.chain))
  <2>1. \E o, p, why : t = Return(s, o, p, why)
    BY <1>3 DEF AtHop, ReturnSummary
  <2>2. t.pc = "done" /\ Hops(t) = Untried(s) + s.retries
    BY <2>1, ReturnHops
  <2> QED
    BY <1>1, <2>2
<1> QED
  BY <1>2, <1>3

\* A ranking has no provider that is no longer usable.
LEMMA RerankHops ==
  ASSUME NEW s \in Request, Rerank(s) \in Request
  PROVE  LET t == Rerank(s) IN
         t.pc \in {"claiming", "launching", "done"} /\ Hops(t) = Untried(s) + s.retries
<1> DEFINE u == [s EXCEPT !.chain = rank(s), !.i = 1]
<1>1. IsRanking(s, rank(s))
  BY Ranking
<1>2. u \in Request /\ u.chain = rank(s) /\ u.i = 1 /\ u.unusable = s.unusable
      /\ u.retries = s.retries
  BY <1>1 DEF Request, IsRanking
<1>3. Rerank(s) = AtHop(u)
  BY DEF Rerank
<1> HIDE DEF u
<1>4. u.i <= Len(u.chain) => provider(u) \notin u.unusable
  <2>1. Len(rank(s)) \in Nat
    BY <1>1, LenProperties DEF IsRanking
  <2> QED
    BY <1>1, <1>2, <2>1 DEF IsRanking, Usable, provider
<1>5. Untried(u) = Untried(s)
  BY <1>2 DEF Untried
<1> QED
  BY <1>2, <1>3, <1>4, <1>5, AtHopHops

-----------------------------------------------------------------------------
Spent(r) == Fuel(q'[r]) < Fuel(q[r])

\* A step that comes nearer to a hop, or to the end of one.
LEMMA SpentWaiting ==
  ASSUME NEW s \in Request, NEW t \in Request, s.pc # "done",
         Awaits[t.pc] < Awaits[s.pc], t.unusable = s.unusable, t.retries = s.retries,
         Retrying(t) = 0
  PROVE  Fuel(t) < Fuel(s)
<1>1. Untried(t) = Untried(s)
  BY DEF Untried
<1>2. Hops(t) <= Hops(s)
  BY <1>1, FuelType DEF Hops
<1> QED
  BY <1>2, Spends

LEMMA SpentAtHop ==
  ASSUME NEW s \in Request, NEW t \in Request, Walking(s),
         Awaits[t.pc] < Awaits[s.pc], t.unusable = s.unusable, t.retries = s.retries,
         t.chain = s.chain, t.i = s.i
  PROVE  Fuel(t) < Fuel(s)
<1>1. Untried(t) = Untried(s) /\ provider(t) = provider(s) /\ s.pc # "done"
  BY DEF Untried, provider, Walking
<1>2. Retrying(t) <= Retrying(s)
  BY <1>1 DEF Retrying
<1>3. Hops(t) <= Hops(s)
  BY <1>1, <1>2, FuelType DEF Hops
<1> QED
  BY <1>1, <1>3, Spends

\* So does one with which the request is answered.
LEMMA SpentAtEnd ==
  ASSUME NEW s \in Request, s.pc # "done", NEW t \in Request, t.pc = "done",
         t.unusable = s.unusable, t.retries = s.retries
  PROVE  Fuel(t) < Fuel(s)
<1>1. Retrying(t) = 0 /\ Awaits[t.pc] = 0
  BY DEF Retrying, Walking, Awaits
<1>2. Awaits[s.pc] > 0
  BY RequestParts DEF PCs, Awaits
<1> QED
  BY <1>1, <1>2, SpentWaiting

\* A provider that is struck off was not tried before, or its retry is over.
LEMMA HopMade ==
  ASSUME NEW s \in Request, Walking(s), provider(s) \in Providers,
         NEW u \in Request, u.unusable = s.unusable \cup {provider(s)}, u.retries = s.retries
  PROVE  Untried(u) + u.retries < Hops(s)
<1>1. s.unusable \in SUBSET Providers
  BY RequestParts
<1>2. /\ Untried(s) \in Nat /\ Untried(u) \in Nat
      /\ provider(s) \notin s.unusable => Untried(u) = Untried(s) - 1
      /\ provider(s) \in s.unusable => Untried(u) = Untried(s)
  BY <1>1, UntriedLeft DEF Untried
<1>3. s.retries \in Nat /\ Retrying(s) = IF provider(s) \in s.unusable THEN 1 ELSE 0
  BY RequestParts DEF Retrying
<1> QED
  BY <1>2, <1>3 DEF Hops

LEMMA SpentStart ==
  ASSUME Walks, Walks', NEW r \in Requests, Start(r) PROVE Spent(r)
<1>1. PICK view \in HealthViews,
           snap \in {[k \in Keys |-> decide(store[k])]}
                      \cup (IF StoreErrors THEN {[k \in Keys |-> "open"]} ELSE {}) :
        LET s == [q[r] EXCEPT !.snap = snap, !.health = view]
        IN  q' = [q EXCEPT ![r] = IF notCooling(s) = {} THEN [s EXCEPT !.pc = "flooring"]
                                  ELSE Rerank(s)]
  BY DEF Start
<1> DEFINE s == [q[r] EXCEPT !.snap = snap, !.health = view]
<1>2. q[r] \in Request /\ q[r].pc = "new" /\ q'[r] \in Request
  BY DEF Walks, Start
<1>3. snap \in [Keys -> {"open", "cooling", "probe"}]
  BY DEF decide
<1>4. s \in Request /\ s.unusable = q[r].unusable /\ s.retries = q[r].retries
  BY <1>2, <1>3 DEF Request
<1>5. q'[r] = IF notCooling(s) = {} THEN [s EXCEPT !.pc = "flooring"] ELSE Rerank(s)
  BY <1>1 DEF Walks
<1> HIDE DEF s
<1>6. Awaits["new"] = 6 /\ Awaits["flooring"] = 5 /\ Awaits["claiming"] = 3
      /\ Awaits["launching"] = 2 /\ Awaits["done"] = 0
  BY DEF Awaits
<1>7. Untried(s) = Untried(q[r]) /\ Hops(q[r]) = Untried(s) + s.retries
  BY <1>2, <1>4, FuelType DEF Untried, Hops, Retrying, Walking
<1>8. CASE notCooling(s) = {}
  <2>1. q'[r].pc = "flooring" /\ q'[r].unusable = s.unusable /\ q'[r].retries = s.retries
    BY <1>4, <1>5, <1>8 DEF Request
  <2>2. Retrying(q'[r]) = 0
    BY <2>1 DEF Retrying, Walking
  <2> QED
    BY <1>2, <1>4, <1>6, <2>1, <2>2, SpentWaiting DEF Spent
<1>9. CASE notCooling(s) # {}
  <2>1. q'[r].pc \in {"claiming", "launching", "done"} /\ Hops(q'[r]) = Hops(q[r])
    BY <1>2, <1>4, <1>5, <1>7, <1>9, RerankHops
  <2>2. Hops(q[r]) \in Nat
    BY <1>2, FuelType
  <2> QED
    BY <1>2, <1>6, <2>1, <2>2, Spends DEF Spent
<1> QED
  BY <1>8, <1>9

LEMMA SpentFloor ==
  ASSUME Walks, Walks', NEW r \in Requests, ClaimFloor(r) PROVE Spent(r)
<1>1. q[r] \in Request /\ q'[r] \in Request /\ q[r].pc = "flooring"
  BY DEF Walks, ClaimFloor
<1>2. CASE q' = [q EXCEPT ![r].pc = "floored"]
  <2>1. /\ q'[r].pc = "floored" /\ q'[r].unusable = q[r].unusable
        /\ q'[r].retries = q[r].retries
    BY <1>1, <1>2 DEF Walks, Request
  <2>2. Retrying(q'[r]) = 0 /\ Awaits["floored"] < Awaits["flooring"]
    BY <2>1 DEF Retrying, Walking, Awaits
  <2> QED
    BY <1>1, <2>1, <2>2, SpentWaiting DEF Spent
<1>3. CASE q' = [q EXCEPT ![r] = Return(@, "NO_PROVIDER_AVAILABLE", None, "cooling")]
  <2>1. /\ q'[r].pc = "done" /\ q'[r].unusable = q[r].unusable
        /\ q'[r].retries = q[r].retries
    BY <1>1, <1>3 DEF Walks, Request, Return
  <2> QED
    BY <1>1, <2>1, SpentAtEnd DEF Spent
<1> QED
  BY <1>2, <1>3 DEF ClaimFloor

LEMMA SpentArmFloor ==
  ASSUME Walks, Walks', NEW r \in Requests, ArmFloor(r) PROVE Spent(r)
<1>1. PICK p \in cooled(q[r]) : q' = [q EXCEPT ![r] = Rerank([@ EXCEPT !.forcedBy = p])]
  BY DEF ArmFloor
<1> DEFINE s == [q[r] EXCEPT !.forcedBy = p]
<1>2. q[r] \in Request /\ q'[r] \in Request /\ q[r].pc = "floored" /\ q'[r] = Rerank(s)
  BY <1>1 DEF Walks, ArmFloor
<1>3. s \in Request /\ s.unusable = q[r].unusable /\ s.retries = q[r].retries
  BY <1>2 DEF Request, cooled
<1> HIDE DEF s
<1>4. q'[r].pc \in {"claiming", "launching", "done"}
      /\ Hops(q'[r]) = Untried(s) + s.retries
  BY <1>2, <1>3, RerankHops
<1>5. Untried(s) = Untried(q[r]) /\ Hops(q[r]) = Untried(s) + s.retries /\ Hops(q[r]) \in Nat
  BY <1>2, <1>3, FuelType DEF Untried, Hops, Retrying, Walking
<1>6. Awaits[q'[r].pc] < Awaits["floored"]
  BY <1>4 DEF Awaits
<1> QED
  BY <1>2, <1>4, <1>5, <1>6, Spends DEF Spent

LEMMA SpentClaim ==
  ASSUME Walks, Walks', NEW r \in Requests, Claim(r) PROVE Spent(r)
<1>1. /\ q[r] \in Request /\ q'[r] \in Request /\ q[r].pc = "claiming" /\ Walking(q[r])
      /\ q[r].chain \in Seq(Providers) /\ q[r].i \in 1 .. Len(q[r].chain)
  BY DEF Walks, Sound, Course, Ahead, Claim, Walking, Request
<1>2. provider(q[r]) \in Providers
  BY <1>1, ElementOfSeq DEF provider
<1>3. CASE q' = [q EXCEPT ![r].pc = "launching", ![r].claimedKey = probeKey(q[r])]
  <2>1. /\ q'[r].pc = "launching" /\ q'[r].unusable = q[r].unusable
        /\ q'[r].retries = q[r].retries /\ q'[r].chain = q[r].chain /\ q'[r].i = q[r].i
    BY <1>1, <1>3 DEF Walks, Request
  <2>2. Awaits["launching"] < Awaits["claiming"]
    BY DEF Awaits
  <2> QED
    BY <1>1, <2>1, <2>2, SpentAtHop DEF Spent
<1>4. CASE q' = [q EXCEPT ![r] = Rerank([q[r] EXCEPT !.unusable = @ \cup {provider(q[r])}])]
  <2> DEFINE u == [q[r] EXCEPT !.unusable = @ \cup {provider(q[r])}]
  <2>1. /\ u \in Request /\ u.unusable = q[r].unusable \cup {provider(q[r])}
        /\ u.retries = q[r].retries /\ q'[r] = Rerank(u)
    BY <1>1, <1>2, <1>4 DEF Walks, Request
  <2> HIDE DEF u
  <2>2. q'[r].pc \in {"claiming", "launching", "done"}
        /\ Hops(q'[r]) = Untried(u) + u.retries
    BY <1>1, <2>1, RerankHops
  <2>3. Untried(u) + u.retries < Hops(q[r])
    BY <1>1, <1>2, <2>1, HopMade
  <2> QED
    BY <1>1, <2>2, <2>3, Spends DEF Spent
<1> QED
  BY <1>3, <1>4 DEF Claim

LEMMA SpentLaunch ==
  ASSUME Walks, Walks', NEW r \in Requests, Launch(r) PROVE Spent(r)
<1>1. /\ q[r] \in Request /\ q'[r] \in Request /\ q[r].pc = "launching" /\ Walking(q[r])
  BY DEF Walks, Launch, Walking
<1>2. CASE q' = [q EXCEPT ![r].pc = "attempting"]
  <2>1. /\ q'[r].pc = "attempting" /\ q'[r].unusable = q[r].unusable
        /\ q'[r].retries = q[r].retries /\ q'[r].chain = q[r].chain /\ q'[r].i = q[r].i
    BY <1>1, <1>2 DEF Walks, Request
  <2>2. Awaits["attempting"] < Awaits["launching"]
    BY DEF Awaits
  <2> QED
    BY <1>1, <2>1, <2>2, SpentAtHop DEF Spent
<1>3. CASE q' = [q EXCEPT ![r] = Return(q[r], "BUDGET_EXCEEDED", None, "time")]
  <2>1. /\ q'[r].pc = "done" /\ q'[r].unusable = q[r].unusable
        /\ q'[r].retries = q[r].retries
    BY <1>1, <1>3 DEF Walks, Request, Return
  <2> QED
    BY <1>1, <2>1, SpentAtEnd DEF Spent
<1>4. CASE \E attempts : q' = [q EXCEPT ![r] =
             Return([q[r] EXCEPT !.attempts = attempts], "INVALID_REQUEST", None, "answer")]
  <2>1. /\ q'[r].pc = "done" /\ q'[r].unusable = q[r].unusable
        /\ q'[r].retries = q[r].retries
    BY <1>1, <1>4 DEF Walks, Request, Return
  <2> QED
    BY <1>1, <2>1, SpentAtEnd DEF Spent
<1> QED
  BY <1>2, <1>3, <1>4 DEF Launch, ReturnUnsent

LEMMA SpentGone ==
  ASSUME Walks, Walks', NEW r \in Requests, ClientGone(r) PROVE Spent(r)
<1>1. /\ q[r] \in Request /\ q'[r] \in Request /\ q[r].pc = "attempting"
      /\ q' = [q EXCEPT ![r] = Return(q[r], "BUDGET_EXCEEDED", None, "gone")]
  BY DEF Walks, ClientGone, ReturnUnsent
<1>2. q'[r].pc = "done" /\ q'[r].unusable = q[r].unusable /\ q'[r].retries = q[r].retries
  BY <1>1 DEF Walks, Request, Return
<1> QED
  BY <1>1, <1>2, SpentAtEnd DEF Spent

\* Where an outcome leads to: a hop that was not tried, a retry that is paid for, the last
\* resort or the end.
LEMMA AfterHops ==
  ASSUME NEW s \in Request, NEW o, After(s, o) \in Request,
         s.i \in 1 .. Len(s.chain),
         \A n \in s.i + 1 .. Len(s.chain) : s.chain[n] \notin s.unusable
  PROVE  After(s, o).pc # "new" /\ Hops(After(s, o)) <= Untried(s) + s.retries
<1> DEFINE once == s.onceUsed \/ failover(o) = "once"
           onward == [s EXCEPT !.onceUsed = once]
           t == After(s, o)
           spare == Untried(s) + s.retries
<1>1. /\ onward \in Request /\ onward.unusable = s.unusable /\ onward.retries = s.retries
      /\ onward.chain = s.chain /\ onward.i = s.i
  <2>1. once \in BOOLEAN
    OBVIOUS
  <2> HIDE DEF once
  <2> QED
    BY <2>1 DEF Request
<1>2. /\ Untried(s) \in Nat /\ s.retries \in Nat /\ s.i \in Nat /\ Len(s.chain) \in Nat
  BY FuelType, RequestParts, LenProperties
<1>3. t = IF failover(o) = "false" \/ (failover(o) = "once" /\ s.onceUsed)
          THEN Return(s, o, provider(s), "answer")
          ELSE IF hopsLeft(s) > 0 THEN AtHop([onward EXCEPT !.i = @ + 1])
          ELSE IF s.retries > 0 /\ o \in Retryable /\ s.left > FastCap
          THEN AtHop([onward EXCEPT !.retries = @ - 1])
          ELSE IF ~s.exhaustionForced /\ cooled(s) \ s.unusable # {}
          THEN [onward EXCEPT !.pc = "lastResort", !.exhaustionForced = TRUE]
          ELSE ReturnSummary([onward EXCEPT !.exhaustionForced = TRUE])
  BY DEF After
<1> HIDE DEF onward, t
<1>4. CASE t = Return(s, o, provider(s), "answer")
  BY <1>2, <1>4, ReturnHops DEF t
<1>5. CASE hopsLeft(s) > 0 /\ t = AtHop([onward EXCEPT !.i = @ + 1])
  <2> DEFINE u == [onward EXCEPT !.i = @ + 1]
  <2>1. /\ u \in Request /\ u.unusable = s.unusable /\ u.retries = s.retries
        /\ u.chain = s.chain /\ u.i = s.i + 1
    <3> DEFINE k == onward.i + 1
    <3>1. u = [onward EXCEPT !.i = k] /\ k \in Nat /\ k = s.i + 1
      BY <1>1, <1>2
    <3> HIDE DEF u, k
    <3> QED
      BY <1>1, <3>1 DEF Request
  <2> HIDE DEF u
  <2>2. u.i <= Len(u.chain) => provider(u) \notin u.unusable
    BY <1>2, <2>1 DEF provider
  <2>3. Untried(u) = Untried(s)
    BY <2>1 DEF Untried
  <2>4. t.pc # "new" /\ Hops(t) = spare
    BY <1>5, <2>1, <2>2, <2>3, AtHopHops DEF t, u
  <2> QED
    BY <1>2, <2>4 DEF t
<1>6. CASE s.retries > 0 /\ t = AtHop([onward EXCEPT !.retries = @ - 1])
  <2> DEFINE u == [onward EXCEPT !.retries = @ - 1]
  <2>1. u \in Request /\ u.unusable = s.unusable /\ u.retries = s.retries - 1
    <3> DEFINE k == onward.retries - 1
    <3>1. u = [onward EXCEPT !.retries = k] /\ k \in Nat /\ k = s.retries - 1
      BY <1>1, <1>2, <1>6
    <3> HIDE DEF u, k
    <3> QED
      BY <1>1, <3>1 DEF Request
  <2> HIDE DEF u
  <2>2. Untried(u) = Untried(s)
    BY <2>1 DEF Untried
  <2>3. t.pc # "new" /\ Hops(t) <= Untried(u) + u.retries + 1
    BY <1>6, <2>1, AtHopHops DEF t, u
  <2> QED
    BY <1>2, <2>1, <2>2, <2>3 DEF t
<1>7. CASE t = [onward EXCEPT !.pc = "lastResort", !.exhaustionForced = TRUE]
  <2>1. t.pc = "lastResort" /\ t.unusable = s.unusable /\ t.retries = s.retries
    BY <1>1, <1>7 DEF Request
  <2>2. Untried(t) = Untried(s) /\ Retrying(t) = 0
    BY <2>1 DEF Untried, Retrying, Walking
  <2> QED
    BY <1>2, <2>1, <2>2 DEF Hops, t
<1>8. CASE t = ReturnSummary([onward EXCEPT !.exhaustionForced = TRUE])
  <2> DEFINE u == [onward EXCEPT !.exhaustionForced = TRUE]
  <2>1. u \in Request /\ u.unusable = s.unusable /\ u.retries = s.retries
    BY <1>1 DEF Request
  <2> HIDE DEF u
  <2>2. \E outcome, p, why : t = Return(u, outcome, p, why)
    BY <1>8 DEF ReturnSummary, u
  <2>3. Untried(u) = Untried(s)
    BY <2>1 DEF Untried
  <2>4. t.pc = "done" /\ Hops(t) = spare
    BY <2>1, <2>2, <2>3, ReturnHops DEF t
  <2> QED
    BY <1>2, <2>4 DEF t
<1> QED
  BY <1>3, <1>4, <1>5, <1>6, <1>7, <1>8

LEMMA SpentReply ==
  ASSUME Walks, Walks', NEW r \in Requests, Reply(r) PROVE Spent(r)
<1> DEFINE u == q[r]
           p == provider(u)
<1>1. PICK o \in Answers \ {"INVALID_REQUEST"}, spent \in {0, budget(u)},
           late \in 0 .. Overhead - u.lost :
        LET s == Settled(Bookkept(Late(u, late), p, o, spent), p, o)
            next == After(s, o)
        IN  \/ q' = [q EXCEPT ![r] = next]
            \/ q' = [q EXCEPT ![r] = [next EXCEPT !.claimedKey = None]]
  BY DEF Reply
<1> DEFINE s == Settled(Bookkept(Late(u, late), p, o, spent), p, o)
           next == After(s, o)
<1>2. /\ u \in Request /\ q'[r] \in Request /\ u.pc = "attempting" /\ Walking(u)
      /\ Sound(u) /\ Ahead(u) /\ u.chain \in Seq(Providers) /\ u.i \in 1 .. Len(u.chain)
  BY DEF Walks, Sound, Walking, Reply, Course, Ahead, Request
<1>3. p \in Providers
  BY <1>2, ElementOfSeq DEF provider
<1>4. s \in Request /\ Sound(next)
  <2>1. o \in Answers
    OBVIOUS
  <2> QED
    BY <1>2, <2>1, LateBooked
<1>5. /\ s.unusable = u.unusable \cup {p} /\ s.retries = u.retries
      /\ s.chain = u.chain /\ s.i = u.i
  BY <1>2 DEF Settled, Bookkept, Late, Request
<1>6. q'[r] = next \/ q'[r] = [next EXCEPT !.claimedKey = None]
  BY <1>1 DEF Walks
<1> HIDE DEF s
<1>7. \A n \in s.i + 1 .. Len(s.chain) : s.chain[n] \notin s.unusable
  BY <1>2, <1>5 DEF Ahead, provider
<1> HIDE DEF p
<1>8. next \in Request /\ next.pc # "new" /\ Hops(next) <= Untried(s) + s.retries
  BY <1>2, <1>4, <1>5, <1>7, AfterHops DEF Sound
<1>9. Untried(s) + s.retries < Hops(u)
  BY <1>2, <1>3, <1>4, <1>5, HopMade DEF p
<1> HIDE DEF next
<1>10. q'[r].pc = next.pc /\ Hops(q'[r]) = Hops(next)
  <2>1. /\ q'[r].pc = next.pc /\ q'[r].unusable = next.unusable
        /\ q'[r].retries = next.retries /\ q'[r].chain = next.chain /\ q'[r].i = next.i
    BY <1>6, <1>8 DEF Request
  <2> QED
    BY <2>1 DEF Hops, Untried, Retrying, Walking, provider
<1>11. /\ Hops(u) \in Nat /\ Hops(next) \in Nat /\ Untried(s) \in Nat /\ s.retries \in Nat
  BY <1>2, <1>4, <1>8, FuelType
<1>12. Hops(q'[r]) < Hops(u)
  BY <1>8, <1>9, <1>10, <1>11
<1> QED
  BY <1>2, <1>8, <1>10, <1>12, Spends DEF Spent

LEMMA SpentLastResort ==
  ASSUME Walks, Walks', NEW r \in Requests, ClaimLastResort(r) PROVE Spent(r)
<1>1. q[r] \in Request /\ q'[r] \in Request /\ q[r].pc = "lastResort"
  BY DEF Walks, ClaimLastResort
<1>2. CASE q' = [q EXCEPT ![r].pc = "lastArm"]
  <2>1. q'[r].pc = "lastArm" /\ q'[r].unusable = q[r].unusable /\ q'[r].retries = q[r].retries
    BY <1>1, <1>2 DEF Walks, Request
  <2>2. Retrying(q'[r]) = 0 /\ Awaits["lastArm"] < Awaits["lastResort"]
    BY <2>1 DEF Retrying, Walking, Awaits
  <2> QED
    BY <1>1, <2>1, <2>2, SpentWaiting DEF Spent
<1>3. CASE q' = [q EXCEPT ![r] = ReturnSummary(q[r])]
  <2>1. q'[r].pc = "done" /\ q'[r].unusable = q[r].unusable /\ q'[r].retries = q[r].retries
    BY <1>1, <1>3 DEF Walks, Request, ReturnSummary, Return
  <2> QED
    BY <1>1, <2>1, SpentAtEnd DEF Spent
<1> QED
  BY <1>2, <1>3 DEF ClaimLastResort, ReturnUnsent

LEMMA SpentArmLastResort ==
  ASSUME Walks, Walks', NEW r \in Requests, ArmLastResort(r) PROVE Spent(r)
<1>1. PICK p \in cooled(q[r]) \ q[r].unusable :
        q' = [q EXCEPT ![r] = AtHop([q[r] EXCEPT !.forcedBy = p, !.chain = <<p>>,
                                                 !.i = 1, !.claimedKey = None])]
  BY DEF ArmLastResort
<1> DEFINE s == [q[r] EXCEPT !.forcedBy = p, !.chain = <<p>>, !.i = 1, !.claimedKey = None]
<1>2. q[r] \in Request /\ q'[r] \in Request /\ q[r].pc = "lastArm" /\ q'[r] = AtHop(s)
  BY <1>1 DEF Walks, ArmLastResort
<1>3. p \in Providers /\ <<p>> \in Seq(Providers)
  BY DEF cooled
<1>4. /\ s \in Request /\ s.unusable = q[r].unusable /\ s.retries = q[r].retries
      /\ s.chain = <<p>> /\ s.i = 1
  BY <1>2, <1>3 DEF Request
<1> HIDE DEF s
<1>5. provider(s) \notin s.unusable
  BY <1>1, <1>4 DEF provider
<1>6. q'[r].pc \in {"claiming", "launching", "done"} /\ Hops(q'[r]) = Untried(s) + s.retries
  BY <1>2, <1>4, <1>5, AtHopHops
<1>7. Untried(s) = Untried(q[r]) /\ Hops(q[r]) = Untried(s) + s.retries /\ Hops(q[r]) \in Nat
  BY <1>2, <1>4, FuelType DEF Untried, Hops, Retrying, Walking
<1>8. Awaits[q'[r].pc] < Awaits["lastArm"]
  BY <1>6 DEF Awaits
<1> QED
  BY <1>2, <1>6, <1>7, <1>8, Spends DEF Spent

\* What a request comes with: six steps, and five more for each provider and each retry.
LEMMA FuelGiven ==
  Init => \A r \in Requests : Fuel(q[r]) = 5 * (Cardinality(Providers) + TerminalRetries) + 6
<1> SUFFICES ASSUME Init, NEW r \in Requests
             PROVE  Fuel(q[r]) = 5 * (Cardinality(Providers) + TerminalRetries) + 6
  OBVIOUS
<1>1. q[r].pc = "new" /\ q[r].unusable = {} /\ q[r].retries = TerminalRetries
  BY DEF Init
<1>2. Providers \ {} = Providers
  OBVIOUS
<1>3. Untried(q[r]) = Cardinality(Providers)
  BY <1>1, <1>2 DEF Untried
<1>4. Retrying(q[r]) = 0 /\ Awaits[q[r].pc] = 6
  BY <1>1 DEF Retrying, Walking, Awaits
<1>5. Cardinality(Providers) \in Nat /\ TerminalRetries \in Nat
  BY ProvidersFinite, FS_CardinalityType, ChainAssumption
<1> QED
  BY <1>1, <1>3, <1>4, <1>5 DEF Fuel, Hops

\* A step of a request spends of its fuel; the time that goes by between its steps
\* spends none, and is bounded.
Lessens(s, t) ==
  /\ Fuel(s) \in Nat /\ Fuel(t) \in Nat
  /\ s.lost \in 0 .. Overhead /\ t.lost \in 0 .. Overhead
  /\ Fuel(t) < Fuel(s) \/ (Fuel(t) = Fuel(s) /\ t.lost > s.lost)

LEMMA WaitSpends ==
  ASSUME Walks, Walks', NEW r \in Requests, Wait(r), q'[r] # q[r]
  PROVE  Fuel(q'[r]) = Fuel(q[r]) /\ q'[r].lost > q[r].lost
<1>1. PICK d \in 1 .. Overhead - q[r].lost : q' = [q EXCEPT ![r] = Late(@, d)]
  BY DEF Wait
<1>2. q[r] \in Request /\ q[r].pc # "done" /\ Sound(q[r]) /\ d \in 0 .. Overhead - q[r].lost
  BY <1>1 DEF Walks, Wait
<1>3. q'[r] = Late(q[r], d)
  BY <1>1 DEF Walks
<1>4. Same(q[r], q'[r]) /\ q'[r].pc = q[r].pc /\ q'[r].lost = q[r].lost + d
  BY <1>2, <1>3, LateSound
<1>5. Fuel(q'[r]) = Fuel(q[r])
  BY <1>4 DEF Same, Fuel, Hops, Untried, Retrying, Walking, provider
<1> QED
  BY <1>1, <1>2, <1>4, <1>5, RequestParts

\* runChain ends, whatever is claimed under it, ranked again and retried: every step of a
\* request spends of the finite store it came with (FuelGiven), and none adds to it.
THEOREM WalksAreFinite ==
  Spec => [][\A r \in Requests : q'[r] # q[r] => Lessens(q[r], q'[r])]_vars
<1>1. ASSUME Walks, Walks', [Next]_vars, NEW r \in Requests, q'[r] # q[r]
      PROVE  Lessens(q[r], q'[r])
  <2>1. q[r] \in Request /\ q'[r] \in Request
    BY <1>1 DEF Walks
  <2>2. PICK o \in Requests : Step(o) \/ Wait(o)
    BY <1>1 DEF Next, Finished, Expire, Forget, vars
  <2>3. r = o
    <3>1. \E t : q' = [q EXCEPT ![o] = t]
      BY <1>1, <2>2, StepGoes, WaitGoes DEF Goes, Walks
    <3> QED
      BY <1>1, <3>1 DEF Walks
  <2>4. Step(r) => Fuel(q'[r]) < Fuel(q[r])
    BY <1>1, SpentStart, SpentFloor, SpentArmFloor, SpentClaim, SpentLaunch,
       SpentGone, SpentReply, SpentLastResort, SpentArmLastResort DEF Step, Spent
  <2>5. Wait(r) => Fuel(q'[r]) = Fuel(q[r]) /\ q'[r].lost > q[r].lost
    BY <1>1, WaitSpends
  <2> QED
    BY <2>1, <2>2, <2>3, <2>4, <2>5, FuelType, RequestParts DEF Lessens
<1>2. Walks /\ Walks' /\ [Next]_vars =>
        [\A r \in Requests : q'[r] # q[r] => Lessens(q[r], q'[r])]_vars
  BY <1>1
<1> QED
  BY <1>2, AlwaysWalks, PTL DEF Spec
=============================================================================
