---------------------------- MODULE Durable_proofs ----------------------------
(***************************************************************************)
(* Proofs about what outlives the process that wrote it: the grants        *)
(* (OAuthGrants) and the database (Database). The two share nothing.       *)
(*                                                                         *)
(* Grants. A family never forks, and stays dead once it is revoked, for    *)
(* any number of grants, refreshes and requests, whatever answers are lost *)
(* and store commands fail. Why it never forks: of each family there is    *)
(* one box that can still be exchanged, or one request that has won an     *)
(* exchange and will seal the next, and a use is remembered for as long as *)
(* its box may be presented. Why it stays dead: when a family is revoked   *)
(* its code has been used, and every request past the check holds a clock  *)
(* from before, so nothing they seal outlives the mark.                    *)
(*                                                                         *)
(* Database. The journal is true because a row and its file are one        *)
(* transaction. Its rows are in the order of the references because what a *)
(* transaction has done already, though nobody else can see it, locks what *)
(* it refers to (Locks). A row of today has its partition, and retention   *)
(* loses no row inside its window, because a week that is not past keeps   *)
(* its partition: the retention job works only on weeks that were past     *)
(* when it listed them, and past weeks stay past; a run that finds a table *)
(* of the name it wants has found that week's partition, as names are      *)
(* distinct.                                                               *)
(***************************************************************************)
EXTENDS OAuthGrants, Database, FiniteSetTheorems, SequenceTheorems, TLAPS

(***************************************************************************)
(* Grants                                                                  *)
(***************************************************************************)

\* The store has forgotten nothing.
Keeps == Shared \/ restarts = 0

CodeOf(f) == <<"code", f>>

SealedSo(b) ==
  /\ b.kind \in Kinds /\ b.family \in Families /\ b.n \in Families \cup Issues
  /\ b.sealed \in Nat /\ b.sealed <= clock
  /\ b.kind = "code" => b.n = b.family

BoxesSealed ==
  /\ clock \in Nat
  /\ \A b \in boxes : SealedSo(b)
  /\ held \subseteq boxes
  /\ \A b, c \in boxes : b.kind \in SingleUse /\ Id(b) = Id(c) => b = c

StoreTyped ==
  /\ until \in [Ids -> Nat] /\ famUntil \in [Families -> Nat]
  /\ revokedOnce \subseteq Families
  /\ restarts \in Nat

Steps == {"idle", "revoked", "claim", "revoke", "issue"}

Presented ==
  /\ pc \in [Requests -> Steps]
  /\ box \in [Requests -> boxes \cup {None}] /\ now \in [Requests -> Nat]
  /\ \A q \in Requests : pc[q] # "idle" =>
       box[q] \in boxes /\ box[q].kind \in SingleUse /\ now[q] <= clock

\* Only what was sealed is used. A family's tokens come from its code, and so does a
\* revocation.
CodeFirst ==
  /\ \A i \in won : \E b \in boxes : Id(b) = i
  /\ \A i \in Ids : until[i] > 0 => i \in won
  /\ \A b \in boxes : b.kind # "code" => CodeOf(b.family) \in won
  /\ \A q \in Requests : pc[q] \in {"revoke", "issue"} => CodeOf(box[q].family) \in won
  /\ \A f \in revokedOnce : CodeOf(f) \in won

\* A use is remembered for as long as its box opens.
Remembered ==
  Keeps => \A b \in boxes :
    b.kind \in SingleUse /\ Id(b) \in won /\ b.family \notin late
      => clock >= End(b) \/ until[Id(b)] >= End(b)

Exchangeable(b, f) ==
  b.family = f /\ b.kind \in SingleUse /\ Id(b) \notin won /\ clock < End(b)

Wins(q, f) == pc[q] = "issue" /\ box[q].family = f

\* One box that can be exchanged, or one request that will seal the next.
OneLine ==
  Keeps => \A f \in Families \ late :
    /\ \A b, c \in boxes : Exchangeable(b, f) /\ Exchangeable(c, f) => b = c
    /\ \A q, s \in Requests : Wins(q, f) /\ Wins(s, f) => q = s
    /\ \A q \in Requests, b \in boxes : ~(Wins(q, f) /\ Exchangeable(b, f))

\* A moment by which the mark that revokes a family is still there, or is past.
Over(t, f) == t <= clock \/ t <= famUntil[f]

\* What a revoked family has left, and what requests under way can add to it.
Doomed ==
  Keeps => \A f \in revokedOnce \ late :
    /\ \A b \in boxes : b.family = f => Over(End(b), f)
    /\ \A q \in Requests : Wins(q, f) => Over(now[q] + REFRESH_TTL, f)
    /\ \A q \in Requests : pc[q] = "claim" /\ box[q].family = f =>
         Over(now[q] + REFRESH_TTL, f) \/ Id(box[q]) \in won \/ clock >= End(box[q])

Inv1 == BoxesSealed /\ StoreTyped /\ Presented
Inv2 == CodeFirst /\ Remembered
IInv == Inv1 /\ Inv2 /\ OneLine /\ Doomed

LEMMA Ttls ==
  /\ \A k \in Kinds : Ttl(k) \in Nat \ {0} /\ Ttl(k) <= REFRESH_TTL /\ RememberFor(k) = Ttl(k)
  /\ REFRESH_TTL \in Nat /\ RevokeFor = REFRESH_TTL
BY GrantsAssumption DEF Kinds, Ttl, RememberFor, RevokeFor

\* A box's end, and its name in the store.
LEMMA Boxes ==
  ASSUME Inv1, NEW b \in boxes
  PROVE  /\ b.kind \in Kinds /\ b.family \in Families
         /\ b.sealed \in Nat /\ b.sealed <= clock
         /\ End(b) \in Nat /\ End(b) <= b.sealed + REFRESH_TTL /\ End(b) = b.sealed + Ttl(b.kind)
         /\ b.kind \in SingleUse => Id(b) \in Ids
         /\ b.kind = "code" => Id(b) = CodeOf(b.family)
<1>1. SealedSo(b)
  BY DEF Inv1, BoxesSealed
<1>2. Ttl(b.kind) \in Nat /\ Ttl(b.kind) <= REFRESH_TTL
  BY <1>1, Ttls DEF SealedSo
<1>3. clock \in Nat
  BY DEF Inv1, BoxesSealed
<1>4. b.kind \in SingleUse => Id(b) \in Ids
  BY <1>1 DEF SealedSo, Id, Ids
<1>5. b.kind = "code" => Id(b) = CodeOf(b.family)
  BY <1>1 DEF SealedSo, Id, CodeOf
<1> QED
  BY <1>1, <1>2, <1>3, <1>4, <1>5, Ttls DEF SealedSo, End

LEMMA InitInv == Init => IInv
<1> SUFFICES ASSUME Init PROVE IInv
  OBVIOUS
<1>1. BoxesSealed
  BY DEF Init, BoxesSealed
<1>2. StoreTyped
  BY DEF Init, StoreTyped
<1>3. Presented
  BY DEF Init, Presented, Steps
<1>4. CodeFirst /\ Remembered
  BY DEF Init, CodeFirst, Remembered
<1>5. OneLine /\ Doomed
  BY DEF Init, OneLine, Doomed, Wins
<1> QED
  BY <1>1, <1>2, <1>3, <1>4, <1>5 DEF IInv, Inv1, Inv2

-----------------------------------------------------------------------------
\* Request q is at a step, and the others are where they were.
Stands(q, step) ==
  /\ pc' \in [Requests -> Steps] /\ pc'[q] = step
  /\ box' \in [Requests -> boxes' \cup {None}] /\ now' \in [Requests -> Nat]
  /\ \A s \in Requests : s # q => pc'[s] = pc[s] /\ box'[s] = box[s] /\ now'[s] = now[s]

LEMMA DoneStands ==
  ASSUME Inv1, NEW q \in Requests, Done(q), boxes \subseteq boxes'
  PROVE  Stands(q, "idle")
BY DEF Inv1, Presented, Done, Stands, Steps

LEMMA GotoStands ==
  ASSUME Inv1, NEW q \in Requests, NEW step \in Steps, Goto(q, step),
         UNCHANGED <<boxes, box, now>>
  PROVE  Stands(q, step) /\ box'[q] = box[q] /\ now'[q] = now[q]
BY DEF Inv1, Presented, Goto, Stands, Steps

\* A request moves, and nothing else does.
LEMMA MovesKeepsInv ==
  ASSUME IInv, NEW q \in Requests, NEW step \in {"idle", "revoked", "claim"}, Stands(q, step),
         UNCHANGED <<clock, boxes, store, restarts>>, held' \subseteq boxes,
         step # "idle" => box'[q] \in boxes /\ box'[q].kind \in SingleUse /\ now'[q] <= clock,
         step = "claim" /\ Keeps => \A f \in revokedOnce \ late : box'[q].family = f =>
           Over(now'[q] + REFRESH_TTL, f) \/ Id(box'[q]) \in won \/ clock >= End(box'[q])
  PROVE  IInv'
<1>1. BoxesSealed' /\ StoreTyped'
  BY DEF IInv, Inv1, BoxesSealed, StoreTyped, SealedSo, store
<1>2. Presented'
  BY DEF IInv, Inv1, Presented, Stands
<1>3. CodeFirst'
  BY DEF IInv, Inv2, CodeFirst, Stands, store
<1>4. Remembered'
  BY DEF IInv, Inv2, Remembered, Keeps, store
<1>5. \A s \in Requests, f \in Families : Wins(s, f)' => Wins(s, f) /\ s # q
  BY DEF Wins, Stands
<1>6. \A b, f : Exchangeable(b, f)' <=> Exchangeable(b, f)
  BY DEF Exchangeable, store
<1>7. OneLine'
  BY <1>5, <1>6 DEF IInv, OneLine, Keeps, store
<1>8. \A t, f : Over(t, f)' <=> Over(t, f)
  BY DEF Over, store
<1>9. Doomed'
  <2> SUFFICES ASSUME Keeps, NEW f \in revokedOnce \ late
               PROVE  /\ \A b \in boxes : b.family = f => Over(End(b), f)
                      /\ \A s \in Requests : Wins(s, f)' => Over(now'[s] + REFRESH_TTL, f)
                      /\ \A s \in Requests : pc'[s] = "claim" /\ box'[s].family = f =>
                           \/ Over(now'[s] + REFRESH_TTL, f)
                           \/ Id(box'[s]) \in won \/ clock >= End(box'[s])
    BY <1>8 DEF Doomed, Keeps, store
  <2>1. \A b \in boxes : b.family = f => Over(End(b), f)
    BY DEF IInv, Doomed
  <2>2. f \in Families
    BY DEF IInv, Inv1, StoreTyped
  <2>3. \A s \in Requests : Wins(s, f)' => Over(now'[s] + REFRESH_TTL, f)
    BY <1>5, <2>2 DEF IInv, Doomed, Stands
  <2>4. ASSUME NEW s \in Requests, pc'[s] = "claim", box'[s].family = f
        PROVE  Over(now'[s] + REFRESH_TTL, f) \/ Id(box'[s]) \in won \/ clock >= End(box'[s])
    <3>1. CASE s = q
      BY <2>4, <3>1 DEF Stands
    <3>2. CASE s # q
      BY <2>4, <3>2 DEF IInv, Doomed, Stands
    <3> QED
      BY <3>1, <3>2
  <2> QED
    BY <2>1, <2>3, <2>4
<1> QED
  BY <1>1, <1>2, <1>3, <1>4, <1>7, <1>9 DEF IInv, Inv1, Inv2

-----------------------------------------------------------------------------
\* A use is asked for that the store remembers: nothing is recorded.
LEMMA UsedKeepsInv ==
  ASSUME IInv, NEW q \in Requests, pc[q] = "claim", Live(until[Id(box[q])]),
         NEW step \in {"idle", "revoke"}, Stands(q, step),
         step = "revoke" => box'[q] = box[q] /\ now'[q] = now[q],
         UNCHANGED <<clock, boxes, store, restarts, held>>
  PROVE  IInv'
<1>1. box[q] \in boxes /\ box[q].kind \in SingleUse /\ now[q] <= clock
  BY DEF IInv, Inv1, Presented
<1>2. Id(box[q]) \in Ids /\ Id(box[q]) \in won
  <2>1. Id(box[q]) \in Ids
    BY <1>1, Boxes DEF IInv
  <2>2. until[Id(box[q])] > 0
    BY <2>1 DEF Live, IInv, Inv1, StoreTyped, BoxesSealed
  <2> QED
    BY <2>1, <2>2 DEF IInv, Inv2, CodeFirst
<1>3. CodeOf(box[q].family) \in won
  BY <1>1, <1>2, Boxes DEF IInv, Inv2, CodeFirst
<1>4. BoxesSealed' /\ StoreTyped'
  BY DEF IInv, Inv1, BoxesSealed, StoreTyped, SealedSo, store
<1>5. Presented'
  BY <1>1 DEF IInv, Inv1, Presented, Stands
<1>6. CodeFirst'
  BY <1>3 DEF IInv, Inv2, CodeFirst, Stands, store
<1>7. Remembered'
  BY DEF IInv, Inv2, Remembered, Keeps, store
<1>8. \A s \in Requests, f \in Families : Wins(s, f)' => Wins(s, f) /\ s # q
  BY DEF Wins, Stands
<1>9. \A b, f : Exchangeable(b, f)' <=> Exchangeable(b, f)
  BY DEF Exchangeable, store
<1>10. OneLine'
  BY <1>8, <1>9 DEF IInv, OneLine, Keeps, store
<1>11. \A t, f : Over(t, f)' <=> Over(t, f)
  BY DEF Over, store
<1>12. revokedOnce \subseteq Families
  BY DEF IInv, Inv1, StoreTyped
<1>13. Doomed'
  BY <1>8, <1>11, <1>12 DEF IInv, Doomed, Keeps, Stands, store
<1> QED
  BY <1>4, <1>5, <1>6, <1>7, <1>10, <1>13 DEF IInv, Inv1, Inv2

\* A first use is recorded, and wins; or its answer is lost.
LEMMA FirstKeepsInv ==
  ASSUME IInv, NEW q \in Requests, pc[q] = "claim", ~Live(until[Id(box[q])]), Record(q),
         NEW step \in {"idle", "issue"}, Stands(q, step),
         step = "issue" => box'[q] = box[q] /\ now'[q] = now[q],
         UNCHANGED <<clock, boxes, restarts, held>>
  PROVE  IInv'
<1>1. box[q] \in boxes /\ box[q].kind \in SingleUse /\ now[q] <= clock /\ now[q] \in Nat
  BY DEF IInv, Inv1, Presented
<1>2. PICK b \in boxes : b = box[q]
  BY <1>1
<1>3. PICK id \in Ids : id = Id(b)
  BY <1>1, <1>2, Boxes DEF IInv
<1>4. /\ until' = [until EXCEPT ![id] = clock + Ttl(b.kind)]
      /\ won' = won \cup {id}
      /\ late' = IF clock < End(b) THEN late ELSE late \cup {b.family}
      /\ famUntil' = famUntil /\ revokedOnce' = revokedOnce
  BY <1>1, <1>2, <1>3, Ttls, Boxes DEF Record, IInv
<1>5. clock \in Nat /\ End(b) \in Nat /\ clock + Ttl(b.kind) \in Nat
      /\ clock + Ttl(b.kind) >= End(b) /\ clock + Ttl(b.kind) > 0 /\ b.family \in Families
  BY Boxes, Ttls DEF IInv, Inv1, BoxesSealed
<1>6. /\ until'[id] = clock + Ttl(b.kind)
      /\ \A i \in Ids : i # id => until'[i] = until[i]
      /\ until' \in [Ids -> Nat]
  BY <1>4, <1>5 DEF IInv, Inv1, StoreTyped
<1>7. BoxesSealed' /\ StoreTyped'
  BY <1>4, <1>6 DEF IInv, Inv1, BoxesSealed, StoreTyped, SealedSo
<1>8. Presented'
  BY <1>1 DEF IInv, Inv1, Presented, Stands
<1>9. CodeOf(b.family) \in won'
  <2>1. CASE b.kind = "code"
    BY <2>1, <1>3, <1>4, Boxes DEF IInv
  <2>2. CASE b.kind # "code"
    BY <2>2, <1>4 DEF IInv, Inv2, CodeFirst
  <2> QED
    BY <2>1, <2>2
<1>10. CodeFirst'
  BY <1>2, <1>3, <1>4, <1>6, <1>9 DEF IInv, Inv2, CodeFirst, Stands
\* Another box has another name.
<1>11. \A c \in boxes : c.kind \in SingleUse /\ Id(c) = id => c = b
  BY <1>1, <1>2, <1>3 DEF IInv, Inv1, BoxesSealed
<1>12. \A c \in boxes : c.kind \in SingleUse => Id(c) \in Ids /\ End(c) \in Nat
  BY Boxes DEF IInv
<1>13. late \subseteq late'
  BY <1>4
<1>14. Remembered'
  <2> SUFFICES ASSUME Keeps, NEW c \in boxes, c.kind \in SingleUse, Id(c) \in won', c.family \notin late'
               PROVE  clock >= End(c) \/ until'[Id(c)] >= End(c)
    BY DEF Remembered, Keeps
  <2>1. CASE Id(c) = id
    BY <2>1, <1>5, <1>6, <1>11
  <2>2. CASE Id(c) # id
    BY <2>2, <1>4, <1>6, <1>12, <1>13 DEF IInv, Inv2, Remembered
  <2> QED
    BY <2>1, <2>2
\* If the box has not expired, it was the one that could be exchanged.
<1>15. ASSUME Keeps, b.family \notin late'
       PROVE  Exchangeable(b, b.family) /\ id \notin won /\ clock < End(b)
  <2>1. clock < End(b) /\ b.family \notin late
    BY <1>4, <1>5, <1>15
  <2>2. ~(until[id] > clock)
    BY <1>2, <1>3 DEF Live
  <2>3. until[id] \in Nat
    BY DEF IInv, Inv1, StoreTyped
  <2>4. id \notin won
    BY <1>1, <1>2, <1>3, <1>5, <1>15, <2>1, <2>2, <2>3 DEF IInv, Inv2, Remembered
  <2> QED
    BY <1>1, <1>2, <1>3, <2>1, <2>4 DEF Exchangeable
<1>16. \A c, f : Exchangeable(c, f)' => Exchangeable(c, f) /\ Id(c) # id
  BY <1>4 DEF Exchangeable
<1>17. \A s \in Requests : \A f : Wins(s, f)' => (s # q /\ Wins(s, f)) \/ (s = q /\ f = b.family)
  BY <1>2 DEF Wins, Stands
<1>18. OneLine'
  <2> SUFFICES ASSUME Keeps, NEW f \in Families \ late'
               PROVE  /\ \A c, d \in boxes : Exchangeable(c, f)' /\ Exchangeable(d, f)' => c = d
                      /\ \A s, t \in Requests : Wins(s, f)' /\ Wins(t, f)' => s = t
                      /\ \A s \in Requests, c \in boxes : ~(Wins(s, f)' /\ Exchangeable(c, f)')
    BY DEF OneLine, Keeps
  <2>1. /\ \A c, d \in boxes : Exchangeable(c, f) /\ Exchangeable(d, f) => c = d
        /\ \A s, t \in Requests : Wins(s, f) /\ Wins(t, f) => s = t
        /\ \A s \in Requests, c \in boxes : ~(Wins(s, f) /\ Exchangeable(c, f))
    BY <1>13 DEF IInv, OneLine
  <2>2. CASE f = b.family
    <3>1. Exchangeable(b, f)
      BY <1>15, <2>2
    <3>2. \A c \in boxes : ~Exchangeable(c, f)'
      BY <1>3, <1>16, <2>1, <3>1
    <3>3. \A s \in Requests : ~Wins(s, f)
      BY <2>1, <3>1
    <3> QED
      BY <1>17, <3>2, <3>3
  <2>3. CASE f # b.family
    BY <1>16, <1>17, <2>1, <2>3
  <2> QED
    BY <2>2, <2>3
<1>19. \A t, f : Over(t, f)' <=> Over(t, f)
  BY <1>4 DEF Over
<1>20. Doomed'
  <2> SUFFICES ASSUME Keeps, NEW f \in revokedOnce, f \notin late'
               PROVE  /\ \A c \in boxes : c.family = f => Over(End(c), f)
                      /\ \A s \in Requests : Wins(s, f)' => Over(now'[s] + REFRESH_TTL, f)
                      /\ \A s \in Requests : pc'[s] = "claim" /\ box'[s].family = f =>
                           \/ Over(now'[s] + REFRESH_TTL, f)
                           \/ Id(box'[s]) \in won' \/ clock >= End(box'[s])
    BY <1>4, <1>19 DEF Doomed, Keeps
  <2>1. f \notin late
    BY <1>13
  <2>2. \A c \in boxes : c.family = f => Over(End(c), f)
    BY <2>1 DEF IInv, Doomed
  <2>3. ASSUME NEW s \in Requests, Wins(s, f)' PROVE Over(now'[s] + REFRESH_TTL, f)
    <3>1. CASE s # q
      BY <1>17, <2>1, <2>3, <3>1 DEF IInv, Doomed, Stands
    <3>2. CASE s = q
      <4>1. f = b.family /\ step = "issue" /\ now'[q] = now[q]
        BY <1>17, <2>3, <3>2 DEF Wins, Stands
      <4>2. ~(clock >= End(b)) /\ id \notin won
        BY <1>5, <1>15, <4>1
      <4>3. Over(now[q] + REFRESH_TTL, f)
        BY <1>2, <1>3, <2>1, <4>1, <4>2 DEF IInv, Doomed
      <4> QED
        BY <3>2, <4>1, <4>3
    <3> QED
      BY <3>1, <3>2
  <2>4. ASSUME NEW s \in Requests, pc'[s] = "claim", box'[s].family = f
        PROVE  Over(now'[s] + REFRESH_TTL, f) \/ Id(box'[s]) \in won' \/ clock >= End(box'[s])
    <3>1. s # q
      BY <2>4 DEF Stands
    <3>2. pc[s] = "claim" /\ box[s].family = f /\ box'[s] = box[s] /\ now'[s] = now[s]
      BY <2>4, <3>1 DEF Stands
    <3> QED
      BY <1>4, <2>1, <3>2 DEF IInv, Doomed
  <2> QED
    BY <2>2, <2>3, <2>4
<1> QED
  BY <1>7, <1>8, <1>10, <1>14, <1>18, <1>20 DEF IInv, Inv1, Inv2

\* A family is revoked: what it has left, and what requests add, is older than the mark.
LEMMA MarkKeepsInv ==
  ASSUME IInv, NEW q \in Requests, pc[q] = "revoke", Mark(q), Stands(q, "idle"),
         UNCHANGED <<clock, boxes, restarts, held>>
  PROVE  IInv'
<1>1. box[q] \in boxes
  BY DEF IInv, Inv1, Presented
<1>2. PICK g \in Families : g = box[q].family
  BY <1>1, Boxes DEF IInv
<1>3. /\ famUntil' = [famUntil EXCEPT ![g] = clock + REFRESH_TTL]
      /\ revokedOnce' = revokedOnce \cup {g}
      /\ UNCHANGED <<until, won, late>>
  BY <1>2, Ttls DEF Mark
<1>4. clock \in Nat /\ clock + REFRESH_TTL \in Nat
  BY Ttls DEF IInv, Inv1, BoxesSealed
<1>5. /\ famUntil' \in [Families -> Nat] /\ famUntil'[g] = clock + REFRESH_TTL
      /\ \A f \in Families : f # g => famUntil'[f] = famUntil[f]
  BY <1>3, <1>4 DEF IInv, Inv1, StoreTyped
<1>6. BoxesSealed' /\ StoreTyped'
  BY <1>3, <1>5 DEF IInv, Inv1, BoxesSealed, StoreTyped, SealedSo
<1>7. Presented'
  BY DEF IInv, Inv1, Presented, Stands
<1>8. CodeFirst'
  BY <1>2, <1>3 DEF IInv, Inv2, CodeFirst, Stands
<1>9. Remembered'
  BY <1>3 DEF IInv, Inv2, Remembered, Keeps
<1>10. \A s \in Requests : \A f : Wins(s, f)' => Wins(s, f) /\ s # q
  BY DEF Wins, Stands
<1>11. \A b, f : Exchangeable(b, f)' <=> Exchangeable(b, f)
  BY <1>3 DEF Exchangeable
<1>12. OneLine'
  BY <1>3, <1>10, <1>11 DEF IInv, OneLine, Keeps
<1>13. \A s \in Requests : pc'[s] # "idle" =>
         now'[s] \in Nat /\ now'[s] <= clock /\ s # q
  BY DEF IInv, Inv1, Presented, Stands
<1>14. Doomed'
  <2> SUFFICES ASSUME Keeps, NEW f \in revokedOnce', f \notin late
               PROVE  /\ \A b \in boxes : b.family = f => Over(End(b), f)'
                      /\ \A s \in Requests : Wins(s, f)' => Over(now[s] + REFRESH_TTL, f)'
                      /\ \A s \in Requests : pc'[s] = "claim" /\ box'[s].family = f =>
                           \/ Over(now[s] + REFRESH_TTL, f)'
                           \/ Id(box'[s]) \in won \/ clock >= End(box'[s])
    BY <1>3 DEF Doomed, Keeps
  <2>1. CASE f = g
    <3>1. \A b \in boxes : End(b) <= clock + REFRESH_TTL
      BY <1>4, Boxes, Ttls DEF IInv
    <3>2. \A s \in Requests : pc'[s] # "idle" => now'[s] + REFRESH_TTL <= clock + REFRESH_TTL
      BY <1>4, <1>13, Ttls
    <3> QED
      BY <2>1, <1>5, <3>1, <3>2 DEF Over, Wins
  <2>2. CASE f # g
    <3>1. f \in revokedOnce /\ f \in Families
      BY <2>2, <1>3 DEF IInv, Inv1, StoreTyped
    <3>2. \A t : Over(t, f)' <=> Over(t, f)
      BY <2>2, <3>1, <1>5 DEF Over
    <3> QED
      BY <1>10, <3>1, <3>2 DEF IInv, Doomed, Stands
  <2> QED
    BY <2>1, <2>2
<1> QED
  BY <1>6, <1>7, <1>8, <1>9, <1>12, <1>14 DEF IInv, Inv1, Inv2

\* The winner seals the family's next tokens, as of the moment it began.
LEMMA IssueKeepsInv ==
  ASSUME IInv, NEW q \in Requests, Issue(q)
  PROVE  IInv'
<1>1. /\ pc[q] = "issue" /\ Done(q)
      /\ UNCHANGED <<clock, store, restarts>>
  BY DEF Issue
<1>2. box[q] \in boxes /\ box[q].kind \in SingleUse /\ now[q] <= clock /\ now[q] \in Nat
  BY <1>1 DEF IInv, Inv1, Presented
<1>3. CASE denied \/ Unissued = {}
  <2>1. UNCHANGED <<boxes, held>>
    BY <1>3 DEF Issue
  <2>2. Stands(q, "idle")
    BY <1>1, <2>1, DoneStands DEF IInv
  <2>3. held' \subseteq boxes
    BY <2>1 DEF IInv, Inv1, BoxesSealed
  <2> QED
    BY <1>1, <2>1, <2>2, <2>3, MovesKeepsInv
<1>4. CASE ~denied /\ Unissued # {}
  <2>1. PICK a, r : a = Token(q, "access") /\ r = Token(q, "refresh")
    OBVIOUS
  <2>2. boxes' = boxes \cup {a, r} /\ (held' = held \/ held' = held \cup {a, r})
    BY <1>4, <2>1 DEF Issue
  <2>3. PICK n \in Unissued : n = CHOOSE m \in Unissued : TRUE
    BY <1>4
  <2>4. /\ a.kind = "access" /\ a.family = box[q].family /\ a.sealed = now[q] /\ a.n = n
        /\ r.kind = "refresh" /\ r.family = box[q].family /\ r.sealed = now[q] /\ r.n = n
    BY <2>1, <2>3 DEF Token
  <2>5. n \in Issues /\ \A b \in boxes : b.kind = "code" \/ b.n # n
    BY DEF Unissued
  <2>6. PICK g \in Families : g = box[q].family
    BY <1>2, Boxes DEF IInv
  <2>7. SealedSo(a) /\ SealedSo(r)
    BY <1>2, <2>4, <2>5, <2>6 DEF SealedSo, Kinds
  <2>8. \A b \in boxes : b.kind \in SingleUse => Id(b) # Id(r)
    BY <2>4, <2>5 DEF Id
  <2>9. BoxesSealed'
    <3>1. \A b \in boxes' : SealedSo(b)'
      BY <1>1, <2>2, <2>7 DEF IInv, Inv1, BoxesSealed, SealedSo
    <3>2. a.kind \notin SingleUse
      BY <2>4 DEF SingleUse
    <3>3. ASSUME NEW b \in boxes', NEW c \in boxes', b.kind \in SingleUse, Id(b) = Id(c)
          PROVE  b = c
      <4>1. c.kind \in SingleUse
        BY <3>3 DEF Id
      <4> QED
        BY <2>2, <2>8, <3>2, <3>3, <4>1 DEF IInv, Inv1, BoxesSealed
    <3>4. held' \subseteq boxes' /\ clock' \in Nat
      BY <1>1, <2>2 DEF IInv, Inv1, BoxesSealed
    <3> QED
      BY <3>1, <3>3, <3>4 DEF BoxesSealed
  <2>10. StoreTyped'
    BY <1>1 DEF IInv, Inv1, StoreTyped, store
  <2>11. Stands(q, "idle")
    BY <1>1, <2>2, DoneStands DEF IInv
  <2>12. Presented'
    BY <1>1, <2>2, <2>11 DEF IInv, Inv1, Presented, Stands
  <2>13. CodeOf(g) \in won
    BY <1>1, <2>6 DEF IInv, Inv2, CodeFirst
  <2>14. CodeFirst'
    BY <1>1, <2>2, <2>4, <2>6, <2>11, <2>13 DEF IInv, Inv2, CodeFirst, Stands, store
  <2>15. r.kind \in SingleUse /\ a.kind \notin SingleUse
    BY <2>4 DEF SingleUse
  <2>16. Remembered'
    <3>1. Id(r) \notin won
      BY <2>8, <2>15 DEF IInv, Inv2, CodeFirst, Id
    <3> QED
      BY <1>1, <2>2, <2>15, <3>1 DEF IInv, Inv2, Remembered, Keeps, store
  <2>17. \A s \in Requests : \A f : Wins(s, f)' => Wins(s, f) /\ s # q
    BY <2>11 DEF Wins, Stands
  <2>18. \A b, f : Exchangeable(b, f)' <=> Exchangeable(b, f)
    BY <1>1 DEF Exchangeable, store
  <2>19. OneLine'
    <3> SUFFICES ASSUME Keeps, NEW f \in Families \ late
                 PROVE  /\ \A c, d \in boxes' : Exchangeable(c, f) /\ Exchangeable(d, f) => c = d
                        /\ \A s, t \in Requests : Wins(s, f)' /\ Wins(t, f)' => s = t
                        /\ \A s \in Requests, c \in boxes' : ~(Wins(s, f)' /\ Exchangeable(c, f))
      BY <1>1, <2>18 DEF OneLine, Keeps, store
    <3>1. /\ \A c, d \in boxes : Exchangeable(c, f) /\ Exchangeable(d, f) => c = d
          /\ \A s, t \in Requests : Wins(s, f) /\ Wins(t, f) => s = t
          /\ \A s \in Requests, c \in boxes : ~(Wins(s, f) /\ Exchangeable(c, f))
      BY DEF IInv, OneLine
    <3>2. ~Exchangeable(a, f) /\ (Exchangeable(r, f) => f = g)
      BY <2>4, <2>6, <2>15 DEF Exchangeable
    <3>3. CASE f = g
      <4>1. Wins(q, f)
        BY <1>1, <2>6, <3>3 DEF Wins
      <4>2. (\A c \in boxes : ~Exchangeable(c, f)) /\ (\A s \in Requests : ~Wins(s, f)')
        BY <2>17, <3>1, <4>1
      <4> QED
        BY <2>2, <3>2, <4>2
    <3>4. CASE f # g
      BY <2>2, <2>17, <3>1, <3>2, <3>4
    <3> QED
      BY <3>3, <3>4
  <2>20. \A t, f : Over(t, f)' <=> Over(t, f)
    BY <1>1 DEF Over, store
  <2>21. End(a) \in Nat /\ End(r) \in Nat /\ End(a) <= now[q] + REFRESH_TTL /\ End(r) <= now[q] + REFRESH_TTL
    BY <1>2, <2>4, Ttls DEF End, Kinds
  <2>22. ASSUME Keeps, NEW f \in revokedOnce, f \notin late PROVE
           /\ \A b \in boxes' : b.family = f => Over(End(b), f)
           /\ \A s \in Requests : Wins(s, f)' => Over(now'[s] + REFRESH_TTL, f)
           /\ \A s \in Requests : pc'[s] = "claim" /\ box'[s].family = f =>
                \/ Over(now'[s] + REFRESH_TTL, f)
                \/ Id(box'[s]) \in won \/ clock >= End(box'[s])
    <3>1. f = g => Over(now[q] + REFRESH_TTL, f)
      BY <1>1, <2>6, <2>22 DEF IInv, Doomed, Wins
    <3>2. f = g => Over(End(a), f) /\ Over(End(r), f)
      <4>1. clock \in Nat /\ famUntil[f] \in Nat
        BY <2>22 DEF IInv, Inv1, BoxesSealed, StoreTyped
      <4> QED
        BY <1>2, <2>21, <3>1, <4>1, Ttls DEF Over
    <3>3. \A b \in boxes' : b.family = f => Over(End(b), f)
      BY <2>2, <2>4, <2>6, <2>22, <3>2 DEF IInv, Doomed
    <3> QED
      BY <2>11, <2>17, <2>22, <3>3 DEF IInv, Doomed, Stands
  <2>23. Doomed'
    BY <1>1, <2>20, <2>22 DEF Doomed, Keeps, store
  <2> QED
    BY <2>9, <2>10, <2>12, <2>14, <2>16, <2>19, <2>23 DEF IInv, Inv1, Inv2
<1> QED
  BY <1>3, <1>4

\* A code opens a family nobody has a box of.
LEMMA FinishAuthorizeKeepsInv == ASSUME IInv, FinishAuthorize PROVE IInv'
<1> DEFINE Mints(g, c) == /\ c = [kind |-> "code", n |-> g, family |-> g, sealed |-> clock]
                          /\ boxes' = boxes \cup {c} /\ held' = held \cup {c}
<1>0. PICK g \in Families \ {b.family : b \in boxes} : \E c : Mints(g, c)
  BY DEF FinishAuthorize
<1>1. PICK c : Mints(g, c)
  BY <1>0
<1>2. UNCHANGED <<clock, store, requests, restarts>>
  BY DEF FinishAuthorize
<1>3. c.kind = "code" /\ c.n = g /\ c.family = g /\ c.sealed = clock /\ Id(c) = CodeOf(g)
  BY <1>1 DEF Id, CodeOf
<1>4. \A b \in boxes : b.family # g
  BY <1>1
<1>5. \A b \in boxes : Id(b) # Id(c)
  BY <1>3, <1>4 DEF IInv, Inv1, BoxesSealed, SealedSo, Id
<1>6. BoxesSealed'
  BY <1>1, <1>2, <1>3, <1>5 DEF IInv, Inv1, BoxesSealed, SealedSo, Kinds
<1>7. StoreTyped' /\ Presented'
  BY <1>1, <1>2 DEF IInv, Inv1, StoreTyped, Presented, store, requests
<1>8. CodeFirst'
  BY <1>1, <1>2, <1>3 DEF IInv, Inv1, Presented, Inv2, CodeFirst, store, requests
<1>9. Id(c) \notin won
  BY <1>5 DEF IInv, Inv2, CodeFirst
<1>10. Remembered'
  BY <1>1, <1>2, <1>9 DEF IInv, Inv2, Remembered, Keeps, store
<1>11. \A s \in Requests : \A f : Wins(s, f)' => Wins(s, f) /\ f # g
  BY <1>2, <1>4 DEF Wins, requests, IInv, Inv1, Presented
<1>12. \A b, f : Exchangeable(b, f)' <=> Exchangeable(b, f)
  BY <1>2 DEF Exchangeable, store
<1>13. \A f : (\A b \in boxes : Exchangeable(b, f) => f # g) /\ (Exchangeable(c, f) => f = g)
  BY <1>3, <1>4 DEF Exchangeable
<1>14. OneLine'
  <2> SUFFICES ASSUME Keeps, NEW f \in Families \ late
               PROVE  /\ \A b, d \in boxes' : Exchangeable(b, f) /\ Exchangeable(d, f) => b = d
                      /\ \A s, t \in Requests : Wins(s, f)' /\ Wins(t, f)' => s = t
                      /\ \A s \in Requests, b \in boxes' : ~(Wins(s, f)' /\ Exchangeable(b, f))
    BY <1>2, <1>12 DEF OneLine, Keeps, store
  <2>1. /\ \A b, d \in boxes : Exchangeable(b, f) /\ Exchangeable(d, f) => b = d
        /\ \A s, t \in Requests : Wins(s, f) /\ Wins(t, f) => s = t
        /\ \A s \in Requests, b \in boxes : ~(Wins(s, f) /\ Exchangeable(b, f))
    BY DEF IInv, OneLine
  <2> QED
    BY <1>1, <1>11, <1>13, <2>1
<1>15. g \notin revokedOnce
  <2>1. CodeOf(g) \notin won
    BY <1>3, <1>9
  <2> QED
    BY <2>1 DEF IInv, Inv2, CodeFirst
<1>16. \A t, f : Over(t, f)' <=> Over(t, f)
  BY <1>2 DEF Over, store
<1>17. Doomed'
  BY <1>1, <1>2, <1>3, <1>11, <1>15, <1>16 DEF IInv, Doomed, Keeps, store, requests
<1> QED
  BY <1>6, <1>7, <1>8, <1>10, <1>14, <1>17 DEF IInv, Inv1, Inv2

\* The requests end; a store that forgets is not spoken of any more.
LEMMA RestartKeepsInv == ASSUME IInv, Restart PROVE IInv'
<1>1. /\ UNCHANGED <<clock, boxes, held, won, late, revokedOnce>>
      /\ restarts' = restarts + 1 /\ restarts \in Nat
      /\ \A s \in Requests : pc'[s] = "idle"
  BY DEF Restart, IInv, Inv1, StoreTyped
<1>2. CASE Shared
  <2>1. UNCHANGED <<until, famUntil>>
    BY <1>2 DEF Restart
  <2>2. BoxesSealed' /\ StoreTyped'
    BY <1>1, <2>1 DEF IInv, Inv1, BoxesSealed, StoreTyped, SealedSo
  <2>3. Presented'
    BY <1>1 DEF IInv, Inv1, Presented, Restart, Steps
  <2>4. CodeFirst'
    BY <1>1, <2>1 DEF IInv, Inv2, CodeFirst
  <2>5. Keeps
    BY <1>2 DEF Keeps
  <2>6. Remembered'
    BY <1>1, <2>1, <2>5 DEF IInv, Inv2, Remembered
  <2>7. \A b, f : Exchangeable(b, f)' <=> Exchangeable(b, f)
    BY <1>1 DEF Exchangeable
  <2>8. \A t, f : Over(t, f)' <=> Over(t, f)
    BY <1>1, <2>1 DEF Over
  <2>9. OneLine'
    BY <1>1, <2>5, <2>7 DEF IInv, OneLine, Wins
  <2>10. Doomed'
    BY <1>1, <2>5, <2>8 DEF IInv, Doomed, Wins
  <2> QED
    BY <2>2, <2>3, <2>4, <2>6, <2>9, <2>10 DEF IInv, Inv1, Inv2
<1>3. CASE ~Shared
  <2>1. until' = [i \in Ids |-> 0] /\ famUntil' = [f \in Families |-> 0]
    BY <1>3 DEF Restart
  <2>2. BoxesSealed' /\ StoreTyped'
    BY <1>1, <2>1 DEF IInv, Inv1, BoxesSealed, StoreTyped, SealedSo
  <2>3. Presented'
    BY <1>1 DEF IInv, Inv1, Presented, Restart, Steps
  <2>4. CodeFirst'
    BY <1>1, <2>1 DEF IInv, Inv2, CodeFirst
  <2>5. ~Keeps'
    BY <1>1, <1>3 DEF Keeps
  <2>6. Remembered' /\ OneLine' /\ Doomed'
    BY <2>5 DEF Remembered, OneLine, Doomed
  <2> QED
    BY <2>2, <2>3, <2>4, <2>6 DEF IInv, Inv1, Inv2
<1> QED
  BY <1>2, <1>3

\* What is forgotten is over.
LEMMA TickKeepsInv == ASSUME IInv, Tick PROVE IInv'
<1>1. /\ clock' = clock + 1 /\ clock \in Nat
      /\ until' = [i \in Ids |-> IF until[i] > clock' THEN until[i] ELSE 0]
      /\ famUntil' = [f \in Families |-> IF famUntil[f] > clock' THEN famUntil[f] ELSE 0]
      /\ UNCHANGED <<boxes, held, won, late, revokedOnce, requests, restarts>>
  BY DEF Tick, IInv, Inv1, BoxesSealed
<1>2. BoxesSealed'
  BY <1>1 DEF IInv, Inv1, BoxesSealed, SealedSo
<1>3. StoreTyped'
  BY <1>1 DEF IInv, Inv1, StoreTyped
<1>4. Presented'
  BY <1>1 DEF IInv, Inv1, Presented, requests
<1>5. \A i \in Ids : until[i] \in Nat /\ (until'[i] > 0 => until[i] > 0)
                    /\ (until'[i] = until[i] \/ until[i] <= clock')
  BY <1>1 DEF IInv, Inv1, StoreTyped
<1>6. CodeFirst'
  BY <1>1, <1>5 DEF IInv, Inv2, CodeFirst, requests
<1>7. \A b \in boxes : End(b) \in Nat /\ (b.kind \in SingleUse => Id(b) \in Ids)
  BY Boxes DEF IInv
<1>8. Remembered'
  BY <1>1, <1>5, <1>7 DEF IInv, Inv2, Remembered, Keeps
<1>9. \A b \in boxes : \A f : Exchangeable(b, f)' => Exchangeable(b, f)
  BY <1>1, <1>7 DEF Exchangeable
<1>10. OneLine'
  BY <1>1, <1>9 DEF IInv, OneLine, Keeps, Wins, requests
<1>11. \A f \in Families : \A t \in Nat : Over(t, f) => Over(t, f)'
  <2> SUFFICES ASSUME NEW f \in Families, NEW t \in Nat, Over(t, f) PROVE Over(t, f)'
    OBVIOUS
  <2>1. famUntil[f] \in Nat /\ (famUntil'[f] = famUntil[f] \/ famUntil[f] <= clock')
    BY <1>1 DEF IInv, Inv1, StoreTyped
  <2> QED
    BY <1>1, <2>1 DEF Over
<1>12. \A s \in Requests : now[s] + REFRESH_TTL \in Nat
  BY Ttls DEF IInv, Inv1, Presented
<1>13. Doomed'
  <2> SUFFICES ASSUME Keeps, NEW f \in revokedOnce, f \notin late
               PROVE  /\ \A b \in boxes : b.family = f => Over(End(b), f)'
                      /\ \A s \in Requests : Wins(s, f) => Over(now[s] + REFRESH_TTL, f)'
                      /\ \A s \in Requests : pc[s] = "claim" /\ box[s].family = f =>
                           \/ Over(now[s] + REFRESH_TTL, f)'
                           \/ Id(box[s]) \in won \/ clock' >= End(box[s])
    BY <1>1 DEF Doomed, Keeps, Wins, requests
  <2>1. f \in Families
    BY DEF IInv, Inv1, StoreTyped
  <2>2. \A s \in Requests : pc[s] = "claim" => End(box[s]) \in Nat
    BY <1>7 DEF IInv, Inv1, Presented
  <2>3. /\ \A b \in boxes : b.family = f => Over(End(b), f)
        /\ \A s \in Requests : Wins(s, f) => Over(now[s] + REFRESH_TTL, f)
        /\ \A s \in Requests : pc[s] = "claim" /\ box[s].family = f =>
             Over(now[s] + REFRESH_TTL, f) \/ Id(box[s]) \in won \/ clock >= End(box[s])
    BY DEF IInv, Doomed
  <2>4. \A b \in boxes : b.family = f => Over(End(b), f)'
    BY <1>7, <1>11, <2>1, <2>3
  <2>5. \A s \in Requests : Over(now[s] + REFRESH_TTL, f) => Over(now[s] + REFRESH_TTL, f)'
    BY <1>1, <1>11, <1>12, <2>1 DEF requests
  <2>6. \A s \in Requests : pc[s] = "claim" /\ clock >= End(box[s]) => clock' >= End(box[s])
    BY <1>1, <2>2
  <2> QED
    BY <2>3, <2>4, <2>5, <2>6
<1> QED
  BY <1>2, <1>3, <1>4, <1>6, <1>8, <1>10, <1>13 DEF IInv, Inv1, Inv2

LEMMA StutterKeepsInv == ASSUME IInv, UNCHANGED vars PROVE IInv'
<1> USE DEF vars, store, requests
<1>1. BoxesSealed' /\ StoreTyped' /\ Presented'
  BY DEF IInv, Inv1, BoxesSealed, StoreTyped, Presented, SealedSo
<1>2. CodeFirst' /\ Remembered'
  BY DEF IInv, Inv2, CodeFirst, Remembered, Keeps
<1>3. OneLine'
  BY DEF IInv, OneLine, Keeps, Wins, Exchangeable
<1>4. Doomed'
  BY DEF IInv, Doomed, Keeps, Wins, Over
<1> QED
  BY <1>1, <1>2, <1>3, <1>4 DEF IInv, Inv1, Inv2

LEMMA StepKeepsInv ==
  ASSUME IInv, NEW q \in Requests, Step(q)
  PROVE  IInv'
<1>0. held \subseteq boxes /\ clock \in Nat
  BY DEF IInv, Inv1, BoxesSealed
<1>1. CASE Present(q)
  <2>1. PICK b \in held, step \in {"revoked", "claim"} :
          /\ b.kind \in SingleUse
          /\ step = IF b.kind = "refresh" THEN "revoked" ELSE "claim"
          /\ Goto(q, step)
          /\ box' = [box EXCEPT ![q] = b] /\ now' = [now EXCEPT ![q] = clock]
    BY <1>1 DEF Present
  <2>2. UNCHANGED <<clock, boxes, held, store, restarts>>
    BY <1>1 DEF Present
  <2>3. Stands(q, step) /\ box'[q] = b /\ now'[q] = clock
    BY <1>0, <2>1, <2>2 DEF Stands, Goto, Steps, IInv, Inv1, Presented
  <2>4. step = "claim" => b.kind = "code"
    BY <2>1 DEF SingleUse
  <2>5. step = "claim" => \A f \in revokedOnce : b.family = f => Id(b) \in won
    BY <1>0, <2>4, Boxes DEF IInv, Inv2, CodeFirst
  <2> QED
    BY <1>0, <2>1, <2>2, <2>3, <2>5, MovesKeepsInv
<1>2. CASE AskRevoked(q)
  <2>1. pc[q] = "revoked" /\ UNCHANGED <<clock, boxes, held, store, restarts>>
    BY <1>2 DEF AskRevoked
  <2>2. CASE Live(famUntil[box[q].family])
    <3>1. Stands(q, "idle")
      BY <1>2, <2>1, <2>2, DoneStands DEF AskRevoked, IInv
    <3> QED
      BY <1>0, <2>1, <3>1, MovesKeepsInv
  <2>3. CASE ~Live(famUntil[box[q].family])
    <3>1. Stands(q, "claim") /\ box'[q] = box[q] /\ now'[q] = now[q]
      BY <1>2, <2>1, <2>3, GotoStands DEF AskRevoked, IInv, Steps
    <3>2. box[q] \in boxes /\ box[q].kind \in SingleUse /\ now[q] <= clock
      BY <2>1 DEF IInv, Inv1, Presented
    <3>3. End(box[q]) \in Nat
      BY <3>2, Boxes DEF IInv
    <3>4. ASSUME Keeps, box[q].family \in revokedOnce \ late
          PROVE  clock >= End(box[q])
      <4>1. Over(End(box[q]), box[q].family)
        BY <3>2, <3>4 DEF IInv, Doomed
      <4>2. famUntil[box[q].family] \in Nat
        BY <3>4 DEF IInv, Inv1, StoreTyped
      <4> QED
        BY <1>0, <2>3, <3>3, <4>1, <4>2 DEF Over, Live
    <3> QED
      BY <1>0, <2>1, <3>1, <3>2, <3>4, MovesKeepsInv
  <2> QED
    BY <2>2, <2>3
<1>3. CASE Claim(q)
  <2>1. /\ pc[q] = "claim" /\ Record(q)
        /\ UNCHANGED <<clock, boxes, held, box, now, restarts>>
    BY <1>3 DEF Claim
  <2>2. CASE Live(until[Id(box[q])])
    <3>1. Goto(q, "revoke") /\ UNCHANGED store
      BY <1>3, <2>2 DEF Claim, Record
    <3>2. Stands(q, "revoke") /\ box'[q] = box[q] /\ now'[q] = now[q]
      BY <2>1, <3>1, GotoStands DEF IInv, Steps
    <3> QED
      BY <2>1, <2>2, <3>1, <3>2, UsedKeepsInv
  <2>3. CASE ~Live(until[Id(box[q])])
    <3>1. Goto(q, "issue")
      BY <1>3, <2>3 DEF Claim
    <3>2. Stands(q, "issue") /\ box'[q] = box[q] /\ now'[q] = now[q]
      BY <2>1, <3>1, GotoStands DEF IInv, Steps
    <3> QED
      BY <2>1, <2>3, <3>2, FirstKeepsInv
  <2> QED
    BY <2>2, <2>3
<1>4. CASE Revoke(q)
  <2>1. /\ pc[q] = "revoke" /\ Mark(q) /\ Done(q)
        /\ UNCHANGED <<clock, boxes, held, restarts>>
    BY <1>4 DEF Revoke
  <2>2. Stands(q, "idle")
    BY <2>1, DoneStands DEF IInv
  <2> QED
    BY <2>1, <2>2, MarkKeepsInv
<1>5. CASE Issue(q)
  BY <1>5, IssueKeepsInv
<1>6. CASE StoreFails(q)
  <2>1. Done(q) /\ UNCHANGED <<clock, boxes, held, restarts>>
    BY <1>6 DEF StoreFails
  <2>2. Stands(q, "idle")
    BY <2>1, DoneStands DEF IInv
  <2>3. CASE UNCHANGED store
    BY <1>0, <2>1, <2>2, <2>3, MovesKeepsInv
  <2>4. CASE pc[q] = "claim" /\ Record(q)
    <3>1. CASE Live(until[Id(box[q])])
      BY <2>1, <2>2, <2>3, <2>4, <3>1 DEF Record
    <3>2. CASE ~Live(until[Id(box[q])])
      BY <2>1, <2>2, <2>4, <3>2, FirstKeepsInv
    <3> QED
      BY <3>1, <3>2
  <2>5. CASE pc[q] = "revoke" /\ Mark(q)
    BY <2>1, <2>2, <2>5, MarkKeepsInv
  <2> QED
    BY <1>6, <2>3, <2>4, <2>5 DEF StoreFails
<1> QED
  BY <1>1, <1>2, <1>3, <1>4, <1>5, <1>6 DEF Step

LEMMA Invariance == Spec => []IInv
<1>1. IInv /\ [Next]_vars => IInv'
  BY StepKeepsInv, FinishAuthorizeKeepsInv, RestartKeepsInv, TickKeepsInv, StutterKeepsInv
  DEF Next, Rest
<1> QED
  BY <1>1, InitInv, PTL DEF Spec

-----------------------------------------------------------------------------
LEMMA AtMostOne ==
  ASSUME NEW S, \A a, b \in S : a = b
  PROVE  Cardinality(S) <= 1
<1>1. CASE S = {}
  BY <1>1, FS_EmptySet
<1>2. CASE S # {}
  <2>1. PICK a : S = {a}
    BY <1>2
  <2> QED
    BY <2>1, FS_Singleton
<1> QED
  BY <1>1, <1>2

\* Single use (grant-store.ts, oauth-token.ts): of each family there is at most one code
\* or refresh token that can still be exchanged, for any number of requests and refreshes.
THEOREM FamiliesNeverFork == Spec => []NeverForks
<1>1. IInv => NeverForks
  <2> SUFFICES ASSUME IInv, Keeps, NEW f \in Families \ late
               PROVE  Cardinality({b \in boxes : b.family = f /\ b.kind \in SingleUse
                                     /\ Id(b) \notin won /\ clock < End(b)}) <= 1
    BY DEF NeverForks, Keeps
  <2>1. \A b, c \in boxes : Exchangeable(b, f) /\ Exchangeable(c, f) => b = c
    BY DEF IInv, OneLine
  <2> QED
    BY <2>1, AtMostOne DEF Exchangeable
<1> QED
  BY <1>1, Invariance, PTL

\* A revoked family stays dead until its last box has expired, those that requests under
\* way seal after the revocation included (oauth-token.ts, exchange).
THEOREM RevocationLasts == Spec => []RevokedStaysDead
<1>1. IInv => RevokedStaysDead
  <2> SUFFICES ASSUME IInv, Keeps, NEW f \in revokedOnce \ late, ~Live(famUntil[f]),
                      NEW b \in boxes, b.family = f
               PROVE  clock >= End(b)
    BY DEF RevokedStaysDead, Keeps
  <2>1. Over(End(b), f)
    BY DEF IInv, Doomed
  <2>2. famUntil[f] \in Nat /\ clock \in Nat /\ End(b) \in Nat
    BY Boxes DEF IInv, Inv1, StoreTyped, BoxesSealed
  <2> QED
    BY <2>1, <2>2 DEF Over, Live
<1> QED
  BY <1>1, Invariance, PTL

-----------------------------------------------------------------------------
(***************************************************************************)
(* The journal                                                             *)
(***************************************************************************)

JournalInv ==
  journal \in Seq(ToSet(journal)) /\ ToSet(journal) \subseteq schema /\ IsInjective(journal)

\* The instance's operators on sequences are those of this module.
LEMMA SameOperators ==
  ASSUME NEW s, NEW i
  PROVE  /\ M!ToSet(s) = ToSet(s)
         /\ M!IsInjective(s) = IsInjective(s)
         /\ M!RemoveAt(s, i) = RemoveAt(s, i)
BY Zenon DEF M!ToSet, ToSet, M!IsInjective, IsInjective, M!RemoveAt, RemoveAt

\* A sequence without one of its places has the others' elements.
LEMMA WithoutOne ==
  ASSUME NEW S, NEW s \in Seq(S), IsInjective(s), NEW i \in DOMAIN s
  PROVE  /\ RemoveAt(s, i) \in Seq(S)
         /\ ToSet(RemoveAt(s, i)) = ToSet(s) \ {s[i]}
         /\ IsInjective(RemoveAt(s, i))
         /\ \A k \in DOMAIN RemoveAt(s, i) : \E m \in DOMAIN s :
              /\ RemoveAt(s, i)[k] = s[m]
              /\ \A l \in DOMAIN s : m < l /\ l # i =>
                   \E j \in DOMAIN RemoveAt(s, i) : k < j /\ RemoveAt(s, i)[j] = s[l]
<1> DEFINE n == Len(s)
           left == SubSeq(s, 1, i - 1)
           right == SubSeq(s, i + 1, n)
           t == RemoveAt(s, i)
<1>1. n \in Nat /\ DOMAIN s = 1 .. n /\ i \in 1 .. n
  OBVIOUS
<1>2. /\ left \in Seq(S) /\ Len(left) = i - 1
      /\ \A k \in 1 .. i - 1 : left[k] = s[k]
  BY <1>1
<1>3. /\ right \in Seq(S) /\ Len(right) = n - i
      /\ \A k \in 1 .. n - i : right[k] = s[i + k]
  BY <1>1
<1>4. t = left \o right
  BY DEF RemoveAt
<1> HIDE DEF left, right, t
<1>5. /\ t \in Seq(S) /\ Len(t) = n - 1
      /\ \A k \in 1 .. n - 1 : t[k] = IF k < i THEN s[k] ELSE s[k + 1]
  <2>0. /\ t \in Seq(S) /\ Len(t) = Len(left) + Len(right)
        /\ \A k \in 1 .. Len(left) + Len(right) :
             t[k] = IF k <= Len(left) THEN left[k] ELSE right[k - Len(left)]
    BY <1>2, <1>3, <1>4, ConcatProperties
  <2>1. t \in Seq(S) /\ Len(t) = n - 1
    BY <1>1, <1>2, <1>3, <2>0
  <2>2. ASSUME NEW k \in 1 .. n - 1, k < i PROVE t[k] = s[k]
    BY <1>1, <1>2, <1>3, <2>0, <2>2
  <2>3. ASSUME NEW k \in 1 .. n - 1, ~(k < i) PROVE t[k] = s[k + 1]
    <3>1. k - (i - 1) \in 1 .. n - i /\ i + (k - (i - 1)) = k + 1
      BY <1>1, <1>2, <2>3
    <3>2. k \in 1 .. Len(left) + Len(right) /\ ~(k <= Len(left)) /\ Len(left) = i - 1
      BY <1>1, <1>2, <1>3, <2>3
    <3>3. t[k] = right[k - (i - 1)]
      BY <2>0, <3>2
    <3> QED
      BY <1>3, <3>1, <3>3
  <2> QED
    BY <2>1, <2>2, <2>3
<1>6. DOMAIN t = 1 .. n - 1
  BY <1>1, <1>5
<1>7. \A k, m \in 1 .. n : s[k] = s[m] => k = m
  BY <1>1 DEF IsInjective
<1>8. ToSet(t) \subseteq ToSet(s) \ {s[i]}
  <2>1. ASSUME NEW k \in 1 .. n - 1 PROVE \E m \in 1 .. n : m # i /\ t[k] = s[m]
    <3>1. CASE k < i
      BY <1>1, <1>5, <3>1
    <3>2. CASE ~(k < i)
      <4>1. k + 1 \in 1 .. n /\ k + 1 # i /\ t[k] = s[k + 1]
        BY <1>1, <1>5, <3>2
      <4> QED
        BY <4>1
    <3> QED
      BY <3>1, <3>2
  <2>2. \A m \in 1 .. n : m # i => s[m] \in ToSet(s) \ {s[i]}
    BY <1>1, <1>7 DEF ToSet
  <2>3. \A x \in ToSet(t) : \E k \in 1 .. n - 1 : x = t[k]
    BY <1>6 DEF ToSet
  <2> QED
    BY <2>1, <2>2, <2>3
<1>9. ASSUME NEW k \in 1 .. n, s[k] # s[i] PROVE \E m \in 1 .. n - 1 : t[m] = s[k]
  <2>1. CASE k < i
    BY <1>1, <1>5, <2>1
  <2>2. CASE k > i
    <3>1. k - 1 \in 1 .. n - 1 /\ ~(k - 1 < i) /\ (k - 1) + 1 = k
      BY <1>1, <2>2
    <3> QED
      BY <1>5, <3>1
  <2> QED
    BY <1>1, <1>9, <2>1, <2>2
<1>10. ToSet(s) \ {s[i]} \subseteq ToSet(t)
  BY <1>1, <1>6, <1>9 DEF ToSet
<1>11. ASSUME NEW k \in 1 .. n - 1, NEW m \in 1 .. n - 1, t[k] = t[m] PROVE k = m
  <2> DEFINE at(x) == IF x < i THEN x ELSE x + 1
  <2>1. /\ at(k) \in 1 .. n /\ at(m) \in 1 .. n
        /\ t[k] = s[at(k)] /\ t[m] = s[at(m)]
    BY <1>1, <1>5
  <2>2. at(k) = at(m)
    BY <1>7, <1>11, <2>1
  <2> QED
    BY <1>1, <2>2
<1>12. IsInjective(t)
  BY <1>6, <1>11 DEF IsInjective
<1>13. ASSUME NEW k \in 1 .. n - 1
       PROVE  \E m \in 1 .. n :
                /\ t[k] = s[m]
                /\ \A l \in 1 .. n : m < l /\ l # i =>
                     \E j \in 1 .. n - 1 : k < j /\ t[j] = s[l]
  <2> DEFINE m == IF k < i THEN k ELSE k + 1
  <2>1. m \in 1 .. n /\ t[k] = s[m]
    BY <1>1, <1>5
  <2>2. ASSUME NEW l \in 1 .. n, m < l, l # i
        PROVE  \E j \in 1 .. n - 1 : k < j /\ t[j] = s[l]
    <3> DEFINE j == IF l < i THEN l ELSE l - 1
    <3>1. j \in 1 .. n - 1 /\ k < j /\ (IF j < i THEN j ELSE j + 1) = l
      BY <1>1, <2>2
    <3> HIDE DEF j
    <3>2. t[j] = s[l]
      BY <1>5, <3>1
    <3> QED
      BY <3>1, <3>2
  <2> QED
    BY <2>1, <2>2
<1>14. \A k \in DOMAIN t : \E m \in DOMAIN s :
         /\ t[k] = s[m]
         /\ \A l \in DOMAIN s : m < l /\ l # i => \E j \in DOMAIN t : k < j /\ t[j] = s[l]
  <2> TAKE k \in DOMAIN t
  <2>1. PICK m \in 1 .. n :
          /\ t[k] = s[m]
          /\ \A l \in 1 .. n : m < l /\ l # i =>
               \E j \in 1 .. n - 1 : k < j /\ t[j] = s[l]
    BY <1>6, <1>13
  <2> WITNESS m \in DOMAIN s
  <2> QED
    BY <1>1, <1>6, <2>1
<1>15. t \in Seq(S) /\ ToSet(t) = ToSet(s) \ {s[i]}
  BY <1>5, <1>8, <1>10
<1> QED
  BY <1>12, <1>14, <1>15, Zenon DEF t

LEMMA WithOneMore ==
  ASSUME NEW S, NEW s \in Seq(S), IsInjective(s), NEW f, f \notin ToSet(s)
  PROVE  /\ Append(s, f) \in Seq(S \cup {f})
         /\ ToSet(Append(s, f)) = ToSet(s) \cup {f}
         /\ IsInjective(Append(s, f))
<1> DEFINE n == Len(s)
           t == Append(s, f)
<1>1. n \in Nat /\ DOMAIN s = 1 .. n /\ s \in Seq(S \cup {f})
  OBVIOUS
<1>2. /\ t \in Seq(S \cup {f}) /\ Len(t) = n + 1 /\ DOMAIN t = 1 .. n + 1
      /\ \A k \in 1 .. n : t[k] = s[k]
      /\ t[n + 1] = f
  BY <1>1
<1> HIDE DEF t
<1>3. \A k \in 1 .. n : s[k] # f
  BY <1>1 DEF ToSet
<1>4. ToSet(t) = ToSet(s) \cup {f}
  <2>1. ToSet(t) \subseteq ToSet(s) \cup {f}
    BY <1>1, <1>2 DEF ToSet
  <2>2. ToSet(s) \cup {f} \subseteq ToSet(t)
    BY <1>1, <1>2 DEF ToSet
  <2> QED
    BY <2>1, <2>2
<1>5. IsInjective(t)
  BY <1>1, <1>2, <1>3 DEF IsInjective
<1> QED
  BY <1>2, <1>4, <1>5 DEF t

LEMMA UpKeepsJournal ==
  ASSUME JournalInv, NEW d \in Deployers, M!UpCommits(d) PROVE JournalInv'
<1>1. PICK f : f \notin ToSet(journal) /\ journal' = Append(journal, f) /\ schema' = schema \cup {f}
  BY SameOperators DEF M!UpCommits
<1>2. IsInjective(journal) /\ ToSet(journal) \subseteq schema /\ journal \in Seq(ToSet(journal))
  BY DEF JournalInv
<1>3. /\ journal' \in Seq(ToSet(journal) \cup {f}) /\ IsInjective(journal')
      /\ ToSet(journal') = ToSet(journal) \cup {f}
  BY <1>1, <1>2, WithOneMore
<1> QED
  BY <1>1, <1>2, <1>3 DEF JournalInv

\* What the commit of a rollback does to the journal.
RowsOf(f) == {i \in DOMAIN journal : journal[i] = f}
TakesRow(f) ==
  journal' = IF RowsOf(f) = {} THEN journal ELSE RemoveAt(journal, CHOOSE i \in RowsOf(f) : TRUE)

LEMMA DownCommitsSo ==
  ASSUME NEW d \in Deployers, M!DownCommits(d)
  PROVE  \E f, tx :
           /\ M!At(d, "down", f, tx) /\ tx \in {"ran", "missed"}
           /\ schema' = IF tx = "ran" THEN schema \ {f} ELSE schema
           /\ TakesRow(f)
           /\ deploy' = [deploy EXCEPT ![d] = M!Run("down", Tail(deploy[d].plan))]
<1>1. \A i : M!RemoveAt(journal, i) = RemoveAt(journal, i)
  BY SameOperators
<1>2. PICK f, tx :
        /\ M!At(d, "down", f, tx) /\ tx \in {"ran", "missed"}
        /\ schema' = IF tx = "ran" THEN schema \ {f} ELSE schema
        /\ journal' = IF RowsOf(f) = {} THEN journal
                      ELSE M!RemoveAt(journal, CHOOSE i \in RowsOf(f) : TRUE)
        /\ deploy' = [deploy EXCEPT ![d] = M!Run("down", Tail(deploy[d].plan))]
  BY Zenon DEF M!DownCommits, M!Goes, RowsOf
<1>3. TakesRow(f)
  BY <1>1, <1>2, Zenon DEF TakesRow
<1> QED
  BY <1>2, <1>3

\* The row of the file is gone, and the others are in the order they were in.
LEMMA DownTakesRow ==
  ASSUME JournalInv, NEW f, TakesRow(f)
  PROVE  /\ journal' \in Seq(ToSet(journal')) /\ IsInjective(journal')
         /\ ToSet(journal') = ToSet(journal) \ {f}
         /\ \A k \in DOMAIN journal' : \E m \in DOMAIN journal :
              /\ journal'[k] = journal[m]
              /\ \A l \in DOMAIN journal : m < l /\ journal[l] # f =>
                   \E j \in DOMAIN journal' : k < j /\ journal'[j] = journal[l]
<1> DEFINE row == RowsOf(f)
           i == CHOOSE k \in row : TRUE
<1>1. journal' = IF row = {} THEN journal ELSE RemoveAt(journal, i)
  BY DEF TakesRow
<1>2. IsInjective(journal) /\ journal \in Seq(ToSet(journal))
  BY DEF JournalInv
<1>3. CASE row = {}
  <2>1. journal' = journal /\ f \notin ToSet(journal)
    BY <1>1, <1>3 DEF ToSet, RowsOf
  <2> QED
    BY <1>2, <2>1
<1>4. CASE row # {}
  <2>1. i \in DOMAIN journal /\ journal[i] = f
    BY <1>4 DEF RowsOf
  <2>2. journal' = RemoveAt(journal, i)
    BY <1>1, <1>4
  <2> HIDE DEF i, row
  <2>0. PICK S : S = ToSet(journal)
    OBVIOUS
  <2>3. /\ journal' \in Seq(S) /\ IsInjective(journal')
        /\ ToSet(journal') = ToSet(journal) \ {journal[i]}
        /\ \A k \in DOMAIN journal' : \E m \in DOMAIN journal :
             /\ journal'[k] = journal[m]
             /\ \A l \in DOMAIN journal : m < l /\ l # i =>
                  \E j \in DOMAIN journal' : k < j /\ journal'[j] = journal[l]
    <3>1. journal \in Seq(S)
      BY <1>2, <2>0
    <3> DEFINE t == RemoveAt(journal, i)
    <3>2. /\ t \in Seq(S) /\ IsInjective(t) /\ ToSet(t) = ToSet(journal) \ {journal[i]}
          /\ \A k \in DOMAIN t : \E m \in DOMAIN journal :
               /\ t[k] = journal[m]
               /\ \A l \in DOMAIN journal : m < l /\ l # i =>
                    \E j \in DOMAIN t : k < j /\ t[j] = journal[l]
      BY <1>2, <2>1, <3>1, WithoutOne
    <3> HIDE DEF t
    <3>3. journal' = t
      BY <2>2 DEF t
    <3> QED
      BY <3>2, <3>3
  <2>4. \A k \in DOMAIN journal' : journal'[k] \in ToSet(journal')
    BY DEF ToSet
  <2>5. journal' \in Seq(ToSet(journal'))
    BY <2>3, <2>4
  <2>6. \A l \in DOMAIN journal : journal[l] # f => l # i
    BY <2>1
  <2> QED
    BY <2>1, <2>3, <2>5, <2>6, Zenon
<1> QED
  BY <1>3, <1>4

LEMMA DownKeepsJournal ==
  ASSUME JournalInv, NEW d \in Deployers, M!DownCommits(d) PROVE JournalInv'
<1>1. PICK f : (schema' = schema \/ schema' = schema \ {f}) /\ TakesRow(f)
  BY DownCommitsSo
<1>2. /\ journal' \in Seq(ToSet(journal')) /\ IsInjective(journal')
      /\ ToSet(journal') = ToSet(journal) \ {f}
  BY <1>1, DownTakesRow
<1>3. ToSet(journal) \subseteq schema
  BY DEF JournalInv
<1> QED
  BY <1>1, <1>2, <1>3 DEF JournalInv

\* The steps of the database that change the journal or the schema.
LEMMA WhatCommits ==
  ASSUME [DatabaseNext]_database
  PROVE  \/ UNCHANGED migration
         \/ \E d \in Deployers :
              \/ M!UpCommits(d) \/ M!DownCommits(d)
              \/ UNCHANGED <<journal, schema>>
                 /\ (\/ M!Up(d) \/ M!Down(d) \/ M!Fails(d) \/ M!Returns(d)
                     \/ M!UpCreates(d) \/ M!DownDrops(d))
<1>1. M!Next \/ UNCHANGED migration
  BY DEF DatabaseNext, Deploy, Rotate, database
<1>2. CASE M!Next
  <2>1. PICK d \in Deployers :
          \/ M!Up(d) \/ M!UpCreates(d) \/ M!UpCommits(d)
          \/ M!Down(d) \/ M!DownDrops(d) \/ M!DownCommits(d)
          \/ M!Fails(d) \/ M!Returns(d)
    BY <1>2 DEF M!Next
  <2>2. \/ M!Up(d) \/ M!Down(d) \/ M!Fails(d) \/ M!Returns(d) \/ M!UpCreates(d) \/ M!DownDrops(d)
        => UNCHANGED <<journal, schema>>
    BY DEF M!Up, M!Down, M!Fails, M!Returns, M!UpCreates, M!DownDrops
  <2> QED
    BY <2>1, <2>2
<1> QED
  BY <1>1, <1>2

LEMMA JournalNext == JournalInv /\ [DatabaseNext]_database => JournalInv'
<1> SUFFICES ASSUME JournalInv, [DatabaseNext]_database PROVE JournalInv'
  OBVIOUS
<1>1. CASE UNCHANGED <<journal, schema>>
  BY <1>1 DEF JournalInv
<1> QED
  BY <1>1, WhatCommits, UpKeepsJournal, DownKeepsJournal DEF migration

\* migrate.ts, "a migration that fails halfway and leaves the journal saying it
\* succeeded is unrecoverable": whoever deploys and rolls back at the same time, and
\* whatever fails, every file the journal names has its objects, and is named once.
THEOREM JournalHolds == DatabaseSpec => []JournalIsTrue
<1>1. DatabaseInit => JournalInv
  BY DEF DatabaseInit, M!Init, JournalInv, ToSet, IsInjective
<1>2. JournalInv => JournalIsTrue
  BY SameOperators DEF JournalInv, JournalIsTrue, M!JournalIsTrue
<1> QED
  BY <1>1, <1>2, JournalNext, PTL DEF DatabaseSpec

-----------------------------------------------------------------------------
Makes(d, f) == M!At(d, "up", f, "ran")
Drops(d, f) == M!At(d, "down", f, "ran")

DeployShape ==
  deploy = [d \in Deployers |->
              [op |-> deploy[d].op, plan |-> deploy[d].plan, tx |-> deploy[d].tx]]

\* What a transaction that is not committed has locked: the objects it makes are
\* nobody else's and refer to what is there and stays, and to what it drops
\* nothing refers.
Locks ==
  /\ \A d, e \in Deployers : \A f : Makes(d, f) /\ Makes(e, f) => d = e
  /\ \A d \in Deployers : \A f : Makes(d, f) =>
       /\ f \notin schema
       /\ \A g : <<f, g>> \in Needs => g \in schema /\ \A e \in Deployers : ~Drops(e, g)
  /\ \A d \in Deployers : \A f : Drops(d, f) =>
       \A g : <<g, f>> \in Needs => g \notin schema

\* What a file refers to is there.
Closed == \A f \in schema : \A g : <<f, g>> \in Needs => g \in schema

OrderInv == JournalInv /\ DeployShape /\ Locks /\ Closed /\ ReferrersLater

\* A transaction that ends, and one that goes on, as the others' are left alone.
LEMMA GoesOn ==
  ASSUME DeployShape, NEW d \in Deployers, NEW r,
         r = [op |-> r.op, plan |-> r.plan, tx |-> r.tx], deploy' = [deploy EXCEPT ![d] = r]
  PROVE  /\ DeployShape'
         /\ deploy'[d] = r
         /\ \A e \in Deployers \ {d} : deploy'[e] = deploy[e]
<1> QED
  BY DEF DeployShape

LEMMA EndsTransaction ==
  ASSUME DeployShape, NEW d \in Deployers, NEW op, NEW plan,
         deploy' = [deploy EXCEPT ![d] = M!Run(op, plan)]
  PROVE  /\ DeployShape'
         /\ \A e \in Deployers : \A f :
              /\ Makes(e, f)' => Makes(e, f) /\ e # d
              /\ Drops(e, f)' => Drops(e, f) /\ e # d
<1>1. /\ DeployShape' /\ deploy'[d].tx = "none"
      /\ \A e \in Deployers \ {d} : deploy'[e] = deploy[e]
  <2>1. PICK r : r = M!Run(op, plan)
    OBVIOUS
  <2>2. r = [op |-> r.op, plan |-> r.plan, tx |-> r.tx] /\ r.tx = "none"
    BY <2>1 DEF M!Run
  <2> QED
    BY <2>1, <2>2, GoesOn
<1> QED
  BY <1>1 DEF Makes, Drops, M!At

LEMMA GetsOn ==
  ASSUME DeployShape, NEW d \in Deployers, NEW op, NEW f, NEW tx,
         M!At(d, op, f, "none"), deploy' = [deploy EXCEPT ![d].tx = tx]
  PROVE  /\ DeployShape'
         /\ \A e \in Deployers : \A g :
              /\ Makes(e, g)' <=> Makes(e, g) \/ (e = d /\ g = f /\ op = "up" /\ tx = "ran")
              /\ Drops(e, g)' <=> Drops(e, g) \/ (e = d /\ g = f /\ op = "down" /\ tx = "ran")
<1>1. deploy' = [deploy EXCEPT ![d] = [deploy[d] EXCEPT !.tx = tx]]
  BY DEF DeployShape
<1>2. deploy[d] = [op |-> deploy[d].op, plan |-> deploy[d].plan, tx |-> deploy[d].tx]
  BY DEF DeployShape
<1>3. [deploy[d] EXCEPT !.tx = tx] = [op |-> deploy[d].op, plan |-> deploy[d].plan, tx |-> tx]
  BY <1>2
<1>4. /\ DeployShape'
      /\ deploy'[d].op = deploy[d].op /\ deploy'[d].plan = deploy[d].plan /\ deploy'[d].tx = tx
      /\ \A e \in Deployers \ {d} : deploy'[e] = deploy[e]
  BY <1>1, <1>3, GoesOn
<1>5. deploy[d].op = op /\ deploy[d].plan # <<>> /\ Head(deploy[d].plan) = f /\ deploy[d].tx = "none"
  BY DEF M!At
<1> QED
  BY <1>4, <1>5 DEF Makes, Drops, M!At

LEMMA SchemaStays ==
  ASSUME OrderInv, NEW d \in Deployers, NEW op, NEW plan,
         deploy' = [deploy EXCEPT ![d] = M!Run(op, plan)], UNCHANGED <<journal, schema>>
  PROVE  OrderInv'
<1>1. DeployShape' /\ Locks'
  BY EndsTransaction DEF OrderInv, Locks
<1> QED
  BY <1>1 DEF OrderInv, JournalInv, Closed, ReferrersLater, M!ReferrersLater

LEMMA NeedsAreFiles == \A f, g : <<f, g>> \in Needs => f \in M!ToSet(Files) /\ g \in M!ToSet(Files)
BY DatabaseAssumption, SameOperators

LEMMA CreatesKeepsOrder ==
  ASSUME OrderInv, NEW d \in Deployers, M!UpCreates(d) PROVE OrderInv'
<1> USE DEF OrderInv
<1>1. PICK f : /\ M!At(d, "up", f, "none") /\ f \notin schema /\ ~M!Making(f)
               /\ \A g \in M!ToSet(Files) : <<f, g>> \in Needs => g \in schema /\ ~M!Dropping(g)
               /\ deploy' = [deploy EXCEPT ![d].tx = "ran"]
               /\ UNCHANGED <<journal, schema>>
  BY DEF M!UpCreates, M!Gets
<1>2. /\ \A e \in Deployers : ~Makes(e, f)
      /\ \A g : <<f, g>> \in Needs => g \in schema /\ \A e \in Deployers : ~Drops(e, g)
  BY <1>1, NeedsAreFiles DEF M!Making, M!Dropping, Makes, Drops
<1>3. /\ DeployShape'
      /\ \A e \in Deployers : \A g :
           /\ Makes(e, g)' <=> Makes(e, g) \/ (e = d /\ g = f)
           /\ Drops(e, g)' <=> Drops(e, g)
  <2>1. /\ DeployShape'
        /\ \A e \in Deployers : \A g :
             /\ Makes(e, g)' <=> Makes(e, g) \/ (e = d /\ g = f /\ "up" = "up" /\ "ran" = "ran")
             /\ Drops(e, g)' <=> Drops(e, g) \/ (e = d /\ g = f /\ "up" = "down" /\ "ran" = "ran")
    BY <1>1, GetsOn, Zenon
  <2> QED
    BY <2>1
<1>4. Locks'
  BY <1>1, <1>2, <1>3 DEF Locks
<1> QED
  BY <1>1, <1>3, <1>4 DEF JournalInv, Closed, ReferrersLater, M!ReferrersLater

LEMMA DropsKeepsOrder ==
  ASSUME OrderInv, NEW d \in Deployers, M!DownDrops(d) PROVE OrderInv'
<1> USE DEF OrderInv
<1>1. PICK f : /\ M!At(d, "down", f, "none")
               /\ UNCHANGED <<journal, schema>>
               /\ IF f \in schema
                  THEN /\ \A g \in M!ToSet(Files) : <<g, f>> \in Needs => g \notin schema /\ ~M!Making(g)
                       /\ deploy' = [deploy EXCEPT ![d].tx = "ran"]
                  ELSE deploy' = [deploy EXCEPT ![d].tx = "missed"]
  BY DEF M!DownDrops, M!Gets
<1>2. CASE f \in schema
  <2>1. /\ \A g : <<g, f>> \in Needs => g \notin schema /\ \A e \in Deployers : ~Makes(e, g)
        /\ deploy' = [deploy EXCEPT ![d].tx = "ran"]
    BY <1>1, <1>2, NeedsAreFiles DEF M!Making, Makes
  <2>2. /\ DeployShape'
        /\ \A e \in Deployers : \A g :
             /\ Makes(e, g)' <=> Makes(e, g)
             /\ Drops(e, g)' <=> Drops(e, g) \/ (e = d /\ g = f)
    <3>1. /\ DeployShape'
          /\ \A e \in Deployers : \A g :
               /\ Makes(e, g)' <=> Makes(e, g) \/ (e = d /\ g = f /\ "down" = "up" /\ "ran" = "ran")
               /\ Drops(e, g)' <=> Drops(e, g) \/ (e = d /\ g = f /\ "down" = "down" /\ "ran" = "ran")
      BY <1>1, <2>1, GetsOn, Zenon
    <3> QED
      BY <3>1
  <2>3. Locks'
    BY <1>1, <2>1, <2>2 DEF Locks
  <2> QED
    BY <1>1, <2>2, <2>3 DEF JournalInv, Closed, ReferrersLater, M!ReferrersLater
<1>3. CASE f \notin schema
  <2>1. /\ DeployShape'
        /\ \A e \in Deployers : \A g :
             (Makes(e, g)' <=> Makes(e, g)) /\ (Drops(e, g)' <=> Drops(e, g))
    BY <1>1, <1>3, GetsOn
  <2>2. Locks'
    BY <1>1, <2>1 DEF Locks
  <2> QED
    BY <1>1, <2>1, <2>2 DEF JournalInv, Closed, ReferrersLater, M!ReferrersLater
<1> QED
  BY <1>2, <1>3

LEMMA UpKeepsOrder ==
  ASSUME OrderInv, NEW d \in Deployers, M!UpCommits(d) PROVE OrderInv'
<1> USE DEF OrderInv
<1>1. PICK f : /\ Makes(d, f) /\ journal' = Append(journal, f) /\ schema' = schema \cup {f}
               /\ deploy' = [deploy EXCEPT ![d] = M!Run("up", Tail(deploy[d].plan))]
  BY DEF M!UpCommits, M!Goes, Makes
<1>2. /\ f \notin schema
      /\ \A g : <<f, g>> \in Needs => g \in schema /\ \A e \in Deployers : ~Drops(e, g)
      /\ \A g \in schema : <<g, f>> \notin Needs
  BY <1>1 DEF Locks, Closed
<1>3. /\ DeployShape'
      /\ \A e \in Deployers : \A g :
           (Makes(e, g)' => Makes(e, g) /\ e # d) /\ (Drops(e, g)' => Drops(e, g) /\ e # d)
  BY <1>1, EndsTransaction
<1>4. Locks'
  BY <1>1, <1>2, <1>3 DEF Locks
<1>5. Closed'
  BY <1>1, <1>2 DEF Closed
<1>6. /\ DOMAIN journal' = 1 .. Len(journal) + 1 /\ DOMAIN journal = 1 .. Len(journal)
      /\ Len(journal) \in Nat
      /\ \A k \in DOMAIN journal : journal'[k] = journal[k]
      /\ journal'[Len(journal) + 1] = f
  <2>1. PICK s \in Seq(ToSet(journal)) : s = journal
    BY DEF JournalInv
  <2>2. /\ DOMAIN Append(s, f) = 1 .. Len(s) + 1 /\ DOMAIN s = 1 .. Len(s) /\ Len(s) \in Nat
        /\ \A k \in DOMAIN s : Append(s, f)[k] = s[k]
        /\ Append(s, f)[Len(s) + 1] = f
    OBVIOUS
  <2> QED
    BY <1>1, <2>1, <2>2
<1>7. ReferrersLater'
  <2> SUFFICES ASSUME NEW i \in DOMAIN journal', NEW k \in DOMAIN journal',
                      <<journal'[k], journal'[i]>> \in Needs
               PROVE  i < k
    BY DEF ReferrersLater, M!ReferrersLater
  <2>1. \A j \in DOMAIN journal : journal[j] \in schema
    BY DEF JournalInv, ToSet
  <2>2. i # Len(journal) + 1
    <3> SUFFICES ASSUME journal'[i] = f PROVE FALSE
      BY <1>6
    <3>1. journal'[k] \notin schema
      BY <1>2
    <3>2. journal'[k] = f
      BY <1>6, <2>1, <3>1
    <3> QED
      BY <1>2, <3>2
  <2>3. i \in DOMAIN journal /\ journal'[i] = journal[i] /\ i < Len(journal) + 1
    BY <1>6, <2>2
  <2>4. CASE k \in DOMAIN journal
    BY <1>6, <2>3, <2>4 DEF ReferrersLater, M!ReferrersLater
  <2> QED
    BY <1>6, <2>3, <2>4
<1> QED
  BY <1>3, <1>4, <1>5, <1>7, UpKeepsJournal

LEMMA DownKeepsOrder ==
  ASSUME OrderInv, NEW d \in Deployers, M!DownCommits(d) PROVE OrderInv'
<1> USE DEF OrderInv
<1>1. PICK f, tx :
        /\ M!At(d, "down", f, tx) /\ tx \in {"ran", "missed"}
        /\ schema' = IF tx = "ran" THEN schema \ {f} ELSE schema
        /\ TakesRow(f)
        /\ deploy' = [deploy EXCEPT ![d] = M!Run("down", Tail(deploy[d].plan))]
  BY DownCommitsSo
<1>2. /\ DeployShape'
      /\ \A e \in Deployers : \A g :
           (Makes(e, g)' => Makes(e, g) /\ e # d) /\ (Drops(e, g)' => Drops(e, g) /\ e # d)
  BY <1>1, EndsTransaction
<1>3. tx = "ran" => \A g : <<g, f>> \in Needs => g \notin schema /\ \A e \in Deployers : ~Makes(e, g)
  BY <1>1 DEF Locks, Drops
<1>4. Locks'
  BY <1>1, <1>2, <1>3 DEF Locks
<1>5. Closed'
  BY <1>1, <1>3 DEF Closed
<1>6. \A k \in DOMAIN journal' : \E m \in DOMAIN journal :
        /\ journal'[k] = journal[m]
        /\ \A l \in DOMAIN journal : m < l /\ journal[l] # f =>
             \E j \in DOMAIN journal' : k < j /\ journal'[j] = journal[l]
  BY <1>1, DownTakesRow
<1>7. /\ journal' \in Seq(ToSet(journal')) /\ IsInjective(journal')
      /\ ToSet(journal') = ToSet(journal) \ {f}
  BY <1>1, DownTakesRow
<1>8. ReferrersLater'
  <2> SUFFICES ASSUME NEW i \in DOMAIN journal', NEW k \in DOMAIN journal',
                      <<journal'[k], journal'[i]>> \in Needs
               PROVE  i < k
    BY DEF ReferrersLater, M!ReferrersLater
  <2>1. PICK m \in DOMAIN journal :
          /\ journal'[i] = journal[m]
          /\ \A l \in DOMAIN journal : m < l /\ journal[l] # f =>
               \E j \in DOMAIN journal' : i < j /\ journal'[j] = journal[l]
    BY <1>6
  <2>2. PICK l \in DOMAIN journal : journal'[k] = journal[l]
    BY <1>6
  <2>3. journal[l] # f
    BY <1>7, <2>2 DEF ToSet
  <2>4. m < l
    BY <2>1, <2>2 DEF ReferrersLater, M!ReferrersLater
  <2>5. PICK j \in DOMAIN journal' : i < j /\ journal'[j] = journal'[k]
    BY <2>1, <2>2, <2>3, <2>4
  <2>6. j = k
    BY <1>7, <2>5 DEF IsInjective
  <2> QED
    BY <2>5, <2>6
<1> QED
  BY <1>2, <1>4, <1>5, <1>8, DownKeepsJournal

\* migrate.ts, migrateDown, "newest first": whoever deploys and rolls back beside each
\* other in whatever order, of two files in the journal the one that refers to the other has
\* the later row.
THEOREM NewestRollsBack == DatabaseSpec => []ReferrersLater
<1>1. DatabaseInit => OrderInv
  <2> SUFFICES ASSUME DatabaseInit PROVE OrderInv
    OBVIOUS
  <2>1. journal = <<>> /\ schema = {} /\ deploy = [d \in Deployers |-> M!Run("idle", <<>>)]
    BY DEF DatabaseInit, M!Init, M!Idle
  <2>2. DeployShape /\ \A d \in Deployers : deploy[d].tx = "none"
    BY <2>1 DEF DeployShape, M!Run
  <2>3. Locks
    BY <2>2 DEF Locks, Makes, Drops, M!At
  <2> QED
    BY <2>1, <2>2, <2>3
    DEF OrderInv, JournalInv, Closed, ReferrersLater, M!ReferrersLater, ToSet, IsInjective
<1>2. ASSUME OrderInv, [DatabaseNext]_database PROVE OrderInv'
  <2>1. CASE UNCHANGED migration
    <3>1. UNCHANGED <<journal, schema, deploy>>
      BY <2>1 DEF migration
    <3> QED
      BY <1>2, <3>1 DEF OrderInv, JournalInv, DeployShape, Locks, Makes, Drops, M!At, Closed,
                        ReferrersLater, M!ReferrersLater
  <2>2. ASSUME NEW d \in Deployers, UNCHANGED <<journal, schema>>,
               M!Up(d) \/ M!Down(d) \/ M!Fails(d) \/ M!Returns(d)
        PROVE  OrderInv'
    <3>1. \E op, plan : deploy' = [deploy EXCEPT ![d] = M!Run(op, plan)]
      BY <2>2, Zenon DEF M!Up, M!Down, M!Fails, M!Returns, M!Goes, M!Idle
    <3> QED
      BY <1>2, <2>2, <3>1, SchemaStays
  <2> QED
    BY <1>2, <2>1, <2>2, WhatCommits, UpKeepsOrder, DownKeepsOrder, CreatesKeepsOrder,
       DropsKeepsOrder
<1>3. OrderInv => ReferrersLater
  BY DEF OrderInv
<1> QED
  BY <1>1, <1>2, <1>3, PTL DEF DatabaseSpec

-----------------------------------------------------------------------------
(***************************************************************************)
(* The partitions                                                          *)
(***************************************************************************)

Monday(n) == n \in Int /\ n % 7 = 0

LEMMA WeeksBegin ==
  ASSUME NEW n \in Int, NEW m \in Int
  PROVE  /\ Monday(R!weekStart(n)) /\ R!weekStart(n) <= n /\ n < R!weekStart(n) + 7
         /\ Monday(n) => Monday(R!addWeeks(n, m))
         /\ R!addWeeks(n, m) = n + 7 * m
BY DEF Monday, R!weekStart, R!addWeeks, R!Week

LEMMA SameWeek ==
  ASSUME NEW f \in Int, NEW m \in Int, NEW n \in Int, f % 7 = 0, m % 7 = 0, n % 7 = 0,
         (m - f) \div 7 + 1 = (n - f) \div 7 + 1
  PROVE  m = n
OBVIOUS

\* partitions.ts, partitionName: two weeks never share a name, nor do two tables, however
\* the years begin.
THEOREM NamesAreDistinct ==
  ASSUME NEW p \in R!Partition, NEW q \in R!Partition, Monday(p.start), Monday(q.start),
         R!partitionName(p) = R!partitionName(q)
  PROVE  p = q
<1> DEFINE year == NewYear[p.start]
           first == R!weekStart(year + 3)
<1>1. /\ p.start \in 0 .. MaxDay + 7 * WeeksAhead
      /\ p.table \in R!ToSet(Tables) /\ q.table \in R!ToSet(Tables)
      /\ p = [table |-> p.table, start |-> p.start]
      /\ q = [table |-> q.table, start |-> q.start]
  BY DEF R!Partition, R!addWeeks, R!Week
<1>2. year \in Int
  BY <1>1, DatabaseAssumption
<1>3. /\ p.table = q.table /\ year = NewYear[q.start]
      /\ (p.start - first) \div 7 + 1 = (q.start - R!weekStart(NewYear[q.start] + 3)) \div 7 + 1
  BY DEF R!partitionName, R!Week
<1> HIDE DEF year
<1>4. Monday(first)
  BY <1>2, WeeksBegin
<1>5. (p.start - first) \div 7 + 1 = (q.start - first) \div 7 + 1
  BY <1>3
<1> HIDE DEF first
<1>6. p.start = q.start
  BY <1>4, <1>5, SameWeek DEF Monday
<1> QED
  BY <1>1, <1>3, <1>6

\* A week that ends before the retention window.
Past(start) == start + 7 < day - KeepDays

\* The week, unless it is past, has its partition of the table.
Kept(table, start) ==
  ~Past(start) => [table |-> table, start |-> start, attached |-> TRUE] \in partitions

\* Every week that a run from a day on was to see to, of one table.
Week(since, ahead) == R!weekStart(since) + 7 * ahead

JobsTyped ==
  /\ day \in Nat /\ Start <= day /\ day <= MaxDay
  /\ ensure \in [step : {"idle", "look", "create"}, table : Nat \ {0},
                 ahead : 0 .. WeeksAhead, now : Nat, undone : BOOLEAN]
  /\ ensure.now <= day
  /\ ensure.step = "create" => ensure.table <= Len(Tables)
  /\ retain.step = "drop" => retain.todo # <<>>
  /\ retain \in [step : {"idle", "detach", "drop"}, todo : Seq(R!Partition)]
  /\ ensuredOn # NeverRun => ensuredOn \in Nat /\ ensuredOn <= day

\* What is or was a partition is a whole week of one of the tables.
WeeksOnly ==
  \A x \in partitions :
    /\ [table |-> x.table, start |-> x.start] \in R!Partition
    /\ x = [table |-> x.table, start |-> x.start, attached |-> x.attached]
    /\ x.attached \in BOOLEAN
    /\ Monday(x.start)

\* Only what is past is taken off its table.
OnlyPastGoes ==
  /\ \A k \in DOMAIN retain.todo : Past(retain.todo[k].start)
  /\ \A x \in partitions : ~x.attached => Past(x.start)

\* A run has seen to all weeks of the tables it is done with, and to some of the
\* table it is at.
RunKeeps ==
  ensure.step # "idle" /\ ~ensure.undone =>
    \A t \in 1 .. Len(Tables), a \in 0 .. WeeksAhead :
      t < ensure.table \/ (t = ensure.table /\ a < ensure.ahead)
        => Kept(Tables[t], Week(ensure.now, a))

LastRunKeeps ==
  ensuredOn # NeverRun =>
    \A t \in 1 .. Len(Tables), a \in 0 .. WeeksAhead :
      Kept(Tables[t], Week(ensuredOn, a))

MadeKept == made \subseteq R!Partition /\ \A p \in made : Kept(p.table, p.start)

RotationInv == JobsTyped /\ WeeksOnly /\ OnlyPastGoes /\ RunKeeps /\ LastRunKeeps /\ MadeKept

LEMMA WeekIsMonday ==
  ASSUME NEW since \in Nat, NEW a \in 0 .. WeeksAhead, since <= MaxDay
  PROVE  Week(since, a) \in 0 .. MaxDay + 7 * WeeksAhead /\ Monday(Week(since, a))
<1>1. WeeksAhead \in Nat /\ MaxDay \in Nat
  BY DatabaseAssumption
<1> QED
  BY <1>1 DEF Week, Monday, R!weekStart, R!Week

LEMMA WeekOfRun ==
  ASSUME JobsTyped PROVE \E start \in Int : start = Week(ensure.now, ensure.ahead)
<1>1. ensure.now \in Nat /\ ensure.ahead \in Int
  BY DatabaseAssumption DEF JobsTyped
<1>2. Week(ensure.now, ensure.ahead) \in Int
  BY <1>1 DEF Week, R!weekStart, R!Week
<1> QED
  BY <1>2

\* A partition that is not past stays where it is.
Loses == \A x \in partitions \ partitions' : x.attached => Past(x.start)'

LEMMA Later ==
  ASSUME NEW keep \in Nat, NEW d \in Nat, NEW e \in Nat, d <= e, NEW start \in Int
  PROVE  start + 7 < d - keep => start + 7 < e - keep
OBVIOUS

LEMMA KeptStays ==
  ASSUME JobsTyped, day' \in Nat, day <= day', Loses,
         NEW table, NEW start \in Int, Kept(table, start)
  PROVE  Kept(table, start)'
<1>1. KeepDays \in Nat /\ day \in Nat
  BY DatabaseAssumption DEF JobsTyped
<1>2. start + 7 < day - KeepDays => start + 7 < day' - KeepDays
  BY <1>1, Later
<1>3. Past(start) => Past(start)'
  BY <1>2 DEF Past
<1>4. ASSUME ~Past(start)'
      PROVE  [table |-> table, start |-> start, attached |-> TRUE] \in partitions'
  BY <1>3, <1>4 DEF Kept, Loses
<1> QED
  BY <1>4 DEF Kept

LEMMA OthersStay ==
  ASSUME RotationInv, day' \in Nat, day <= day', Loses
  PROVE  /\ ensure' = ensure => RunKeeps'
         /\ ensuredOn' = ensuredOn => LastRunKeeps'
         /\ made' = made => MadeKept'
<1> USE DEF RotationInv
<1>0. WeeksAhead \in Nat
  BY DatabaseAssumption
<1>1. ASSUME ensure' = ensure PROVE RunKeeps'
  <2> SUFFICES ASSUME ensure.step # "idle", ~ensure.undone,
                      NEW t \in 1 .. Len(Tables), NEW a \in 0 .. WeeksAhead,
                      t < ensure.table \/ (t = ensure.table /\ a < ensure.ahead)
               PROVE  Kept(Tables[t], Week(ensure.now, a))'
    BY <1>1 DEF RunKeeps
  <2>1. Kept(Tables[t], Week(ensure.now, a))
    BY DEF RunKeeps
  <2>2. Week(ensure.now, a) \in Int
    BY <1>0 DEF JobsTyped, Week, R!weekStart, R!Week
  <2>3. \A start \in Int : Kept(Tables[t], start) => Kept(Tables[t], start)'
    BY KeptStays
  <2>4. Week(ensure.now, a)' = Week(ensure.now, a)
    BY <1>1
  <2> QED
    BY <2>1, <2>2, <2>3, <2>4
<1>2. ASSUME ensuredOn' = ensuredOn PROVE LastRunKeeps'
  <2> SUFFICES ASSUME ensuredOn # NeverRun,
                      NEW t \in 1 .. Len(Tables), NEW a \in 0 .. WeeksAhead
               PROVE  Kept(Tables[t], Week(ensuredOn, a))'
    BY <1>2 DEF LastRunKeeps
  <2>1. Kept(Tables[t], Week(ensuredOn, a))
    BY DEF LastRunKeeps
  <2>2. Week(ensuredOn, a) \in Int
    BY <1>0 DEF JobsTyped, Week, R!weekStart, R!Week
  <2>3. \A start \in Int : Kept(Tables[t], start) => Kept(Tables[t], start)'
    BY KeptStays
  <2>4. Week(ensuredOn, a)' = Week(ensuredOn, a)
    BY <1>2
  <2> QED
    BY <2>1, <2>2, <2>3, <2>4
<1>3. ASSUME made' = made PROVE MadeKept'
  <2> SUFFICES ASSUME NEW p \in made PROVE Kept(p.table, p.start)'
    BY <1>3 DEF MadeKept
  <2>1. Kept(p.table, p.start) /\ p.start \in Int
    BY <1>0, DatabaseAssumption DEF MadeKept, R!Partition, R!addWeeks, R!Week
  <2> QED
    BY <2>1, KeptStays
<1> QED
  BY <1>1, <1>2, <1>3

-----------------------------------------------------------------------------
LEMMA RotationInit == DatabaseInit => RotationInv
<1> SUFFICES ASSUME DatabaseInit PROVE RotationInv
  OBVIOUS
<1>1. /\ day = Start /\ partitions = {} /\ ensure = R!Unstarted /\ retain = R!Resting
      /\ ensuredOn = NeverRun /\ made = {}
  BY DEF DatabaseInit, R!Init
<1>2. Start \in Nat /\ Start <= MaxDay /\ 0 \in 0 .. WeeksAhead
  BY DatabaseAssumption
<1>3. retain.todo = <<>> /\ retain.step = "idle"
      /\ retain \in [step : {"idle", "detach", "drop"}, todo : Seq(R!Partition)]
  BY <1>1 DEF R!Resting
<1>4. JobsTyped
  BY <1>1, <1>2, <1>3 DEF R!Unstarted, JobsTyped
<1>5. OnlyPastGoes /\ WeeksOnly /\ RunKeeps /\ LastRunKeeps /\ MadeKept
  BY <1>1, <1>3 DEF OnlyPastGoes, WeeksOnly, RunKeeps, LastRunKeeps, MadeKept, R!Unstarted
<1> QED
  BY <1>4, <1>5 DEF RotationInv

\* What a run of ensurePartitions is at.
LEMMA WantedIs ==
  ASSUME JobsTyped, ensure.step # "idle", ensure.table <= Len(Tables)
  PROVE  LET p == R!Wanted(ensure) IN
         /\ p \in R!Partition /\ Monday(p.start)
         /\ p = [table |-> Tables[ensure.table], start |-> Week(ensure.now, ensure.ahead)]
         /\ ensure.table \in 1 .. Len(Tables) /\ ensure.ahead \in 0 .. WeeksAhead
<1> DEFINE p == R!Wanted(ensure)
<1>1. /\ ensure.table \in 1 .. Len(Tables) /\ ensure.ahead \in 0 .. WeeksAhead
      /\ ensure.now \in Nat /\ ensure.now <= MaxDay
  BY DatabaseAssumption DEF JobsTyped
<1>2. p = [table |-> Tables[ensure.table], start |-> Week(ensure.now, ensure.ahead)]
  BY DEF R!Wanted, R!addWeeks, R!weekStart, R!Week, Week
<1>3. Tables[ensure.table] \in R!ToSet(Tables)
  BY <1>1, DatabaseAssumption DEF R!ToSet
<1>4. Week(ensure.now, ensure.ahead) \in 0 .. MaxDay + 7 * WeeksAhead
      /\ Monday(Week(ensure.now, ensure.ahead))
  BY <1>1, WeekIsMonday
<1>5. p \in R!Partition
  BY <1>2, <1>3, <1>4 DEF R!Partition, R!addWeeks, R!Week
<1> QED
  BY <1>1, <1>2, <1>4, <1>5

\* Where it goes on.
LEMMA OnwardIs ==
  ASSUME JobsTyped, ensure.step # "idle", ensure.table <= Len(Tables),
         ensure' = R!Onward(ensure)
  PROVE  /\ ensure' \in [step : {"idle", "look", "create"}, table : Nat \ {0},
                        ahead : 0 .. WeeksAhead, now : Nat, undone : BOOLEAN]
         /\ ensure'.step = "look" /\ ensure'.now = ensure.now /\ ensure'.undone = ensure.undone
         /\ \A t \in Nat, a \in 0 .. WeeksAhead :
              t < ensure'.table \/ (t = ensure'.table /\ a < ensure'.ahead) =>
                \/ t < ensure.table \/ (t = ensure.table /\ a < ensure.ahead)
                \/ t = ensure.table /\ a = ensure.ahead
<1>1. /\ ensure.table \in Nat \ {0} /\ ensure.ahead \in 0 .. WeeksAhead /\ WeeksAhead \in Nat
      /\ ensure.now \in Nat /\ ensure.undone \in BOOLEAN
      /\ ensure = [step |-> ensure.step, table |-> ensure.table, ahead |-> ensure.ahead,
                   now |-> ensure.now, undone |-> ensure.undone]
  BY DatabaseAssumption DEF JobsTyped
<1>2. CASE ensure.ahead < WeeksAhead
  <2>1. ensure' = [step |-> "look", table |-> ensure.table, ahead |-> ensure.ahead + 1,
                   now |-> ensure.now, undone |-> ensure.undone]
    BY <1>1, <1>2 DEF R!Onward
  <2>2. ensure.ahead + 1 \in 0 .. WeeksAhead
    BY <1>1, <1>2
  <2> QED
    BY <1>1, <2>1, <2>2
<1>3. CASE ~(ensure.ahead < WeeksAhead)
  <2>1. ensure' = [step |-> "look", table |-> ensure.table + 1, ahead |-> 0,
                   now |-> ensure.now, undone |-> ensure.undone]
    BY <1>1, <1>3 DEF R!Onward
  <2>2. ensure.table + 1 \in Nat \ {0} /\ 0 \in 0 .. WeeksAhead /\ ensure.ahead = WeeksAhead
    BY <1>1, <1>3
  <2>3. \A t \in Nat, a \in 0 .. WeeksAhead :
          t < ensure.table + 1 \/ (t = ensure.table + 1 /\ a < 0) =>
            \/ t < ensure.table \/ (t = ensure.table /\ a < WeeksAhead)
            \/ t = ensure.table /\ a = WeeksAhead
    BY <1>1
  <2> QED
    BY <1>1, <2>1, <2>2, <2>3
<1> QED
  BY <1>2, <1>3

\* A table of the name that is looked for is the partition itself; if it is off its
\* table already, its week is past.
LEMMA FoundIsKept ==
  ASSUME RotationInv, ensure.step # "idle", ensure.table <= Len(Tables),
         R!Named(R!Wanted(ensure)) # {}
  PROVE  Kept(Tables[ensure.table], Week(ensure.now, ensure.ahead))
<1> DEFINE p == R!Wanted(ensure)
<1> USE DEF RotationInv
<1>1. /\ p \in R!Partition /\ Monday(p.start)
      /\ p = [table |-> Tables[ensure.table], start |-> Week(ensure.now, ensure.ahead)]
  BY WantedIs
<1>2. PICK x \in partitions : R!partitionName(x) = R!partitionName(p)
  BY DEF R!Named
<1> HIDE DEF p
<1> DEFINE q == [table |-> x.table, start |-> x.start]
<1>3. /\ q \in R!Partition /\ Monday(q.start) /\ x.attached \in BOOLEAN
      /\ x = [table |-> x.table, start |-> x.start, attached |-> x.attached]
  BY DEF WeeksOnly
<1>4. R!partitionName(q) = R!partitionName(x)
  BY DEF R!partitionName
<1>5. q = p
  BY <1>1, <1>2, <1>3, <1>4, NamesAreDistinct
<1>6. x.table = Tables[ensure.table] /\ x.start = Week(ensure.now, ensure.ahead)
  BY <1>1, <1>5
<1>7. CASE x.attached
  BY <1>2, <1>3, <1>6, <1>7 DEF Kept
<1>8. CASE ~x.attached
  BY <1>2, <1>6, <1>8 DEF Kept, OnlyPastGoes
<1> QED
  BY <1>7, <1>8

LEMMA RunGoesOn ==
  ASSUME RotationInv, ensure.step # "idle", ensure.table <= Len(Tables), ensure' = R!Onward(ensure),
         UNCHANGED <<day, retain, ensuredOn>>, Loses,
         NEW start \in Int, start = Week(ensure.now, ensure.ahead),
         NEW table, table = Tables[ensure.table], Kept(table, start)',
         WeeksOnly', OnlyPastGoes', MadeKept'
  PROVE  RotationInv'
<1> USE DEF RotationInv
<1>1. /\ ensure' \in [step : {"idle", "look", "create"}, table : Nat \ {0},
                        ahead : 0 .. WeeksAhead, now : Nat, undone : BOOLEAN]
      /\ ensure'.step = "look" /\ ensure'.now = ensure.now /\ ensure'.undone = ensure.undone
      /\ \A t \in Nat, a \in 0 .. WeeksAhead :
           t < ensure'.table \/ (t = ensure'.table /\ a < ensure'.ahead) =>
             \/ t < ensure.table \/ (t = ensure.table /\ a < ensure.ahead)
             \/ t = ensure.table /\ a = ensure.ahead
  BY OnwardIs
<1>2. JobsTyped'
  BY <1>1 DEF JobsTyped
<1>3. LastRunKeeps'
  BY OthersStay DEF JobsTyped
<1>4. RunKeeps'
  <2>1. PICK since \in Nat : since = ensure.now
    BY DEF JobsTyped
  <2> SUFFICES ASSUME ~ensure.undone, NEW t \in 1 .. Len(Tables), NEW a \in 0 .. WeeksAhead,
                      t < ensure'.table \/ (t = ensure'.table /\ a < ensure'.ahead)
               PROVE  Kept(Tables[t], Week(since, a))'
    BY <1>1, <2>1 DEF RunKeeps, Week
  <2>2. CASE t < ensure.table \/ (t = ensure.table /\ a < ensure.ahead)
    <3>1. Kept(Tables[t], Week(since, a))
      BY <2>1, <2>2 DEF RunKeeps
    <3>2. Week(since, a) \in Int
      BY DatabaseAssumption DEF Week, R!weekStart, R!Week
    <3> QED
      BY <3>1, <3>2, KeptStays DEF JobsTyped
  <2>3. CASE t = ensure.table /\ a = ensure.ahead
    BY <2>1, <2>3
  <2> QED
    BY <1>1, <2>2, <2>3
<1> QED
  BY <1>2, <1>3, <1>4

\* What a step that leaves the partitions and the plan of the retention job alone has to
\* show of the runs.
LEMMA SamePartitions ==
  ASSUME RotationInv, UNCHANGED <<day, partitions, made>>
  PROVE  Loses /\ WeeksOnly' /\ MadeKept' /\ (retain' = retain => OnlyPastGoes')
<1> USE DEF RotationInv
<1>1. Loses
  BY DEF Loses
<1>2. WeeksOnly'
  BY DEF WeeksOnly
<1>3. MadeKept'
  BY <1>1, OthersStay DEF JobsTyped
<1>4. ASSUME retain' = retain PROVE OnlyPastGoes'
  BY <1>4 DEF OnlyPastGoes, Past
<1> QED
  BY <1>1, <1>2, <1>3, <1>4

LEMMA EnsureStartsKeeps ==
  ASSUME RotationInv, R!EnsureStarts PROVE RotationInv'
<1> USE DEF RotationInv
<1>1. /\ ensure' = [step |-> "look", table |-> 1, ahead |-> 0, now |-> day, undone |-> FALSE]
      /\ UNCHANGED <<day, partitions, retain, ensuredOn, made>>
  BY DEF R!EnsureStarts, R!Unstarted
<1>2. Loses /\ WeeksOnly' /\ MadeKept' /\ OnlyPastGoes'
  BY <1>1, SamePartitions
<1>3. 0 \in 0 .. WeeksAhead
  BY DatabaseAssumption
<1>4. JobsTyped'
  BY <1>1, <1>3 DEF JobsTyped
<1>5. LastRunKeeps'
  BY <1>1, <1>2, OthersStay DEF JobsTyped
<1>6. RunKeeps'
  BY <1>1, DatabaseAssumption DEF RunKeeps
<1> QED
  BY <1>2, <1>4, <1>5, <1>6

LEMMA EnsureLooksKeeps ==
  ASSUME RotationInv, R!EnsureLooks PROVE RotationInv'
<1> USE DEF RotationInv
<1>1. /\ ensure.step = "look" /\ ensure.table <= Len(Tables)
      /\ UNCHANGED <<day, partitions, retain, ensuredOn, made>>
  BY DatabaseAssumption DEF R!EnsureLooks, R!SeenToAll, JobsTyped
<1>2. Loses /\ WeeksOnly' /\ MadeKept' /\ OnlyPastGoes'
  BY <1>1, SamePartitions
<1>3. CASE R!Named(R!Wanted(ensure)) = {}
  <2>1. ensure' = [ensure EXCEPT !.step = "create"]
    BY <1>3 DEF R!EnsureLooks
  <2>2. /\ ensure'.table = ensure.table /\ ensure'.ahead = ensure.ahead
        /\ ensure'.now = ensure.now /\ ensure'.undone = ensure.undone
        /\ ensure' \in [step : {"idle", "look", "create"}, table : Nat \ {0},
                        ahead : 0 .. WeeksAhead, now : Nat, undone : BOOLEAN]
    BY <2>1 DEF JobsTyped
  <2>3. JobsTyped'
    BY <1>1, <2>2 DEF JobsTyped
  <2>4. LastRunKeeps'
    BY <1>1, <1>2, OthersStay DEF JobsTyped
  <2>5. RunKeeps'
    BY <1>1, <2>2 DEF RunKeeps, Kept, Past, Week
  <2> QED
    BY <1>2, <2>3, <2>4, <2>5
<1>4. CASE R!Named(R!Wanted(ensure)) # {}
  <2>1. ensure' = R!Onward(ensure)
    BY <1>4 DEF R!EnsureLooks
  <2>2. PICK start \in Int : start = Week(ensure.now, ensure.ahead)
    BY WeekOfRun
  <2>3. PICK table : table = Tables[ensure.table]
    OBVIOUS
  <2>4. Kept(table, start)
    BY <1>1, <1>4, <2>2, <2>3, FoundIsKept
  <2>5. Kept(table, start)'
    BY <1>1, <2>4 DEF Kept, Past
  <2> QED
    BY <1>1, <1>2, <2>1, <2>2, <2>3, <2>5, RunGoesOn
<1> QED
  BY <1>3, <1>4

LEMMA EnsureCreatesKeeps ==
  ASSUME RotationInv, R!EnsureCreates PROVE RotationInv'
<1> USE DEF RotationInv
<1>1. /\ ensure.step = "create" /\ ensure.table <= Len(Tables)
      /\ ensure' = R!Onward(ensure)
      /\ UNCHANGED <<day, retain, ensuredOn>>
  BY DEF R!EnsureCreates, JobsTyped
<1>2. PICK start \in Int : start = Week(ensure.now, ensure.ahead)
  BY WeekOfRun
<1>3. PICK table : table = Tables[ensure.table]
  OBVIOUS
<1>4. CASE R!Named(R!Wanted(ensure)) # {}
  <2>1. UNCHANGED <<partitions, made>>
    BY <1>4 DEF R!EnsureCreates
  <2>2. Loses /\ WeeksOnly' /\ MadeKept' /\ OnlyPastGoes'
    BY <1>1, <2>1, SamePartitions
  <2>3. Kept(table, start)
    BY <1>1, <1>2, <1>3, <1>4, FoundIsKept
  <2>4. Kept(table, start)'
    BY <1>1, <2>1, <2>3 DEF Kept, Past
  <2> QED
    BY <1>1, <1>2, <1>3, <2>2, <2>4, RunGoesOn
<1>5. CASE R!Named(R!Wanted(ensure)) = {}
  <2> DEFINE p == [table |-> table, start |-> start]
             x == [table |-> table, start |-> start, attached |-> TRUE]
  <2>1. R!Wanted(ensure) = p /\ p \in R!Partition /\ Monday(p.start)
    BY <1>1, <1>2, <1>3, WantedIs
  <2>2. partitions' = partitions \cup {x} /\ made' = made \cup {p}
    BY <1>5, <2>1 DEF R!EnsureCreates, R!As
  <2>3. Loses
    BY <2>2 DEF Loses
  <2>4. WeeksOnly'
    <3>1. [table |-> x.table, start |-> x.start] = p /\ x.start = p.start
      OBVIOUS
    <3>2. x = [table |-> x.table, start |-> x.start, attached |-> x.attached]
          /\ x.attached \in BOOLEAN
      OBVIOUS
    <3> HIDE DEF x, p
    <3> QED
      BY <2>1, <2>2, <3>1, <3>2 DEF WeeksOnly
  <2>5. OnlyPastGoes'
    BY <1>1, <2>2 DEF OnlyPastGoes, Past
  <2>6. Kept(table, start)'
    BY <2>2 DEF Kept
  <2>7. MadeKept'
    <3>1. \A q \in made : Kept(q.table, q.start)'
      <4> SUFFICES ASSUME NEW q \in made PROVE Kept(q.table, q.start)'
        OBVIOUS
      <4>1. Kept(q.table, q.start) /\ q.start \in Int
        BY DatabaseAssumption DEF MadeKept, R!Partition, R!addWeeks, R!Week
      <4> QED
        BY <1>1, <2>3, <4>1, KeptStays DEF JobsTyped
    <3> QED
      BY <2>1, <2>2, <2>6, <3>1 DEF MadeKept, R!Partition
  <2> QED
    BY <1>1, <1>2, <1>3, <2>3, <2>4, <2>5, <2>6, <2>7, RunGoesOn
<1> QED
  BY <1>4, <1>5

LEMMA EnsureEndsKeeps ==
  ASSUME RotationInv, R!EnsureEnds PROVE RotationInv'
<1> USE DEF RotationInv
<1>1. /\ ensure.step = "look" /\ ensure.table > Len(Tables)
      /\ ensure' = R!Unstarted
      /\ UNCHANGED <<day, partitions, retain, made>>
  BY DEF R!EnsureEnds, R!SeenToAll
<1>2. Loses /\ WeeksOnly' /\ MadeKept' /\ OnlyPastGoes'
  BY <1>1, SamePartitions
<1>3. RunKeeps' /\ ensure' \in [step : {"idle", "look", "create"}, table : Nat \ {0},
                        ahead : 0 .. WeeksAhead, now : Nat, undone : BOOLEAN]
      /\ ensure'.step = "idle" /\ ensure'.now <= day
  BY <1>1, DatabaseAssumption DEF R!Unstarted, RunKeeps, JobsTyped
<1>4. CASE ensure.undone
  <2>1. ensuredOn' = ensuredOn
    BY <1>4 DEF R!EnsureEnds
  <2>2. LastRunKeeps'
    BY <1>1, <1>2, <2>1, OthersStay DEF JobsTyped
  <2>3. JobsTyped'
    BY <1>1, <1>3, <2>1 DEF JobsTyped
  <2> QED
    BY <1>2, <1>3, <2>2, <2>3
<1>5. CASE ~ensure.undone
  <2>1. ensuredOn' = ensure.now
    BY <1>5 DEF R!EnsureEnds
  <2>2. JobsTyped'
    BY <1>1, <1>3, <2>1 DEF JobsTyped
  <2>3. \A t \in 1 .. Len(Tables), a \in 0 .. WeeksAhead :
          Kept(Tables[t], Week(ensure.now, a))
    BY <1>1, <1>5, DatabaseAssumption DEF RunKeeps, JobsTyped
  <2>4. LastRunKeeps'
    BY <1>1, <2>1, <2>3 DEF LastRunKeeps, Kept, Past, Week
  <2> QED
    BY <1>2, <1>3, <2>2, <2>4
<1> QED
  BY <1>4, <1>5

\* A run that ends early says nothing of the weeks.
LEMMA EndsEarly ==
  ASSUME RotationInv, ensure' = R!Unstarted, day' \in {day}, UNCHANGED ensuredOn, Loses
  PROVE  /\ RunKeeps' /\ LastRunKeeps'
         /\ retain' = retain => JobsTyped'
<1> USE DEF RotationInv
<1>1. /\ ensure' \in [step : {"idle", "look", "create"}, table : Nat \ {0},
                       ahead : 0 .. WeeksAhead, now : Nat, undone : BOOLEAN]
      /\ ensure'.step = "idle" /\ ensure'.now <= day
  BY DatabaseAssumption DEF R!Unstarted, JobsTyped
<1>2. RunKeeps'
  BY <1>1 DEF RunKeeps
<1>3. LastRunKeeps'
  BY OthersStay DEF JobsTyped
<1>4. ASSUME retain' = retain PROVE JobsTyped'
  BY <1>1, <1>4 DEF JobsTyped
<1> QED
  BY <1>2, <1>3, <1>4

LEMMA EnsureRefusedKeeps ==
  ASSUME RotationInv, R!EnsureRefused PROVE RotationInv'
<1>1. ensure' = R!Unstarted /\ UNCHANGED <<day, partitions, retain, ensuredOn, made>>
  BY DEF R!EnsureRefused
<1>2. Loses /\ WeeksOnly' /\ MadeKept' /\ OnlyPastGoes'
  BY <1>1, SamePartitions
<1> QED
  BY <1>1, <1>2, EndsEarly DEF RotationInv

-----------------------------------------------------------------------------
\* The retention job has only a partition less to see to, or none.
LEMMA RetainsLess ==
  ASSUME RotationInv, UNCHANGED <<day, ensure, ensuredOn, made>>, Loses, WeeksOnly', OnlyPastGoes',
         retain' \in [step : {"idle", "detach", "drop"}, todo : Seq(R!Partition)],
         retain'.step = "drop" => retain'.todo # <<>>
  PROVE  RotationInv'
<1> USE DEF RotationInv
<1>1. JobsTyped'
  BY DEF JobsTyped
<1>2. RunKeeps' /\ LastRunKeeps' /\ MadeKept'
  BY OthersStay DEF JobsTyped
<1> QED
  BY <1>1, <1>2

\* There are finitely many weeks to a partition.
LEMMA FinitePartitions ==
  ASSUME NEW S \in SUBSET R!Partition PROVE R!Cardinality(S) \in Nat
<1> DEFINE T == R!ToSet(Tables)
           I == 0 .. R!addWeeks(MaxDay, WeeksAhead)
           at == [k \in T \X I |-> [table |-> k[1], start |-> k[2]]]
<1>1. Tables \in Seq(ToSet(Tables)) /\ R!addWeeks(MaxDay, WeeksAhead) \in Nat
  BY DatabaseAssumption DEF R!addWeeks, R!Week
<1>2. IsFiniteSet(T)
  <2>1. IsFiniteSet(1 .. Len(Tables)) /\ DOMAIN Tables = 1 .. Len(Tables)
        /\ Tables = [i \in DOMAIN Tables |-> Tables[i]]
    BY <1>1, FS_Interval
  <2>2. Tables \in Surjection(1 .. Len(Tables), T)
    BY <2>1 DEF R!ToSet, Surjection
  <2> QED
    BY <2>1, <2>2, FS_Surjection
<1>3. IsFiniteSet(T \X I)
  <2>1. IsFiniteSet(I)
    BY <1>1, FS_Interval
  <2> HIDE DEF T, I
  <2> QED
    BY <1>2, <2>1, FS_Product
<1>4. at \in Surjection(T \X I, R!Partition)
  <2>1. \A p \in R!Partition : <<p.table, p.start>> \in T \X I /\ at[<<p.table, p.start>>] = p
    BY DEF R!Partition
  <2>2. \A k \in T \X I : at[k] \in R!Partition
    BY DEF R!Partition
  <2> QED
    BY <2>1, <2>2 DEF Surjection
<1>5. IsFiniteSet(R!Partition)
  BY <1>3, <1>4, FS_Surjection
<1>6. Cardinality(S) \in Nat
  BY <1>5, FS_Subset, FS_CardinalityType
<1>7. R!Cardinality(S) = Cardinality(S)
  BY Zenon DEF R!Cardinality, Cardinality
<1> QED
  BY <1>6, <1>7

LEMMA RetainStartsKeeps ==
  ASSUME RotationInv, R!RetainStarts PROVE RotationInv'
<1> USE DEF RotationInv
<1> DEFINE due == {[table |-> x.table, start |-> x.start] : x \in R!expired(day)}
<1>1. UNCHANGED <<day, partitions, ensure, ensuredOn, made>>
  BY DEF R!RetainStarts
<1>2. Loses /\ WeeksOnly' /\ MadeKept'
  BY <1>1, SamePartitions
<1>3. PICK todo \in [1 .. R!Cardinality(due) -> due] :
        retain' = [step |-> "detach", todo |-> todo]
  BY DEF R!RetainStarts
<1>4. \A p \in due : p \in R!Partition /\ Past(p.start)
  BY DEF R!expired, R!addWeeks, R!Week, Past, WeeksOnly
<1> HIDE DEF due
<1>5. /\ \A k \in DOMAIN todo : todo[k] \in R!Partition /\ Past(todo[k].start)
      /\ retain'.todo = todo /\ retain'.step = "detach"
  BY <1>3, <1>4
<1>6. OnlyPastGoes'
  BY <1>1, <1>5 DEF OnlyPastGoes, Past
<1>7. R!Cardinality(due) \in Nat
  BY <1>4, FinitePartitions
<1>8. todo \in Seq(R!Partition)
  BY <1>5, <1>7
<1>9. retain' \in [step : {"idle", "detach", "drop"}, todo : Seq(R!Partition)]
  BY <1>3, <1>8
<1> QED
  BY <1>1, <1>2, <1>5, <1>6, <1>9, RetainsLess

\* What it is at is past.
LEMMA HeadIsPast ==
  ASSUME RotationInv, retain.todo # <<>>
  PROVE  Head(retain.todo) \in R!Partition /\ Past(Head(retain.todo).start)
<1>1. retain.todo \in Seq(R!Partition) /\ \A k \in DOMAIN retain.todo : Past(retain.todo[k].start)
  BY DEF RotationInv, JobsTyped, OnlyPastGoes
<1>2. 1 \in DOMAIN retain.todo /\ Head(retain.todo) = retain.todo[1]
  BY <1>1
<1> QED
  BY <1>1, <1>2

LEMMA RetainDetachesKeeps ==
  ASSUME RotationInv, R!RetainDetaches PROVE RotationInv'
<1> USE DEF RotationInv
<1>1. PICK p \in R!Partition : p = Head(retain.todo) /\ Past(p.start)
  BY HeadIsPast DEF R!RetainDetaches
<1> DEFINE x == [table |-> p.table, start |-> p.start, attached |-> TRUE]
           y == [table |-> p.table, start |-> p.start, attached |-> FALSE]
<1>2. /\ x \in partitions /\ partitions' = (partitions \ {x}) \cup {y}
      /\ retain'.todo = retain.todo
      /\ retain' \in [step : {"idle", "detach", "drop"}, todo : Seq(R!Partition)]
      /\ retain'.todo # <<>>
      /\ UNCHANGED <<day, ensure, ensuredOn, made>>
  <2>1. retain' = [retain EXCEPT !.step = "drop"]
    BY DEF R!RetainDetaches
  <2>2. /\ retain'.todo = retain.todo
        /\ retain' \in [step : {"idle", "detach", "drop"}, todo : Seq(R!Partition)]
    BY <2>1 DEF JobsTyped
  <2> QED
    BY <1>1, <2>2 DEF R!RetainDetaches, R!As
<1>3. Loses
  BY <1>1, <1>2 DEF Loses, Past
<1>4. WeeksOnly'
  <2>1. Monday(p.start) /\ [table |-> p.table, start |-> p.start] \in R!Partition
    BY <1>2 DEF WeeksOnly
  <2>2. /\ y.table = p.table /\ y.start = p.start /\ y.attached = FALSE
        /\ y = [table |-> y.table, start |-> y.start, attached |-> y.attached]
    OBVIOUS
  <2> HIDE DEF x, y
  <2> QED
    BY <1>2, <2>1, <2>2 DEF WeeksOnly
<1>5. OnlyPastGoes'
  BY <1>1, <1>2 DEF OnlyPastGoes, Past
<1> QED
  BY <1>2, <1>3, <1>4, <1>5, RetainsLess

LEMMA RetainDropsKeeps ==
  ASSUME RotationInv, R!RetainDrops PROVE RotationInv'
<1> USE DEF RotationInv
<1>1. retain.todo # <<>> /\ retain.todo \in Seq(R!Partition)
  BY DEF R!RetainDrops, JobsTyped
<1>2. PICK p \in R!Partition : p = Head(retain.todo)
  BY <1>1, HeadIsPast
<1>3. /\ partitions' = partitions \ {[table |-> p.table, start |-> p.start, attached |-> FALSE]}
      /\ UNCHANGED <<day, ensure, ensuredOn, made>>
  BY <1>2 DEF R!RetainDrops, R!As
<1>4. /\ retain'.step = "detach" /\ retain'.todo = Tail(retain.todo)
      /\ retain' \in [step : {"idle", "detach", "drop"}, todo : Seq(R!Partition)]
  <2>1. retain' = [retain EXCEPT !.step = "detach", !.todo = Tail(@)]
        /\ retain \in [step : {"idle", "detach", "drop"}, todo : Seq(R!Partition)]
    BY DEF R!RetainDrops, JobsTyped
  <2>2. Tail(retain.todo) \in Seq(R!Partition)
    BY <1>1
  <2> QED
    BY <2>1, <2>2
<1>5. Loses
  BY <1>3 DEF Loses
<1>6. WeeksOnly'
  BY <1>3 DEF WeeksOnly
<1>7. retain'.todo \in Seq(R!Partition)
      /\ \A k \in DOMAIN retain'.todo :
           \E n \in DOMAIN retain.todo : retain'.todo[k] = retain.todo[n]
  <2>1. \A k \in DOMAIN Tail(retain.todo) :
          k + 1 \in DOMAIN retain.todo /\ Tail(retain.todo)[k] = retain.todo[k + 1]
    BY <1>1
  <2> QED
    BY <1>1, <1>4, <2>1
<1>8. OnlyPastGoes'
  BY <1>3, <1>7 DEF OnlyPastGoes, Past
<1> QED
  BY <1>3, <1>4, <1>5, <1>6, <1>7, <1>8, RetainsLess

\* A retention job that ends, of itself or not, has nothing more to see to.
LEMMA RetentionEnds ==
  ASSUME RotationInv, retain' = R!Resting, UNCHANGED <<day, partitions, ensure, ensuredOn, made>>
  PROVE  RotationInv'
<1>1. Loses /\ WeeksOnly' /\ MadeKept'
  BY SamePartitions
<1>2. retain'.todo = <<>> /\ retain'.step = "idle"
      /\ retain' \in [step : {"idle", "detach", "drop"}, todo : Seq(R!Partition)]
  BY DEF R!Resting
<1>3. OnlyPastGoes'
  BY <1>2 DEF OnlyPastGoes, RotationInv, Past
<1> QED
  BY <1>1, <1>2, <1>3, RetainsLess

LEMMA CrashKeeps ==
  ASSUME RotationInv, R!Crash PROVE RotationInv'
<1>1. UNCHANGED <<day, partitions, ensuredOn, made>>
  BY DEF R!Crash
<1>2. CASE ensure' = R!Unstarted /\ UNCHANGED retain
  <2>1. Loses /\ WeeksOnly' /\ MadeKept' /\ OnlyPastGoes'
    BY <1>1, <1>2, SamePartitions
  <2> QED
    BY <1>1, <1>2, <2>1, EndsEarly DEF RotationInv
<1>3. CASE retain' = R!Resting /\ UNCHANGED ensure
  BY <1>1, <1>3, RetentionEnds
<1> QED
  BY <1>2, <1>3 DEF R!Crash

-----------------------------------------------------------------------------
\* A day later what is past is still past.
LEMMA TickKeeps ==
  ASSUME RotationInv, R!Tick PROVE RotationInv'
<1> USE DEF RotationInv
<1>1. /\ day < MaxDay /\ day' = day + 1 /\ day \in Nat /\ MaxDay \in Nat /\ KeepDays \in Nat
      /\ UNCHANGED <<partitions, ensure, retain, ensuredOn, made>>
  BY DatabaseAssumption DEF R!Tick, JobsTyped
<1>2. day' \in Nat /\ day <= day' /\ day' <= MaxDay
  BY <1>1
<1>3. JobsTyped'
  <2>1. Start \in Nat /\ Start <= day' /\ ensure.now <= day'
    BY <1>1, DatabaseAssumption DEF JobsTyped
  <2>2. ensuredOn # NeverRun => ensuredOn \in Nat /\ ensuredOn <= day'
    BY <1>1 DEF JobsTyped
  <2> QED
    BY <1>1, <1>2, <2>1, <2>2 DEF JobsTyped
<1>4. Loses
  BY <1>1 DEF Loses
<1>5. RunKeeps' /\ LastRunKeeps' /\ MadeKept'
  BY <1>1, <1>2, <1>4, OthersStay
<1>6. WeeksOnly'
  BY <1>1 DEF WeeksOnly
<1>7. ASSUME NEW start \in Int, Past(start) PROVE Past(start)'
  <2>1. start + 7 < day' - KeepDays
    BY <1>1, <1>2, <1>7, Later DEF Past
  <2> QED
    BY <2>1 DEF Past
<1>8. OnlyPastGoes'
  <2>1. \A k \in DOMAIN retain.todo : retain.todo[k].start \in Int
    <3>1. \A p \in R!Partition : p.start \in Int
      BY DEF R!Partition
    <3> QED
      BY <3>1 DEF JobsTyped
  <2>2. \A x \in partitions : x.start \in Int
    BY DEF WeeksOnly, Monday
  <2> QED
    BY <1>1, <1>7, <2>1, <2>2 DEF OnlyPastGoes
<1> QED
  BY <1>3, <1>5, <1>6, <1>8

LEMMA ParentsDroppedKeeps ==
  ASSUME RotationInv, R!ParentsDropped PROVE RotationInv'
<1> USE DEF RotationInv
<1>1. /\ partitions' = {x \in partitions : ~x.attached}
      /\ ensuredOn' = NeverRun /\ made' = {} /\ UNCHANGED <<day, retain>>
      /\ ensure' = [ensure EXCEPT !.undone = ensure.step # "idle"]
  BY DEF R!ParentsDropped
<1>2. /\ ensure' \in [step : {"idle", "look", "create"}, table : Nat \ {0},
                       ahead : 0 .. WeeksAhead, now : Nat, undone : BOOLEAN]
      /\ ensure'.step = ensure.step /\ ensure'.now = ensure.now
      /\ ensure'.table = ensure.table /\ ensure'.undone = (ensure.step # "idle")
  BY <1>1 DEF JobsTyped
<1>3. JobsTyped'
  BY <1>1, <1>2 DEF JobsTyped
<1>4. WeeksOnly'
  BY <1>1 DEF WeeksOnly
<1>5. OnlyPastGoes'
  BY <1>1 DEF OnlyPastGoes, Past
<1>6. RunKeeps' /\ LastRunKeeps' /\ MadeKept'
  BY <1>1, <1>2 DEF RunKeeps, LastRunKeeps, MadeKept
<1> QED
  BY <1>3, <1>4, <1>5, <1>6

LEMMA RotationStays ==
  ASSUME RotationInv, UNCHANGED rotation PROVE RotationInv'
<1>1. Loses /\ WeeksOnly' /\ MadeKept' /\ OnlyPastGoes'
  BY SamePartitions DEF rotation
<1> QED
  BY <1>1, RetainsLess DEF rotation, RotationInv, JobsTyped

LEMMA RotationNext == RotationInv /\ [DatabaseNext]_database => RotationInv'
<1> SUFFICES ASSUME RotationInv, [DatabaseNext]_database PROVE RotationInv'
  OBVIOUS
<1>1. CASE R!Ensure
  BY <1>1, EnsureStartsKeeps, EnsureLooksKeeps, EnsureCreatesKeeps, EnsureEndsKeeps,
     EnsureRefusedKeeps DEF R!Ensure
<1>2. CASE R!Retain
  <2>1. R!RetainEnds \/ R!RetainRefused => RotationInv'
    BY RetentionEnds DEF R!RetainEnds, R!RetainRefused
  <2> QED
    BY <1>2, <2>1, RetainStartsKeeps, RetainDetachesKeeps, RetainDropsKeeps DEF R!Retain
<1>3. CASE UNCHANGED rotation
  BY <1>3, RotationStays
<1> QED
  BY <1>1, <1>2, <1>3, CrashKeeps, TickKeeps, ParentsDroppedKeeps
  DEF DatabaseNext, Deploy, Rotate, R!Next, database

\* The day's week is one of those the last complete run saw to.
LEMMA WeekOfToday ==
  ASSUME NEW since \in Nat, NEW on \in Nat, on <= since, NEW ahead \in Nat,
         R!weekStart(since) <= R!addWeeks(R!weekStart(on), ahead)
  PROVE  \E a \in 0 .. ahead : Week(on, a) = R!weekStart(since)
<1> DEFINE a == (R!weekStart(since) - R!weekStart(on)) \div 7
<1>1. a \in 0 .. ahead /\ R!weekStart(on) + 7 * a = R!weekStart(since)
  BY DEF R!addWeeks, R!weekStart, R!Week
<1> QED
  BY <1>1 DEF Week

\* partitions.ts, ensurePartitions: a row of today has its partition in every table, for as
\* many weeks as the last complete run looked ahead.
THEOREM InsertsHold == DatabaseSpec => []InsertsFit
<1>1. RotationInv => InsertsFit
  <2> SUFFICES ASSUME RotationInv, ensuredOn # NeverRun,
                      R!weekStart(day) <= R!addWeeks(R!weekStart(ensuredOn), WeeksAhead),
                      NEW table \in R!ToSet(Tables)
               PROVE  [table |-> table, start |-> R!weekStart(day), attached |-> TRUE]
                        \in partitions
    BY DEF InsertsFit, R!InsertsFit
  <2>1. /\ day \in Nat /\ ensuredOn \in Nat /\ ensuredOn <= day
        /\ WeeksAhead \in Nat /\ KeepDays \in Nat
    BY DatabaseAssumption DEF RotationInv, JobsTyped
  <2>2. PICK t \in 1 .. Len(Tables) : table = Tables[t]
    <3>1. DOMAIN Tables = 1 .. Len(Tables)
      BY DatabaseAssumption
    <3> QED
      BY <3>1 DEF R!ToSet
  <2>3. PICK a \in 0 .. WeeksAhead : Week(ensuredOn, a) = R!weekStart(day)
    BY <2>1, WeekOfToday
  <2>4. ~Past(R!weekStart(day))
    BY <2>1 DEF Past, R!weekStart, R!Week
  <2> QED
    BY <2>2, <2>3, <2>4 DEF RotationInv, LastRunKeeps, Kept
<1> QED
  BY <1>1, RotationInit, RotationNext, PTL DEF DatabaseSpec

\* partitions.ts, expiredPartitions: a partition with a row inside the retention window
\* stays attached, short of a rollback.
THEOREM RetentionHolds == DatabaseSpec => []RetentionKept
<1>1. RotationInv => RetentionKept
  <2> SUFFICES ASSUME RotationInv, NEW p \in made, R!addWeeks(p.start, 1) >= day - KeepDays
               PROVE  R!As(p, TRUE) \in partitions
    BY DEF RetentionKept, R!RetentionKept
  <2>1. Kept(p.table, p.start) /\ p.start \in Int /\ day \in Nat /\ KeepDays \in Nat
    BY DatabaseAssumption DEF RotationInv, MadeKept, JobsTyped, R!Partition
  <2>2. ~Past(p.start)
    BY <2>1 DEF Past, R!addWeeks, R!Week
  <2> QED
    BY <2>1, <2>2 DEF Kept, R!As
<1> QED
  BY <1>1, RotationInit, RotationNext, PTL DEF DatabaseSpec
=============================================================================
