------------------------- MODULE HealthBuffer_proofs -------------------------
(***************************************************************************)
(* What ValkeyHealthStore's buffering keeps, for any gateways, bounds and  *)
(* ceilings: the types, what a close can lose, that the buffers            *)
(* implement HealthLog, and that a snapshot shows a gateway all its own.   *)
(*                                                                         *)
(* IInv has what is true of each gateway's connection and of where its     *)
(* observations are, KInv where the batch in flight is, JInv their order.  *)
(***************************************************************************)
EXTENDS HealthBuffer, SequenceTheorems, TLAPS

\* The commands of replies; all commands on the gateway's connection, oldest first.
Cmds(replies) == [k \in DOMAIN replies |-> replies[k].cmd]
Sent(r) == Cmds(back[r]) \o out[r]

LEMMA CmdsType ==
  ASSUME NEW b \in Seq(Reply)
  PROVE  Cmds(b) \in Seq(Command) /\ Len(Cmds(b)) = Len(b)
<1>1. DOMAIN b = 1 .. Len(b) /\ Len(b) \in Nat
  OBVIOUS
<1>2. ASSUME NEW k \in 1 .. Len(b) PROVE b[k].cmd \in Command
  <2>1. b[k] \in Reply
    BY <1>2
  <2> QED
    BY <2>1 DEF Reply
<1>3. Cmds(b) \in [1 .. Len(b) -> Command]
  BY <1>1, <1>2 DEF Cmds
<1>4. Cmds(b) \in Seq(Command)
  BY <1>1, <1>3
<1> QED
  BY <1>1, <1>3, <1>4

LEMMA CmdsAppend ==
  ASSUME NEW b \in Seq(Reply), NEW reply \in Reply
  PROVE  Cmds(Append(b, reply)) = Append(Cmds(b), reply.cmd)
<1> DEFINE c == Append(b, reply)
<1>1. c \in Seq(Reply) /\ Len(c) = Len(b) + 1 /\ reply.cmd \in Command
  BY DEF Reply
<1>2. Cmds(c) \in Seq(Command) /\ Len(Cmds(c)) = Len(b) + 1
  BY <1>1, CmdsType
<1>3. Cmds(b) \in Seq(Command) /\ Len(Cmds(b)) = Len(b)
  BY CmdsType
<1>4. \A k \in 1 .. Len(c) : Cmds(c)[k] = Append(Cmds(b), reply.cmd)[k]
  <2> SUFFICES ASSUME NEW k \in 1 .. Len(c) PROVE Cmds(c)[k] = Append(Cmds(b), reply.cmd)[k]
    OBVIOUS
  <2>1. Cmds(c)[k] = c[k].cmd
    BY <1>1 DEF Cmds
  <2>2. CASE k = Len(b) + 1
    BY <1>1, <1>3, <2>1, <2>2
  <2>3. CASE k # Len(b) + 1
    <3>1. k \in 1 .. Len(b) /\ c[k] = b[k]
      BY <1>1, <2>3
    <3>2. Cmds(b)[k] = b[k].cmd
      BY <3>1 DEF Cmds
    <3> QED
      BY <1>3, <2>1, <3>1, <3>2
  <2> QED
    BY <2>2, <2>3
<1> HIDE DEF c
<1>5. Append(Cmds(b), reply.cmd) \in Seq(Command) /\ Len(Append(Cmds(b), reply.cmd)) = Len(b) + 1
  BY <1>1, <1>3
<1> QED
  BY <1>1, <1>2, <1>4, <1>5, SeqEqual DEF c

LEMMA CmdsTail ==
  ASSUME NEW b \in Seq(Reply), b # <<>>
  PROVE  /\ Cmds(Tail(b)) = Tail(Cmds(b)) /\ Cmds(b) # <<>>
         /\ Head(Cmds(b)) = Head(b).cmd
<1> DEFINE c == Tail(b)
<1>1. c \in Seq(Reply) /\ Len(c) = Len(b) - 1 /\ Len(b) \in Nat \ {0}
  OBVIOUS
<1>2. Cmds(c) \in Seq(Command) /\ Len(Cmds(c)) = Len(b) - 1
  BY <1>1, CmdsType
<1>3. Cmds(b) \in Seq(Command) /\ Len(Cmds(b)) = Len(b)
  BY CmdsType
<1>4. Cmds(b) # <<>> /\ Tail(Cmds(b)) \in Seq(Command) /\ Len(Tail(Cmds(b))) = Len(b) - 1
  BY <1>1, <1>3
<1>5. \A k \in 1 .. Len(c) : Cmds(c)[k] = Tail(Cmds(b))[k]
  <2> SUFFICES ASSUME NEW k \in 1 .. Len(c) PROVE Cmds(c)[k] = Tail(Cmds(b))[k]
    OBVIOUS
  <2>1. Cmds(c)[k] = c[k].cmd /\ c[k] = b[k + 1]
    BY <1>1 DEF Cmds
  <2>2. k + 1 \in 1 .. Len(b)
    BY <1>1
  <2>3. Cmds(b)[k + 1] = b[k + 1].cmd /\ Tail(Cmds(b))[k] = Cmds(b)[k + 1]
    BY <1>1, <1>3, <2>2 DEF Cmds
  <2> QED
    BY <2>1, <2>3
<1>6. Head(Cmds(b)) = Head(b).cmd
  <2>1. Head(Cmds(b)) = Cmds(b)[1] /\ Head(b) = b[1] /\ 1 \in DOMAIN b
    BY <1>1, <1>3
  <2> QED
    BY <2>1 DEF Cmds
<1> HIDE DEF c
<1> QED
  BY <1>1, <1>2, <1>4, <1>5, <1>6, SeqEqual DEF c

LEMMA MembersOfConcat ==
  ASSUME NEW S, NEW s \in Seq(S), NEW t \in Seq(S)
  PROVE  ToSet(s \o t) = ToSet(s) \cup ToSet(t)
<1>1. ASSUME NEW x \in ToSet(s \o t) PROVE x \in ToSet(s) \cup ToSet(t)
  <2>1. PICK i \in 1 .. Len(s) + Len(t) : x = (s \o t)[i]
    BY <1>1 DEF ToSet
  <2>2. CASE i <= Len(s)
    BY <2>1, <2>2 DEF ToSet
  <2>3. CASE i > Len(s)
    <3>1. i - Len(s) \in 1 .. Len(t) /\ x = t[i - Len(s)]
      BY <2>1, <2>3
    <3> QED
      BY <3>1 DEF ToSet
  <2> QED
    BY <2>1, <2>2, <2>3
<1>2. ASSUME NEW x \in ToSet(s) PROVE x \in ToSet(s \o t)
  <2>1. PICK i \in 1 .. Len(s) : x = s[i]
    BY <1>2 DEF ToSet
  <2>2. i \in 1 .. Len(s \o t) /\ x = (s \o t)[i]
    BY <2>1
  <2> QED
    BY <2>2 DEF ToSet
<1>3. ASSUME NEW x \in ToSet(t) PROVE x \in ToSet(s \o t)
  <2>1. PICK i \in 1 .. Len(t) : x = t[i]
    BY <1>3 DEF ToSet
  <2>2. i + Len(s) \in 1 .. Len(s \o t) /\ x = (s \o t)[i + Len(s)]
    BY <2>1
  <2> QED
    BY <2>2 DEF ToSet
<1> QED
  BY <1>1, <1>2, <1>3

LEMMA MembersOfAppend ==
  ASSUME NEW S, NEW s \in Seq(S), NEW x \in S
  PROVE  ToSet(Append(s, x)) = ToSet(s) \cup {x}
<1> DEFINE t == <<x>>
<1>1. Append(s, x) = s \o t
  BY AppendIsConcat
<1>2. t \in Seq(S) /\ ToSet(t) = {x}
  BY DEF ToSet
<1> HIDE DEF t
<1>3. ToSet(s \o t) = ToSet(s) \cup ToSet(t)
  BY <1>2, MembersOfConcat
<1> QED
  BY <1>1, <1>2, <1>3

\* A sequence and where it is cut: what is kept, what is shed.
LEMMA MembersOfCut ==
  ASSUME NEW S, NEW s \in Seq(S), NEW k \in 0 .. Len(s)
  PROVE  /\ SubSeq(s, 1, k) \in Seq(S) /\ SubSeq(s, k + 1, Len(s)) \in Seq(S)
         /\ Len(SubSeq(s, k + 1, Len(s))) = Len(s) - k
         /\ ToSet(s) = ToSet(SubSeq(s, 1, k)) \cup ToSet(SubSeq(s, k + 1, Len(s)))
<1> DEFINE a == SubSeq(s, 1, k)  b == SubSeq(s, k + 1, Len(s))
<1>1. a \in Seq(S) /\ Len(a) = k /\ \A i \in 1 .. k : a[i] = s[i]
  BY SubSeqProperties
<1>2. b \in Seq(S) /\ Len(b) = Len(s) - k /\ \A i \in 1 .. Len(s) - k : b[i] = s[k + i]
  BY SubSeqProperties
<1> HIDE DEF a, b
<1>3. ASSUME NEW x \in ToSet(s) PROVE x \in ToSet(a) \cup ToSet(b)
  <2>1. PICK i \in 1 .. Len(s) : x = s[i]
    BY <1>3 DEF ToSet
  <2>2. CASE i <= k
    BY <1>1, <2>1, <2>2 DEF ToSet
  <2>3. CASE i > k
    <3>1. i - k \in 1 .. Len(b) /\ x = b[i - k]
      BY <1>2, <2>1, <2>3
    <3> QED
      BY <1>2, <3>1 DEF ToSet
  <2> QED
    BY <2>1, <2>2, <2>3
<1>4. ASSUME NEW x \in ToSet(a) \cup ToSet(b) PROVE x \in ToSet(s)
  <2>1. CASE x \in ToSet(a)
    BY <1>1, <2>1 DEF ToSet
  <2>2. CASE x \in ToSet(b)
    <3>1. PICK i \in 1 .. Len(b) : x = b[i]
      BY <1>2, <2>2 DEF ToSet
    <3>2. k + i \in 1 .. Len(s) /\ x = s[k + i]
      BY <1>2, <3>1
    <3> QED
      BY <3>2 DEF ToSet
  <2> QED
    BY <1>4, <2>1, <2>2
<1> QED
  BY <1>1, <1>2, <1>3, <1>4 DEF a, b

-----------------------------------------------------------------------------
\* Among the commands seq there is at most the one of the write under way, and what it
\* would put in the record is what it read with the batch behind it.
IsWrite(cmd) == cmd.op # "MGET"
Writes(seq, batch) ==
  /\ \A i, j \in DOMAIN seq : IsWrite(seq[i]) /\ IsWrite(seq[j]) => i = j
  /\ \A i \in DOMAIN seq :
       /\ IsWrite(seq[i]) => batch # <<>>
       /\ seq[i].op = "EVAL" => seq[i].new = seq[i].expect \o batch

LEMMA NoWrites ==
  ASSUME NEW batch PROVE Writes(<<>>, batch)
BY DEF Writes

\* A snapshot joins the commands.
LEMMA ReadSent ==
  ASSUME NEW seq \in Seq(Command), NEW batch, Writes(seq, batch),
         NEW cmd \in Command, cmd.op = "MGET"
  PROVE  Writes(Append(seq, cmd), batch)
<1> DEFINE s == Append(seq, cmd)
<1>1. /\ DOMAIN s = 1 .. Len(seq) + 1 /\ DOMAIN seq = 1 .. Len(seq) /\ Len(seq) \in Nat
      /\ s[Len(seq) + 1] = cmd /\ \A i \in 1 .. Len(seq) : s[i] = seq[i]
  OBVIOUS
<1> HIDE DEF s
<1>2. ~IsWrite(s[Len(seq) + 1]) /\ s[Len(seq) + 1].op # "EVAL"
  BY <1>1 DEF IsWrite
<1>3. \A i \in DOMAIN s : IsWrite(s[i]) \/ s[i].op = "EVAL" => i \in 1 .. Len(seq)
  BY <1>1, <1>2
<1>4. Writes(s, batch)
  BY <1>1, <1>2, <1>3 DEF Writes
<1> QED
  BY <1>4 DEF s

\* The write's next command joins them, when there is none of a write.
LEMMA WriteSent ==
  ASSUME NEW seq \in Seq(Command), \A i \in DOMAIN seq : ~IsWrite(seq[i]),
         NEW batch, batch # <<>>, NEW cmd \in Command,
         cmd.op = "EVAL" => cmd.new = cmd.expect \o batch
  PROVE  Writes(Append(seq, cmd), batch)
<1> DEFINE s == Append(seq, cmd)
<1>1. /\ DOMAIN s = 1 .. Len(seq) + 1 /\ DOMAIN seq = 1 .. Len(seq) /\ Len(seq) \in Nat
      /\ s[Len(seq) + 1] = cmd /\ \A i \in 1 .. Len(seq) : s[i] = seq[i]
  OBVIOUS
<1> HIDE DEF s
<1>2. \A i \in DOMAIN s : IsWrite(s[i]) => i = Len(seq) + 1
  BY <1>1
<1>3. \A i \in DOMAIN s : s[i].op = "EVAL" => i = Len(seq) + 1
  BY <1>2 DEF IsWrite
<1>4. Writes(s, batch)
  BY <1>1, <1>2, <1>3 DEF Writes
<1> QED
  BY <1>4 DEF s

\* The oldest is answered; if it was the write's, none of a write is left.
LEMMA Answered ==
  ASSUME NEW seq \in Seq(Command), seq # <<>>, NEW batch, Writes(seq, batch)
  PROVE  /\ Tail(seq) \in Seq(Command)
         /\ Writes(Tail(seq), batch)
         /\ IsWrite(Head(seq)) => \A i \in DOMAIN Tail(seq) : ~IsWrite(Tail(seq)[i])
<1> DEFINE s == Tail(seq)
<1>1. /\ s \in Seq(Command) /\ DOMAIN s = 1 .. Len(seq) - 1 /\ DOMAIN seq = 1 .. Len(seq)
      /\ Len(seq) \in Nat \ {0} /\ Head(seq) = seq[1]
      /\ \A i \in 1 .. Len(seq) - 1 : s[i] = seq[i + 1]
  OBVIOUS
<1> HIDE DEF s
<1>2. Writes(s, batch)
  <2>1. \A i \in DOMAIN s : i + 1 \in DOMAIN seq /\ s[i] = seq[i + 1]
    BY <1>1
  <2>2. \A i, j \in DOMAIN s : i + 1 = j + 1 => i = j
    BY <1>1
  <2> QED
    BY <2>1, <2>2 DEF Writes
<1>3. ASSUME IsWrite(seq[1]), NEW i \in DOMAIN s, IsWrite(s[i]) PROVE FALSE
  <2>1. i + 1 \in DOMAIN seq /\ 1 \in DOMAIN seq /\ i + 1 # 1 /\ IsWrite(seq[i + 1])
    BY <1>1, <1>3
  <2> QED
    BY <1>3, <2>1 DEF Writes
<1> QED
  BY <1>1, <1>2, <1>3 DEF s

\* Without a batch there is none of a write.
LEMMA NoBatchNoWrite ==
  ASSUME NEW seq, Writes(seq, <<>>) PROVE \A i \in DOMAIN seq : ~IsWrite(seq[i])
BY DEF Writes

LEMMA AnyBatch ==
  ASSUME NEW seq, \A i \in DOMAIN seq : ~IsWrite(seq[i]), NEW batch PROVE Writes(seq, batch)
BY DEF Writes, IsWrite

-----------------------------------------------------------------------------
\* What the buffer keeps of a sequence, and what it sheds.
LEMMA BufferKeeps ==
  ASSUME TypeOK, NEW r \in Replicas, NEW seq \in Records, Buffer(r, seq)
  PROVE  \E k \in 0 .. Len(seq) :
           /\ pending' = [pending EXCEPT ![r] = SubSeq(seq, k + 1, Len(seq))]
           /\ dropped' = [dropped EXCEPT ![r] = @ \cup ToSet(SubSeq(seq, 1, k))]
           /\ pending' \in [Replicas -> Records] /\ dropped' \in [Replicas -> SUBSET Observation]
           /\ \A s \in Replicas : Len(pending'[s]) <= MAX_PENDING
           /\ ToSet(seq) = ToSet(SubSeq(seq, 1, k)) \cup ToSet(SubSeq(seq, k + 1, Len(seq)))
<1> DEFINE kept == Len(seq) - (IF Len(seq) > MAX_PENDING THEN Len(seq) - MAX_PENDING ELSE 0)
           k == Len(seq) - kept
<1>1. Len(seq) \in Nat /\ MAX_PENDING \in Nat
  BY BufferAssumption DEF Records
<1>2. k \in 0 .. Len(seq) /\ Len(seq) - k <= MAX_PENDING
  BY <1>1
<1>3. /\ pending' = [pending EXCEPT ![r] = SubSeq(seq, k + 1, Len(seq))]
      /\ dropped' = [dropped EXCEPT ![r] = @ \cup ToSet(SubSeq(seq, 1, k))]
  BY DEF Buffer
<1> HIDE DEF k, kept
<1> DEFINE a == SubSeq(seq, 1, k)  b == SubSeq(seq, k + 1, Len(seq))
<1>4. a \in Records /\ b \in Records /\ Len(b) = Len(seq) - k /\ ToSet(seq) = ToSet(a) \cup ToSet(b)
  BY <1>2, MembersOfCut DEF Records
<1>5. ToSet(a) \in SUBSET Observation
  <2> HIDE DEF a
  <2> QED
    BY <1>4 DEF ToSet, Records
<1>6. pending' = [pending EXCEPT ![r] = b] /\ dropped' = [dropped EXCEPT ![r] = @ \cup ToSet(a)]
  BY <1>3
<1> HIDE DEF a, b
<1>7. pending' \in [Replicas -> Records] /\ dropped' \in [Replicas -> SUBSET Observation]
  BY <1>4, <1>5, <1>6 DEF TypeOK
<1>8. ASSUME NEW s \in Replicas PROVE Len(pending'[s]) <= MAX_PENDING
  BY <1>2, <1>4, <1>6 DEF TypeOK
<1> QED
  BY <1>2, <1>4, <1>6, <1>7, <1>8 DEF a, b

-----------------------------------------------------------------------------
Typed == TypeOK /\ made \in [Replicas -> Nat] /\ reads \in [Replicas -> Nat]

\* A batch in flight is some write's, and what is on the connection is as that write left it.
OneWrite(r) == Writes(Sent(r), inFlight[r]) /\ (inFlight[r] # <<>> => chain[r] > 0)

\* A write that was answered as done is in the record.
Confirmed(r) ==
  \A i \in DOMAIN back[r] :
    back[r][i].swapped =>
      back[r][i].cmd.op = "EVAL" /\ ToSet(inFlight[r]) \subseteq ToSet(record)

\* Every observation is somewhere.
Held(r) == ToSet(record) \cup ToSet(inFlight[r]) \cup ToSet(pending[r]) \cup dropped[r]
Somewhere(r) == \A n \in 1 .. made[r] : \E o \in Held(r) : o.by = r /\ o.n = n

\* A gateway that has closed with nothing to report has nothing that waits.
Shut(r) == closing[r] = "closed" => pending[r] = <<>>

Good(r) == OneWrite(r) /\ Confirmed(r) /\ Somewhere(r) /\ Shut(r)
IInv == Typed /\ \A r \in Replicas : Good(r)

\* All that is the gateway's own.
Local(r) ==
  <<pending[r], inFlight[r], chain[r], out[r], back[r], made[r], closing[r], dropped[r],
    landed[r]>>

LEMMA CommandParts ==
  ASSUME NEW cmd \in Command
  PROVE  /\ cmd.op = "EVAL" => cmd.expect \in Records /\ cmd.new \in Records
         /\ cmd.op \in {"GET", "MGET", "EVAL"}
BY DEF Command

LEMMA CommandsAre ==
  /\ [op |-> "GET"] \in Command /\ [op |-> "MGET"] \in Command
  /\ \A e, n \in Records : [op |-> "EVAL", expect |-> e, new |-> n] \in Command
BY DEF Command

\* The gateway's connection before and after a step.
LEMMA SentType ==
  ASSUME Typed, NEW r \in Replicas
  PROVE  /\ out[r] \in Seq(Command) /\ back[r] \in Seq(Reply)
         /\ Cmds(back[r]) \in Seq(Command) /\ Sent(r) \in Seq(Command)
BY CmdsType DEF Typed, TypeOK, Sent

LEMMA SentMore ==
  ASSUME Typed, NEW r \in Replicas, NEW cmd \in Command,
         out'[r] = Append(out[r], cmd), back'[r] = back[r]
  PROVE  Sent(r)' = Append(Sent(r), cmd)
<1>1. out[r] \in Seq(Command) /\ Cmds(back[r]) \in Seq(Command)
  BY SentType
<1>2. Sent(r)' = Cmds(back[r]) \o Append(out[r], cmd)
  BY DEF Sent
<1>3. PICK a \in Seq(Command), b \in Seq(Command) : a = Cmds(back[r]) /\ b = out[r]
  BY <1>1
<1>4. a \o Append(b, cmd) = Append(a \o b, cmd)
  OBVIOUS
<1> QED
  BY <1>2, <1>3, <1>4 DEF Sent

LEMMA SentAnswered ==
  ASSUME Typed, NEW r \in Replicas, back[r] # <<>>, back'[r] = Tail(back[r])
  PROVE  /\ Sent(r) # <<>> /\ Head(Sent(r)) = Head(back[r]).cmd
         /\ Tail(Sent(r)) \in Seq(Command)
         /\ out'[r] = out[r] => Sent(r)' = Tail(Sent(r))
         /\ \A cmd \in Command :
              out'[r] = Append(out[r], cmd) => Sent(r)' = Append(Tail(Sent(r)), cmd)
<1>1. /\ out[r] \in Seq(Command) /\ back[r] \in Seq(Reply) /\ Cmds(back[r]) \in Seq(Command)
  BY SentType
<1>2. /\ Cmds(Tail(back[r])) = Tail(Cmds(back[r])) /\ Cmds(back[r]) # <<>>
      /\ Head(Cmds(back[r])) = Head(back[r]).cmd
  BY <1>1, CmdsTail
<1>3. PICK a \in Seq(Command), b \in Seq(Command) : a = Cmds(back[r]) /\ b = out[r]
  BY <1>1
<1>4. a # <<>>
  BY <1>2, <1>3
<1>5. a \o b # <<>> /\ Head(a \o b) = Head(a) /\ Tail(a \o b) = Tail(a) \o b
      /\ Tail(a) \in Seq(Command) /\ Tail(a \o b) \in Seq(Command)
  <2>1. Len(a) \in Nat \ {0} /\ Len(a \o b) = Len(a) + Len(b)
    BY <1>4
  <2>2. a \o b # <<>> /\ Head(a \o b) = Head(a)
    BY <2>1
  <2>3. Tail(a) \in Seq(Command) /\ Tail(a \o b) \in Seq(Command)
        /\ Len(Tail(a)) = Len(a) - 1 /\ Len(Tail(a \o b)) = Len(a) + Len(b) - 1
    BY <2>1
  <2>4. Tail(a) \o b \in Seq(Command) /\ Len(Tail(a) \o b) = Len(a) + Len(b) - 1
    BY <2>1, <2>3
  <2>5. \A i \in 1 .. Len(a) + Len(b) - 1 : Tail(a \o b)[i] = (Tail(a) \o b)[i]
    <3> SUFFICES ASSUME NEW i \in 1 .. Len(a) + Len(b) - 1
                 PROVE  Tail(a \o b)[i] = (Tail(a) \o b)[i]
      OBVIOUS
    <3>1. Tail(a \o b)[i] = (a \o b)[i + 1]
      BY <2>1
    <3>2. CASE i <= Len(a) - 1
      BY <2>1, <2>3, <3>1, <3>2
    <3>3. CASE i > Len(a) - 1
      BY <2>1, <2>3, <3>1, <3>3
    <3> QED
      BY <3>2, <3>3
  <2> QED
    BY <2>2, <2>3, <2>4, <2>5, SeqEqual
<1>6. Sent(r) = a \o b
  BY <1>3 DEF Sent
<1>7. ASSUME out'[r] = out[r] PROVE Sent(r)' = Tail(Sent(r))
  BY <1>2, <1>3, <1>5, <1>6, <1>7 DEF Sent
<1>8. ASSUME NEW cmd \in Command, out'[r] = Append(out[r], cmd)
      PROVE  Sent(r)' = Append(Tail(Sent(r)), cmd)
  <2>1. Sent(r)' = Tail(a) \o Append(b, cmd)
    BY <1>2, <1>3, <1>8 DEF Sent
  <2>2. Tail(a) \o Append(b, cmd) = Append(Tail(a) \o b, cmd)
    BY <1>5
  <2> QED
    BY <1>5, <1>6, <2>1, <2>2
<1> QED
  BY <1>2, <1>3, <1>5, <1>6, <1>7, <1>8

\* A command that leaves one queue for the other keeps its place.
LEMMA PassedOn ==
  ASSUME NEW S, NEW a \in Seq(S), NEW b \in Seq(S), b # <<>>
  PROVE  Append(a, Head(b)) \o Tail(b) = a \o b
<1> DEFINE x == Head(b)  d == Tail(b)
<1>1. x \in S /\ d \in Seq(S) /\ b = <<x>> \o d
  OBVIOUS
<1> HIDE DEF x, d
<1>2. Append(a, x) \o d = (a \o <<x>>) \o d
  BY <1>1, AppendIsConcat
<1>3. <<x>> \in Seq(S)
  BY <1>1
<1>4. (a \o <<x>>) \o d = a \o (<<x>> \o d)
  BY <1>1, <1>3, ConcatAssociative
<1> QED
  BY <1>1, <1>2, <1>4 DEF x, d

LEMMA SentExecuted ==
  ASSUME Typed, NEW r \in Replicas, NEW reply \in Reply, out[r] # <<>>,
         reply.cmd = Head(out[r]), out'[r] = Tail(out[r]), back'[r] = Append(back[r], reply)
  PROVE  Sent(r)' = Sent(r)
<1>1. /\ out[r] \in Seq(Command) /\ back[r] \in Seq(Reply) /\ Cmds(back[r]) \in Seq(Command)
  BY SentType
<1>2. Cmds(Append(back[r], reply)) = Append(Cmds(back[r]), reply.cmd)
  BY <1>1, CmdsAppend
<1>3. PICK a \in Seq(Command), b \in Seq(Command) : a = Cmds(back[r]) /\ b = out[r]
  BY <1>1
<1>4. Sent(r)' = Append(a, Head(b)) \o Tail(b) /\ Sent(r) = a \o b /\ b # <<>>
  BY <1>2, <1>3 DEF Sent
<1> QED
  BY <1>3, <1>4, PassedOn

LEMMA SentAgain ==
  ASSUME Typed, NEW r \in Replicas, back'[r] = <<>>, out'[r] = Cmds(back[r]) \o out[r]
  PROVE  Sent(r)' = Sent(r) /\ out'[r] \in Seq(Command)
<1>1. out'[r] \in Seq(Command)
  BY SentType
<1>2. Cmds(<<>>) = <<>>
  BY DEF Cmds
<1>3. Sent(r)' = <<>> \o out'[r]
  BY <1>2 DEF Sent
<1>4. <<>> \o out'[r] = out'[r]
  BY <1>1
<1> QED
  BY <1>1, <1>3, <1>4 DEF Sent

-----------------------------------------------------------------------------
LEMMA InitInv == Init => IInv
<1> SUFFICES ASSUME Init PROVE IInv
  OBVIOUS
<1>1. Typed
  <2>1. <<>> \in Records /\ Len(<<>>) = 0 /\ <<>> \in Seq(Command) /\ <<>> \in Seq(Reply)
    BY DEF Records
  <2>2. MaxRecords \in [Replicas -> Nat] /\ MaxReads \in [Replicas -> Nat]
        /\ MAX_PENDING \in Nat \ {0} /\ CAS_ATTEMPTS \in Nat \ {0} /\ CloseRounds \in Nat \ {0}
        /\ MaxWrites \in Nat
    BY BufferAssumption
  <2> QED
    BY <2>1, <2>2 DEF Init, Typed, TypeOK
<1>2. ASSUME NEW r \in Replicas PROVE Good(r)
  <2>1. /\ pending[r] = <<>> /\ inFlight[r] = <<>> /\ chain[r] = 0 /\ out[r] = <<>>
        /\ back[r] = <<>> /\ made[r] = 0
    BY DEF Init
  <2>2. Sent(r) = <<>>
    BY <2>1 DEF Sent, Cmds
  <2>3. OneWrite(r)
    BY <2>1, <2>2 DEF OneWrite, Writes
  <2>4. Confirmed(r) /\ Somewhere(r) /\ Shut(r)
    BY <2>1 DEF Confirmed, Somewhere, Shut
  <2> QED
    BY <2>3, <2>4 DEF Good
<1> QED
  BY <1>1, <1>2 DEF IInv

\* A step of another gateway, which can only add to the record, disturbs nothing.
LEMMA Undisturbed ==
  ASSUME IInv, NEW s \in Replicas, Local(s)' = Local(s), ToSet(record) \subseteq ToSet(record')
  PROVE  Good(s)'
<1>1. /\ pending'[s] = pending[s] /\ inFlight'[s] = inFlight[s] /\ chain'[s] = chain[s]
      /\ out'[s] = out[s] /\ back'[s] = back[s] /\ made'[s] = made[s]
      /\ closing'[s] = closing[s] /\ dropped'[s] = dropped[s]
  BY DEF Local
<1>2. Good(s)
  BY DEF IInv
<1>3. OneWrite(s)' /\ Shut(s)'
  BY <1>1, <1>2 DEF Good, OneWrite, Shut, Sent
<1>4. Confirmed(s)'
  BY <1>1, <1>2 DEF Good, Confirmed
<1>5. Somewhere(s)'
  <2>1. Held(s) \subseteq Held(s)'
    BY <1>1 DEF Held
  <2> QED
    BY <1>1, <1>2, <2>1 DEF Good, Somewhere
<1> QED
  BY <1>3, <1>4, <1>5 DEF Good

\* What is another gateway's own stays as it is.
Confined(r) == \A s \in Replicas : s # r => Local(s)' = Local(s)

\* A step of one gateway that keeps what is its own right keeps all right.
LEMMA Elsewhere ==
  ASSUME IInv, NEW r \in Replicas, Typed', Good(r)', ToSet(record) \subseteq ToSet(record'),
         \A s \in Replicas : s # r => Local(s)' = Local(s)
  PROVE  IInv' /\ Confined(r)
<1>1. ASSUME NEW s \in Replicas PROVE Good(s)'
  <2>1. CASE s = r
    BY <2>1
  <2>2. CASE s # r
    BY <2>2, Undisturbed
  <2> QED
    BY <2>1, <2>2
<1> QED
  BY <1>1 DEF IInv, Confined

LEMMA ChainNat == ASSUME Typed, NEW r \in Replicas PROVE chain[r] \in Nat
BY DEF Typed, TypeOK

\* Nothing on the connection changes, nor does the batch.
LEMMA SameCommands ==
  ASSUME Typed, NEW r \in Replicas, OneWrite(r), out'[r] = out[r], back'[r] = back[r],
         inFlight'[r] = inFlight[r], chain'[r] \in Nat, chain'[r] >= chain[r]
  PROVE  OneWrite(r)'
<1>1. Sent(r)' = Sent(r)
  BY DEF Sent
<1>2. chain[r] \in Nat
  BY ChainNat
<1>3. inFlight'[r] # <<>> => chain'[r] > 0
  BY <1>2 DEF OneWrite
<1> QED
  BY <1>1, <1>3 DEF OneWrite

\* A reply on its way is to a command that counts as sent; so is the next to execute.
LEMMA BackIsSent ==
  ASSUME Typed, NEW r \in Replicas
  PROVE  /\ \A i \in DOMAIN back[r] : i \in DOMAIN Sent(r) /\ Sent(r)[i] = back[r][i].cmd
         /\ out[r] # <<>> =>
              \E i \in DOMAIN Sent(r) : i \notin DOMAIN back[r] /\ Sent(r)[i] = Head(out[r])
<1>1. /\ out[r] \in Seq(Command) /\ back[r] \in Seq(Reply) /\ Cmds(back[r]) \in Seq(Command)
      /\ Len(Cmds(back[r])) = Len(back[r])
  BY SentType, CmdsType
<1>2. PICK a \in Seq(Command), b \in Seq(Command) : a = Cmds(back[r]) /\ b = out[r]
  BY <1>1
<1>3. \A i \in DOMAIN back[r] : a[i] = back[r][i].cmd /\ i \in 1 .. Len(a)
  BY <1>1, <1>2 DEF Cmds
<1>4. \A i \in 1 .. Len(a) : i \in DOMAIN (a \o b) /\ (a \o b)[i] = a[i]
  OBVIOUS
<1>5. ASSUME b # <<>>
      PROVE  \E i \in DOMAIN (a \o b) : i \notin DOMAIN back[r] /\ (a \o b)[i] = Head(b)
  <2>1. Len(a) + 1 \in DOMAIN (a \o b) /\ (a \o b)[Len(a) + 1] = Head(b)
        /\ Len(a) + 1 \notin DOMAIN back[r]
    BY <1>1, <1>2, <1>5
  <2> QED
    BY <2>1
<1> QED
  BY <1>2, <1>3, <1>4, <1>5 DEF Sent

\* What is to be written goes back, and perhaps the oldest of it is shed.
LEMMA RequeueKeeps ==
  ASSUME TypeOK, NEW r \in Replicas, Requeue(r)
  PROVE  /\ pending' \in [Replicas -> Records] /\ dropped' \in [Replicas -> SUBSET Observation]
         /\ \A s \in Replicas : Len(pending'[s]) <= MAX_PENDING
         /\ \A s \in Replicas : s # r => pending'[s] = pending[s] /\ dropped'[s] = dropped[s]
         /\ ToSet(inFlight[r]) \cup ToSet(pending[r]) \subseteq ToSet(pending'[r]) \cup dropped'[r]
         /\ dropped[r] \subseteq dropped'[r]
<1> DEFINE seq == inFlight[r] \o pending[r]
<1>1. inFlight[r] \in Seq(Observation) /\ pending[r] \in Seq(Observation)
  BY DEF TypeOK, Records
<1>2. seq \in Records /\ ToSet(seq) = ToSet(inFlight[r]) \cup ToSet(pending[r])
  BY <1>1, MembersOfConcat DEF Records
<1>3. Buffer(r, seq)
  BY DEF Requeue
<1> HIDE DEF seq
<1>4. PICK k \in 0 .. Len(seq) :
           /\ pending' = [pending EXCEPT ![r] = SubSeq(seq, k + 1, Len(seq))]
           /\ dropped' = [dropped EXCEPT ![r] = @ \cup ToSet(SubSeq(seq, 1, k))]
           /\ pending' \in [Replicas -> Records] /\ dropped' \in [Replicas -> SUBSET Observation]
           /\ \A s \in Replicas : Len(pending'[s]) <= MAX_PENDING
           /\ ToSet(seq) = ToSet(SubSeq(seq, 1, k)) \cup ToSet(SubSeq(seq, k + 1, Len(seq)))
  BY <1>2, <1>3, BufferKeeps
<1>5. pending \in [Replicas -> Records] /\ dropped \in [Replicas -> SUBSET Observation]
  BY DEF TypeOK
<1> QED
  BY <1>2, <1>4, <1>5

LEMMA QueuedType ==
  ASSUME Typed, NEW r \in Replicas
  PROVE  /\ Queued(r) \in [Replicas -> Nat]
         /\ Queued(r)[r] > 0 /\ Queued(r)[r] >= chain[r]
         /\ \A s \in Replicas : s # r => Queued(r)[s] = chain[s]
<1>1. MaxWrites \in Nat /\ MaxWrites >= 2
  BY BufferAssumption
<1>2. chain \in [Replicas -> Nat]
  BY DEF Typed, TypeOK
<1>3. chain[r] \in Nat
  BY <1>2
<1> DEFINE c == IF chain[r] < MaxWrites THEN chain[r] + 1 ELSE chain[r]
<1>4. c \in Nat /\ c > 0 /\ c >= chain[r]
  BY <1>1, <1>3
<1>5. Queued(r) = [chain EXCEPT ![r] = c]
  BY DEF Queued
<1> HIDE DEF c
<1> QED
  BY <1>2, <1>4, <1>5

LEMMA ObservationIs ==
  ASSUME NEW r \in Replicas, NEW n \in 1 .. MaxRecords[r], NEW kind \in Kinds
  PROVE  [by |-> r, n |-> n, kind |-> kind] \in Observation
BY DEF Observation

\* An observation is buffered, and perhaps an older one shed.
LEMMA EnqueueInv ==
  ASSUME IInv, NEW r \in Replicas, Enqueue(r)
  PROVE  IInv' /\ Confined(r)
<1>0. Typed /\ TypeOK /\ Good(r)
  BY DEF IInv, Typed
<1>1. PICK kind \in Kinds :
        Buffer(r, Append(pending[r], [by |-> r, n |-> made[r] + 1, kind |-> kind]))
  BY DEF Enqueue
<1>2. /\ made[r] < MaxRecords[r] /\ made' = [made EXCEPT ![r] = @ + 1]
      /\ (chain' = Queued(r) \/ chain' = chain)
      /\ closing[r] \notin {"closed", "reported"}
      /\ UNCHANGED <<record, inFlight, attempt, out, back, reads, closing, rounds, awaits, losses, landed>>
  BY DEF Enqueue, Running
<1> DEFINE o == [by |-> r, n |-> made[r] + 1, kind |-> kind]
           seq == Append(pending[r], o)
<1>3. made[r] \in Nat /\ made[r] + 1 \in 1 .. MaxRecords[r]
  <2>1. made[r] \in Nat
    BY <1>0 DEF Typed
  <2>2. MaxRecords[r] \in Nat
    BY BufferAssumption
  <2> QED
    BY <1>2, <2>1, <2>2
<1>4. o \in Observation /\ o.by = r /\ o.n = made[r] + 1
  BY <1>3, ObservationIs
<1>5. pending[r] \in Seq(Observation)
  BY <1>0 DEF TypeOK, Records
<1> HIDE DEF o
<1>6. seq \in Records /\ ToSet(seq) = ToSet(pending[r]) \cup {o}
  BY <1>4, <1>5, MembersOfAppend DEF Records
<1>7. Buffer(r, seq)
  BY <1>1 DEF o
<1> HIDE DEF seq
<1>8. PICK k \in 0 .. Len(seq) :
           /\ pending' = [pending EXCEPT ![r] = SubSeq(seq, k + 1, Len(seq))]
           /\ dropped' = [dropped EXCEPT ![r] = @ \cup ToSet(SubSeq(seq, 1, k))]
           /\ pending' \in [Replicas -> Records] /\ dropped' \in [Replicas -> SUBSET Observation]
           /\ \A s \in Replicas : Len(pending'[s]) <= MAX_PENDING
           /\ ToSet(seq) = ToSet(SubSeq(seq, 1, k)) \cup ToSet(SubSeq(seq, k + 1, Len(seq)))
  BY <1>0, <1>6, <1>7, BufferKeeps
<1>9. chain' \in [Replicas -> Nat] /\ chain'[r] \in Nat /\ chain'[r] >= chain[r]
      /\ \A s \in Replicas : s # r => chain'[s] = chain[s]
  <2>1. CASE chain' = Queued(r)
    BY <1>0, <2>1, QueuedType
  <2>2. CASE chain' = chain
    <3>1. chain \in [Replicas -> Nat] /\ MaxWrites \in Nat
      BY <1>0, BufferAssumption DEF TypeOK
    <3>2. chain[r] \in Nat
      BY <3>1
    <3>3. chain[r] >= chain[r]
      BY <3>1, <3>2
    <3> QED
      BY <2>2, <3>1, <3>3
  <2> QED
    BY <1>2, <2>1, <2>2
<1>10. Typed'
  <2>1. made' \in [Replicas -> Nat] /\ \A s \in Replicas : made'[s] \in 0 .. MaxRecords[s]
    <3>1. made \in [Replicas -> Nat] /\ \A s \in Replicas : made[s] \in 0 .. MaxRecords[s]
      BY <1>0 DEF Typed, TypeOK
    <3>2. made' \in [Replicas -> Nat]
      BY <1>2, <1>3, <3>1
    <3>3. made'[r] \in 0 .. MaxRecords[r]
      BY <1>2, <1>3, <3>1
    <3>4. \A s \in Replicas : s # r => made'[s] = made[s]
      BY <1>2, <3>1
    <3> QED
      BY <3>1, <3>2, <3>3, <3>4
  <2> QED
    BY <1>0, <1>2, <1>8, <1>9, <2>1 DEF Typed, TypeOK
<1>11. \A s \in Replicas : s # r => Local(s)' = Local(s)
  BY <1>0, <1>2, <1>8, <1>9 DEF Local, Typed, TypeOK
<1>12. Good(r)'
  <2>1. made'[r] = made[r] + 1
    BY <1>0, <1>2 DEF Typed
  <2>2. OneWrite(r)'
    BY <1>0, <1>2, <1>9, SameCommands DEF Good
  <2>3. Confirmed(r)' /\ Shut(r)'
    BY <1>0, <1>2 DEF Good, Confirmed, Shut
  <2>4. Somewhere(r)'
    <3>1. ToSet(pending[r]) \cup {o} \subseteq ToSet(pending'[r]) \cup dropped'[r]
          /\ dropped[r] \subseteq dropped'[r]
      BY <1>0, <1>6, <1>8 DEF TypeOK
    <3>2. Held(r) \cup {o} \subseteq Held(r)'
      BY <1>2, <3>1 DEF Held
    <3>3. \A n \in 1 .. made[r] + 1 : n = made[r] + 1 \/ n \in 1 .. made[r]
      BY <1>3
    <3> QED
      BY <1>0, <1>4, <2>1, <3>2, <3>3 DEF Good, Somewhere
  <2> QED
    BY <2>2, <2>3, <2>4 DEF Good
<1> QED
  BY <1>2, <1>10, <1>11, <1>12, Elsewhere

\* The timer queues a write.
LEMMA FlushInv == ASSUME IInv, NEW r \in Replicas, Flush(r) PROVE IInv' /\ Confined(r)
<1>0. Typed /\ TypeOK /\ Good(r)
  BY DEF IInv, Typed
<1>1. /\ chain' = Queued(r) /\ closing[r] = "open"
      /\ UNCHANGED <<record, pending, inFlight, attempt, out, back, made, reads, closing,
                     rounds, awaits, losses, landed, dropped>>
  BY DEF Flush
<1>2. /\ chain' \in [Replicas -> Nat] /\ chain'[r] >= chain[r]
      /\ \A s \in Replicas : s # r => chain'[s] = chain[s]
  BY <1>0, <1>1, QueuedType
<1>3. Typed'
  BY <1>0, <1>1, <1>2 DEF Typed, TypeOK
<1>4. Good(r)'
  <2>1. chain'[r] \in Nat
    BY <1>3, ChainNat DEF Typed, TypeOK
  <2>2. OneWrite(r)'
    BY <1>0, <1>1, <1>2, <2>1, SameCommands DEF Good
  <2>3. Confirmed(r)' /\ Somewhere(r)' /\ Shut(r)'
    BY <1>0, <1>1 DEF Good, Confirmed, Somewhere, Held, Shut
  <2> QED
    BY <2>2, <2>3 DEF Good
<1>5. \A s \in Replicas : s # r => Local(s)' = Local(s)
  BY <1>1, <1>2 DEF Local
<1> QED
  BY <1>1, <1>3, <1>4, <1>5, Elsewhere

LEMMA EndsType ==
  ASSUME Typed, NEW r \in Replicas, chain[r] > 0, WriteEnds(r)
  PROVE  /\ chain' \in [Replicas -> Nat] /\ awaits' \in [Replicas -> Nat]
         /\ \A s \in Replicas : s # r => chain'[s] = chain[s]
<1>1. chain \in [Replicas -> Nat] /\ awaits \in [Replicas -> Nat]
  BY DEF Typed, TypeOK
<1>2. chain[r] - 1 \in Nat /\ (IF awaits[r] > 0 THEN awaits[r] - 1 ELSE 0) \in Nat
  BY <1>1
<1> QED
  BY <1>1, <1>2 DEF WriteEnds

\* A write begins: with the whole buffer, or with nothing.
LEMMA WriteInv == ASSUME IInv, NEW r \in Replicas, Write(r) PROVE IInv' /\ Confined(r)
<1>0. Typed /\ TypeOK /\ Good(r)
  BY DEF IInv, Typed
<1>1. /\ chain[r] > 0 /\ inFlight[r] = <<>>
      /\ UNCHANGED <<record, attempt, back, made, reads, closing, rounds, losses, landed, dropped>>
  BY DEF Write, WriteUnderWay
<1>2. chain[r] \in Nat /\ MaxWrites \in Nat /\ chain \in [Replicas -> Nat]
  BY <1>0, ChainNat, BufferAssumption DEF TypeOK
<1>3. closing'[r] # "closed"
  BY <1>1 DEF Write, Running
<1>4. CASE pending[r] = <<>>
  <2>1. WriteEnds(r) /\ UNCHANGED <<pending, inFlight, out>>
    BY <1>4 DEF Write
  <2>3. /\ chain' \in [Replicas -> Nat] /\ awaits' \in [Replicas -> Nat]
        /\ \A s \in Replicas : s # r => chain'[s] = chain[s]
    BY <1>0, <1>1, <2>1, EndsType
  <2>4. Typed'
    BY <1>0, <1>1, <2>1, <2>3 DEF Typed, TypeOK
  <2>5. OneWrite(r)' /\ Confirmed(r)' /\ Somewhere(r)' /\ Shut(r)'
    BY <1>0, <1>1, <1>3, <2>1 DEF Good, OneWrite, Sent, Confirmed, Somewhere, Held, Shut
  <2>6. \A s \in Replicas : s # r => Local(s)' = Local(s)
    BY <1>1, <2>1, <2>3 DEF Local
  <2> QED
    BY <1>1, <2>4, <2>5, <2>6, Elsewhere DEF Good
<1>5. CASE pending[r] # <<>>
  <2> DEFINE get == [op |-> "GET"]
  <2>0. get \in Command /\ get.op = "GET"
    BY CommandsAre
  <2> HIDE DEF get
  <2>1. /\ inFlight' = [inFlight EXCEPT ![r] = pending[r]]
        /\ pending' = [pending EXCEPT ![r] = <<>>]
        /\ out' = [out EXCEPT ![r] = Append(@, get)]
        /\ UNCHANGED <<chain, awaits>>
    BY <1>5 DEF Write, Send, get
  <2>2. /\ pending \in [Replicas -> Records] /\ inFlight \in [Replicas -> Records]
        /\ out \in [Replicas -> Seq(Command)] /\ <<>> \in Records /\ Len(<<>>) = 0
        /\ MAX_PENDING \in Nat /\ \A s \in Replicas : Len(pending[s]) <= MAX_PENDING
    BY <1>0, BufferAssumption DEF TypeOK, Records
  <2>3. inFlight'[r] = pending[r] /\ pending'[r] = <<>> /\ out'[r] = Append(out[r], get)
    BY <2>1, <2>2
  <2>4. /\ pending' \in [Replicas -> Records] /\ inFlight' \in [Replicas -> Records]
        /\ \A s \in Replicas : Len(pending'[s]) <= MAX_PENDING
    BY <2>1, <2>2
  <2>5. out' \in [Replicas -> Seq(Command)]
    BY <2>0, <2>1, <2>2
  <2>6. Typed'
    BY <1>0, <1>1, <2>1, <2>4, <2>5 DEF Typed, TypeOK
  <2>7. Sent(r)' = Append(Sent(r), get) /\ Sent(r) \in Seq(Command)
    BY <1>0, <1>1, <2>0, <2>3, SentMore, SentType
  <2>8. \A i \in DOMAIN Sent(r) : ~IsWrite(Sent(r)[i])
    BY <1>0, <1>1, NoBatchNoWrite DEF Good, OneWrite
  <2>9. OneWrite(r)'
    <3>1. Writes(Append(Sent(r), get), pending[r])
      BY <1>5, <2>0, <2>7, <2>8, WriteSent
    <3> QED
      BY <1>1, <2>1, <2>3, <2>7, <3>1 DEF OneWrite
  <2>10. Confirmed(r)'
    <3>1. ASSUME NEW i \in DOMAIN back[r], back[r][i].swapped PROVE FALSE
      <4>1. back[r][i].cmd.op = "EVAL"
        BY <1>0, <3>1 DEF Good, Confirmed
      <4>2. i \in DOMAIN Sent(r) /\ Sent(r)[i] = back[r][i].cmd
        BY <1>0, <3>1, BackIsSent
      <4> QED
        BY <2>8, <4>1, <4>2 DEF IsWrite
    <3> QED
      BY <1>1, <3>1 DEF Confirmed
  <2>11. Somewhere(r)' /\ Shut(r)'
    <3>1. Held(r) = Held(r)'
      <4>1. ToSet(<<>>) = {}
        BY DEF ToSet
      <4> QED
        BY <1>1, <2>3, <4>1 DEF Held
    <3> QED
      BY <1>0, <1>1, <1>3, <3>1 DEF Good, Somewhere, Shut
  <2>12. \A s \in Replicas : s # r => Local(s)' = Local(s)
    BY <1>1, <2>1, <2>2 DEF Local
  <2> QED
    BY <1>1, <2>6, <2>9, <2>10, <2>11, <2>12, Elsewhere DEF Good
<1> QED
  BY <1>4, <1>5

\* A snapshot is asked for.
LEMMA SnapshotInv == ASSUME IInv, NEW r \in Replicas, Snapshot(r) PROVE IInv' /\ Confined(r)
<1>0. Typed /\ TypeOK /\ Good(r)
  BY DEF IInv, Typed
<1> DEFINE mget == [op |-> "MGET"]
<1>1. mget \in Command /\ mget.op = "MGET"
  BY CommandsAre
<1> HIDE DEF mget
<1>2. /\ reads[r] < MaxReads[r] /\ reads' = [reads EXCEPT ![r] = @ + 1]
      /\ out' = [out EXCEPT ![r] = Append(@, mget)]
      /\ UNCHANGED <<record, pending, inFlight, chain, attempt, back, made, closing, rounds,
                     awaits, losses, landed, dropped>>
  BY DEF Snapshot, Send, mget
<1>3. out \in [Replicas -> Seq(Command)] /\ reads \in [Replicas -> Nat]
      /\ \A s \in Replicas : reads[s] \in 0 .. MaxReads[s]
  BY <1>0 DEF Typed, TypeOK
<1>4. reads[r] + 1 \in 0 .. MaxReads[r] /\ reads[r] + 1 \in Nat
  <2>1. MaxReads[r] \in Nat /\ reads[r] \in Nat
    BY <1>3, BufferAssumption
  <2> QED
    BY <1>2, <2>1
<1>5. reads' \in [Replicas -> Nat] /\ \A s \in Replicas : reads'[s] \in 0 .. MaxReads[s]
  BY <1>2, <1>3, <1>4
<1>6. /\ out' \in [Replicas -> Seq(Command)] /\ out'[r] = Append(out[r], mget)
      /\ \A s \in Replicas : s # r => out'[s] = out[s]
  BY <1>1, <1>2, <1>3
<1>7. Typed'
  BY <1>0, <1>2, <1>5, <1>6 DEF Typed, TypeOK
<1>8. Good(r)'
  <2>1. Sent(r)' = Append(Sent(r), mget) /\ Sent(r) \in Seq(Command)
    BY <1>0, <1>1, <1>2, <1>6, SentMore, SentType
  <2>2. Writes(Append(Sent(r), mget), inFlight[r])
    BY <1>0, <1>1, <2>1, ReadSent DEF Good, OneWrite
  <2>3. OneWrite(r)'
    BY <1>0, <1>2, <2>1, <2>2 DEF Good, OneWrite
  <2>4. Confirmed(r)' /\ Somewhere(r)' /\ Shut(r)'
    BY <1>0, <1>2 DEF Good, Confirmed, Somewhere, Held, Shut
  <2> QED
    BY <2>3, <2>4 DEF Good
<1>9. \A s \in Replicas : s # r => Local(s)' = Local(s)
  BY <1>2, <1>6 DEF Local
<1> QED
  BY <1>2, <1>7, <1>8, <1>9, Elsewhere

\* The server executes a command: only the write's swap writes, and then all its batch.
LEMMA ExecuteInv == ASSUME IInv, NEW r \in Replicas, Execute(r) PROVE IInv' /\ Confined(r)
<1>0. Typed /\ TypeOK /\ Good(r)
  BY DEF IInv, Typed
<1> DEFINE cmd == Head(out[r])
           read == IF cmd.op = "EVAL" THEN <<>> ELSE record
           reply == [cmd |-> cmd, read |-> read, swapped |-> Swaps(cmd)]
<1>1. /\ out[r] # <<>>
      /\ record' = IF Swaps(cmd) THEN cmd.new ELSE record
      /\ landed' = [landed EXCEPT ![r] = @ \/ Swaps(cmd)]
      /\ back' = [back EXCEPT ![r] = Append(@, reply)]
      /\ out' = [out EXCEPT ![r] = Tail(@)]
      /\ UNCHANGED <<pending, inFlight, chain, attempt, made, reads, closing,
                     rounds, awaits, losses, dropped>>
  BY DEF Execute
<1>2. out[r] \in Seq(Command) /\ back[r] \in Seq(Reply) /\ record \in Records
      /\ inFlight[r] \in Records
  BY <1>0, SentType DEF TypeOK
<1>3. cmd \in Command
  BY <1>1, <1>2
<1>4. Swaps(cmd) \in BOOLEAN /\ (Swaps(cmd) => cmd.op = "EVAL" /\ cmd.expect = record)
  BY DEF Swaps
<1>5. read \in Records
  <2>1. <<>> \in Records
    BY DEF Records
  <2> QED
    BY <1>2, <2>1
<1>6. PICK i \in DOMAIN Sent(r) : Sent(r)[i] = cmd
  BY <1>0, <1>1, BackIsSent
<1> HIDE DEF cmd, read
<1>7. reply \in Reply /\ reply.cmd = cmd /\ reply.swapped = Swaps(cmd)
  BY <1>3, <1>4, <1>5 DEF Reply
<1> HIDE DEF reply
<1>8. Swaps(cmd) => cmd.new = record \o inFlight[r]
  BY <1>0, <1>4, <1>6 DEF Good, OneWrite, Writes
<1>9. /\ record' \in Records /\ ToSet(record) \subseteq ToSet(record')
      /\ Swaps(cmd) => ToSet(inFlight[r]) \subseteq ToSet(record')
  <2>1. CASE Swaps(cmd)
    <3>1. cmd.new \in Records
      BY <1>3, <1>4, <2>1, CommandParts
    <3>2. ToSet(record \o inFlight[r]) = ToSet(record) \cup ToSet(inFlight[r])
      BY <1>2, MembersOfConcat DEF Records
    <3> QED
      BY <1>1, <1>8, <2>1, <3>1, <3>2
  <2>2. CASE ~Swaps(cmd)
    BY <1>1, <1>2, <2>2
  <2> QED
    BY <2>1, <2>2
<1>10. /\ back' \in [Replicas -> Seq(Reply)] /\ back'[r] = Append(back[r], reply)
       /\ \A s \in Replicas : s # r => back'[s] = back[s]
  BY <1>0, <1>1, <1>2, <1>7 DEF TypeOK
<1>11. /\ out' \in [Replicas -> Seq(Command)] /\ out'[r] = Tail(out[r])
       /\ \A s \in Replicas : s # r => out'[s] = out[s]
  <2>1. Tail(out[r]) \in Seq(Command)
    BY <1>1, <1>2
  <2> QED
    BY <1>0, <1>1, <2>1 DEF TypeOK
<1>12. /\ landed' \in [Replicas -> BOOLEAN]
       /\ \A s \in Replicas : s # r => landed'[s] = landed[s]
  <2>1. landed \in [Replicas -> BOOLEAN]
    BY <1>0 DEF TypeOK
  <2> QED
    BY <1>1, <1>4, <2>1
<1>13. Typed'
  BY <1>0, <1>1, <1>9, <1>10, <1>11, <1>12 DEF Typed, TypeOK
<1>14. Good(r)'
  <2>1. Sent(r)' = Sent(r)
    BY <1>0, <1>1, <1>7, <1>10, <1>11, SentExecuted DEF cmd
  <2>2. OneWrite(r)'
    BY <1>0, <1>1, <2>1 DEF Good, OneWrite
  <2>3. Confirmed(r)'
    <3> SUFFICES ASSUME NEW k \in DOMAIN back'[r], back'[r][k].swapped
                 PROVE  back'[r][k].cmd.op = "EVAL" /\ ToSet(inFlight[r]) \subseteq ToSet(record')
      BY <1>1 DEF Confirmed
    <3>1. CASE k \in DOMAIN back[r]
      <4>1. back'[r][k] = back[r][k]
        BY <1>2, <1>7, <1>10, <3>1
      <4> QED
        BY <1>0, <1>9, <3>1, <4>1 DEF Good, Confirmed
    <3>2. CASE k \notin DOMAIN back[r]
      <4>1. back'[r][k] = reply
        BY <1>2, <1>7, <1>10, <3>2
      <4> QED
        BY <1>4, <1>7, <1>9, <4>1
    <3> QED
      BY <3>1, <3>2
  <2>4. Somewhere(r)'
    <3>1. Held(r) \subseteq Held(r)'
      BY <1>1, <1>9 DEF Held
    <3> QED
      BY <1>0, <1>1, <3>1 DEF Good, Somewhere
  <2>5. Shut(r)'
    BY <1>0, <1>1 DEF Good, Shut
  <2> QED
    BY <2>2, <2>3, <2>4, <2>5 DEF Good
<1>15. \A s \in Replicas : s # r => Local(s)' = Local(s)
  BY <1>1, <1>10, <1>11, <1>12 DEF Local
<1> QED
  BY <1>9, <1>13, <1>14, <1>15, Elsewhere

\* What an answer leaves of the replies.
LEMMA AnswerLeaves ==
  ASSUME Typed, NEW r \in Replicas, Confirmed(r), Answer(r)
  PROVE  /\ back' \in [Replicas -> Seq(Reply)] /\ back'[r] = Tail(back[r])
         /\ \A s \in Replicas : s # r => back'[s] = back[s]
         /\ Head(back[r]) \in Reply
         /\ Head(back[r]).swapped => ToSet(inFlight[r]) \subseteq ToSet(record)
         /\ \A i \in DOMAIN back'[r] :
              back'[r][i].swapped =>
                back'[r][i].cmd.op = "EVAL" /\ ToSet(inFlight[r]) \subseteq ToSet(record)
         /\ UNCHANGED <<record, made, reads, closing, rounds, losses>>
<1>1. /\ back[r] # <<>> /\ back' = [back EXCEPT ![r] = Tail(@)]
      /\ UNCHANGED <<record, made, reads, closing, rounds, losses>>
  BY DEF Answer
<1>2. back \in [Replicas -> Seq(Reply)] /\ back[r] \in Seq(Reply)
  BY SentType DEF Typed, TypeOK
<1>3. PICK b \in Seq(Reply) : b = back[r]
  BY <1>2
<1>4. /\ Tail(b) \in Seq(Reply) /\ Head(b) = b[1] /\ 1 \in DOMAIN b /\ Head(b) \in Reply
      /\ \A i \in DOMAIN Tail(b) : i + 1 \in DOMAIN b /\ Tail(b)[i] = b[i + 1]
  BY <1>1, <1>3
<1>5. /\ back' \in [Replicas -> Seq(Reply)] /\ back'[r] = Tail(b)
      /\ \A s \in Replicas : s # r => back'[s] = back[s]
  BY <1>1, <1>2, <1>3, <1>4
<1> QED
  BY <1>1, <1>3, <1>4, <1>5 DEF Confirmed

\* The reply to a snapshot.
LEMMA ReadInv == ASSUME IInv, NEW r \in Replicas, Read(r) PROVE IInv' /\ Confined(r)
<1>0. Typed /\ TypeOK /\ Good(r) /\ Confirmed(r) /\ OneWrite(r)
  BY DEF IInv, Typed, Good
<1>1. /\ Answer(r) /\ back[r] # <<>>
      /\ UNCHANGED <<pending, inFlight, chain, awaits, attempt, out, landed, dropped>>
  BY DEF Read, Answer
<1>2. /\ back' \in [Replicas -> Seq(Reply)] /\ back'[r] = Tail(back[r])
      /\ \A s \in Replicas : s # r => back'[s] = back[s]
      /\ \A i \in DOMAIN back'[r] :
           back'[r][i].swapped =>
             back'[r][i].cmd.op = "EVAL" /\ ToSet(inFlight[r]) \subseteq ToSet(record)
      /\ UNCHANGED <<record, made, reads, closing, rounds, losses>>
  BY <1>0, <1>1, AnswerLeaves
<1>3. Typed'
  BY <1>0, <1>1, <1>2 DEF Typed, TypeOK
<1>4. Good(r)'
  <2>1. Sent(r)' = Tail(Sent(r)) /\ Sent(r) # <<>> /\ Sent(r) \in Seq(Command)
    BY <1>0, <1>1, <1>2, SentAnswered, SentType
  <2>2. Writes(Tail(Sent(r)), inFlight[r])
    BY <1>0, <2>1, Answered DEF OneWrite
  <2>3. OneWrite(r)'
    BY <1>0, <1>1, <2>1, <2>2 DEF OneWrite
  <2>4. Confirmed(r)'
    BY <1>1, <1>2 DEF Confirmed
  <2>5. Somewhere(r)' /\ Shut(r)'
    BY <1>0, <1>1, <1>2 DEF Good, Somewhere, Held, Shut
  <2> QED
    BY <2>3, <2>4, <2>5 DEF Good
<1>5. \A s \in Replicas : s # r => Local(s)' = Local(s)
  BY <1>1, <1>2 DEF Local
<1> QED
  BY <1>2, <1>3, <1>4, <1>5, Elsewhere

\* The oldest reply is to the write's command: there is a batch, and no other command of
\* the write.
LEMMA WriteAnswered ==
  ASSUME Typed, NEW r \in Replicas, OneWrite(r), back[r] # <<>>, back'[r] = Tail(back[r]),
         IsWrite(Head(back[r]).cmd)
  PROVE  /\ inFlight[r] # <<>> /\ chain[r] > 0
         /\ Tail(Sent(r)) \in Seq(Command)
         /\ \A i \in DOMAIN Tail(Sent(r)) : ~IsWrite(Tail(Sent(r))[i])
<1>1. /\ Sent(r) # <<>> /\ Head(Sent(r)) = Head(back[r]).cmd /\ Sent(r) \in Seq(Command)
      /\ Writes(Sent(r), inFlight[r])
  BY SentAnswered, SentType DEF OneWrite
<1>2. /\ Tail(Sent(r)) \in Seq(Command)
      /\ \A i \in DOMAIN Tail(Sent(r)) : ~IsWrite(Tail(Sent(r))[i])
  BY <1>1, Answered
<1>3. 1 \in DOMAIN Sent(r) /\ Sent(r)[1] = Head(Sent(r))
  BY <1>1
<1> QED
  BY <1>1, <1>2, <1>3 DEF OneWrite, Writes

\* The reply to the GET: the swap is sent, with the batch behind what was read.
LEMMA FoldInv == ASSUME IInv, NEW r \in Replicas, Fold(r) PROVE IInv' /\ Confined(r)
<1>0. Typed /\ TypeOK /\ Good(r) /\ Confirmed(r) /\ OneWrite(r)
  BY DEF IInv, Typed, Good
<1> DEFINE read == Head(back[r]).read
           eval == [op |-> "EVAL", expect |-> read, new |-> read \o inFlight[r]]
<1>1. /\ Answer(r) /\ back[r] # <<>> /\ Head(back[r]).cmd.op = "GET"
      /\ out' = [out EXCEPT ![r] = Append(@, eval)]
      /\ UNCHANGED <<pending, inFlight, chain, awaits, attempt, landed, dropped>>
  BY DEF Fold, Answer, Send
<1>2. /\ back' \in [Replicas -> Seq(Reply)] /\ back'[r] = Tail(back[r])
      /\ \A s \in Replicas : s # r => back'[s] = back[s]
      /\ Head(back[r]) \in Reply
      /\ \A i \in DOMAIN back'[r] :
           back'[r][i].swapped =>
             back'[r][i].cmd.op = "EVAL" /\ ToSet(inFlight[r]) \subseteq ToSet(record)
      /\ UNCHANGED <<record, made, reads, closing, rounds, losses>>
  BY <1>0, <1>1, AnswerLeaves
<1>3. /\ eval \in Command /\ eval.op = "EVAL" /\ eval.expect = read
      /\ eval.new = read \o inFlight[r]
  <2>1. read \in Records /\ inFlight[r] \in Records
    BY <1>0, <1>2 DEF Reply, TypeOK
  <2>2. read \o inFlight[r] \in Records
    <3> HIDE DEF read
    <3> QED
      BY <2>1 DEF Records
  <2> QED
    BY <2>1, <2>2, CommandsAre
<1> HIDE DEF eval, read
<1>4. /\ out' \in [Replicas -> Seq(Command)] /\ out'[r] = Append(out[r], eval)
      /\ \A s \in Replicas : s # r => out'[s] = out[s]
  BY <1>0, <1>1, <1>3 DEF TypeOK
<1>5. Typed'
  BY <1>0, <1>1, <1>2, <1>4 DEF Typed, TypeOK
<1>6. Good(r)'
  <2>1. Sent(r)' = Append(Tail(Sent(r)), eval)
    BY <1>0, <1>1, <1>2, <1>3, <1>4, SentAnswered
  <2>2. /\ inFlight[r] # <<>> /\ Tail(Sent(r)) \in Seq(Command)
        /\ \A i \in DOMAIN Tail(Sent(r)) : ~IsWrite(Tail(Sent(r))[i])
    BY <1>0, <1>1, <1>2, WriteAnswered DEF IsWrite
  <2>3. Writes(Append(Tail(Sent(r)), eval), inFlight[r])
    BY <1>3, <2>2, WriteSent
  <2>4. OneWrite(r)'
    BY <1>0, <1>1, <2>1, <2>3 DEF OneWrite
  <2>5. Confirmed(r)'
    BY <1>1, <1>2 DEF Confirmed
  <2>6. Somewhere(r)' /\ Shut(r)'
    BY <1>0, <1>1, <1>2 DEF Good, Somewhere, Held, Shut
  <2> QED
    BY <2>4, <2>5, <2>6 DEF Good
<1>7. \A s \in Replicas : s # r => Local(s)' = Local(s)
  BY <1>1, <1>2, <1>4 DEF Local
<1> QED
  BY <1>2, <1>5, <1>6, <1>7, Elsewhere

\* What the end of a write leaves.
LEMMA WrittenLeaves ==
  ASSUME Typed, NEW r \in Replicas, chain[r] > 0, Written(r)
  PROVE  /\ inFlight' \in [Replicas -> Records] /\ chain' \in [Replicas -> Nat]
         /\ awaits' \in [Replicas -> Nat]
         /\ attempt' \in [Replicas -> 0 .. CAS_ATTEMPTS - 1] /\ landed' \in [Replicas -> BOOLEAN]
         /\ inFlight'[r] = <<>>
         /\ \A s \in Replicas : s # r =>
              inFlight'[s] = inFlight[s] /\ chain'[s] = chain[s] /\ landed'[s] = landed[s]
<1>1. /\ inFlight \in [Replicas -> Records] /\ chain \in [Replicas -> Nat]
      /\ attempt \in [Replicas -> 0 .. CAS_ATTEMPTS - 1] /\ landed \in [Replicas -> BOOLEAN]
      /\ <<>> \in Records
  BY DEF Typed, TypeOK, Records
<1>2. 0 \in 0 .. CAS_ATTEMPTS - 1
  BY BufferAssumption
<1>3. /\ chain' \in [Replicas -> Nat] /\ awaits' \in [Replicas -> Nat]
      /\ \A s \in Replicas : s # r => chain'[s] = chain[s]
  BY EndsType DEF Written
<1> QED
  BY <1>1, <1>2, <1>3 DEF Written

\* The reply to the swap: done, tried again, or given up.
LEMMA SwappedInv == ASSUME IInv, NEW r \in Replicas, Swapped(r) PROVE IInv' /\ Confined(r)
<1>0. Typed /\ TypeOK /\ Good(r) /\ Confirmed(r) /\ OneWrite(r)
  BY DEF IInv, Typed, Good
<1>1. Answer(r) /\ back[r] # <<>> /\ Head(back[r]).cmd.op = "EVAL"
  BY DEF Swapped, Answer
<1>2. /\ back' \in [Replicas -> Seq(Reply)] /\ back'[r] = Tail(back[r])
      /\ \A s \in Replicas : s # r => back'[s] = back[s]
      /\ Head(back[r]).swapped => ToSet(inFlight[r]) \subseteq ToSet(record)
      /\ \A i \in DOMAIN back'[r] :
           back'[r][i].swapped =>
             back'[r][i].cmd.op = "EVAL" /\ ToSet(inFlight[r]) \subseteq ToSet(record)
      /\ UNCHANGED <<record, made, reads, closing, rounds, losses>>
  BY <1>0, <1>1, AnswerLeaves
<1>3. /\ inFlight[r] # <<>> /\ chain[r] > 0
      /\ Tail(Sent(r)) \in Seq(Command)
      /\ \A i \in DOMAIN Tail(Sent(r)) : ~IsWrite(Tail(Sent(r))[i])
  BY <1>0, <1>1, <1>2, WriteAnswered DEF IsWrite
<1>4. closing[r] # "closed"
  BY <1>1 DEF Answer, Running
<1>5. ToSet(<<>>) = {}
  BY DEF ToSet
<1>6. CASE /\ Head(back[r]).swapped
           /\ Written(r)
           /\ UNCHANGED <<pending, out, dropped>>
  <2>1. /\ inFlight' \in [Replicas -> Records] /\ chain' \in [Replicas -> Nat]
        /\ awaits' \in [Replicas -> Nat]
        /\ attempt' \in [Replicas -> 0 .. CAS_ATTEMPTS - 1] /\ landed' \in [Replicas -> BOOLEAN]
        /\ inFlight'[r] = <<>>
        /\ \A s \in Replicas : s # r =>
             inFlight'[s] = inFlight[s] /\ chain'[s] = chain[s] /\ landed'[s] = landed[s]
    BY <1>0, <1>3, <1>6, WrittenLeaves
  <2>2. Typed'
    BY <1>0, <1>2, <1>6, <2>1 DEF Typed, TypeOK
  <2>3. OneWrite(r)'
    <3>1. Sent(r)' = Tail(Sent(r))
      BY <1>0, <1>1, <1>2, <1>6, SentAnswered
    <3>2. Writes(Tail(Sent(r)), inFlight'[r])
      BY <1>3, AnyBatch
    <3> QED
      BY <2>1, <3>1, <3>2 DEF OneWrite
  <2>4. Confirmed(r)'
    BY <1>2, <1>5, <2>1 DEF Confirmed
  <2>5. Somewhere(r)' /\ Shut(r)'
    <3>1. Held(r) \subseteq Held(r)'
      BY <1>2, <1>6 DEF Held
    <3> QED
      BY <1>0, <1>2, <1>4, <3>1 DEF Good, Somewhere, Shut
  <2>6. \A s \in Replicas : s # r => Local(s)' = Local(s)
    BY <1>2, <1>6, <2>1 DEF Local
  <2> QED
    BY <1>2, <2>2, <2>3, <2>4, <2>5, <2>6, Elsewhere DEF Good
<1>7. CASE /\ ~Head(back[r]).swapped
           /\ attempt[r] + 1 < CAS_ATTEMPTS
           /\ attempt' = [attempt EXCEPT ![r] = @ + 1]
           /\ Send(r, [op |-> "GET"])
           /\ UNCHANGED <<pending, inFlight, chain, awaits, landed, dropped>>
  <2> DEFINE get == [op |-> "GET"]
  <2>0. get \in Command /\ get.op = "GET"
    BY CommandsAre
  <2> HIDE DEF get
  <2>1. out' = [out EXCEPT ![r] = Append(@, get)]
    BY <1>7 DEF Send, get
  <2>2. /\ out' \in [Replicas -> Seq(Command)] /\ out'[r] = Append(out[r], get)
        /\ \A s \in Replicas : s # r => out'[s] = out[s]
    BY <1>0, <2>0, <2>1 DEF TypeOK
  <2>3. attempt' \in [Replicas -> 0 .. CAS_ATTEMPTS - 1]
    <3>1. attempt \in [Replicas -> 0 .. CAS_ATTEMPTS - 1] /\ CAS_ATTEMPTS \in Nat
      BY <1>0, BufferAssumption DEF TypeOK
    <3>2. attempt[r] + 1 \in 0 .. CAS_ATTEMPTS - 1
      BY <1>7, <3>1
    <3> QED
      BY <1>7, <3>1, <3>2
  <2>4. Typed'
    BY <1>0, <1>2, <1>7, <2>2, <2>3 DEF Typed, TypeOK
  <2>5. OneWrite(r)'
    <3>1. Sent(r)' = Append(Tail(Sent(r)), get)
      BY <1>0, <1>1, <1>2, <2>0, <2>2, SentAnswered
    <3>2. Writes(Append(Tail(Sent(r)), get), inFlight[r])
      BY <1>3, <2>0, WriteSent
    <3> QED
      BY <1>0, <1>7, <3>1, <3>2 DEF OneWrite
  <2>6. Confirmed(r)'
    BY <1>2, <1>7 DEF Confirmed
  <2>7. Somewhere(r)' /\ Shut(r)'
    BY <1>0, <1>2, <1>7 DEF Good, Somewhere, Held, Shut
  <2>8. \A s \in Replicas : s # r => Local(s)' = Local(s)
    BY <1>2, <1>7, <2>2 DEF Local
  <2> QED
    BY <1>2, <2>4, <2>5, <2>6, <2>7, <2>8, Elsewhere DEF Good
<1>8. CASE /\ ~Head(back[r]).swapped
           /\ attempt[r] + 1 >= CAS_ATTEMPTS
           /\ Requeue(r)
           /\ Written(r)
           /\ UNCHANGED out
  <2>1. /\ inFlight' \in [Replicas -> Records] /\ chain' \in [Replicas -> Nat]
        /\ awaits' \in [Replicas -> Nat]
        /\ attempt' \in [Replicas -> 0 .. CAS_ATTEMPTS - 1] /\ landed' \in [Replicas -> BOOLEAN]
        /\ inFlight'[r] = <<>>
        /\ \A s \in Replicas : s # r =>
             inFlight'[s] = inFlight[s] /\ chain'[s] = chain[s] /\ landed'[s] = landed[s]
    BY <1>0, <1>3, <1>8, WrittenLeaves
  <2>2. /\ pending' \in [Replicas -> Records] /\ dropped' \in [Replicas -> SUBSET Observation]
        /\ \A s \in Replicas : Len(pending'[s]) <= MAX_PENDING
        /\ \A s \in Replicas : s # r => pending'[s] = pending[s] /\ dropped'[s] = dropped[s]
        /\ ToSet(inFlight[r]) \cup ToSet(pending[r]) \subseteq ToSet(pending'[r]) \cup dropped'[r]
        /\ dropped[r] \subseteq dropped'[r]
    BY <1>0, <1>8, RequeueKeeps
  <2>3. Typed'
    BY <1>0, <1>2, <1>8, <2>1, <2>2 DEF Typed, TypeOK
  <2>4. OneWrite(r)'
    <3>1. Sent(r)' = Tail(Sent(r))
      BY <1>0, <1>1, <1>2, <1>8, SentAnswered
    <3>2. Writes(Tail(Sent(r)), inFlight'[r])
      BY <1>3, AnyBatch
    <3> QED
      BY <2>1, <3>1, <3>2 DEF OneWrite
  <2>5. Confirmed(r)'
    BY <1>2, <1>5, <2>1 DEF Confirmed
  <2>6. Somewhere(r)' /\ Shut(r)'
    <3>1. Held(r) \subseteq Held(r)'
      BY <1>2, <2>2 DEF Held
    <3> QED
      BY <1>0, <1>2, <1>4, <3>1 DEF Good, Somewhere, Shut
  <2>7. \A s \in Replicas : s # r => Local(s)' = Local(s)
    BY <1>2, <1>8, <2>1, <2>2 DEF Local
  <2> QED
    BY <1>2, <2>3, <2>4, <2>5, <2>6, <2>7, Elsewhere DEF Good
<1> QED
  BY <1>6, <1>7, <1>8 DEF Swapped

\* The connection breaks: no command is left, and a write under way is given up.
LEMMA BreakInv == ASSUME IInv, NEW r \in Replicas, Break(r) PROVE IInv' /\ Confined(r)
<1>0. Typed /\ TypeOK /\ Good(r) /\ OneWrite(r)
  BY DEF IInv, Typed, Good
<1>1. /\ losses' = losses + 1
      /\ out' = [out EXCEPT ![r] = <<>>] /\ back' = [back EXCEPT ![r] = <<>>]
      /\ UNCHANGED <<record, made, reads, closing, rounds>>
  BY DEF Break
<1>2. /\ out' \in [Replicas -> Seq(Command)] /\ back' \in [Replicas -> Seq(Reply)]
      /\ out'[r] = <<>> /\ back'[r] = <<>> /\ losses' \in Nat
      /\ \A s \in Replicas : s # r => out'[s] = out[s] /\ back'[s] = back[s]
  <2>1. <<>> \in Seq(Command) /\ <<>> \in Seq(Reply) /\ losses \in Nat
    BY <1>0 DEF TypeOK
  <2> QED
    BY <1>0, <1>1, <2>1 DEF TypeOK
<1>3. Sent(r)' = <<>> /\ DOMAIN back'[r] = {}
  BY <1>2 DEF Sent, Cmds
<1>4. Confirmed(r)' /\ Writes(Sent(r)', inFlight'[r])
  <2>1. Writes(<<>>, inFlight'[r])
    BY NoWrites
  <2> QED
    BY <1>3, <2>1 DEF Confirmed
<1>5. CASE WriteUnderWay(r)
  <2>1. Requeue(r) /\ Written(r)
    BY <1>5 DEF Break
  <2>2. chain[r] > 0 /\ closing[r] # "closed"
    BY <1>0, <1>5 DEF WriteUnderWay, OneWrite, Break, Running
  <2>3. /\ inFlight' \in [Replicas -> Records] /\ chain' \in [Replicas -> Nat]
        /\ awaits' \in [Replicas -> Nat]
        /\ attempt' \in [Replicas -> 0 .. CAS_ATTEMPTS - 1] /\ landed' \in [Replicas -> BOOLEAN]
        /\ inFlight'[r] = <<>>
        /\ \A s \in Replicas : s # r =>
             inFlight'[s] = inFlight[s] /\ chain'[s] = chain[s] /\ landed'[s] = landed[s]
    BY <1>0, <2>1, <2>2, WrittenLeaves
  <2>4. /\ pending' \in [Replicas -> Records] /\ dropped' \in [Replicas -> SUBSET Observation]
        /\ \A s \in Replicas : Len(pending'[s]) <= MAX_PENDING
        /\ \A s \in Replicas : s # r => pending'[s] = pending[s] /\ dropped'[s] = dropped[s]
        /\ ToSet(inFlight[r]) \cup ToSet(pending[r]) \subseteq ToSet(pending'[r]) \cup dropped'[r]
        /\ dropped[r] \subseteq dropped'[r]
    BY <1>0, <2>1, RequeueKeeps
  <2>5. Typed'
    BY <1>0, <1>1, <1>2, <2>3, <2>4 DEF Typed, TypeOK
  <2>6. OneWrite(r)'
    BY <1>4, <2>3 DEF OneWrite
  <2>7. Somewhere(r)' /\ Shut(r)'
    <3>1. Held(r) \subseteq Held(r)'
      BY <1>1, <2>4 DEF Held
    <3> QED
      BY <1>0, <1>1, <2>2, <3>1 DEF Good, Somewhere, Shut
  <2>8. \A s \in Replicas : s # r => Local(s)' = Local(s)
    BY <1>1, <1>2, <2>3, <2>4 DEF Local
  <2> QED
    BY <1>1, <1>4, <2>5, <2>6, <2>7, <2>8, Elsewhere DEF Good
<1>6. CASE ~WriteUnderWay(r)
  <2>1. UNCHANGED <<pending, dropped, inFlight, chain, awaits, attempt, landed>>
    BY <1>6 DEF Break
  <2>2. Typed'
    BY <1>0, <1>1, <1>2, <2>1 DEF Typed, TypeOK
  <2>3. OneWrite(r)' /\ Somewhere(r)' /\ Shut(r)'
    BY <1>0, <1>1, <1>4, <2>1 DEF Good, OneWrite, Somewhere, Held, Shut
  <2>4. \A s \in Replicas : s # r => Local(s)' = Local(s)
    BY <1>1, <1>2, <2>1 DEF Local
  <2> QED
    BY <1>1, <1>4, <2>2, <2>3, <2>4, Elsewhere DEF Good
<1> QED
  BY <1>5, <1>6

\* The client sends its commands again.
LEMMA ResendInv == ASSUME IInv, NEW r \in Replicas, Resend(r) PROVE IInv' /\ Confined(r)
<1>0. Typed /\ TypeOK /\ Good(r)
  BY DEF IInv, Typed
<1>1. /\ losses' = losses + 1
      /\ out' = [out EXCEPT ![r] = Cmds(back[r]) \o @] /\ back' = [back EXCEPT ![r] = <<>>]
      /\ landed' = [landed EXCEPT ![r] = FALSE]
      /\ UNCHANGED <<record, pending, inFlight, chain, attempt, made, reads, closing, rounds,
                     awaits, dropped>>
  BY DEF Resend, Cmds
<1>2. out'[r] = Cmds(back[r]) \o out[r] /\ back'[r] = <<>>
  BY <1>0, <1>1 DEF TypeOK
<1>3. Sent(r)' = Sent(r) /\ out'[r] \in Seq(Command)
  BY <1>0, <1>2, SentAgain
<1>4. /\ out' \in [Replicas -> Seq(Command)] /\ back' \in [Replicas -> Seq(Reply)]
      /\ landed' \in [Replicas -> BOOLEAN] /\ losses' \in Nat
      /\ \A s \in Replicas : s # r =>
           out'[s] = out[s] /\ back'[s] = back[s] /\ landed'[s] = landed[s]
  <2>1. <<>> \in Seq(Reply) /\ losses \in Nat
    BY <1>0 DEF TypeOK
  <2>2. Cmds(back[r]) \o out[r] \in Seq(Command)
    BY <1>2, <1>3
  <2> HIDE DEF Cmds
  <2> QED
    BY <1>0, <1>1, <2>1, <2>2 DEF TypeOK
<1>5. Typed'
  BY <1>0, <1>1, <1>4 DEF Typed, TypeOK
<1>6. OneWrite(r)' /\ Confirmed(r)' /\ Somewhere(r)' /\ Shut(r)'
  BY <1>0, <1>1, <1>2, <1>3 DEF Good, OneWrite, Confirmed, Somewhere, Held, Shut
<1>7. \A s \in Replicas : s # r => Local(s)' = Local(s)
  BY <1>1, <1>4 DEF Local
<1> QED
  BY <1>1, <1>5, <1>6, <1>7, Elsewhere DEF Good

\* close begins, goes round, and ends.
LEMMA ClosingInv ==
  ASSUME IInv, NEW r \in Replicas, Close(r) \/ CloseRound(r) PROVE IInv' /\ Confined(r)
<1>0. Typed /\ TypeOK /\ Good(r)
  BY DEF IInv, Typed
<1>1. UNCHANGED <<record, pending, inFlight, attempt, out, back, made, reads, losses,
                  landed, dropped>>
  BY DEF Close, CloseRound
<1>2. /\ closing \in [Replicas -> {"open", "closing", "closed", "reported"}]
      /\ rounds \in [Replicas -> 0 .. CloseRounds] /\ chain \in [Replicas -> Nat]
      /\ CloseRounds \in Nat \ {0} /\ chain[r] \in Nat /\ awaits \in [Replicas -> Nat]
  BY <1>0, ChainNat, BufferAssumption DEF TypeOK
<1>3. /\ closing' \in [Replicas -> {"open", "closing", "closed", "reported"}]
      /\ rounds' \in [Replicas -> 0 .. CloseRounds] /\ chain' \in [Replicas -> Nat]
      /\ chain'[r] \in Nat /\ chain'[r] >= chain[r] /\ awaits' \in [Replicas -> Nat]
      /\ closing'[r] = "closed" => pending[r] = <<>>
      /\ \A s \in Replicas : s # r => chain'[s] = chain[s] /\ closing'[s] = closing[s]
  <2>1. CASE Close(r)
    BY <1>2, <2>1 DEF Close
  <2>2. CASE CloseRound(r) /\ (pending[r] # <<>> \/ chain[r] > 0) /\ rounds[r] < CloseRounds
    <3>1. /\ chain' = [chain EXCEPT ![r] = @ + 1] /\ rounds' = [rounds EXCEPT ![r] = @ + 1]
          /\ awaits' = [awaits EXCEPT ![r] = chain[r] + 1]
          /\ closing' = closing /\ closing[r] = "closing"
      BY <2>2 DEF CloseRound
    <3>2. rounds[r] \in 0 .. CloseRounds
      BY <1>2
    <3>3. rounds[r] + 1 \in 0 .. CloseRounds
      BY <1>2, <2>2, <3>2
    <3>4. rounds' \in [Replicas -> 0 .. CloseRounds]
      BY <1>2, <3>1, <3>3
    <3>5. chain[r] + 1 \in Nat /\ chain[r] + 1 >= chain[r]
      BY <1>2
    <3>6. /\ chain' \in [Replicas -> Nat] /\ chain'[r] >= chain[r]
          /\ awaits' \in [Replicas -> Nat] /\ chain'[r] \in Nat
          /\ \A s \in Replicas : s # r => chain'[s] = chain[s]
      BY <1>2, <3>1, <3>5 DEF TypeOK
    <3> QED
      BY <1>2, <3>1, <3>4, <3>5, <3>6
  <2>3. CASE CloseRound(r) /\ ~((pending[r] # <<>> \/ chain[r] > 0) /\ rounds[r] < CloseRounds)
    <3>1. /\ closing' = [closing EXCEPT ![r] = IF pending[r] = <<>>
                                               THEN "closed" ELSE "reported"]
          /\ UNCHANGED <<chain, rounds, awaits>>
      BY <2>3 DEF CloseRound
    <3>3. closing'[r] = "closed" => pending[r] = <<>>
      BY <1>2, <3>1
    <3> QED
      BY <1>2, <3>1, <3>3
  <2> QED
    BY <2>1, <2>2, <2>3
<1>4. Typed'
  BY <1>0, <1>1, <1>3 DEF Typed, TypeOK
<1>5. Good(r)'
  <2>1. OneWrite(r)'
    BY <1>0, <1>1, <1>3, SameCommands DEF Good
  <2>2. Confirmed(r)' /\ Somewhere(r)' /\ Shut(r)'
    BY <1>0, <1>1, <1>3 DEF Good, Confirmed, Somewhere, Held, Shut
  <2> QED
    BY <2>1, <2>2 DEF Good
<1>6. \A s \in Replicas : s # r => Local(s)' = Local(s)
  BY <1>1, <1>3 DEF Local
<1> QED
  BY <1>1, <1>4, <1>5, <1>6, Elsewhere

LEMMA StutterInv == ASSUME IInv, UNCHANGED vars PROVE IInv'
<1>1. Typed'
  BY DEF IInv, Typed, TypeOK, vars
<1>2. \A s \in Replicas : Local(s)' = Local(s)
  BY DEF vars, Local
<1>3. record' = record
  BY DEF vars
<1> QED
  BY <1>1, <1>2, <1>3, Undisturbed DEF IInv

LEMMA NextInv == IInv /\ [Next]_vars => IInv'
<1> SUFFICES ASSUME IInv, [Next]_vars PROVE IInv'
  OBVIOUS
<1>1. CASE UNCHANGED vars \/ Finished
  BY <1>1, StutterInv DEF Finished
<1>2. ASSUME NEW r \in Replicas,
             Enqueue(r) \/ Flush(r) \/ Snapshot(r) \/ Work(r) \/ Break(r) \/ Resend(r) \/ Close(r)
      PROVE  IInv'
  BY <1>2, EnqueueInv, FlushInv, SnapshotInv, WriteInv, ExecuteInv, FoldInv, SwappedInv,
     ReadInv, BreakInv, ResendInv, ClosingInv DEF Work
<1> QED
  BY <1>1, <1>2 DEF Next

LEMMA Invariance == Spec => []IInv
BY InitInv, NextInv, PTL DEF Spec

\* TypeOK: the buffers, the write under way, the connection and the record stay well formed,
\* and no buffer is ever longer than MAX_PENDING.
THEOREM BufferTyped == Spec => []TypeOK
<1>1. IInv => TypeOK
  BY DEF IInv, Typed
<1> QED
  BY <1>1, Invariance, PTL

\* What a close that reports nothing can have left behind is no more than the batch of a
\* write queued behind its last one, and nothing if there is none, however many gateways
\* write the record and whatever is lost on the way (ValkeyHealthStore.close).
THEOREM CloseLosesAtMostABatch == Spec => []CloseLosesOneBatch
<1>1. ASSUME IInv PROVE CloseLosesOneBatch
  <2> SUFFICES ASSUME NEW r \in Replicas, closing[r] = "closed", NEW n \in 1 .. made[r]
               PROVE  Accounted(r, n, IF chain[r] > 0 THEN ToSet(inFlight[r]) ELSE {})
    BY DEF CloseLosesOneBatch
  <2>1. Good(r) /\ Typed
    BY <1>1 DEF IInv
  <2>2. pending[r] = <<>>
    BY <2>1 DEF Good, Shut
  <2>3. inFlight[r] # <<>> => chain[r] > 0
    BY <2>1 DEF Good, OneWrite
  <2>4. Held(r) = ToSet(record) \cup dropped[r] \cup ToSet(inFlight[r]) /\ ToSet(<<>>) = {}
    BY <2>2 DEF Held, ToSet
  <2>5. Accounted(r, n, ToSet(inFlight[r]))
    BY <2>1, <2>4 DEF Good, Somewhere, Accounted
  <2> QED
    BY <2>3, <2>4, <2>5 DEF Accounted
<1> QED
  BY <1>1, Invariance, PTL

-----------------------------------------------------------------------------
\* Where the batch in flight is.

\* It is in the record just when the reply that says so is on its way.
Landing(r) == landed[r] <=> \E j \in DOMAIN back[r] : back[r][j].swapped

\* What a gateway has to write, it has made itself.
Mine(r) == \A o \in ToSet(inFlight[r]) \cup ToSet(pending[r]) : o.by = r

\* Once in the record it is the last stretch there that is the gateway's own.
IsStretch(r, log, batch, i, j) ==
  /\ SubSeq(log, i, j) = batch
  /\ \A k \in i .. Len(log) : log[k].by = r <=> k <= j
Stretch(r) ==
  landed[r] => \E i \in 1 .. Len(record) + 1, j \in 0 .. Len(record) :
                 IsStretch(r, record, inFlight[r], i, j)

Aware(r) == Landing(r) /\ Mine(r) /\ Stretch(r)
KInv == IInv /\ \A r \in Replicas : Aware(r)

\* Where no command is a write's, no reply says a batch landed.
LEMMA NothingLands ==
  ASSUME NEW b \in Seq(Reply), NEW w \in Seq(Command),
         \A i \in DOMAIN (Cmds(b) \o w) : ~IsWrite((Cmds(b) \o w)[i]),
         \A i \in DOMAIN b : b[i].swapped => b[i].cmd.op = "EVAL"
  PROVE  \A i \in DOMAIN b : ~b[i].swapped
<1>1. Cmds(b) \in Seq(Command) /\ Len(Cmds(b)) = Len(b)
  BY CmdsType
<1>2. PICK a \in Seq(Command) : a = Cmds(b)
  BY <1>1
<1>3. ASSUME NEW i \in DOMAIN b PROVE i \in DOMAIN (a \o w) /\ (a \o w)[i] = b[i].cmd
  <2>1. i \in 1 .. Len(a) /\ a[i] = b[i].cmd
    BY <1>1, <1>2, <1>3 DEF Cmds
  <2> QED
    BY <2>1
<1> QED
  BY <1>2, <1>3 DEF IsWrite

LEMMA TailLands ==
  ASSUME NEW b \in Seq(Reply), b # <<>>, ~Head(b).swapped
  PROVE  (\E j \in DOMAIN b : b[j].swapped) <=> (\E j \in DOMAIN Tail(b) : Tail(b)[j].swapped)
<1>1. /\ DOMAIN b = 1 .. Len(b) /\ Len(b) \in Nat \ {0} /\ DOMAIN Tail(b) = 1 .. Len(b) - 1
      /\ Head(b) = b[1] /\ \A i \in 1 .. Len(b) - 1 : Tail(b)[i] = b[i + 1]
  OBVIOUS
<1>2. ASSUME NEW j \in DOMAIN Tail(b), Tail(b)[j].swapped
      PROVE  \E i \in DOMAIN b : b[i].swapped
  <2>1. j + 1 \in DOMAIN b /\ b[j + 1].swapped
    BY <1>1, <1>2
  <2> QED
    BY <2>1
<1>3. ASSUME NEW j \in DOMAIN b, b[j].swapped
      PROVE  \E i \in DOMAIN Tail(b) : Tail(b)[i].swapped
  <2>1. j # 1
    BY <1>1, <1>3
  <2>2. j - 1 \in DOMAIN Tail(b) /\ Tail(b)[j - 1] = b[(j - 1) + 1] /\ (j - 1) + 1 = j
    BY <1>1, <1>3, <2>1
  <2> QED
    BY <1>3, <2>2
<1> QED
  BY <1>2, <1>3

LEMMA NoneLanded ==
  ASSUME Typed, NEW r \in Replicas, OneWrite(r), Confirmed(r), inFlight[r] = <<>>
  PROVE  \A i \in DOMAIN back[r] : ~back[r][i].swapped
<1>1. \A i \in DOMAIN Sent(r) : ~IsWrite(Sent(r)[i])
  <2>1. Writes(Sent(r), <<>>)
    BY DEF OneWrite
  <2> QED
    BY <2>1, NoBatchNoWrite
<1> QED
  BY <1>1, BackIsSent DEF Confirmed, IsWrite

\* What the server does with a gateway's command, in short.
LEMMA Executed ==
  ASSUME IInv, NEW r \in Replicas, Execute(r)
  PROVE  \E reply \in Reply :
           /\ back'[r] = Append(back[r], reply) /\ landed'[r] = (landed[r] \/ reply.swapped)
           /\ UNCHANGED <<pending, inFlight, made, losses>>
           /\ reply.cmd.op = "MGET" => reply.read = record /\ ~reply.swapped
           /\ ~reply.swapped => record' = record
           /\ reply.swapped =>
                /\ record' = record \o inFlight[r] /\ inFlight[r] # <<>>
                /\ \A j \in DOMAIN back[r] : ~back[r][j].swapped
<1>0. Typed /\ TypeOK /\ Good(r)
  BY DEF IInv, Typed
<1> DEFINE cmd == Head(out[r])
           read == IF cmd.op = "EVAL" THEN <<>> ELSE record
           reply == [cmd |-> cmd, read |-> read, swapped |-> Swaps(cmd)]
<1>1. /\ out[r] # <<>>
      /\ record' = IF Swaps(cmd) THEN cmd.new ELSE record
      /\ landed' = [landed EXCEPT ![r] = @ \/ Swaps(cmd)]
      /\ back' = [back EXCEPT ![r] = Append(@, reply)]
      /\ UNCHANGED <<pending, inFlight, made, losses>>
  BY DEF Execute
<1>2. out[r] \in Seq(Command) /\ record \in Records
  BY <1>0, SentType DEF TypeOK
<1>3. Swaps(cmd) \in BOOLEAN /\ (Swaps(cmd) => cmd.op = "EVAL" /\ cmd.expect = record)
  BY DEF Swaps
<1>4. PICK i \in DOMAIN Sent(r) : i \notin DOMAIN back[r] /\ Sent(r)[i] = cmd
  BY <1>0, <1>1, BackIsSent
<1>5. reply.cmd = cmd /\ reply.swapped = Swaps(cmd) /\ (cmd.op = "MGET" => reply.read = record)
  OBVIOUS
<1>6. cmd \in Command /\ read \in Records
  <2>1. <<>> \in Records
    BY DEF Records
  <2> QED
    BY <1>1, <1>2, <2>1
<1> HIDE DEF cmd, read
<1>7. reply \in Reply
  BY <1>3, <1>6 DEF Reply
<1>8. landed'[r] = (landed[r] \/ Swaps(cmd)) /\ back'[r] = Append(back[r], reply)
  BY <1>0, <1>1 DEF TypeOK
<1> HIDE DEF reply
<1>9. Swaps(cmd) => record' = record \o inFlight[r] /\ inFlight[r] # <<>>
  BY <1>0, <1>1, <1>3, <1>4 DEF Good, OneWrite, Writes, IsWrite
<1>10. ASSUME Swaps(cmd), NEW j \in DOMAIN back[r], back[r][j].swapped PROVE FALSE
  <2>1. back[r][j].cmd.op = "EVAL"
    BY <1>0, <1>10 DEF Good, Confirmed
  <2>2. j \in DOMAIN Sent(r) /\ Sent(r)[j] = back[r][j].cmd
    BY <1>0, <1>10, BackIsSent
  <2>3. IsWrite(Sent(r)[i]) /\ IsWrite(Sent(r)[j]) /\ i # j
    BY <1>3, <1>4, <1>10, <2>1, <2>2 DEF IsWrite
  <2> QED
    BY <1>0, <1>4, <2>2, <2>3 DEF Good, OneWrite, Writes
<1>11. reply.cmd.op = "MGET" => reply.read = record /\ ~reply.swapped
  BY <1>3, <1>5
<1>12. ~reply.swapped => record' = record
  BY <1>1, <1>5
<1>13. reply.swapped =>
         /\ record' = record \o inFlight[r] /\ inFlight[r] # <<>>
         /\ \A j \in DOMAIN back[r] : ~back[r][j].swapped
  BY <1>5, <1>9, <1>10
<1> QED
  BY <1>1, <1>5, <1>7, <1>8, <1>11, <1>12, <1>13

\* A stretch stays one when others' observations, or none, join the record.
LEMMA StretchStays ==
  ASSUME NEW r, NEW log \in Records, NEW more \in Records, \A o \in ToSet(more) : o.by # r,
         NEW batch, NEW i \in 1 .. Len(log) + 1, NEW j \in 0 .. Len(log),
         IsStretch(r, log, batch, i, j)
  PROVE  /\ IsStretch(r, log \o more, batch, i, j)
         /\ i \in 1 .. Len(log \o more) + 1 /\ j \in 0 .. Len(log \o more)
<1> DEFINE new == log \o more
<1>1. /\ Len(log) \in Nat /\ Len(more) \in Nat /\ Len(new) = Len(log) + Len(more)
      /\ new \in Records /\ log \in Seq(Observation)
      /\ \A k \in 1 .. Len(log) : new[k] = log[k]
      /\ \A k \in 1 .. Len(new) : k > Len(log) => new[k] = more[k - Len(log)] /\ k - Len(log) \in DOMAIN more
  BY DEF Records
<1> HIDE DEF new
<1>2. i \in 1 .. Len(new) + 1 /\ j \in 0 .. Len(new)
  BY <1>1
<1>3. SubSeq(new, i, j) = SubSeq(log, i, j)
  <2>1. \A k \in i .. j : new[k] = log[k] /\ k \in 1 .. Len(log)
    BY <1>1
  <2>2. CASE i <= j
    <3> DEFINE s == SubSeq(new, i, j)  u == SubSeq(log, i, j)
    <3>1. i \in 1 .. Len(log) /\ j \in 1 .. Len(log) /\ i \in 1 .. Len(new) /\ j \in 1 .. Len(new)
          /\ new \in Seq(Observation)
      BY <1>1, <2>2 DEF Records
    <3>2. s \in Seq(Observation) /\ Len(s) = j - i + 1 /\ \A k \in 1 .. j - i + 1 : s[k] = new[i + k - 1]
      BY <1>1, <2>2, <3>1, SubSeqProperties
    <3>3. u \in Seq(Observation) /\ Len(u) = j - i + 1 /\ \A k \in 1 .. j - i + 1 : u[k] = log[i + k - 1]
      BY <1>1, <2>2, <3>1, SubSeqProperties
    <3> HIDE DEF s, u
    <3>4. ASSUME NEW k \in 1 .. j - i + 1 PROVE s[k] = u[k]
      <4>1. i + k - 1 \in i .. j
        BY <2>2, <3>1, <3>4
      <4> QED
        BY <2>1, <3>2, <3>3, <4>1
    <3>5. s = u
      BY <3>2, <3>3, <3>4, SeqEqual
    <3> QED
      BY <3>5 DEF s, u
  <2>3. CASE i > j
    BY <1>1, <2>3
  <2> QED
    BY <1>1, <2>2, <2>3
<1>4. ASSUME NEW k \in i .. Len(new) PROVE new[k].by = r <=> k <= j
  <2>1. CASE k <= Len(log)
    <3>1. k \in i .. Len(log) /\ k \in 1 .. Len(log)
      BY <1>1, <2>1
    <3> QED
      BY <1>1, <3>1 DEF IsStretch
  <2>2. CASE k > Len(log)
    <3>1. k \in 1 .. Len(new) /\ ~(k <= j)
      BY <1>1, <2>2
    <3>2. more[k - Len(log)] \in ToSet(more)
      BY <1>1, <2>2, <3>1 DEF ToSet
    <3> QED
      BY <1>1, <2>2, <3>1, <3>2
  <2> QED
    BY <1>1, <2>1, <2>2
<1>5. IsStretch(r, new, batch, i, j)
  BY <1>3, <1>4 DEF IsStretch
<1> QED
  BY <1>2, <1>5 DEF new

\* What has just joined the record is the last stretch there.
LEMMA StretchBegins ==
  ASSUME NEW r, NEW log \in Records, NEW batch \in Records, \A o \in ToSet(batch) : o.by = r
  PROVE  \E i \in 1 .. Len(log \o batch) + 1, j \in 0 .. Len(log \o batch) :
           IsStretch(r, log \o batch, batch, i, j)
<1> DEFINE new == log \o batch
<1>1. /\ Len(log) \in Nat /\ Len(batch) \in Nat /\ Len(new) = Len(log) + Len(batch)
      /\ new \in Records /\ new \in Seq(Observation) /\ batch \in Seq(Observation)
      /\ \A k \in 1 .. Len(batch) : new[Len(log) + k] = batch[k]
      /\ DOMAIN batch = 1 .. Len(batch)
  BY DEF Records
<1> HIDE DEF new
<1> DEFINE i == Len(log) + 1  j == Len(new)
<1>2. i \in 1 .. Len(new) + 1 /\ j \in 0 .. Len(new)
  BY <1>1
<1>3. SubSeq(new, i, j) = batch
  <2> DEFINE s == SubSeq(new, i, j)
  <2>1. s \in Seq(Observation) /\ Len(s) = Len(batch)
        /\ \A k \in 1 .. Len(batch) : s[k] = new[Len(log) + k]
    BY <1>1, SubSeqProperties
  <2> HIDE DEF s
  <2>2. s = batch
    BY <1>1, <2>1, SeqEqual
  <2> QED
    BY <2>2 DEF s
<1>4. ASSUME NEW k \in i .. Len(new) PROVE new[k].by = r /\ k <= j
  <2>1. k - Len(log) \in 1 .. Len(batch) /\ Len(log) + (k - Len(log)) = k /\ k <= j
    BY <1>1
  <2>2. new[k] = batch[k - Len(log)]
    BY <1>1, <2>1
  <2>3. batch[k - Len(log)] \in ToSet(batch)
    BY <1>1, <2>1 DEF ToSet
  <2> QED
    BY <2>1, <2>2, <2>3
<1>5. IsStretch(r, new, batch, i, j)
  BY <1>3, <1>4 DEF IsStretch
<1> QED
  BY <1>2, <1>5 DEF new

LEMMA QuietAware ==
  ASSUME Typed, NEW r \in Replicas, Aware(r),
         pending'[r] = pending[r], inFlight'[r] = inFlight[r], record' = record,
         landed'[r] = landed[r],
         \/ back'[r] = back[r]
         \/ back[r] # <<>> /\ back'[r] = Tail(back[r]) /\ ~Head(back[r]).swapped
  PROVE  Aware(r)'
<1>1. Mine(r)' /\ Stretch(r)'
  BY DEF Aware, Mine, Stretch
<1>2. Landing(r)'
  <2>1. CASE back'[r] = back[r]
    BY <2>1 DEF Aware, Landing
  <2>2. CASE back[r] # <<>> /\ back'[r] = Tail(back[r]) /\ ~Head(back[r]).swapped
    <3>1. back[r] \in Seq(Reply)
      BY SentType
    <3>2. (\E j \in DOMAIN back[r] : back[r][j].swapped)
            <=> (\E j \in DOMAIN Tail(back[r]) : Tail(back[r])[j].swapped)
      BY <2>2, <3>1, TailLands
    <3> QED
      BY <2>2, <3>2 DEF Aware, Landing
  <2> QED
    BY <2>1, <2>2
<1> QED
  BY <1>1, <1>2 DEF Aware

\* Another gateway's batch joins the record, or none does.
LEMMA OthersAware ==
  ASSUME IInv, NEW r \in Replicas, Mine(r), NEW s \in Replicas, s # r, Aware(s),
         Local(s)' = Local(s), record' = record \/ record' = record \o inFlight[r]
  PROVE  Aware(s)'
<1>1. /\ pending'[s] = pending[s] /\ inFlight'[s] = inFlight[s] /\ back'[s] = back[s]
      /\ landed'[s] = landed[s]
  BY DEF Local
<1>2. Landing(s)' /\ Mine(s)'
  BY <1>1 DEF Aware, Landing, Mine
<1>3. Stretch(s)'
  <2>1. CASE record' = record
    BY <1>1, <2>1 DEF Aware, Stretch
  <2>2. CASE record' = record \o inFlight[r]
    <3> SUFFICES ASSUME landed[s]
                 PROVE  \E i \in 1 .. Len(record') + 1, j \in 0 .. Len(record') :
                          IsStretch(s, record', inFlight[s], i, j)
      BY <1>1 DEF Stretch
    <3>1. PICK i \in 1 .. Len(record) + 1, j \in 0 .. Len(record) :
            IsStretch(s, record, inFlight[s], i, j)
      BY DEF Aware, Stretch
    <3>2. record \in Records /\ inFlight[r] \in Records
      BY DEF IInv, Typed, TypeOK
    <3>3. \A o \in ToSet(inFlight[r]) : o.by # s
      BY DEF Mine
    <3>4. /\ IsStretch(s, record \o inFlight[r], inFlight[s], i, j)
          /\ i \in 1 .. Len(record \o inFlight[r]) + 1 /\ j \in 0 .. Len(record \o inFlight[r])
      BY <3>1, <3>2, <3>3, StretchStays
    <3> QED
      BY <2>2, <3>4
  <2> QED
    BY <2>1, <2>2
<1> QED
  BY <1>2, <1>3 DEF Aware

LEMMA EnqueueAware == ASSUME IInv, NEW r \in Replicas, Aware(r), Enqueue(r) PROVE Aware(r)'
<1>0. Typed /\ TypeOK
  BY DEF IInv, Typed
<1>1. PICK kind \in Kinds :
        Buffer(r, Append(pending[r], [by |-> r, n |-> made[r] + 1, kind |-> kind]))
  BY DEF Enqueue
<1>2. made[r] < MaxRecords[r] /\ UNCHANGED <<record, inFlight, back, landed>>
  BY DEF Enqueue
<1> DEFINE o == [by |-> r, n |-> made[r] + 1, kind |-> kind]
           seq == Append(pending[r], o)
<1>3. made[r] + 1 \in 1 .. MaxRecords[r]
  <2>1. made[r] \in Nat /\ MaxRecords[r] \in Nat
    BY <1>0, BufferAssumption DEF Typed
  <2> QED
    BY <1>2, <2>1
<1>4. o \in Observation /\ o.by = r
  BY <1>3, ObservationIs
<1>5. pending[r] \in Seq(Observation)
  BY <1>0 DEF TypeOK, Records
<1>6. Buffer(r, seq)
  BY <1>1
<1> HIDE DEF o
<1>7. seq \in Records /\ ToSet(seq) = ToSet(pending[r]) \cup {o}
  BY <1>4, <1>5, MembersOfAppend DEF Records
<1> HIDE DEF seq
<1>8. PICK k \in 0 .. Len(seq) :
           /\ pending' = [pending EXCEPT ![r] = SubSeq(seq, k + 1, Len(seq))]
           /\ ToSet(seq) = ToSet(SubSeq(seq, 1, k)) \cup ToSet(SubSeq(seq, k + 1, Len(seq)))
  BY <1>0, <1>6, <1>7, BufferKeeps
<1>9. ToSet(pending'[r]) \subseteq ToSet(seq)
  BY <1>0, <1>8 DEF TypeOK
<1>10. Mine(r)'
  BY <1>2, <1>4, <1>7, <1>9 DEF Aware, Mine
<1>11. Landing(r)' /\ Stretch(r)'
  BY <1>2 DEF Aware, Landing, Stretch
<1> QED
  BY <1>10, <1>11 DEF Aware

LEMMA WriteAware ==
  ASSUME IInv, NEW r \in Replicas, Aware(r), Write(r) PROVE Aware(r)' /\ ~landed[r]
<1>0. Typed /\ TypeOK /\ Good(r)
  BY DEF IInv, Typed
<1>1. inFlight[r] = <<>> /\ UNCHANGED <<record, back, landed>>
  BY DEF Write, WriteUnderWay
<1>2. ~landed[r]
  BY <1>0, <1>1, NoneLanded DEF Good, Aware, Landing
<1>3. Mine(r)'
  <2>1. CASE pending[r] = <<>>
    BY <1>1, <2>1 DEF Write, Aware, Mine
  <2>2. CASE pending[r] # <<>>
    <3>1. inFlight'[r] = pending[r] /\ pending'[r] = <<>>
      BY <1>0, <2>2 DEF Write, TypeOK
    <3>2. ToSet(<<>>) = {}
      BY DEF ToSet
    <3> QED
      BY <3>1, <3>2 DEF Aware, Mine
  <2> QED
    BY <2>1, <2>2
<1> QED
  BY <1>1, <1>2, <1>3 DEF Aware, Landing, Stretch

LEMMA ExecuteAware ==
  ASSUME IInv, NEW r \in Replicas, Aware(r), Execute(r)
  PROVE  /\ Aware(r)' /\ UNCHANGED <<pending, inFlight, losses>>
         /\ \/ record' = record /\ landed'[r] = landed[r]
            \/ /\ record' = record \o inFlight[r] /\ inFlight[r] # <<>>
               /\ ~landed[r] /\ landed'[r]
<1>0. Typed /\ TypeOK
  BY DEF IInv, Typed
<1>1. PICK reply \in Reply :
           /\ back'[r] = Append(back[r], reply) /\ landed'[r] = (landed[r] \/ reply.swapped)
           /\ UNCHANGED <<pending, inFlight, made, losses>>
           /\ ~reply.swapped => record' = record
           /\ reply.swapped =>
                /\ record' = record \o inFlight[r] /\ inFlight[r] # <<>>
                /\ \A j \in DOMAIN back[r] : ~back[r][j].swapped
  BY Executed
<1>2. PICK b \in Seq(Reply) : b = back[r]
  BY <1>0, SentType
<1>3. /\ DOMAIN b = 1 .. Len(b) /\ Len(b) \in Nat /\ DOMAIN back'[r] = 1 .. Len(b) + 1
      /\ back'[r][Len(b) + 1] = reply /\ \A k \in 1 .. Len(b) : back'[r][k] = b[k]
      /\ Len(b) + 1 \in 1 .. Len(b) + 1
      /\ \A k \in 1 .. Len(b) + 1 : k = Len(b) + 1 \/ k \in 1 .. Len(b)
      /\ \A k \in 1 .. Len(b) : k \in 1 .. Len(b) + 1
  BY <1>1, <1>2
<1>4. Mine(r)'
  BY <1>1 DEF Aware, Mine
<1>5. landed[r] \in BOOLEAN /\ inFlight[r] \in Records /\ record \in Records
      /\ reply.swapped \in BOOLEAN
  BY <1>0 DEF TypeOK, Reply
<1>6. CASE reply.swapped
  <2>1. ~landed[r] /\ landed'[r]
    BY <1>1, <1>5, <1>6 DEF Aware, Landing
  <2>2. Landing(r)'
    BY <1>3, <1>6, <2>1 DEF Landing
  <2>3. Stretch(r)'
    <3>1. \A o \in ToSet(inFlight[r]) : o.by = r
      BY DEF Aware, Mine
    <3>2. \E i \in 1 .. Len(record \o inFlight[r]) + 1, j \in 0 .. Len(record \o inFlight[r]) :
            IsStretch(r, record \o inFlight[r], inFlight[r], i, j)
      BY <1>5, <3>1, StretchBegins
    <3> QED
      BY <1>1, <1>6, <3>2 DEF Stretch
  <2> QED
    BY <1>1, <1>4, <1>6, <2>1, <2>2, <2>3 DEF Aware
<1>7. CASE ~reply.swapped
  <2>1. record' = record /\ landed'[r] = landed[r]
    BY <1>1, <1>5, <1>7
  <2>2. Landing(r)'
    BY <1>2, <1>3, <1>7, <2>1 DEF Aware, Landing
  <2>3. Stretch(r)'
    BY <1>1, <2>1 DEF Aware, Stretch
  <2> QED
    BY <1>1, <1>4, <2>1, <2>2, <2>3 DEF Aware
<1> QED
  BY <1>6, <1>7

\* The reply to a GET or a snapshot takes nothing with it that matters here.
LEMMA PassedOver ==
  ASSUME IInv, NEW r \in Replicas, Fold(r) \/ Read(r)
  PROVE  /\ back[r] # <<>> /\ back'[r] = Tail(back[r]) /\ ~Head(back[r]).swapped
         /\ UNCHANGED <<record, pending, inFlight, landed, made, losses>>
<1>0. Typed /\ Confirmed(r) /\ back[r] \in Seq(Reply)
  BY SentType DEF IInv, Good
<1>1. /\ Answer(r) /\ back[r] # <<>> /\ Head(back[r]).cmd.op # "EVAL"
      /\ UNCHANGED <<pending, inFlight, landed>>
  BY DEF Fold, Read, Answer
<1>2. ~Head(back[r]).swapped
  <2>1. Head(back[r]) = back[r][1] /\ 1 \in DOMAIN back[r]
    BY <1>0, <1>1
  <2> QED
    BY <1>0, <1>1, <2>1 DEF Confirmed
<1> QED
  BY <1>0, <1>1, <1>2, AnswerLeaves

LEMMA StepConfined ==
  ASSUME IInv, NEW r \in Replicas,
         Enqueue(r) \/ Flush(r) \/ Snapshot(r) \/ Work(r) \/ Break(r) \/ Resend(r) \/ Close(r)
  PROVE  Confined(r)
BY EnqueueInv, FlushInv, SnapshotInv, WriteInv, ExecuteInv, FoldInv, SwappedInv,
   ReadInv, BreakInv, ResendInv, ClosingInv DEF Work

\* The same of the state a step leads to.
LEMMA NoneLandedNext ==
  ASSUME IInv', NEW r \in Replicas, inFlight'[r] = <<>>
  PROVE  \A i \in DOMAIN back'[r] : ~back'[r][i].swapped
<1>1. Typed' /\ OneWrite(r)' /\ Confirmed(r)'
  BY DEF IInv, Good
<1>2. \A i \in DOMAIN Sent(r)' : ~IsWrite(Sent(r)'[i])
  <2>1. Writes(Sent(r)', <<>>)
    BY <1>1 DEF OneWrite
  <2> QED
    BY <2>1, NoBatchNoWrite
<1>3. back'[r] \in Seq(Reply) /\ out'[r] \in Seq(Command)
  BY <1>1 DEF Typed, TypeOK
<1>4. Sent(r)' = Cmds(back'[r]) \o out'[r]
  BY DEF Sent
<1>5. \A i \in DOMAIN back'[r] : back'[r][i].swapped => back'[r][i].cmd.op = "EVAL"
  BY <1>1 DEF Confirmed
<1> QED
  BY <1>2, <1>3, <1>4, <1>5, NothingLands

\* What is put back is the gateway's own.
LEMMA RequeueMine ==
  ASSUME TypeOK, NEW r \in Replicas, Mine(r), Requeue(r)
  PROVE  \A o \in ToSet(pending'[r]) : o.by = r
<1> DEFINE seq == inFlight[r] \o pending[r]
<1>1. inFlight[r] \in Seq(Observation) /\ pending[r] \in Seq(Observation)
  BY DEF TypeOK, Records
<1>2. seq \in Records /\ ToSet(seq) = ToSet(inFlight[r]) \cup ToSet(pending[r])
  BY <1>1, MembersOfConcat DEF Records
<1>3. Buffer(r, seq)
  BY DEF Requeue
<1> HIDE DEF seq
<1>4. PICK k \in 0 .. Len(seq) :
           /\ pending' = [pending EXCEPT ![r] = SubSeq(seq, k + 1, Len(seq))]
           /\ ToSet(seq) = ToSet(SubSeq(seq, 1, k)) \cup ToSet(SubSeq(seq, k + 1, Len(seq)))
  BY <1>2, <1>3, BufferKeeps
<1>5. ToSet(pending'[r]) \subseteq ToSet(seq)
  BY <1>4 DEF TypeOK
<1> QED
  BY <1>2, <1>5 DEF Mine

LEMMA SwappedAware ==
  ASSUME IInv, IInv', NEW r \in Replicas, Aware(r), Swapped(r)
  PROVE  /\ Aware(r)' /\ UNCHANGED <<record, losses>>
         /\ \/ UNCHANGED <<pending, inFlight, landed>>
            \/ landed[r] /\ ~landed'[r] /\ inFlight'[r] = <<>> /\ UNCHANGED pending
            \/ ~landed[r] /\ ~landed'[r] /\ inFlight'[r] = <<>> /\ Requeue(r)
<1>0. Typed /\ TypeOK /\ Confirmed(r)
  BY DEF IInv, Typed, Good
<1>1. Answer(r) /\ back[r] # <<>>
  BY DEF Swapped, Answer
<1>2. back'[r] = Tail(back[r]) /\ UNCHANGED <<record, losses>>
  BY <1>0, <1>1, AnswerLeaves
<1>3. ToSet(<<>>) = {}
  BY DEF ToSet
<1>4. landed \in [Replicas -> BOOLEAN] /\ inFlight \in [Replicas -> Records] /\ back[r] \in Seq(Reply)
  BY <1>0, SentType DEF TypeOK
<1>5. ASSUME Written(r)
      PROVE  inFlight'[r] = <<>> /\ ~landed'[r] /\ Landing(r)' /\ Stretch(r)'
  <2>1. inFlight'[r] = <<>> /\ landed'[r] = FALSE
    BY <1>4, <1>5 DEF Written
  <2> QED
    BY <2>1, NoneLandedNext DEF Landing, Stretch
<1>6. CASE /\ Head(back[r]).swapped
           /\ Written(r)
           /\ UNCHANGED <<pending, out, dropped>>
  <2>1. landed[r]
    <3>1. 1 \in DOMAIN back[r] /\ Head(back[r]) = back[r][1]
      BY <1>1, <1>4
    <3> QED
      BY <1>4, <1>6, <3>1 DEF Aware, Landing
  <2>2. Mine(r)'
    BY <1>3, <1>5, <1>6 DEF Aware, Mine
  <2> QED
    BY <1>2, <1>5, <1>6, <2>1, <2>2 DEF Aware
<1>7. CASE /\ ~Head(back[r]).swapped
           /\ attempt[r] + 1 < CAS_ATTEMPTS
           /\ attempt' = [attempt EXCEPT ![r] = @ + 1]
           /\ Send(r, [op |-> "GET"])
           /\ UNCHANGED <<pending, inFlight, chain, landed, dropped>>
  <2>1. Aware(r)'
    BY <1>0, <1>1, <1>2, <1>7, QuietAware
  <2> QED
    BY <1>2, <1>7, <2>1
<1>8. CASE /\ ~Head(back[r]).swapped
           /\ attempt[r] + 1 >= CAS_ATTEMPTS
           /\ Requeue(r)
           /\ Written(r)
           /\ UNCHANGED out
  <2>1. ~landed[r]
    <3>1. ~\E j \in DOMAIN Tail(back[r]) : Tail(back[r])[j].swapped
      BY <1>2, <1>5, <1>8, NoneLandedNext
    <3>2. (\E j \in DOMAIN back[r] : back[r][j].swapped)
            <=> (\E j \in DOMAIN Tail(back[r]) : Tail(back[r])[j].swapped)
      BY <1>1, <1>4, <1>8, TailLands
    <3> QED
      BY <3>1, <3>2 DEF Aware, Landing
  <2>2. Mine(r)'
    <3>1. \A o \in ToSet(pending'[r]) : o.by = r
      BY <1>0, <1>8, RequeueMine DEF Aware
    <3> QED
      BY <1>3, <1>5, <1>8, <3>1 DEF Mine
  <2> QED
    BY <1>2, <1>5, <1>8, <2>1, <2>2 DEF Aware
<1> QED
  BY <1>6, <1>7, <1>8 DEF Swapped

LEMMA BreakAware ==
  ASSUME IInv, NEW r \in Replicas, Aware(r), Break(r)
  PROVE  /\ Aware(r)' /\ UNCHANGED record /\ losses' = losses + 1
         /\ \/ UNCHANGED <<pending, inFlight, landed>> /\ ~landed[r]
            \/ ~landed'[r] /\ inFlight'[r] = <<>> /\ Requeue(r)
<1>0. Typed /\ TypeOK /\ OneWrite(r) /\ Confirmed(r)
  BY DEF IInv, Typed, Good
<1>1. losses' = losses + 1 /\ back' = [back EXCEPT ![r] = <<>>] /\ UNCHANGED record
  BY DEF Break
<1>2. back'[r] = <<>> /\ DOMAIN back'[r] = {} /\ ToSet(<<>>) = {}
  BY <1>0, <1>1 DEF TypeOK, ToSet
<1>3. CASE WriteUnderWay(r)
  <2>1. Requeue(r) /\ Written(r)
    BY <1>3 DEF Break
  <2>2. inFlight'[r] = <<>> /\ landed'[r] = FALSE
    BY <1>0, <2>1 DEF Written, TypeOK
  <2>3. \A o \in ToSet(pending'[r]) : o.by = r
    BY <1>0, <2>1, RequeueMine DEF Aware
  <2>4. Landing(r)' /\ Stretch(r)' /\ Mine(r)'
    BY <1>2, <2>2, <2>3 DEF Landing, Stretch, Mine
  <2> QED
    BY <1>1, <2>1, <2>2, <2>4 DEF Aware
<1>4. CASE ~WriteUnderWay(r)
  <2>1. UNCHANGED <<pending, inFlight, landed>>
    BY <1>4 DEF Break
  <2>2. ~landed[r]
    BY <1>0, <1>4, NoneLanded DEF Aware, Landing, WriteUnderWay
  <2>3. Landing(r)' /\ Stretch(r)' /\ Mine(r)'
    BY <1>1, <1>2, <2>1, <2>2 DEF Aware, Landing, Stretch, Mine
  <2> QED
    BY <1>1, <2>1, <2>2, <2>3 DEF Aware
<1> QED
  BY <1>3, <1>4

LEMMA ResendAware ==
  ASSUME IInv, NEW r \in Replicas, Aware(r), Resend(r)
  PROVE  /\ Aware(r)' /\ UNCHANGED <<record, pending, inFlight>> /\ losses' = losses + 1
         /\ ~landed'[r]
<1>1. /\ losses' = losses + 1 /\ back' = [back EXCEPT ![r] = <<>>]
      /\ landed' = [landed EXCEPT ![r] = FALSE] /\ UNCHANGED <<record, pending, inFlight>>
  BY DEF Resend
<1>2. DOMAIN back'[r] = {} /\ ~landed'[r]
  <2>1. back \in [Replicas -> Seq(Reply)] /\ landed \in [Replicas -> BOOLEAN]
    BY DEF IInv, Typed, TypeOK
  <2> QED
    BY <1>1, <2>1
<1> QED
  BY <1>1, <1>2 DEF Aware, Landing, Mine, Stretch

LEMMA InitAware == Init => KInv
<1> SUFFICES ASSUME Init PROVE KInv
  OBVIOUS
<1>1. ASSUME NEW r \in Replicas PROVE Aware(r)
  <2>1. pending[r] = <<>> /\ inFlight[r] = <<>> /\ back[r] = <<>> /\ landed[r] = FALSE
    BY DEF Init
  <2>2. ToSet(<<>>) = {} /\ DOMAIN <<>> = {}
    BY DEF ToSet
  <2> QED
    BY <2>1, <2>2 DEF Aware, Landing, Mine, Stretch
<1> QED
  BY <1>1, InitInv DEF KInv

LEMMA NextAware == KInv /\ [Next]_vars => KInv'
<1> SUFFICES ASSUME KInv, [Next]_vars PROVE KInv'
  OBVIOUS
<1>0. IInv /\ IInv' /\ Typed /\ TypeOK /\ \A r \in Replicas : Aware(r) /\ Mine(r)
  BY NextInv DEF KInv, IInv, Typed, Aware
<1>1. CASE UNCHANGED vars
  BY <1>0, <1>1, QuietAware DEF vars, KInv
<1>2. ASSUME NEW r \in Replicas,
             Enqueue(r) \/ Flush(r) \/ Snapshot(r) \/ Work(r) \/ Break(r) \/ Resend(r) \/ Close(r)
      PROVE  \A s \in Replicas : Aware(s)'
  <2>1. Aware(r)' /\ (record' = record \/ record' = record \o inFlight[r])
    <3>1. CASE Enqueue(r)
      BY <1>0, <3>1, EnqueueAware DEF Enqueue
    <3>2. CASE Write(r)
      BY <1>0, <3>2, WriteAware DEF Write
    <3>3. CASE Execute(r)
      BY <1>0, <3>3, ExecuteAware
    <3>4. CASE Swapped(r)
      BY <1>0, <3>4, SwappedAware
    <3>5. CASE Fold(r) \/ Read(r)
      BY <1>0, <3>5, PassedOver, QuietAware
    <3>6. CASE Flush(r) \/ Snapshot(r) \/ CloseRound(r) \/ Close(r)
      <4>1. UNCHANGED <<record, pending, inFlight, back, landed>>
        BY <3>6 DEF Flush, Snapshot, CloseRound, Close
      <4> QED
        BY <1>0, <4>1, QuietAware
    <3>7. CASE Break(r)
      BY <1>0, <3>7, BreakAware
    <3>8. CASE Resend(r)
      BY <1>0, <3>8, ResendAware
    <3> QED
      BY <1>2, <3>1, <3>2, <3>3, <3>4, <3>5, <3>6, <3>7, <3>8 DEF Work
  <2>2. ASSUME NEW s \in Replicas, s # r PROVE Aware(s)'
    <3>1. Local(s)' = Local(s)
      BY <1>0, <1>2, <2>2, StepConfined DEF Confined
    <3> QED
      BY <1>0, <2>1, <2>2, <3>1, OthersAware
  <2> QED
    BY <2>1, <2>2
<1> QED
  BY <1>0, <1>1, <1>2 DEF Next, Finished, KInv

-----------------------------------------------------------------------------
\* The buffers implement the log.

Base(r) == IF landed[r] THEN <<>> ELSE inFlight[r]

LEMMA CutConcat ==
  ASSUME NEW S, NEW a \in Seq(S), NEW b \in Seq(S), NEW m \in 1 .. Len(b) + 1
  PROVE  /\ SubSeq(a \o b, 1, Len(a)) = a
         /\ SubSeq(a \o b, Len(a) + m, Len(a \o b)) = SubSeq(b, m, Len(b))
<1> DEFINE c == a \o b
<1>1. /\ c \in Seq(S) /\ Len(c) = Len(a) + Len(b) /\ Len(a) \in Nat /\ Len(b) \in Nat
      /\ \A i \in 1 .. Len(a) : c[i] = a[i]
      /\ \A i \in 1 .. Len(b) : c[Len(a) + i] = b[i]
  OBVIOUS
<1> HIDE DEF c
<1>2. SubSeq(c, 1, Len(a)) = a
  <2> DEFINE s == SubSeq(c, 1, Len(a))
  <2>1. s \in Seq(S) /\ Len(s) = Len(a) /\ \A i \in 1 .. Len(a) : s[i] = c[i]
    BY <1>1, SubSeqProperties
  <2> HIDE DEF s
  <2>2. s = a
    BY <1>1, <2>1, SeqEqual
  <2> QED
    BY <2>2 DEF s
<1>3. SubSeq(c, Len(a) + m, Len(c)) = SubSeq(b, m, Len(b))
  <2> DEFINE s == SubSeq(c, Len(a) + m, Len(c))  t == SubSeq(b, m, Len(b))
  <2>1. s \in Seq(S) /\ Len(s) = Len(b) - m + 1
        /\ \A i \in 1 .. Len(b) - m + 1 : s[i] = c[(Len(a) + m) + i - 1]
    BY <1>1, SubSeqProperties
  <2>2. t \in Seq(S) /\ Len(t) = Len(b) - m + 1
        /\ \A i \in 1 .. Len(b) - m + 1 : t[i] = b[m + i - 1]
    BY <1>1, SubSeqProperties
  <2> HIDE DEF s, t
  <2>3. ASSUME NEW i \in 1 .. Len(b) - m + 1 PROVE s[i] = t[i]
    <3>1. m + i - 1 \in 1 .. Len(b) /\ (Len(a) + m) + i - 1 = Len(a) + (m + i - 1)
      BY <1>1
    <3> QED
      BY <1>1, <2>1, <2>2, <3>1
  <2>4. s = t
    BY <2>1, <2>2, <2>3, SeqEqual
  <2> QED
    BY <2>4 DEF s, t
<1> QED
  BY <1>2, <1>3 DEF c

LEMMA BufferIsNewest ==
  ASSUME TypeOK, NEW r \in Replicas, NEW seq \in Records, Buffer(r, seq)
  PROVE  pending'[r] = Log!Newest(seq, MAX_PENDING)
<1> DEFINE kept == Len(seq) - (IF Len(seq) > MAX_PENDING THEN Len(seq) - MAX_PENDING ELSE 0)
           over == Len(seq) - kept
<1>1. Len(seq) \in Nat /\ MAX_PENDING \in Nat /\ seq \in Seq(Observation)
  BY BufferAssumption DEF Records
<1>2. pending'[r] = SubSeq(seq, over + 1, Len(seq))
  BY DEF Buffer, TypeOK
<1>3. CASE Len(seq) <= MAX_PENDING
  <2>1. over + 1 = 1
    BY <1>1, <1>3
  <2>2. SubSeq(seq, 1, Len(seq)) = seq
    BY <1>1, SubSeqFull
  <2> QED
    BY <1>2, <1>3, <2>1, <2>2 DEF Log!Newest
<1>4. CASE Len(seq) > MAX_PENDING
  <2>1. over + 1 = Len(seq) - MAX_PENDING + 1 /\ ~(Len(seq) <= MAX_PENDING)
    BY <1>1, <1>4
  <2> QED
    BY <1>2, <1>4, <2>1 DEF Log!Newest
<1> QED
  BY <1>1, <1>3, <1>4

LEMMA WaitingAre ==
  ASSUME Typed, NEW r \in Replicas
  PROVE  /\ Waiting[r] = Base(r) \o pending[r] /\ Base(r) \in Records /\ pending[r] \in Records
         /\ Waiting[r] \in Records /\ DOMAIN Waiting = Replicas
<1>1. <<>> \in Records
  BY DEF Records
<1>2. Base(r) \in Records /\ pending[r] \in Records
  BY <1>1 DEF Base, Typed, TypeOK
<1>3. Waiting[r] = Base(r) \o pending[r] /\ DOMAIN Waiting = Replicas
  BY DEF Waiting, Base
<1>4. Base(r) \o pending[r] \in Records
  BY <1>2 DEF Records
<1> QED
  BY <1>2, <1>3, <1>4

LEMMA WaitingChange ==
  ASSUME NEW r \in Replicas, Confined(r)
  PROVE  Waiting' = [Waiting EXCEPT ![r] = Base(r)' \o pending'[r]]
<1>1. ASSUME NEW s \in Replicas, s # r
      PROVE  pending'[s] = pending[s] /\ landed'[s] = landed[s] /\ inFlight'[s] = inFlight[s]
  BY <1>1 DEF Confined, Local
<1> QED
  BY <1>1 DEF Waiting, Base

LEMMA WaitingStays ==
  ASSUME NEW r \in Replicas, Confined(r), Base(r)' = Base(r), pending'[r] = pending[r]
  PROVE  Waiting' = Waiting
<1>1. ASSUME NEW s \in Replicas, s # r
      PROVE  pending'[s] = pending[s] /\ landed'[s] = landed[s] /\ inFlight'[s] = inFlight[s]
  BY <1>1 DEF Confined, Local
<1>2. ASSUME NEW s \in Replicas
      PROVE  (IF landed'[s] THEN <<>> ELSE inFlight'[s]) \o pending'[s]
               = (IF landed[s] THEN <<>> ELSE inFlight[s]) \o pending[s]
  <2>1. CASE s = r
    BY <2>1 DEF Base
  <2>2. CASE s # r
    BY <1>1, <2>2
  <2> QED
    BY <2>1, <2>2
<1> QED
  BY <1>2 DEF Waiting

\* An observation is recorded, at the cost of the oldest that is not being written.
LEMMA EnqueueMaps ==
  ASSUME IInv, NEW r \in Replicas, Enqueue(r) PROVE Log!Record(r)
<1>0. Typed /\ TypeOK /\ Confined(r)
  BY EnqueueInv DEF IInv, Typed
<1>1. PICK kind \in Kinds :
        Buffer(r, Append(pending[r], [by |-> r, n |-> made[r] + 1, kind |-> kind]))
  BY DEF Enqueue
<1>2. made[r] < MaxRecords[r] /\ UNCHANGED <<record, inFlight, landed, losses>>
  BY DEF Enqueue
<1> DEFINE o == [by |-> r, n |-> made[r] + 1, kind |-> kind]
           a == Base(r)
           p == pending[r]
           seq == Append(p, o)
           w == Append(Waiting[r], o)
<1>3. o \in Observation
  <2>1. made[r] \in Nat /\ MaxRecords[r] \in Nat
    BY <1>0, BufferAssumption DEF Typed
  <2>2. made[r] + 1 \in 1 .. MaxRecords[r]
    BY <1>2, <2>1
  <2> QED
    BY <2>2, ObservationIs
<1>4. Buffer(r, seq)
  BY <1>1
<1> HIDE DEF o
<1>5. Waiting[r] = a \o p /\ a \in Seq(Observation) /\ p \in Seq(Observation)
  BY <1>0, WaitingAre DEF Records
<1>6. Waiting' = [Waiting EXCEPT ![r] = a \o pending'[r]]
  <2>1. Base(r)' = a
    BY <1>2 DEF Base
  <2> QED
    BY <1>0, <2>1, WaitingChange
<1>7. Len(p) <= MAX_PENDING /\ MAX_PENDING \in Nat \ {0} /\ Len(p) \in Nat
  BY <1>0, <1>5, BufferAssumption DEF TypeOK
<1> HIDE DEF a, p
<1>8. seq \in Seq(Observation) /\ Len(seq) = Len(p) + 1
  BY <1>3, <1>5
<1>9. w = a \o seq
  <2>1. PICK b \in Seq(Observation), c \in Seq(Observation), x \in Observation :
          b = a /\ c = p /\ x = o
    BY <1>3, <1>5
  <2>2. Append(b \o c, x) = b \o Append(c, x)
    OBVIOUS
  <2> QED
    BY <1>5, <2>1, <2>2
<1>10. pending'[r] = Log!Newest(seq, MAX_PENDING)
  BY <1>0, <1>4, <1>8, BufferIsNewest DEF Records
<1>11. CASE Len(seq) <= MAX_PENDING
  <2>1. pending'[r] = seq
    BY <1>10, <1>11 DEF Log!Newest
  <2>2. Waiting' = [Waiting EXCEPT ![r] = w]
    BY <1>6, <1>9, <2>1
  <2> QED
    BY <1>2, <1>3, <2>2 DEF Log!Record
<1>12. CASE Len(seq) > MAX_PENDING
  <2> DEFINE k == Len(a) + 1
  <2> HIDE DEF seq
  <2>1. /\ Len(a) \in Nat /\ Len(a \o p) = Len(a) + Len(p) /\ Len(a \o seq) = Len(a) + Len(seq)
        /\ a \o p \in Seq(Observation)
    BY <1>5, <1>8, ConcatProperties
  <2>2. Len(p) = MAX_PENDING /\ Len(p) > 0
    BY <1>7, <1>8, <1>12
  <2>3. k \in DOMAIN Waiting[r] /\ Len(a \o seq) > MAX_PENDING
    BY <1>5, <1>12, <2>1, <1>7, <1>8, <2>2
  <2>4. pending'[r] = SubSeq(seq, 2, Len(seq))
    <3>1. Len(seq) - MAX_PENDING + 1 = 2 /\ ~(Len(seq) <= MAX_PENDING)
      BY <1>7, <1>8, <2>2
    <3> QED
      BY <1>10, <3>1 DEF Log!Newest
  <2>5. Log!RemoveAt(a \o seq, k) = a \o SubSeq(seq, 2, Len(seq))
    <3>1. SubSeq(a \o seq, 1, Len(a)) = a
          /\ SubSeq(a \o seq, Len(a) + 2, Len(a \o seq)) = SubSeq(seq, 2, Len(seq))
      <4>1. 2 \in 1 .. Len(seq) + 1
        BY <1>7, <1>8
      <4> QED
        BY <1>5, <1>8, <4>1, CutConcat
    <3>2. k - 1 = Len(a) /\ k + 1 = Len(a) + 2
      BY <2>1
    <3> QED
      BY <3>1, <3>2 DEF Log!RemoveAt
  <2>6. Waiting' = [Waiting EXCEPT ![r] = Log!RemoveAt(w, k)] /\ Len(w) > MAX_PENDING
    BY <1>6, <1>9, <2>3, <2>4, <2>5
  <2> HIDE DEF k, w
  <2>7. \E i \in DOMAIN Waiting[r] :
          Len(w) > MAX_PENDING /\ Waiting' = [Waiting EXCEPT ![r] = Log!RemoveAt(w, i)]
    BY <2>3, <2>6
  <2> QED
    BY <1>2, <1>3, <2>7 DEF Log!Record, w
<1> QED
  BY <1>7, <1>8, <1>11, <1>12

\* A batch that lands is the oldest of what waited.
LEMMA ExecuteMaps ==
  ASSUME IInv, NEW r \in Replicas, Aware(r), Execute(r)
  PROVE  Log!Land(r) \/ UNCHANGED <<record, Waiting, losses>>
<1>0. Typed /\ TypeOK /\ Confined(r)
  BY ExecuteInv DEF IInv, Typed
<1>1. /\ UNCHANGED <<pending, inFlight, losses>>
      /\ \/ record' = record /\ landed'[r] = landed[r]
         \/ /\ record' = record \o inFlight[r] /\ inFlight[r] # <<>>
            /\ ~landed[r] /\ landed'[r]
  BY ExecuteAware
<1>2. CASE record' = record /\ landed'[r] = landed[r]
  <2>1. Base(r)' = Base(r)
    BY <1>1, <1>2 DEF Base
  <2> QED
    BY <1>0, <1>1, <1>2, <2>1, WaitingStays
<1>3. CASE record' = record \o inFlight[r] /\ inFlight[r] # <<>> /\ ~landed[r] /\ landed'[r]
  <2> DEFINE a == inFlight[r]  p == pending[r]  k == Len(a)
  <2>1. Waiting[r] = a \o p /\ a \in Seq(Observation) /\ p \in Seq(Observation)
    BY <1>0, <1>3, WaitingAre DEF Records, Base
  <2>2. Waiting' = [Waiting EXCEPT ![r] = p]
    <3>1. Base(r)' = <<>> /\ <<>> \o p = p
      BY <1>3, <2>1 DEF Base
    <3>2. pending'[r] = p
      BY <1>1
    <3> QED
      BY <1>0, <3>1, <3>2, WaitingChange
  <2>3. a # <<>> /\ record' = record \o a
    BY <1>3
  <2> HIDE DEF a, p
  <2>4. k \in 1 .. Len(Waiting[r]) /\ Len(Waiting[r]) = Len(a) + Len(p)
    BY <2>1, <2>3
  <2>5. SubSeq(Waiting[r], 1, k) = a /\ SubSeq(Waiting[r], k + 1, Len(Waiting[r])) = p
    <3>1. 1 \in 1 .. Len(p) + 1 /\ SubSeq(p, 1, Len(p)) = p
      BY <2>1, SubSeqFull
    <3> QED
      BY <2>1, <3>1, CutConcat
  <2>6. /\ record' = record \o SubSeq(Waiting[r], 1, k)
        /\ Waiting' = [Waiting EXCEPT ![r] = SubSeq(@, k + 1, Len(@))]
    BY <2>2, <2>3, <2>5
  <2> HIDE DEF k
  <2> QED
    BY <1>1, <2>4, <2>6 DEF Log!Land
<1> QED
  BY <1>1, <1>2, <1>3

\* A write that is over changes nothing the log knows, but for what no longer fits.
LEMMA SwappedMaps ==
  ASSUME IInv, IInv', NEW r \in Replicas, Aware(r), Swapped(r)
  PROVE  Log!Shed(r) \/ UNCHANGED <<record, Waiting, losses>>
<1>0. Typed /\ TypeOK /\ Confined(r)
  BY SwappedInv DEF IInv, Typed
<1>1. /\ UNCHANGED <<record, losses>>
      /\ \/ UNCHANGED <<pending, inFlight, landed>>
         \/ landed[r] /\ ~landed'[r] /\ inFlight'[r] = <<>> /\ UNCHANGED pending
         \/ ~landed[r] /\ ~landed'[r] /\ inFlight'[r] = <<>> /\ Requeue(r)
  BY SwappedAware
<1>2. CASE UNCHANGED <<pending, inFlight, landed>>
  <2>1. Base(r)' = Base(r)
    BY <1>2 DEF Base
  <2> QED
    BY <1>0, <1>1, <1>2, <2>1, WaitingStays
<1>3. CASE landed[r] /\ ~landed'[r] /\ inFlight'[r] = <<>> /\ UNCHANGED pending
  <2>1. Base(r)' = Base(r)
    BY <1>3 DEF Base
  <2> QED
    BY <1>0, <1>1, <1>3, <2>1, WaitingStays
<1>4. CASE ~landed[r] /\ ~landed'[r] /\ inFlight'[r] = <<>> /\ Requeue(r)
  <2> DEFINE seq == inFlight[r] \o pending[r]
  <2>1. Waiting[r] = seq /\ seq \in Records
    BY <1>0, <1>4, WaitingAre DEF Base
  <2>2. pending'[r] = Log!Newest(seq, MAX_PENDING)
    BY <1>0, <1>4, <2>1, BufferIsNewest DEF Requeue
  <2>3. Waiting' = [Waiting EXCEPT ![r] = Log!Newest(seq, MAX_PENDING)]
    <3>1. Base(r)' = <<>>
      BY <1>4 DEF Base
    <3>2. <<>> \o pending'[r] = pending'[r]
      <4>1. pending'[r] \in Seq(Observation)
        BY DEF IInv, Typed, TypeOK, Records
      <4> QED
        BY <4>1
    <3> QED
      BY <1>0, <2>2, <3>1, <3>2, WaitingChange
  <2> HIDE DEF seq
  <2>4. CASE Len(seq) <= MAX_PENDING
    <3>1. Waiting' = [Waiting EXCEPT ![r] = Waiting[r]]
      BY <2>1, <2>3, <2>4 DEF Log!Newest
    <3>2. Waiting' = Waiting
      BY <3>1 DEF Waiting
    <3> QED
      BY <1>1, <3>2
  <2>5. CASE ~(Len(seq) <= MAX_PENDING)
    <3>1. Len(Waiting[r]) > MAX_PENDING
      <4>1. Len(seq) \in Nat /\ MAX_PENDING \in Nat
        BY <2>1, BufferAssumption DEF Records
      <4> QED
        BY <2>1, <2>5, <4>1
    <3>2. Waiting' = [Waiting EXCEPT ![r] = Log!Newest(@, MAX_PENDING)]
      BY <2>1, <2>3
    <3> QED
      BY <1>1, <3>1, <3>2 DEF Log!Shed
  <2> QED
    BY <2>4, <2>5
<1> QED
  BY <1>1, <1>2, <1>3, <1>4

\* What a gateway may have to write again is the stretch of it that landed last, or nothing.
LEMMA AgainWaits ==
  ASSUME IInv, NEW r \in Replicas, Aware(r)
  PROVE  \E i \in 1 .. Len(record) + 1, j \in 0 .. Len(record) :
           /\ \A k \in i .. Len(record) : record[k].by = r <=> k <= j
           /\ SubSeq(record, i, j) \o Waiting[r] = inFlight[r] \o pending[r]
<1>0. Typed /\ record \in Seq(Observation) /\ Len(record) \in Nat
  BY DEF IInv, Typed, TypeOK, Records
<1>1. CASE landed[r]
  <2>1. PICK i \in 1 .. Len(record) + 1, j \in 0 .. Len(record) :
          IsStretch(r, record, inFlight[r], i, j)
    BY <1>1 DEF Aware, Stretch
  <2>2. Waiting[r] = pending[r]
    <3>1. <<>> \o pending[r] = pending[r]
      <4>1. pending[r] \in Seq(Observation)
        BY <1>0 DEF Typed, TypeOK, Records
      <4> QED
        BY <4>1
    <3> QED
      BY <1>0, <1>1, <3>1, WaitingAre DEF Base
  <2> QED
    BY <2>1, <2>2 DEF IsStretch
<1>2. CASE ~landed[r]
  <2> DEFINE i == Len(record) + 1  j == Len(record)
  <2>1. i \in 1 .. Len(record) + 1 /\ j \in 0 .. Len(record) /\ i .. Len(record) = {}
    BY <1>0
  <2>2. SubSeq(record, i, j) = <<>>
    BY <1>0, SubSeqEmpty
  <2>3. Waiting[r] = inFlight[r] \o pending[r] /\ Waiting[r] \in Seq(Observation)
    BY <1>0, <1>2, WaitingAre DEF Base, Records
  <2>4. <<>> \o Waiting[r] = Waiting[r]
    BY <2>3
  <2> HIDE DEF i, j
  <2> QED
    BY <2>1, <2>2, <2>3, <2>4
<1> QED
  BY <1>1, <1>2

\* A connection that breaks loses a reply, or a command.
LEMMA BreakMaps ==
  ASSUME IInv, IInv', NEW r \in Replicas, Aware(r), Break(r) PROVE Log!Lose(r)
<1>0. Typed /\ TypeOK /\ Typed' /\ Confined(r)
  BY BreakInv DEF IInv, Typed
<1>1. /\ UNCHANGED record /\ losses' = losses + 1
      /\ \/ UNCHANGED <<pending, inFlight, landed>> /\ ~landed[r]
         \/ ~landed'[r] /\ inFlight'[r] = <<>> /\ Requeue(r)
  BY BreakAware
<1> DEFINE w == inFlight[r] \o pending[r]
<1>2. PICK i \in 1 .. Len(record) + 1, j \in 0 .. Len(record) :
        /\ \A k \in i .. Len(record) : record[k].by = r <=> k <= j
        /\ SubSeq(record, i, j) \o Waiting[r] = w
  BY AgainWaits
<1>3. Waiting' = [Waiting EXCEPT ![r] = w] \/ Waiting' = [Waiting EXCEPT ![r] = Log!Newest(w, MAX_PENDING)]
  <2>1. CASE UNCHANGED <<pending, inFlight, landed>> /\ ~landed[r]
    <3>1. Base(r)' = inFlight[r] /\ pending'[r] = pending[r]
      BY <2>1 DEF Base
    <3> QED
      BY <1>0, <3>1, WaitingChange
  <2>2. CASE ~landed'[r] /\ inFlight'[r] = <<>> /\ Requeue(r)
    <3>1. Base(r)' = <<>>
      BY <2>2 DEF Base
    <3>2. <<>> \o pending'[r] = pending'[r]
      <4>1. pending'[r] \in Seq(Observation)
        BY <1>0 DEF Typed, TypeOK, Records
      <4> QED
        BY <4>1
    <3>3. w \in Records
      BY <1>0 DEF TypeOK, Records
    <3>4. pending'[r] = Log!Newest(w, MAX_PENDING)
      BY <1>0, <2>2, <3>3, BufferIsNewest DEF Requeue
    <3> QED
      BY <1>0, <3>1, <3>2, <3>4, WaitingChange
  <2> QED
    BY <1>1, <2>1, <2>2
<1> HIDE DEF w
<1> QED
  BY <1>1, <1>2, <1>3 DEF Log!Lose

\* A command sent twice may be a batch that lands twice.
LEMMA ResendMaps ==
  ASSUME IInv, NEW r \in Replicas, Aware(r), Resend(r) PROVE Log!Lose(r)
<1>0. Typed /\ Confined(r)
  BY ResendInv DEF IInv
<1>1. UNCHANGED <<record, pending, inFlight>> /\ losses' = losses + 1 /\ ~landed'[r]
  BY ResendAware
<1> DEFINE w == inFlight[r] \o pending[r]
<1>2. PICK i \in 1 .. Len(record) + 1, j \in 0 .. Len(record) :
        /\ \A k \in i .. Len(record) : record[k].by = r <=> k <= j
        /\ SubSeq(record, i, j) \o Waiting[r] = w
  BY AgainWaits
<1>3. Waiting' = [Waiting EXCEPT ![r] = w]
  <2>1. Base(r)' = inFlight[r] /\ pending'[r] = pending[r]
    BY <1>1 DEF Base
  <2> QED
    BY <1>0, <2>1, WaitingChange
<1> HIDE DEF w
<1> QED
  BY <1>1, <1>2, <1>3 DEF Log!Lose

\* Nothing the log knows changes.
LEMMA QuietMaps ==
  ASSUME IInv, NEW r \in Replicas, Confined(r),
         UNCHANGED <<record, pending, inFlight, landed, losses>>
  PROVE  UNCHANGED <<record, Waiting, losses>>
<1>1. Base(r)' = Base(r)
  BY DEF Base
<1> QED
  BY <1>1, WaitingStays

LEMMA WriteMaps ==
  ASSUME IInv, NEW r \in Replicas, Aware(r), Write(r) PROVE UNCHANGED <<record, Waiting, losses>>
<1>0. Typed /\ TypeOK /\ Confined(r)
  BY WriteInv DEF IInv, Typed
<1>1. inFlight[r] = <<>> /\ UNCHANGED <<record, landed, losses>> /\ ~landed[r]
  BY WriteAware DEF Write, WriteUnderWay
<1>2. CASE pending[r] = <<>>
  <2>1. UNCHANGED <<pending, inFlight>>
    BY <1>2 DEF Write
  <2> QED
    BY <1>0, <1>1, <2>1, QuietMaps
<1>3. CASE pending[r] # <<>>
  <2>1. inFlight'[r] = pending[r] /\ pending'[r] = <<>>
    BY <1>0, <1>3 DEF Write, TypeOK
  <2>2. pending[r] \in Seq(Observation) /\ Waiting[r] = <<>> \o pending[r]
    BY <1>0, <1>1, WaitingAre DEF Base, Records
  <2>3. pending[r] \o <<>> = pending[r] /\ <<>> \o pending[r] = pending[r]
    BY <2>2
  <2>4. Waiting' = [Waiting EXCEPT ![r] = pending[r] \o <<>>]
    <3>1. Base(r)' = pending[r]
      BY <1>1, <2>1 DEF Base
    <3> QED
      BY <1>0, <2>1, <3>1, WaitingChange
  <2>5. Waiting' = [Waiting EXCEPT ![r] = Waiting[r]]
    BY <2>2, <2>3, <2>4
  <2>6. Waiting' = Waiting
    BY <2>5 DEF Waiting
  <2> QED
    BY <1>1, <2>6
<1> QED
  BY <1>2, <1>3

LEMMA StepMaps == KInv /\ [Next]_vars => [Log!Next]_<<record, Waiting, losses>>
<1> SUFFICES ASSUME KInv, [Next]_vars PROVE Log!Next \/ UNCHANGED <<record, Waiting, losses>>
  OBVIOUS
<1>0. IInv /\ IInv' /\ \A r \in Replicas : Aware(r)
  BY NextInv DEF KInv
<1>1. CASE UNCHANGED vars
  BY <1>1 DEF vars, Waiting
<1>2. ASSUME NEW r \in Replicas,
             Enqueue(r) \/ Flush(r) \/ Snapshot(r) \/ Work(r) \/ Break(r) \/ Resend(r) \/ Close(r)
      PROVE  \/ Log!Record(r) \/ Log!Land(r) \/ Log!Shed(r) \/ Log!Lose(r)
             \/ UNCHANGED <<record, Waiting, losses>>
  <2>1. CASE Enqueue(r)
    BY <1>0, <2>1, EnqueueMaps
  <2>2. CASE Write(r)
    BY <1>0, <2>2, WriteMaps
  <2>3. CASE Execute(r)
    BY <1>0, <2>3, ExecuteMaps
  <2>4. CASE Swapped(r)
    BY <1>0, <2>4, SwappedMaps
  <2>5. CASE Break(r)
    BY <1>0, <2>5, BreakMaps
  <2>6. CASE Resend(r)
    BY <1>0, <2>6, ResendMaps
  <2>7. CASE Flush(r) \/ Snapshot(r) \/ Fold(r) \/ Read(r) \/ CloseRound(r) \/ Close(r)
    <3>1. UNCHANGED <<record, pending, inFlight, landed, losses>>
      BY <2>7 DEF Flush, Snapshot, Fold, Read, Answer, CloseRound, Close
    <3> QED
      BY <1>0, <1>2, <3>1, StepConfined, QuietMaps
  <2> QED
    BY <1>2, <2>1, <2>2, <2>3, <2>4, <2>5, <2>6, <2>7 DEF Work
<1> QED
  BY <1>1, <1>2 DEF Next, Finished, Log!Next

\* The buffers implement the log: whatever the gateways' writes, retries, lost replies and
\* commands sent twice, every observation reaches the record once and in its order, except
\* that a full buffer sheds, and that a lost command or reply brings the last stretch back
\* (ValkeyHealthStore).
THEOREM BuffersImplementLog == Spec => ImplementsLog
<1>1. Init => Log!Init
  <2> SUFFICES ASSUME Init PROVE Log!Init
    OBVIOUS
  <2>1. Waiting = [r \in Replicas |-> <<>>]
    <3>1. <<>> \o <<>> = <<>>
      OBVIOUS
    <3> QED
      BY <3>1 DEF Init, Waiting
  <2> QED
    BY <2>1 DEF Init, Log!Init
<1> QED
  BY <1>1, StepMaps, InitAware, NextAware, PTL DEF Spec, ImplementsLog, Log!Spec

-----------------------------------------------------------------------------
\* What a gateway's snapshots tell it, while no command or reply is lost.

Own(r, seq) == {o \in ToSet(seq) : o.by = r}
Before(A, B) == \A a \in A, b \in B : a.n < b.n

\* The gateway's observations are ordered, each on its own stretch of the way to the record
\* and from each stretch to the one behind it.
InOrder(r) ==
  /\ OwnInOrder(r, record) /\ OwnInOrder(r, inFlight[r]) /\ OwnInOrder(r, pending[r])
  /\ Before(ToSet(inFlight[r]), ToSet(pending[r]))
  /\ Before(Own(r, record), ToSet(pending[r]))
  /\ ~landed[r] => Before(Own(r, record), ToSet(inFlight[r]))

Belongs(r) ==
  \A o \in Own(r, record) \cup ToSet(inFlight[r]) \cup ToSet(pending[r]) :
    o.by = r /\ o.n <= made[r]

LandedBefore(r, i) == \E j \in DOMAIN back[r] : j < i /\ back[r][j].swapped

\* A snapshot on its way has the batch in it just when it was taken behind the swap that
\* wrote it; whatever else of the gateway's own is in the record, it has.
Informed(r) ==
  \A i \in DOMAIN back[r] : back[r][i].cmd.op = "MGET" =>
    LET read == back[r][i].read
    IN  /\ OwnInOrder(r, read) /\ ToSet(read) \subseteq ToSet(record)
        /\ LandedBefore(r, i) => Own(r, record) \subseteq ToSet(read)
        /\ ~LandedBefore(r, i) =>
             /\ Before(Own(r, read), ToSet(inFlight[r]))
             /\ Own(r, record) \subseteq ToSet(read) \cup ToSet(inFlight[r])

Orderly(r) == InOrder(r) /\ Belongs(r) /\ Informed(r)
JInv == KInv /\ (losses = 0 => \A r \in Replicas : Orderly(r))

LEMMA Numbered ==
  ASSUME NEW seq \in Records, NEW o \in ToSet(seq) PROVE o \in Observation /\ o.n \in Nat
<1>1. PICK i \in 1 .. Len(seq) : o = seq[i]
  BY DEF ToSet, Records
<1>2. o \in Observation
  BY <1>1 DEF Records
<1>3. PICK r \in Replicas : o \in [by : {r}, n : 1 .. MaxRecords[r], kind : Kinds]
  BY <1>2 DEF Observation
<1>4. o.n \in 1 .. MaxRecords[r] /\ MaxRecords[r] \in Nat
  BY <1>3, BufferAssumption
<1> QED
  BY <1>2, <1>4

LEMMA OwnOfConcat ==
  ASSUME NEW r, NEW s \in Records, NEW t \in Records
  PROVE  Own(r, s \o t) = Own(r, s) \cup Own(r, t)
<1>1. ToSet(s \o t) = ToSet(s) \cup ToSet(t)
  BY MembersOfConcat DEF Records
<1> QED
  BY <1>1 DEF Own

LEMMA OrderOfConcat ==
  ASSUME NEW r, NEW s \in Records, NEW t \in Records,
         OwnInOrder(r, s), OwnInOrder(r, t), Before(Own(r, s), Own(r, t))
  PROVE  OwnInOrder(r, s \o t)
<1> SUFFICES ASSUME NEW i \in DOMAIN (s \o t), NEW j \in DOMAIN (s \o t),
                    i < j, (s \o t)[i].by = r, (s \o t)[j].by = r
             PROVE  (s \o t)[i].n < (s \o t)[j].n
  BY DEF OwnInOrder
<1>1. /\ Len(s) \in Nat /\ Len(t) \in Nat /\ i \in 1 .. Len(s) + Len(t)
      /\ j \in 1 .. Len(s) + Len(t) /\ DOMAIN s = 1 .. Len(s) /\ DOMAIN t = 1 .. Len(t)
  BY DEF Records
<1>2. \A k \in 1 .. Len(s) + Len(t) :
        /\ k <= Len(s) => (s \o t)[k] = s[k] /\ k \in DOMAIN s
        /\ k > Len(s) => (s \o t)[k] = t[k - Len(s)] /\ k - Len(s) \in DOMAIN t
  BY <1>1 DEF Records
<1>3. CASE j <= Len(s)
  <2>1. i <= Len(s)
    BY <1>1, <1>3
  <2> QED
    BY <1>1, <1>2, <1>3, <2>1 DEF OwnInOrder
<1>4. CASE i > Len(s)
  <2>1. j > Len(s) /\ i - Len(s) < j - Len(s)
    BY <1>1, <1>4
  <2> QED
    BY <1>1, <1>2, <1>4, <2>1 DEF OwnInOrder
<1>5. CASE i <= Len(s) /\ j > Len(s)
  <2>1. s[i] \in Own(r, s) /\ (s \o t)[i] = s[i]
    BY <1>1, <1>2, <1>5 DEF Own, ToSet
  <2>2. t[j - Len(s)] \in Own(r, t) /\ (s \o t)[j] = t[j - Len(s)]
    BY <1>1, <1>2, <1>5 DEF Own, ToSet
  <2> QED
    BY <2>1, <2>2 DEF Before
<1> QED
  BY <1>1, <1>3, <1>4, <1>5

\* What the buffer keeps is in the order it came in.
LEMMA BufferOrder ==
  ASSUME TypeOK, NEW r \in Replicas, NEW seq \in Records, Buffer(r, seq), OwnInOrder(r, seq)
  PROVE  OwnInOrder(r, pending'[r]) /\ ToSet(pending'[r]) \subseteq ToSet(seq)
<1>1. PICK k \in 0 .. Len(seq) :
           /\ pending' = [pending EXCEPT ![r] = SubSeq(seq, k + 1, Len(seq))]
           /\ ToSet(seq) = ToSet(SubSeq(seq, 1, k)) \cup ToSet(SubSeq(seq, k + 1, Len(seq)))
  BY BufferKeeps
<1> DEFINE b == SubSeq(seq, k + 1, Len(seq))
<1>2. b \in Records /\ Len(b) = Len(seq) - k /\ \A i \in 1 .. Len(seq) - k : b[i] = seq[k + i]
  BY SubSeqProperties DEF Records
<1>3. pending'[r] = b
  BY <1>1 DEF TypeOK
<1> HIDE DEF b
<1>4. OwnInOrder(r, b)
  <2> SUFFICES ASSUME NEW i \in DOMAIN b, NEW j \in DOMAIN b, i < j, b[i].by = r, b[j].by = r
               PROVE  b[i].n < b[j].n
    BY DEF OwnInOrder
  <2>1. /\ i \in 1 .. Len(seq) - k /\ j \in 1 .. Len(seq) - k /\ Len(seq) \in Nat
        /\ DOMAIN seq = 1 .. Len(seq)
    BY <1>2 DEF Records
  <2>2. k + i \in DOMAIN seq /\ k + j \in DOMAIN seq /\ k + i < k + j
    BY <2>1
  <2>3. b[i] = seq[k + i] /\ b[j] = seq[k + j]
    BY <1>2, <2>1
  <2> QED
    BY <2>2, <2>3 DEF OwnInOrder
<1> QED
  BY <1>1, <1>3, <1>4 DEF b

\* Of an answer that is not to the swap that wrote, the replies behind it know as much.
LEMMA StillInformed ==
  ASSUME Typed, NEW r \in Replicas, Informed(r), back[r] # <<>>,
         back'[r] = Tail(back[r]), ~Head(back[r]).swapped,
         inFlight'[r] = inFlight[r], record' = record
  PROVE  Informed(r)'
<1>1. PICK b \in Seq(Reply) : b = back[r]
  BY SentType
<1>2. /\ DOMAIN b = 1 .. Len(b) /\ Len(b) \in Nat \ {0} /\ DOMAIN Tail(b) = 1 .. Len(b) - 1
      /\ Head(b) = b[1] /\ \A i \in 1 .. Len(b) - 1 : Tail(b)[i] = b[i + 1]
  BY <1>1
<1>3. ASSUME NEW i \in 1 .. Len(b) - 1 PROVE LandedBefore(r, i)' <=> LandedBefore(r, i + 1)
  <2>1. ASSUME NEW j \in DOMAIN Tail(b), j < i, Tail(b)[j].swapped PROVE LandedBefore(r, i + 1)
    <3>1. j + 1 \in DOMAIN b /\ j + 1 < i + 1 /\ b[j + 1].swapped
      BY <1>2, <2>1
    <3> QED
      BY <1>1, <3>1 DEF LandedBefore
  <2>2. ASSUME NEW j \in DOMAIN b, j < i + 1, b[j].swapped PROVE LandedBefore(r, i)'
    <3>1. j # 1
      BY <1>1, <1>2, <2>2
    <3>2. j - 1 \in DOMAIN Tail(b) /\ j - 1 < i /\ Tail(b)[j - 1] = b[(j - 1) + 1] /\ (j - 1) + 1 = j
      BY <1>2, <2>2, <3>1
    <3> QED
      BY <1>1, <2>2, <3>2 DEF LandedBefore
  <2> QED
    BY <1>1, <2>1, <2>2 DEF LandedBefore
<1>4. Informed(r)'
  <2> SUFFICES ASSUME NEW i \in 1 .. Len(b) - 1, Tail(b)[i].cmd.op = "MGET"
               PROVE  LET read == Tail(b)[i].read
                      IN  /\ OwnInOrder(r, read) /\ ToSet(read) \subseteq ToSet(record)
                          /\ LandedBefore(r, i)' => Own(r, record) \subseteq ToSet(read)
                          /\ ~LandedBefore(r, i)' =>
                               /\ Before(Own(r, read), ToSet(inFlight[r]))
                               /\ Own(r, record) \subseteq ToSet(read) \cup ToSet(inFlight[r])
    BY <1>1, <1>2 DEF Informed
  <2>1. i + 1 \in DOMAIN back[r] /\ back[r][i + 1] = Tail(b)[i]
    BY <1>1, <1>2
  <2> QED
    BY <1>3, <2>1 DEF Informed
<1> QED
  BY <1>4

\* Nothing moves but a reply that is not to the swap that wrote.
LEMMA QuietOrder ==
  ASSUME Typed, NEW r \in Replicas, Orderly(r),
         pending'[r] = pending[r], inFlight'[r] = inFlight[r], record' = record,
         landed'[r] = landed[r], made'[r] = made[r],
         \/ back'[r] = back[r]
         \/ back[r] # <<>> /\ back'[r] = Tail(back[r]) /\ ~Head(back[r]).swapped
  PROVE  Orderly(r)'
<1>1. InOrder(r)' /\ Belongs(r)'
  BY DEF Orderly, InOrder, Belongs
<1>2. Informed(r)'
  <2>1. CASE back'[r] = back[r]
    BY <2>1 DEF Orderly, Informed, LandedBefore
  <2>2. CASE back[r] # <<>> /\ back'[r] = Tail(back[r]) /\ ~Head(back[r]).swapped
    BY <2>2, StillInformed DEF Orderly
  <2> QED
    BY <2>1, <2>2
<1> QED
  BY <1>1, <1>2 DEF Orderly

\* Another gateway's batch lands.
LEMMA OthersOrder ==
  ASSUME IInv, NEW r \in Replicas, Orderly(r), NEW s \in Replicas, s # r, Orderly(s),
         Local(s)' = Local(s), record' = record \/ record' = record \o inFlight[r]
  PROVE  Orderly(s)'
<1>1. /\ pending'[s] = pending[s] /\ inFlight'[s] = inFlight[s] /\ back'[s] = back[s]
      /\ made'[s] = made[s] /\ landed'[s] = landed[s]
  BY DEF Local
<1>2. record \in Records /\ inFlight[r] \in Records /\ Typed
  BY DEF IInv, Typed, TypeOK
<1>3. /\ Own(s, record') = Own(s, record) /\ ToSet(record) \subseteq ToSet(record')
      /\ OwnInOrder(s, record')
  <2>1. CASE record' = record
    BY <2>1 DEF Orderly, InOrder
  <2>2. CASE record' = record \o inFlight[r]
    <3>1. Own(s, inFlight[r]) = {}
      BY DEF Own, Orderly, Belongs
    <3>2. OwnInOrder(s, inFlight[r])
      <4>1. \A i \in DOMAIN inFlight[r] : inFlight[r][i] \in ToSet(inFlight[r])
        BY <1>2 DEF ToSet, Records
      <4> QED
        BY <3>1, <4>1 DEF OwnInOrder, Own
    <3>3. Before(Own(s, record), Own(s, inFlight[r]))
      BY <3>1 DEF Before
    <3>4. OwnInOrder(s, record \o inFlight[r])
      BY <1>2, <3>2, <3>3, OrderOfConcat DEF Orderly, InOrder
    <3>5. Own(s, record \o inFlight[r]) = Own(s, record)
      <4>1. Own(s, record \o inFlight[r]) = Own(s, record) \cup Own(s, inFlight[r])
        BY <1>2, OwnOfConcat
      <4> QED
        BY <3>1, <4>1
    <3>6. ToSet(record) \subseteq ToSet(record \o inFlight[r])
      BY <1>2, MembersOfConcat DEF Records
    <3> QED
      BY <2>2, <3>4, <3>5, <3>6
  <2> QED
    BY <2>1, <2>2
<1>4. InOrder(s)' /\ Belongs(s)'
  BY <1>1, <1>3 DEF Orderly, InOrder, Belongs
<1>5. Informed(s)'
  BY <1>1, <1>3 DEF Orderly, Informed, LandedBefore
<1> QED
  BY <1>4, <1>5 DEF Orderly

\* A gateway's next observation comes behind all it has made.
LEMMA EnqueueOrder ==
  ASSUME IInv, NEW r \in Replicas, Orderly(r), Enqueue(r) PROVE Orderly(r)'
<1>0. Typed /\ TypeOK
  BY DEF IInv, Typed
<1>1. PICK kind \in Kinds :
        Buffer(r, Append(pending[r], [by |-> r, n |-> made[r] + 1, kind |-> kind]))
  BY DEF Enqueue
<1>2. /\ made[r] < MaxRecords[r] /\ made' = [made EXCEPT ![r] = @ + 1]
      /\ UNCHANGED <<record, inFlight, back, landed>>
  BY DEF Enqueue
<1> DEFINE o == [by |-> r, n |-> made[r] + 1, kind |-> kind]
           seq == Append(pending[r], o)
<1>3. made[r] \in Nat /\ made[r] + 1 \in 1 .. MaxRecords[r] /\ made'[r] = made[r] + 1
  <2>1. made[r] \in Nat /\ made \in [Replicas -> Nat]
    BY <1>0 DEF Typed
  <2>2. MaxRecords[r] \in Nat
    BY BufferAssumption
  <2> QED
    BY <1>2, <2>1, <2>2
<1>4. o \in Observation /\ o.by = r /\ o.n = made[r] + 1
  BY <1>3, ObservationIs
<1>5. pending[r] \in Records /\ inFlight[r] \in Records /\ record \in Records
  BY <1>0 DEF TypeOK
<1> HIDE DEF o
<1>6. /\ seq \in Records /\ ToSet(seq) = ToSet(pending[r]) \cup {o}
      /\ seq = pending[r] \o <<o>> /\ <<o>> \in Records /\ ToSet(<<o>>) = {o}
  <2>1. ToSet(<<o>>) = {o}
    BY DEF ToSet
  <2> QED
    BY <1>4, <1>5, <2>1, MembersOfAppend, AppendIsConcat DEF Records
<1>7. Buffer(r, seq)
  BY <1>1 DEF o
<1>8. \A p \in Own(r, record) \cup ToSet(inFlight[r]) \cup ToSet(pending[r]) :
        p.by = r /\ p.n \in Nat /\ p.n <= made[r] /\ p.n < o.n
  <2> SUFFICES ASSUME NEW p \in Own(r, record) \cup ToSet(inFlight[r]) \cup ToSet(pending[r])
               PROVE  p.by = r /\ p.n \in Nat /\ p.n <= made[r] /\ p.n < o.n
    OBVIOUS
  <2>1. p.n \in Nat
    BY <1>5, Numbered DEF Own
  <2>2. p.by = r /\ p.n <= made[r]
    BY DEF Orderly, Belongs
  <2> QED
    BY <1>3, <1>4, <2>1, <2>2
<1>9. OwnInOrder(r, seq)
  <2>1. OwnInOrder(r, <<o>>)
    <3>1. \A i, j \in DOMAIN <<o>> : ~(i < j)
      OBVIOUS
    <3> QED
      BY <3>1 DEF OwnInOrder
  <2>2. Before(Own(r, pending[r]), Own(r, <<o>>))
    BY <1>6, <1>8 DEF Before, Own
  <2>3. OwnInOrder(r, pending[r])
    BY DEF Orderly, InOrder
  <2>4. OwnInOrder(r, pending[r] \o <<o>>)
    BY <1>5, <1>6, <2>1, <2>2, <2>3, OrderOfConcat
  <2> QED
    BY <1>6, <2>4
<1> HIDE DEF seq
<1>10. OwnInOrder(r, pending'[r]) /\ ToSet(pending'[r]) \subseteq ToSet(pending[r]) \cup {o}
  BY <1>0, <1>6, <1>7, <1>9, BufferOrder
<1>11. InOrder(r)'
  BY <1>2, <1>8, <1>10 DEF Orderly, InOrder, Before
<1>12. Belongs(r)'
  <2> SUFFICES ASSUME NEW p \in Own(r, record) \cup ToSet(inFlight[r]) \cup ToSet(pending'[r])
               PROVE  p.by = r /\ p.n <= made[r] + 1
    BY <1>2, <1>3 DEF Belongs
  <2>1. CASE p = o
    BY <1>3, <1>4, <2>1
  <2>2. CASE p # o
    <3>1. p.by = r /\ p.n \in Nat /\ p.n <= made[r]
      BY <1>8, <1>10, <2>2
    <3> QED
      BY <1>3, <3>1
  <2> QED
    BY <2>1, <2>2
<1>13. Informed(r)'
  BY <1>2 DEF Orderly, Informed, LandedBefore
<1> QED
  BY <1>11, <1>12, <1>13 DEF Orderly

\* What waited is now being written.
LEMMA WriteOrder ==
  ASSUME IInv, NEW r \in Replicas, Orderly(r), Write(r) PROVE Orderly(r)'
<1>0. Typed /\ TypeOK
  BY DEF IInv, Typed
<1>1. inFlight[r] = <<>> /\ UNCHANGED <<record, back, made, landed>>
  BY DEF Write, WriteUnderWay
<1>2. CASE pending[r] = <<>>
  <2>1. UNCHANGED <<pending, inFlight>>
    BY <1>2 DEF Write
  <2> QED
    BY <1>0, <1>1, <2>1, QuietOrder
<1>3. CASE pending[r] # <<>>
  <2>1. inFlight'[r] = pending[r] /\ pending'[r] = <<>>
    BY <1>0, <1>3 DEF Write, TypeOK
  <2>2. ToSet(<<>>) = {} /\ DOMAIN <<>> = {}
    BY DEF ToSet
  <2>3. InOrder(r)' /\ Belongs(r)'
    BY <1>1, <2>1, <2>2 DEF Orderly, InOrder, OwnInOrder, Before, Belongs
  <2>4. Informed(r)'
    BY <1>1, <2>1, <2>2 DEF Orderly, Informed, LandedBefore, InOrder, Before, Own
  <2> QED
    BY <2>3, <2>4 DEF Orderly
<1> QED
  BY <1>2, <1>3

\* The batch is no longer in flight, and the snapshots that are have all there is.
LEMMA BatchOver ==
  ASSUME Typed, NEW r \in Replicas, Informed(r), back[r] # <<>>, back'[r] = Tail(back[r]),
         inFlight'[r] = <<>>, record' = record,
         \A i \in DOMAIN back'[r] : ~back'[r][i].swapped,
         \A i \in DOMAIN back[r] :
           1 < i /\ back[r][i].cmd.op = "MGET" => Own(r, record) \subseteq ToSet(back[r][i].read)
  PROVE  Informed(r)'
<1>1. PICK b \in Seq(Reply) : b = back[r]
  BY SentType
<1>2. /\ DOMAIN b = 1 .. Len(b) /\ Len(b) \in Nat \ {0} /\ DOMAIN Tail(b) = 1 .. Len(b) - 1
      /\ \A i \in 1 .. Len(b) - 1 : Tail(b)[i] = b[i + 1] /\ i + 1 \in DOMAIN b /\ 1 < i + 1
  BY <1>1
<1>3. ToSet(<<>>) = {}
  BY DEF ToSet
<1>4. Informed(r)'
  BY <1>1, <1>2, <1>3 DEF Informed, LandedBefore, Before
<1> QED
  BY <1>4

\* The server executes a command of the gateway's: if it is the swap, the batch is now in
\* the record, behind all of the gateway's own that was.
LEMMA ExecuteOrder ==
  ASSUME IInv, NEW r \in Replicas, Landing(r), Orderly(r), Execute(r)
  PROVE  Orderly(r)' /\ (record' = record \/ record' = record \o inFlight[r])
<1>0. Typed /\ TypeOK
  BY DEF IInv, Typed
<1>1. PICK reply \in Reply :
        /\ back'[r] = Append(back[r], reply) /\ landed'[r] = (landed[r] \/ reply.swapped)
        /\ UNCHANGED <<pending, inFlight, made, losses>>
        /\ reply.cmd.op = "MGET" => reply.read = record /\ ~reply.swapped
        /\ ~reply.swapped => record' = record
        /\ reply.swapped =>
             /\ record' = record \o inFlight[r] /\ inFlight[r] # <<>>
             /\ \A j \in DOMAIN back[r] : ~back[r][j].swapped
  BY Executed
<1>2. back[r] \in Seq(Reply) /\ record \in Records /\ inFlight[r] \in Records
      /\ landed[r] \in BOOLEAN /\ reply.swapped \in BOOLEAN
  BY <1>0, SentType DEF TypeOK, Reply
<1>3. PICK b \in Seq(Reply) : b = back[r]
  BY <1>2
<1>4. /\ DOMAIN b = 1 .. Len(b) /\ Len(b) \in Nat /\ DOMAIN back'[r] = 1 .. Len(b) + 1
      /\ back'[r][Len(b) + 1] = reply /\ \A k \in 1 .. Len(b) : back'[r][k] = b[k]
  BY <1>1, <1>3
\* the replies behind another's are as they were
<1>5. \A k \in 1 .. Len(b) : LandedBefore(r, k)' <=> LandedBefore(r, k)
  <2>1. \A k \in 1 .. Len(b), j \in 1 .. Len(b) + 1 : j < k => j \in 1 .. Len(b)
    BY <1>4
  <2>2. \A j \in 1 .. Len(b) : j \in 1 .. Len(b) + 1
    BY <1>4
  <2> QED
    BY <1>3, <1>4, <2>1, <2>2 DEF LandedBefore
<1>6. CASE reply.swapped
  <2>1. record' = record \o inFlight[r] /\ landed'[r] = TRUE
    BY <1>1, <1>2, <1>6
  <2>2. \A j \in DOMAIN back[r] : ~back[r][j].swapped
    BY <1>1, <1>6
  <2>3. ~landed[r] /\ \A k : ~LandedBefore(r, k)
    BY <2>2 DEF Landing, LandedBefore
  <2>4. /\ Own(r, record') = Own(r, record) \cup Own(r, inFlight[r])
        /\ ToSet(record') = ToSet(record) \cup ToSet(inFlight[r])
        /\ OwnInOrder(r, record')
        /\ Own(r, inFlight[r]) \subseteq ToSet(inFlight[r])
    <3>1. Own(r, record \o inFlight[r]) = Own(r, record) \cup Own(r, inFlight[r])
      BY <1>2, OwnOfConcat
    <3>2. ToSet(record \o inFlight[r]) = ToSet(record) \cup ToSet(inFlight[r])
      BY <1>2, MembersOfConcat DEF Records
    <3>3. Own(r, inFlight[r]) \subseteq ToSet(inFlight[r])
      BY DEF Own
    <3>4. Before(Own(r, record), Own(r, inFlight[r]))
      BY <2>3, <3>3 DEF Orderly, InOrder, Before
    <3>5. OwnInOrder(r, record \o inFlight[r])
      BY <1>2, <3>4, OrderOfConcat DEF Orderly, InOrder
    <3> QED
      BY <2>1, <3>1, <3>2, <3>3, <3>5
  <2>5. InOrder(r)'
    BY <1>1, <2>1, <2>4 DEF Orderly, InOrder, Before
  <2>6. Belongs(r)'
    BY <1>1, <2>4 DEF Orderly, Belongs
  <2>7. Informed(r)'
    <3> SUFFICES ASSUME NEW k \in 1 .. Len(b) + 1, back'[r][k].cmd.op = "MGET"
                 PROVE  LET rd == back'[r][k].read
                        IN  /\ OwnInOrder(r, rd) /\ ToSet(rd) \subseteq ToSet(record')
                            /\ LandedBefore(r, k)' => Own(r, record') \subseteq ToSet(rd)
                            /\ ~LandedBefore(r, k)' =>
                                 /\ Before(Own(r, rd), ToSet(inFlight[r]))
                                 /\ Own(r, record') \subseteq ToSet(rd) \cup ToSet(inFlight[r])
      BY <1>1, <1>4 DEF Informed
    <3>1. k \in 1 .. Len(b)
      BY <1>1, <1>4, <1>6
    <3>2. back'[r][k] = back[r][k] /\ k \in DOMAIN back[r]
      BY <1>3, <1>4, <3>1
    <3>3. ~LandedBefore(r, k)' /\ ~LandedBefore(r, k)
      BY <1>5, <2>3, <3>1
    <3> QED
      BY <2>4, <3>2, <3>3 DEF Orderly, Informed
  <2> QED
    BY <2>1, <2>5, <2>6, <2>7 DEF Orderly
<1>7. CASE ~reply.swapped
  <2>1. record' = record /\ landed'[r] = landed[r]
    BY <1>1, <1>2, <1>7
  <2>2. InOrder(r)' /\ Belongs(r)'
    BY <1>1, <2>1 DEF Orderly, InOrder, Belongs
  <2>3. Informed(r)'
    <3> SUFFICES ASSUME NEW k \in 1 .. Len(b) + 1, back'[r][k].cmd.op = "MGET"
                 PROVE  LET rd == back'[r][k].read
                        IN  /\ OwnInOrder(r, rd) /\ ToSet(rd) \subseteq ToSet(record)
                            /\ LandedBefore(r, k)' => Own(r, record) \subseteq ToSet(rd)
                            /\ ~LandedBefore(r, k)' =>
                                 /\ Before(Own(r, rd), ToSet(inFlight[r]))
                                 /\ Own(r, record) \subseteq ToSet(rd) \cup ToSet(inFlight[r])
      BY <1>1, <1>4, <2>1 DEF Informed
    <3>1. CASE k \in 1 .. Len(b)
      <4>1. back'[r][k] = back[r][k] /\ k \in DOMAIN back[r]
        BY <1>3, <1>4, <3>1
      <4> QED
        BY <1>5, <3>1, <4>1 DEF Orderly, Informed
    <3>2. CASE k = Len(b) + 1
      <4>1. back'[r][k].read = record
        BY <1>1, <1>4, <3>2
      <4>2. ~LandedBefore(r, k)' => ~landed[r]
        <5>1. \A j \in 1 .. Len(b) : j < k /\ j \in 1 .. Len(b) + 1 /\ back'[r][j] = b[j]
          BY <1>4, <3>2
        <5> QED
          BY <1>3, <1>4, <5>1 DEF Landing, LandedBefore
      <4>3. Own(r, record) \subseteq ToSet(record)
        BY DEF Own
      <4> QED
        BY <4>1, <4>2, <4>3 DEF Orderly, InOrder
    <3> QED
      BY <1>4, <3>1, <3>2
  <2> QED
    BY <2>1, <2>2, <2>3 DEF Orderly
<1> QED
  BY <1>6, <1>7

\* The write is over, or goes on.
LEMMA SwappedOrder ==
  ASSUME IInv, IInv', NEW r \in Replicas, Landing(r), Orderly(r), Swapped(r)
  PROVE  Orderly(r)'
<1>0. Typed /\ TypeOK /\ Confirmed(r)
  BY DEF IInv, Typed, Good
<1>1. Answer(r) /\ back[r] # <<>> /\ Head(back[r]).cmd.op = "EVAL"
  BY DEF Swapped, Answer
<1>2. back'[r] = Tail(back[r]) /\ UNCHANGED <<record, made>>
  BY <1>0, <1>1, AnswerLeaves
<1>3. ToSet(<<>>) = {} /\ DOMAIN <<>> = {}
  BY DEF ToSet
<1>4. /\ inFlight[r] \in Records /\ pending[r] \in Records /\ record \in Records
      /\ landed \in [Replicas -> BOOLEAN] /\ inFlight \in [Replicas -> Records]
  BY <1>0 DEF TypeOK
\* with no batch in flight, no reply is left that says a batch landed
<1>5. ASSUME Written(r)
      PROVE  /\ inFlight'[r] = <<>> /\ landed'[r] = FALSE
             /\ \A i \in DOMAIN back'[r] : ~back'[r][i].swapped
  <2>1. inFlight'[r] = <<>> /\ landed'[r] = FALSE
    BY <1>4, <1>5 DEF Written
  <2> QED
    BY <2>1, NoneLandedNext
<1>6. PICK b \in Seq(Reply) : b = back[r]
  BY <1>0, SentType
<1>7. /\ DOMAIN b = 1 .. Len(b) /\ Len(b) \in Nat \ {0} /\ 1 \in DOMAIN b /\ Head(b) = b[1]
      /\ DOMAIN Tail(b) = 1 .. Len(b) - 1 /\ \A i \in 1 .. Len(b) - 1 : Tail(b)[i] = b[i + 1]
  BY <1>1, <1>6
<1>8. CASE /\ Head(back[r]).swapped
           /\ Written(r)
           /\ UNCHANGED <<pending, out, dropped>>
  <2>1. \A i \in DOMAIN back[r] : 1 < i => LandedBefore(r, i)
    BY <1>6, <1>7, <1>8 DEF LandedBefore
  <2>2. Informed(r)'
    BY <1>0, <1>1, <1>2, <1>5, <1>8, <2>1, BatchOver DEF Orderly, Informed
  <2>3. InOrder(r)' /\ Belongs(r)'
    BY <1>2, <1>3, <1>5, <1>8 DEF Orderly, InOrder, Belongs, OwnInOrder, Before
  <2> QED
    BY <2>2, <2>3 DEF Orderly
<1>9. CASE /\ ~Head(back[r]).swapped
           /\ attempt[r] + 1 < CAS_ATTEMPTS
           /\ attempt' = [attempt EXCEPT ![r] = @ + 1]
           /\ Send(r, [op |-> "GET"])
           /\ UNCHANGED <<pending, inFlight, chain, landed, dropped>>
  BY <1>0, <1>1, <1>2, <1>9, QuietOrder
<1>10. CASE /\ ~Head(back[r]).swapped
            /\ attempt[r] + 1 >= CAS_ATTEMPTS
            /\ Requeue(r)
            /\ Written(r)
            /\ UNCHANGED out
  <2>1. \A i \in DOMAIN back[r] : ~back[r][i].swapped
    <3> SUFFICES ASSUME NEW i \in 1 .. Len(b), b[i].swapped PROVE FALSE
      BY <1>6, <1>7
    <3>1. i # 1
      BY <1>6, <1>7, <1>10
    <3>2. i - 1 \in 1 .. Len(b) - 1 /\ Tail(b)[i - 1] = b[(i - 1) + 1] /\ (i - 1) + 1 = i
      BY <1>7, <3>1
    <3> QED
      BY <1>2, <1>5, <1>6, <1>7, <1>10, <3>2
  <2>2. ~landed[r] /\ \A i : ~LandedBefore(r, i)
    BY <2>1 DEF Landing, LandedBefore
  <2>3. \A o \in Own(r, record) : o \notin ToSet(inFlight[r])
    <3> SUFFICES ASSUME NEW o \in Own(r, record), o \in ToSet(inFlight[r]) PROVE FALSE
      OBVIOUS
    <3>1. o.n < o.n
      BY <2>2 DEF Orderly, InOrder, Before
    <3>2. o.n \in Nat
      BY <1>4, Numbered
    <3> QED
      BY <3>1, <3>2
  <2>4. \A i \in DOMAIN back[r] :
          1 < i /\ back[r][i].cmd.op = "MGET" => Own(r, record) \subseteq ToSet(back[r][i].read)
    BY <2>2, <2>3 DEF Orderly, Informed
  <2>5. Informed(r)'
    BY <1>0, <1>1, <1>2, <1>5, <1>10, <2>4, BatchOver DEF Orderly
  <2> DEFINE seq == inFlight[r] \o pending[r]
  <2>6. /\ seq \in Records /\ ToSet(seq) = ToSet(inFlight[r]) \cup ToSet(pending[r])
        /\ OwnInOrder(r, seq)
    <3>1. Before(Own(r, inFlight[r]), Own(r, pending[r]))
      BY DEF Orderly, InOrder, Before, Own
    <3>2. OwnInOrder(r, inFlight[r] \o pending[r])
      BY <1>4, <3>1, OrderOfConcat DEF Orderly, InOrder
    <3>3. inFlight[r] \o pending[r] \in Records
      BY <1>4 DEF Records
    <3>4. ToSet(inFlight[r] \o pending[r]) = ToSet(inFlight[r]) \cup ToSet(pending[r])
      BY <1>4, MembersOfConcat DEF Records
    <3> QED
      BY <3>2, <3>3, <3>4
  <2>7. Buffer(r, seq)
    BY <1>10 DEF Requeue
  <2> HIDE DEF seq
  <2>8. /\ OwnInOrder(r, pending'[r])
        /\ ToSet(pending'[r]) \subseteq ToSet(inFlight[r]) \cup ToSet(pending[r])
    BY <1>0, <2>6, <2>7, BufferOrder
  <2>9. InOrder(r)'
    BY <1>2, <1>3, <1>5, <1>10, <2>2, <2>8 DEF Orderly, InOrder, OwnInOrder, Before
  <2>10. Belongs(r)'
    BY <1>2, <1>3, <1>5, <1>10, <2>8 DEF Orderly, Belongs
  <2> QED
    BY <2>5, <2>9, <2>10 DEF Orderly
<1> QED
  BY <1>8, <1>9, <1>10 DEF Swapped

LEMMA InitOrder == Init => JInv
<1> SUFFICES ASSUME Init PROVE JInv
  OBVIOUS
<1>1. ASSUME NEW r \in Replicas PROVE Orderly(r)
  <2>1. /\ record = <<>> /\ pending[r] = <<>> /\ inFlight[r] = <<>> /\ back[r] = <<>>
        /\ landed[r] = FALSE
    BY DEF Init
  <2>2. ToSet(<<>>) = {} /\ DOMAIN <<>> = {}
    BY DEF ToSet
  <2> QED
    BY <2>1, <2>2 DEF Orderly, InOrder, OwnInOrder, Before, Own, Belongs, Informed
<1> QED
  BY <1>1, InitAware DEF JInv

LEMMA NextOrder == JInv /\ [Next]_vars => JInv'
<1> SUFFICES ASSUME JInv, [Next]_vars PROVE JInv'
  OBVIOUS
<1>0. KInv /\ KInv' /\ IInv /\ IInv' /\ Typed /\ TypeOK /\ \A r \in Replicas : Landing(r)
  BY NextAware DEF JInv, KInv, Aware, IInv, Typed
<1> SUFFICES ASSUME losses' = 0 PROVE \A r \in Replicas : Orderly(r)'
  BY <1>0 DEF JInv
<1>1. CASE UNCHANGED vars
  <2>1. \A r \in Replicas : Orderly(r)
    BY <1>1 DEF JInv, vars
  <2> QED
    BY <1>0, <1>1, <2>1, QuietOrder DEF vars
<1>2. ASSUME NEW r \in Replicas,
             Enqueue(r) \/ Flush(r) \/ Snapshot(r) \/ Work(r) \/ Break(r) \/ Resend(r) \/ Close(r)
      PROVE  \A s \in Replicas : Orderly(s)'
  <2>1. ~Break(r) /\ ~Resend(r) /\ losses = 0
    <3>1. losses \in Nat
      BY <1>0 DEF TypeOK
    <3>2. ~Break(r) /\ ~Resend(r)
      BY <3>1 DEF Break, Resend
    <3>3. losses' = losses
      BY <1>2, <3>2 DEF Enqueue, Flush, Snapshot, Work, Write, Execute, Fold, Swapped, Read,
         Answer, CloseRound, Close
    <3> QED
      BY <3>2, <3>3
  <2>2. \A s \in Replicas : Orderly(s)
    BY <2>1 DEF JInv
  <2>3. Orderly(r)' /\ (record' = record \/ record' = record \o inFlight[r])
    <3>1. CASE Enqueue(r)
      BY <1>0, <2>2, <3>1, EnqueueOrder DEF Enqueue
    <3>2. CASE Write(r)
      BY <1>0, <2>2, <3>2, WriteOrder DEF Write
    <3>3. CASE Execute(r)
      BY <1>0, <2>2, <3>3, ExecuteOrder
    <3>4. CASE Swapped(r)
      BY <1>0, <2>2, <3>4, SwappedOrder DEF Swapped, Answer
    <3>5. CASE Fold(r) \/ Read(r)
      BY <1>0, <2>2, <3>5, PassedOver, QuietOrder
    <3>6. CASE Flush(r) \/ Snapshot(r) \/ CloseRound(r) \/ Close(r)
      <4>1. UNCHANGED <<record, pending, inFlight, back, landed, made>>
        BY <3>6 DEF Flush, Snapshot, CloseRound, Close
      <4> QED
        BY <1>0, <2>2, <4>1, QuietOrder
    <3> QED
      BY <1>2, <2>1, <3>1, <3>2, <3>3, <3>4, <3>5, <3>6 DEF Work
  <2>4. Confined(r)
    BY <1>0, <1>2, StepConfined
  <2>5. ASSUME NEW s \in Replicas, s # r PROVE Orderly(s)'
    <3>1. Local(s)' = Local(s)
      BY <2>4, <2>5 DEF Confined
    <3> QED
      BY <1>0, <2>2, <2>3, <2>5, <3>1, OthersOrder
  <2> QED
    BY <2>3, <2>5
<1> QED
  BY <1>1, <1>2 DEF Next, Finished

\* A snapshot tells a gateway all it has itself observed, once and in order, whatever else
\* was under way when it was taken and when its answer came (valkey.ts, #inFlight and
\* snapshot): #applyPending neither forgets the batch being written nor counts it twice.
THEOREM SnapshotsAreWhole == Spec => []ReadsItsOwn
<1>1. ASSUME JInv PROVE ReadsItsOwn
  <2> SUFFICES ASSUME NEW r \in Replicas, losses = 0, back[r] # <<>>, Head(back[r]).cmd.op = "MGET"
               PROVE  /\ OwnInOrder(r, View(r))
                      /\ \A o \in ToSet(record) \cup ToSet(inFlight[r]) \cup ToSet(pending[r]) :
                           o.by = r => o \in ToSet(View(r))
    BY DEF ReadsItsOwn
  <2>1. Orderly(r) /\ Typed /\ TypeOK
    BY <1>1 DEF JInv, KInv, IInv, Typed
  <2> DEFINE read == Head(back[r]).read
  <2>2. /\ back[r] \in Seq(Reply) /\ read = back[r][1].read /\ 1 \in DOMAIN back[r]
        /\ read \in Records /\ back[r][1].cmd.op = "MGET"
    <3>1. back[r] \in Seq(Reply)
      BY <2>1, SentType
    <3>2. Head(back[r]) = back[r][1] /\ 1 \in DOMAIN back[r] /\ Head(back[r]) \in Reply
      BY <3>1
    <3> QED
      BY <3>1, <3>2 DEF Reply
  <2>3. ~LandedBefore(r, 1)
    <3>1. \A j \in DOMAIN back[r] : ~(j < 1)
      BY <2>2
    <3> QED
      BY <3>1 DEF LandedBefore
  <2> HIDE DEF read
  <2>4. inFlight[r] \in Records /\ pending[r] \in Records
    BY <2>1 DEF TypeOK
  <2>5. /\ OwnInOrder(r, read) /\ ToSet(read) \subseteq ToSet(record)
        /\ Before(Own(r, read), ToSet(inFlight[r]))
        /\ Own(r, record) \subseteq ToSet(read) \cup ToSet(inFlight[r])
    BY <2>1, <2>2, <2>3 DEF Orderly, Informed
  <2> DEFINE view == read \o inFlight[r]
  <2>6. /\ view \in Records /\ ToSet(view) = ToSet(read) \cup ToSet(inFlight[r])
        /\ Own(r, view) = Own(r, read) \cup Own(r, inFlight[r])
        /\ OwnInOrder(r, view)
    <3>1. read \o inFlight[r] \in Records
      BY <2>2, <2>4 DEF Records
    <3>2. ToSet(read \o inFlight[r]) = ToSet(read) \cup ToSet(inFlight[r])
      BY <2>2, <2>4, MembersOfConcat DEF Records
    <3>3. Own(r, read \o inFlight[r]) = Own(r, read) \cup Own(r, inFlight[r])
      BY <2>2, <2>4, OwnOfConcat
    <3>4. Before(Own(r, read), Own(r, inFlight[r]))
      BY <2>5 DEF Before, Own
    <3>5. OwnInOrder(r, read \o inFlight[r])
      BY <2>1, <2>2, <2>4, <2>5, <3>4, OrderOfConcat DEF Orderly, InOrder
    <3> QED
      BY <3>1, <3>2, <3>3, <3>5
  <2>7. View(r) = view \o pending[r]
    BY DEF View, read
  <2> HIDE DEF view
  <2>8. Before(Own(r, view), Own(r, pending[r]))
    BY <2>1, <2>5, <2>6 DEF Orderly, InOrder, Before, Own
  <2>9. OwnInOrder(r, view \o pending[r])
    BY <2>1, <2>4, <2>6, <2>8, OrderOfConcat DEF Orderly, InOrder
  <2>10. ToSet(view \o pending[r]) = ToSet(view) \cup ToSet(pending[r])
    BY <2>4, <2>6, MembersOfConcat DEF Records
  <2>11. ASSUME NEW o \in ToSet(record) \cup ToSet(inFlight[r]) \cup ToSet(pending[r]), o.by = r
         PROVE  o \in ToSet(View(r))
    BY <2>5, <2>6, <2>7, <2>10, <2>11 DEF Own
  <2> QED
    BY <2>7, <2>9, <2>11
<1>2. Spec => []JInv
  BY InitOrder, NextOrder, PTL DEF Spec
<1> QED
  BY <1>1, <1>2, PTL
==============================================================================
