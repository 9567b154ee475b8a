---------------------------- MODULE HealthBuffer ----------------------------
(***************************************************************************)
(* ValkeyHealthStore (apps/gateway/src/valkey.ts), for one provider: each  *)
(* gateway buffers what it observes and writes it behind a compare-and-set *)
(* over one shared record, in the background and one write at a time.      *)
(* Commands and replies travel in order on the gateway's one connection.   *)
(*                                                                         *)
(* The record is kept as the sequence of observations it is the fold of.   *)
(***************************************************************************)
EXTENDS Integers, Sequences, SequencesExt, FiniteSets

CONSTANTS
  Replicas,      \* the gateways
  Kinds,         \* what can be observed: outcomes, and results of probes
  FLUSH_AT, MAX_PENDING, CAS_ATTEMPTS,
  CloseRounds,   \* flush rounds of close: 10
  MaxRecords,    \* bound: observations, by gateway
  MaxWrites,     \* bound: writes in a gateway's chain beyond which only close adds one
  MaxReads,      \* bound: snapshots, by gateway
  Closers,       \* bound: the gateways that are shut down
  MaxLosses      \* bound: lost commands and replies, by the gateway that loses one

ASSUME BufferAssumption ==
  /\ IsFiniteSet(Replicas) /\ Closers \subseteq Replicas
  /\ FLUSH_AT \in Nat \ {0} /\ MAX_PENDING \in Nat \ {0}
  /\ CAS_ATTEMPTS \in Nat \ {0} /\ CloseRounds \in Nat \ {0}
  /\ MaxRecords \in [Replicas -> Nat] /\ MaxReads \in [Replicas -> Nat]
  /\ MaxLosses \in [Replicas -> Nat]
  /\ MaxWrites \in Nat /\ MaxWrites >= 2

VARIABLES
  record,    \* the record under hs:{provider}
  pending,   \* #pending
  inFlight,  \* #inFlight
  chain,     \* #chains: the writes queued, the one that runs included
  attempt,   \* of the write that runs
  out, back, \* commands sent and not executed; executed and not yet answered
  made,      \* how many observations the gateway has made
  reads,     \* how many snapshots it has begun
  closing,   \* of close: "open", "closing", "closed", or "reported" what is left
  rounds,    \* the flush rounds close has begun
  awaits,    \* the writes, from the one that runs on, that close has still to await
  losses,    \* commands and replies lost so far
  landed,    \* history: the batch in flight is in the record
  dropped    \* history: the gateway's observations shed at the ceiling

vars == <<record, pending, inFlight, chain, attempt, out, back, made, reads, closing,
          rounds, awaits, losses, landed, dropped>>

Observation ==
  UNION {[by : {r}, n : 1 .. MaxRecords[r], kind : Kinds] : r \in Replicas}
Records == Seq(Observation)
Command ==
  [op : {"GET", "MGET"}] \cup [op : {"EVAL"}, expect : Records, new : Records]
Reply == [cmd : Command, read : Records, swapped : BOOLEAN]

TypeOK ==
  /\ record \in Records
  /\ pending \in [Replicas -> Records]
  /\ inFlight \in [Replicas -> Records]
  /\ \A r \in Replicas : Len(pending[r]) <= MAX_PENDING
  /\ chain \in [Replicas -> Nat]
  /\ attempt \in [Replicas -> 0 .. CAS_ATTEMPTS - 1]
  /\ out \in [Replicas -> Seq(Command)]
  /\ back \in [Replicas -> Seq(Reply)]
  /\ \A r \in Replicas : made[r] \in 0 .. MaxRecords[r] /\ reads[r] \in 0 .. MaxReads[r]
  /\ closing \in [Replicas -> {"open", "closing", "closed", "reported"}]
  /\ rounds \in [Replicas -> 0 .. CloseRounds]
  /\ awaits \in [Replicas -> Nat]
  /\ losses \in Nat
  /\ landed \in [Replicas -> BOOLEAN]
  /\ dropped \in [Replicas -> SUBSET Observation]

Init ==
  /\ record = <<>>
  /\ pending = [r \in Replicas |-> <<>>]
  /\ inFlight = [r \in Replicas |-> <<>>]
  /\ chain = [r \in Replicas |-> 0]
  /\ attempt = [r \in Replicas |-> 0]
  /\ out = [r \in Replicas |-> <<>>]
  /\ back = [r \in Replicas |-> <<>>]
  /\ made = [r \in Replicas |-> 0]
  /\ reads = [r \in Replicas |-> 0]
  /\ closing = [r \in Replicas |-> "open"]
  /\ rounds = [r \in Replicas |-> 0]
  /\ awaits = [r \in Replicas |-> 0]
  /\ losses = 0
  /\ landed = [r \in Replicas |-> FALSE]
  /\ dropped = [r \in Replicas |-> {}]

-----------------------------------------------------------------------------
Send(r, cmd) == out' = [out EXCEPT ![r] = Append(@, cmd)]

\* A write joins the chain, within the bound.
Queued(r) == [chain EXCEPT ![r] = IF @ < MaxWrites THEN @ + 1 ELSE @]

\* When close is over, the connection is quit and the process exits (index.ts).
Running(r) == closing[r] \notin {"closed", "reported"}

Buffer_Uncapped(r, seq) ==
  /\ pending' = [pending EXCEPT ![r] = seq]
  /\ UNCHANGED dropped

\* The newest that fit, and the rest shed.
Buffer(r, seq) ==
  LET kept == Len(seq) - (IF Len(seq) > MAX_PENDING THEN Len(seq) - MAX_PENDING ELSE 0)
      over == Len(seq) - kept
  IN  /\ pending' = [pending EXCEPT ![r] = SubSeq(seq, over + 1, Len(seq))]
      /\ dropped' = [dropped EXCEPT ![r] = @ \cup ToSet(SubSeq(seq, 1, over))]

\* record and recordProbe: #enqueue.  The write at FLUSH_AT is queued once.
Enqueue(r) ==
  /\ Running(r)
  /\ made[r] < MaxRecords[r]
  /\ \E kind \in Kinds :
       Buffer(r, Append(pending[r], [by |-> r, n |-> made[r] + 1, kind |-> kind]))
  /\ chain' = IF Len(pending'[r]) = FLUSH_AT THEN Queued(r) ELSE chain
  /\ made' = [made EXCEPT ![r] = @ + 1]
  /\ UNCHANGED <<record, inFlight, attempt, out, back, reads, closing, rounds, awaits,
                 losses, landed>>

\* The flush timer, until close stops it.
Flush(r) ==
  /\ closing[r] = "open"
  /\ pending[r] # <<>> \/ chain[r] > 0
  /\ Queued(r) # chain
  /\ chain' = Queued(r)
  /\ UNCHANGED <<record, pending, inFlight, attempt, out, back, made, reads, closing,
                 rounds, awaits, losses, landed, dropped>>

\* A write of the chain is over.
WriteEnds(r) ==
  /\ chain' = [chain EXCEPT ![r] = @ - 1]
  /\ awaits' = [awaits EXCEPT ![r] = IF @ > 0 THEN @ - 1 ELSE 0]

WriteUnderWay(r) == inFlight[r] # <<>>

\* The next write of the chain: it takes all that is pending, or finds nothing.
Write(r) ==
  /\ Running(r)
  /\ chain[r] > 0
  /\ ~WriteUnderWay(r)
  /\ IF pending[r] = <<>>
     THEN /\ WriteEnds(r)
          /\ UNCHANGED <<pending, inFlight, out>>
     ELSE /\ inFlight' = [inFlight EXCEPT ![r] = pending[r]]
          /\ pending' = [pending EXCEPT ![r] = <<>>]
          /\ Send(r, [op |-> "GET"])
          /\ UNCHANGED <<chain, awaits>>
  /\ UNCHANGED <<record, attempt, back, made, reads, closing, rounds, losses, landed, dropped>>

\* snapshot: one MGET.
Snapshot(r) ==
  /\ Running(r)
  /\ reads[r] < MaxReads[r]
  /\ Send(r, [op |-> "MGET"])
  /\ reads' = [reads EXCEPT ![r] = @ + 1]
  /\ UNCHANGED <<record, pending, inFlight, chain, attempt, back, made, closing, rounds,
                 awaits, losses, landed, dropped>>

Swaps_Blind(cmd) == cmd.op = "EVAL"

\* The script takes the '' that stands for no record to be one.
Swaps_NotFirst(cmd) == cmd.op = "EVAL" /\ cmd.expect = record /\ record # <<>>

\* The CAS script writes when the record is still what was read.
Swaps(cmd) == cmd.op = "EVAL" /\ cmd.expect = record

\* The server executes the connection's next command.
Execute(r) ==
  /\ out[r] # <<>>
  /\ LET cmd == Head(out[r])
         read == IF cmd.op = "EVAL" THEN <<>> ELSE record
         reply == [cmd |-> cmd, read |-> read, swapped |-> Swaps(cmd)]
     IN  /\ record' = IF Swaps(cmd) THEN cmd.new ELSE record
         /\ landed' = [landed EXCEPT ![r] = @ \/ Swaps(cmd)]
         /\ back' = [back EXCEPT ![r] = Append(@, reply)]
  /\ out' = [out EXCEPT ![r] = Tail(@)]
  /\ UNCHANGED <<pending, inFlight, chain, attempt, made, reads, closing,
                 rounds, awaits, losses, dropped>>

\* The write that runs is over.
Written(r) ==
  /\ inFlight' = [inFlight EXCEPT ![r] = <<>>]
  /\ WriteEnds(r)
  /\ attempt' = [attempt EXCEPT ![r] = 0]
  /\ landed' = [landed EXCEPT ![r] = FALSE]

Requeue_Dropped(r) == UNCHANGED <<pending, dropped>>

\* A batch that was not written goes back in front of what came meanwhile.
Requeue(r) == Buffer(r, inFlight[r] \o pending[r])

Answer(r) ==
  /\ Running(r)
  /\ back[r] # <<>>
  /\ back' = [back EXCEPT ![r] = Tail(@)]
  /\ UNCHANGED <<record, made, reads, closing, rounds, losses>>

\* The reply to the write's GET: the batch is folded on, and the swap tried.
Fold(r) ==
  /\ Answer(r)
  /\ LET reply == Head(back[r])
     IN  /\ reply.cmd.op = "GET"
         /\ Send(r, [op |-> "EVAL", expect |-> reply.read,
                     new |-> reply.read \o inFlight[r]])
  /\ UNCHANGED <<pending, inFlight, chain, awaits, attempt, landed, dropped>>

\* The reply to the swap: done, or once more, or given up and put back.
Swapped(r) ==
  /\ Answer(r)
  /\ Head(back[r]).cmd.op = "EVAL"
  /\ \/ /\ Head(back[r]).swapped
        /\ Written(r)
        /\ UNCHANGED <<pending, out, dropped>>
     \/ /\ ~Head(back[r]).swapped
        /\ attempt[r] + 1 < CAS_ATTEMPTS
        /\ attempt' = [attempt EXCEPT ![r] = @ + 1]
        /\ Send(r, [op |-> "GET"])
        /\ UNCHANGED <<pending, inFlight, chain, awaits, landed, dropped>>
     \/ /\ ~Head(back[r]).swapped
        /\ attempt[r] + 1 >= CAS_ATTEMPTS
        /\ Requeue(r)
        /\ Written(r)
        /\ UNCHANGED out

\* The reply to a snapshot.  What it tells the caller is View.
Read(r) ==
  /\ Answer(r)
  /\ Head(back[r]).cmd.op = "MGET"
  /\ UNCHANGED <<pending, inFlight, chain, awaits, attempt, out, landed, dropped>>

View_PendingOnly(r) == Head(back[r]).read \o pending[r]

\* #applyPending: the record, then what is being written, then what waits.
View(r) == Head(back[r]).read \o inFlight[r] \o pending[r]

\* The connection breaks and its commands reject, executed or not.
Break(r) ==
  /\ Running(r)
  /\ losses < MaxLosses[r]
  /\ out[r] \o back[r] # <<>>
  /\ losses' = losses + 1
  /\ out' = [out EXCEPT ![r] = <<>>]
  /\ back' = [back EXCEPT ![r] = <<>>]
  /\ IF WriteUnderWay(r)
     THEN Requeue(r) /\ Written(r)
     ELSE UNCHANGED <<pending, dropped, inFlight, chain, awaits, attempt, landed>>
  /\ UNCHANGED <<record, made, reads, closing, rounds>>

\* The connection breaks and the client sends its commands again.
Resend(r) ==
  /\ Running(r)
  /\ losses < MaxLosses[r]
  /\ back[r] # <<>>
  /\ losses' = losses + 1
  /\ out' = [out EXCEPT ![r] = [k \in DOMAIN back[r] |-> back[r][k].cmd] \o @]
  /\ back' = [back EXCEPT ![r] = <<>>]
  /\ landed' = [landed EXCEPT ![r] = FALSE]
  /\ UNCHANGED <<record, pending, inFlight, chain, attempt, made, reads, closing, rounds,
                 awaits, dropped>>

-----------------------------------------------------------------------------
\* close: the timer stops, and flush rounds begin.
Close(r) ==
  /\ r \in Closers
  /\ closing[r] = "open"
  /\ closing' = [closing EXCEPT ![r] = "closing"]
  /\ UNCHANGED <<record, pending, inFlight, chain, attempt, out, back, made, reads, rounds,
                 awaits, losses, landed, dropped>>

\* A round queues a write behind those there are and awaits that one, whatever is
\* queued behind it meanwhile; with nothing left, or no round, close is over and
\* reports what still waits.
CloseRound(r) ==
  /\ closing[r] = "closing"
  /\ awaits[r] = 0
  /\ IF (pending[r] # <<>> \/ chain[r] > 0) /\ rounds[r] < CloseRounds
     THEN /\ chain' = [chain EXCEPT ![r] = @ + 1]
          /\ awaits' = [awaits EXCEPT ![r] = chain[r] + 1]
          /\ rounds' = [rounds EXCEPT ![r] = @ + 1]
          /\ UNCHANGED closing
     ELSE /\ closing' = [closing EXCEPT ![r] = IF pending[r] = <<>>
                                               THEN "closed" ELSE "reported"]
          /\ UNCHANGED <<chain, rounds, awaits>>
  /\ UNCHANGED <<record, pending, inFlight, attempt, out, back, made, reads,
                 losses, landed, dropped>>

\* Every gateway is closed or idle.
Finished ==
  /\ \A r \in Replicas :
       /\ out[r] = <<>>
       /\ Running(r) => chain[r] = 0 /\ back[r] = <<>>
  /\ \A r \in Closers : ~Running(r)
  /\ UNCHANGED vars

Work(r) ==
  \/ Write(r)
  \/ Execute(r)
  \/ Fold(r)
  \/ Swapped(r)
  \/ Read(r)
  \/ CloseRound(r)

Next ==
  \/ \E r \in Replicas :
       Enqueue(r) \/ Flush(r) \/ Snapshot(r) \/ Work(r) \/ Break(r) \/ Resend(r) \/ Close(r)
  \/ Finished

\* The timer fires, the server answers, and an open connection is read.
Fairness == \A r \in Replicas : WF_vars(Work(r)) /\ WF_vars(Flush(r))

Spec == Init /\ [][Next]_vars /\ Fairness

-----------------------------------------------------------------------------
\* What the gateways have observed and the record does not hold yet.
Waiting ==
  [r \in Replicas |-> (IF landed[r] THEN <<>> ELSE inFlight[r]) \o pending[r]]

\* The buffer implements the log: nothing is lost, doubled or reordered on the way
\* but by a lost reply, and nothing shed but by a full buffer.
Log == INSTANCE HealthLog WITH
  log <- record, waiting <- Waiting, losses <- losses,
  Observations <- Observation, Limit <- MAX_PENDING
ImplementsLog == Log!Spec

\* The gateway's own observations in the sequence are in the order it made them, so
\* none is there twice.
OwnInOrder(r, seq) ==
  \A i, j \in DOMAIN seq :
    i < j /\ seq[i].by = r /\ seq[j].by = r => seq[i].n < seq[j].n

\* A snapshot tells a gateway all it has itself observed, once and in order, even
\* when the answer arrives in the middle of a write: a read never goes backwards
\* (valkey.ts, #inFlight and snapshot).
ReadsItsOwn ==
  \A r \in Replicas :
    (losses = 0 /\ back[r] # <<>> /\ Head(back[r]).cmd.op = "MGET")
      => /\ OwnInOrder(r, View(r))
         /\ \A o \in ToSet(record) \cup ToSet(inFlight[r]) \cup ToSet(pending[r]) :
              o.by = r => o \in ToSet(View(r))

\* The gateway's n-th observation is in the record or in these, or was shed at the
\* ceiling.
Accounted(r, n, others) ==
  \E o \in ToSet(record) \cup dropped[r] \cup others : o.by = r /\ o.n = n

\* valkey.ts, flush: "Write every buffered observation, and wait for writes already
\* in flight".  A close that reports nothing has left nothing behind but, at most, the
\* batch of a write queued behind the last that it awaited, which neither it nor flush
\* looks at: retries, lost replies and observations made meanwhile included.
CloseLosesOneBatch ==
  \A r \in Replicas : closing[r] = "closed" =>
    \A n \in 1 .. made[r] :
      Accounted(r, n, IF chain[r] > 0 THEN ToSet(inFlight[r]) ELSE {})

\* What gateways that stay up have observed, and is nowhere yet.
Owed ==
  UNION {{<<r, n>> : n \in {k \in 1 .. made[r] : ~Accounted(r, k, {})}} :
           r \in {s \in Replicas : closing[s] = "open"}}

\* Every observation ends up in the record or shed, unless the gateway is closed
\* first; retries, contention and lost replies delay it only.
EventuallyWritten == Owed # {} ~> Owed = {}
=============================================================================
