------------------------------ MODULE Rotation ------------------------------
(***************************************************************************)
(* Weekly partitions of the request log (packages/db/src/partitions.ts):   *)
(* one job creates them ahead of need and one detaches and drops those     *)
(* past retention. Every query is a step, and a job may die between two.   *)
(* Days are counted from a Monday; a week is seven of them.                *)
(***************************************************************************)
EXTENDS Integers, FiniteSets, SequencesExt

CONSTANTS
  Tables,      \* the partitioned tables, in their order
  WeeksAhead,
  KeepDays,
  NewYear,     \* of each day: the 1 January of its year
  Start,       \* the day the system is first used
  MaxDay,      \* bound
  MaxCrashes,  \* bound: jobs that die
  NeverRun

VARIABLES
  parents,     \* do the partitioned tables exist? (Migrations)
  day,
  partitions,  \* the tables that are, or were, partitions
  ensure,      \* ensurePartitions: its step, and the table and week it is at
  retain,      \* dropExpiredPartitions: its step and the partitions it has still to drop
  crashes,
  ensuredOn,   \* history: the day the last complete ensurePartitions began
  made,        \* history: every partition created
  orphaned     \* history: a job died with a partition detached and not dropped

Week == 7
weekStart(at) == at - (at % Week)
addWeeks(at, n) == at + Week * n

\* The week's number in the year its Monday is in, from the week of 4 January.
partitionName(p) ==
  LET year == NewYear[p.start]
      firstMonday == weekStart(year + 3)
  IN <<p.table, year, (p.start - firstMonday) \div Week + 1>>

Partition == [table : ToSet(Tables), start : 0 .. addWeeks(MaxDay, WeeksAhead)]

TypeOK ==
  /\ day \in Start .. MaxDay
  /\ partitions \subseteq [table : ToSet(Tables), start : Int, attached : BOOLEAN]
  /\ ensure \in [step : {"idle", "look", "create"}, table : 1 .. Len(Tables) + 1,
                 ahead : 0 .. WeeksAhead, now : Start .. day, undone : BOOLEAN]
  /\ retain \in [step : {"idle", "detach", "drop"}, todo : Seq(Partition)]
  /\ crashes \in 0 .. MaxCrashes
  /\ made \subseteq Partition
  /\ orphaned \in BOOLEAN

\* now is the time the run works with; undone (history) says that the tables were
\* dropped under it.
Unstarted == [step |-> "idle", table |-> 1, ahead |-> 0, now |-> Start, undone |-> FALSE]
Resting == [step |-> "idle", todo |-> <<>>]

Init ==
  /\ day = Start
  /\ partitions = {}
  /\ ensure = Unstarted
  /\ retain = Resting
  /\ crashes = 0
  /\ ensuredOn = NeverRun
  /\ made = {}
  /\ orphaned = FALSE

As(p, attached) == [table |-> p.table, start |-> p.start, attached |-> attached]
Named(p) == {x \in partitions : partitionName(x) = partitionName(p)}

(***************************************************************************)
(* ensurePartitions                                                        *)
(***************************************************************************)

\* The partition a run is at.
Wanted(e) ==
  [table |-> Tables[e.table], start |-> addWeeks(weekStart(e.now), e.ahead)]

\* The last week of each table is left out.
Onward_NotLast(e) ==
  IF e.ahead + 1 < WeeksAhead THEN [e EXCEPT !.step = "look", !.ahead = @ + 1]
  ELSE [e EXCEPT !.step = "look", !.table = @ + 1, !.ahead = 0]

\* The next one: for each table, this week and those ahead.
Onward(e) ==
  IF e.ahead < WeeksAhead THEN [e EXCEPT !.step = "look", !.ahead = @ + 1]
  ELSE [e EXCEPT !.step = "look", !.table = @ + 1, !.ahead = 0]

SeenToAll(e) == e.table > Len(Tables)

EnsureStarts ==
  /\ ensure.step = "idle"
  /\ ensure' = [Unstarted EXCEPT !.step = "look", !.now = day]
  /\ UNCHANGED <<day, partitions, retain, crashes, ensuredOn, made, orphaned>>

\* Is there a table of that name?
EnsureLooks ==
  /\ ensure.step = "look" /\ ~SeenToAll(ensure)
  /\ ensure' = IF Named(Wanted(ensure)) = {} THEN [ensure EXCEPT !.step = "create"]
               ELSE Onward(ensure)
  /\ UNCHANGED <<day, partitions, retain, crashes, ensuredOn, made, orphaned>>

\* CREATE TABLE IF NOT EXISTS ... PARTITION OF its table.
EnsureCreates ==
  LET p == Wanted(ensure)
  IN /\ ensure.step = "create"
     /\ IF Named(p) = {}
        THEN /\ parents
             /\ partitions' = partitions \cup {As(p, TRUE)}
             /\ made' = made \cup {p}
        ELSE UNCHANGED <<partitions, made>>
     /\ ensure' = Onward(ensure)
     /\ UNCHANGED <<day, retain, crashes, ensuredOn, orphaned>>

EnsureEnds ==
  /\ ensure.step = "look" /\ SeenToAll(ensure)
  /\ ensuredOn' = IF ensure.undone THEN ensuredOn ELSE ensure.now
  /\ ensure' = Unstarted
  /\ UNCHANGED <<day, partitions, retain, crashes, made, orphaned>>

(***************************************************************************)
(* dropExpiredPartitions                                                   *)
(***************************************************************************)

\* A partition that begins before the cutoff.
expired_ByStart(now) == {x \in partitions : x.attached /\ x.start < (now - KeepDays)}

\* The bound is parsed in JavaScript, as NaN, which is before no cutoff.
expired_Unparsed(now) == {}

\* The attached partitions whose upper bound is before the cutoff.
expired(now) == {x \in partitions : x.attached /\ addWeeks(x.start, 1) < (now - KeepDays)}

\* By name: request_attempts before requests.
Before(x, y) ==
  IF x.table = y.table THEN x.start < y.start ELSE x.table = Last(Tables)

RetainStarts ==
  /\ retain.step = "idle"
  /\ expired(day) # {}
  /\ LET due == {[table |-> x.table, start |-> x.start] : x \in expired(day)}
     IN \E todo \in [1 .. Cardinality(due) -> due] :
          /\ \A m, n \in DOMAIN todo : m < n => Before(todo[m], todo[n])
          /\ retain' = [step |-> "detach", todo |-> todo]
  /\ UNCHANGED <<day, partitions, ensure, crashes, ensuredOn, made, orphaned>>

RetainDetaches ==
  LET p == Head(retain.todo)
  IN /\ retain.step = "detach" /\ retain.todo # <<>>
     /\ As(p, TRUE) \in partitions
     /\ partitions' = (partitions \ {As(p, TRUE)}) \cup {As(p, FALSE)}
     /\ retain' = [retain EXCEPT !.step = "drop"]
     /\ UNCHANGED <<day, ensure, crashes, ensuredOn, made, orphaned>>

RetainDrops ==
  LET p == Head(retain.todo)
  IN /\ retain.step = "drop"
     /\ partitions' = partitions \ {As(p, FALSE)}
     /\ retain' = [retain EXCEPT !.step = "detach", !.todo = Tail(@)]
     /\ UNCHANGED <<day, ensure, crashes, ensuredOn, made, orphaned>>

RetainEnds ==
  /\ retain.step = "detach" /\ retain.todo = <<>>
  /\ retain' = Resting
  /\ UNCHANGED <<day, partitions, ensure, crashes, ensuredOn, made, orphaned>>

(***************************************************************************)
(* The world                                                               *)
(***************************************************************************)

\* A query is refused, which ends the job: there is no table to create a
\* partition of, or no such partition to detach.
EnsureRefused ==
  /\ ensure.step = "create" /\ Named(Wanted(ensure)) = {} /\ ~parents
  /\ ensure' = Unstarted
  /\ UNCHANGED <<day, partitions, retain, crashes, ensuredOn, made, orphaned>>

RetainRefused ==
  /\ retain.step = "detach" /\ retain.todo # <<>>
  /\ As(Head(retain.todo), TRUE) \notin partitions
  /\ retain' = Resting
  /\ UNCHANGED <<day, partitions, ensure, crashes, ensuredOn, made, orphaned>>

\* A job's worker or its connection dies; it is retried from the start.
Crash ==
  /\ crashes < MaxCrashes
  /\ crashes' = crashes + 1
  /\ \/ ensure.step # "idle" /\ ensure' = Unstarted /\ UNCHANGED retain
     \/ retain.step # "idle" /\ retain' = Resting /\ UNCHANGED ensure
  /\ orphaned' = (orphaned \/ (retain.step = "drop" /\ retain' = Resting))
  /\ UNCHANGED <<day, partitions, ensuredOn, made>>

Tick ==
  /\ day < MaxDay
  /\ day' = day + 1
  /\ UNCHANGED <<partitions, ensure, retain, crashes, ensuredOn, made, orphaned>>

\* The tables are dropped, with the partitions attached to them.
ParentsDropped ==
  /\ partitions' = {x \in partitions : ~x.attached}
  /\ ensure' = [ensure EXCEPT !.undone = ensure.step # "idle"]
  /\ ensuredOn' = NeverRun
  /\ made' = {}
  /\ UNCHANGED <<day, retain, crashes, orphaned>>

Ensure == EnsureStarts \/ EnsureLooks \/ EnsureCreates \/ EnsureEnds \/ EnsureRefused
Retain == RetainStarts \/ RetainDetaches \/ RetainDrops \/ RetainEnds \/ RetainRefused

Next == Ensure \/ Retain \/ Crash \/ Tick

(***************************************************************************)
(* Properties                                                              *)
(***************************************************************************)

\* "Ahead, not just-in-time": a row of today has a partition in every table for
\* as many weeks as the last complete run looked ahead, whatever the retention job
\* and failed runs did since, the turn of a year included.
InsertsFit ==
  /\ parents
  /\ ensuredOn # NeverRun
  /\ weekStart(day) <= addWeeks(weekStart(ensuredOn), WeeksAhead)
  => \A t \in ToSet(Tables) :
       [table |-> t, start |-> weekStart(day), attached |-> TRUE] \in partitions

\* expiredPartitions, "dropping the wrong week is unrecoverable": a partition that
\* still holds a row inside the retention window stays attached, short of a rollback.
RetentionKept ==
  \A p \in made : addWeeks(p.start, 1) >= day - KeepDays => As(p, TRUE) \in partitions

\* The partitions, attached or not, of which every row is past retention.
Past == {x \in partitions : addWeeks(x.start, 1) < day - KeepDays}

\* "forgets to run -> the disk fills": what is past retention goes, table and all,
\* though jobs are slow, refused and die; unless one died in the one place where
\* what it had begun is lost to its retry, between a DETACH and its DROP.
RetentionFrees == Past # {} ~> Past = {} \/ orphaned
=============================================================================
