--------------------------- MODULE SchedulerProofs ---------------------------
(***************************************************************************)
(* Proofs about Scheduler, for any number of tasks, any width of the timer *)
(* and any depth of nesting: the queue is well formed, only queued tasks   *)
(* are started, the one picked is the one whose deadline comes first, and  *)
(* runs that interrupt each other do no harm unless a running task is      *)
(* picked.                                                                 *)
(*                                                                         *)
(* Overrun is FALSE in all of them: a DAI does not interrupt while its     *)
(* task is still queued from the last time.                                *)
(***************************************************************************)
EXTENDS Scheduler, ListProofs, SequenceTheorems

-----------------------------------------------------------------------------
(* The queue *)

Rounded == Cardinality(Tasks)

LEMMA TaskCount == IsFiniteSet(Tasks) /\ Rounded \in Nat /\ List \notin Tasks
BY SchedulerConstants, FS_CardinalityType DEF Rounded

\* The operators of ListItems, as those of ListProofs.
LEMMA SameWalk ==
  /\ Walk = WalkOf(next, List, Rounded)
  /\ Ends <=> EndsOf(next, List, Rounded)
  /\ Length = LengthOf(next, List, Rounded)
  /\ Listed = ListedOf(next, List, Rounded)
<1>1. Walk = WalkOf(next, List, Rounded) BY DEF Walk, WalkOf, Rounded
<1>2. Ends <=> EndsOf(next, List, Rounded) BY <1>1 DEF Ends, EndsOf
<1>3. Length = LengthOf(next, List, Rounded) BY <1>1 DEF Length, LengthOf
<1>4. Listed = ListedOf(next, List, Rounded)
  BY <1>1, <1>3 DEF Listed, Rounds, ListedOf
<1>. QED BY <1>1, <1>2, <1>3, <1>4

\* The queue holds exactly the queued tasks.
QueueInv ==
  \E r \in [Tasks -> Nat], t \in Nat : Linked(next, prev, List, Queued, r, t)

\* The rounds of a walk along the queue.
LEMMA QueueWalk ==
  ASSUME QueueInv
  PROVE  /\ Ends /\ Listed = Queued /\ Length \in Nat
         /\ \A i \in Rounds : Walk[i] \in Queued
<1>1. PICK r \in [Tasks -> Nat], t \in Nat : Linked(next, prev, List, Queued, r, t)
  BY DEF QueueInv
<1>2. Queued \in SUBSET Tasks BY DEF Queued
<1>3. ListedOf(next, List, Rounded) = Queued
  BY <1>1, <1>2, TaskCount, LinkedListed DEF Rounded
<1>4. EndsOf(next, List, Rounded) /\ Seen(next, List, Queued, Rounded)
  BY <1>1, <1>2, TaskCount, OrderedEnds DEF Rounded, Linked
<1>5. LengthOf(next, List, Rounded) \in 0 .. Rounded BY <1>4 DEF Seen
<1>6. Length \in Nat BY <1>5, SameWalk, TaskCount
<1>7. \A i \in Rounds : Walk[i] \in Listed BY DEF Listed
<1>. QED BY <1>3, <1>4, <1>6, <1>7, SameWalk

LEMMA QueueHolds == QueueInv => ListHolds(Queued)
<1>. SUFFICES ASSUME QueueInv PROVE ListHolds(Queued) OBVIOUS
<1>1. Ends /\ Listed = Queued BY QueueWalk
<1>2. \A i \in Queued \cup {List} : prev[next[i]] = i /\ next[prev[i]] = i
  BY DEF QueueInv, Linked
<1>. QED BY <1>1, <1>2 DEF ListHolds

-----------------------------------------------------------------------------
(* The inductive invariant *)

\* The context at the bottom is the main loop, the others are handlers that wait
\* or have waited; what is on top of them was taken at INTLEVEL 0.
StackInv ==
  /\ l3 = "idle" <=> below = <<>>
  /\ l3 = "idle" => open
  /\ l3 \in {"edf", "edf_clear", "hung"} => ~open
  /\ Len(below) <= MaxNest
  /\ \A i \in 1 .. Len(below) : below[i].l3 = "idle" <=> i = Len(below)
  /\ \A i \in 1 .. Len(below) : below[i].l3 \notin {"edf", "edf_clear", "hung"}

\* The interrupt of a task that was picked is taken before anything else runs.
PromptInv == "TASK_HIGH" \in pending => l3 = "edf_clear" \/ Interruptible

\* What is picked, runs or waits is a task, whatever became of the list.
TaskInv ==
  /\ "TASK_HIGH" \in pending => irq_high_task \in Tasks
  /\ l3 \in Live => task \in Tasks
  /\ Running \subseteq Tasks

\* The task picked, and one that runs and has not waited yet, is queued.
ChoiceInv ==
  /\ "TASK_HIGH" \in pending => irq_high_task \in Queued
  /\ l3 \in Live /\ ~open => task \in Queued

DistinctRuns ==
  \A i, j \in LiveBelow : below[i].task = below[j].task => i = j

\* The runs that have interrupted each other have different tasks, all queued,
\* and so has the one to come.
NestInv ==
  /\ "TASK_HIGH" \in pending =>
       irq_high_task \notin Running /\ (l3 \in Live => irq_high_task # task)
  /\ l3 \in Live => task \in Queued \ Running
  /\ Running \subseteq Queued
  /\ DistinctRuns

SchedInv ==
  /\ TypeOK /\ StackInv /\ PromptInv /\ TaskInv
  /\ again # "completed" => QueueInv /\ ChoiceInv
  /\ again = "never" => NestInv

LEMMA SchedInit == Init => SchedInv
<1>. SUFFICES ASSUME Init PROVE SchedInv OBVIOUS
<1>0. /\ next = [i \in Items |-> i] /\ prev = [i \in Items |-> i]
      /\ state = [t \in Tasks |-> "INIT"] /\ deadline = [t \in Tasks |-> 0]
      /\ timer \in Time /\ pending = {} /\ irq_high_task = List
      /\ l3 = "idle" /\ task = List /\ open = TRUE /\ below = <<>> /\ again = "never"
  BY DEF Init, list_init, Items
<1>1. TypeOK
  <2>1. below \in Seq(Contexts) BY <1>0, EmptySeq
  <2>2. 0 \in Time BY SchedulerConstants DEF Time, MAX_INT
  <2>. QED BY <1>0, <2>1, <2>2 DEF TypeOK, Irqs, L3, Items
<1>2. QueueInv
  <2>. DEFINE r == [i \in Tasks |-> 0]
  <2>1. next[List] = List /\ prev[List] = List /\ Queued = {}
    BY <1>0 DEF Queued, Items
  <2>2. Linked(next, prev, List, {}, r, 0)
    <3>. HIDE DEF r
    <3>. QED BY <2>1, EmptyLinked
  <2>3. r \in [Tasks -> Nat] OBVIOUS
  <2>. HIDE DEF r
  <2>. QED BY <2>1, <2>2, <2>3 DEF QueueInv
<1>3. Len(below) = 0 BY <1>0
<1>4. StackInv /\ PromptInv
  BY <1>0, <1>3, SchedulerConstants DEF StackInv, PromptInv
<1>5. LiveBelow = {} /\ Running = {} BY <1>3 DEF LiveBelow, Running
<1>6. ChoiceInv /\ NestInv /\ TaskInv
  BY <1>0, <1>3, <1>5 DEF ChoiceInv, NestInv, TaskInv, DistinctRuns, Live
<1>. QED BY <1>1, <1>2, <1>4, <1>6 DEF SchedInv

-----------------------------------------------------------------------------
(* Taking and returning from interrupts *)

\* Steps that leave the queue alone.
LEMMA QueueKept ==
  ASSUME UNCHANGED <<next, prev, state>>
  PROVE  (QueueInv => QueueInv') /\ Queued' = Queued
BY DEF QueueInv, Queued

\* The context that runs comes on top of those it has interrupted.
LEMMA Pushed ==
  ASSUME TypeOK, below' = <<[l3 |-> l3, task |-> task]>> \o below
  PROVE  /\ below' \in Seq(Contexts) /\ Len(below) \in Nat
         /\ Len(below') = Len(below) + 1 /\ below' # <<>>
         /\ below'[1].l3 = l3 /\ below'[1].task = task
         /\ \A i \in 1 .. Len(below) : below'[i + 1] = below[i]
<1>. DEFINE c == [l3 |-> l3, task |-> task]
<1>1. c \in Contexts BY DEF TypeOK, Contexts
<1>2. <<c>> \in Seq(Contexts) /\ Len(<<c>>) = 1 /\ <<c>>[1] = c BY <1>1
<1>3. below \in Seq(Contexts) BY DEF TypeOK
<1>4. Len(below) \in Nat BY <1>3, LenProperties
<1>5. /\ below' \in Seq(Contexts) /\ Len(below') = 1 + Len(below)
      /\ \A i \in 1 .. 1 + Len(below) :
           below'[i] = IF i <= 1 THEN <<c>>[i] ELSE below[i - 1]
  <2>. HIDE DEF c
  <2>. QED BY <1>2, <1>3, ConcatProperties DEF c
<1>6. below'[1] = c BY <1>2, <1>4, <1>5
<1>7. \A i \in 1 .. Len(below) : below'[i + 1] = below[i] BY <1>4, <1>5
<1>8. below' # <<>> BY <1>4, <1>5
<1>. QED BY <1>4, <1>5, <1>6, <1>7, <1>8

\* The context interrupted last goes on, with the others below it.
LEMMA Popped ==
  ASSUME TypeOK, below # <<>>, Return
  PROVE  /\ below' \in Seq(Contexts) /\ Len(below) \in Nat \ {0}
         /\ Len(below') = Len(below) - 1
         /\ l3' = below[1].l3 /\ task' = below[1].task /\ open' = TRUE
         /\ below[1] \in Contexts
         /\ \A i \in 1 .. Len(below) - 1 : below'[i] = below[i + 1]
<1>1. below \in Seq(Contexts) BY DEF TypeOK
<1>2. Len(below) \in Nat \ {0} BY <1>1, EmptySeq
<1>3. /\ Tail(below) \in Seq(Contexts) /\ Len(Tail(below)) = Len(below) - 1
      /\ \A i \in 1 .. Len(Tail(below)) : Tail(below)[i] = below[i + 1]
  BY <1>1, HeadTailProperties
<1>4. Head(below) = below[1] /\ below[1] \in Contexts BY <1>1, <1>2, ElementOfSeq
<1>. QED BY <1>2, <1>3, <1>4 DEF Return

\* The live runs after an interrupt is taken: those below it, and the one it
\* interrupted.
LEMMA PushedRunning ==
  ASSUME TypeOK, below' = <<[l3 |-> l3, task |-> task]>> \o below
  PROVE  /\ Running' = IF l3 \in Live THEN Running \cup {task} ELSE Running
         /\ DistinctRuns /\ (l3 \in Live => task \notin Running) => DistinctRuns'
<1>1. /\ Len(below) \in Nat /\ Len(below') = Len(below) + 1
      /\ below'[1].l3 = l3 /\ below'[1].task = task
      /\ \A i \in 1 .. Len(below) : below'[i + 1] = below[i]
  BY Pushed
<1>2. \A i \in LiveBelow : i + 1 \in LiveBelow' /\ below'[i + 1].task = below[i].task
  BY <1>1 DEF LiveBelow
<1>3. 1 \in LiveBelow' <=> l3 \in Live BY <1>1 DEF LiveBelow
<1>4. \A i \in LiveBelow' : i # 1 => i - 1 \in LiveBelow /\ below'[i].task = below[i - 1].task
  <2>1. \A i \in 2 .. Len(below) + 1 : below'[i] = below[i - 1]
    <3>. TAKE i \in 2 .. Len(below) + 1
    <3>1. i - 1 \in 1 .. Len(below) /\ i - 1 + 1 = i BY <1>1
    <3>. QED BY <1>1, <3>1
  <2>. QED BY <1>1, <2>1 DEF LiveBelow
<1>5. LiveBelow \subseteq Nat /\ LiveBelow' \subseteq Nat BY <1>1 DEF LiveBelow
<1>6. Running' = IF l3 \in Live THEN Running \cup {task} ELSE Running
  <2>1. Running' = {below'[i].task : i \in LiveBelow'} BY DEF Running
  <2>2. Running \subseteq Running' BY <1>2, <2>1 DEF Running
  <2>3. l3 \in Live => task \in Running' BY <1>1, <1>3, <2>1
  <2>4. \A x \in Running' : x \in Running \/ (l3 \in Live /\ x = task)
    BY <1>1, <1>3, <1>4, <2>1 DEF Running
  <2>. QED BY <2>2, <2>3, <2>4
<1>7. ASSUME DistinctRuns, l3 \in Live => task \notin Running,
             NEW i \in LiveBelow', NEW j \in LiveBelow',
             below'[i].task = below'[j].task
      PROVE  i = j
  <2>1. CASE i # 1 /\ j # 1
    <3>1. i - 1 \in LiveBelow /\ j - 1 \in LiveBelow BY <1>4, <2>1
    <3>2. below[i - 1].task = below[j - 1].task BY <1>4, <1>7, <2>1
    <3>3. i - 1 = j - 1 BY <1>7, <3>1, <3>2 DEF DistinctRuns
    <3>. QED BY <1>5, <3>3
  <2>2. CASE i = 1 /\ j # 1
    <3>1. task \in Running BY <1>1, <1>4, <1>7, <2>2 DEF Running
    <3>. QED BY <1>3, <1>7, <2>2, <3>1
  <2>3. CASE i # 1 /\ j = 1
    <3>1. task \in Running BY <1>1, <1>4, <1>7, <2>3 DEF Running
    <3>. QED BY <1>3, <1>7, <2>3, <3>1
  <2>. QED BY <2>1, <2>2, <2>3
<1>. QED BY <1>6, <1>7 DEF DistinctRuns

\* The live runs after a return: what was below, less the one that goes on.
LEMMA PoppedRunning ==
  ASSUME TypeOK, below # <<>>, Return
  PROVE  /\ Running' \subseteq Running
         /\ l3' \in Live => task' \in Running
         /\ DistinctRuns => DistinctRuns' /\ (l3' \in Live => task' \notin Running')
<1>1. /\ Len(below) \in Nat \ {0} /\ Len(below') = Len(below) - 1
      /\ l3' = below[1].l3 /\ task' = below[1].task
      /\ \A i \in 1 .. Len(below) - 1 : below'[i] = below[i + 1]
  BY Popped
<1>2. l3' \in Live <=> 1 \in LiveBelow BY <1>1 DEF LiveBelow
<1>3. \A i \in LiveBelow' : /\ i \in Nat \ {0} /\ i + 1 \in LiveBelow
                            /\ below'[i].task = below[i + 1].task
  BY <1>1 DEF LiveBelow
<1>4. Running' = {below'[i].task : i \in LiveBelow'} BY DEF Running
<1>5. Running' \subseteq Running BY <1>3, <1>4 DEF Running
<1>6. l3' \in Live => task' \in Running BY <1>1, <1>2 DEF Running
<1>7. ASSUME DistinctRuns
      PROVE  DistinctRuns' /\ (l3' \in Live => task' \notin Running')
  <2>1. ASSUME l3' \in Live, NEW i \in LiveBelow', task' = below'[i].task PROVE FALSE
    <3>1. i + 1 \in LiveBelow /\ below[i + 1].task = below[1].task /\ 1 \in LiveBelow
      BY <1>1, <1>2, <1>3, <2>1
    <3>2. i + 1 = 1 BY <1>7, <3>1 DEF DistinctRuns
    <3>. QED BY <1>3, <3>2
  <2>2. ASSUME NEW i \in LiveBelow', NEW j \in LiveBelow',
               below'[i].task = below'[j].task
        PROVE  i = j
    <3>1. i + 1 = j + 1 BY <1>3, <1>7, <2>2 DEF DistinctRuns
    <3>. QED BY <1>3, <3>1
  <2>. QED BY <1>4, <2>1, <2>2 DEF DistinctRuns
<1>. QED BY <1>5, <1>6, <1>7

\* edf_get_next() returns a queued task or none.
LEMMA EdfNext ==
  ASSUME TypeOK, QueueInv
  PROVE  edf_get_next \in Queued \cup {List}
<1>. DEFINE best == {i \in Rounds :
                      /\ Delta(Walk[i]) < MAX_INT
                      /\ \A j \in Rounds : Delta(Walk[i]) <= Delta(Walk[j])}
<1>1. Rounds \subseteq Nat /\ \A i \in Rounds : Walk[i] \in Queued
  BY QueueWalk DEF Rounds
<1>2. best \in SUBSET Nat /\ best \subseteq Rounds BY <1>1
<1>3. edf_get_next = IF best = {} THEN List ELSE Walk[First(best)]
  BY DEF edf_get_next, First
<1>. HIDE DEF best
<1>4. CASE best = {} BY <1>3, <1>4
<1>5. CASE best # {}
  <2>1. First(best) \in Rounds BY <1>2, <1>5, FirstIn
  <2>. QED BY <1>1, <1>3, <1>5, <2>1
<1>. QED BY <1>4, <1>5

\* Whatever became of the list, what the walk meets is a task or its head.
LEMMA EdfTyped ==
  ASSUME TypeOK, Ends
  PROVE  edf_get_next \in Items
<1>. DEFINE S == {i \in 0 .. Rounded : Walk[i] \in Items}
            heads == {i \in DOMAIN Walk : Walk[i] = List}
            best == {i \in Rounds :
                      /\ Delta(Walk[i]) < MAX_INT
                      /\ \A j \in Rounds : Delta(Walk[i]) <= Delta(Walk[j])}
<1>1. /\ DOMAIN Walk = 0 .. Rounded /\ Walk[0] = next[List]
      /\ \A i \in 0 .. Rounded - 1 : Walk[i + 1] = next[Walk[i]]
  BY SameWalk, TaskCount, WalkSteps
<1>2. \A i \in 0 .. Rounded : Walk[i] \in Items
  <2>1. 0 \in S BY <1>1, TaskCount DEF TypeOK, Items
  <2>2. \A i \in 0 .. Rounded - 1 : i \in S => i + 1 \in S
    BY <1>1, TaskCount DEF TypeOK
  <2>3. \A i \in 0 .. Rounded : i \in S
    <3>. HIDE DEF S
    <3>. QED BY <2>1, <2>2, TaskCount, Induction
  <2>. QED BY <2>3
<1>3. Length \in DOMAIN Walk
  <2>1. heads \in SUBSET Nat /\ heads # {} BY <1>1, TaskCount DEF Ends
  <2>2. PICK m \in heads : \A i \in heads : m <= i
    <3>. HIDE DEF heads
    <3>. QED BY <2>1, LeastNat
  <2>3. m \in DOMAIN Walk /\ Walk[m] = List BY <2>2
  <2>4. \A i \in 0 .. m - 1 : Walk[i] # List
    <3>. SUFFICES ASSUME NEW i \in 0 .. m - 1, Walk[i] = List
                  PROVE  FALSE
      OBVIOUS
    <3>1. m \in 0 .. Rounded BY <1>1, <2>3
    <3>2. i \in 0 .. Rounded /\ i < m BY <3>1, TaskCount
    <3>3. i \in heads BY <1>1, <3>2
    <3>4. m <= i BY <2>2, <3>3
    <3>. QED BY <3>1, <3>2, <3>4, TaskCount
  <2>. QED BY <2>3, <2>4 DEF Length
<1>4. Rounds \subseteq 0 .. Rounded BY <1>1, <1>3, TaskCount DEF Rounds
<1>5. best \in SUBSET Nat /\ best \subseteq Rounds
  <2>1. best \subseteq Rounds OBVIOUS
  <2>2. 0 .. Rounded \subseteq Nat BY TaskCount
  <2>. HIDE DEF best
  <2>. QED BY <1>4, <2>1, <2>2
<1>6. edf_get_next = IF best = {} THEN List ELSE Walk[First(best)]
  BY DEF edf_get_next, First
<1>7. List \in Items BY DEF Items
<1>. HIDE DEF best
<1>8. CASE best = {} BY <1>6, <1>7, <1>8
<1>9. CASE best # {}
  <2>1. First(best) \in Rounds BY <1>5, <1>9, FirstIn
  <2>. QED BY <1>2, <1>4, <1>6, <1>9, <2>1
<1>. QED BY <1>8, <1>9

LEMMA DispatchStep ==
  ASSUME SchedInv, NEW irq \in Irqs, NEW at \in {"edf", "run"}, NEW t \in Items,
         Dispatch(irq, at, t),
         at = "run" <=> irq = "TASK_HIGH", at = "run" => t = irq_high_task,
         irq = "SCHEDULE" => "TASK_HIGH" \notin pending,
         UNCHANGED <<next, prev, state, deadline, timer, irq_high_task, again>>
  PROVE  SchedInv'
<1>. USE DEF SchedInv
<1>1. /\ open /\ Len(below) < MaxNest /\ irq \in pending
      /\ pending' = pending \ {irq} /\ l3' = at /\ task' = t /\ open' = FALSE
      /\ below' = <<[l3 |-> l3, task |-> task]>> \o below
  BY DEF Dispatch, Interruptible
<1>2. /\ below' \in Seq(Contexts) /\ Len(below) \in Nat
      /\ Len(below') = Len(below) + 1 /\ below' # <<>>
      /\ below'[1].l3 = l3 /\ below'[1].task = task
      /\ \A i \in 1 .. Len(below) : below'[i + 1] = below[i]
  BY <1>1, Pushed
<1>3. (QueueInv => QueueInv') /\ Queued' = Queued BY QueueKept
<1>4. TypeOK' BY <1>1, <1>2 DEF TypeOK, L3
<1>5. "TASK_HIGH" \notin pending' BY <1>1 DEF Irqs
<1>6. StackInv'
  <2>1. \A i \in 2 .. Len(below) + 1 : i - 1 \in 1 .. Len(below) /\ below'[i] = below[i - 1]
    <3>. TAKE i \in 2 .. Len(below) + 1
    <3>1. i - 1 \in 1 .. Len(below) /\ i - 1 + 1 = i BY <1>2
    <3>. QED BY <1>2, <3>1
  <2>2. below = <<>> <=> Len(below) = 0 BY EmptySeq DEF TypeOK
  <2>3. \A i \in 1 .. Len(below') : below'[i].l3 = "idle" <=> i = Len(below')
    <3>. TAKE i \in 1 .. Len(below')
    <3>1. CASE i = 1 BY <1>2, <2>2, <3>1 DEF StackInv
    <3>2. CASE i # 1
      <4>1. below'[i] = below[i - 1] /\ i - 1 \in 1 .. Len(below) BY <1>2, <2>1, <3>2
      <4>2. below[i - 1].l3 = "idle" <=> i - 1 = Len(below) BY <4>1 DEF StackInv
      <4>. QED BY <1>2, <4>1, <4>2
    <3>. QED BY <3>1, <3>2
  <2>4. \A i \in 1 .. Len(below') : below'[i].l3 \notin {"edf", "edf_clear", "hung"}
    <3>. TAKE i \in 1 .. Len(below')
    <3>1. CASE i = 1 BY <1>1, <1>2, <3>1 DEF StackInv
    <3>2. CASE i # 1 BY <1>2, <2>1, <3>2 DEF StackInv
    <3>. QED BY <3>1, <3>2
  <2>5. Len(below') <= MaxNest BY <1>1, <1>2, SchedulerConstants
  <2>. QED BY <1>1, <1>2, <2>3, <2>4, <2>5 DEF StackInv
<1>7. ChoiceInv => ChoiceInv' BY <1>1, <1>3, <1>5 DEF ChoiceInv, Live
<1>8. TaskInv'
  <2>1. Running' = IF l3 \in Live THEN Running \cup {task} ELSE Running
    BY <1>1, PushedRunning
  <2>. QED BY <1>1, <1>5, <2>1 DEF TaskInv, Live
<1>9. NestInv /\ ChoiceInv => NestInv'
  <2>. SUFFICES ASSUME NestInv, ChoiceInv PROVE NestInv' OBVIOUS
  <2>1. /\ Running' = IF l3 \in Live THEN Running \cup {task} ELSE Running
        /\ DistinctRuns /\ (l3 \in Live => task \notin Running) => DistinctRuns'
    BY <1>1, PushedRunning
  <2>2. DistinctRuns' /\ Running' \subseteq Queued BY <2>1 DEF NestInv
  <2>3. l3' \in Live => task' \in Queued \ Running'
    BY <1>1, <2>1 DEF NestInv, ChoiceInv, Live
  <2>. QED BY <1>3, <1>5, <2>2, <2>3 DEF NestInv
<1>. QED BY <1>3, <1>4, <1>5, <1>6, <1>7, <1>8, <1>9 DEF PromptInv

\* A handler that ends: its interrupt is cleared and the context below goes on.
LEMMA ReturnStep ==
  ASSUME SchedInv, EdfClear \/ TaskClear
  PROVE  SchedInv'
<1>. USE DEF SchedInv
<1>1. /\ l3 \in {"edf_clear", "task_clear"} /\ Return
      /\ pending' \subseteq pending
      /\ UNCHANGED <<next, prev, state, deadline, timer, irq_high_task, again>>
  BY DEF EdfClear, TaskClear, At
<1>2. below # <<>> BY <1>1 DEF StackInv
<1>3. /\ below' \in Seq(Contexts) /\ Len(below) \in Nat \ {0}
      /\ Len(below') = Len(below) - 1
      /\ l3' = below[1].l3 /\ task' = below[1].task /\ open' = TRUE
      /\ below[1] \in Contexts
      /\ \A i \in 1 .. Len(below) - 1 : below'[i] = below[i + 1]
  BY <1>1, <1>2, Popped
<1>4. (QueueInv => QueueInv') /\ Queued' = Queued BY <1>1, QueueKept
<1>5. TypeOK' BY <1>1, <1>3 DEF TypeOK, Contexts
<1>6. StackInv'
  <2>1. below' = <<>> <=> Len(below') = 0 BY <1>3, EmptySeq
  <2>2. \A i \in 1 .. Len(below') :
          i + 1 \in 1 .. Len(below) /\ below'[i] = below[i + 1]
    BY <1>3
  <2>3. \A i \in 1 .. Len(below') :
          /\ below'[i].l3 = "idle" <=> i = Len(below')
          /\ below'[i].l3 \notin {"edf", "edf_clear", "hung"}
    <3>. TAKE i \in 1 .. Len(below')
    <3>1. i + 1 \in 1 .. Len(below) /\ below'[i] = below[i + 1] BY <2>2
    <3>2. below[i + 1].l3 = "idle" <=> i + 1 = Len(below) BY <3>1 DEF StackInv
    <3>3. below[i + 1].l3 \notin {"edf", "edf_clear", "hung"} BY <3>1 DEF StackInv
    <3>. QED BY <1>3, <3>1, <3>2, <3>3
  <2>4. l3' = "idle" <=> below' = <<>> BY <1>3, <2>1 DEF StackInv
  <2>5. l3' \notin {"edf", "edf_clear", "hung"} BY <1>3 DEF StackInv
  <2>6. Len(below') <= MaxNest BY <1>3, SchedulerConstants DEF StackInv
  <2>. QED BY <1>3, <2>3, <2>4, <2>5, <2>6 DEF StackInv
<1>7. PromptInv'
  <2>1. Len(below') < MaxNest BY <1>3, SchedulerConstants DEF StackInv
  <2>. QED BY <1>3, <2>1 DEF PromptInv, Interruptible
<1>8. ChoiceInv => ChoiceInv' BY <1>1, <1>3, <1>4 DEF ChoiceInv
<1>9. NestInv => NestInv'
  <2>. SUFFICES ASSUME NestInv PROVE NestInv' OBVIOUS
  <2>1. /\ Running' \subseteq Running /\ (l3' \in Live => task' \in Running)
        /\ DistinctRuns' /\ (l3' \in Live => task' \notin Running')
    BY <1>1, <1>2, PoppedRunning DEF NestInv
  <2>. QED BY <1>1, <1>4, <2>1 DEF NestInv
<1>10. TaskInv'
  <2>1. Running' \subseteq Running /\ (l3' \in Live => task' \in Running)
    BY <1>1, <1>2, PoppedRunning
  <2>. QED BY <1>1, <2>1 DEF TaskInv
<1>. QED BY <1>1, <1>4, <1>5, <1>6, <1>7, <1>8, <1>9, <1>10

\* Steps of a run that leave the contexts below and the queue alone.
LEMMA RunStep ==
  ASSUME SchedInv, HostWait \/ RunTask
  PROVE  SchedInv'
<1>. USE DEF SchedInv
<1>1. /\ l3 = "run" /\ l3' \in {"run", "complete"} /\ task' = task
      /\ open' \in BOOLEAN /\ (open => open') /\ (l3' = "complete" => open' = open)
      /\ UNCHANGED <<next, prev, state, deadline, timer, pending, irq_high_task,
                    below, again>>
  BY DEF HostWait, RunTask, At, TypeOK
<1>2. (QueueInv => QueueInv') /\ Queued' = Queued BY <1>1, QueueKept
<1>3. LiveBelow' = LiveBelow BY <1>1 DEF LiveBelow
<1>4. Running' = Running /\ (DistinctRuns => DistinctRuns')
  BY <1>1, <1>3 DEF Running, DistinctRuns
<1>5. TypeOK' BY <1>1 DEF TypeOK, L3
<1>6. StackInv' BY <1>1 DEF StackInv
<1>7. PromptInv' BY <1>1 DEF PromptInv, Interruptible
<1>8. ChoiceInv => ChoiceInv' BY <1>1, <1>2 DEF ChoiceInv, Live
<1>9. NestInv => NestInv' BY <1>1, <1>2, <1>4 DEF NestInv, Live
<1>10. TaskInv' BY <1>1, <1>4 DEF TaskInv, Live
<1>. QED BY <1>1, <1>2, <1>5, <1>6, <1>7, <1>8, <1>9, <1>10

LEMMA EdfStep ==
  ASSUME SchedInv, EdfRun
  PROVE  SchedInv'
<1>. USE DEF SchedInv
<1>1. /\ l3 = "edf" /\ ~open /\ "TASK_HIGH" \notin pending
      /\ l3' \in {"edf_clear", "hung"} /\ (l3' = "edf_clear" <=> Ends)
      /\ task' = IF Ends THEN edf_get_next ELSE List
      /\ UNCHANGED <<next, prev, state, deadline, timer, open, below>>
      /\ again' = IF again = "never" /\ task' \in Running THEN "picked" ELSE again
      /\ IF task' # List
         THEN irq_high_task' = task' /\ pending' = pending \cup {"TASK_HIGH"}
         ELSE UNCHANGED <<irq_high_task, pending>>
  BY DEF EdfRun, At, StackInv, PromptInv, Interruptible
<1>2. (QueueInv => QueueInv') /\ Queued' = Queued BY <1>1, QueueKept
<1>3. task' \in Items BY <1>1, EdfTyped DEF Items
<1>4. TypeOK' BY <1>1, <1>3 DEF TypeOK, L3, Irqs
<1>5. StackInv' BY <1>1 DEF StackInv
<1>6. PromptInv' BY <1>1 DEF PromptInv
<1>7. again' # "completed" => again # "completed" BY <1>1 DEF TypeOK
<1>8. QueueInv => ChoiceInv'
  <2>. SUFFICES ASSUME QueueInv PROVE ChoiceInv' OBVIOUS
  <2>1. task' \in Queued \cup {List} BY <1>1, QueueWalk, EdfNext
  <2>. QED BY <1>1, <1>2, <2>1 DEF ChoiceInv, Live
<1>9. LiveBelow' = LiveBelow BY <1>1 DEF LiveBelow
<1>10. Running' = Running /\ (DistinctRuns => DistinctRuns')
  BY <1>1, <1>9 DEF Running, DistinctRuns
<1>11. again' = "never" => again = "never" /\ task' \notin Running BY <1>1
<1>12. NestInv /\ task' \notin Running => NestInv'
  BY <1>1, <1>2, <1>10 DEF NestInv, Live
<1>13. TaskInv' BY <1>1, <1>3, <1>10 DEF TaskInv, Live, Items
<1>. QED BY <1>2, <1>4, <1>5, <1>6, <1>7, <1>8, <1>11, <1>12, <1>13

LEMMA CompleteStep ==
  ASSUME SchedInv, schedule_task_complete
  PROVE  SchedInv'
<1>. USE DEF SchedInv
<1>1. /\ l3 = "complete" /\ list_item_del(task) /\ l3' = "task_clear"
      /\ state' = [state EXCEPT ![task] = "COMPLETED"]
      /\ again' = IF state[task] = "QUEUED" THEN again ELSE "completed"
      /\ UNCHANGED <<deadline, timer, pending, irq_high_task, task, open, below>>
      /\ (Interruptible => pending = {})
  BY DEF schedule_task_complete, At
<1>2. "TASK_HIGH" \notin pending BY <1>1 DEF PromptInv
<1>3. Queued \in SUBSET Tasks /\ state \in [Tasks -> {"INIT", "QUEUED", "COMPLETED"}]
  BY DEF Queued, TypeOK
<1>4. Queued' = Queued \ {task} BY <1>1, <1>3 DEF Queued
<1>5. Deleted(next, prev, task, next', prev') /\ Pointers(next, prev, Tasks, List)
  BY <1>1, TaskCount DEF list_item_del, Deleted, Pointers, TypeOK, Items
<1>6. TypeOK'
  <2>1. next' \in [Items -> Items] /\ prev' \in [Items -> Items]
    BY <1>1 DEF list_item_del, TypeOK
  <2>. QED BY <1>1, <2>1 DEF TypeOK, L3
<1>7. StackInv' /\ PromptInv' BY <1>1, <1>2 DEF StackInv, PromptInv
<1>8. LiveBelow' = LiveBelow BY <1>1 DEF LiveBelow
<1>9. Running' = Running /\ (DistinctRuns => DistinctRuns')
  BY <1>1, <1>8 DEF Running, DistinctRuns
<1>10. ASSUME again' # "completed" PROVE QueueInv' /\ ChoiceInv'
  <2>1. again' = again /\ state[task] = "QUEUED" BY <1>1, <1>10
  <2>2. QueueInv BY <1>10, <2>1
  <2>3. task \in Queued BY <1>1, <2>1 DEF TaskInv, Live, Queued
  <2>4. PICK r \in [Tasks -> Nat], t \in Nat : Linked(next, prev, List, Queued, r, t)
    BY <2>2 DEF QueueInv
  <2>5. Loose(next, prev, List, Queued, r, t)
    BY <1>5, <2>4, TaskCount, LinkedIsLoose
  <2>6. Linked(next', prev', List, Queued \ {task}, r, t)
    BY <1>3, <1>5, <2>3, <2>4, <2>5, DelLinked
  <2>7. QueueInv' BY <1>4, <2>6 DEF QueueInv
  <2>. QED BY <1>1, <1>2, <2>7 DEF ChoiceInv, Live
<1>11. ASSUME again' = "never" PROVE NestInv'
  <2>1. NestInv BY <1>1, <1>11
  <2>. QED BY <1>1, <1>2, <1>4, <1>9, <2>1 DEF NestInv, Live
<1>12. TaskInv' BY <1>1, <1>9 DEF TaskInv, Live
<1>. QED BY <1>6, <1>7, <1>10, <1>11, <1>12

LEMMA DmaStep ==
  ASSUME ~Overrun, SchedInv, NEW x \in Tasks, DaiDma(x)
  PROVE  SchedInv'
<1>. USE DEF SchedInv
<1>1. /\ state[x] # "QUEUED" /\ list_item_prepend(x)
      /\ deadline' = [deadline EXCEPT ![x] = (timer + SchedTicks) % Wrap]
      /\ state' = [state EXCEPT ![x] = "QUEUED"]
      /\ pending' = pending \cup {"SCHEDULE"}
      /\ UNCHANGED <<timer, irq_high_task, l3, task, open, below, again>>
  BY DEF DaiDma, schedule_task, schedule, cpuVars
<1>2. /\ Queued \in SUBSET Tasks /\ x \notin Queued
      /\ state \in [Tasks -> {"INIT", "QUEUED", "COMPLETED"}]
  BY <1>1 DEF Queued, TypeOK
<1>3. Queued' = Queued \cup {x} BY <1>1, <1>2 DEF Queued
<1>4. Prepended(next, prev, List, x, next', prev') /\ Pointers(next, prev, Tasks, List)
  BY <1>1, TaskCount DEF list_item_prepend, Prepended, Pointers, TypeOK, Items
<1>5. QueueInv => QueueInv'
  <2>. SUFFICES ASSUME QueueInv PROVE QueueInv' OBVIOUS
  <2>1. PICK r \in [Tasks -> Nat], t \in Nat : Linked(next, prev, List, Queued, r, t)
    BY DEF QueueInv
  <2>. DEFINE s == Raised(r, x, t)
  <2>2. Ordered(next, List, Queued, r, t) /\ Ranking(r, Tasks)
    BY <2>1 DEF Linked, Ranking
  <2>3. Ranking(s, Tasks) /\ Linked(next', prev', List, Queued \cup {x}, s, t + 1)
    BY <1>2, <1>4, <2>1, <2>2, TaskCount, PrependLinked
  <2>. HIDE DEF s
  <2>. QED BY <1>3, <2>1, <2>3 DEF QueueInv, Ranking, Linked, Ordered
<1>6. next' \in [Items -> Items] /\ prev' \in [Items -> Items]
  BY <1>1 DEF list_item_prepend, TypeOK, Items
<1>7. deadline' \in [Tasks -> Time]
  <2>1. (timer + SchedTicks) % Wrap \in Time
    BY SchedulerConstants DEF TypeOK, Time, MAX_INT
  <2>. QED BY <1>1, <2>1 DEF TypeOK
<1>8. TypeOK' BY <1>1, <1>6, <1>7 DEF TypeOK, Irqs
<1>9. StackInv' /\ PromptInv' BY <1>1 DEF StackInv, PromptInv, Interruptible
<1>10. ChoiceInv => ChoiceInv' BY <1>1, <1>3 DEF ChoiceInv
<1>11. LiveBelow' = LiveBelow BY <1>1 DEF LiveBelow
<1>12. Running' = Running /\ (DistinctRuns => DistinctRuns')
  BY <1>1, <1>11 DEF Running, DistinctRuns
<1>13. NestInv => NestInv' BY <1>1, <1>3, <1>12 DEF NestInv
<1>14. TaskInv' BY <1>1, <1>12 DEF TaskInv
<1>. QED BY <1>1, <1>5, <1>8, <1>9, <1>10, <1>13, <1>14

LEMMA TickStep ==
  ASSUME SchedInv, UNCHANGED <<next, prev, state, deadline, pending, irq_high_task,
                               l3, task, open, below, again>>, timer' \in Time
  PROVE  SchedInv'
<1>. USE DEF SchedInv
<1>1. (QueueInv => QueueInv') /\ Queued' = Queued BY QueueKept
<1>2. TypeOK' BY DEF TypeOK
<1>3. StackInv' /\ PromptInv' BY DEF StackInv, PromptInv, Interruptible
<1>4. LiveBelow' = LiveBelow BY DEF LiveBelow
<1>5. Running' = Running /\ (DistinctRuns => DistinctRuns')
  BY <1>4 DEF Running, DistinctRuns
<1>6. TaskInv' BY <1>5 DEF TaskInv
<1>7. (ChoiceInv => ChoiceInv') /\ (NestInv => NestInv')
  BY <1>1, <1>5 DEF ChoiceInv, NestInv
<1>. QED BY <1>1, <1>2, <1>3, <1>6, <1>7

LEMMA SchedNext ==
  ASSUME ~Overrun
  PROVE  SchedInv /\ [Next]_vars => SchedInv'
<1>. SUFFICES ASSUME SchedInv, [Next]_vars PROVE SchedInv' OBVIOUS
<1>1. CASE DispatchTask
  <2>1. irq_high_task \in Items BY DEF SchedInv, TypeOK
  <2>. QED BY <1>1, <2>1, DispatchStep DEF DispatchTask, Irqs
<1>2. CASE DispatchSchedule
  <2>1. List \in Items BY DEF Items
  <2>. QED BY <1>2, <2>1, DispatchStep DEF DispatchSchedule, Irqs
<1>3. CASE EdfClear \/ TaskClear BY <1>3, ReturnStep
<1>4. CASE HostWait \/ RunTask BY <1>4, RunStep
<1>5. CASE EdfRun BY <1>5, EdfStep
<1>6. CASE schedule_task_complete BY <1>6, CompleteStep
<1>7. CASE \E t \in Tasks : DaiDma(t) BY <1>7, DmaStep
<1>8. CASE Tick
  <2>1. timer' \in Time
    BY <1>8, SchedulerConstants DEF Tick, SchedInv, TypeOK, Time, MAX_INT
  <2>. QED BY <1>8, <2>1, TickStep DEF Tick, cpuVars
<1>9. CASE UNCHANGED vars
  <2>1. timer' \in Time BY <1>9 DEF vars, SchedInv, TypeOK
  <2>. QED BY <1>9, <2>1, TickStep DEF vars, cpuVars
<1>. QED
  BY <1>1, <1>2, <1>3, <1>4, <1>5, <1>6, <1>7, <1>8, <1>9 DEF Next, Level3

-----------------------------------------------------------------------------
(* Theorems *)

\* The inductive invariant.
THEOREM SchedInvariant ==
  ASSUME ~Overrun
  PROVE  Spec => []SchedInv
<1>1. SchedInv /\ [Next]_vars => SchedInv' BY ~Overrun, SchedNext
<1>. QED BY <1>1, SchedInit, PTL DEF Spec

\* Types: every pointer of the queue leads to a task or the list head, even when
\* the list has been spoilt.
THEOREM TypeCorrect ==
  ASSUME ~Overrun
  PROVE  Spec => []TypeOK
<1>1. SchedInv => TypeOK BY DEF SchedInv
<1>. QED BY <1>1, SchedInvariant, PTL

\* However many tasks are scheduled, run and completed in whatever order, however
\* deep their runs interrupt each other, the list holds exactly the queued tasks,
\* once each, and can be walked both ways, until a task that is not queued any
\* more is completed.
THEOREM QueueIsWellFormed ==
  ASSUME ~Overrun
  PROVE  Spec => []QueueWellFormed
<1>1. SchedInv => QueueWellFormed BY QueueHolds DEF SchedInv, QueueWellFormed
<1>. QED BY <1>1, SchedInvariant, PTL

\* _irq_high() only starts tasks that are queued, although the choice was made in
\* an earlier interrupt; and as long as no running task is picked, every run that
\* others have interrupted still has its own task to complete.
THEOREM QueuedTaskRuns ==
  ASSUME ~Overrun
  PROVE  Spec => []RunsQueuedTask
<1>1. SchedInv => RunsQueuedTask
  BY DEF SchedInv, TypeOK, ChoiceInv, NestInv, RunsQueuedTask, Live
<1>. QED BY <1>1, SchedInvariant, PTL

\* The delta of a task, and the ticks left to its deadline: one is lost when the
\* deadline lies behind the wrap of the timer.
LEMMA DeltaFacts ==
  ASSUME TypeOK, NEW t \in Tasks
  PROVE  /\ Delta(t) \in Nat /\ Remaining(t) \in 0 .. MAX_INT
         /\ Delta(t) <= Remaining(t) /\ Remaining(t) <= Delta(t) + 1
<1>1. timer \in 0 .. Wrap - 1 /\ deadline[t] \in 0 .. Wrap - 1 /\ Wrap \in Nat \ {0}
  BY SchedulerConstants DEF TypeOK, Time, MAX_INT
<1>2. Remaining(t) = IF timer <= deadline[t] THEN deadline[t] - timer
                     ELSE deadline[t] - timer + Wrap
  BY <1>1, WrapDiff DEF Remaining
<1>3. Delta(t) = IF deadline[t] < timer THEN Wrap - 1 - timer + deadline[t]
                 ELSE deadline[t] - timer
  BY DEF Delta, schedule_time_diff, MAX_INT
<1>. QED BY <1>1, <1>2, <1>3 DEF MAX_INT

\* schedule_edf() picks the task whose deadline comes first, to within the tick
\* that schedule_time_diff() loses, for any number of tasks and any timer.
THEOREM EarliestIsPicked ==
  ASSUME ~Overrun
  PROVE  Spec => PicksEarliest
<1>1. SchedInv /\ [Next]_vars =>
        [EdfRun /\ again # "completed" => \A t \in Queued :
           \/ task' # List /\ Remaining(task') <= Remaining(t) + 1
           \/ Remaining(t) = MAX_INT]_vars
  <2>. SUFFICES ASSUME SchedInv, EdfRun, again # "completed", NEW t \in Queued, Remaining(t) # MAX_INT
                PROVE  task' # List /\ Remaining(task') <= Remaining(t) + 1
    OBVIOUS
  <2>. DEFINE f == [i \in Rounds |-> Delta(Walk[i])]
              best == {i \in Rounds :
                         /\ Delta(Walk[i]) < MAX_INT
                         /\ \A j \in Rounds : Delta(Walk[i]) <= Delta(Walk[j])}
  <2>1. TypeOK /\ QueueInv BY DEF SchedInv
  <2>2. /\ Ends /\ Length \in Nat /\ Rounds = 0 .. Length - 1 /\ Listed = Queued
        /\ \A i \in Rounds : Walk[i] \in Queued
    BY <2>1, QueueWalk DEF Rounds
  <2>3. Queued \subseteq Tasks /\ List \notin Tasks BY TaskCount DEF Queued
  <2>4. \A x \in Queued : /\ Delta(x) \in Nat /\ Remaining(x) \in 0 .. MAX_INT
                          /\ Delta(x) <= Remaining(x) /\ Remaining(x) <= Delta(x) + 1
    BY <2>1, <2>3, DeltaFacts
  <2>5. task' = IF best = {} THEN List ELSE Walk[First(best)]
    BY <2>2 DEF EdfRun, edf_get_next, First
  <2>6. PICK k \in Rounds : Walk[k] = t BY <2>2 DEF Listed
  <2>7. f \in [0 .. Length - 1 -> Nat] /\ MAX_INT \in Nat
    BY <2>2, <2>4, SchedulerConstants DEF MAX_INT
  <2>8. f[k] < MAX_INT BY <2>4, <2>6, <2>7
  <2>9. best = Least(f, Length, MAX_INT) BY <2>2 DEF Least
  <2>10. best # {}
    <3>. HIDE DEF f, best
    <3>. QED BY <2>2, <2>6, <2>7, <2>8, <2>9, LeastExists
  <2>11. best \in SUBSET Nat BY <2>2
  <2>12. First(best) \in best
    <3>. HIDE DEF best
    <3>. QED BY <2>10, <2>11, FirstIn
  <2>13. task' \in Queued /\ Delta(task') <= Delta(t)
    BY <2>2, <2>5, <2>6, <2>10, <2>12
  <2>. QED BY <2>3, <2>4, <2>13
<1>. QED BY <1>1, SchedInvariant, PTL DEF Spec, PicksEarliest
=============================================================================
