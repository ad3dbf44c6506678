--------------------------- MODULE AnalysisProofs ---------------------------
(***************************************************************************)
(* The safety of Analysis for any number of files and messages, and for    *)
(* any times that fit together.                                            *)
(*                                                                         *)
(* That a file has one message at a time is a matter of time: the cron     *)
(* lists a row an hour after its last change, and lists again an hour      *)
(* after that.  So the invariant counts the minutes a message can have     *)
(* been under way, from where it is in its attempts (Spent), and says that *)
(* either the row's clock or the cron's has run no longer than that.       *)
(***************************************************************************)
EXTENDS Analysis, Integers, TLAPS

-----------------------------------------------------------------------------
(* The times.                                                              *)

\* The minutes of back-off before attempt a: retry() adds one per attempt.
Paused(a) == (a * (a - 1)) \div 2

\* The minutes before attempt a of a queue begins; a dead letter is not run.
Begun(q, a) ==
    IF q = "main" THEN (a - 1) * MaxRun + Paused(a)
    ELSE (MaxRetries + 1) * MaxRun + Paused(MaxRetries + 1) + Paused(a)

\* The minutes a message can have been under way.
Spent(r) == Begun(r.q, r.att) - r.delay + r.t

\* An hour outlasts the deliveries of one message: six attempts and their
\* back-off, the dead letter's four and theirs.
HourOutlastsDeliveries ==
    /\ Begun("dead", DeadRetries + 1) < StuckAfter
    /\ Begun("dead", DeadRetries + 1) < CronEvery

-----------------------------------------------------------------------------
(* The inductive invariant.                                                *)

\* A slot is empty, or holds a message about a file, within its queue's attempts.
SlotOK(r) ==
    /\ r.q = "none" => r = NoMsg
    /\ r.q # "none" => r.file \in Files
    /\ r.q = "dead" => r.att =< DeadRetries + 1 /\ r.t = 0 /\ r.pc # "run"

Typed == TypeOK /\ \A m \in Msgs : SlotOK(msg[m])

\* What is listed, is about to be sent, has no message; the cron has just run.
ListedHasNone ==
    \A f \in listed : /\ state[f] # "uploading"
                      /\ \A m \in Msgs : ~Free(m) => msg[m].file # f
CronHasRun == listed # {} => cronIn = CronEvery

\* A message is about a file that has been finalized.
SentForFinalized == \A m \in Msgs : ~Free(m) => state[msg[m].file] # "uploading"

\* One of the two clocks started no earlier than the message.
ClocksKeepUp ==
    \A m \in Msgs : ~Free(m) =>
        /\ Spent(msg[m]) >= 0
        /\ \/ age[msg[m].file] =< Spent(msg[m])
           \/ CronEvery - cronIn =< Spent(msg[m])

\* OneMessagePerFile, while there is no surplus message.
Apart == \A m, n \in Msgs : ~Free(m) /\ ~Free(n) /\ msg[m].file = msg[n].file => m = n

\* What holds until a surplus message is put in play.
Lone == ListedHasNone /\ SentForFinalized /\ ClocksKeepUp /\ Apart

AInv == Typed /\ CronHasRun /\ (extra = 0 => Lone)

-----------------------------------------------------------------------------
(* Arithmetic of the times.                                                *)

\* One attempt more is one minute more per attempt.
LEMMA PausedStep ==
    ASSUME NEW a \in Nat \ {0}
    PROVE  /\ Paused(a + 1) = Paused(a) + a
           /\ Paused(a) \in Int
<1> DEFINE x == a * (a - 1)
<1>1. x \in Int /\ (a + 1) * ((a + 1) - 1) = x + 2 * a
  OBVIOUS
<1> HIDE DEF x
<1>2. (x + 2 * a) \div 2 = (x \div 2) + a /\ x \div 2 \in Int
  BY <1>1
<1>3. QED
  BY <1>1, <1>2 DEF Paused, x

\* The same for the attempts of a queue.
LEMMA BegunStep ==
    ASSUME NEW q \in {"main", "dead"}, NEW a \in Nat \ {0}
    PROVE  /\ Begun(q, a) \in Int
           /\ Begun("main", a + 1) = Begun("main", a) + MaxRun + a
           /\ Begun("dead", a + 1) = Begun("dead", a) + a
<1>0. MaxRun \in Nat /\ MaxRetries \in Nat
  BY AnalysisAssumption
<1>1. ((a + 1) - 1) * MaxRun = (a - 1) * MaxRun + MaxRun
  BY <1>0
<1>2. (a - 1) * MaxRun \in Int /\ (MaxRetries + 1) * MaxRun \in Int
  BY <1>0
<1>3. /\ Paused(a + 1) = Paused(a) + a
      /\ Paused(a) \in Int
      /\ Paused(MaxRetries + 1) \in Int
  BY <1>0, PausedStep
<1> DEFINE P == Paused(a)
           R == (a - 1) * MaxRun
           D == (MaxRetries + 1) * MaxRun
           E == Paused(MaxRetries + 1)
<1>4. /\ Begun("main", a) = R + P
      /\ Begun("main", a + 1) = R + MaxRun + (P + a)
      /\ Begun("dead", a) = D + E + P
      /\ Begun("dead", a + 1) = D + E + (P + a)
  BY <1>1, <1>3 DEF Begun
<1>5. P \in Int /\ R \in Int /\ D \in Int /\ E \in Int
  BY <1>2, <1>3
<1> HIDE DEF P, R, D, E
<1>6. QED
  BY <1>0, <1>4, <1>5

\* However its attempts go, a message is under way no longer than all of them.
LEMMA SpentBound ==
    ASSUME NEW r \in Messages, SlotOK(r), r.q # "none"
    PROVE  Spent(r) \in Int /\ Spent(r) =< Begun("dead", DeadRetries + 1)
<1>0. /\ MaxRun \in Nat /\ MaxRetries \in Nat /\ DeadRetries \in Nat
      /\ DeadRetries =< MaxRetries
  BY AnalysisAssumption
<1>1. /\ r.q \in {"main", "dead"} /\ r.att \in 1..(MaxRetries + 1)
      /\ r.delay \in Nat /\ r.t \in 0..MaxRun
  BY <1>0, AnalysisAssumption DEF Messages, Queues
<1> DEFINE a == r.att
<1>2. ASSUME NEW b \in Nat \ {0}, NEW c \in Nat, c \in 1..b
      PROVE  Paused(c) =< Paused(b) /\ Paused(c) >= 0 /\ Paused(b) \in Int /\ Paused(c) \in Int
  <2>1. c * (c - 1) \in Nat /\ b * (b - 1) \in Nat /\ c * (c - 1) =< b * (b - 1)
    <3>1. b * (b - 1) - c * (c - 1) = (b - c) * (b + c - 1)
      BY <1>2
    <3>2. (b - c) * (b + c - 1) >= 0 /\ c * (c - 1) >= 0
      BY <1>2
    <3>3. QED
      BY <3>1, <3>2, <1>2
  <2> DEFINE x == c * (c - 1)
             y == b * (b - 1)
  <2>2. x \div 2 =< y \div 2 /\ x \div 2 >= 0 /\ y \div 2 \in Int /\ x \div 2 \in Int
    <3> HIDE DEF x, y
    <3>1. x \in Nat /\ y \in Nat /\ x =< y
      BY <2>1 DEF x, y
    <3>2. QED
      BY <3>1
  <2>3. QED
    BY <2>2 DEF Paused
<1>3. CASE r.q = "dead"
  <2>1. a \in 1..(DeadRetries + 1)
    BY <1>0, <1>1, <1>3 DEF SlotOK
  <2>2. /\ Paused(a) =< Paused(DeadRetries + 1)
        /\ Paused(a) \in Int /\ Paused(DeadRetries + 1) \in Int
    BY <1>0, <1>2, <2>1
  <2>3. (MaxRetries + 1) * MaxRun \in Int /\ Paused(MaxRetries + 1) \in Int
    BY <1>0, <1>2
  <2>4. r.t = 0
    BY <1>3 DEF SlotOK
  <2> DEFINE D == (MaxRetries + 1) * MaxRun
  <2>5. /\ Begun("dead", a) = D + Paused(MaxRetries + 1) + Paused(a)
        /\ Begun("dead", DeadRetries + 1)
             = D + Paused(MaxRetries + 1) + Paused(DeadRetries + 1)
    BY DEF Begun
  <2> HIDE DEF D
  <2>6. QED
    BY <1>1, <1>3, <2>2, <2>3, <2>4, <2>5 DEF Spent, D
<1>4. CASE r.q = "main"
  <2>1. /\ Paused(a) =< Paused(MaxRetries + 1) /\ Paused(a) \in Int
        /\ Paused(MaxRetries + 1) \in Int
        /\ Paused(DeadRetries + 1) \in Int /\ Paused(DeadRetries + 1) >= 0
    BY <1>0, <1>1, <1>2
  <2>2. (a - 1) * MaxRun + MaxRun =< (MaxRetries + 1) * MaxRun
    <3>1. (MaxRetries + 1) * MaxRun - ((a - 1) * MaxRun + MaxRun)
             = (MaxRetries + 1 - a) * MaxRun
      BY <1>0, <1>1
    <3>2. (MaxRetries + 1 - a) * MaxRun >= 0
      BY <1>0, <1>1
    <3>3. QED
      BY <1>0, <1>1, <3>1, <3>2
  <2> DEFINE R == (a - 1) * MaxRun
             D == (MaxRetries + 1) * MaxRun
  <2>3. /\ Begun("main", a) = R + Paused(a)
        /\ Begun("dead", DeadRetries + 1)
             = D + Paused(MaxRetries + 1) + Paused(DeadRetries + 1)
        /\ R \in Int /\ D \in Int
    BY <1>0, <1>1 DEF Begun
  <2>4. R + MaxRun =< D
    BY <2>2
  <2> HIDE DEF R, D
  <2>5. QED
    BY <1>0, <1>1, <1>4, <2>1, <2>3, <2>4 DEF Spent
<1>5. QED
  BY <1>1, <1>3, <1>4

-----------------------------------------------------------------------------
(* What happens to a message.                                              *)

\* A new message has all its time before it.
LEMMA FreshMessage ==
    ASSUME NEW f \in Files
    PROVE  /\ Fresh(f) \in Messages /\ SlotOK(Fresh(f))
           /\ Fresh(f).q = "main" /\ Fresh(f).file = f
           /\ Spent(Fresh(f)) = 0
<1>0. {MaxRun, MaxRetries, StuckAfter} \subseteq Nat
  BY AnalysisAssumption
<1>1. Fresh(f) = [q |-> "main", file |-> f, att |-> 1, delay |-> 0, pc |-> "wait", t |-> 0]
  BY DEF Fresh, Waiting
<1>2. Begun("main", 1) = 0
  BY <1>0 DEF Begun, Paused
<1>3. QED
  BY <1>0, <1>1, <1>2 DEF Messages, Queues, Pcs, SlotOK, Spent

\* An empty slot is well formed.
LEMMA EmptySlot == NoMsg \in Messages /\ SlotOK(NoMsg) /\ NoMsg.q = "none"
BY AnalysisAssumption DEF NoMsg, Waiting, Messages, Queues, Pcs, SlotOK

\* A delivery that was not acked comes again, having spent what it spent.
LEMMA AgainEffect ==
    ASSUME NEW r \in Messages, SlotOK(r), r.q # "none",
           NEW delay \in 0..MaxDelay, delay =< r.att
    PROVE  LET n == Again(r, delay) IN
           /\ n \in Messages /\ SlotOK(n)
           /\ n.q # "none" => n.file = r.file /\ Spent(n) >= Spent(r)
<1>0. /\ {MaxRun, MaxRetries, DeadRetries, StuckAfter, MaxDelay} \subseteq Nat
      /\ MaxDelay =< StuckAfter /\ DeadRetries =< MaxRetries
  BY AnalysisAssumption
<1>1. /\ r.q \in {"main", "dead"} /\ r.att \in 1..(MaxRetries + 1)
      /\ r.delay \in Nat /\ r.t \in 0..MaxRun /\ r.file \in Files
  BY <1>0 DEF Messages, Queues, SlotOK
<1> DEFINE last == IF r.q = "main" THEN MaxRetries + 1 ELSE DeadRetries + 1
           n == Again(r, delay)
<1>2. CASE r.att < last
  <2>1. n = [q |-> r.q, file |-> r.file, att |-> r.att + 1, delay |-> delay,
             pc |-> "wait", t |-> 0]
    BY <1>2 DEF Again, Waiting
  <2>2. /\ n \in Messages /\ SlotOK(n) /\ n.file = r.file
        /\ n.q = r.q /\ n.att = r.att + 1 /\ n.delay = delay /\ n.t = 0
    <3> HIDE DEF n
    <3>1. r.att + 1 \in 1..(MaxRetries + 1)
      BY <1>0, <1>1, <1>2
    <3>2. n \in Messages
      BY <1>0, <1>1, <2>1, <3>1 DEF Messages, Queues, Pcs
    <3>3. SlotOK(n)
      BY <1>0, <1>1, <1>2, <2>1 DEF SlotOK
    <3>4. QED
      BY <2>1, <3>2, <3>3
  <2>3. /\ Begun(r.q, r.att) \in Int /\ Begun(n.q, n.att) \in Int
        /\ r.q = "main" => Begun(n.q, n.att) = Begun(r.q, r.att) + MaxRun + r.att
        /\ r.q = "dead" => Begun(n.q, n.att) = Begun(r.q, r.att) + r.att
    BY <1>0, <1>1, <2>2, BegunStep
  <2>4. r.q = "dead" => r.t = 0
    BY DEF SlotOK
  <2>5. Spent(n) >= Spent(r)
    BY <1>0, <1>1, <2>2, <2>3, <2>4 DEF Spent
  <2>6. QED
    BY <2>2, <2>5
<1>3. CASE ~(r.att < last) /\ r.q = "main"
  <2>1. n = [q |-> "dead", file |-> r.file, att |-> 1, delay |-> 0, pc |-> "wait", t |-> 0]
    BY <1>3 DEF Again, Waiting
  <2>2. n \in Messages /\ SlotOK(n)
    BY <1>0, <1>1, <2>1 DEF Messages, Queues, Pcs, SlotOK
  <2>3. r.att = MaxRetries + 1
    BY <1>0, <1>1, <1>3
  <2> DEFINE R == MaxRetries * MaxRun
             P == Paused(MaxRetries + 1)
  <2>4. /\ Begun("main", r.att) = R + P
        /\ Begun("dead", 1) = R + MaxRun + P
        /\ R \in Int /\ P \in Int
    <3>1. (MaxRetries + 1) * MaxRun = R + MaxRun /\ R \in Int
      BY <1>0
    <3>2. Paused(1) = 0 /\ P \in Int
      BY <1>0, PausedStep DEF Paused
    <3>3. (MaxRetries + 1) - 1 = MaxRetries
      BY <1>0
    <3>4. QED
      BY <1>0, <2>3, <3>1, <3>2, <3>3 DEF Begun
  <2> HIDE DEF R, P
  <2>5. Spent(n) >= Spent(r)
    BY <1>0, <1>1, <1>3, <2>1, <2>4 DEF Spent
  <2>6. QED
    BY <2>1, <2>2, <2>5
<1>4. CASE ~(r.att < last) /\ r.q # "main"
  BY <1>4, EmptySlot DEF Again
<1>5. QED
  BY <1>2, <1>3, <1>4

\* retry() waits no longer than its cap, nor than a minute per attempt.
LEMMA RetryDelayBounds ==
    ASSUME NEW a \in Nat
    PROVE  RetryDelay(a) \in 0..MaxDelay /\ RetryDelay(a) =< a
BY AnalysisAssumption DEF RetryDelay

-----------------------------------------------------------------------------
(* What a delivery does, whichever of its steps it is.                     *)

\* The message goes on, comes again having spent no less, or is gone.
MsgStep(m) ==
    \E r \in Messages :
        /\ msg' = [msg EXCEPT ![m] = r]
        /\ SlotOK(r)
        /\ r.q # "none" => r.file = msg[m].file /\ Spent(r) >= Spent(msg[m])

\* The row stays, or makes a move of the consumer's.
RowStep(f) ==
    \/ UNCHANGED <<state, age>>
    \/ \E to \in {"analysing", "stored", "failed"} : SetState(f, FS!AnalysisMoves, to)

Delivered(m) ==
    /\ ~Free(m)
    /\ MsgStep(m)
    /\ RowStep(msg[m].file)
    /\ faults' \in 0..MaxFaults
    /\ UNCHANGED <<listed, cronIn, extra>>

\* Of a message in its slot.
LEMMA SlotFacts ==
    ASSUME Typed, NEW m \in Msgs
    PROVE  /\ msg[m] \in Messages /\ SlotOK(msg[m])
           /\ ~Free(m) => msg[m].q # "none" /\ msg[m].file \in Files
BY DEF Typed, TypeOK, SlotOK, Free

\* Queues delivers it again.
LEMMA RetryIsMsgStep ==
    ASSUME Typed, NEW m \in Msgs, ~Free(m),
           NEW delay \in 0..MaxDelay, delay =< msg[m].att,
           msg' = [msg EXCEPT ![m] = Again(msg[m], delay)]
    PROVE  MsgStep(m)
<1>1. msg[m] \in Messages /\ SlotOK(msg[m]) /\ msg[m].q # "none"
  BY SlotFacts
<1> DEFINE r == Again(msg[m], delay)
<1>2. /\ r \in Messages /\ SlotOK(r)
      /\ r.q # "none" => r.file = msg[m].file /\ Spent(r) >= Spent(msg[m])
  BY <1>1, AgainEffect
<1> HIDE DEF r
<1>3. QED
  BY <1>2 DEF MsgStep, r

\* The handler asks for that with retry(), an invocation that dies gets it.
LEMMA RetryOrDie ==
    ASSUME Typed, NEW m \in Msgs, ~Free(m),
           Retry(m) \/ msg' = [msg EXCEPT ![m] = Again(@, 0)]
    PROVE  MsgStep(m)
<1>1. msg[m].att \in Nat /\ MaxDelay \in Nat
  BY SlotFacts, AnalysisAssumption DEF Messages
<1>2. CASE Retry(m)
  <2>1. RetryDelay(msg[m].att) \in 0..MaxDelay /\ RetryDelay(msg[m].att) =< msg[m].att
    BY <1>1, RetryDelayBounds
  <2>2. msg' = [msg EXCEPT ![m] = Again(msg[m], RetryDelay(msg[m].att))]
    BY <1>2 DEF Retry
  <2>3. QED
    BY <1>1, <2>1, <2>2, RetryIsMsgStep
<1>3. CASE msg' = [msg EXCEPT ![m] = Again(@, 0)]
  <2>1. msg' = [msg EXCEPT ![m] = Again(msg[m], 0)]
    BY <1>3
  <2>2. 0 \in 0..MaxDelay /\ 0 =< msg[m].att
    BY <1>1
  <2>3. QED
    BY <2>1, <2>2, RetryIsMsgStep
<1>4. QED
  BY <1>2, <1>3

\* It goes on to the handler's next await, or is acked.
LEMMA GotoOrAck ==
    ASSUME Typed, NEW m \in Msgs, ~Free(m), NEW pc \in Pcs, pc = "run" => Live(m),
           Goto(m, pc) \/ Ack(m)
    PROVE  MsgStep(m)
<1>0. {MaxRun, MaxRetries, StuckAfter} \subseteq Nat
  BY AnalysisAssumption
<1>1. msg[m] \in Messages /\ SlotOK(msg[m]) /\ msg[m].q # "none"
  BY SlotFacts
<1>2. CASE Goto(m, pc)
  <2> DEFINE r == [msg[m] EXCEPT !.pc = pc]
  <2>1. /\ r \in Messages /\ r.q = msg[m].q /\ r.file = msg[m].file
        /\ r.att = msg[m].att /\ r.delay = msg[m].delay /\ r.t = msg[m].t /\ r.pc = pc
    BY <1>1 DEF Messages
  <2>2. SlotOK(r)
    BY <1>1, <2>1 DEF SlotOK, Live
  <2>3. Spent(r) = Spent(msg[m])
    BY <2>1 DEF Spent
  <2>4. Spent(r) >= Spent(msg[m])
    <3>1. Spent(msg[m]) \in Int
      BY <1>1, SpentBound
    <3> HIDE DEF r
    <3>2. QED
      BY <2>3, <3>1
  <2>5. msg' = [msg EXCEPT ![m] = r]
    BY <1>2 DEF Goto
  <2> HIDE DEF r
  <2>6. QED
    BY <2>1, <2>2, <2>4, <2>5 DEF MsgStep
<1>3. CASE Ack(m)
  BY <1>3, EmptySlot DEF Ack, MsgStep
<1>4. QED
  BY <1>2, <1>3

\* Each database function's moves are moves of the consumer's.
LEMMA ConsumerMoves ==
    ASSUME NEW f, NEW moves,
           NEW to \in {"analysing", "stored", "failed"},
           moves \in {FS!AnalysisBeginMoves, FS!PersistMoves, FS!AnalysisFailMoves},
           SetState(f, moves, to)
    PROVE  RowStep(f)
BY DEF RowStep, SetState, FS!AnalysisMoves

\* A call that throws leaves the row, or has moved it, and is retried.
LEMMA ThrowEffect ==
    ASSUME Typed, NEW m \in Msgs, ~Free(m), NEW moves,
           NEW to \in {"analysing", "stored", "failed"},
           moves \in {FS!AnalysisBeginMoves, FS!PersistMoves, FS!AnalysisFailMoves},
           Throws(m, msg[m].file, moves, to)
    PROVE  MsgStep(m) /\ RowStep(msg[m].file) /\ faults' \in 0..MaxFaults
<1>1. MsgStep(m)
  BY RetryOrDie DEF Throws
<1>2. RowStep(msg[m].file)
  BY ConsumerMoves DEF Throws, RowStep
<1>3. faults' \in 0..MaxFaults
  BY AnalysisAssumption DEF Typed, TypeOK, Throws, Fault
<1>4. QED
  BY <1>1, <1>2, <1>3

\* Every step of handleMessage and of handleDeadLetter is a Delivered step.
LEMMA HandlerDelivers ==
    ASSUME Typed, NEW m \in Msgs, Deliver(m) \/ Crash(m)
    PROVE  Delivered(m)
<1>0. /\ faults \in 0..MaxFaults /\ MaxFaults \in Nat
      /\ NoFault => faults' \in 0..MaxFaults
      /\ Fault => faults' \in 0..MaxFaults
  BY AnalysisAssumption DEF Typed, TypeOK, NoFault, Fault
<1> DEFINE f == msg[m].file
<1>1. UNCHANGED <<state, age>> => RowStep(f)
  BY DEF RowStep
<1>2. {"claim", "run", "persist", "fail"} \subseteq Pcs
  BY DEF Pcs
<1>3. CASE BeginRead(m)
  <2>1. ~Free(m) /\ UNCHANGED <<state, age, listed, cronIn, extra>>
    BY <1>3 DEF BeginRead, Due, At, Live, Free
  <2>2. \/ NoFault /\ (Retry(m) \/ Goto(m, "claim") \/ Ack(m))
        \/ Fault /\ Retry(m)
    BY <1>3 DEF BeginRead
  <2>3. MsgStep(m)
    BY <1>2, <2>1, <2>2, RetryOrDie, GotoOrAck
  <2>4. QED
    BY <1>0, <1>1, <2>1, <2>2, <2>3 DEF Delivered
<1>4. CASE Claim(m)
  <2>1. ~Free(m) /\ Live(m) /\ UNCHANGED <<listed, cronIn, extra>>
    BY <1>4 DEF Claim, At, Live, Free
  <2>2. \/ SetState(f, FS!AnalysisBeginMoves, "analysing") /\ NoFault /\ Goto(m, "run")
        \/ NoFault /\ Retry(m) /\ UNCHANGED <<state, age>>
        \/ Throws(m, f, FS!AnalysisBeginMoves, "analysing")
    BY <1>4 DEF Claim
  <2>3. MsgStep(m) /\ RowStep(f) /\ faults' \in 0..MaxFaults
    BY <1>0, <1>1, <1>2, <2>1, <2>2, RetryOrDie, GotoOrAck, ConsumerMoves, ThrowEffect
  <2>4. QED
    BY <2>1, <2>3 DEF Delivered
<1>5. CASE Analyse(m)
  <2>1. ~Free(m) /\ UNCHANGED <<state, age, listed, cronIn, extra>>
    BY <1>5 DEF Analyse, At, Live, Free
  <2>2. \/ NoFault /\ (Retry(m) \/ Goto(m, "persist") \/ Goto(m, "fail"))
        \/ Fault /\ Retry(m)
    BY <1>5 DEF Analyse
  <2>3. MsgStep(m)
    BY <1>2, <2>1, <2>2, RetryOrDie, GotoOrAck
  <2>4. QED
    BY <1>0, <1>1, <2>1, <2>2, <2>3 DEF Delivered
<1>6. CASE Persist(m)
  <2>1. ~Free(m) /\ UNCHANGED <<listed, cronIn, extra>>
    BY <1>6 DEF Persist, At, Live, Free
  <2>2. \/ SetState(f, FS!PersistMoves, "stored") /\ NoFault /\ Ack(m)
        \/ NoFault /\ Retry(m) /\ UNCHANGED <<state, age>>
        \/ Throws(m, f, FS!PersistMoves, "stored")
    BY <1>6 DEF Persist
  <2>3. MsgStep(m) /\ RowStep(f) /\ faults' \in 0..MaxFaults
    BY <1>0, <1>1, <1>2, <2>1, <2>2, RetryOrDie, GotoOrAck, ConsumerMoves, ThrowEffect
  <2>4. QED
    BY <2>1, <2>3 DEF Delivered
<1>7. CASE Fail(m) \/ DeadFail(m)
  <2>1. ~Free(m) /\ UNCHANGED <<listed, cronIn, extra>>
    BY <1>7 DEF Fail, DeadFail, At, Live, Free
  <2>2. \/ SetState(f, FS!AnalysisFailMoves, "failed") /\ NoFault /\ Ack(m)
        \/ NoFault /\ Retry(m) /\ UNCHANGED <<state, age>>
        \/ Throws(m, f, FS!AnalysisFailMoves, "failed")
    BY <1>7 DEF Fail, DeadFail
  <2>3. MsgStep(m) /\ RowStep(f) /\ faults' \in 0..MaxFaults
    BY <1>0, <1>1, <1>2, <2>1, <2>2, RetryOrDie, GotoOrAck, ConsumerMoves, ThrowEffect
  <2>4. QED
    BY <2>1, <2>3 DEF Delivered
<1>8. CASE DeadLook(m)
  <2>1. ~Free(m) /\ UNCHANGED <<state, age, listed, cronIn, extra>>
    BY <1>8 DEF DeadLook, Free
  <2>2. \/ NoFault /\ (Ack(m) \/ Goto(m, "fail"))
        \/ Fault /\ Retry(m)
    BY <1>8 DEF DeadLook
  <2>3. MsgStep(m)
    BY <1>2, <2>1, <2>2, RetryOrDie, GotoOrAck
  <2>4. QED
    BY <1>0, <1>1, <2>1, <2>2, <2>3 DEF Delivered
<1>9. CASE Crash(m)
  <2>1. /\ ~Free(m) /\ Fault /\ UNCHANGED <<state, age, listed, cronIn, extra>>
        /\ msg' = [msg EXCEPT ![m] = Again(@, 0)]
    BY <1>9 DEF Crash
  <2>2. MsgStep(m)
    BY <2>1, RetryOrDie
  <2>3. QED
    BY <1>0, <1>1, <2>1, <2>2 DEF Delivered
<1>10. QED
  BY <1>3, <1>4, <1>5, <1>6, <1>7, <1>8, <1>9 DEF Deliver

-----------------------------------------------------------------------------
(* The types, and the refinement of FileState.                             *)

\* The moves of this module, as moves of FileState's table.
LEMMA RowMoves ==
    ASSUME Typed, NEW f \in Files, NEW to, NEW moves,
           moves \in {FS!FinalizeMoves, FS!AnalysisMoves, FS!RequeueMoves, FS!DeleteMoves},
           SetState(f, moves, to)
    PROVE  /\ to \in FS!States
           /\ state' = [state EXCEPT ![f] = to] /\ age' = [age EXCEPT ![f] = 0]
           /\ state' \in [Files -> FS!States] /\ age' \in [Files -> 0..StuckAfter]
           /\ FS!Next
<1>1. <<state[f], to>> \in FS!Moves
  BY DEF SetState, FS!Moves, FS!AnalysisMoves
<1>2. to \in FS!States
  BY <1>1 DEF FS!Moves, FS!States, FS!BeginMoves, FS!MarkUploadingMoves, FS!FinalizeMoves,
     FS!FailMoves, FS!AbandonMoves, FS!AnalysisMoves, FS!AnalysisBeginMoves,
     FS!PersistMoves, FS!AnalysisFailMoves, FS!RequeueMoves, FS!DeleteMoves, FS!InFlight
<1>3. /\ state' = [state EXCEPT ![f] = to] /\ age' = [age EXCEPT ![f] = 0]
      /\ state \in [Files -> FS!States] /\ age \in [Files -> 0..StuckAfter]
  BY DEF SetState, Typed, TypeOK
<1>4. StuckAfter \in Nat
  BY AnalysisAssumption
<1>5. state' \in [Files -> FS!States] /\ age' \in [Files -> 0..StuckAfter]
  BY <1>2, <1>3, <1>4
<1>6. \A g \in Files : state'[g] = state[g] \/ <<state[g], state'[g]>> \in FS!Moves
  BY <1>1, <1>3
<1>7. QED
  BY <1>2, <1>3, <1>5, <1>6 DEF FS!Next

\* What a delivery's step does to the row it is about.
LEMMA RowStepEffect ==
    ASSUME Typed, NEW f \in Files, RowStep(f)
    PROVE  /\ state' \in [Files -> FS!States] /\ age' \in [Files -> 0..StuckAfter]
           /\ FS!Next \/ state' = state
           /\ \A g \in Files : /\ age'[g] =< age[g]
                               /\ state[g] # "uploading" => state'[g] # "uploading"
<1>0. /\ state \in [Files -> FS!States] /\ age \in [Files -> 0..StuckAfter]
      /\ StuckAfter \in Nat
  BY AnalysisAssumption DEF Typed, TypeOK
<1>1. CASE UNCHANGED <<state, age>>
  BY <1>0, <1>1
<1>2. ASSUME NEW to \in {"analysing", "stored", "failed"},
             SetState(f, FS!AnalysisMoves, to)
      PROVE  /\ state' = [state EXCEPT ![f] = to] /\ age' = [age EXCEPT ![f] = 0]
             /\ state' \in [Files -> FS!States] /\ age' \in [Files -> 0..StuckAfter]
             /\ FS!Next
  BY <1>2, RowMoves
<1>3. ASSUME NEW to \in {"analysing", "stored", "failed"},
             SetState(f, FS!AnalysisMoves, to)
      PROVE  \A g \in Files : /\ age'[g] =< age[g]
                              /\ state[g] # "uploading" => state'[g] # "uploading"
  BY <1>0, <1>2, <1>3
<1>4. QED
  BY <1>1, <1>2, <1>3 DEF RowStep

\* A step that writes one well-formed message leaves all of them well formed.
LEMMA OneWrite ==
    ASSUME Typed, NEW m \in Msgs, NEW r \in Messages, SlotOK(r),
           msg' = [msg EXCEPT ![m] = r]
    PROVE  msg' \in [Msgs -> Messages] /\ \A n \in Msgs : SlotOK(msg'[n])
BY DEF Typed, TypeOK

\* Typed of the next state, from its parts.
LEMMA TypedNext ==
    ASSUME state' \in [Files -> FS!States], age' \in [Files -> 0..StuckAfter],
           msg' \in [Msgs -> Messages], \A m \in Msgs : SlotOK(msg'[m]),
           listed' \subseteq Files, cronIn' \in 0..CronEvery,
           faults' \in 0..MaxFaults, extra' \in 0..MaxExtra
    PROVE  Typed'
BY DEF Typed, TypeOK

\* A delivery keeps the types.
LEMMA DeliveredTyped ==
    ASSUME Typed, NEW m \in Msgs, Delivered(m)
    PROVE  Typed' /\ (FS!Next \/ state' = state)
<1>1. msg[m].file \in Files
  BY SlotFacts DEF Delivered
<1>2. /\ state' \in [Files -> FS!States] /\ age' \in [Files -> 0..StuckAfter]
      /\ FS!Next \/ state' = state
  BY <1>1, RowStepEffect DEF Delivered
<1>3. msg' \in [Msgs -> Messages] /\ \A n \in Msgs : SlotOK(msg'[n])
  BY OneWrite DEF Delivered, MsgStep
<1>4. /\ listed' \subseteq Files /\ cronIn' \in 0..CronEvery
      /\ faults' \in 0..MaxFaults /\ extra' \in 0..MaxExtra
  BY DEF Delivered, Typed, TypeOK
<1>5. QED
  BY <1>2, <1>3, <1>4, TypedNext

\* So does a step that puts a well-formed message in an empty slot.
LEMMA SentTyped ==
    ASSUME Typed, NEW f \in Files,
           \/ UNCHANGED msg
           \/ \E m \in Msgs : msg' = [msg EXCEPT ![m] = Fresh(f)]
    PROVE  msg' \in [Msgs -> Messages] /\ \A n \in Msgs : SlotOK(msg'[n])
BY OneWrite, FreshMessage DEF Typed, TypeOK

\* A second copy of a message, or a message held back, is as well formed.
LEMMA SurplusMessage ==
    ASSUME Typed, NEW m \in Msgs, ~Free(m)
    PROVE  /\ LET r == msg[m]  w == Waiting(r.q, r.file, r.att, r.delay)
              IN  w \in Messages /\ SlotOK(w)
           /\ \A d \in 0..StuckAfter : [msg[m] EXCEPT !.delay = d] \in Messages
                                         /\ SlotOK([msg[m] EXCEPT !.delay = d])
<1>0. {MaxRun, MaxRetries, StuckAfter, DeadRetries} \subseteq Nat
  BY AnalysisAssumption
<1>1. msg[m] \in Messages /\ SlotOK(msg[m]) /\ msg[m].q # "none"
  BY SlotFacts
<1> DEFINE r == msg[m]
           w == Waiting(r.q, r.file, r.att, r.delay)
<1>2. /\ w = [q |-> r.q, file |-> r.file, att |-> r.att, delay |-> r.delay,
              pc |-> "wait", t |-> 0]
  BY DEF Waiting
<1>3. w \in Messages /\ SlotOK(w)
  <2> HIDE DEF w
  <2>1. w \in Messages
    BY <1>0, <1>1, <1>2 DEF Messages, Pcs
  <2>2. SlotOK(w)
    BY <1>0, <1>1, <1>2 DEF SlotOK
  <2>3. QED
    BY <2>1, <2>2
<1>4. ASSUME NEW d \in 0..StuckAfter
      PROVE  [msg[m] EXCEPT !.delay = d] \in Messages
               /\ SlotOK([msg[m] EXCEPT !.delay = d])
  <2> DEFINE x == [msg[m] EXCEPT !.delay = d]
  <2>1. /\ x \in Messages /\ x.q = msg[m].q /\ x.file = msg[m].file
        /\ x.att = msg[m].att /\ x.t = msg[m].t /\ x.pc = msg[m].pc
    BY <1>1 DEF Messages
  <2>2. SlotOK(x)
    BY <1>1, <2>1 DEF SlotOK
  <2>3. QED
    BY <2>1, <2>2
<1>5. QED
  BY <1>3, <1>4

\* A message that a minute goes by for has spent a minute more.
LEMMA ElapseEffect ==
    ASSUME Typed, NEW m \in Msgs, ~Urgent(m)
    PROVE  LET r == msg[m]  n == Elapse(msg[m]) IN
           /\ n \in Messages /\ SlotOK(n) /\ n.q = r.q /\ n.file = r.file
           /\ ~Free(m) => Spent(n) >= Spent(r) + 1
<1>0. {MaxRun, MaxRetries, StuckAfter, DeadRetries} \subseteq Nat
  BY AnalysisAssumption
<1> DEFINE r == msg[m]
           n == Elapse(msg[m])
<1>1. r \in Messages /\ SlotOK(r)
  BY SlotFacts
<1>2. n = [q |-> r.q, file |-> r.file, att |-> r.att, pc |-> r.pc,
           delay |-> IF r.delay > 0 THEN r.delay - 1 ELSE 0,
           t |-> IF r.pc = "run" THEN r.t + 1 ELSE r.t]
  BY DEF Elapse
<1>3. CASE Free(m)
  <2>1. r = [q |-> "none", file |-> NoFile, att |-> 1, delay |-> 0, pc |-> "wait", t |-> 0]
    BY <1>1, <1>3 DEF Free, SlotOK, NoMsg, Waiting
  <2>2. n = [q |-> "none", file |-> NoFile, att |-> 1, pc |-> "wait", delay |-> 0, t |-> 0]
    BY <1>2, <2>1
  <2>3. n = NoMsg
    BY <2>2 DEF NoMsg, Waiting
  <2>4. r = NoMsg
    BY <2>1 DEF NoMsg, Waiting
  <2> HIDE DEF n, r
  <2>5. n \in Messages /\ SlotOK(n) /\ n.q = r.q /\ n.file = r.file
    BY <2>3, <2>4, EmptySlot
  <2>6. QED
    BY <1>3, <2>5 DEF n, r
<1>4. CASE ~Free(m)
  <2>1. \/ r.pc = "run" /\ r.t < MaxRun
        \/ r.pc = "wait" /\ r.delay > 0
    BY <1>0, <1>1, <1>4 DEF Urgent, Messages, Pcs
  <2>2. /\ n.q = r.q /\ n.file = r.file /\ n.att = r.att /\ n.pc = r.pc
        /\ n.delay = IF r.delay > 0 THEN r.delay - 1 ELSE 0
        /\ n.t = IF r.pc = "run" THEN r.t + 1 ELSE r.t
    BY <1>2
  <2>3. /\ n.delay \in 0..StuckAfter /\ n.t \in 0..MaxRun
    BY <1>0, <1>1, <2>1, <2>2 DEF Messages
  <2>4. n \in Messages
    <3> HIDE DEF n
    <3>1. QED
      BY <1>1, <1>2, <2>2, <2>3 DEF Messages
  <2>5. SlotOK(n)
    <3> HIDE DEF n
    <3>1. QED
      BY <1>1, <1>4, <2>2 DEF SlotOK, Free
  <2>6. Begun(r.q, r.att) \in Int
    BY <1>0, <1>1, <1>4, BegunStep DEF Messages, Queues, Free
  <2>7. Spent(n) >= Spent(r) + 1
    <3> HIDE DEF n
    <3>1. QED
      BY <1>0, <1>1, <2>1, <2>2, <2>6 DEF Messages, Spent
  <2>8. QED
    BY <2>2, <2>4, <2>5, <2>7
<1>5. QED
  BY <1>3, <1>4

\* Init is typed.
LEMMA InitTyped == Init => Typed
<1>1. Init => state \in [Files -> FS!States] /\ age \in [Files -> 0..StuckAfter]
  BY AnalysisAssumption DEF Init, FS!States
<1>2. Init => msg \in [Msgs -> Messages] /\ \A m \in Msgs : SlotOK(msg[m])
  <2> HIDE DEF NoMsg
  <2>1. QED
    BY EmptySlot DEF Init
<1>3. Init => /\ listed \subseteq Files /\ cronIn \in 0..CronEvery
              /\ faults \in 0..MaxFaults /\ extra \in 0..MaxExtra
  BY AnalysisAssumption DEF Init
<1>4. QED
  BY <1>1, <1>2, <1>3 DEF Typed, TypeOK

\* Every step keeps the types, and moves files.state along FileState's table.
LEMMA TypedStep ==
    ASSUME Typed, [Next]_vars
    PROVE  Typed' /\ [FS!Next]_state
<1>0. /\ {MaxRun, MaxRetries, StuckAfter, DeadRetries, CronEvery, MaxFaults, MaxExtra,
          Lease} \subseteq Nat
      /\ Lease < StuckAfter
  BY AnalysisAssumption
<1>1. /\ state \in [Files -> FS!States] /\ age \in [Files -> 0..StuckAfter]
      /\ msg \in [Msgs -> Messages] /\ (\A m \in Msgs : SlotOK(msg[m]))
      /\ listed \subseteq Files /\ cronIn \in 0..CronEvery
      /\ faults \in 0..MaxFaults /\ extra \in 0..MaxExtra
  BY DEF Typed, TypeOK
<1>2. /\ Fault \/ NoFault => faults' \in 0..MaxFaults
      /\ Surplus => extra' \in 0..MaxExtra
  BY <1>0, <1>1 DEF Fault, NoFault, Surplus
<1>3. CASE \E f \in Files : Finalize(f)
  <2>1. PICK f \in Files : Finalize(f)
    BY <1>3
  <2>2. /\ SetState(f, FS!FinalizeMoves, "received")
        /\ (Fault \/ NoFault)
        /\ UNCHANGED msg \/ \E m \in Msgs : msg' = [msg EXCEPT ![m] = Fresh(f)]
        /\ UNCHANGED <<listed, cronIn, extra>>
    BY <2>1 DEF Finalize
  <2>3. QED
    BY <1>1, <1>2, <2>2, RowMoves, SentTyped, TypedNext
<1>4. CASE \E f \in Files : Resend(f)
  <2>1. PICK f \in Files : Resend(f)
    BY <1>4
  <2>2. /\ Surplus
        /\ \E m \in Msgs : msg' = [msg EXCEPT ![m] = Fresh(f)]
        /\ UNCHANGED <<state, age, listed, cronIn, faults>>
    BY <2>1 DEF Resend
  <2>3. QED
    BY <1>1, <1>2, <2>2, SentTyped, TypedNext
<1>5. CASE \E f \in Files : Requeue(f) \/ Delete(f)
  <2>1. PICK f \in Files : Requeue(f) \/ Delete(f)
    BY <1>5
  <2>2. /\ Surplus
        /\ SetState(f, FS!RequeueMoves, "received") \/ SetState(f, FS!DeleteMoves, "deleted")
        /\ UNCHANGED msg \/ \E m \in Msgs : msg' = [msg EXCEPT ![m] = Fresh(f)]
        /\ UNCHANGED <<listed, cronIn, faults>>
    BY <2>1 DEF Requeue, Delete
  <2>3. /\ state' \in [Files -> FS!States] /\ age' \in [Files -> 0..StuckAfter]
        /\ FS!Next
    BY <2>2, RowMoves
  <2>4. QED
    BY <1>1, <1>2, <2>2, <2>3, SentTyped, TypedNext
<1>6. CASE \E m \in Msgs : Deliver(m) \/ Crash(m)
  BY <1>6, HandlerDelivers, DeliveredTyped
<1>7. CASE \E m \in Msgs : Late(m)
  <2>1. PICK m \in Msgs : Late(m)
    BY <1>7
  <2>2. PICK d \in {1, Lease, StuckAfter} : msg' = [msg EXCEPT ![m].delay = d]
    BY <2>1 DEF Late
  <2> DEFINE x == [msg[m] EXCEPT !.delay = d]
  <2>3. d \in 0..StuckAfter /\ ~Free(m) /\ Surplus
        /\ UNCHANGED <<state, age, listed, cronIn, faults>>
    BY <1>0, <2>1, <2>2 DEF Late
  <2>4. x \in Messages /\ SlotOK(x)
    BY <2>3, SurplusMessage
  <2>5. msg' = [msg EXCEPT ![m] = x]
    BY <2>2
  <2> HIDE DEF x
  <2>6. QED
    BY <1>1, <1>2, <2>3, <2>4, <2>5, OneWrite, TypedNext
<1>8. CASE \E m, n \in Msgs : Duplicate(m, n)
  <2>1. PICK m \in Msgs, n \in Msgs : Duplicate(m, n)
    BY <1>8
  <2> DEFINE x == Waiting(msg[m].q, msg[m].file, msg[m].att, msg[m].delay)
  <2>2. ~Free(m) /\ Surplus /\ UNCHANGED <<state, age, listed, cronIn, faults>>
        /\ msg' = [msg EXCEPT ![n] = x]
    BY <2>1 DEF Duplicate
  <2>3. x \in Messages /\ SlotOK(x)
    BY <2>2, SurplusMessage
  <2> HIDE DEF x
  <2>4. QED
    BY <1>1, <1>2, <2>2, <2>3, OneWrite, TypedNext
<1>9. CASE Cron
  <2>1. CASE ListStuck
    <3>1. /\ listed' \subseteq Files /\ cronIn' \in 0..CronEvery
          /\ UNCHANGED <<state, age, msg, faults, extra>>
      BY <1>0, <2>1 DEF ListStuck, Stuck
    <3>2. QED
      BY <1>1, <3>1, TypedNext
  <2>2. CASE \E f \in Files : SendStuck(f)
    <3>1. PICK f \in Files : SendStuck(f)
      BY <2>2
    <3>2. /\ listed' \subseteq Files /\ (Fault \/ NoFault)
          /\ UNCHANGED msg \/ \E m \in Msgs : msg' = [msg EXCEPT ![m] = Fresh(f)]
          /\ UNCHANGED <<state, age, cronIn, extra>>
      BY <1>1, <3>1 DEF SendStuck, NoFault
    <3>3. QED
      BY <1>1, <1>2, <3>2, SentTyped, TypedNext
  <2>3. QED
    BY <1>9, <2>1, <2>2 DEF Cron
<1>10. CASE Tick
  <2>1. /\ \A m \in Msgs : ~Urgent(m)
        /\ age' = [f \in Files |-> IF age[f] < StuckAfter THEN age[f] + 1 ELSE age[f]]
        /\ msg' = [m \in Msgs |-> Elapse(msg[m])]
        /\ cronIn' = IF cronIn > 0 THEN cronIn - 1 ELSE 0
        /\ UNCHANGED <<state, listed, faults, extra>>
    BY <1>10 DEF Tick
  <2>2. msg' \in [Msgs -> Messages] /\ \A m \in Msgs : SlotOK(msg'[m])
    BY <2>1, ElapseEffect
  <2>3. age' \in [Files -> 0..StuckAfter] /\ cronIn' \in 0..CronEvery
    BY <1>0, <1>1, <2>1
  <2>4. QED
    BY <1>1, <2>1, <2>2, <2>3, TypedNext
<1>11. CASE UNCHANGED vars
  BY <1>1, <1>11, TypedNext DEF vars
<1>12. QED
  BY <1>3, <1>4, <1>5, <1>6, <1>7, <1>8, <1>9, <1>10, <1>11 DEF Next

\* The rows, the messages and the clocks stay in their types, whatever Queues
\* repeats, delays or loses.
THEOREM AnalysisTypeOK == Spec => []TypeOK
<1>1. Typed /\ [Next]_vars => Typed'
  BY TypedStep
<1>2. Typed => TypeOK
  BY DEF Typed
<1>3. QED
  BY InitTyped, <1>1, <1>2, PTL DEF Spec

\* The consumer, the dead-letter handler and the cron move files.state only along
\* the table of FileState: a dead letter never undoes a stored file, a late claim
\* never drags one back, whatever is repeated, delayed or lost.
THEOREM AnalysisRefinesFileState == Spec => FSNext
<1>1. Typed /\ [Next]_vars => Typed'
  BY TypedStep
<1>2. Typed /\ [Next]_vars => [FS!Next]_state
  BY TypedStep
<1>3. QED
  BY InitTyped, <1>1, <1>2, PTL DEF Spec, FSNext

-----------------------------------------------------------------------------
(* One message per file, until a surplus one is put in play.               *)

\* A delivery leaves the file its message and its clocks.
LEMMA LoneDelivered ==
    ASSUME Typed, Typed', Lone, NEW m \in Msgs, Delivered(m)
    PROVE  Lone'
<1>1. PICK r \in Messages :
        /\ msg' = [msg EXCEPT ![m] = r]
        /\ SlotOK(r)
        /\ r.q # "none" => r.file = msg[m].file /\ Spent(r) >= Spent(msg[m])
  BY DEF Delivered, MsgStep
<1>2. \A n \in Msgs : msg'[n] = IF n = m THEN r ELSE msg[n]
  BY <1>1 DEF Typed, TypeOK
<1>3. \A n \in Msgs : ~Free(n)' => ~Free(n) /\ msg'[n].file = msg[n].file
                                     /\ msg[n].file \in Files
  BY <1>1, <1>2, SlotFacts DEF Delivered, Free
<1>4. \A g \in Files : age'[g] =< age[g]
                        /\ (state[g] # "uploading" => state'[g] # "uploading")
  BY SlotFacts, RowStepEffect DEF Delivered
<1>5. UNCHANGED <<listed, cronIn>>
  BY DEF Delivered
<1>6. ListedHasNone'
  BY <1>3, <1>4, <1>5 DEF ListedHasNone, Lone, Typed, TypeOK
<1>7. SentForFinalized'
  BY <1>3, <1>4 DEF SentForFinalized, Lone
<1>8. ClocksKeepUp'
  <2> SUFFICES ASSUME NEW n \in Msgs, ~Free(n)'
               PROVE  /\ Spent(msg'[n]) >= 0
                      /\ \/ age'[msg'[n].file] =< Spent(msg'[n])
                         \/ CronEvery - cronIn' =< Spent(msg'[n])
    BY DEF ClocksKeepUp
  <2>1. /\ ~Free(n) /\ msg'[n].file = msg[n].file /\ msg[n].file \in Files
        /\ Spent(msg[n]) >= 0
        /\ \/ age[msg[n].file] =< Spent(msg[n])
           \/ CronEvery - cronIn =< Spent(msg[n])
    BY <1>3 DEF ClocksKeepUp, Lone
  <2>2. Spent(msg[n]) \in Int /\ Spent(msg'[n]) \in Int
    <3>1. msg[n].q # "none" /\ msg'[n].q # "none"
      BY <2>1 DEF Free
    <3>2. /\ msg[n] \in Messages /\ SlotOK(msg[n])
          /\ msg'[n] \in Messages /\ SlotOK(msg'[n])
      BY DEF Typed, TypeOK
    <3>3. QED
      BY <3>1, <3>2, SpentBound
  <2>3. Spent(msg'[n]) >= Spent(msg[n])
    <3>1. CASE n = m
      BY <1>1, <1>2, <3>1 DEF Free
    <3>2. CASE n # m
      <4>1. msg'[n] = msg[n]
        BY <1>2, <3>2
      <4>2. QED
        BY <2>2, <4>1
    <3>3. QED
      BY <3>1, <3>2
  <2>4. /\ age[msg[n].file] \in Int /\ age'[msg[n].file] \in Int
        /\ age'[msg[n].file] =< age[msg[n].file]
        /\ cronIn' = cronIn /\ cronIn \in Int /\ CronEvery \in Int
    BY <1>4, <1>5, <2>1, AnalysisAssumption DEF Typed, TypeOK
  <2> DEFINE S == Spent(msg[n])
             T == Spent(msg'[n])
             a == age[msg[n].file]
             b == age'[msg[n].file]
  <2>5. /\ S \in Int /\ T \in Int /\ T >= S /\ S >= 0 /\ a \in Int /\ b \in Int /\ b =< a
        /\ a =< S \/ CronEvery - cronIn =< S
    BY <2>1, <2>2, <2>3, <2>4
  <2>6. age'[msg'[n].file] = b
    BY <2>1
  <2> HIDE DEF S, T, a, b
  <2>7. T >= 0 /\ (b =< T \/ CronEvery - cronIn' =< T)
    BY <2>4, <2>5
  <2>8. QED
    BY <2>6, <2>7 DEF T
<1>9. Apart'
  BY <1>3 DEF Apart, Lone
<1>10. QED
  BY <1>6, <1>7, <1>8, <1>9 DEF Lone

\* A new message about a file that has none, one of its clocks starting now.
LEMMA LoneSent ==
    ASSUME Typed, NEW f \in Files, NEW m \in Msgs, Free(m),
           ClocksKeepUp, Apart, SentForFinalized,
           msg' = [msg EXCEPT ![m] = Fresh(f)],
           \A n \in Msgs : ~Free(n) => msg[n].file # f,
           \A g \in Files \ {f} : state'[g] = state[g] /\ age'[g] = age[g],
           state'[f] # "uploading",
           age'[f] = 0 \/ cronIn = CronEvery,
           UNCHANGED cronIn
    PROVE  ClocksKeepUp' /\ Apart' /\ SentForFinalized'
<1>0. CronEvery \in Nat /\ cronIn \in Nat
  BY AnalysisAssumption DEF Typed, TypeOK
<1>1. \A n \in Msgs : msg'[n] = IF n = m THEN Fresh(f) ELSE msg[n]
  BY DEF Typed, TypeOK
<1>2. Fresh(f).file = f /\ Fresh(f).q # "none" /\ Spent(Fresh(f)) = 0
  BY FreshMessage
<1>3. \A n \in Msgs \ {m} : /\ msg'[n] = msg[n]
                            /\ Free(n)' = Free(n)
                            /\ ~Free(n) => msg[n].file \in Files \ {f}
  BY <1>1, SlotFacts DEF Free
<1>4. msg'[m] = Fresh(f)
  BY <1>1
<1>5. ClocksKeepUp'
  <2> SUFFICES ASSUME NEW n \in Msgs, ~Free(n)'
               PROVE  /\ Spent(msg'[n]) >= 0
                      /\ \/ age'[msg'[n].file] =< Spent(msg'[n])
                         \/ CronEvery - cronIn' =< Spent(msg'[n])
    BY DEF ClocksKeepUp
  <2>1. CASE n = m
    <3>1. msg'[n] = Fresh(f) /\ msg'[n].file = f /\ Spent(msg'[n]) = 0
      BY <1>2, <1>4, <2>1
    <3>2. QED
      BY <1>0, <3>1
  <2>2. CASE n # m
    <3>1. /\ ~Free(n) /\ msg'[n] = msg[n] /\ msg[n].file \in Files \ {f}
          /\ age'[msg[n].file] = age[msg[n].file]
      BY <1>3, <2>2
    <3>2. QED
      BY <3>1 DEF ClocksKeepUp
  <2>3. QED
    BY <2>1, <2>2
<1>6. Apart'
  BY <1>2, <1>3, <1>4 DEF Apart
<1>7. SentForFinalized'
  BY <1>2, <1>3, <1>4 DEF SentForFinalized
<1>8. QED
  BY <1>5, <1>6, <1>7

\* The complete route's own send is the first message of its file.
LEMMA LoneFinalize ==
    ASSUME Typed, Lone, NEW f \in Files, Finalize(f)
    PROVE  Lone'
<1>0. /\ state \in [Files -> FS!States] /\ age \in [Files -> 0..StuckAfter]
      /\ listed \subseteq Files
  BY DEF Typed, TypeOK
<1>1. /\ state[f] = "uploading"
      /\ state' = [state EXCEPT ![f] = "received"] /\ age' = [age EXCEPT ![f] = 0]
      /\ UNCHANGED <<listed, cronIn, extra>>
  BY DEF Finalize, SetState
<1>2. \A g \in Files : IF g = f THEN state'[g] = "received" /\ age'[g] = 0
                       ELSE state'[g] = state[g] /\ age'[g] = age[g]
  BY <1>0, <1>1
<1>3. f \notin listed /\ \A n \in Msgs : ~Free(n) => msg[n].file # f
  BY <1>1 DEF Lone, ListedHasNone, SentForFinalized
<1>4. CASE UNCHANGED msg
  <2>1. \A n \in Msgs : Free(n)' = Free(n) /\ msg'[n] = msg[n]
    BY <1>4 DEF Free
  <2>2. ListedHasNone'
    BY <1>0, <1>1, <1>2, <1>3, <2>1 DEF ListedHasNone, Lone
  <2>3. SentForFinalized' /\ Apart'
    BY <1>2, <1>3, <2>1, SlotFacts DEF SentForFinalized, Lone, Apart
  <2>4. ClocksKeepUp'
    BY <1>1, <1>2, <1>3, <2>1, SlotFacts DEF ClocksKeepUp, Lone
  <2>5. QED
    BY <2>2, <2>3, <2>4 DEF Lone
<1>5. CASE \E m \in Msgs : Free(m) /\ msg' = [msg EXCEPT ![m] = Fresh(f)]
  <2>1. PICK m \in Msgs : Free(m) /\ msg' = [msg EXCEPT ![m] = Fresh(f)]
    BY <1>5
  <2>2. ClocksKeepUp' /\ Apart' /\ SentForFinalized'
    BY <1>1, <1>2, <1>3, <2>1, LoneSent DEF Lone
  <2>3. ListedHasNone'
    <3>1. \A n \in Msgs : msg'[n] = IF n = m THEN Fresh(f) ELSE msg[n]
      BY <2>1 DEF Typed, TypeOK
    <3>2. \A n \in Msgs : ~Free(n)' => msg'[n].file = f \/ (~Free(n) /\ msg'[n].file = msg[n].file)
      BY <3>1, FreshMessage DEF Free
    <3>3. QED
      BY <1>0, <1>1, <1>2, <1>3, <3>2 DEF ListedHasNone, Lone
  <2>4. QED
    BY <2>2, <2>3 DEF Lone
<1>6. QED
  BY <1>4, <1>5 DEF Finalize

\* When the cron lists a row, an hour has passed since its last change and since
\* the last listing: the deliveries of any message about it are over.
LEMMA LoneListed ==
    ASSUME Typed, Lone, HourOutlastsDeliveries, ListStuck
    PROVE  Lone'
<1>0. CronEvery \in Nat /\ StuckAfter \in Nat
  BY AnalysisAssumption
<1>1. /\ cronIn = 0 /\ listed' = Stuck /\ cronIn' = CronEvery
      /\ UNCHANGED <<state, age, msg>>
  BY DEF ListStuck
<1>2. ASSUME NEW f \in Stuck, NEW m \in Msgs, ~Free(m), msg[m].file = f
      PROVE  FALSE
  <2>1. Spent(msg[m]) \in Int /\ Spent(msg[m]) =< Begun("dead", DeadRetries + 1)
    BY <1>2, SlotFacts, SpentBound
  <2>2. age[f] = StuckAfter
    BY DEF Stuck
  <2>3. \/ age[f] =< Spent(msg[m]) \/ CronEvery - cronIn =< Spent(msg[m])
    BY <1>2 DEF Lone, ClocksKeepUp
  <2>4. Begun("dead", DeadRetries + 1) \in Int
    BY BegunStep, AnalysisAssumption
  <2> DEFINE S == Spent(msg[m])
             B == Begun("dead", DeadRetries + 1)
  <2>5. /\ S \in Int /\ B \in Int /\ S =< B /\ B < StuckAfter /\ B < CronEvery
        /\ StuckAfter =< S \/ CronEvery =< S
    BY <1>0, <1>1, <2>1, <2>2, <2>3, <2>4 DEF HourOutlastsDeliveries
  <2> HIDE DEF S, B
  <2>6. QED
    BY <1>0, <2>5
<1>3. \A m \in Msgs : Free(m)' = Free(m) /\ msg'[m] = msg[m]
  BY <1>1 DEF Free
<1>4. ListedHasNone'
  BY <1>1, <1>2, <1>3 DEF ListedHasNone, Stuck
<1>5. SentForFinalized' /\ Apart'
  BY <1>1, <1>3 DEF SentForFinalized, Apart, Lone
<1>6. ClocksKeepUp'
  <2>1. \A m \in Msgs : ~Free(m) => Spent(msg[m]) \in Int /\ Spent(msg[m]) >= 0
    BY SlotFacts, SpentBound DEF ClocksKeepUp, Lone
  <2>2. CronEvery - cronIn' = 0
    BY <1>0, <1>1
  <2>3. \A m \in Msgs : ~Free(m)' => /\ Spent(msg'[m]) >= 0
                                     /\ CronEvery - cronIn' =< Spent(msg'[m])
    BY <1>3, <2>1, <2>2
  <2>4. QED
    BY <2>3 DEF ClocksKeepUp
<1>7. QED
  BY <1>4, <1>5, <1>6 DEF Lone

\* What the cron then sends is the only message of its file.
LEMMA LoneCronSend ==
    ASSUME Typed, Lone, CronHasRun, NEW f \in Files, SendStuck(f)
    PROVE  Lone'
<1>0. /\ state \in [Files -> FS!States] /\ age \in [Files -> 0..StuckAfter]
      /\ listed \subseteq Files
  BY DEF Typed, TypeOK
<1>1. f \in listed /\ listed' = listed \ {f} /\ UNCHANGED <<state, age, cronIn, extra>>
  BY DEF SendStuck
<1>2. cronIn = CronEvery
  BY <1>1 DEF CronHasRun
<1>3. state[f] # "uploading" /\ \A n \in Msgs : ~Free(n) => msg[n].file # f
  BY <1>1 DEF Lone, ListedHasNone
<1>4. CASE UNCHANGED msg
  <2>1. \A n \in Msgs : Free(n)' = Free(n) /\ msg'[n] = msg[n]
    BY <1>4 DEF Free
  <2>2. QED
    BY <1>1, <2>1 DEF Lone, ListedHasNone, SentForFinalized, ClocksKeepUp, Apart
<1>5. CASE \E m \in Msgs : Free(m) /\ msg' = [msg EXCEPT ![m] = Fresh(f)]
  <2>1. PICK m \in Msgs : Free(m) /\ msg' = [msg EXCEPT ![m] = Fresh(f)]
    BY <1>5
  <2>2. ClocksKeepUp' /\ Apart' /\ SentForFinalized'
    BY <1>1, <1>2, <1>3, <2>1, LoneSent DEF Lone
  <2>3. ListedHasNone'
    <3>1. \A n \in Msgs : msg'[n] = IF n = m THEN Fresh(f) ELSE msg[n]
      BY <2>1 DEF Typed, TypeOK
    <3>2. \A n \in Msgs : ~Free(n)' => msg'[n].file = f \/ (~Free(n) /\ msg'[n].file = msg[n].file)
      BY <3>1, FreshMessage DEF Free
    <3>3. QED
      BY <1>1, <3>2 DEF ListedHasNone, Lone
  <2>4. QED
    BY <2>2, <2>3 DEF Lone
<1>6. QED
  BY <1>4, <1>5 DEF SendStuck

\* A minute ages the row and the cron by one, and what every message has spent.
LEMMA LoneTick ==
    ASSUME Typed, Typed', Lone, Tick
    PROVE  Lone'
<1>0. CronEvery \in Nat /\ cronIn \in Nat /\ StuckAfter \in Nat
      /\ age \in [Files -> 0..StuckAfter]
  BY AnalysisAssumption DEF Typed, TypeOK
<1>1. /\ \A m \in Msgs : ~Urgent(m)
      /\ age' = [f \in Files |-> IF age[f] < StuckAfter THEN age[f] + 1 ELSE age[f]]
      /\ msg' = [m \in Msgs |-> Elapse(msg[m])]
      /\ cronIn' = IF cronIn > 0 THEN cronIn - 1 ELSE 0
      /\ UNCHANGED <<state, listed, faults, extra>>
  BY DEF Tick
<1>2. listed = {}
  BY DEF Tick
<1>3. \A m \in Msgs : /\ Free(m)' = Free(m)
                      /\ msg'[m].file = msg[m].file
                      /\ ~Free(m) => Spent(msg'[m]) >= Spent(msg[m]) + 1
  BY <1>1, ElapseEffect DEF Free
<1>4. ListedHasNone'
  BY <1>1, <1>2 DEF ListedHasNone
<1>5. SentForFinalized' /\ Apart'
  BY <1>1, <1>3 DEF SentForFinalized, Apart, Lone
<1>6. ClocksKeepUp'
  <2> SUFFICES ASSUME NEW n \in Msgs, ~Free(n)'
               PROVE  /\ Spent(msg'[n]) >= 0
                      /\ \/ age'[msg'[n].file] =< Spent(msg'[n])
                         \/ CronEvery - cronIn' =< Spent(msg'[n])
    BY DEF ClocksKeepUp
  <2>1. /\ ~Free(n) /\ msg'[n].file = msg[n].file /\ msg[n].file \in Files
        /\ Spent(msg[n]) >= 0
        /\ \/ age[msg[n].file] =< Spent(msg[n])
           \/ CronEvery - cronIn =< Spent(msg[n])
        /\ Spent(msg'[n]) >= Spent(msg[n]) + 1
    BY <1>3, SlotFacts DEF ClocksKeepUp, Lone
  <2>2. Spent(msg[n]) \in Int /\ Spent(msg'[n]) \in Int
    <3>1. msg[n].q # "none" /\ msg'[n].q # "none"
      BY <2>1 DEF Free
    <3>2. /\ msg[n] \in Messages /\ SlotOK(msg[n])
          /\ msg'[n] \in Messages /\ SlotOK(msg'[n])
      BY DEF Typed, TypeOK
    <3>3. QED
      BY <3>1, <3>2, SpentBound
  <2> DEFINE S == Spent(msg[n])
             T == Spent(msg'[n])
             a == age[msg[n].file]
             b == age'[msg'[n].file]
  <2>3. a \in Nat /\ b \in Nat /\ b =< a + 1
    BY <1>0, <1>1, <2>1
  <2>4. /\ S \in Int /\ T \in Int /\ T >= S + 1 /\ S >= 0
        /\ a =< S \/ CronEvery - cronIn =< S
    BY <2>1, <2>2
  <2> HIDE DEF S, T, a, b
  <2>5. T >= 0 /\ (b =< T \/ CronEvery - cronIn' =< T)
    BY <1>0, <1>1, <2>3, <2>4
  <2>6. QED
    BY <2>5 DEF T, b
<1>7. QED
  BY <1>4, <1>5, <1>6 DEF Lone

\* AInv is inductive when an hour outlasts the deliveries of one message.
LEMMA LoneStep ==
    ASSUME HourOutlastsDeliveries, AInv, Typed', [Next]_vars
    PROVE  AInv'
<1>0. Typed /\ CronHasRun /\ extra \in Nat
  BY AnalysisAssumption DEF AInv, Typed, TypeOK
<1>1. ASSUME Lone' \/ extra' # 0, CronHasRun'
      PROVE  AInv'
  BY <1>1 DEF AInv
<1>2. Surplus => extra' # 0
  BY <1>0 DEF Surplus
<1>3. CASE \E f \in Files : Resend(f) \/ Requeue(f) \/ Delete(f)
  BY <1>0, <1>1, <1>2, <1>3 DEF Resend, Requeue, Delete, CronHasRun
<1>4. CASE (\E m \in Msgs : Late(m)) \/ (\E m, n \in Msgs : Duplicate(m, n))
  BY <1>0, <1>1, <1>2, <1>4 DEF Late, Duplicate, CronHasRun
<1>5. CASE \E f \in Files : Finalize(f)
  <2>1. UNCHANGED <<listed, cronIn, extra>>
    BY <1>5 DEF Finalize
  <2>2. Lone => Lone'
    BY <1>0, <1>5, LoneFinalize
  <2>3. QED
    BY <1>0, <1>1, <2>1, <2>2 DEF AInv, CronHasRun
<1>6. CASE \E m \in Msgs : Deliver(m) \/ Crash(m)
  <2>1. PICK m \in Msgs : Delivered(m)
    BY <1>0, <1>6, HandlerDelivers
  <2>2. UNCHANGED <<listed, cronIn, extra>>
    BY <2>1 DEF Delivered
  <2>3. Lone => Lone'
    BY <1>0, <2>1, LoneDelivered
  <2>4. QED
    BY <1>0, <1>1, <2>2, <2>3 DEF AInv, CronHasRun
<1>7. CASE ListStuck
  <2>1. cronIn' = CronEvery /\ UNCHANGED extra
    BY <1>7 DEF ListStuck
  <2>2. Lone => Lone'
    BY <1>0, <1>7, LoneListed
  <2>3. QED
    BY <1>0, <1>1, <2>1, <2>2 DEF AInv, CronHasRun
<1>8. CASE \E f \in Files : SendStuck(f)
  <2>1. PICK f \in Files : SendStuck(f)
    BY <1>8
  <2>2. f \in listed /\ UNCHANGED <<cronIn, extra>>
    BY <2>1 DEF SendStuck
  <2>3. Lone => Lone'
    BY <1>0, <2>1, LoneCronSend
  <2>4. QED
    BY <1>0, <1>1, <2>2, <2>3 DEF AInv, CronHasRun
<1>9. CASE Tick
  <2>1. listed' = {} /\ UNCHANGED extra
    BY <1>9 DEF Tick
  <2>2. Lone => Lone'
    BY <1>0, <1>9, LoneTick
  <2>3. QED
    BY <1>0, <1>1, <2>1, <2>2 DEF AInv, CronHasRun
<1>10. CASE UNCHANGED vars
  <2>1. Lone => Lone'
    BY <1>10 DEF vars, Lone, ListedHasNone, SentForFinalized, ClocksKeepUp, Apart, Free
  <2>2. QED
    BY <1>0, <1>1, <1>10, <2>1 DEF AInv, CronHasRun, vars
<1>11. QED
  BY <1>3, <1>4, <1>5, <1>6, <1>7, <1>8, <1>9, <1>10 DEF Next, Cron

\* While Queues delivers each message once and on time, and nobody sends one by
\* hand, a file never has two messages: requeueStuck lists a row only when the
\* deliveries of its last message are over, because an hour outlasts them.
THEOREM LoneMessage ==
    ASSUME HourOutlastsDeliveries
    PROVE  Spec => []OneMessagePerFile
<1>1. Init => AInv
  <2>1. Init => Typed
    BY InitTyped
  <2>2. Init => CronHasRun
    BY DEF Init, CronHasRun
  <2>3. Init => \A m \in Msgs : Free(m)
    <3> HIDE DEF NoMsg
    <3>1. QED
      BY EmptySlot DEF Init, Free
  <2>4. Init => Lone
    BY <2>3 DEF Init, Lone, ListedHasNone, SentForFinalized, ClocksKeepUp, Apart
  <2>5. QED
    BY <2>1, <2>2, <2>4 DEF AInv
<1>2. AInv /\ [Next]_vars => AInv'
  <2>1. AInv /\ [Next]_vars => Typed'
    BY TypedStep DEF AInv
  <2>2. QED
    BY <2>1, LoneStep
<1>3. AInv => OneMessagePerFile
  BY DEF AInv, Lone, Apart, OneMessagePerFile
<1>4. QED
  BY <1>1, <1>2, <1>3, PTL DEF Spec

-----------------------------------------------------------------------------
(* A dead letter spares the file a container works on.                     *)

\* While a container works on a file, the row is claimed or already settled, and
\* its claim is no older than the run: claims of others only make it younger.
RunsAreClaimed ==
    \A m \in Msgs : At(m, "run") =>
        LET f == msg[m].file IN
        /\ state[f] \notin {"uploading", "received"}
        /\ state[f] = "analysing" => age[f] =< msg[m].t

\* A row changes by a claim, which restarts its clock, or for good.
LEMMA RowStepKeepsClaims ==
    ASSUME Typed, NEW f \in Files, RowStep(f), NEW g \in Files,
           state[g] \notin {"uploading", "received"}
    PROVE  /\ state'[g] \notin {"uploading", "received"}
           /\ state'[g] = "analysing" =>
                 age'[g] = 0 \/ (state[g] = "analysing" /\ age'[g] = age[g])
<1>1. state \in [Files -> FS!States] /\ age \in [Files -> 0..StuckAfter]
  BY DEF Typed, TypeOK
<1>2. CASE UNCHANGED <<state, age>>
  BY <1>2
<1>3. CASE \E to \in {"analysing", "stored", "failed"} : SetState(f, FS!AnalysisMoves, to)
  <2>1. PICK to \in {"analysing", "stored", "failed"} :
           state' = [state EXCEPT ![f] = to] /\ age' = [age EXCEPT ![f] = 0]
    BY <1>3 DEF SetState
  <2>2. QED
    BY <1>1, <2>1
<1>4. QED
  BY <1>2, <1>3 DEF RowStep

\* Of all that a delivery does, only a claim starts a container.
LEMMA OnlyClaimsRun ==
    ASSUME Typed, NEW m \in Msgs, Deliver(m) \/ Crash(m), At(m, "run")'
    PROVE  /\ msg'[m].file = msg[m].file
           /\ state'[msg[m].file] = "analysing" /\ age'[msg[m].file] = 0
<1>1. msg \in [Msgs -> Messages] /\ SlotOK(msg[m])
  BY DEF Typed, TypeOK
<1>2. ~Retry(m)
  <2>1. ASSUME Retry(m) PROVE FALSE
    <3>1. msg'[m] = Again(msg[m], RetryDelay(msg[m].att))
      BY <1>1, <2>1 DEF Retry
    <3>2. msg'[m].pc = "wait"
      BY <3>1 DEF Again, Waiting, NoMsg
    <3>3. QED
      BY <3>2 DEF At
  <2>2. QED
    BY <2>1
<1>3. ~Ack(m)
  BY <1>1 DEF Ack, At, NoMsg, Waiting
<1>4. \A pc : Goto(m, pc) => pc = "run"
  BY <1>1 DEF Goto, At, Messages
<1>5. ~Crash(m)
  <2>1. ASSUME Crash(m) PROVE FALSE
    <3>1. msg'[m] = Again(msg[m], 0)
      BY <1>1, <2>1 DEF Crash
    <3>2. msg'[m].pc = "wait"
      BY <3>1 DEF Again, Waiting, NoMsg
    <3>3. QED
      BY <3>2 DEF At
  <2>2. QED
    BY <2>1
<1>6. CASE Claim(m)
  <2>1. SetState(msg[m].file, FS!AnalysisBeginMoves, "analysing") /\ Goto(m, "run")
    BY <1>2, <1>6 DEF Claim, Throws
  <2>2. msg[m].file \in Files
    BY <1>1, <1>6 DEF Claim, At, Live, SlotOK
  <2>3. state'[msg[m].file] = "analysing" /\ age'[msg[m].file] = 0
    BY <2>1, <2>2 DEF SetState, Typed, TypeOK
  <2>4. msg'[m].file = msg[m].file
    BY <1>1, <2>1 DEF Goto, Messages
  <2>5. QED
    BY <2>3, <2>4
<1>7. ~(BeginRead(m) \/ Analyse(m) \/ Persist(m) \/ Fail(m) \/ DeadLook(m) \/ DeadFail(m))
  BY <1>2, <1>3, <1>4 DEF BeginRead, Analyse, Persist, Fail, DeadLook, DeadFail, Throws
<1>8. QED
  BY <1>5, <1>6, <1>7 DEF Deliver

\* A delivery keeps the claims of the containers that run.
LEMMA DeliveryKeepsClaims ==
    ASSUME Typed, RunsAreClaimed, NEW m \in Msgs, Deliver(m) \/ Crash(m)
    PROVE  RunsAreClaimed'
<1>1. Delivered(m) /\ msg[m].file \in Files
  BY HandlerDelivers, SlotFacts DEF Delivered
<1>2. msg \in [Msgs -> Messages] /\ \A n \in Msgs \ {m} : msg'[n] = msg[n]
  BY <1>1 DEF Delivered, MsgStep, Typed, TypeOK
<1>3. Typed'
  BY <1>1, DeliveredTyped
<1> SUFFICES ASSUME NEW n \in Msgs, At(n, "run")'
             PROVE  LET f == msg'[n].file IN
                    /\ state'[f] \notin {"uploading", "received"}
                    /\ state'[f] = "analysing" => age'[f] =< msg'[n].t
  BY DEF RunsAreClaimed
<1>4. msg'[n].t \in Nat
  BY <1>3, AnalysisAssumption DEF Typed, TypeOK, Messages
<1>5. CASE n = m
  BY <1>4, <1>5, OnlyClaimsRun
<1>6. CASE n # m
  <2>1. msg'[n] = msg[n] /\ At(n, "run")
    BY <1>2, <1>6 DEF At, Live
  <2>2. msg[n].file \in Files
    BY <2>1, SlotFacts DEF At, Live, Free
  <2>3. /\ state[msg[n].file] \notin {"uploading", "received"}
        /\ state[msg[n].file] = "analysing" => age[msg[n].file] =< msg[n].t
    BY <2>1 DEF RunsAreClaimed
  <2>4. /\ state'[msg[n].file] \notin {"uploading", "received"}
        /\ state'[msg[n].file] = "analysing" =>
              age'[msg[n].file] = 0
              \/ (state[msg[n].file] = "analysing" /\ age'[msg[n].file] = age[msg[n].file])
    BY <1>1, <2>2, <2>3, RowStepKeepsClaims DEF Delivered
  <2>5. QED
    BY <1>4, <2>1, <2>3, <2>4
<1>7. QED
  BY <1>5, <1>6

\* So does what starts no container and takes no row a container works on back.
LEMMA OthersKeepClaims ==
    ASSUME RunsAreClaimed,
           \A n \in Msgs : At(n, "run")' =>
               At(n, "run") /\ msg'[n].file = msg[n].file /\ msg'[n].t = msg[n].t,
           \A n \in Msgs : At(n, "run") =>
               LET f == msg[n].file IN
               /\ state'[f] \notin {"uploading", "received"}
               /\ state'[f] = "analysing" => state[f] = "analysing" /\ age'[f] = age[f]
    PROVE  RunsAreClaimed'
BY DEF RunsAreClaimed

\* A message put in a slot, or held back, waits.
LEMMA WaitingRunsNot ==
    ASSUME Typed, NEW k \in Msgs, NEW w, w.pc = "wait", msg' = [msg EXCEPT ![k] = w]
    PROVE  \A n \in Msgs : At(n, "run")' =>
               At(n, "run") /\ msg'[n].file = msg[n].file /\ msg'[n].t = msg[n].t
<1>1. msg \in [Msgs -> Messages]
  BY DEF Typed, TypeOK
<1>2. \A n \in Msgs \ {k} : msg'[n] = msg[n]
  BY <1>1
<1>3. msg'[k].pc = "wait"
  BY <1>1
<1>4. QED
  BY <1>2, <1>3 DEF At, Live

\* Every step keeps them, if nobody requeues a file a container works on.
LEMMA ClaimsStep ==
    ASSUME Typed, RunsAreClaimed, [Next]_vars,
           \A f \in Files : Requeue(f) => Running(f) = {}
    PROVE  RunsAreClaimed'
<1>1. /\ state \in [Files -> FS!States] /\ age \in [Files -> 0..StuckAfter]
      /\ msg \in [Msgs -> Messages]
  BY DEF Typed, TypeOK
<1>2. \A f \in Files : Fresh(f).pc = "wait"
  BY DEF Fresh, Waiting
<1>3. \A n \in Msgs : At(n, "run") => msg[n].file \in Files
  BY SlotFacts DEF At, Live, Free
<1>4. UNCHANGED msg =>
         \A n \in Msgs : At(n, "run")' =>
             At(n, "run") /\ msg'[n].file = msg[n].file /\ msg'[n].t = msg[n].t
  BY DEF At, Live
<1>5. UNCHANGED <<state, age>> =>
         \A n \in Msgs : At(n, "run") =>
             LET f == msg[n].file IN
             /\ state'[f] \notin {"uploading", "received"}
             /\ state'[f] = "analysing" => state[f] = "analysing" /\ age'[f] = age[f]
  BY DEF RunsAreClaimed
<1>6. CASE \E m \in Msgs : Deliver(m) \/ Crash(m)
  BY <1>6, DeliveryKeepsClaims
<1>7. ASSUME NEW f \in Files, Finalize(f) \/ Requeue(f) \/ Delete(f)
      PROVE  RunsAreClaimed'
  <2>1. /\ UNCHANGED msg \/ \E k \in Msgs : msg' = [msg EXCEPT ![k] = Fresh(f)]
        /\ \E to \in {"received", "deleted"} :
              state' = [state EXCEPT ![f] = to] /\ age' = [age EXCEPT ![f] = 0]
    BY <1>7 DEF Finalize, Requeue, Delete, SetState
  <2>2. \A n \in Msgs : At(n, "run")' =>
            At(n, "run") /\ msg'[n].file = msg[n].file /\ msg'[n].t = msg[n].t
    BY <1>2, <1>4, <2>1, WaitingRunsNot
  <2>3. ASSUME NEW n \in Msgs, At(n, "run")
        PROVE  LET g == msg[n].file IN
               /\ state'[g] \notin {"uploading", "received"}
               /\ state'[g] = "analysing" => state[g] = "analysing" /\ age'[g] = age[g]
    <3>1. state[msg[n].file] \notin {"uploading", "received"} /\ msg[n].file \in Files
      BY <1>3, <2>3 DEF RunsAreClaimed
    <3>2. CASE msg[n].file # f
      BY <1>1, <2>1, <3>1, <3>2
    <3>3. CASE msg[n].file = f
      <4>1. ~Finalize(f)
        BY <3>1, <3>3 DEF Finalize
      <4>2. ~Requeue(f)
        BY <2>3, <3>3 DEF Running
      <4>3. state'[f] = "deleted"
        BY <1>1, <1>7, <4>1, <4>2 DEF Delete, SetState
      <4>4. QED
        BY <3>3, <4>3
    <3>4. QED
      BY <3>2, <3>3
  <2>4. QED
    BY <2>2, <2>3, OthersKeepClaims
<1>8. CASE \E f \in Files : Resend(f)
  <2>1. PICK f \in Files, k \in Msgs : msg' = [msg EXCEPT ![k] = Fresh(f)]
    BY <1>8 DEF Resend
  <2>2. UNCHANGED <<state, age>>
    BY <1>8 DEF Resend
  <2>3. QED
    BY <1>2, <1>5, <2>1, <2>2, WaitingRunsNot, OthersKeepClaims
<1>9. CASE \E m \in Msgs : Late(m)
  <2>1. PICK m \in Msgs, d \in {1, Lease, StuckAfter} : msg' = [msg EXCEPT ![m].delay = d]
    BY <1>9 DEF Late
  <2>2. UNCHANGED <<state, age>>
    BY <1>9 DEF Late
  <2>3. \A n \in Msgs : msg'[n].pc = msg[n].pc /\ msg'[n].q = msg[n].q
                        /\ msg'[n].file = msg[n].file /\ msg'[n].t = msg[n].t
    BY <1>1, <2>1 DEF Messages
  <2>4. QED
    BY <1>5, <2>2, <2>3, OthersKeepClaims DEF At, Live
<1>10. CASE \E m, n \in Msgs : Duplicate(m, n)
  <2>1. PICK m \in Msgs, n \in Msgs :
          msg' = [msg EXCEPT ![n] = Waiting(msg[m].q, msg[m].file, msg[m].att, msg[m].delay)]
    BY <1>10 DEF Duplicate
  <2>2. UNCHANGED <<state, age>>
    BY <1>10 DEF Duplicate
  <2>3. Waiting(msg[m].q, msg[m].file, msg[m].att, msg[m].delay).pc = "wait"
    BY DEF Waiting
  <2>4. QED
    BY <1>5, <2>1, <2>2, <2>3, WaitingRunsNot, OthersKeepClaims
<1>11. CASE Cron
  <2>1. /\ UNCHANGED <<state, age>>
        /\ UNCHANGED msg \/ \E f \in Files, k \in Msgs : msg' = [msg EXCEPT ![k] = Fresh(f)]
    BY <1>11 DEF Cron, ListStuck, SendStuck
  <2>2. QED
    BY <1>2, <1>4, <1>5, <2>1, WaitingRunsNot, OthersKeepClaims
<1>12. CASE Tick
  <2>0. Typed' /\ {MaxRun, StuckAfter} \subseteq Nat
    BY TypedStep, AnalysisAssumption
  <2>1. /\ UNCHANGED state
        /\ age' = [f \in Files |-> IF age[f] < StuckAfter THEN age[f] + 1 ELSE age[f]]
        /\ msg' = [m \in Msgs |-> Elapse(msg[m])]
    BY <1>12 DEF Tick
  <2>2. ASSUME NEW n \in Msgs, At(n, "run")'
        PROVE  At(n, "run") /\ msg'[n].file = msg[n].file /\ msg'[n].t = msg[n].t + 1
               /\ msg[n].t \in Nat
    BY <1>1, <2>0, <2>1, <2>2 DEF At, Live, Elapse, Messages
  <2>3. ASSUME NEW n \in Msgs, At(n, "run")'
        PROVE  LET f == msg'[n].file IN
               /\ state'[f] \notin {"uploading", "received"}
               /\ state'[f] = "analysing" => age'[f] =< msg'[n].t
    <3>1. /\ At(n, "run") /\ msg'[n].file = msg[n].file /\ msg'[n].t = msg[n].t + 1
          /\ msg[n].t \in Nat /\ msg[n].file \in Files
      BY <1>3, <2>2, <2>3
    <3>2. /\ state[msg[n].file] \notin {"uploading", "received"}
          /\ state[msg[n].file] = "analysing" => age[msg[n].file] =< msg[n].t
      BY <3>1 DEF RunsAreClaimed
    <3>3. age[msg[n].file] \in Nat /\ age'[msg[n].file] =< age[msg[n].file] + 1
          /\ age'[msg[n].file] \in Nat
      BY <1>1, <2>0, <2>1, <3>1
    <3>4. QED
      BY <2>1, <3>1, <3>2, <3>3
  <2>4. QED
    BY <2>3 DEF RunsAreClaimed
<1>13. CASE UNCHANGED vars
  BY <1>4, <1>5, <1>13, OthersKeepClaims DEF vars
<1>14. QED
  BY <1>6, <1>7, <1>8, <1>9, <1>10, <1>11, <1>12, <1>13 DEF Next

\* A dead letter gets past its look only by DeadLook itself.
LEMMA OnlyLookPasses ==
    ASSUME Typed, Next, NEW m \in Msgs,
           msg[m].q = "dead", msg[m].pc = "wait", msg'[m].pc = "fail"
    PROVE  DeadLook(m) /\ ~Retry(m) /\ ~Ack(m)
<1>1. msg \in [Msgs -> Messages]
  BY DEF Typed, TypeOK
<1>2. ~Retry(m) /\ ~Ack(m)
  <2>1. ASSUME Retry(m) PROVE FALSE
    <3>1. msg'[m] = Again(msg[m], RetryDelay(msg[m].att))
      BY <1>1, <2>1 DEF Retry
    <3>2. QED
      BY <3>1 DEF Again, Waiting, NoMsg
  <2>2. ~Ack(m)
    BY <1>1 DEF Ack, NoMsg, Waiting
  <2>3. QED
    BY <2>1, <2>2
<1>3. ASSUME NEW k \in Msgs, NEW w, w.pc = "wait", msg' = [msg EXCEPT ![k] = w]
      PROVE  FALSE
  BY <1>1, <1>3
<1>4. ~UNCHANGED msg
  OBVIOUS
<1>5. ASSUME NEW f \in Files, Finalize(f) \/ Resend(f) \/ Requeue(f) \/ Delete(f) \/ SendStuck(f)
      PROVE  FALSE
  <2>1. UNCHANGED msg \/ \E k \in Msgs : msg' = [msg EXCEPT ![k] = Fresh(f)]
    BY <1>5 DEF Finalize, Resend, Requeue, Delete, SendStuck
  <2>2. Fresh(f).pc = "wait"
    BY DEF Fresh, Waiting
  <2>3. QED
    BY <1>3, <1>4, <2>1, <2>2
<1>6. ASSUME NEW k \in Msgs, NEW n \in Msgs, Duplicate(k, n)
      PROVE  FALSE
  <2>1. msg' = [msg EXCEPT ![n] = Waiting(msg[k].q, msg[k].file, msg[k].att, msg[k].delay)]
    BY <1>6 DEF Duplicate
  <2>2. Waiting(msg[k].q, msg[k].file, msg[k].att, msg[k].delay).pc = "wait"
    BY DEF Waiting
  <2>3. QED
    BY <1>3, <2>1, <2>2
<1>7. ASSUME NEW k \in Msgs, Late(k)
      PROVE  FALSE
  <2>1. PICK d \in {1, Lease, StuckAfter} : msg' = [msg EXCEPT ![k].delay = d]
    BY <1>7 DEF Late
  <2>2. msg'[m].pc = msg[m].pc
    BY <1>1, <2>1 DEF Messages
  <2>3. QED
    BY <2>2
<1>8. ~ListStuck /\ ~Tick
  BY <1>4 DEF ListStuck, Tick, Elapse
<1>9. PICK k \in Msgs : Deliver(k) \/ Crash(k)
  BY <1>5, <1>6, <1>7, <1>8 DEF Next, Cron
<1>10. k = m
  <2>1. MsgStep(k)
    BY <1>9, HandlerDelivers DEF Delivered
  <2>2. QED
    BY <1>1, <2>1 DEF MsgStep
<1>11. QED
  BY <1>2, <1>9, <1>10
     DEF Deliver, BeginRead, Due, Claim, Analyse, Persist, Fail, DeadFail, Crash, At, Live

\* A dead letter is never let through to analysis_fail while a container works
\* on its file (handleDeadLetter, [M4.5]), whatever Queues repeats or delays, as
\* long as no run outlasts the lease and the owner requeues no file that one of
\* two overlapping deliveries has stored and the other still works on.
THEOREM DeadLettersSpare ==
    ASSUME MaxRun < Lease
    PROVE  Spec /\ [][\A f \in Files : Requeue(f) => Running(f) = {}]_vars => DeadLetterSpares
<1> DEFINE Careful == \A f \in Files : Requeue(f) => Running(f) = {}
           Spares  == \A m \in Msgs : msg[m].q = "dead" /\ msg[m].pc = "wait" /\ msg'[m].pc = "fail"
                                          => Running(msg[m].file) = {}
           Inv     == Typed /\ RunsAreClaimed
<1>1. Init => Inv
  <2>1. Init => \A m \in Msgs : msg[m].pc = "wait"
    BY DEF Init, NoMsg, Waiting
  <2>2. QED
    BY <2>1, InitTyped DEF RunsAreClaimed, At
<1>2. Inv /\ [Next]_vars /\ [Careful]_vars => Inv'
  <2>1. CASE UNCHANGED vars
    BY <2>1, TypedStep DEF vars, RunsAreClaimed, At, Live
  <2>2. CASE ~UNCHANGED vars
    BY <2>2, TypedStep, ClaimsStep
  <2>3. QED
    BY <2>1, <2>2
<1>3. Inv /\ [Next]_vars => [Spares]_vars
  <2> SUFFICES ASSUME Inv, Next, NEW m \in Msgs,
                      msg[m].q = "dead", msg[m].pc = "wait", msg'[m].pc = "fail",
                      NEW n \in Running(msg[m].file)
               PROVE  FALSE
    OBVIOUS
  <2>1. DeadLook(m) /\ ~Retry(m) /\ ~Ack(m)
    BY OnlyLookPasses
  <2>2. /\ state[msg[m].file] \in {"received", "analysing"}
        /\ ~(state[msg[m].file] = "analysing" /\ age[msg[m].file] < Lease)
    BY <2>1 DEF DeadLook
  <2>3. n \in Msgs /\ At(n, "run") /\ msg[n].file = msg[m].file
    BY DEF Running
  <2>4. /\ state[msg[m].file] = "analysing" /\ age[msg[m].file] =< msg[n].t
    BY <2>2, <2>3 DEF RunsAreClaimed
  <2>5. msg[n].t =< MaxRun /\ msg[n].t \in Nat /\ MaxRun \in Nat /\ Lease \in Nat
    BY <2>3, AnalysisAssumption DEF Typed, TypeOK, Messages
  <2>6. age[msg[m].file] \in Nat
    <3>1. msg[m].file \in Files
      BY SlotFacts DEF Free
    <3>2. QED
      BY <3>1, AnalysisAssumption DEF Typed, TypeOK
  <2>7. QED
    BY <2>2, <2>4, <2>5, <2>6
<1>4. QED
  BY <1>1, <1>2, <1>3, PTL DEF Spec, DeadLetterSpares
=============================================================================
