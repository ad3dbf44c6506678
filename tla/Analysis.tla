------------------------------ MODULE Analysis ------------------------------
(***************************************************************************)
(* Analysis of received files: the queue localchune-analyze and its        *)
(* dead-letter queue, the consumer that claims a file, runs the container  *)
(* and stores or fails the result (workers/analysis/src/consumer.ts), the  *)
(* analysis_* database functions, and the hourly cron that sends a stuck   *)
(* file again (requeueStuck, workers/maintenance/src/index.ts).            *)
(*                                                                         *)
(* Time is what this code is about: a ten-minute lease on a claim, a       *)
(* back-off of one to five minutes, an hour before a row counts as stuck.  *)
(* One Tick is a minute, and all the constants below are in minutes.  What *)
(* a handler does between two awaits on the database takes no time, so     *)
(* Tick waits for it; the container's run takes up to MaxRun.              *)
(*                                                                         *)
(* Queues is at-least-once and may fail: a call may throw before or after  *)
(* its transaction commits, an invocation may die, a message may arrive    *)
(* late or twice.  Two budgets bound these: faults counts what breaks one  *)
(* delivery, extra what puts a second message or a late one in play.       *)
(*                                                                         *)
(* Left out: malformed messages, which are acked at once; what the result  *)
(* says; the matcher run after a result is stored, which never touches     *)
(* files.state and whose failure is swallowed.                             *)
(***************************************************************************)
EXTENDS Naturals, FiniteSets

CONSTANTS
    Files,
    NoFile,
    Msgs,           \* slots for messages in the two queues
    Poisoned,       \* files whose analysis throws on every attempt
    Lease,          \* analysis_begin's ten minutes, ANALYSIS_LEASE_MS
    StuckAfter,     \* STUCK_OLDER_THAN, an hour
    CronEvery,      \* the cron trigger of requeueStuck, hourly
    MaxRetries,     \* max_retries of localchune-analyze
    DeadRetries,    \* max_retries of localchune-analyze-dlq
    OkFalseMax,     \* OK_FALSE_MAX_ATTEMPTS
    MaxDelay,       \* the cap of retry()'s back-off, 300 s
    MaxRun,         \* bound: the longest container run
    MaxFaults,      \* bound: calls that throw, invocations that die
    MaxExtra        \* bound: late or repeated messages, requeues

ASSUME AnalysisAssumption ==
    /\ NoFile \notin Files
    /\ Poisoned \subseteq Files
    /\ {Lease, StuckAfter, CronEvery, MaxRetries, DeadRetries, OkFalseMax, MaxDelay,
        MaxRun, MaxFaults, MaxExtra} \subseteq Nat
    /\ Lease < StuckAfter
    /\ MaxDelay =< StuckAfter
    /\ DeadRetries =< MaxRetries

VARIABLES
    state,    \* files.state
    age,      \* minutes since state_changed_at, no further than StuckAfter
    msg,      \* the messages and what their delivery is doing
    listed,   \* the rows analysis_stuck returned and the cron has yet to send
    cronIn,   \* minutes before the cron may run again
    faults,   \* faults so far, against MaxFaults
    extra     \* surplus messages so far, against MaxExtra

vars == <<state, age, msg, listed, cronIn, faults, extra>>

FS == INSTANCE FileState WITH Files <- Files, state <- state

Queues == {"none", "main", "dead"}
Pcs    == {"wait", "claim", "run", "persist", "fail"}

\* att is message.attempts; delay the minutes until the message is delivered; t
\* the minutes its container has been running.
Messages == [q : Queues, file : Files \cup {NoFile}, att : 1..(MaxRetries + 1),
             delay : 0..StuckAfter, pc : Pcs, t : 0..MaxRun]

Waiting(q, f, att, delay) ==
    [q |-> q, file |-> f, att |-> att, delay |-> delay, pc |-> "wait", t |-> 0]
NoMsg    == Waiting("none", NoFile, 1, 0)
Fresh(f) == Waiting("main", f, 1, 0)

TypeOK ==
    /\ state \in [Files -> FS!States]
    /\ age \in [Files -> 0..StuckAfter]
    /\ msg \in [Msgs -> Messages]
    /\ listed \subseteq Files
    /\ cronIn \in 0..CronEvery
    /\ faults \in 0..MaxFaults
    /\ extra \in 0..MaxExtra

\* ingest_finalize has just committed; enqueueAnalysis is about to be called.
Init ==
    /\ state = [f \in Files |-> "uploading"]
    /\ age = [f \in Files |-> 0]
    /\ msg = [m \in Msgs |-> NoMsg]
    /\ listed = {}
    /\ cronIn = 0
    /\ faults = 0
    /\ extra = 0

-----------------------------------------------------------------------------
Free(m)       == msg[m].q = "none"
Live(m)       == msg[m].q = "main"
At(m, pc)     == Live(m) /\ msg[m].pc = pc
Due(m)        == At(m, "wait") /\ msg[m].delay = 0
Running(f)    == {m \in Msgs : msg[m].file = f /\ At(m, "run")}
Goto(m, pc)   == msg' = [msg EXCEPT ![m].pc = pc]
Ack(m)        == msg' = [msg EXCEPT ![m] = NoMsg]
NoFault       == UNCHANGED faults
Fault         == faults < MaxFaults /\ faults' = faults + 1
Surplus       == extra < MaxExtra /\ extra' = extra + 1

\* Mutant: the state of the wrong vocabulary.
SetStateDone(f, moves, to) ==
    /\ <<state[f], to>> \in moves
    /\ state' = [state EXCEPT ![f] = IF to = "stored" THEN "done" ELSE to]
    /\ age' = [age EXCEPT ![f] = 0]

\* ingest_set_state, which restarts the row's clock.
SetState(f, moves, to) ==
    /\ <<state[f], to>> \in moves
    /\ state' = [state EXCEPT ![f] = to]
    /\ age' = [age EXCEPT ![f] = 0]

\* Mutant: the back-off doubles and has no cap.
RetryDelayDoubling(att) == 2 ^ att

\* retry(): one minute per attempt, five at most.
RetryDelay(att) == IF att < MaxDelay THEN att ELSE MaxDelay

\* What Queues makes of a delivery that was not acked: the next attempt after a
\* delay, and after the last one the dead-letter queue, which itself drops.
Again(r, delay) ==
    LET last == IF r.q = "main" THEN MaxRetries + 1 ELSE DeadRetries + 1 IN
    IF r.att < last
      THEN Waiting(r.q, r.file, r.att + 1, delay)
    ELSE IF r.q = "main"
      THEN Waiting("dead", r.file, 1, 0)
    ELSE NoMsg

Retry(m) == msg' = [msg EXCEPT ![m] = Again(@, RetryDelay(@.att))]

\* A call that throws: its transaction has committed, or not.
Throws(m, f, moves, to) ==
    /\ Fault
    /\ Retry(m)
    /\ SetState(f, moves, to) \/ UNCHANGED <<state, age>>

-----------------------------------------------------------------------------
(* Producers: complete, the owner's requeue, and the queue itself.         *)

\* ingest_finalize and the send after it; enqueueAnalysis swallows a failed send.
Finalize(f) ==
    /\ state[f] = "uploading"
    /\ SetState(f, FS!FinalizeMoves, "received")
    /\ \/ NoFault /\ \E m \in Msgs : Free(m) /\ msg' = [msg EXCEPT ![m] = Fresh(f)]
       \/ Fault /\ UNCHANGED msg
    /\ UNCHANGED <<listed, cronIn, extra>>

\* A repeated complete finds the row received and sends again.
Resend(f) ==
    /\ state[f] = "received"
    /\ Surplus
    /\ \E m \in Msgs : Free(m) /\ msg' = [msg EXCEPT ![m] = Fresh(f)]
    /\ UNCHANGED <<state, age, listed, cronIn, faults>>

\* analysis_requeue, and the send its caller makes.
Requeue(f) ==
    /\ Surplus
    /\ SetState(f, FS!RequeueMoves, "received")
    /\ \E m \in Msgs : Free(m) /\ msg' = [msg EXCEPT ![m] = Fresh(f)]
    /\ UNCHANGED <<listed, cronIn, faults>>

\* upload_delete.
Delete(f) ==
    /\ Surplus
    /\ SetState(f, FS!DeleteMoves, "deleted")
    /\ UNCHANGED <<msg, listed, cronIn, faults>>

\* At-least-once: the queue delivers a message a second time, or holds it back a
\* minute, past the lease or past the hour.
Duplicate(m, n) ==
    /\ ~Free(m) /\ Free(n)
    /\ Surplus
    /\ LET r == msg[m] IN msg' = [msg EXCEPT ![n] = Waiting(r.q, r.file, r.att, r.delay)]
    /\ UNCHANGED <<state, age, listed, cronIn, faults>>

Late(m) ==
    /\ ~Free(m)
    /\ msg[m].pc = "wait" /\ msg[m].delay = 0
    /\ Surplus
    /\ \E d \in {1, Lease, StuckAfter} : msg' = [msg EXCEPT ![m].delay = d]
    /\ UNCHANGED <<state, age, listed, cronIn, faults>>

-----------------------------------------------------------------------------
(* handleMessage: begin (a SELECT, then an UPDATE), analyse, persist/fail. *)

\* analysis_begin's SELECT takes no lock, so what it saw may be out of date when
\* its UPDATE runs.
BeginRead(m) ==
    LET f == msg[m].file
        leased == state[f] = "analysing" /\ age[f] < Lease
    IN
    /\ Due(m)
    /\ \/ leased /\ NoFault /\ Retry(m)                          \* 'busy'
       \/ ~leased /\ state[f] \in {"received", "analysing"} /\ NoFault /\ Goto(m, "claim")
       \/ state[f] \notin {"received", "analysing"} /\ NoFault /\ Ack(m)
       \/ Fault /\ Retry(m)
    /\ UNCHANGED <<state, age, listed, cronIn, extra>>

Claim(m) ==
    LET f == msg[m].file IN
    /\ At(m, "claim")
    /\ \/ SetState(f, FS!AnalysisBeginMoves, "analysing") /\ NoFault /\ Goto(m, "run")
       \/ /\ <<state[f], "analysing">> \notin FS!AnalysisBeginMoves
          /\ NoFault /\ Retry(m)
          /\ UNCHANGED <<state, age>>
       \/ Throws(m, f, FS!AnalysisBeginMoves, "analysing")
    /\ UNCHANGED <<listed, cronIn, extra>>

\* The container's answer: a result, ok:false, a throw, or a missing object.
Analyse(m) ==
    LET f == msg[m].file IN
    /\ At(m, "run")
    /\ \/ f \notin Poisoned /\ NoFault /\ Goto(m, "persist")
       \/ /\ f \notin Poisoned /\ NoFault
          /\ IF msg[m].att < OkFalseMax THEN Retry(m) ELSE Goto(m, "fail")
       \/ f \notin Poisoned /\ NoFault /\ Goto(m, "fail")
       \/ f \notin Poisoned /\ Fault /\ Retry(m)
       \/ f \in Poisoned /\ NoFault /\ Retry(m)
    /\ UNCHANGED <<state, age, listed, cronIn, extra>>

\* Mutant: the result is written whatever state the row is in.
PersistAnyState(m) ==
    /\ At(m, "persist")
    /\ state' = [state EXCEPT ![msg[m].file] = "stored"]
    /\ age' = [age EXCEPT ![msg[m].file] = 0]
    /\ Ack(m)
    /\ UNCHANGED <<listed, cronIn, faults, extra>>

Persist(m) ==
    LET f == msg[m].file IN
    /\ At(m, "persist")
    /\ \/ SetState(f, FS!PersistMoves, "stored") /\ NoFault /\ Ack(m)
       \/ /\ <<state[f], "stored">> \notin FS!PersistMoves
          /\ NoFault /\ Retry(m)
          /\ UNCHANGED <<state, age>>
       \/ Throws(m, f, FS!PersistMoves, "stored")
    /\ UNCHANGED <<listed, cronIn, extra>>

Fail(m) ==
    LET f == msg[m].file IN
    /\ At(m, "fail")
    /\ \/ SetState(f, FS!AnalysisFailMoves, "failed") /\ NoFault /\ Ack(m)
       \/ /\ <<state[f], "failed">> \notin FS!AnalysisFailMoves
          /\ NoFault /\ Retry(m)
          /\ UNCHANGED <<state, age>>
       \/ Throws(m, f, FS!AnalysisFailMoves, "failed")
    /\ UNCHANGED <<listed, cronIn, extra>>

\* The invocation dies; Queues delivers again at once.
Crash(m) ==
    /\ ~Free(m)
    /\ msg[m].pc # "wait"
    /\ Fault
    /\ msg' = [msg EXCEPT ![m] = Again(@, 0)]
    /\ UNCHANGED <<state, age, listed, cronIn, extra>>

-----------------------------------------------------------------------------
(* handleDeadLetter: look, and fail only what nobody holds.                *)

\* Mutant: anything in received or analysing is failed, as before [M4.5].
DeadLookIgnoresLease(m) ==
    /\ msg[m].q = "dead" /\ msg[m].pc = "wait" /\ msg[m].delay = 0
    /\ IF state[msg[m].file] \in {"received", "analysing"} THEN Goto(m, "fail") ELSE Ack(m)
    /\ UNCHANGED <<state, age, listed, cronIn, faults, extra>>

DeadLook(m) ==
    LET f == msg[m].file
        refused == \/ state[f] \notin {"received", "analysing"}
                   \/ state[f] = "analysing" /\ age[f] < Lease
    IN
    /\ msg[m].q = "dead" /\ msg[m].pc = "wait" /\ msg[m].delay = 0
    /\ \/ refused /\ NoFault /\ Ack(m)
       \/ ~refused /\ NoFault /\ Goto(m, "fail")
       \/ Fault /\ Retry(m)
    /\ UNCHANGED <<state, age, listed, cronIn, extra>>

DeadFail(m) ==
    LET f == msg[m].file IN
    /\ msg[m].q = "dead" /\ msg[m].pc = "fail"
    /\ \/ SetState(f, FS!AnalysisFailMoves, "failed") /\ NoFault /\ Ack(m)
       \/ /\ <<state[f], "failed">> \notin FS!AnalysisFailMoves
          /\ NoFault /\ Retry(m)
          /\ UNCHANGED <<state, age>>
       \/ Throws(m, f, FS!AnalysisFailMoves, "failed")
    /\ UNCHANGED <<listed, cronIn, extra>>

-----------------------------------------------------------------------------
(* requeueStuck, hourly: one query, then a send per row.  A run that finds *)
(* nothing is not an action; the first run may come at any minute.         *)

\* Mutant: only claimed rows count, so a send that failed is never repeated.
StuckClaimed == {f \in Files : state[f] = "analysing" /\ age[f] = StuckAfter}

Stuck == {f \in Files : state[f] \in {"received", "analysing"} /\ age[f] = StuckAfter}

ListStuck ==
    /\ listed = {}
    /\ cronIn = 0
    /\ Stuck # {}
    /\ \E m \in Msgs : Free(m)     \* a bound of the model, not of the queue
    /\ listed' = Stuck
    /\ cronIn' = CronEvery
    /\ UNCHANGED <<state, age, msg, faults, extra>>

SendStuck(f) ==
    /\ f \in listed
    /\ listed' = listed \ {f}
    /\ \/ \E m \in Msgs : Free(m) /\ NoFault /\ msg' = [msg EXCEPT ![m] = Fresh(f)]
       \/ (\A m \in Msgs : ~Free(m)) /\ UNCHANGED <<msg, faults>>
       \/ Fault /\ UNCHANGED msg
    /\ UNCHANGED <<state, age, cronIn, extra>>

-----------------------------------------------------------------------------
\* A handler in the middle of its awaits, and a message that is due, hold time
\* back: the queue delivers promptly unless Late says otherwise.
Urgent(m) ==
    /\ ~Free(m)
    /\ \/ msg[m].pc \in {"claim", "persist", "fail"}
       \/ msg[m].pc = "run" /\ msg[m].t = MaxRun
       \/ msg[m].pc = "wait" /\ msg[m].delay = 0

\* What a minute does to a message.
Elapse(r) ==
    [q |-> r.q, file |-> r.file, att |-> r.att, pc |-> r.pc,
     delay |-> IF r.delay > 0 THEN r.delay - 1 ELSE 0,
     t |-> IF r.pc = "run" THEN r.t + 1 ELSE r.t]

Tick ==
    /\ \A m \in Msgs : ~Urgent(m)
    /\ listed = {}
    /\ age' = [f \in Files |-> IF age[f] < StuckAfter THEN age[f] + 1 ELSE age[f]]
    /\ msg' = [m \in Msgs |-> Elapse(msg[m])]
    /\ cronIn' = IF cronIn > 0 THEN cronIn - 1 ELSE 0
    /\ UNCHANGED <<state, listed, faults, extra>>

Deliver(m) ==
    \/ BeginRead(m) \/ Claim(m) \/ Analyse(m) \/ Persist(m) \/ Fail(m)
    \/ DeadLook(m) \/ DeadFail(m)

Cron == ListStuck \/ \E f \in Files : SendStuck(f)

Next ==
    \/ \E f \in Files : Finalize(f) \/ Resend(f) \/ Requeue(f) \/ Delete(f)
    \/ \E m \in Msgs : Deliver(m) \/ Crash(m) \/ Late(m)
    \/ \E m, n \in Msgs : Duplicate(m, n)
    \/ Cron
    \/ Tick

Spec == Init /\ [][Next]_vars

(***************************************************************************)
(* Fairness: time passes, the queue delivers, an invocation goes on to its *)
(* end or dies, and the cron trigger fires.  Nothing is owed by members.   *)
(***************************************************************************)
Fairness ==
    /\ WF_vars(Tick)
    /\ \A m \in Msgs : WF_vars(Deliver(m))
    /\ WF_vars(Cron)

FairSpec == Spec /\ Fairness

-----------------------------------------------------------------------------
\* As long as Queues delivers each message once and on time, and nobody sends one
\* by hand, the cron never puts a second message beside one that is still being
\* retried: an hour outlasts six deliveries, their back-off and the dead letter
\* ("re-enqueueing is safe to repeat" is then never needed).
OneMessagePerFile ==
    extra = 0 => \A m, n \in Msgs : ~Free(m) /\ ~Free(n) /\ msg[m].file = msg[n].file
                                        => m = n

\* Inside the lease a claim keeps every other delivery off the file, so the
\* container works on it once (migration 10, [F4]).
OneRun == \A f \in Files : Cardinality(Running(f)) <= 1

\* A dead letter is never let through to analysis_fail while another delivery's
\* container is working on the file: it looks first, and the lease outlasts a run
\* (consumer.ts, [M4.5]).
DeadLetterSpares ==
    [][\A m \in Msgs : msg[m].q = "dead" /\ msg[m].pc = "wait" /\ msg'[m].pc = "fail"
                          => Running(msg[m].file) = {}]_vars

\* A file does not stay received or analysing for ever.
Settles ==
    \A f \in Files : state[f] \in {"received", "analysing"}
                        ~> state[f] \notin {"received", "analysing"}

\* The consumer and the cron move files.state only along FileState's table: a
\* dead letter never undoes a stored file, a late claim never drags one back.
\* (The model starts where the upload has got to: a row in uploading.)
FSNext == [][FS!Next]_state
=============================================================================
