------------------------------ MODULE Preflight ------------------------------
(***************************************************************************)
(* What the browser finds out about a picked file before it uploads it     *)
(* (lib/preflight.ts, lib/preflight.worker.ts, lib/upload-policy.ts): the  *)
(* duration its header states, read in one Web Worker for all files, one   *)
(* file after another, with a time limit; and the verdict.                 *)
(*                                                                         *)
(* music-metadata is not modelled: a parse answers with some header, or    *)
(* fails, or never ends, or takes the worker down with it.                 *)
(***************************************************************************)
EXTENDS Integers, Sequences, FiniteSets

CONSTANTS
    Picked,      \* files being checked
    MaxBreaks    \* bound: workers that break while no file is read

\* What a header holds: its duration, under or over MAX_DURATION_MS; a bitrate
\* alone; nothing of use.  And the parses that do not answer.
Headers == {"short", "long", "bitrate", "nothing"}
Parses == Headers \cup {"fails", "hangs", "crashes"}

VARIABLES
    supported,   \* ~workerUnavailable
    worker,      \* which worker there is, 0 for null
    broken,      \* workers that answer no more
    chain,       \* reads waiting for the one before
    reading,     \* the reads under way: [file, worker], 0 for an inline parse
    parsed,      \* file -> what its parse came to, "unread" before
    answer,      \* file -> what readDurationMs resolved to, NoAnswer before
    workers,     \* workers so far
    breaks,      \* of them, those that broke while idle
    cut          \* history: files whose worker was broken before it parsed them

preflightVars == <<supported, worker, broken, chain, reading, parsed, answer, workers,
                   breaks, cut>>

NoAnswer == [duration |-> "none", source |-> "none"]

PreflightInit ==
    /\ supported \in BOOLEAN
    /\ worker = 0 /\ broken = {} /\ workers = 0 /\ breaks = 0
    /\ chain = <<>> /\ reading = {} /\ cut = {}
    /\ parsed = [f \in Picked |-> "unread"] /\ answer = [f \in Picked |-> NoAnswer]

\* classifyDuration: the duration of the header, else an estimate.
ClassifyDuration(header) ==
    CASE header \in {"short", "long"} -> [duration |-> header, source |-> "header"]
      [] header = "bitrate"           -> [duration |-> "guess", source |-> "estimate"]
      [] header = "nothing"           -> [duration |-> "null", source |-> "unknown"]

UnknownDuration == [duration |-> "null", source |-> "unknown"]

\* preflight: the first reason there is to skip a file.
Verdict(file, duration) ==
    CASE ~file.audio                                     -> "unsupported_container"
      [] file.audio /\ file.size = "empty"               -> "empty"
      [] file.audio /\ file.size # "empty" /\ duration = "long" -> "too_long"
      [] file.audio /\ file.size = "large" /\ duration # "long" -> "too_large"
      [] file.audio /\ file.size = "fits" /\ duration # "long"  -> "none"

\* preflightFile: only a duration of the header is judged, and only it is sent.
PreflightFile(file, read) ==
    LET trusted == IF read.source = "header" THEN read.duration ELSE "null"
    IN  [clientDuration |-> trusted, reason |-> Verdict(file, trusted)]

\* readDurationMs: the read joins the chain.
ReadDuration(f) ==
    /\ parsed[f] = "unread" /\ answer[f] = NoAnswer
    /\ f \notin {chain[i] : i \in DOMAIN chain} \cup {r.file : r \in reading}
    /\ chain' = Append(chain, f)
    /\ UNCHANGED <<supported, worker, broken, reading, parsed, answer, workers, breaks, cut>>

\* getWorker: the one there is, or a new one, if the browser has any.
GetWorker ==
    IF ~supported \/ worker # 0 THEN UNCHANGED <<worker, workers>>
    ELSE worker' = workers + 1 /\ workers' = workers + 1

\* warmPreflightWorker: the pointer is over the drop zone, or the focus in it.
WarmPreflightWorker ==
    /\ supported /\ worker = 0
    /\ GetWorker
    /\ UNCHANGED <<supported, broken, chain, reading, parsed, answer, breaks, cut>>

\* Mutant: a read does not wait for the one before.
ReadBeginsAtOnce ==
    /\ chain # <<>>
    /\ chain' = Tail(chain)
    /\ GetWorker
    /\ reading' = reading \cup {[file |-> Head(chain), worker |-> worker']}
    /\ cut' = IF worker' \in broken THEN cut \cup {Head(chain)} ELSE cut
    /\ UNCHANGED <<supported, broken, parsed, answer, breaks>>

\* The read before has settled: the next file is posted to the worker.
ReadBegins ==
    /\ chain # <<>> /\ reading = {}
    /\ chain' = Tail(chain)
    /\ GetWorker
    /\ reading' = {[file |-> Head(chain), worker |-> worker']}
    /\ cut' = IF worker' \in broken THEN cut \cup {Head(chain)} ELSE cut
    /\ UNCHANGED <<supported, broken, parsed, answer, breaks>>

\* The worker takes the file up.  One that crashes takes every file it was
\* given with it: each read hears the error.
Parse(r, outcome) ==
    /\ r \in reading /\ parsed[r.file] = "unread" /\ r.worker \notin broken
    /\ outcome \in {"hangs", "crashes"} => r.worker # 0
    /\ parsed' = [parsed EXCEPT ![r.file] = outcome]
    /\ IF outcome = "crashes"
       THEN LET lost == {q \in reading : q.worker = r.worker}
            IN  /\ answer' = [f \in Picked |-> IF \E q \in lost : q.file = f
                                               THEN UnknownDuration ELSE answer[f]]
                /\ reading' = reading \ lost
                /\ broken' = broken \cup {r.worker} /\ worker' = 0
       ELSE UNCHANGED <<answer, reading, broken, worker>>
    /\ UNCHANGED <<supported, chain, workers, breaks, cut>>

\* Its message arrives, with the id of the read.
Answers(r) ==
    /\ r \in reading /\ parsed[r.file] \in Headers \cup {"fails"} /\ r.worker \notin broken
    /\ answer' = [answer EXCEPT ![r.file] =
                     IF parsed[r.file] = "fails" THEN UnknownDuration
                     ELSE ClassifyDuration(parsed[r.file])]
    /\ reading' = reading \ {r}
    /\ UNCHANGED <<supported, worker, broken, chain, parsed, workers, breaks, cut>>

\* PARSE_TIMEOUT_MS: the worker is terminated, whatever else it has to do.
TimesOut(r) ==
    /\ r \in reading
    /\ parsed[r.file] = "hangs" \/ r.worker \in broken
    /\ answer' = [answer EXCEPT ![r.file] = UnknownDuration]
    /\ reading' = reading \ {r}
    /\ broken' = broken \cup ({worker} \ {0}) /\ worker' = 0
    /\ UNCHANGED <<supported, chain, parsed, workers, breaks, cut>>

\* A worker breaks (its bundle does not load) when nobody listens.
Breaks ==
    /\ breaks < MaxBreaks /\ breaks' = breaks + 1
    /\ worker \notin broken \cup {0} /\ reading = {}
    /\ broken' = broken \cup {worker}
    /\ UNCHANGED <<supported, worker, chain, reading, parsed, answer, workers, cut>>

PreflightNext ==
    \/ \E f \in Picked : ReadDuration(f)
    \/ WarmPreflightWorker
    \/ ReadBegins
    \/ \E r \in reading : Answers(r) \/ TimesOut(r)
    \/ \E r \in reading, outcome \in Parses : Parse(r, outcome)
    \/ Breaks

PreflightSpec == PreflightInit /\ [][PreflightNext]_preflightVars

PreflightTypeOK ==
    /\ worker \in 0 .. workers /\ broken \subseteq 1 .. workers
    /\ \A r \in reading : r.file \in Picked /\ r.worker \in 0 .. workers
    /\ \A f \in Picked : parsed[f] \in Parses \cup {"unread"}

\* One bad file costs no other its duration: whatever times out, crashes or
\* fails to parse, a file's answer is what its own header says, and a broken
\* worker costs the duration of one file at most.  No file is skipped for its
\* length, and no length is sent, unless its header states it
\* (upload-policy.ts:128).
ReadTellsHeader ==
    /\ \A f \in Picked : (answer[f] # NoAnswer /\ f \notin cut) =>
           /\ parsed[f] # "unread"
           /\ answer[f] = IF parsed[f] \in Headers THEN ClassifyDuration(parsed[f])
                          ELSE UnknownDuration
    /\ Cardinality(cut) <= breaks
    /\ \A f \in Picked, audio \in BOOLEAN, size \in {"empty", "fits", "large"} :
           answer[f] # NoAnswer =>
               LET check == PreflightFile([audio |-> audio, size |-> size], answer[f])
               IN  /\ check.reason = "too_long" => parsed[f] = "long"
                   /\ parsed[f] = "long" /\ f \notin cut => check.reason # "none"
                   /\ check.clientDuration # "null" => check.clientDuration = parsed[f]
                   /\ check.reason = "none" => audio /\ size = "fits"
=============================================================================
