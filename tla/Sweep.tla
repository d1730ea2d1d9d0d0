-------------------------------- MODULE Sweep --------------------------------
(***************************************************************************)
(* The parameter sweep (scripts/sweep.sh) and the benchmark processes it   *)
(* starts (Benchmark): for every queue and every number of threads a cell  *)
(* of several trials, each with a result file.  A trial whose file exists  *)
(* is skipped, so a sweep that was stopped can be started again.  When a   *)
(* trial fails, by timeout or otherwise, the files of its cell are removed *)
(* and a marker file keeps this and every later sweep from that cell and   *)
(* the ones with more threads.                                             *)
(*                                                                         *)
(* The sweep can be stopped at any point: by SIGINT, which the shell       *)
(* handles between two commands, or together with its benchmark process    *)
(* (a reboot, the end of the session).  Only the files survive.            *)
(***************************************************************************)
EXTENDS Benchmark

CONSTANTS QUEUES,     \* the sequence of the queue classes
          THREADS,    \* the increasing sequence of the thread counts
          TRIALS, TOTAL_OPS,
          MaxStops    \* bound of the model: how often the sweep is stopped

\* Every worker has at least one operation (38400000 for at most 192 threads).
ASSUME SweepAssumption ==
  /\ QUEUES \in Seq(STRING) \ {<<>>} /\ THREADS \in Seq(1..MaxThreads) \ {<<>>}
  /\ \A j, k \in DOMAIN THREADS : j < k => THREADS[j] < THREADS[k]
  /\ {TRIALS, TOTAL_OPS, MaxStops} \subseteq Nat /\ TOTAL_OPS >= MaxThreads

VARIABLES
  file,      \* file[qu, k, r]: the result file of queue qu, THREADS[k], trial r
  marker,    \* marker[qu]: the index of the count in the timeout file, or 0
  shell,     \* the command the script is at
  cur,       \* the variables queue, n_threads (an index) and trial
  sigint,    \* SIGINT has arrived and the trap has not run
  stops,     \* how often the sweep may still be stopped
  torn       \* history: the files that were incomplete when the sweep stopped

files == <<file, marker>>
vars == <<bench, files, shell, cur, sigint, stops, torn>>

Trials == (DOMAIN QUEUES) \X (DOMAIN THREADS) \X (1..TRIALS)
Start == <<1, 1, 0>> \* no trial of the first cell yet
n == THREADS[cur[2]]

\* A benchmark process runs exactly while the script waits for it.
SweepTypeOK ==
  /\ BenchmarkTypeOK
  /\ file \in [Trials -> {"absent", "open", "complete", "wrong"}]
  /\ marker \in [DOMAIN QUEUES -> {0} \union DOMAIN THREADS]
  /\ shell \in {"off", "cell", "trial", "wait", "rm", "echo", "ended"}
  /\ cur \in (DOMAIN QUEUES) \X (DOMAIN THREADS) \X (0..(TRIALS + 1))
  /\ process # "off" <=> shell = "wait"
  /\ sigint \in BOOLEAN /\ stops \in 0..MaxStops /\ torn \subseteq Trials

Init ==
  /\ BenchmarkInit
  /\ file = [f \in Trials |-> "absent"]
  /\ marker = [qu \in DOMAIN QUEUES |-> 0]
  /\ shell = "cell" /\ cur = Start
  /\ sigint = FALSE /\ stops = MaxStops /\ torn = {}

Command(from, to) ==
  /\ shell = from /\ ~sigint
  /\ shell' = to
  /\ UNCHANGED <<sigint, stops, torn>>

\* The next queue, or the end of the script.
NextQueue(from) ==
  /\ Command(from, IF cur[1] < Len(QUEUES) THEN "cell" ELSE "ended")
  /\ cur' = IF cur[1] < Len(QUEUES) THEN <<cur[1] + 1, 1, 0>> ELSE cur

NextCell(from) ==
  \/ /\ cur[2] < Len(THREADS)
     /\ Command(from, "cell")
     /\ cur' = <<cur[1], cur[2] + 1, 0>>
  \/ /\ cur[2] = Len(THREADS)
     /\ NextQueue(from)

\* [ -f "$marker" ] && [ "$n_threads" -ge "$(cat "$marker")" ]; an empty marker
\* makes the comparison an error, which counts as false: 0, as if it were absent.
HasMarker(qu) == marker[qu] # 0
Marked == HasMarker(cur[1]) /\ cur[2] >= marker[cur[1]]

TestMarker ==
  /\ \/ Marked /\ NextCell("cell")
     \/ ~Marked /\ Command("cell", "trial") /\ cur' = [cur EXCEPT ![3] = 1]
  /\ UNCHANGED <<bench, files>>

\* "skip (already done)", or start the benchmark.
Trial ==
  /\ \/ /\ NextCell("trial")
        /\ cur[3] > TRIALS
        /\ UNCHANGED bench
     \/ /\ Command("trial", "trial")
        /\ cur[3] <= TRIALS /\ file[cur] # "absent"
        /\ cur' = [cur EXCEPT ![3] = @ + 1]
        /\ UNCHANGED bench
     \/ /\ Command("trial", "wait")
        /\ cur[3] <= TRIALS /\ file[cur] = "absent"
        /\ Launch(n, TOTAL_OPS \div n)
        /\ UNCHANGED cur
  /\ UNCHANGED files

\* The benchmark runs, and so it does while a SIGINT waits for its end.
RunWorker(t) ==
  /\ shell = "wait"
  /\ Worker(t)
  /\ UNCHANGED <<files, shell, cur, sigint, stops, torn>>

RunMain ==
  /\ shell = "wait"
  /\ OpenOutput
  /\ file' = [file EXCEPT ![cur] = "open"]
  /\ UNCHANGED <<marker, shell, cur, sigint, stops, torn>>

\* It exits with status 0.
Succeeds ==
  /\ shell = "wait"
  /\ CloseOutput
  /\ file' = [file EXCEPT ![cur] = IF SamplesMeasured THEN "complete" ELSE "wrong"]
  /\ shell' = "trial" /\ cur' = [cur EXCEPT ![3] = @ + 1]
  /\ UNCHANGED <<marker, sigint, stops, torn>>

\* Mutant: the marker is written before the cell is wiped.
FailsMarked ==
  /\ shell = "wait" /\ process # "off"
  /\ Exit
  /\ shell' = "rm"
  /\ marker' = [marker EXCEPT ![cur[1]] = cur[2]]
  /\ UNCHANGED <<file, cur, sigint, stops, torn>>

\* timeout(1) ends it after TRIAL_TIMEOUT, or it fails by itself, at any point.
Fails ==
  /\ shell = "wait" /\ process # "off"
  /\ Exit
  /\ shell' = "rm"
  /\ UNCHANGED <<files, cur, sigint, stops, torn>>

\* rm -f removes the files of the cell one after the other.
Rm ==
  \/ \E r \in 1..TRIALS :
       LET f == [cur EXCEPT ![3] = r]
       IN  /\ Command("rm", "rm")
           /\ file[f] # "absent"
           /\ \A s \in 1..(r - 1) : file[[cur EXCEPT ![3] = s]] = "absent"
           /\ file' = [file EXCEPT ![f] = "absent"]
           /\ UNCHANGED <<bench, marker, cur>>
  \/ /\ Command("rm", "echo")
     /\ \A r \in 1..TRIALS : file[[cur EXCEPT ![3] = r]] = "absent"
     /\ UNCHANGED <<bench, files, cur>>

\* echo "$n_threads" > "$marker"; break 2.
EchoMarker ==
  /\ NextQueue("echo")
  /\ marker' = [marker EXCEPT ![cur[1]] = cur[2]]
  /\ UNCHANGED <<bench, file>>

----------------------------------------------------------------------------
(* Stopping and starting again *)

Interrupt ==
  /\ shell \notin {"off", "ended"} /\ ~sigint /\ stops > 0
  /\ sigint' = TRUE /\ stops' = stops - 1
  /\ UNCHANGED <<bench, files, shell, cur, torn>>

Leave ==
  /\ shell' = "off" /\ sigint' = FALSE /\ cur' = Start
  /\ torn' = {f \in Trials : file[f] = "open"}
  /\ UNCHANGED file

\* The trap runs when the current command has ended.
Trap ==
  /\ sigint /\ shell # "wait"
  /\ Leave
  /\ UNCHANGED <<bench, marker, stops>>

\* Mutant: the benchmark process outlives the shell.
KilledAlone ==
  /\ shell \notin {"off", "ended"} /\ stops > 0
  /\ stops' = stops - 1
  /\ Leave
  /\ UNCHANGED <<bench, marker>>

\* The shell and the benchmark process end together; a marker that was being
\* written may be left empty.
Killed ==
  /\ shell \notin {"off", "ended"} /\ stops > 0
  /\ stops' = stops - 1
  /\ Exit
  /\ Leave
  /\ \/ UNCHANGED marker
     \/ shell = "echo" /\ marker' = [marker EXCEPT ![cur[1]] = 0]

Restart ==
  /\ shell = "off"
  /\ shell' = "cell"
  /\ UNCHANGED <<bench, files, cur, sigint, stops, torn>>

Finished == shell = "ended" /\ UNCHANGED vars

Script == TestMarker \/ Trial \/ RunMain \/ Succeeds \/ Rm \/ EchoMarker \/ Trap

Next ==
  \/ Script \/ \E t \in AllWorkers : RunWorker(t)
  \/ Fails \/ Interrupt \/ Killed \/ Restart \/ Finished

\* The operating system runs the script and every worker, and no call of the
\* queue is overtaken for ever, which an unfair mutex does not promise.  Nothing
\* promises a timeout: the benchmark has to end by itself.
Spec ==
  /\ Init /\ [][Next]_vars
  /\ WF_vars(Script) /\ \A t \in AllWorkers : WF_vars(RunWorker(t))

----------------------------------------------------------------------------
(* Properties *)

\* What can be read from the files.  Where a marker stands there is no result
\* of its cell or of one with more threads, wherever earlier sweeps were stopped
\* ("wiping cell and skipping all higher thread counts", sweep.sh:44).  When a
\* sweep has come to its end, every other trial has its file, and the file
\* holds a measurement of every sampled item, unless an earlier sweep was
\* stopped while it was incomplete: "skip (already done)" (sweep.sh:36) takes
\* such a file for a result.
ResultFiles ==
  \A f \in Trials :
    IF HasMarker(f[1]) /\ f[2] >= marker[f[1]]
    THEN file[f] = "absent"
    ELSE shell = "ended" => file[f] = "complete" \/ (file[f] = "open" /\ f \in torn)

\* A sweep that is started ends, unless it is stopped: no worker of a benchmark
\* waits for an item that never comes.
SweepEnds == shell = "cell" ~> shell \in {"ended", "off"}

=============================================================================
