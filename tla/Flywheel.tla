------------------------------ MODULE Flywheel ------------------------------
(***************************************************************************)
(* PredictorTrainer.on_session_saved: improved sessions are counted, the   *)
(* 10th and then every 20th start a training in the one worker process,    *)
(* which writes single_v<n>.json, and the coroutine that waits for it      *)
(* loads the last model file by name into the shared predictor.  A worker  *)
(* may raise or return without a file, and once it has died its pool is    *)
(* broken until the program starts again.                                  *)
(*                                                                         *)
(* run_once waits for its training; other calls of it may go on meanwhile. *)
(***************************************************************************)
EXTENDS Integers, Sequences, FiniteSets

CONSTANTS
  First, Every,   \* 10 and 20 improved sessions
  PerVersion,     \* 10: single_v<samples / 10>.json
  MaxImproved,    \* bound: improved sessions
  MaxJobs,        \* bound: trainings under way
  MaxFailures     \* bound: failed saves and restarts

ASSUME FlywheelAssumption ==
  /\ First \in Nat \ {0} /\ Every \in Nat \ {0} /\ First <= Every
  /\ PerVersion \in Nat \ {0}
  /\ MaxImproved \in Nat /\ MaxJobs \in Nat /\ MaxFailures \in Nat

VARIABLES
  libs,       \* what can be imported of xgboost and sklearn
  improved,   \* session files with outcome improved
  jobs,       \* submitted to the executor, oldest first
  worker,     \* the worker process: what it does with the first of the jobs
  finished,   \* how jobs ended that no coroutine has resumed for yet
  files,      \* files[v]: single_v<v>.json
  predictor,  \* the predictor shared by loop and trainer
  kept,       \* history: samples of the last training that saved its model, 0
              \* when a later write was cut short or the program started again
  failures    \* failed trainings and restarts

fwVars == <<libs, improved, jobs, worker, finished, files, predictor, kept,
            failures>>
-----------------------------------------------------------------------------
Versions == 0..(MaxImproved \div PerVersion)
NoFile   == [state |-> "none", samples |-> 0]
Torn     == [state |-> "torn", samples |-> 0]
Untrained == [trained |-> FALSE, confidence |-> 0, samples |-> 0]
Libraries == {"xgboost", "sklearn"}

FwInit == /\ libs \in SUBSET Libraries
          /\ improved = 0 /\ jobs = <<>> /\ worker = "free" /\ finished = <<>>
          /\ files = [v \in Versions |-> NoFile]
          /\ predictor = Untrained
          /\ kept = 0 /\ failures = 0

\* on_session_saved
Due(n) == n = First \/ (n > First /\ n % Every = 0)

\* A broken pool refuses the job, which nobody hears of.
Submit(n) ==
  IF Due(n) /\ worker # "broken"
    THEN /\ Len(jobs) + Len(finished) < MaxJobs
         /\ jobs' = Append(jobs, n)
    ELSE UNCHANGED jobs

SaveImproved == /\ improved < MaxImproved
                /\ improved' = improved + 1
                /\ Submit(improved + 1)
                /\ UNCHANGED <<libs, worker, finished, files, predictor, kept,
                               failures>>

\* A session that did not improve counts the same files again.
SaveOther == /\ Submit(improved)
             /\ UNCHANGED <<libs, improved, worker, finished, files, predictor,
                            kept, failures>>
-----------------------------------------------------------------------------
(* _train_predictor_worker, in its own process                             *)

Version(samples) == samples \div PerVersion
CanTrain == libs = Libraries
CanLoad  == "xgboost" \in libs

\* The first job ends, and the worker is free for the next.
Ends(how) == /\ jobs' = Tail(jobs)
             /\ finished' = Append(finished, how)
             /\ worker' = "free"
             /\ UNCHANGED <<libs, improved, predictor>>

WorkerStarts == /\ worker = "free" /\ jobs # <<>>
                /\ worker' = "training"
                /\ UNCHANGED <<libs, improved, jobs, finished, files, predictor,
                               kept, failures>>

\* Without the libraries train returns at once and nothing is saved.
WorkerSkips == /\ worker = "training" /\ ~CanTrain
               /\ Ends("returned")
               /\ UNCHANGED <<files, kept, failures>>

\* save makes the model of a version unusable, by its boosters or because
\* write_text truncates the file, before it is whole again.
WorkerWrites == /\ worker = "training" /\ CanTrain
                /\ worker' = "writing"
                /\ files' = [files EXCEPT ![Version(Head(jobs))] = Torn]
                /\ UNCHANGED <<libs, improved, jobs, finished, predictor, kept,
                               failures>>

Saved == [files EXCEPT ![Version(Head(jobs))] =
            [state |-> "good", samples |-> Head(jobs)]]

WorkerSaves == /\ worker = "writing"
               /\ files' = Saved
               /\ kept' = Head(jobs)
               /\ Ends("returned")
               /\ UNCHANGED failures

\* xgb.train or mkdir raises, or save swallows an error of its own before it
\* writes; in the write it leaves the file torn.
WorkerFails == /\ failures < MaxFailures
               /\ failures' = failures + 1
               /\ \/ /\ worker = "training"
                     /\ Ends("raised") \/ Ends("returned")
                     /\ UNCHANGED kept
                  \/ /\ worker = "writing"
                     /\ Ends("returned")
                     /\ kept' = 0
               /\ UNCHANGED files

\* The process is killed: all its jobs raise BrokenProcessPool, also one whose
\* file had just been written.
WorkerDies == /\ worker # "broken" /\ failures < MaxFailures
              /\ failures' = failures + 1
              /\ worker' = "broken"
              /\ jobs' = <<>>
              /\ finished' = finished \o [i \in DOMAIN jobs |-> "raised"]
              /\ \/ worker # "writing" /\ UNCHANGED <<files, kept>>
                 \/ worker = "writing" /\ kept' = 0 /\ files' \in {files, Saved}
              /\ UNCHANGED <<libs, improved, predictor>>
-----------------------------------------------------------------------------
(* Back in the event loop                                                  *)

\* sorted(glob("single_v*.json"), reverse=True)[0]: names compare digit by
\* digit, v9 after v10 (versions below 100).
Lead(v) == IF v < 10 THEN v ELSE v \div 10
NotAfter(v, w) == \/ Lead(v) < Lead(w)
                  \/ Lead(v) = Lead(w) /\ v <= w

OnDisk == {v \in Versions : files[v].state # "none"}
FindLatest_Oldest == CHOOSE v \in OnDisk : \A w \in OnDisk : NotAfter(v, w)
FindLatest        == CHOOSE v \in OnDisk : \A w \in OnDisk : NotAfter(w, v)

\* The labels of every sample are the same three constants: the variance of
\* the held out labels is 0, r2 is 0 and so is the confidence.
Confidence == 0

\* PIDPredictor.load: a file it cannot read gives an untrained predictor,
\* which is copied over the shared one all the same.
Load(file) == IF CanLoad /\ file.state = "good"
                THEN [trained |-> TRUE, confidence |-> Confidence,
                      samples |-> file.samples]
                ELSE Untrained

\* An exception of the worker is passed over, and with it the reload.
Resume == /\ finished # <<>>
          /\ finished' = Tail(finished)
          /\ predictor' = IF Head(finished) = "returned" /\ OnDisk # {}
                            THEN Load(files[FindLatest])
                            ELSE predictor
          /\ UNCHANGED <<libs, improved, jobs, worker, files, kept, failures>>

\* The loop's predictor is not read back from its file.
FwRestart == /\ failures < MaxFailures
             /\ failures' = failures + 1
             /\ libs' \in SUBSET Libraries
             /\ jobs' = <<>> /\ worker' = "free" /\ finished' = <<>>
             /\ predictor' = Untrained
             /\ kept' = 0
             /\ UNCHANGED <<improved, files>>

FwNext == \/ SaveImproved \/ SaveOther
          \/ WorkerStarts \/ WorkerSkips \/ WorkerWrites \/ WorkerSaves
          \/ WorkerFails \/ WorkerDies
          \/ Resume \/ FwRestart

FwSpec == FwInit /\ [][FwNext]_fwVars
-----------------------------------------------------------------------------
(* Properties                                                              *)

Quiet == jobs = <<>> /\ finished = <<>>

\* The last number of improved sessions that is due for a training.
Milestone(n) == IF n < First THEN 0
                ELSE IF n < Every THEN First
                ELSE Every * (n \div Every)

FwTypeOK ==
  /\ libs \subseteq Libraries
  /\ improved \in 0..MaxImproved
  /\ jobs \in Seq(0..MaxImproved) /\ finished \in Seq({"returned", "raised"})
  /\ worker \in {"free", "training", "writing", "broken"}
  /\ worker \in {"training", "writing"} => jobs # <<>>
  /\ files \in [Versions -> [state : {"none", "torn", "good"},
                             samples : 0..MaxImproved]]
  /\ predictor \in [trained : BOOLEAN, confidence : 0..100,
                    samples : 0..MaxImproved]
  /\ kept \in 0..MaxImproved /\ failures \in 0..MaxFailures

\* While the models saved are of fewer than 100 sessions, overlapping trainings
\* end with the last saved one in use, and no later training takes it away
\* again that raises, dies or saves nothing: only one whose write is cut short,
\* or a restart.  Where nothing fails, it is the model of the last milestone.
ModelIsCurrent ==
  Quiet /\ kept < 10 * PerVersion =>
    /\ kept # 0 => predictor.samples = kept
    /\ failures = 0 /\ CanTrain => kept = Milestone(improved)

\* trainer.py:107 _find_latest_model: what is in use is the newest model on
\* disk.
NewestModelInUse ==
  Quiet => \A v \in Versions : files[v].samples <= predictor.samples
=============================================================================
