--------------------------- MODULE ModelTraining ----------------------------
(***************************************************************************)
(* Training the event model (events/train.py) and its checkpoint           *)
(* (events/checkpoint.py): the split by player, the epochs with gradient   *)
(* accumulation and early stopping, the two files that are written under   *)
(* one name by one run after the other, and the detector that reads them.  *)
(*                                                                         *)
(* Weights are the epoch they have been trained to; a loss is a number of  *)
(* minimum improvements, or NaN.                                           *)
(***************************************************************************)
EXTENDS Integers, FiniteSets, SequencesExt, PlayerSplits

CONSTANTS
  Rosters,      (* The samples: player to [clips, windows].                 *)
  Ratios,       (* [train, val, test], percentages.                         *)
  Losses,       (* The validation losses an epoch may end with.             *)
  BatchSize,    (* batch_size.                                              *)
  Patience,     (* early_stopping_patience.                                 *)
  MaxEpochs,    (* max_epochs.                                              *)
  MaxRuns,      (* Bound: the calls of train_model.                         *)
  NaN,
  None

VARIABLES
  roster,       (* The samples of this run.                                 *)
  phase,        (* Where train_model, or the saving after it, is.           *)
  splits,       (* The split of each player.                                *)
  todo,         (* The windows of the epoch that have not been seen.        *)
  pending,      (* Those whose gradient no step has applied yet.            *)
  applied,      (* Those whose gradient has been applied in this epoch.     *)
  losses,       (* val_loss_history.                                        *)
  best,         (* [epoch, loss] of the best epoch so far.                  *)
  stale,        (* epochs_without_improvement.                              *)
  weights,      (* The epoch the model's weights are of.                    *)
  run,          (* The number of this call of train_model.                  *)
  files,        (* The run the .pt and the .json file are of, or None.      *)
  torn,         (* Whether a run has died between the two files.            *)
  served        (* The runs of the two halves of a loaded detector, or None. *)

trainVars == <<roster, splits, todo, pending, applied, losses, best, stale, weights>>
vars == <<trainVars, phase, run, files, torn, served>>

\* The players of split s, where of is the assignment.
Players(of, s) == {p \in DOMAIN of : of[p] = s}

\* _build_windows: the windows of a split, numbered.
WindowsOf(samples, of, s) == 1 .. MapThenSumSet(LAMBDA p : samples[p].windows, Players(of, s))

Loss == Nat \cup {NaN}

TypeOK ==
  /\ roster \in Rosters /\ run \in 0 .. MaxRuns
  /\ phase \in {"idle", "split", "train", "validate", "trained", "saving"}
  /\ splits = <<>> \/ splits \in [DOMAIN roster -> Splits]
  /\ {todo, pending, applied} \subseteq SUBSET Nat
  /\ losses \in Seq(Loss) /\ Len(losses) <= MaxEpochs
  /\ best.epoch \in 0 .. MaxEpochs /\ stale \in 0 .. Patience /\ weights \in 0 .. MaxEpochs
  /\ files \in [pt : 1 .. MaxRuns \cup {None}, json : 1 .. MaxRuns \cup {None}]
  /\ torn \in BOOLEAN

Fresh ==
  /\ splits = <<>> /\ todo = {} /\ pending = {} /\ applied = {} /\ losses = <<>>
  /\ best = [epoch |-> 0, loss |-> None] /\ stale = 0 /\ weights = 0

Init ==
  /\ roster \in Rosters
  /\ Fresh /\ phase = "idle" /\ run = 0
  /\ files = [pt |-> None, json |-> None] /\ torn = FALSE /\ served = None

\* train_model begins with samples of its own.
Begin ==
  /\ phase = "idle" /\ run < MaxRuns
  /\ roster' \in Rosters
  /\ run' = run + 1 /\ phase' = "split"
  /\ splits' = <<>> /\ todo' = {} /\ pending' = {} /\ applied' = {} /\ losses' = <<>>
  /\ best' = [epoch |-> 0, loss |-> None] /\ stale' = 0 /\ weights' = 0
  /\ UNCHANGED <<files, torn, served>>

\* player_grouped_split and assert_no_leakage, and the samples' windows: a run
\* without training or validation windows ends with a ValueError.
Split ==
  /\ phase = "split"
  /\ \E order \in Orders(DOMAIN roster) :
       LET of == Assignment([p \in DOMAIN roster |-> roster[p].clips], order, TrainingOrder, Ratios)
       IN  /\ splits' = of
           /\ IF WindowsOf(roster, of, "train") = {} \/ WindowsOf(roster, of, "val") = {}
              THEN phase' = "idle" /\ UNCHANGED todo
              ELSE phase' = "train" /\ todo' = WindowsOf(roster, of, "train")
  /\ UNCHANGED <<roster, pending, applied, losses, best, stale, weights, run, files, torn, served>>

\* Mutant: what is left of the last batch is forgotten.
FullBatchOnly(batch, rest) == Cardinality(batch) >= BatchSize

\* accumulated >= batch_size, or the last window of the epoch.
StepDue(batch, rest) == Cardinality(batch) >= BatchSize \/ rest = {}

\* _run_epoch with an optimizer: one window, in the shuffled order.
TrainWindow ==
  /\ phase = "train"
  /\ \E w \in todo :
       LET rest == todo \ {w}
           batch == pending \cup {w}
       IN  /\ todo' = rest
           /\ IF StepDue(batch, rest)
              THEN applied' = applied \cup batch /\ pending' = {}
              ELSE pending' = batch /\ UNCHANGED applied
           /\ IF rest = {} THEN phase' = "validate" /\ weights' = Len(losses) + 1
                           ELSE UNCHANGED <<phase, weights>>
  /\ UNCHANGED <<roster, splits, losses, best, stale, run, files, torn, served>>

\* val_loss < best_val_loss - _MIN_IMPROVEMENT: NaN is below nothing.
Improves(loss) == loss # NaN /\ (best.loss = None \/ loss < best.loss - 1)

\* Mutant: one more epoch than the patience allows.
PastPatience(epochs) == epochs > Patience

\* epochs_without_improvement >= patience.
OutOfPatience(epochs) == epochs >= Patience

\* _run_epoch without one, and what becomes of the loss: the best weights are
\* kept, the training stops when its patience is over or the epochs are.
Validate ==
  /\ phase = "validate"
  /\ \E loss \in Losses :
       LET epoch == Len(losses) + 1
           patience == IF Improves(loss) THEN 0 ELSE stale + 1
           stops == epoch = MaxEpochs \/ OutOfPatience(patience)
           kept == IF Improves(loss) THEN [epoch |-> epoch, loss |-> loss] ELSE best
       IN  /\ losses' = Append(losses, loss)
           /\ best' = kept /\ stale' = patience
           /\ phase' = IF stops THEN "trained" ELSE "train"
           /\ weights' = IF stops /\ kept.epoch > 0 THEN kept.epoch ELSE weights
           /\ todo' = IF stops THEN {} ELSE WindowsOf(roster, splits, "train")
           /\ applied' = {}
  /\ UNCHANGED <<roster, splits, pending, run, files, torn, served>>

\* save_checkpoint: the weights, then the sidecar, under one name.
SaveWeights ==
  /\ phase = "trained"
  /\ files' = [files EXCEPT !.pt = run] /\ phase' = "saving"
  /\ UNCHANGED <<trainVars, run, torn, served>>

SaveSidecar ==
  /\ phase = "saving"
  /\ files' = [files EXCEPT !.json = run] /\ phase' = "idle" /\ torn' = FALSE
  /\ UNCHANGED <<trainVars, run, served>>

\* The process dies.
Crash ==
  /\ phase \notin {"idle"}
  /\ phase' = "idle" /\ torn' = (torn \/ phase = "saving")
  /\ UNCHANGED <<trainVars, run, files, served>>

\* load_checkpoint: the sidecar is read first.
LoadSidecar ==
  /\ served = None /\ files.json # None
  /\ served' = [json |-> files.json, pt |-> None, whole |-> phase # "saving" /\ ~torn]
  /\ UNCHANGED <<trainVars, phase, run, files, torn>>

LoadWeights ==
  /\ served # None /\ served.pt = None
  /\ served' = [served EXCEPT !.pt = files.pt]
  /\ UNCHANGED <<trainVars, phase, run, files, torn>>

Next ==
  \/ Begin \/ Split \/ TrainWindow \/ Validate \/ SaveWeights \/ SaveSidecar \/ Crash
  \/ LoadSidecar \/ LoadWeights

Spec == Init /\ [][Next]_vars

-----------------------------------------------------------------------------
\* Every sample is in one split with all of its player's, and as soon as there
\* are players enough no split with a target is left without one.
SplitsArePlayers ==
  splits # <<>> =>
    LET total == MapThenSumSet(LAMBDA p : roster[p].clips, DOMAIN roster)
        wanted == {s \in Splits : TargetCounts(Ratios, total)[s] > 0}
    IN  /\ DOMAIN splits = DOMAIN roster
        /\ Cardinality(DOMAIN roster) >= Cardinality(wanted) => \A s \in wanted : Players(splits, s) # {}

\* Every training window's gradient has been applied, once, when an epoch ends.
EpochsAreWhole ==
  /\ phase = "validate" => applied = WindowsOf(roster, splits, "train") /\ pending = {}
  /\ phase = "train" => /\ {todo, pending, applied} \subseteq SUBSET WindowsOf(roster, splits, "train")
                        /\ todo \cap (pending \cup applied) = {} /\ pending \cap applied = {}

\* The model that comes out is that of an epoch no other was better than by
\* more than the improvement asked for and no earlier one was as good as, and
\* it did not take longer than the patience to see that.  Only when no loss was
\* a number it is the last.
BestIsKept ==
  phase \in {"trained", "saving"} =>
    LET n == Len(losses)
        numbers == {i \in 1 .. n : losses[i] # NaN}
    IN  /\ IF numbers = {} THEN weights = n
           ELSE /\ weights \in numbers
                /\ \A i \in numbers : losses[i] >= losses[weights] - 1
                /\ \A i \in numbers : i < weights => losses[i] > losses[weights]
        /\ n = MaxEpochs \/ n = (IF numbers = {} THEN 0 ELSE weights) + Patience

\* The two files of a checkpoint are of one run but while a run is between
\* them, or when one has died there; what is loaded of a whole pair is of one
\* run, or its weights are of a later one that was saved meanwhile.
PairsAgree ==
  /\ files.pt # files.json => phase = "saving" \/ torn
  /\ served # None /\ served.pt # None /\ served.whole /\ served.pt # served.json =>
       served.pt > served.json

\* No player leaks, no window or epoch is lost, and what is served is what was
\* trained (train_model, save_checkpoint, load_checkpoint).
TrainingIsSound ==
  /\ SplitsArePlayers
  /\ EpochsAreWhole
  /\ BestIsKept
  /\ PairsAgree
=============================================================================
