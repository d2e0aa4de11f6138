-------------------------- MODULE InferenceRuntime --------------------------
(***************************************************************************)
(* The analysis pipeline of a worker process, one job after the other:     *)
(* its stages, the adapters they resolve by name and load through the      *)
(* process's model registry, cancellation and timeout (ml pipeline.py,     *)
(* pipeline_config.py, adapters_registry.py, inference/).                  *)
(*                                                                         *)
(* A model file is its content, and a content is its own checksum.  A      *)
(* process runs one job at a time, so the registry's lock never blocks.    *)
(***************************************************************************)
EXTENDS Integers, FiniteSets, SequencesExt

CONSTANTS
  Settings,     (* The worker's defaults: [adapters, weights, device].      *)
  Overrides,    (* What a job may ask for: [adapters, kwargs, device, fused]. *)
  Contents,     (* What a model file may hold.                              *)
  Corrupt,      (* The contents no loader can read.                         *)
  Paths,        (* The model files.                                         *)
  Environment,  (* The file that the process's environment names for an adapter: *)
                (* by role, by name, one of Paths or None.                  *)
  Hardware,     (* [torch, cuda]: what the process finds.                   *)
  MaxJobs,      (* Bound: the jobs started.                                 *)
  MaxWrites,    (* Bound: the model files written or removed.               *)
  MaxLives,     (* Bound: the times the registry is empty again.            *)
  None

VARIABLES
  disk,         (* The content of each model file, or None.                 *)
  writes,
  cache,        (* ModelRegistry._cache: cache_key to what is loaded.       *)
  life,         (* The number of the registry, process starts and clears counted. *)
  job,          (* The job being run, or None.                              *)
  done          (* How the jobs before it ended.                            *)

vars == <<disk, writes, cache, life, job, done>>

-----------------------------------------------------------------------------
(* adapters_registry.py: what is registered, and the keywords it takes.    *)
Registered ==
  [pose           |-> [mock |-> {}, mediapipe |-> {"model_complexity", "min_detection_confidence"}],
   hand           |-> [mock |-> {}, mediapipe |-> {"min_detection_confidence"}],
   yoyo           |-> [mock |-> {}, pytorch |-> {"weights_path", "device", "batch_size"},
                       onnx |-> {"model_path", "providers"}],
   tracker        |-> [mock |-> {}, kalman |-> {"max_gap_ms", "static_camera", "process_noise",
                                                "measurement_noise"}],
   temporal_event |-> [mock |-> {}, torch |-> {"weights_path", "inference_config", "device"},
                       majority |-> {"majority_family", "majority_outcome", "confidence"},
                       rules |-> {"config", "velocity_high"}],
   rgb            |-> [mock |-> {}],
   string_seg     |-> [mock |-> {}],
   audio          |-> [mock |-> {}]]

Roles == DOMAIN Registered

FusedRoles == {"rgb", "string_seg", "audio"}

\* Which keyword names the file of an adapter, if it has one.
FileKeyword(role, name) ==
  IF "weights_path" \in Registered[role][name] THEN "weights_path"
  ELSE IF "model_path" \in Registered[role][name] THEN "model_path" ELSE None

\* resolve_device.
Resolve(preferred) ==
  IF preferred \in {"auto", "cuda", "gpu"} /\ Hardware.torch /\ Hardware.cuda THEN "cuda" ELSE "cpu"

\* build_default_adapter_kwargs: the settings of an adapter reach the adapter
\* they are meant for, and only if it is the one chosen.
DefaultKwargs(role, name) ==
  LET weights == Settings.weights[role]
  IN  IF role = "tracker" /\ name = "kalman" THEN [max_gap_ms |-> 500, static_camera |-> FALSE]
      ELSE IF role = "temporal_event" /\ name = "torch" /\ weights # None
      THEN [weights_path |-> weights]
      ELSE IF role = "yoyo" /\ name = "pytorch" /\ weights # None THEN [weights_path |-> weights]
      ELSE IF role = "yoyo" /\ name = "onnx" /\ weights # None THEN [model_path |-> weights]
      ELSE <<>>

\* resolve_effective_pipeline_config: what a job leaves open is taken from the
\* settings, its keywords are laid over the default ones.
Effective(o) ==
  LET Name(r) == IF r \in FusedRoles THEN "mock"
                 ELSE IF o.adapters[r] # None THEN o.adapters[r] ELSE Settings.adapters[r]
  IN  [adapters |-> [r \in Roles |-> Name(r)],
       kwargs   |-> [r \in Roles |-> o.kwargs[r] @@ DefaultKwargs(r, Name(r))],
       device   |-> Resolve(IF o.device # None THEN o.device ELSE Settings.device),
       fused    |-> o.fused]

-----------------------------------------------------------------------------
Stages == <<"pose_extraction", "hand_extraction", "yoyo_detection", "tracking", "string_analysis",
            "feature_extraction", "temporal_event_detection", "scoring">>

\* The adapters a stage resolves, in order.
RolesOf(stage, config) ==
  CASE stage = "pose_extraction"          -> <<"pose">>
    [] stage = "hand_extraction"          -> <<"hand">>
    [] stage = "yoyo_detection"           -> <<"yoyo">>
    [] stage = "tracking"                 -> <<"tracker">>
    [] stage = "feature_extraction"       -> IF config.fused THEN <<"rgb", "string_seg", "audio">> ELSE <<>>
    [] stage = "temporal_event_detection" -> <<"temporal_event">>
    [] OTHER                              -> <<>>

\* _create_adapter: the keywords of an adapter.  The device goes to every one
\* that is not a mock, whether it takes one or not; the pin is taken out.
Merged(role, config) ==
  LET given == config.kwargs[role]
  IN  IF config.adapters[role] = "mock" \/ "device" \in DOMAIN given THEN given
      ELSE ("device" :> config.device) @@ given

Without(kwargs, key) == [k \in DOMAIN kwargs \ {key} |-> kwargs[k]]

Pin(role, config) ==
  IF "expected_sha256" \in DOMAIN Merged(role, config)
  THEN Merged(role, config)["expected_sha256"] ELSE None

\* Mutant: the keywords are no part of the key.
KeyByName(role, config) == <<role, config.adapters[role]>>

\* cache_key.  The pin is not in it.
Key(role, config) ==
  <<role, config.adapters[role], Without(Merged(role, config), "expected_sha256")>>

\* weights_path or model_path.
FileNamed(kwargs) ==
  LET given == {k \in DOMAIN kwargs : kwargs[k] # None}
  IN  IF "weights_path" \in given THEN kwargs["weights_path"]
      ELSE IF "model_path" \in given THEN kwargs["model_path"] ELSE None

PathOf(role, config) == FileNamed(Merged(role, config))

\* What the adapter itself opens: without a keyword, the file its environment
\* variable names (YOYOVISION_TORCH_YOYO_WEIGHTS and the like), of which the
\* registry knows nothing.
FileOf(role, config) ==
  LET name == config.adapters[role]
  IN  IF PathOf(role, config) # None THEN PathOf(role, config)
      ELSE IF FileKeyword(role, name) # None THEN Environment[role][name] ELSE None

-----------------------------------------------------------------------------
Entry == [pin : Contents \cup {None}, checksum : Contents \cup {None}, content : Contents \cup {None}]

TypeOK ==
  /\ disk \in [Paths -> Contents \cup {None}]
  /\ writes \in 0 .. MaxWrites /\ life \in 1 .. MaxLives
  /\ \A k \in DOMAIN cache : cache[k] \in Entry
  /\ job = None \/ /\ job.stage \in 1 .. Len(Stages)
                   /\ job.phase \in {"check", "resolve", "load", "run"}
                   /\ DOMAIN job.uses \subseteq Roles
  /\ Len(done) <= MaxJobs

Init ==
  /\ disk \in [Paths -> Contents]
  /\ writes = 0 /\ cache = <<>> /\ life = 1 /\ job = None /\ done = <<>>

\* run_analysis_pipeline is called.
Start ==
  /\ job = None /\ Len(done) < MaxJobs
  /\ \E o \in Overrides :
       job' = [config |-> Effective(o), stage |-> 1, phase |-> "check", verified |-> None,
               uses |-> <<>>, ran |-> <<>>]
  /\ UNCHANGED <<disk, writes, cache, life, done>>

\* The call ends.
End(outcome) ==
  /\ done' = Append(done, [outcome |-> outcome, life |-> life, config |-> job.config,
                           uses |-> job.uses, ran |-> job.ran])
  /\ job' = None

\* CancellationToken.check, before a stage and nowhere else: by then the
\* deadline may have passed, which is looked at first, and the request to
\* cancel have arrived.
Check ==
  /\ job # None /\ job.phase = "check"
  /\ \E late, cancelled \in BOOLEAN :
       IF late THEN End("PipelineTimeoutError")
       ELSE IF cancelled THEN End("PipelineCancelledError")
       ELSE job' = [job EXCEPT !.phase = "resolve"] /\ UNCHANGED done
  /\ UNCHANGED <<disk, writes, cache, life>>

\* The next adapter of the stage that is not resolved yet, or None.
NextRole ==
  LET roles == RolesOf(Stages[job.stage], job.config)
      open  == {i \in DOMAIN roles : roles[i] \notin DOMAIN job.uses}
  IN  IF open = {} THEN None ELSE roles[Min(open)]

\* dict[key] = value
Put(dict, key, value) == [k \in DOMAIN dict \cup {key} |-> IF k = key THEN value ELSE dict[k]]

Use(role, entry) ==
  [job EXCEPT !.uses = Put(@, role, [content |-> entry.content, key |-> Key(role, job.config),
                                     pin |-> entry.pin, checksum |-> entry.checksum]),
              !.phase = "resolve", !.verified = None]

\* get_or_load, up to the loader: what is cached is taken as it is; otherwise
\* the checksum of the file is looked at first.
Look ==
  LET role == NextRole
      key  == Key(role, job.config)
      path == PathOf(role, job.config)
      pin  == Pin(role, job.config)
  IN  /\ job # None /\ job.phase = "resolve" /\ role # None
      /\ IF key \in DOMAIN cache THEN job' = Use(role, cache[key]) /\ UNCHANGED done
         ELSE IF path # None /\ (disk[path] = None \/ (pin # None /\ disk[path] # pin))
         THEN End("ModelIntegrityError")
         ELSE /\ job' = [job EXCEPT !.phase = "load",
                                    !.verified = IF path = None THEN None ELSE disk[path]]
              /\ UNCHANGED done
      /\ UNCHANGED <<disk, writes, cache, life>>

\* The loader: the name is looked up, the adapter called with its keywords, and
\* its file read, again or for the first time.  What fails is not cached.
Load ==
  LET role  == NextRole
      name  == job.config.adapters[role]
      given == DOMAIN Without(Merged(role, job.config), "expected_sha256")
      file  == FileOf(role, job.config)
      entry == [pin |-> Pin(role, job.config), checksum |-> job.verified,
                content |-> IF file = None THEN None ELSE disk[file]]
  IN  /\ job # None /\ job.phase = "load"
      /\ IF name \notin DOMAIN Registered[role]
         THEN End("AdapterNotRegisteredError") /\ UNCHANGED cache
         ELSE IF ~(given \subseteq Registered[role][name])
         THEN End("TypeError") /\ UNCHANGED cache
         ELSE IF FileKeyword(role, name) # None /\ entry.content = None
         THEN End("ModelWeightsNotConfiguredError") /\ UNCHANGED cache
         ELSE IF entry.content \in Corrupt
         THEN End("UnpicklingError") /\ UNCHANGED cache
         ELSE /\ cache' = Put(cache, Key(role, job.config), entry)
              /\ job' = Use(role, entry) /\ UNCHANGED done
      /\ UNCHANGED <<disk, writes, life>>

\* The stage runs with its adapters; after the last one there is a result.
Run ==
  /\ job # None /\ job.phase = "resolve" /\ NextRole = None
  /\ LET stage == Stages[job.stage]
     IN  IF job.stage < Len(Stages)
         THEN /\ job' = [job EXCEPT !.ran = Append(@, stage), !.stage = @ + 1, !.phase = "check"]
              /\ UNCHANGED done
         ELSE /\ done' = Append(done, [outcome |-> "result", life |-> life, config |-> job.config,
                                       uses |-> job.uses, ran |-> Append(job.ran, stage)])
              /\ job' = None
  /\ UNCHANGED <<disk, writes, cache, life>>

\* Somebody writes, or removes, a model file.
Write ==
  /\ writes < MaxWrites /\ writes' = writes + 1
  /\ \E p \in Paths, c \in Contents \cup {None} : c # disk[p] /\ disk' = [disk EXCEPT ![p] = c]
  /\ UNCHANGED <<cache, life, job, done>>

\* clear, or a new process: a job that was running is lost.
Forget ==
  /\ life < MaxLives /\ life' = life + 1
  /\ cache' = <<>>
  /\ job' = None
  /\ UNCHANGED <<disk, writes, done>>

Next == Start \/ Check \/ Look \/ Load \/ Run \/ Write \/ Forget

Spec == Init /\ [][Next]_vars

-----------------------------------------------------------------------------
Ended ==
  Range(done) \cup
  IF job = None THEN {}
  ELSE {[outcome |-> None, life |-> life, config |-> job.config, uses |-> job.uses, ran |-> job.ran]}

\* A job runs with the adapters it is configured with: what it uses was loaded
\* with its own keywords, from the file they name, or else the environment.  A
\* file of the keywords that was loaded under a pin was the pinned one when it
\* was verified; the environment's is not verified.
RunsItsOwn ==
  \A j \in Ended : \A r \in DOMAIN j.uses :
    LET use == j.uses[r]
    IN  /\ use.key = <<r, j.config.adapters[r], Without(Merged(r, j.config), "expected_sha256")>>
        /\ use.content # None <=> FileOf(r, j.config) # None
        /\ use.content \notin Corrupt
        /\ PathOf(r, j.config) # None /\ use.pin # None => use.checksum = use.pin
        /\ r \in FusedRoles => j.config.fused

\* Until the registry is emptied two jobs with one configuration are analysed
\* with one model, whatever becomes of its file in between.
SameModels ==
  LET ended == Ended
  IN  \A i, j \in ended : \A r \in DOMAIN i.uses \cap DOMAIN j.uses :
        i.life = j.life /\ i.uses[r].key = j.uses[r].key => i.uses[r].content = j.uses[r].content

\* There is a result exactly when every stage has run, in order; a job that
\* ends early has run the stages before the one it ended in, and no adapter of
\* a later stage was resolved for it.
StagesInOrder ==
  \A j \in Ended :
    /\ IsPrefix(j.ran, Stages)
    /\ j.outcome = "result" <=> Len(j.ran) = Len(Stages)
    /\ \A r \in DOMAIN j.uses :
         \E k \in 1 .. Min({Len(j.ran) + 1, Len(Stages)}) : r \in Range(RolesOf(Stages[k], j.config))

\* However jobs, writes of model files and restarts follow each other, a job
\* runs its own models in the order of the stages (run_analysis_pipeline,
\* ModelRegistry.get_or_load).
RuntimeIsSound ==
  /\ RunsItsOwn
  /\ SameModels
  /\ StagesInOrder
=============================================================================
