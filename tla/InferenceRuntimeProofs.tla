----------------------- MODULE InferenceRuntimeProofs -----------------------
(***************************************************************************)
(* A job runs its own models, in the order of the stages, and jobs of one  *)
(* configuration run the same ones, for any settings, overrides, files and *)
(* hardware, and however many jobs, writes and restarts there are          *)
(* (InferenceRuntime).                                                     *)
(*                                                                         *)
(* Training keeps the best epoch, loses no window and mixes no two runs,   *)
(* for any samples, losses, batch size, patience and number of epochs, and *)
(* however many runs there are and wherever they die (ModelTraining).      *)
(***************************************************************************)
EXTENDS InferenceRuntime, FunctionTheorems, FiniteSetTheorems, SequenceTheorems, TLAPS

CONSTANTS Rosters, Ratios, Losses, BatchSize, Patience, MaxEpochs, MaxRuns, NaN

VARIABLES roster, phase, splits, todo, pending, applied, losses, best, stale, weights,
          run, checkpoint, torn, served

Training == INSTANCE ModelTraining WITH files <- checkpoint

\* Python's None is none of these strings.
NoneIsNoName == None \notin {"weights_path", "model_path", "result"}

StageNames == {Stages[k] : k \in 1 .. 8}

Current == [outcome |-> None, life |-> life, config |-> job.config, uses |-> job.uses, ran |-> job.ran]

\* The file that is loaded under a key: of its keywords, or of the environment.
KeyFile(key) ==
  IF FileNamed(key[3]) # None THEN FileNamed(key[3])
  ELSE IF FileKeyword(key[1], key[2]) # None THEN Environment[key[1]][key[2]] ELSE None

\* What is cached: under a key that has a file, what was read of it; and what
\* the keywords name was verified.
EntryOK(key, entry) ==
  /\ entry.content # None <=> KeyFile(key) # None
  /\ entry.content \notin Corrupt
  /\ FileNamed(key[3]) # None /\ entry.pin # None => entry.checksum = entry.pin

CacheOK == \A key \in DOMAIN cache : EntryOK(key, cache[key])

\* An adapter a job was given is one of a stage it has reached.
Reached(j, role) ==
  \E k \in 1 .. Len(j.ran) + 1 : k <= 8 /\ role \in Range(RolesOf(Stages[k], j.config))

UseOK(j, role) ==
  /\ j.uses[role].key = Key(role, j.config)
  /\ EntryOK(j.uses[role].key, j.uses[role])
  /\ Reached(j, role)
  /\ j.life = life => /\ j.uses[role].key \in DOMAIN cache
                      /\ cache[j.uses[role].key].content = j.uses[role].content

\* A job, at work or ended.
RunOK(j) ==
  /\ j.life \in 1 .. life
  /\ j.ran \in Seq(StageNames) /\ Len(j.ran) <= 8
  /\ \A i \in 1 .. Len(j.ran) : j.ran[i] = Stages[i]
  /\ j.outcome = "result" <=> Len(j.ran) = 8
  /\ \A role \in DOMAIN j.uses : UseOK(j, role)

\* The job at work: where it is, and, when it loads a model, that nobody has
\* loaded it since it looked.
JobOK ==
  job # None =>
    /\ DOMAIN job = {"config", "stage", "phase", "verified", "uses", "ran"}
    /\ job.stage \in 1 .. 8 /\ Len(job.ran) = job.stage - 1
    /\ job.phase = "load" =>
         LET role == NextRole
         IN  /\ role # None /\ Key(role, job.config) \notin DOMAIN cache
             /\ PathOf(role, job.config) # None /\ Pin(role, job.config) # None
                  => job.verified = Pin(role, job.config)

IInv ==
  /\ life \in Nat \ {0}
  /\ \E S : done \in Seq(S)
  /\ CacheOK
  /\ JobOK
  /\ \A j \in Ended : RunOK(j)
  /\ SameModels

\* The registry keeps what it has, until it is emptied.
Grows == \A key \in DOMAIN cache : key \in DOMAIN cache' /\ cache'[key].content = cache[key].content

-----------------------------------------------------------------------------
(* The adapters and their files.                                           *)

\* The key tells the file.
LEMMA KeyTellsFile ==
  ASSUME NEW role, NEW c
  PROVE  /\ FileNamed(Key(role, c)[3]) = PathOf(role, c)
         /\ KeyFile(Key(role, c)) = FileOf(role, c)
<1> DEFINE m == Merged(role, c)
           w == Without(m, "expected_sha256")
<1>1. Key(role, c)[3] = w
  BY DEF Key
<1>2. DOMAIN w = DOMAIN m \ {"expected_sha256"} /\ \A k \in DOMAIN w : w[k] = m[k]
  BY DEF Without
<1> HIDE DEF m, w
<1>3. \A k \in {"weights_path", "model_path"} :
        /\ k \in DOMAIN w <=> k \in DOMAIN m
        /\ k \in DOMAIN m => w[k] = m[k]
  BY <1>2
<1>4. FileNamed(w) = FileNamed(m)
  BY <1>3 DEF FileNamed
<1>5. FileNamed(Key(role, c)[3]) = PathOf(role, c)
  BY <1>1, <1>4 DEF PathOf, m
<1>6. Key(role, c)[1] = role /\ Key(role, c)[2] = c.adapters[role]
  BY DEF Key
<1>7. QED
  BY <1>5, <1>6 DEF KeyFile, FileOf

\* An adapter that is called with a file is one that reads it.
LEMMA FileIsTaken ==
  ASSUME NoneIsNoName, NEW role, NEW c, PathOf(role, c) # None,
         DOMAIN Without(Merged(role, c), "expected_sha256") \subseteq Registered[role][c.adapters[role]]
  PROVE  FileKeyword(role, c.adapters[role]) # None
<1> DEFINE m == Merged(role, c)
<1>1. DOMAIN m \ {"expected_sha256"} \subseteq Registered[role][c.adapters[role]]
  BY DEF Without
<1>2. FileNamed(m) # None
  BY DEF PathOf
<1> HIDE DEF m
<1>3. "weights_path" \in DOMAIN m \/ "model_path" \in DOMAIN m
  BY <1>2 DEF FileNamed
<1>4. "weights_path" # None /\ "model_path" # None
  BY DEF NoneIsNoName
<1>5. QED
  BY <1>1, <1>3, <1>4 DEF FileKeyword

LEMMA AtMostThree ==
  ASSUME NEW stage, NEW c
  PROVE  DOMAIN RolesOf(stage, c) \subseteq {1, 2, 3}
BY DEF RolesOf

LEMMA FusedIsAsked ==
  ASSUME NEW stage, NEW c, NEW role \in FusedRoles, role \in Range(RolesOf(stage, c))
  PROVE  c.fused
<1>1. Range(RolesOf(stage, c)) \subseteq {"pose", "hand", "yoyo", "tracker", "temporal_event"} \/ c.fused
  BY DEF RolesOf, Range
<1>2. QED
  BY <1>1 DEF FusedRoles

\* The next adapter is one of the stage.
LEMMA NextOfStage ==
  ASSUME NextRole # None
  PROVE  NextRole \in Range(RolesOf(Stages[job.stage], job.config))
<1> DEFINE roles == RolesOf(Stages[job.stage], job.config)
           open  == {i \in DOMAIN roles : roles[i] \notin DOMAIN job.uses}
<1>1. open # {} /\ NextRole = roles[Min(open)]
  BY DEF NextRole
<1>2. DOMAIN roles \subseteq {1, 2, 3}
  BY AtMostThree
<1> HIDE DEF roles
<1>3. \E x \in open : \A y \in open : x <= y
  <2>1. CASE 1 \in open
    BY <1>2, <2>1
  <2>2. CASE 1 \notin open /\ 2 \in open
    BY <1>2, <2>2
  <2>3. CASE 1 \notin open /\ 2 \notin open
    BY <1>1, <1>2, <2>3
  <2>4. QED
    BY <2>1, <2>2, <2>3
<1>4. Min(open) \in open
  BY <1>3 DEF Min
<1>5. QED
  BY <1>1, <1>4 DEF Range, roles

LEMMA EightStages ==
  Len(Stages) = 8 /\ Stages \in Seq(StageNames)
<1>1. Len(Stages) = 8 /\ Stages = [k \in 1 .. 8 |-> Stages[k]]
  BY DEF Stages
<1> HIDE DEF Stages
<1>2. Stages \in [1 .. 8 -> StageNames]
  BY <1>1 DEF StageNames
<1>3. QED
  BY <1>1, <1>2, SeqDef

-----------------------------------------------------------------------------
(* What a step leaves.                                                     *)

LEMMA EndedIs ==
  /\ \A j \in Ended : j \in Range(done) \/ (job # None /\ j = Current)
  /\ Range(done) \subseteq Ended
  /\ job # None => Current \in Ended
BY DEF Ended, Current

LEMMA EndedIsNext ==
  \A j \in Ended' : j \in Range(done') \/ (job' # None /\ j = Current')
BY DEF Ended, Current

LEMMA RangeGrows ==
  ASSUME \E S : done \in Seq(S), NEW x, done' = Append(done, x)
  PROVE  /\ \E S : done' \in Seq(S)
         /\ \A j \in Range(done') : j \in Range(done) \/ j = x
<1>1. PICK S : done \in Seq(S)
  OBVIOUS
<1>2. done \in Seq(S \cup {x})
  <2>1. S \subseteq S \cup {x}
    OBVIOUS
  <2>2. QED
    BY <1>1, <2>1, SeqMonotonic
<1> DEFINE T == S \cup {x}
<1>3. x \in T /\ done \in Seq(T)
  BY <1>2
<1> HIDE DEF T
<1>4. /\ done' \in Seq(T) /\ DOMAIN done' = 1 .. Len(done) + 1 /\ DOMAIN done = 1 .. Len(done)
      /\ \A i \in 1 .. Len(done) : done'[i] = done[i]
      /\ done'[Len(done) + 1] = x /\ Len(done) \in Nat
  <2>1. /\ done' \in Seq(T) /\ Len(done') = Len(done) + 1
        /\ \A i \in 1 .. Len(done) : done'[i] = done[i]
        /\ done'[Len(done) + 1] = x
    BY <1>3, AppendProperties
  <2>2. DOMAIN done' = 1 .. Len(done') /\ DOMAIN done = 1 .. Len(done) /\ Len(done) \in Nat
    BY <1>3, <2>1, LenProperties
  <2>3. QED
    BY <2>1, <2>2
<1>5. \A i \in 1 .. Len(done) + 1 : i \in 1 .. Len(done) \/ i = Len(done) + 1
  BY <1>4
<1>6. QED
  BY <1>4, <1>5 DEF Range

\* A job stays as it was while the registry grows, and when it is emptied.
LEMMA RunStays ==
  ASSUME NEW j, life \in Nat, RunOK(j), (life' = life /\ Grows) \/ life' = life + 1
  PROVE  RunOK(j)'
<1>1. j.life \in 1 .. life' /\ (j.life = life' => j.life = life /\ life' = life /\ Grows)
  BY DEF RunOK
<1>2. ASSUME NEW role \in DOMAIN j.uses
      PROVE  UseOK(j, role)'
  <2>1. UseOK(j, role)
    BY DEF RunOK
  <2>2. Reached(j, role)'
    BY <2>1 DEF UseOK, Reached
  <2>3. QED
    BY <1>1, <2>1, <2>2 DEF UseOK, Grows
<1>3. QED
  BY <1>1, <1>2 DEF RunOK

\* Jobs of before keep their models; the others are of this life.
LEMMA SameStays ==
  ASSUME SameModels, \A j \in Ended' : RunOK(j)',
         \A j \in Ended' : j \in Ended \/ j.life = life'
  PROVE  SameModels'
<1> SUFFICES ASSUME NEW i \in Ended', NEW j \in Ended',
                    NEW role \in DOMAIN i.uses \cap DOMAIN j.uses,
                    i.life = j.life, i.uses[role].key = j.uses[role].key
             PROVE  i.uses[role].content = j.uses[role].content
  BY DEF SameModels
<1>1. CASE i.life = life'
  <2>1. UseOK(i, role)' /\ UseOK(j, role)'
    BY DEF RunOK
  <2>2. QED
    BY <1>1, <2>1 DEF UseOK
<1>2. CASE i.life # life'
  BY <1>2 DEF SameModels
<1>3. QED
  BY <1>1, <1>2

\* The job ends, whatever the reason.
LEMMA EndKeeps ==
  ASSUME IInv, job # None, NEW outcome, outcome # "result", End(outcome),
         UNCHANGED <<cache, life>>
  PROVE  IInv'
<1> DEFINE x == [outcome |-> outcome, life |-> life, config |-> job.config,
                 uses |-> job.uses, ran |-> job.ran]
<1>1. done' = Append(done, x) /\ job' = None /\ cache' = cache /\ life' = life
  BY DEF End
<1>2. RunOK(Current) /\ Current \in Ended
  BY EndedIs DEF IInv
<1>3. RunOK(x)
  <2>1. Len(job.ran) \in Nat /\ Len(job.ran) # 8
    <3> HIDE DEF x
    <3>1. job.stage \in 1 .. 8 /\ Len(job.ran) = job.stage - 1
      BY DEF IInv, JobOK
    <3>2. QED
      BY <3>1
  <2>2. QED
    BY <1>2, <2>1 DEF RunOK, Current, UseOK, Reached
<1>4. Grows /\ x.life = life'
  BY <1>1 DEF Grows
<1> HIDE DEF x
<1>5. /\ \E S : done' \in Seq(S)
      /\ \A j \in Range(done') : j \in Range(done) \/ j = x
  BY <1>1, RangeGrows DEF IInv
<1>6. \A j \in Ended' : j \in Range(done) \/ j = x
  BY <1>1, <1>5, EndedIsNext
<1>7. \A j \in Ended' : RunOK(j)'
  <2> SUFFICES ASSUME NEW j \in Ended'
               PROVE  RunOK(j)'
    OBVIOUS
  <2>1. RunOK(j)
    BY <1>3, <1>6, EndedIs DEF IInv
  <2>2. QED
    BY <1>1, <1>4, <2>1, RunStays DEF IInv
<1>8. SameModels'
  BY <1>4, <1>6, <1>7, EndedIs, SameStays DEF IInv
<1>9. CacheOK' /\ JobOK'
  BY <1>1 DEF IInv, CacheOK, JobOK
<1>10. QED
  BY <1>1, <1>5, <1>7, <1>8, <1>9 DEF IInv

\* The next adapter is there, out of the registry or loaded into it.
LEMMA UseKeeps ==
  ASSUME NoneIsNoName, IInv, job # None, NextRole # None, NEW entry,
         EntryOK(Key(NextRole, job.config), entry), job' = Use(NextRole, entry),
         UNCHANGED <<life, done>>,
         \/ cache' = cache /\ Key(NextRole, job.config) \in DOMAIN cache
              /\ entry = cache[Key(NextRole, job.config)]
         \/ /\ Key(NextRole, job.config) \notin DOMAIN cache
            /\ cache' = Put(cache, Key(NextRole, job.config), entry)
  PROVE  IInv'
<1>0. PICK role : role = NextRole
  OBVIOUS
<1> DEFINE key  == Key(role, job.config)
           use  == [content |-> entry.content, key |-> key, pin |-> entry.pin,
                    checksum |-> entry.checksum]
           uses == Put(job.uses, role, use)
<1>1. /\ DOMAIN job = {"config", "stage", "phase", "verified", "uses", "ran"}
      /\ job.stage \in 1 .. 8 /\ Len(job.ran) = job.stage - 1
      /\ RunOK(Current)
  BY EndedIs DEF IInv, JobOK
<1>2. role \in Range(RolesOf(Stages[job.stage], job.config))
  BY <1>0, NextOfStage
<1>3. /\ Grows /\ key \in DOMAIN cache' /\ cache'[key] = entry
      /\ \A k \in DOMAIN cache' : k = key \/ (k \in DOMAIN cache /\ cache'[k] = cache[k])
  BY <1>0 DEF Grows, Put
<1>4. /\ job' = [job EXCEPT !.uses = uses, !.phase = "resolve", !.verified = None]
      /\ life' = life /\ done' = done
  BY <1>0 DEF Use
<1>5. EntryOK(key, use) /\ EntryOK(key, entry) /\ use.content = entry.content /\ use.key = key
  BY <1>0 DEF EntryOK
<1>6. /\ DOMAIN uses = {role} \cup DOMAIN job.uses
      /\ uses[role] = use
      /\ \A r \in DOMAIN job.uses : r # role => uses[r] = job.uses[r]
  BY DEF Put
<1> HIDE DEF uses, use
<1>7. /\ DOMAIN job' = DOMAIN job
      /\ job'.config = job.config /\ job'.stage = job.stage /\ job'.ran = job.ran
      /\ job'.phase = "resolve" /\ job'.uses = uses
  BY <1>1, <1>4
<1>8. PICK c : c = [outcome |-> None, life |-> life, config |-> job.config,
                    uses |-> job.uses, ran |-> job.ran]
  OBVIOUS
<1>9. PICK n : n = [outcome |-> None, life |-> life, config |-> job.config,
                    uses |-> uses, ran |-> job.ran]
  OBVIOUS
<1>10. n = Current' /\ c = Current
  BY <1>4, <1>7, <1>8, <1>9 DEF Current
<1>11. RunOK(c)'
  BY <1>1, <1>3, <1>4, <1>10, RunStays DEF IInv
<1>12. RunOK(n)'
  <2>1. /\ n.life = c.life /\ n.ran = c.ran /\ n.outcome = c.outcome /\ n.config = c.config
        /\ n.uses = uses /\ c.uses = job.uses /\ c.config = job.config /\ c.ran = job.ran
    BY <1>8, <1>9
  <2>2. ASSUME NEW r \in DOMAIN uses, r # role
        PROVE  UseOK(n, r)'
    <3>1. r \in DOMAIN job.uses /\ uses[r] = job.uses[r]
      BY <1>6, <2>2
    <3>2. UseOK(c, r)'
      BY <1>11, <2>1, <3>1 DEF RunOK
    <3>3. QED
      BY <2>1, <3>1, <3>2 DEF UseOK, Reached
  <2>3. UseOK(n, role)'
    <3>1. n.uses[role] = use /\ key = Key(role, n.config)
      BY <1>6, <2>1
    <3>2. Reached(n, role)'
      <4>1. job.stage \in 1 .. Len(n.ran) + 1 /\ job.stage <= 8
        BY <1>1, <2>1
      <4>2. QED
        BY <1>2, <2>1, <4>1 DEF Reached
    <3>3. QED
      BY <1>3, <1>5, <3>1, <3>2 DEF UseOK
  <2>4. ASSUME NEW r \in DOMAIN n.uses
        PROVE  UseOK(n, r)'
    BY <2>1, <2>2, <2>3
  <2> HIDE DEF key
  <2>5. QED
    BY <1>11, <2>1, <2>4 DEF RunOK
<1>13. ASSUME NEW j \in Ended'
       PROVE  RunOK(j)' /\ (j \in Ended \/ j.life = life')
  <2>1. j \in Range(done) \/ j = n
    BY <1>4, <1>10, EndedIsNext
  <2>2. CASE j = n
    BY <1>4, <1>9, <1>12, <2>2
  <2>3. CASE j \in Range(done)
    <3>1. j \in Ended /\ RunOK(j)
      BY <2>3, EndedIs DEF IInv
    <3>2. QED
      BY <1>3, <1>4, <3>1, RunStays DEF IInv
  <2>4. QED
    BY <2>1, <2>2, <2>3
<1>14. SameModels'
  BY <1>13, SameStays DEF IInv
<1>15. CacheOK'
  BY <1>3, <1>5 DEF CacheOK, IInv
<1>16. JobOK'
  BY <1>1, <1>7 DEF JobOK
<1>17. QED
  BY <1>4, <1>13, <1>14, <1>15, <1>16 DEF IInv

-----------------------------------------------------------------------------
(* The steps.                                                              *)

LEMMA Begins ==
  ASSUME NoneIsNoName, Init
  PROVE  IInv
<1>1. life = 1 /\ done = <<>> /\ job = None /\ cache = <<>>
  BY DEF Init
<1>2. done \in Seq({})
  BY <1>1
<1>3. DOMAIN <<>> = {}
  OBVIOUS
<1>4. Ended = {}
  BY <1>1, <1>3 DEF Ended, Range
<1>5. CacheOK
  BY <1>1, <1>3 DEF CacheOK
<1>6. QED
  BY <1>1, <1>2, <1>4, <1>5 DEF IInv, JobOK, SameModels

LEMMA StartKeeps ==
  ASSUME NoneIsNoName, IInv, Start
  PROVE  IInv'
<1>1. PICK o \in Overrides :
        job' = [config |-> Effective(o), stage |-> 1, phase |-> "check", verified |-> None,
                uses |-> <<>>, ran |-> <<>>]
  BY DEF Start
<1>2. job = None /\ cache' = cache /\ life' = life /\ done' = done
  BY DEF Start
<1>3. PICK n : n = [outcome |-> None, life |-> life, config |-> Effective(o),
                    uses |-> <<>>, ran |-> <<>>]
  OBVIOUS
<1>4. n = Current'
  BY <1>1, <1>2, <1>3 DEF Current
<1>5. RunOK(n)'
  <2>1. n.ran = <<>> /\ n.uses = <<>> /\ n.outcome = None /\ n.life = life
    BY <1>3
  <2>2. <<>> \in Seq(StageNames) /\ Len(<<>>) = 0 /\ DOMAIN <<>> = {}
    OBVIOUS
  <2>3. None # "result" /\ life \in 1 .. life
    BY DEF NoneIsNoName, IInv
  <2>4. QED
    BY <1>2, <2>1, <2>2, <2>3 DEF RunOK
<1>6. Grows
  BY <1>2 DEF Grows
<1>7. ASSUME NEW j \in Ended'
      PROVE  RunOK(j)' /\ (j \in Ended \/ j.life = life')
  <2>1. j \in Range(done) \/ j = n
    BY <1>2, <1>4, EndedIsNext
  <2>2. CASE j = n
    BY <1>2, <1>3, <1>5, <2>2
  <2>3. CASE j \in Range(done)
    <3>1. j \in Ended /\ RunOK(j)
      BY <2>3, EndedIs DEF IInv
    <3>2. QED
      BY <1>2, <1>6, <3>1, RunStays DEF IInv
  <2>4. QED
    BY <2>1, <2>2, <2>3
<1>8. SameModels'
  BY <1>7, SameStays DEF IInv
<1>9. CacheOK'
  BY <1>2 DEF CacheOK, IInv
<1>10. JobOK'
  <2>1. Len(<<>>) = 0
    OBVIOUS
  <2>2. QED
    BY <1>1, <2>1 DEF JobOK
<1>11. QED
  BY <1>2, <1>7, <1>8, <1>9, <1>10 DEF IInv

\* A step that only moves the job on within its stage.
LEMMA MovesKeep ==
  ASSUME IInv, job # None, UNCHANGED <<cache, life, done>>, JobOK',
         job'.config = job.config, job'.uses = job.uses, job'.ran = job.ran
  PROVE  IInv'
<1>1. cache' = cache /\ life' = life /\ done' = done
  OBVIOUS
<1>2. Grows
  BY <1>1 DEF Grows
<1>3. PICK c : c = Current
  OBVIOUS
<1>4. c = Current' /\ c \in Ended
  BY <1>1, <1>3, EndedIs DEF Current
<1>5. \A j \in Ended' : j \in Ended
  BY <1>1, <1>4, EndedIs, EndedIsNext
<1>6. ASSUME NEW j \in Ended'
      PROVE  RunOK(j)'
  <2>1. RunOK(j)
    BY <1>5 DEF IInv
  <2>2. QED
    BY <1>1, <1>2, <2>1, RunStays DEF IInv
<1>7. SameModels'
  BY <1>5, <1>6, SameStays DEF IInv
<1>8. CacheOK'
  BY <1>1 DEF CacheOK, IInv
<1>9. QED
  BY <1>1, <1>6, <1>7, <1>8 DEF IInv

LEMMA CheckKeeps ==
  ASSUME NoneIsNoName, IInv, Check
  PROVE  IInv'
<1>1. job # None /\ UNCHANGED <<cache, life>>
  BY DEF Check
<1>2. CASE End("PipelineTimeoutError")
  BY <1>1, <1>2, EndKeeps
<1>3. CASE End("PipelineCancelledError")
  BY <1>1, <1>3, EndKeeps
<1>4. CASE job' = [job EXCEPT !.phase = "resolve"] /\ done' = done
  <2>1. /\ DOMAIN job = {"config", "stage", "phase", "verified", "uses", "ran"}
        /\ job.stage \in 1 .. 8 /\ Len(job.ran) = job.stage - 1
    BY <1>1 DEF IInv, JobOK
  <2>2. /\ DOMAIN job' = DOMAIN job /\ job'.phase = "resolve"
        /\ job'.config = job.config /\ job'.stage = job.stage
        /\ job'.uses = job.uses /\ job'.ran = job.ran
    BY <1>4, <2>1
  <2>3. JobOK'
    BY <2>1, <2>2 DEF JobOK
  <2>4. QED
    BY <1>1, <1>4, <2>2, <2>3, MovesKeep
<1>5. QED
  BY <1>2, <1>3, <1>4 DEF Check

LEMMA LookKeeps ==
  ASSUME NoneIsNoName, IInv, Look
  PROVE  IInv'
<1> DEFINE key  == Key(NextRole, job.config)
           path == PathOf(NextRole, job.config)
           pin  == Pin(NextRole, job.config)
<1>1. job # None /\ NextRole # None /\ UNCHANGED <<cache, life>>
  BY DEF Look
<1>2. CASE key \in DOMAIN cache /\ job' = Use(NextRole, cache[key]) /\ done' = done
  <2>1. EntryOK(key, cache[key])
    BY <1>2 DEF IInv, CacheOK
  <2>2. QED
    BY <1>1, <1>2, <2>1, UseKeeps
<1>3. CASE End("ModelIntegrityError")
  BY <1>1, <1>3, EndKeeps
<1>4. CASE /\ key \notin DOMAIN cache
           /\ ~ (path # None /\ (disk[path] = None \/ (pin # None /\ disk[path] # pin)))
           /\ job' = [job EXCEPT !.phase = "load",
                                 !.verified = IF path = None THEN None ELSE disk[path]]
           /\ done' = done
  <2>1. /\ DOMAIN job = {"config", "stage", "phase", "verified", "uses", "ran"}
        /\ job.stage \in 1 .. 8 /\ Len(job.ran) = job.stage - 1
    BY <1>1 DEF IInv, JobOK
  <2>2. path # None /\ pin # None => disk[path] = pin
    BY <1>4
  <2> HIDE DEF key, path, pin
  <2>3. /\ DOMAIN job' = DOMAIN job /\ job'.phase = "load"
        /\ job'.config = job.config /\ job'.stage = job.stage
        /\ job'.uses = job.uses /\ job'.ran = job.ran
        /\ job'.verified = IF path = None THEN None ELSE disk[path]
    BY <1>4, <2>1
  <2>4. NextRole' = NextRole
    BY <2>3 DEF NextRole
  <2>5. JobOK'
    BY <1>1, <1>4, <2>1, <2>2, <2>3, <2>4 DEF JobOK, key, path, pin
  <2>6. QED
    BY <1>1, <1>4, <2>3, <2>5, MovesKeep
<1>5. QED
  BY <1>2, <1>3, <1>4 DEF Look

LEMMA LoadKeeps ==
  ASSUME NoneIsNoName, IInv, Load
  PROVE  IInv'
<1> DEFINE role  == NextRole
           name  == job.config.adapters[role]
           given == DOMAIN Without(Merged(role, job.config), "expected_sha256")
           path  == PathOf(role, job.config)
           file  == FileOf(role, job.config)
           entry == [pin |-> Pin(role, job.config), checksum |-> job.verified,
                     content |-> IF file = None THEN None ELSE disk[file]]
<1>1. job # None /\ job.phase = "load" /\ UNCHANGED life
  BY DEF Load
<1>2. CASE /\ cache' = cache
           /\ \E outcome \in {"AdapterNotRegisteredError", "TypeError",
                              "ModelWeightsNotConfiguredError", "UnpicklingError"} : End(outcome)
  BY <1>1, <1>2, EndKeeps
<1>3. CASE /\ given \subseteq Registered[role][name]
           /\ ~ (FileKeyword(role, name) # None /\ entry.content = None)
           /\ entry.content \notin Corrupt
           /\ cache' = Put(cache, Key(role, job.config), entry)
           /\ job' = Use(role, entry) /\ done' = done
  <2>1. /\ role # None /\ Key(role, job.config) \notin DOMAIN cache
        /\ path # None /\ Pin(role, job.config) # None => job.verified = Pin(role, job.config)
    BY <1>1 DEF IInv, JobOK
  <2>2. file # None => FileKeyword(role, name) # None
    BY <1>3, FileIsTaken DEF FileOf
  <2>3. entry.content # None <=> file # None
    BY <1>3, <2>2
  <2>4. EntryOK(Key(role, job.config), entry)
    BY <1>3, <2>1, <2>3, KeyTellsFile DEF EntryOK
  <2>5. QED
    BY <1>1, <1>3, <2>1, <2>4, UseKeeps
<1>4. QED
  BY <1>2, <1>3 DEF Load

LEMMA RunKeeps ==
  ASSUME NoneIsNoName, IInv, Run
  PROVE  IInv'
<1>1. /\ job # None /\ cache' = cache /\ life' = life
      /\ DOMAIN job = {"config", "stage", "phase", "verified", "uses", "ran"}
      /\ job.stage \in 1 .. 8 /\ Len(job.ran) = job.stage - 1
  BY DEF Run, IInv, JobOK
<1>2. PICK stage : stage = Stages[job.stage]
  OBVIOUS
<1>3. PICK ran : ran = Append(job.ran, stage)
  OBVIOUS
<1>4. PICK c : c = Current
  OBVIOUS
<1>5. RunOK(c) /\ c \in Ended /\ Grows
  BY <1>1, <1>4, EndedIs DEF IInv, Grows
<1>6. /\ c.outcome = None /\ c.life = life /\ c.config = job.config /\ c.uses = job.uses
      /\ c.ran = job.ran
  BY <1>4 DEF Current
<1>7. /\ ran \in Seq(StageNames) /\ Len(ran) = job.stage
      /\ \A i \in 1 .. job.stage : ran[i] = Stages[i]
  <2>1. stage \in StageNames /\ job.ran \in Seq(StageNames)
    BY <1>1, <1>2, <1>5, <1>6 DEF StageNames, RunOK
  <2>2. /\ ran \in Seq(StageNames) /\ Len(ran) = Len(job.ran) + 1
        /\ \A i \in 1 .. Len(job.ran) : ran[i] = job.ran[i]
        /\ ran[Len(job.ran) + 1] = stage
    BY <1>3, <2>1, AppendProperties
  <2>3. \A i \in 1 .. Len(job.ran) : job.ran[i] = Stages[i]
    BY <1>5, <1>6 DEF RunOK
  <2>4. Len(ran) = job.stage /\ \A i \in 1 .. job.stage : i \in 1 .. Len(job.ran) \/ i = job.stage
    BY <1>1, <2>2
  <2>5. QED
    BY <1>1, <1>2, <2>2, <2>3, <2>4
\* The job as it is after the stage.
<1>8. ASSUME NEW n, n.life = life, n.config = job.config, n.uses = job.uses, n.ran = ran,
             n.outcome = "result" <=> job.stage = 8
      PROVE  RunOK(n)'
  <2>1. RunOK(c)'
    BY <1>1, <1>5, RunStays DEF IInv
  <2>2. ASSUME NEW role \in DOMAIN n.uses
        PROVE  UseOK(n, role)'
    <3>1. UseOK(c, role)'
      BY <1>6, <1>8, <2>1 DEF RunOK
    <3>2. Reached(n, role)'
      <4>1. PICK k \in 1 .. Len(c.ran) + 1 :
              k <= 8 /\ role \in Range(RolesOf(Stages[k], c.config))
        BY <3>1 DEF UseOK, Reached
      <4>2. k \in 1 .. Len(n.ran) + 1
        BY <1>1, <1>6, <1>7, <1>8, <4>1
      <4>3. QED
        BY <1>6, <1>8, <4>1, <4>2 DEF Reached
    <3>3. QED
      BY <1>6, <1>8, <3>1, <3>2 DEF UseOK
  <2>3. /\ n.life \in 1 .. life' /\ Len(n.ran) <= 8
        /\ n.outcome = "result" <=> Len(n.ran) = 8
    <3>1. c.life \in 1 .. life
      BY <1>5 DEF RunOK
    <3>2. Len(n.ran) = job.stage
      BY <1>7, <1>8
    <3>3. n.outcome = "result" <=> Len(n.ran) = 8
      BY <1>8, <3>2
    <3>4. QED
      BY <1>1, <1>6, <1>8, <3>1, <3>2, <3>3
  <2>4. QED
    BY <1>7, <1>8, <2>2, <2>3 DEF RunOK
<1>9. ASSUME NEW n, RunOK(n)', n.life = life, \E S : done' \in Seq(S),
             \A j \in Ended' : j \in Range(done) \/ j = n, JobOK'
      PROVE  IInv'
  <2>1. ASSUME NEW j \in Ended'
        PROVE  RunOK(j)' /\ (j \in Ended \/ j.life = life')
    <3>1. CASE j = n
      BY <1>1, <1>9, <3>1
    <3>2. CASE j \in Range(done)
      <4>1. j \in Ended /\ RunOK(j)
        BY <3>2, EndedIs DEF IInv
      <4>2. QED
        BY <1>1, <1>5, <4>1, RunStays DEF IInv
    <3>3. QED
      BY <1>9, <3>1, <3>2
  <2>2. SameModels'
    BY <2>1, SameStays DEF IInv
  <2>3. CacheOK'
    BY <1>1 DEF CacheOK, IInv
  <2>4. QED
    BY <1>1, <1>9, <2>1, <2>2, <2>3 DEF IInv
<1>10. CASE job.stage < 8
  <2>1. /\ job' = [job EXCEPT !.ran = ran, !.stage = job.stage + 1, !.phase = "check"]
        /\ done' = done
    BY <1>2, <1>3, <1>10, EightStages DEF Run
  <2>2. /\ DOMAIN job' = DOMAIN job /\ job'.phase = "check"
        /\ job'.config = job.config /\ job'.stage = job.stage + 1
        /\ job'.uses = job.uses /\ job'.ran = ran
    BY <1>1, <2>1
  <2>3. JobOK'
    BY <1>1, <1>7, <1>10, <2>2 DEF JobOK
  <2>4. PICK n : n = [outcome |-> None, life |-> life, config |-> job.config,
                      uses |-> job.uses, ran |-> ran]
    OBVIOUS
  <2>5. n = Current'
    BY <1>1, <2>2, <2>4 DEF Current
  <2>6. RunOK(n)' /\ n.life = life
    BY <1>1, <1>8, <1>10, <2>4 DEF NoneIsNoName
  <2>7. \A j \in Ended' : j \in Range(done) \/ j = n
    BY <2>1, <2>5, EndedIsNext
  <2>8. QED
    BY <1>9, <2>1, <2>3, <2>6, <2>7 DEF IInv
<1>11. CASE ~ (job.stage < 8)
  <2>1. PICK n : n = [outcome |-> "result", life |-> life, config |-> job.config,
                      uses |-> job.uses, ran |-> ran]
    OBVIOUS
  <2>2. done' = Append(done, n) /\ job' = None
    BY <1>2, <1>3, <1>11, <2>1, EightStages DEF Run
  <2>3. RunOK(n)' /\ n.life = life
    BY <1>1, <1>8, <1>11, <2>1
  <2>4. /\ \E S : done' \in Seq(S)
        /\ \A j \in Range(done') : j \in Range(done) \/ j = n
    BY <2>2, RangeGrows DEF IInv
  <2>5. \A j \in Ended' : j \in Range(done) \/ j = n
    BY <2>2, <2>4, EndedIsNext
  <2>6. JobOK'
    BY <2>2 DEF JobOK
  <2>7. QED
    BY <1>9, <2>3, <2>4, <2>5, <2>6
<1>12. QED
  BY <1>10, <1>11

\* Nothing the invariant speaks of changes.
LEMMA IdleKeeps ==
  ASSUME IInv, UNCHANGED <<cache, life, job, done>>
  PROVE  IInv'
<1>1. cache' = cache /\ life' = life /\ job' = job /\ done' = done
  OBVIOUS
<1>2. Ended' = Ended /\ CacheOK' /\ JobOK'
  BY <1>1 DEF IInv, Ended, CacheOK, JobOK, NextRole
<1>3. SameModels'
  BY <1>2 DEF IInv, SameModels
<1>4. \A j \in Ended' : RunOK(j)'
  BY <1>1, <1>2 DEF IInv, RunOK, UseOK, Reached
<1>5. QED
  BY <1>1, <1>2, <1>3, <1>4 DEF IInv

LEMMA ForgetKeeps ==
  ASSUME IInv, Forget
  PROVE  IInv'
<1>1. life' = life + 1 /\ cache' = <<>> /\ job' = None /\ done' = done
  BY DEF Forget
<1>2. ASSUME NEW j \in Ended'
      PROVE  RunOK(j)' /\ j \in Ended
  <2>1. j \in Ended /\ RunOK(j)
    BY <1>1, EndedIs, EndedIsNext DEF IInv
  <2>2. QED
    BY <1>1, <2>1, RunStays DEF IInv
<1>3. SameModels'
  BY <1>2, SameStays DEF IInv
<1>4. CacheOK' /\ JobOK'
  <2>1. DOMAIN <<>> = {}
    OBVIOUS
  <2>2. QED
    BY <1>1, <2>1 DEF CacheOK, JobOK
<1>5. QED
  BY <1>1, <1>2, <1>3, <1>4 DEF IInv

LEMMA Keeps ==
  ASSUME NoneIsNoName, IInv, [Next]_vars
  PROVE  IInv'
<1>1. CASE Write \/ UNCHANGED vars
  BY <1>1, IdleKeeps DEF Write, vars
<1>2. CASE Start \/ Check \/ Look \/ Load \/ Run \/ Forget
  BY <1>2, StartKeeps, CheckKeeps, LookKeeps, LoadKeeps, RunKeeps, ForgetKeeps
<1>3. QED
  BY <1>1, <1>2 DEF Next

-----------------------------------------------------------------------------
(* The theorems.                                                           *)

LEMMA Sound ==
  ASSUME IInv
  PROVE  RuntimeIsSound
<1>1. RunsItsOwn
  <2> SUFFICES ASSUME NEW j \in Ended, NEW role \in DOMAIN j.uses
               PROVE  LET use == j.uses[role]
                      IN  /\ use.key = <<role, j.config.adapters[role],
                                         Without(Merged(role, j.config), "expected_sha256")>>
                          /\ use.content # None <=> FileOf(role, j.config) # None
                          /\ use.content \notin Corrupt
                          /\ PathOf(role, j.config) # None /\ use.pin # None
                               => use.checksum = use.pin
                          /\ role \in FusedRoles => j.config.fused
    BY DEF RunsItsOwn
  <2>1. UseOK(j, role)
    BY DEF IInv, RunOK
  <2>2. j.uses[role].key = Key(role, j.config) /\ EntryOK(Key(role, j.config), j.uses[role])
    BY <2>1 DEF UseOK
  <2>3. role \in FusedRoles => j.config.fused
    BY <2>1, FusedIsAsked DEF UseOK, Reached
  <2>4. /\ FileNamed(Key(role, j.config)[3]) = PathOf(role, j.config)
        /\ KeyFile(Key(role, j.config)) = FileOf(role, j.config)
    BY KeyTellsFile
  <2>5. QED
    BY <2>2, <2>3, <2>4 DEF EntryOK, Key
<1>2. StagesInOrder
  <2> SUFFICES ASSUME NEW j \in Ended
               PROVE  /\ IsPrefix(j.ran, Stages)
                      /\ j.outcome = "result" <=> Len(j.ran) = Len(Stages)
                      /\ \A r \in DOMAIN j.uses :
                           \E k \in 1 .. Min({Len(j.ran) + 1, Len(Stages)}) :
                             r \in Range(RolesOf(Stages[k], j.config))
    BY DEF StagesInOrder
  <2>1. RunOK(j)
    BY DEF IInv
  <2>2. PICK ran \in Seq(StageNames) :
          ran = j.ran /\ Len(ran) <= 8 /\ \A i \in 1 .. Len(ran) : ran[i] = Stages[i]
    BY <2>1 DEF RunOK
  <2>3. PICK m \in 0 .. 8 : m = Len(ran)
    <3>1. Len(ran) \in Nat
      BY LenProperties
    <3>2. PICK m \in Nat : m = Len(ran)
      BY <3>1
    <3>3. m <= 8
      BY <2>2, <3>2
    <3>4. m \in 0 .. 8
      BY <3>3
    <3>5. QED
      BY <3>2, <3>4
  <2>4. IsPrefix(j.ran, Stages)
    <3> DEFINE a == SubSeq(ran, 1, m)
               b == SubSeq(Stages, 1, m)
    <3>1. a \in Seq(StageNames) /\ Len(a) = m /\ \A i \in 1 .. m : a[i] = ran[i]
      <4>1. \A i \in 1 .. m : ran[i] \in StageNames
        BY <2>3, ElementOfSeq
      <4>2. QED
        BY <4>1, SubSeqProperties
    <3>2. b \in Seq(StageNames) /\ Len(b) = m /\ \A i \in 1 .. m : b[i] = Stages[i]
      <4>1. \A i \in 1 .. m : i \in 1 .. 8
        OBVIOUS
      <4>2. \A i \in 1 .. m : Stages[i] \in StageNames
        BY <4>1 DEF StageNames
      <4>3. QED
        BY <4>2, EightStages, SubSeqProperties
    <3>3. a = b
      BY <2>2, <2>3, <3>1, <3>2, SeqEqual
    <3>4. QED
      BY <2>2, <2>3, <3>3, EightStages DEF IsPrefix
  <2>5. ASSUME NEW r \in DOMAIN j.uses
        PROVE  \E k \in 1 .. Min({Len(j.ran) + 1, Len(Stages)}) :
                 r \in Range(RolesOf(Stages[k], j.config))
    <3>1. PICK k \in 1 .. m + 1 : k <= 8 /\ r \in Range(RolesOf(Stages[k], j.config))
      BY <2>1, <2>2, <2>3 DEF RunOK, UseOK, Reached
    <3>2. Min({m + 1, 8}) \in {m + 1, 8}
      <4>1. \E x \in {m + 1, 8} : \A y \in {m + 1, 8} : x <= y
        OBVIOUS
      <4>2. QED
        BY <4>1 DEF Min
    <3>3. k \in 1 .. Min({m + 1, 8})
      BY <3>1, <3>2
    <3>4. QED
      BY <2>2, <2>3, <3>1, <3>3, EightStages
  <2>6. j.outcome = "result" <=> Len(j.ran) = Len(Stages)
    BY <2>1, EightStages DEF RunOK
  <2>7. QED
    BY <2>4, <2>5, <2>6
<1>3. QED
  BY <1>1, <1>2 DEF IInv, RuntimeIsSound

\* What the registry holds and every job uses was loaded for its key, while the
\* registry was not emptied (ModelRegistry.get_or_load).
THEOREM RegistryInvariant ==
  ASSUME NoneIsNoName
  PROVE  Spec => []IInv
<1>1. Init => IInv
  BY Begins
<1>2. IInv /\ [Next]_vars => IInv'
  BY Keeps
<1>3. QED
  BY <1>1, <1>2, PTL DEF Spec

\* However jobs, writes of model files and restarts follow each other, a job
\* runs its own models in the order of the stages (run_analysis_pipeline).
THEOREM JobsRunTheirOwnModels ==
  ASSUME NoneIsNoName
  PROVE  Spec => []RuntimeIsSound
<1>1. IInv => RuntimeIsSound
  BY Sound
<1>2. QED
  BY <1>1, RegistryInvariant, PTL

-----------------------------------------------------------------------------
(* Training.                                                               *)

\* TrainingConfig: patience and epochs are above 0; Python's None is neither a
\* number nor NaN, and NaN is no number.
ConfigOK ==
  /\ Patience \in Nat \ {0} /\ MaxEpochs \in Nat \ {0} /\ MaxRuns \in Nat
  /\ Losses \subseteq Training!Loss
  /\ NaN \notin Int /\ None \notin Int /\ NaN # None

-----------------------------------------------------------------------------
(* The inductive invariant.                                                *)

TrainingWindows == Training!WindowsOf(roster, splits, "train")

\* Between two epochs no gradient is left, and within one every window is
\* still to be seen, pending, or applied.
WindowsOK ==
  /\ phase \in {"split", "validate"} => pending = {}
  /\ phase = "split" => applied = {}
  /\ phase = "validate" => applied = TrainingWindows
  /\ phase = "train" => /\ todo \cup pending \cup applied = TrainingWindows
                        /\ todo \cap (pending \cup applied) = {} /\ pending \cap applied = {}

\* The epochs whose loss was a number.
Numbers == {i \in 1 .. Len(losses) : losses[i] # NaN}

\* The epoch that is kept, by the losses so far.
BestOK ==
  /\ losses \in Seq(Training!Loss)
  /\ best.epoch \in 0 .. Len(losses)
  /\ best.epoch = 0 <=> Numbers = {}
  /\ best.epoch = 0 <=> best.loss = None
  /\ best.epoch # 0 =>
       /\ best.epoch \in Numbers /\ best.loss = losses[best.epoch]
       /\ \A i \in Numbers : /\ losses[i] >= best.loss - 1
                             /\ i < best.epoch => losses[i] > best.loss
  /\ stale = Len(losses) - best.epoch

\* Whose the weights are, and how long the training goes on.
WeightsOK ==
  /\ phase = "split" => losses = <<>> /\ weights = 0
  /\ phase \in {"split", "train", "validate"} => Len(losses) < MaxEpochs /\ stale < Patience
  /\ phase = "train" => weights = Len(losses)
  /\ phase = "validate" => weights = Len(losses) + 1
  /\ phase \in {"trained", "saving"} =>
       /\ weights = IF best.epoch = 0 THEN Len(losses) ELSE best.epoch
       /\ Len(losses) = MaxEpochs \/ stale = Patience

\* The runs the two files are of; a half that was read is not ahead of the
\* other.
PairOK ==
  /\ run \in Nat
  /\ DOMAIN checkpoint = {"pt", "json"}
  /\ checkpoint.pt = None \/ checkpoint.pt \in 0 .. run
  /\ checkpoint.json = None \/ checkpoint.json \in 0 .. run
  /\ checkpoint.pt = None => checkpoint.json = None
  /\ phase = "saving" => checkpoint.pt = run
  /\ checkpoint.pt # checkpoint.json => phase = "saving" \/ torn

ServedOK ==
  served # None =>
    /\ DOMAIN served = {"json", "pt", "whole"}
    /\ served.json \in 0 .. run
    /\ served.pt # None => served.pt \in 0 .. run
    /\ served.whole => IF served.pt = None THEN checkpoint.pt # None /\ checkpoint.pt >= served.json
                                           ELSE served.pt >= served.json

TrainInv ==
  /\ phase \in {"idle", "split", "train", "validate", "trained", "saving"}
  /\ WindowsOK
  /\ phase # "idle" => BestOK /\ WeightsOK
  /\ PairOK /\ ServedOK

-----------------------------------------------------------------------------
(* The epochs.                                                             *)

LEMMA TrainingBegins ==
  ASSUME ConfigOK, Training!Init
  PROVE  TrainInv
<1>1. phase = "idle" /\ run = 0 /\ served = None /\ checkpoint = [pt |-> None, json |-> None]
  BY DEF Training!Init
<1>2. WindowsOK
  BY <1>1 DEF WindowsOK
<1>3. PairOK /\ ServedOK
  BY <1>1 DEF PairOK, ServedOK
<1>4. QED
  BY <1>1, <1>2, <1>3 DEF TrainInv

\* What does not look at the files leaves them and their runs alone.
LEMMA PairStays ==
  ASSUME PairOK, ServedOK, UNCHANGED <<run, checkpoint, torn, served>>,
         phase # "saving", phase' # "saving"
  PROVE  PairOK' /\ ServedOK'
BY DEF PairOK, ServedOK

LEMMA BeginKeeps ==
  ASSUME ConfigOK, TrainInv, Training!Begin
  PROVE  TrainInv'
<1>1. /\ phase = "idle" /\ phase' = "split" /\ run' = run + 1
      /\ todo' = {} /\ pending' = {} /\ applied' = {} /\ losses' = <<>>
      /\ best' = [epoch |-> 0, loss |-> None] /\ stale' = 0 /\ weights' = 0
      /\ UNCHANGED <<checkpoint, torn, served>>
  BY DEF Training!Begin
<1>2. WindowsOK'
  BY <1>1 DEF WindowsOK
<1>3. BestOK' /\ WeightsOK'
  <2>1. losses' \in Seq(Training!Loss) /\ Len(losses') = 0 /\ Numbers' = {}
    BY <1>1 DEF Numbers
  <2>2. BestOK'
    BY <1>1, <2>1 DEF BestOK
  <2>3. WeightsOK'
    BY <1>1, <2>1 DEF WeightsOK, ConfigOK
  <2>4. QED
    BY <2>2, <2>3
<1>4. PairOK'
  BY <1>1 DEF TrainInv, PairOK
<1>5. ServedOK'
  BY <1>1 DEF TrainInv, PairOK, ServedOK
<1>6. QED
  BY <1>1, <1>2, <1>3, <1>4, <1>5 DEF TrainInv

LEMMA SamplesKeep ==
  ASSUME ConfigOK, TrainInv, Training!Split
  PROVE  TrainInv'
<1>1. /\ phase = "split"
      /\ UNCHANGED <<roster, pending, applied, losses, best, stale, weights, run, checkpoint, torn, served>>
  BY DEF Training!Split
<1>2. \/ phase' = "idle"
      \/ phase' = "train" /\ todo' = TrainingWindows'
  <2>1. PICK of :
               /\ splits' = of
               /\ \/ phase' = "idle"
                  \/ phase' = "train" /\ todo' = Training!WindowsOf(roster, of, "train")
    BY DEF Training!Split
  <2>2. QED
    BY <1>1, <2>1 DEF TrainingWindows
<1>3. WindowsOK'
  BY <1>1, <1>2 DEF TrainInv, WindowsOK
<1>4. phase' # "idle" => BestOK' /\ WeightsOK'
  <2>1. BestOK /\ WeightsOK
    BY <1>1 DEF TrainInv
  <2>2. BestOK'
    BY <1>1, <2>1 DEF BestOK, Numbers
  <2>3. phase' = "train" => WeightsOK'
    BY <1>1, <2>1 DEF WeightsOK
  <2>4. QED
    BY <1>2, <2>2, <2>3
<1>5. PairOK' /\ ServedOK'
  BY <1>1, <1>2, PairStays DEF TrainInv
<1>6. QED
  BY <1>2, <1>3, <1>4, <1>5 DEF TrainInv

\* One window more: it is pending, or applied with those that were.
LEMMA TrainWindowKeeps ==
  ASSUME ConfigOK, TrainInv, Training!TrainWindow
  PROVE  TrainInv'
<1>1. /\ phase = "train"
      /\ UNCHANGED <<roster, splits, losses, best, stale, run, checkpoint, torn, served>>
  BY DEF Training!TrainWindow
<1>2. PICK w \in todo :
        /\ todo' = todo \ {w}
        /\ IF Training!StepDue(pending \cup {w}, todo \ {w})
           THEN applied' = applied \cup pending \cup {w} /\ pending' = {}
           ELSE pending' = pending \cup {w} /\ applied' = applied
        /\ IF todo \ {w} = {} THEN phase' = "validate" /\ weights' = Len(losses) + 1
                              ELSE phase' = phase /\ weights' = weights
  BY DEF Training!TrainWindow
<1>3. TrainingWindows' = TrainingWindows
  BY <1>1 DEF TrainingWindows
<1>4. /\ todo \cup pending \cup applied = TrainingWindows
      /\ todo \cap (pending \cup applied) = {} /\ pending \cap applied = {}
  BY <1>1 DEF TrainInv, WindowsOK
<1>5. /\ todo' \cup pending' \cup applied' = TrainingWindows'
      /\ todo' \cap (pending' \cup applied') = {} /\ pending' \cap applied' = {}
  <2>1. CASE Training!StepDue(pending \cup {w}, todo \ {w})
    BY <1>2, <1>3, <1>4, <2>1
  <2>2. CASE ~ Training!StepDue(pending \cup {w}, todo \ {w})
    BY <1>2, <1>3, <1>4, <2>2
  <2>3. QED
    BY <2>1, <2>2
<1>6. todo' = {} => pending' = {}
  BY <1>2 DEF Training!StepDue
<1>7. WindowsOK'
  <2>1. CASE todo' = {}
    <3>1. phase' = "validate" /\ pending' = {} /\ applied' = TrainingWindows'
      BY <1>2, <1>5, <1>6, <2>1
    <3>2. QED
      BY <3>1 DEF WindowsOK
  <2>2. CASE todo' # {}
    <3>1. phase' = "train"
      BY <1>1, <1>2, <2>2
    <3>2. QED
      BY <1>5, <3>1 DEF WindowsOK
  <2>3. QED
    BY <2>1, <2>2
<1>8. BestOK' /\ WeightsOK'
  <2>1. BestOK /\ WeightsOK
    BY <1>1 DEF TrainInv
  <2>2. BestOK'
    BY <1>1, <2>1 DEF BestOK, Numbers
  <2>3. WeightsOK'
    BY <1>1, <1>2, <2>1 DEF WeightsOK
  <2>4. QED
    BY <2>2, <2>3
<1>9. phase' \in {"train", "validate"}
  BY <1>1, <1>2
<1>10. PairOK' /\ ServedOK'
  BY <1>1, <1>9, PairStays DEF TrainInv
<1>11. QED
  BY <1>7, <1>8, <1>9, <1>10 DEF TrainInv

\* The epoch that is kept when one more loss is known.
LEMMA BestStays ==
  ASSUME ConfigOK, BestOK, NEW loss \in Losses,
         losses' = Append(losses, loss),
         best' = IF Training!Improves(loss) THEN [epoch |-> Len(losses) + 1, loss |-> loss] ELSE best,
         stale' = IF Training!Improves(loss) THEN 0 ELSE stale + 1
  PROVE  BestOK'
<1> DEFINE n == Len(losses)
<1>1. loss \in Training!Loss /\ losses \in Seq(Training!Loss) /\ n \in Nat
  BY DEF ConfigOK, BestOK
<1>2. /\ losses' \in Seq(Training!Loss) /\ Len(losses') = n + 1 /\ losses'[n + 1] = loss
      /\ \A i \in 1 .. n : losses'[i] = losses[i]
  BY <1>1
<1>3. \A i \in Numbers : losses[i] \in Nat
  BY <1>1, ElementOfSeq DEF Numbers, Training!Loss
<1>4. Numbers' = IF loss = NaN THEN Numbers ELSE Numbers \cup {n + 1}
  BY <1>1, <1>2 DEF Numbers
<1>5. Numbers \subseteq 1 .. n
  BY DEF Numbers
<1> HIDE DEF n
<1>6. CASE Training!Improves(loss)
  <2>1. loss # NaN /\ loss \in Nat
    BY <1>1, <1>6 DEF Training!Improves, Training!Loss
  <2>2. best' = [epoch |-> n + 1, loss |-> loss] /\ stale' = 0
    BY <1>6 DEF n
  <2>3. Numbers' = Numbers \cup {n + 1}
    BY <1>4, <2>1
  <2>4. \A i \in Numbers : losses[i] > loss
    <3>1. SUFFICES ASSUME NEW i \in Numbers
                   PROVE  losses[i] > loss
      OBVIOUS
    <3>2. /\ best.loss # None /\ best.epoch \in Numbers /\ best.loss = losses[best.epoch]
          /\ losses[i] >= best.loss - 1
      BY DEF BestOK
    <3>3. loss < best.loss - 1
      BY <1>6, <3>2 DEF Training!Improves
    <3>4. PICK a \in Nat : a = best.loss
      BY <1>3, <3>2
    <3>5. PICK b \in Nat : b = losses[i]
      BY <1>3
    <3>6. b >= a - 1 /\ loss < a - 1
      BY <3>2, <3>3, <3>4, <3>5
    <3>7. QED
      BY <2>1, <3>5, <3>6
  <2>5. \A i \in Numbers' : /\ losses'[i] >= loss - 1
                            /\ i < n + 1 => losses'[i] > loss
    <3>1. SUFFICES ASSUME NEW i \in Numbers'
                   PROVE  losses'[i] >= loss - 1 /\ (i < n + 1 => losses'[i] > loss)
      OBVIOUS
    <3>2. CASE i = n + 1
      BY <1>1, <1>2, <2>1, <3>2
    <3>3. CASE i \in Numbers
      <4>1. i \in 1 .. n /\ losses'[i] = losses[i]
        BY <1>2, <1>5, <3>3
      <4>2. PICK b \in Nat : b = losses[i]
        BY <1>3, <3>3
      <4>3. b > loss
        BY <2>4, <3>3, <4>2
      <4>4. QED
        BY <2>1, <4>1, <4>2, <4>3
    <3>4. QED
      BY <2>3, <3>2, <3>3
  <2>6. best'.epoch = n + 1 /\ best'.loss = loss /\ loss # None /\ n + 1 # 0
    BY <1>1, <2>1, <2>2 DEF ConfigOK
  <2>7. n + 1 \in Numbers' /\ Numbers' # {}
    BY <2>3
  <2>8. /\ best'.epoch \in 0 .. Len(losses') /\ stale' = Len(losses') - best'.epoch
        /\ best'.epoch # 0 /\ best'.loss # None
        /\ best'.epoch \in Numbers' /\ best'.loss = losses'[best'.epoch]
    BY <1>1, <1>2, <2>2, <2>6, <2>7
  <2>9. \A i \in Numbers' : /\ losses'[i] >= best'.loss - 1
                            /\ i < best'.epoch => losses'[i] > best'.loss
    BY <2>5, <2>6
  <2>10. QED
    BY <1>2, <2>7, <2>8, <2>9 DEF BestOK
<1>7. CASE ~ Training!Improves(loss)
  <2>1. best' = best /\ stale' = stale + 1
    BY <1>7
  <2>2. PICK e \in 0 .. n : e = best.epoch
    BY DEF BestOK, n
  <2>3. stale = n - e /\ stale' = (n + 1) - e
    BY <1>1, <2>1, <2>2 DEF BestOK, n
  <2>4. CASE loss = NaN
    <3>1. Numbers' = Numbers
      BY <1>4, <2>4
    <3>2. e # 0 =>
            /\ e \in Numbers' /\ best.loss = losses'[e]
            /\ \A i \in Numbers' : /\ losses'[i] >= best.loss - 1
                                   /\ i < e => losses'[i] > best.loss
      BY <1>2, <1>5, <2>2, <3>1 DEF BestOK
    <3>3. (e = 0 <=> Numbers' = {}) /\ (e = 0 <=> best.loss = None)
      BY <2>2, <3>1 DEF BestOK
    <3>4. e \in 0 .. (n + 1)
      BY <1>1, <2>2
    <3>5. QED
      BY <1>2, <2>1, <2>2, <2>3, <3>2, <3>3, <3>4 DEF BestOK
  <2>5. CASE loss # NaN
    <3>1. Numbers' = Numbers \cup {n + 1} /\ loss \in Nat
      BY <1>1, <1>4, <2>5 DEF Training!Loss
    <3>2. best.loss # None /\ ~ (loss < best.loss - 1)
      BY <1>7, <2>5 DEF Training!Improves
    <3>3. e # 0 /\ e \in Numbers /\ best.loss = losses[e]
      BY <2>2, <3>2 DEF BestOK
    <3>4. PICK a \in Nat : a = best.loss
      BY <1>3, <3>3
    <3>5. \A i \in Numbers : losses[i] >= a - 1 /\ (i < e => losses[i] > a)
      BY <2>2, <3>3, <3>4 DEF BestOK
    <3>6. loss >= a - 1
      BY <3>1, <3>2, <3>4
    <3>7. \A i \in Numbers' : losses'[i] >= a - 1 /\ (i < e => losses'[i] > a)
      <4>1. SUFFICES ASSUME NEW i \in Numbers'
                     PROVE  losses'[i] >= a - 1 /\ (i < e => losses'[i] > a)
        OBVIOUS
      <4>2. CASE i = n + 1
        BY <1>1, <1>2, <2>2, <3>6, <4>2
      <4>3. CASE i \in Numbers
        BY <1>2, <1>5, <3>5, <4>3
      <4>4. QED
        BY <3>1, <4>2, <4>3
    <3>8. e \in Numbers' /\ a = losses'[e] /\ Numbers' # {}
      BY <1>2, <1>5, <3>1, <3>3, <3>4
    <3>9. e \in 0 .. (n + 1)
      BY <1>1, <2>2
    <3>10. QED
      BY <1>2, <2>1, <2>2, <2>3, <3>2, <3>3, <3>4, <3>7, <3>8, <3>9 DEF BestOK
  <2>6. QED
    BY <2>4, <2>5
<1>8. QED
  BY <1>6, <1>7

LEMMA EpochEndKeeps ==
  ASSUME ConfigOK, TrainInv, Training!Validate
  PROVE  TrainInv'
<1>1. phase = "validate" /\ UNCHANGED <<roster, splits, pending, run, checkpoint, torn, served>>
  BY DEF Training!Validate
<1>2. BestOK /\ WeightsOK /\ pending = {}
  BY <1>1 DEF TrainInv, WindowsOK
<1>3. PICK loss, epoch, patience, stops, kept :
        /\ loss \in Losses
        /\ epoch = Len(losses) + 1
        /\ patience = IF Training!Improves(loss) THEN 0 ELSE stale + 1
        /\ stops <=> epoch = MaxEpochs \/ Training!OutOfPatience(patience)
        /\ kept = IF Training!Improves(loss) THEN [epoch |-> epoch, loss |-> loss] ELSE best
        /\ losses' = Append(losses, loss)
        /\ best' = kept /\ stale' = patience
        /\ phase' = IF stops THEN "trained" ELSE "train"
        /\ weights' = IF stops /\ kept.epoch > 0 THEN kept.epoch ELSE weights
        /\ todo' = IF stops THEN {} ELSE TrainingWindows
        /\ applied' = {}
  BY DEF Training!Validate, TrainingWindows
<1>4. BestOK'
  BY <1>2, <1>3, BestStays
<1>5. WindowsOK'
  <2>1. TrainingWindows' = TrainingWindows
    BY <1>1 DEF TrainingWindows
  <2>2. pending' = {} /\ applied' = {} /\ phase' \in {"trained", "train"}
    BY <1>1, <1>2, <1>3
  <2>3. phase' = "train" => todo' = TrainingWindows'
    BY <1>3, <2>1
  <2>4. QED
    BY <2>2, <2>3 DEF WindowsOK
<1>6. WeightsOK'
  <2>1. PICK n \in Nat, e \in Nat, s \in Nat :
          n = Len(losses) /\ e = best'.epoch /\ s = stale' /\ e <= n + 1
    <3>1. Len(losses) \in Nat /\ Len(losses') = Len(losses) + 1
      BY <1>2, <1>3 DEF BestOK, ConfigOK
    <3>2. best'.epoch \in 0 .. Len(losses) + 1 /\ stale' = Len(losses) + 1 - best'.epoch
      BY <1>4, <3>1 DEF BestOK
    <3>3. QED
      BY <3>1, <3>2
  <2>2. /\ Len(losses') = n + 1 /\ n < MaxEpochs /\ weights = n + 1
        /\ s = 0 \/ (s = stale + 1 /\ stale < Patience)
    BY <1>1, <1>2, <1>3, <2>1 DEF WeightsOK, BestOK, ConfigOK
  <2>3. stale \in Int
    BY <1>2 DEF BestOK
  <2>4. CASE stops
    <3>1. phase' = "trained" /\ weights' = IF e = 0 THEN n + 1 ELSE e
      BY <1>3, <2>1, <2>2, <2>4
    <3>2. n + 1 = MaxEpochs \/ s = Patience
      <4>1. n + 1 = MaxEpochs \/ s >= Patience
        BY <1>3, <2>1, <2>4 DEF Training!OutOfPatience
      <4>2. QED
        BY <2>2, <2>3, <4>1 DEF ConfigOK
    <3>3. QED
      BY <2>1, <2>2, <3>1, <3>2 DEF WeightsOK
  <2>5. CASE ~ stops
    <3>1. phase' = "train" /\ weights' = weights
      BY <1>3, <2>5
    <3>2. n + 1 # MaxEpochs /\ ~ (s >= Patience)
      BY <1>3, <2>1, <2>5 DEF Training!OutOfPatience
    <3>3. n + 1 < MaxEpochs /\ s < Patience
      BY <2>2, <3>2 DEF ConfigOK
    <3>4. QED
      BY <2>1, <2>2, <3>1, <3>3 DEF WeightsOK
  <2>6. QED
    BY <2>4, <2>5
<1>7. PairOK' /\ ServedOK' /\ phase' \in {"trained", "train"}
  BY <1>1, <1>3, PairStays DEF TrainInv
<1>8. QED
  BY <1>4, <1>5, <1>6, <1>7 DEF TrainInv

-----------------------------------------------------------------------------
(* The files.                                                              *)

\* The training is over: what is known of it stays.
LEMMA ModelStays ==
  ASSUME TrainInv, UNCHANGED Training!trainVars, phase' = phase \/ phase \in {"trained", "saving"},
         phase' \in {phase, "saving", "idle"}
  PROVE  /\ WindowsOK'
         /\ phase' # "idle" => BestOK' /\ WeightsOK'
<1>1. UNCHANGED <<roster, splits, todo, pending, applied, losses, best, stale, weights>>
  BY DEF Training!trainVars
<1>2. TrainingWindows' = TrainingWindows /\ Numbers' = Numbers
  BY <1>1 DEF TrainingWindows, Numbers
<1>3. WindowsOK'
  BY <1>1, <1>2 DEF TrainInv, WindowsOK
<1>4. ASSUME phase' # "idle"
      PROVE  BestOK' /\ WeightsOK'
  <2>1. BestOK /\ WeightsOK
    BY <1>4 DEF TrainInv
  <2>2. BestOK'
    BY <1>1, <1>2, <2>1 DEF BestOK
  <2>3. WeightsOK'
    BY <1>1, <1>4, <2>1 DEF WeightsOK
  <2>4. QED
    BY <2>2, <2>3
<1>5. QED
  BY <1>3, <1>4

LEMMA SaveWeightsKeeps ==
  ASSUME ConfigOK, TrainInv, Training!SaveWeights
  PROVE  TrainInv'
<1>1. /\ phase = "trained" /\ phase' = "saving" /\ checkpoint' = [checkpoint EXCEPT !.pt = run]
      /\ UNCHANGED <<Training!trainVars, run, torn, served>>
  BY DEF Training!SaveWeights
<1>2. WindowsOK' /\ BestOK' /\ WeightsOK'
  BY <1>1, ModelStays
<1>3. DOMAIN checkpoint' = {"pt", "json"} /\ checkpoint'.pt = run /\ checkpoint'.json = checkpoint.json
  BY <1>1 DEF TrainInv, PairOK
<1>4. run \in Nat /\ None \notin Nat
  BY DEF TrainInv, PairOK, ConfigOK
<1>5. PairOK'
  BY <1>1, <1>3, <1>4 DEF TrainInv, PairOK
<1>6. ServedOK'
  BY <1>1, <1>3, <1>4 DEF TrainInv, ServedOK
<1>7. QED
  BY <1>1, <1>2, <1>5, <1>6 DEF TrainInv

LEMMA SaveSidecarKeeps ==
  ASSUME ConfigOK, TrainInv, Training!SaveSidecar
  PROVE  TrainInv'
<1>1. /\ phase = "saving" /\ phase' = "idle" /\ checkpoint' = [checkpoint EXCEPT !.json = run] /\ torn' = FALSE
      /\ UNCHANGED <<Training!trainVars, run, served>>
  BY DEF Training!SaveSidecar
<1>2. WindowsOK'
  BY <1>1, ModelStays
<1>3. DOMAIN checkpoint' = {"pt", "json"} /\ checkpoint'.json = run /\ checkpoint'.pt = checkpoint.pt /\ checkpoint.pt = run
  BY <1>1 DEF TrainInv, PairOK
<1>4. run \in Nat /\ None \notin Nat
  BY DEF TrainInv, PairOK, ConfigOK
<1>5. PairOK'
  BY <1>1, <1>3, <1>4 DEF TrainInv, PairOK
<1>6. ServedOK'
  BY <1>1, <1>3 DEF TrainInv, ServedOK
<1>7. QED
  BY <1>1, <1>2, <1>5, <1>6 DEF TrainInv

LEMMA RunDiesKeeps ==
  ASSUME ConfigOK, TrainInv, Training!Crash
  PROVE  TrainInv'
<1>1. /\ phase' = "idle" /\ torn' = (torn \/ phase = "saving")
      /\ UNCHANGED <<Training!trainVars, run, checkpoint, served>>
  BY DEF Training!Crash
<1>2. WindowsOK'
  BY <1>1 DEF WindowsOK
<1>3. PairOK'
  BY <1>1 DEF TrainInv, PairOK
<1>4. ServedOK'
  BY <1>1 DEF TrainInv, ServedOK
<1>5. QED
  BY <1>1, <1>2, <1>3, <1>4 DEF TrainInv

LEMMA PairLoadKeeps ==
  ASSUME ConfigOK, TrainInv, Training!LoadSidecar \/ Training!LoadWeights
  PROVE  TrainInv'
<1>1. UNCHANGED <<Training!trainVars, phase, run, checkpoint, torn>>
  BY DEF Training!LoadSidecar, Training!LoadWeights
<1>2. WindowsOK' /\ (phase' # "idle" => BestOK' /\ WeightsOK')
  BY <1>1, ModelStays
<1>3. PairOK'
  BY <1>1 DEF TrainInv, PairOK
<1>4. ServedOK'
  <2>1. CASE Training!LoadSidecar
    <3>1. PICK whole \in BOOLEAN :
            /\ whole <=> phase # "saving" /\ ~torn
            /\ served' = [json |-> checkpoint.json, pt |-> None, whole |-> whole]
      BY <2>1, Zenon DEF Training!LoadSidecar
    <3>2. checkpoint.json # None /\ checkpoint.json \in 0 .. run /\ run \in Nat /\ checkpoint.pt # None
      BY <2>1 DEF Training!LoadSidecar, TrainInv, PairOK
    <3>3. whole => checkpoint.pt = checkpoint.json
      BY <3>1 DEF TrainInv, PairOK
    <3>4. QED
      BY <1>1, <3>1, <3>2, <3>3 DEF ServedOK
  <2>2. CASE Training!LoadWeights
    <3>1. served # None /\ served.pt = None /\ served' = [served EXCEPT !.pt = checkpoint.pt]
      BY <2>2 DEF Training!LoadWeights
    <3>2. DOMAIN served = {"json", "pt", "whole"}
      BY <3>1 DEF TrainInv, ServedOK
    <3>3. /\ DOMAIN served' = {"json", "pt", "whole"} /\ served'.pt = checkpoint.pt
          /\ served'.json = served.json /\ served'.whole = served.whole
      BY <3>1, <3>2
    <3>4. checkpoint.pt = None \/ checkpoint.pt \in 0 .. run
      BY DEF TrainInv, PairOK
    <3>5. QED
      BY <1>1, <3>1, <3>3, <3>4 DEF TrainInv, ServedOK
  <2>3. QED
    BY <2>1, <2>2
<1>5. QED
  BY <1>1, <1>2, <1>3, <1>4 DEF TrainInv

-----------------------------------------------------------------------------
(* The theorems.                                                           *)

LEMMA TrainingKeeps ==
  ASSUME ConfigOK, TrainInv, [Training!Next]_Training!vars
  PROVE  TrainInv'
<1>1. CASE Training!Begin        BY <1>1, BeginKeeps
<1>2. CASE Training!Split        BY <1>2, SamplesKeep
<1>3. CASE Training!TrainWindow  BY <1>3, TrainWindowKeeps
<1>4. CASE Training!Validate     BY <1>4, EpochEndKeeps
<1>5. CASE Training!SaveWeights  BY <1>5, SaveWeightsKeeps
<1>6. CASE Training!SaveSidecar  BY <1>6, SaveSidecarKeeps
<1>7. CASE Training!Crash        BY <1>7, RunDiesKeeps
<1>8. CASE Training!LoadSidecar \/ Training!LoadWeights  BY <1>8, PairLoadKeeps
<1>9. CASE UNCHANGED Training!vars
  <2>1. UNCHANGED <<Training!trainVars, phase, run, checkpoint, torn, served>>
    BY <1>9 DEF Training!vars
  <2>2. WindowsOK' /\ (phase' # "idle" => BestOK' /\ WeightsOK')
    BY <2>1, ModelStays
  <2>3. PairOK' /\ ServedOK'
    BY <2>1 DEF TrainInv, PairOK, ServedOK
  <2>4. QED
    BY <2>1, <2>2, <2>3 DEF TrainInv
<1>10. QED
  BY <1>1, <1>2, <1>3, <1>4, <1>5, <1>6, <1>7, <1>8, <1>9 DEF Training!Next

\* No step of a training loses a window, mixes two runs or forgets the best
\* epoch (train_event_model): what the three theorems below rest on.
THEOREM TrainingInvariant ==
  ASSUME ConfigOK
  PROVE  Training!Spec => []TrainInv
<1>1. Training!Init => TrainInv
  BY TrainingBegins
<1>2. TrainInv /\ [Training!Next]_Training!vars => TrainInv'
  BY TrainingKeeps
<1>3. QED
  BY <1>1, <1>2, PTL DEF Training!Spec

\* Whatever the batch size, the gradient of every training window has been
\* applied when an epoch ends (_run_epoch).
THEOREM EpochsStayWhole ==
  ASSUME ConfigOK
  PROVE  Training!Spec => []Training!EpochsAreWhole
<1>1. TrainInv => Training!EpochsAreWhole
  BY DEF TrainInv, WindowsOK, Training!EpochsAreWhole, TrainingWindows
<1>2. QED
  BY <1>1, TrainingInvariant, PTL

\* However the losses go, the weights that come out are those of the epoch that
\* early stopping kept (train_model).
THEOREM BestStaysKept ==
  ASSUME ConfigOK
  PROVE  Training!Spec => []Training!BestIsKept
<1>1. TrainInv => Training!BestIsKept
  <2>1. SUFFICES ASSUME TrainInv, phase \in {"trained", "saving"}
                 PROVE  /\ IF Numbers = {} THEN weights = Len(losses)
                           ELSE /\ weights \in Numbers
                                /\ \A i \in Numbers : losses[i] >= losses[weights] - 1
                                /\ \A i \in Numbers : i < weights => losses[i] > losses[weights]
                        /\ \/ Len(losses) = MaxEpochs
                           \/ Len(losses) = (IF Numbers = {} THEN 0 ELSE weights) + Patience
    BY DEF Training!BestIsKept, Numbers
  <2>2. BestOK /\ WeightsOK
    BY <2>1 DEF TrainInv
  <2>3. Len(losses) \in Nat /\ best.epoch \in 0 .. Len(losses) /\ stale = Len(losses) - best.epoch
    BY <2>2 DEF BestOK
  <2>4. /\ weights = IF best.epoch = 0 THEN Len(losses) ELSE best.epoch
        /\ Len(losses) = MaxEpochs \/ stale = Patience
    BY <2>1, <2>2 DEF WeightsOK
  <2>5. CASE best.epoch = 0
    BY <2>2, <2>3, <2>4, <2>5 DEF BestOK
  <2>6. CASE best.epoch # 0
    <3>1. Numbers # {} /\ weights = best.epoch /\ best.loss = losses[weights]
      BY <2>2, <2>4, <2>6 DEF BestOK
    <3>2. /\ weights \in Numbers
          /\ \A i \in Numbers : /\ losses[i] >= losses[weights] - 1
                                /\ i < weights => losses[i] > losses[weights]
      BY <2>2, <2>6, <3>1 DEF BestOK
    <3>3. Len(losses) = MaxEpochs \/ Len(losses) = weights + Patience
      BY <2>3, <2>4, <3>1
    <3>4. QED
      BY <3>1, <3>2, <3>3
  <2>7. QED
    BY <2>5, <2>6
<1>2. QED
  BY <1>1, TrainingInvariant, PTL

\* However many runs die wherever, the two files are of one run, and so are the
\* halves that are loaded, but where a run is or has died between them
\* (save_checkpoint, load_checkpoint).
THEOREM PairsStayTogether ==
  ASSUME ConfigOK
  PROVE  Training!Spec => []Training!PairsAgree
<1>1. ASSUME TrainInv
      PROVE  Training!PairsAgree
  <2>1. checkpoint.pt # checkpoint.json => phase = "saving" \/ torn
    BY <1>1 DEF TrainInv, PairOK
  <2>2. ASSUME served # None, served.pt # None, served.whole, served.pt # served.json
        PROVE  served.pt > served.json
    <3>1. run \in Nat /\ served.pt \in 0 .. run /\ served.json \in 0 .. run
      BY <1>1, <2>2 DEF TrainInv, PairOK, ServedOK
    <3>2. served.pt >= served.json
      BY <1>1, <2>2 DEF TrainInv, ServedOK
    <3>3. QED
      BY <2>2, <3>1, <3>2
  <2>3. QED
    BY <2>1, <2>2 DEF Training!PairsAgree
<1>2. QED
  BY <1>1, TrainingInvariant, PTL
=============================================================================
