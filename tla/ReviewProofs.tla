---------------------------- MODULE ReviewProofs ----------------------------
(***************************************************************************)
(* Proofs about Review: type correctness, that a recomputation during      *)
(* which nobody else committed leaves the score of the rows it leaves, and *)
(* that a settled submission stays as it is.                               *)
(***************************************************************************)
EXTENDS Review, TLAPS

\* What a request is, whatever the others do.
Shape(c) ==
  /\ req[c].seen # None => score \in Score
  /\ Busy(c) =>
       /\ req[c].ruleset \in Rulesets
       /\ IF req[c].kind \in ItemKinds THEN req[c].item \in Items ELSE req[c].item = None
       /\ req[c].pc \in {"write", "events"} => req[c].counted = {}
       /\ req[c].kind \in {"submit", "reopen"} =>
            /\ req[c].pc \in {"write", "commit"}
            /\ req[c].wrote \subseteq {"job"}
            /\ req[c].pc = "commit" => "job" \in req[c].wrote

\* What the request loaded when it was admitted is what the tables hold, and it
\* has flushed what differs from that.
Loaded(c) ==
  /\ req[c].ruleset # ruleset => req[c].kind = "ruleset" /\ req[c].differs
  /\ req[c].kind \in ItemKinds =>
       /\ req[c].kind = "create" <=> items[req[c].item] = "absent"
       /\ req[c].to # items[req[c].item] => req[c].sets
  /\ req[c].sets => req[c].differs
  /\ req[c].pc # "write" /\ req[c].differs =>
       /\ req[c].kind \in ItemKinds => req[c].item \in req[c].wrote
       /\ req[c].kind = "ruleset" => "job" \in req[c].wrote

\* The rows as they will be when it has committed.
Intended(c) ==
  IF req[c].kind \in ItemKinds /\ req[c].sets
  THEN [items EXCEPT ![req[c].item] = req[c].to]
  ELSE items

\* It has read the rows as it will leave them.
ReadSoFar(c) ==
  LET after == Counted(Intended(c))
  IN
  /\ req[c].pc = "deductions" => req[c].counted = after \cap Events
  /\ req[c].pc = "evaluation" => req[c].counted = after \cap Findings
  /\ req[c].kind \in Recomputes =>
       /\ req[c].pc \in {"load", "store", "commit"} => req[c].counted = after
       /\ req[c].pc \in {"store", "commit"} => req[c].seen = score
       /\ req[c].pc = "commit" => "score" \in req[c].wrote \/ score = NewScore(c)

AloneOK(c) == Busy(c) /\ req[c].alone => Loaded(c) /\ ReadSoFar(c)

IInv == TypeOK /\ \A c \in Clients : Shape(c) /\ AloneOK(c)

-----------------------------------------------------------------------------
LEMMA IdleIsRequest ==
  /\ Idle \in Request /\ Idle.pc = "idle" /\ Idle.seen = None
  /\ Idle.alone = TRUE /\ Idle.counted = {} /\ Idle.wrote = {}
  BY DEF Idle, Request, PC, AllKinds, ItemStatus

\* Only c's request changes.
OnlyRequest(c) ==
  /\ req' \in [Clients -> Request]
  /\ \A d \in Clients \ {c} : req'[d] = req[d]
  /\ UNCHANGED <<items, review, ruleset, score>>

\* It goes on with what it was asked to do.
GoesOn(c, pc, counted, seen, wrote) ==
  /\ OnlyRequest(c)
  /\ req'[c].pc = pc
  /\ req'[c].counted = counted
  /\ req'[c].seen = seen
  /\ req'[c].wrote = wrote
  /\ req'[c].kind = req[c].kind
  /\ req'[c].item = req[c].item
  /\ req'[c].to = req[c].to
  /\ req'[c].differs = req[c].differs
  /\ req'[c].sets = req[c].sets
  /\ req'[c].ruleset = req[c].ruleset
  /\ req'[c].alone = req[c].alone

LEMMA OthersKeep ==
  ASSUME IInv, NEW c \in Clients, OnlyRequest(c), Shape(c)', AloneOK(c)'
  PROVE  IInv'
<1>1. TypeOK'
  BY DEF IInv, TypeOK, OnlyRequest
<1>2. \A d \in Clients \ {c} : Shape(d)' /\ AloneOK(d)'
  <2> TAKE d \in Clients \ {c}
  <2>1. /\ req'[d] = req[d] /\ Shape(d) /\ AloneOK(d)
        /\ UNCHANGED <<items, ruleset, score>>
    BY DEF IInv, OnlyRequest
  <2>2. Intended(d)' = Intended(d) /\ NewScore(d)' = NewScore(d)
    BY <2>1 DEF Intended, NewScore
  <2>3. Loaded(d)' = Loaded(d) /\ ReadSoFar(d)' = ReadSoFar(d) /\ Busy(d)' = Busy(d)
    BY <2>1, <2>2 DEF Loaded, ReadSoFar, Busy
  <2>4. QED
    BY <2>1, <2>3 DEF Shape, AloneOK
<1>3. QED
  BY <1>1, <1>2 DEF IInv

LEMMA FlushGoesOn ==
  ASSUME TypeOK, NEW c \in Clients, NEW rows \in SUBSET Rows, NEW pc \in PC, Flush(c, rows, pc)
  PROVE  GoesOn(c, pc, req[c].counted, req[c].seen, req[c].wrote \cup rows)
<1>1. req[c] \in Request
  BY DEF TypeOK
<1>2. req'[c] = [req[c] EXCEPT !.pc = pc, !.wrote = req[c].wrote \cup rows]
  BY DEF Flush, TypeOK
<1>3. req'[c] \in Request
  BY <1>1, <1>2 DEF Request
<1>4. OnlyRequest(c)
  BY <1>2, <1>3 DEF OnlyRequest, Flush, TypeOK
<1>5. QED
  BY <1>1, <1>2, <1>4 DEF GoesOn, Request

LEMMA ReadGoesOn ==
  ASSUME TypeOK, NEW c \in Clients, NEW rows \in SUBSET Items, NEW to \in PC, NEW from,
         Read(c, from, to, rows)
  PROVE  GoesOn(c, to, req[c].counted \cup rows, req[c].seen, req[c].wrote)
<1>1. req[c] \in Request
  BY DEF TypeOK
<1>2. req'[c] = [req[c] EXCEPT !.pc = to, !.counted = req[c].counted \cup rows]
  BY DEF Read, TypeOK
<1>3. req'[c] \in Request
  BY <1>1, <1>2 DEF Request
<1>4. OnlyRequest(c)
  BY <1>2, <1>3 DEF OnlyRequest, Read, TypeOK
<1>5. QED
  BY <1>1, <1>2, <1>4 DEF GoesOn, Request

LEMMA LoadGoesOn ==
  ASSUME TypeOK, NEW c \in Clients, LoadScore(c)
  PROVE  GoesOn(c, "store", req[c].counted, score, req[c].wrote)
<1>1. req[c] \in Request
  BY DEF TypeOK
<1>2. req'[c] = [req[c] EXCEPT !.pc = "store", !.seen = score]
  BY DEF LoadScore, TypeOK
<1>3. req'[c] \in Request
  BY <1>1, <1>2, ZenonT(60) DEF Request, TypeOK, PC
<1>4. OnlyRequest(c)
  BY <1>2, <1>3 DEF OnlyRequest, LoadScore, TypeOK
<1>5. QED
  BY <1>1, <1>2, <1>4 DEF GoesOn, Request

\* A request that ends without a commit leaves no trace.
LEMMA FailKeeps ==
  ASSUME IInv, NEW c \in Clients, Fail(c)
  PROVE  IInv'
<1>1. req'[c] = Idle /\ OnlyRequest(c)
  BY IdleIsRequest DEF IInv, Fail, TypeOK, OnlyRequest
<1>2. Shape(c)' /\ AloneOK(c)'
  BY <1>1, IdleIsRequest DEF Shape, AloneOK, Busy
<1>3. QED
  BY <1>1, <1>2, OthersKeep

-----------------------------------------------------------------------------
(* Admission.                                                              *)

\* What the routers pass to Admit.
Asked(kind, i, to, differs, sets, version) ==
  /\ kind \in AllKinds /\ to \in ItemStatus /\ version \in Rulesets
  /\ differs \in BOOLEAN /\ sets \in BOOLEAN
  /\ sets => differs
  /\ version # ruleset => kind = "ruleset" /\ differs
  /\ IF kind \in ItemKinds THEN i \in Items ELSE i = None
  /\ kind \in ItemKinds => /\ kind = "create" <=> items[i] = "absent"
                           /\ to # items[i] => sets

\* The request that Admit leaves.
Admitted(c, kind, i, to, differs, sets, version) ==
  /\ OnlyRequest(c)
  /\ req'[c].pc = IF kind = "score" THEN "events" ELSE "write"
  /\ req'[c].kind = kind
  /\ req'[c].item = i
  /\ req'[c].to = to
  /\ req'[c].differs = differs
  /\ req'[c].sets = sets
  /\ req'[c].ruleset = version
  /\ req'[c].seen = None
  /\ req'[c].counted = {}
  /\ req'[c].wrote = {}

LEMMA AdmitLeaves ==
  ASSUME TypeOK, NEW c \in Clients,
         NEW kind, NEW i, NEW to, NEW differs, NEW sets, NEW version,
         Asked(kind, i, to, differs, sets, version),
         Admit(c, kind, i, to, differs, sets, version)
  PROVE  Admitted(c, kind, i, to, differs, sets, version)
<1> DEFINE pc == IF kind = "score" THEN "events" ELSE "write"
<1>1. req'[c] = [Idle EXCEPT !.pc = pc, !.kind = kind, !.item = i, !.to = to,
                             !.differs = differs, !.sets = sets, !.ruleset = version]
  BY DEF Admit, TypeOK
<1>2. /\ req'[c] \in Request /\ req'[c].pc = pc /\ req'[c].kind = kind /\ req'[c].item = i
      /\ req'[c].to = to /\ req'[c].differs = differs /\ req'[c].sets = sets
      /\ req'[c].ruleset = version /\ req'[c].seen = None /\ req'[c].counted = {}
      /\ req'[c].wrote = {}
  <2>1. pc \in PC /\ i \in Items \cup {None}
    BY DEF PC, Asked
  <2> HIDE DEF pc
  <2>2. req'[c] \in Request
    BY <1>1, <2>1, IdleIsRequest, ZenonT(60) DEF Request, Asked
  <2>3. /\ req'[c].pc = pc /\ req'[c].kind = kind /\ req'[c].item = i
        /\ req'[c].to = to /\ req'[c].ruleset = version
    BY <1>1, IdleIsRequest DEF Request
  <2>4. req'[c].differs = differs /\ req'[c].sets = sets
    BY <1>1, IdleIsRequest DEF Request, Asked
  <2>5. req'[c].seen = None /\ req'[c].counted = {} /\ req'[c].wrote = {}
    BY <1>1, IdleIsRequest DEF Request
  <2>6. QED
    BY <2>2, <2>3, <2>4, <2>5
<1>3. OnlyRequest(c)
  BY <1>2 DEF OnlyRequest, Admit, TypeOK
<1>4. QED
  BY <1>2, <1>3 DEF Admitted

LEMMA AdmitKeeps ==
  ASSUME IInv, NEW c \in Clients, NEW kind, NEW i, NEW to, NEW differs, NEW sets, NEW version,
         Asked(kind, i, to, differs, sets, version),
         Admit(c, kind, i, to, differs, sets, version)
  PROVE  IInv'
<1>1. Admitted(c, kind, i, to, differs, sets, version)
  BY AdmitLeaves DEF IInv
<1>2. Shape(c)'
  BY <1>1 DEF Admitted, Shape, Busy, Asked, OnlyRequest, ItemKinds
<1>3. AloneOK(c)'
  BY <1>1 DEF Admitted, AloneOK, Busy, Loaded, ReadSoFar, Asked, OnlyRequest, ItemKinds
<1>4. QED
  BY <1>1, <1>2, <1>3, OthersKeep DEF Admitted

LEMMA SubmittingKeeps ==
  ASSUME IInv, NEW c \in Clients, Submitting(c)
  PROVE  IInv'
<1> USE DEF ItemKinds, AllKinds, ItemStatus, ReviewStatus
<1>0. ruleset \in Rulesets /\ Findings \subseteq Items /\ Evaluations \subseteq Items
  BY DEF IInv, TypeOK, Items
<1>1. ASSUME NEW i \in Items, NEW kind \in {"patch", "confirm", "reject", "delete"},
             NEW to \in ItemStatus, NEW content \in BOOLEAN, NEW edits \in BOOLEAN,
             edits => content, AdmitChange(c, kind, i, to, content, edits)
      PROVE  IInv'
  <2>1. Asked(kind, i, to, content \/ to # items[i], edits \/ to # items[i], ruleset)
    BY <1>0, <1>1 DEF Asked, AdmitChange
  <2>2. Admit(c, kind, i, to, content \/ to # items[i], edits \/ to # items[i], ruleset)
    BY <1>1 DEF AdmitChange
  <2>3. QED
    BY <2>1, <2>2, AdmitKeeps
<1>2. ASSUME NEW i \in Items, items[i] = "absent",
             Admit(c, "create", i, "confirmed", TRUE, TRUE, ruleset)
      PROVE  IInv'
  <2>1. Asked("create", i, "confirmed", TRUE, TRUE, ruleset)
    BY <1>0, <1>2 DEF Asked
  <2>2. QED
    BY <1>2, <2>1, AdmitKeeps
<1>3. ASSUME NEW kind \in {"score", "submit", "reopen"}, NEW differs \in BOOLEAN,
             Admit(c, kind, None, "absent", differs, FALSE, ruleset)
      PROVE  IInv'
  <2>1. Asked(kind, None, "absent", differs, FALSE, ruleset)
    BY <1>0, <1>3 DEF Asked
  <2>2. QED
    BY <1>3, <2>1, AdmitKeeps
<1>4. ASSUME NEW version \in Rulesets, AdmitRuleset(c, version)
      PROVE  IInv'
  <2>1. Asked("ruleset", None, "absent", version # ruleset, FALSE, version)
    BY <1>4 DEF Asked
  <2>2. Admit(c, "ruleset", None, "absent", version # ruleset, FALSE, version)
    BY <1>4 DEF AdmitRuleset
  <2>3. QED
    BY <2>1, <2>2, AdmitKeeps
<1>5. ASSUME NEW i \in Findings, AdmitCreate(c, i)
      PROVE  IInv'
  BY <1>0, <1>2, <1>5 DEF AdmitCreate
<1>6. ASSUME NEW i \in Findings, NEW to \in ReviewStatus, AdmitPatch(c, i, to)
      PROVE  IInv'
  <2>1. PICK content \in BOOLEAN, edits \in BOOLEAN :
          (edits => content) /\ AdmitChange(c, "patch", i, to, content, edits)
    BY <1>6 DEF AdmitPatch
  <2>2. QED
    BY <1>0, <1>1, <2>1
<1>7. ASSUME NEW i \in Findings, AdmitConfirm(c, i) \/ AdmitReject(c, i) \/ AdmitDelete(c, i)
      PROVE  IInv'
  BY <1>0, <1>1, <1>7 DEF AdmitConfirm, AdmitReject, AdmitDelete
<1>8. ASSUME NEW i \in Evaluations, AdmitEvaluation(c, i)
      PROVE  IInv'
  BY <1>0, <1>1, <1>2, <1>8 DEF AdmitEvaluation, AdmitFirstEvaluation
<1>9. CASE AdmitScore(c) \/ AdmitSubmit(c) \/ AdmitReopen(c)
  BY <1>3, <1>9 DEF AdmitScore, AdmitSubmit, AdmitReopen
<1>10. QED
  BY <1>4, <1>5, <1>6, <1>7, <1>8, <1>9 DEF Submitting

-----------------------------------------------------------------------------
(* The steps of a request.                                                 *)

LEMMA CountedItems ==
  ASSUME NEW st
  PROVE  Counted(st) \subseteq Items
  BY DEF Counted

\* From its flush on, what the SELECTs show and what the commit leaves are the
\* rows as the request intends them, as long as nobody else has committed.
LEMMA ViewIsIntended ==
  ASSUME IInv, NEW c \in Clients, Busy(c), req[c].alone, req[c].pc # "write"
  PROVE  View(c) = Intended(c) /\ ItemsAfter(c) = Intended(c)
<1>1. Loaded(c) /\ Shape(c) /\ items \in [Items -> ItemStatus]
  BY DEF IInv, AloneOK, TypeOK
<1>2. CASE req[c].kind \in ItemKinds
  <2>1. req[c].item \in Items /\ req[c].item # None
    BY <1>1, <1>2, NoneAssumption DEF Shape
  <2>2. CASE req[c].sets
    <3>1. req[c].item \in req[c].wrote
      BY <1>1, <1>2, <2>2 DEF Loaded
    <3>2. QED
      BY <1>2, <2>2, <3>1 DEF View, ItemsAfter, Intended
  <2>3. CASE ~req[c].sets
    <3>1. req[c].to = items[req[c].item]
      BY <1>1, <1>2, <2>3 DEF Loaded
    <3>2. [items EXCEPT ![req[c].item] = req[c].to] = items
      BY <1>1, <2>1, <3>1
    <3>3. QED
      BY <2>3, <3>2 DEF View, ItemsAfter, Intended
  <2>4. QED
    BY <2>2, <2>3
<1>3. CASE req[c].kind \notin ItemKinds
  <2>1. req[c].item = None
    BY <1>1, <1>3 DEF Shape
  <2>2. [items EXCEPT ![None] = req[c].to] = items
    BY <1>1, NoneAssumption
  <2>3. QED
    BY <1>3, <2>1, <2>2 DEF View, ItemsAfter, Intended
<1>4. QED
  BY <1>2, <1>3

\* What GoesOn does not touch.
LEMMA SameIntent ==
  ASSUME NEW c \in Clients, NEW pc, NEW counted, NEW seen, NEW wrote,
         GoesOn(c, pc, counted, seen, wrote)
  PROVE  /\ Intended(c)' = Intended(c)
         /\ UNCHANGED <<items, ruleset, score>>
         /\ OnlyRequest(c)
  BY DEF GoesOn, OnlyRequest, Intended

\* The edit is flushed, or has nothing to flush.
LEMMA FlushKeeps ==
  ASSUME IInv, NEW c \in Clients, NEW rows \in SUBSET Rows,
         req[c].pc = "write", Flush(c, rows, AfterWrite(c)),
         req[c].kind \in {"submit", "reopen"} => rows = {"job"},
         req[c].differs =>
           /\ req[c].kind \in ItemKinds =>
                req[c].item \in rows \/ (req[c].kind = "delete" /\ items[req[c].item] = "absent")
           /\ req[c].kind = "ruleset" => "job" \in rows
  PROVE  IInv'
<1>1. AfterWrite(c) \in {"events", "commit"} /\ AfterWrite(c) \in PC
  BY DEF AfterWrite, PC
<1>2. GoesOn(c, AfterWrite(c), req[c].counted, req[c].seen, req[c].wrote \cup rows)
  BY <1>1, FlushGoesOn DEF IInv
<1>3. /\ TypeOK /\ Shape(c) /\ AloneOK(c) /\ Busy(c)
      /\ req[c].kind \in {"submit", "reopen"} => AfterWrite(c) = "commit"
      /\ req[c].kind \in Recomputes => AfterWrite(c) = "events"
  BY DEF IInv, Busy, AfterWrite, Recomputes
<1>4. Shape(c)'
  BY <1>1, <1>2, <1>3, SameIntent DEF GoesOn, Shape, Busy
<1>5. ASSUME req[c].alone
      PROVE  Loaded(c)' /\ ReadSoFar(c)'
  <2>1. Loaded(c)
    BY <1>3, <1>5 DEF AloneOK
  <2>2. req[c].differs =>
           /\ req[c].kind \in ItemKinds => req[c].item \in req'[c].wrote
           /\ req[c].kind = "ruleset" => "job" \in req'[c].wrote
    BY <1>2, <2>1 DEF GoesOn, Loaded
  <2>3. Loaded(c)'
    BY <1>2, <2>1, <2>2, SameIntent DEF GoesOn, Loaded
  <2>4. ReadSoFar(c)'
    BY <1>1, <1>2, <1>3 DEF GoesOn, ReadSoFar
  <2>5. QED
    BY <2>3, <2>4
<1>6. AloneOK(c)'
  BY <1>2, <1>5 DEF AloneOK, GoesOn
<1>7. QED
  BY <1>2, <1>4, <1>6, SameIntent, OthersKeep

LEMMA WriteKeeps ==
  ASSUME IInv, NEW c \in Clients, WriteItem(c) \/ WriteJob(c)
  PROVE  IInv'
<1>0. TypeOK /\ Shape(c) /\ Busy(c) /\ req[c].pc = "write"
  BY DEF IInv, Busy, WriteItem, WriteJob
<1>1. CASE WriteItem(c)
  <2>1. req[c].kind \in ItemKinds /\ req[c].item \in Items
    BY <1>0, <1>1 DEF WriteItem, Shape
  <2>2. req[c].kind \notin {"submit", "reopen", "ruleset"}
    BY <2>1 DEF ItemKinds
  <2>3. CASE ~req[c].differs /\ Flush(c, {}, AfterWrite(c))
    BY <1>0, <2>2, <2>3, FlushKeeps
  <2>4. CASE Flush(c, {req[c].item}, AfterWrite(c))
    BY <1>0, <2>1, <2>2, <2>4, FlushKeeps DEF Rows
  <2>5. CASE items[req[c].item] = "absent" /\ req[c].kind = "delete" /\ Flush(c, {}, AfterWrite(c))
    BY <1>0, <2>2, <2>5, FlushKeeps
  <2>6. CASE Fail(c)
    BY <2>6, FailKeeps
  <2>7. QED
    BY <1>1, <2>3, <2>4, <2>5, <2>6 DEF WriteItem
<1>2. CASE WriteJob(c)
  <2>1. req[c].kind \notin ItemKinds
    BY <1>2 DEF WriteJob, ItemKinds
  <2>2. CASE req[c].kind = "ruleset" /\ ~req[c].differs /\ Flush(c, {}, AfterWrite(c))
    BY <1>0, <2>1, <2>2, FlushKeeps
  <2>3. CASE Flush(c, {"job"}, AfterWrite(c))
    BY <1>0, <2>1, <2>3, FlushKeeps DEF Rows
  <2>4. QED
    BY <1>2, <2>2, <2>3 DEF WriteJob
<1>3. QED
  BY <1>1, <1>2

\* A SELECT of recompute_score adds the rows of its table.
LEMMA ReadKeeps ==
  ASSUME IInv, NEW c \in Clients, ReadEvents(c) \/ ReadDeductions(c) \/ ReadEvaluation(c)
  PROVE  IInv'
<1> DEFINE now == Counted(View(c))
<1>0. /\ TypeOK /\ Shape(c) /\ AloneOK(c) /\ Busy(c) /\ req[c].pc \notin {"write", "commit"}
      /\ now \subseteq Items
  BY CountedItems DEF IInv, Busy, ReadEvents, ReadDeductions, ReadEvaluation, Read
<1>1. PICK from \in {"events", "deductions", "evaluation"},
           to \in {"deductions", "evaluation", "load"}, table \in SUBSET Items :
        /\ Read(c, from, to, now \cap table)
        /\ \/ from = "events" /\ to = "deductions" /\ table = Events
           \/ from = "deductions" /\ to = "evaluation" /\ table = Deductions
           \/ from = "evaluation" /\ to = "load" /\ table = Evaluations
  BY DEF ReadEvents, ReadDeductions, ReadEvaluation, Items, Findings
<1>2. to \in PC /\ req[c].pc = from
  BY <1>1 DEF PC, Read
<1>3. GoesOn(c, to, req[c].counted \cup (now \cap table), req[c].seen, req[c].wrote)
  BY <1>0, <1>1, <1>2, ReadGoesOn
<1>4. Shape(c)'
  BY <1>0, <1>1, <1>2, <1>3, SameIntent DEF GoesOn, Shape, Busy
<1>5. ASSUME req[c].alone
      PROVE  Loaded(c)' /\ ReadSoFar(c)'
  <2>1. Loaded(c) /\ ReadSoFar(c) /\ now = Counted(Intended(c))
    BY <1>0, <1>5, ViewIsIntended DEF AloneOK
  <2>2. Loaded(c)'
    BY <1>0, <1>3, <2>1, SameIntent DEF GoesOn, Loaded
  <2> HIDE DEF now
  <2>3. /\ to = "deductions" => req'[c].counted = now \cap Events
        /\ to = "evaluation" => req'[c].counted = now \cap Findings
        /\ to = "load" => req'[c].counted = now
    <3>1. CASE from = "events"
      BY <1>0, <1>1, <1>2, <1>3, <3>1 DEF GoesOn, Shape
    <3>2. CASE from = "deductions"
      BY <1>1, <1>2, <1>3, <2>1, <3>2 DEF GoesOn, ReadSoFar, Findings
    <3>3. CASE from = "evaluation"
      BY <1>0, <1>1, <1>2, <1>3, <2>1, <3>3 DEF GoesOn, ReadSoFar, Items
    <3>4. QED
      BY <1>1, <3>1, <3>2, <3>3
  <2>4. Counted(Intended(c))' = now
    BY <1>3, <2>1, SameIntent DEF Counted
  <2>5. ReadSoFar(c)'
    BY <1>1, <1>3, <2>3, <2>4 DEF GoesOn, ReadSoFar
  <2>6. QED
    BY <2>2, <2>5
<1>6. AloneOK(c)'
  BY <1>3, <1>5 DEF AloneOK, GoesOn
<1>7. QED
  BY <1>3, <1>4, <1>6, SameIntent, OthersKeep

LEMMA LoadKeeps ==
  ASSUME IInv, NEW c \in Clients, LoadScore(c)
  PROVE  IInv'
<1>0. TypeOK /\ Shape(c) /\ AloneOK(c) /\ Busy(c) /\ req[c].pc = "load"
  BY DEF IInv, Busy, LoadScore
<1>1. GoesOn(c, "store", req[c].counted, score, req[c].wrote)
  BY <1>0, LoadGoesOn
<1>2. Shape(c)'
  BY <1>0, <1>1, SameIntent DEF GoesOn, Shape, Busy, TypeOK
<1>3. AloneOK(c)'
  <2>1. CASE ~req[c].alone
    BY <1>1, <2>1 DEF AloneOK, GoesOn
  <2>2. CASE req[c].alone
    <3>1. Loaded(c) /\ ReadSoFar(c)
      BY <1>0, <2>2 DEF AloneOK
    <3>2. Loaded(c)'
      BY <1>0, <1>1, <3>1, SameIntent DEF GoesOn, Loaded
    <3>3. Counted(Intended(c))' = Counted(Intended(c))
      BY <1>1, SameIntent DEF Counted
    <3>4. ReadSoFar(c)'
      BY <1>0, <1>1, <3>1, <3>3, SameIntent DEF GoesOn, ReadSoFar
    <3>5. QED
      BY <3>2, <3>4 DEF AloneOK
  <2>3. QED
    BY <2>1, <2>2
<1>4. QED
  BY <1>1, <1>2, <1>3, SameIntent, OthersKeep

LEMMA StoreKeeps ==
  ASSUME IInv, NEW c \in Clients, Store(c)
  PROVE  IInv'
<1>0. TypeOK /\ Shape(c) /\ AloneOK(c) /\ Busy(c) /\ req[c].pc = "store"
  BY DEF IInv, Busy, Store
<1>1. CASE Fail(c)
  BY <1>1, FailKeeps
<1>2. ASSUME NEW rows \in {{}, {"score"}}, Flush(c, rows, "commit"),
             rows = {} => req[c].seen = NewScore(c)
      PROVE  IInv'
  <2>1. GoesOn(c, "commit", req[c].counted, req[c].seen, req[c].wrote \cup rows)
    BY <1>0, <1>2, FlushGoesOn DEF Rows, PC
  <2>2. Shape(c)'
    BY <1>0, <2>1, SameIntent DEF GoesOn, Shape, Busy
  <2>3. AloneOK(c)'
    <3>1. CASE ~req[c].alone
      BY <2>1, <3>1 DEF AloneOK, GoesOn
    <3>2. CASE req[c].alone
      <4>1. Loaded(c) /\ ReadSoFar(c)
        BY <1>0, <3>2 DEF AloneOK
      <4>2. Loaded(c)'
        BY <1>0, <2>1, <4>1, SameIntent DEF GoesOn, Loaded
      <4>3. Counted(Intended(c))' = Counted(Intended(c)) /\ NewScore(c)' = NewScore(c)
        BY <2>1, SameIntent DEF Counted, NewScore, GoesOn
      <4>4. req[c].kind \in Recomputes => "score" \in req'[c].wrote \/ score = NewScore(c)
        BY <1>0, <1>2, <2>1, <4>1 DEF GoesOn, ReadSoFar
      <4>5. ReadSoFar(c)'
        BY <1>0, <2>1, <4>1, <4>3, <4>4, SameIntent DEF GoesOn, ReadSoFar
      <4>6. QED
        BY <4>2, <4>5 DEF AloneOK
    <3>3. QED
      BY <3>1, <3>2
  <2>4. QED
    BY <2>1, <2>2, <2>3, SameIntent, OthersKeep
<1>3. QED
  BY <1>1, <1>2 DEF Store

\* A transaction that has flushed nothing commits nothing.
LEMMA NothingWritten ==
  ASSUME IInv, NEW c \in Clients, req[c].pc = "commit", CommitEnds(c), req[c].wrote = {}
  PROVE  UNCHANGED <<items, review, ruleset, score>>
<1>1. req[c].kind \notin {"submit", "reopen"}
  BY DEF IInv, Shape, Busy
<1>2. QED
  BY <1>1 DEF CommitEnds, ItemsAfter, ReviewAfter, RulesetAfter, ScoreAfter

LEMMA CommitKeeps ==
  ASSUME IInv, NEW c \in Clients, Commit(c)
  PROVE  IInv'
<1>0. /\ TypeOK /\ Shape(c) /\ Busy(c) /\ req[c].pc = "commit" /\ CommitEnds(c)
      /\ req[c] \in Request /\ req[c].ruleset \in Rulesets
  BY DEF IInv, Busy, Commit, Shape, TypeOK
<1>1. NewScore(c) \in Score
  BY <1>0 DEF NewScore, Score, Request
<1>2. ScoreAfter(c) \in Score \cup {None} /\ (score \in Score => ScoreAfter(c) \in Score)
  <2>1. CASE "score" \notin req[c].wrote
    BY <1>0, <2>1 DEF ScoreAfter, TypeOK
  <2>2. CASE "score" \in req[c].wrote /\ req[c].seen = None
    BY <1>0, <1>1, <2>2 DEF ScoreAfter
  <2>3. CASE "score" \in req[c].wrote /\ req[c].seen # None
    <3>1. score \in Score
      BY <1>0, <2>3 DEF Shape, TypeOK
    <3>2. ScoreAfter(c) \in Score
      BY <1>0, <2>3, <3>1 DEF ScoreAfter, Score, Request
    <3>3. QED
      BY <3>2
  <2>4. QED
    BY <2>1, <2>2, <2>3
<1>3. \A d \in Clients \ {c} :
        req'[d] = [req[d] EXCEPT !.alone = @ /\ (req[c].wrote = {} \/ ~Busy(d))]
  BY <1>0 DEF CommitEnds
<1>4. req'[c] = Idle /\ req' \in [Clients -> Request]
  <2>1. \A d \in Clients : req[d] \in Request
    BY <1>0 DEF TypeOK
  <2>2. ASSUME NEW d \in Clients \ {c}
        PROVE  req'[d] \in Request
    <3>1. PICK still \in BOOLEAN :
            still = (req[d].alone /\ (req[c].wrote = {} \/ ~Busy(d)))
      OBVIOUS
    <3>2. req'[d] = [req[d] EXCEPT !.alone = still]
      BY <1>3, <3>1
    <3>3. QED
      BY <2>1, <3>2 DEF Request
  <2>3. QED
    BY <1>0, <2>2, IdleIsRequest DEF CommitEnds
<1>5. TypeOK'
  <2>1. items' \in [Items -> ItemStatus]
    BY <1>0 DEF CommitEnds, ItemsAfter, TypeOK, Request
  <2>2. review' \in {"draft", "submitted"} /\ ruleset' \in Rulesets
    BY <1>0 DEF CommitEnds, ReviewAfter, RulesetAfter, TypeOK
  <2>3. QED
    BY <1>0, <1>2, <1>4, <2>1, <2>2 DEF CommitEnds, TypeOK
<1>6. Shape(c)' /\ AloneOK(c)'
  BY <1>4, IdleIsRequest DEF Shape, AloneOK, Busy
<1>7. ASSUME NEW d \in Clients \ {c}
      PROVE  Shape(d)' /\ AloneOK(d)'
  <2>1. /\ req[d] \in Request /\ Shape(d) /\ AloneOK(d)
    BY DEF IInv, TypeOK
  <2>2. /\ req'[d].pc = req[d].pc /\ req'[d].counted = req[d].counted
        /\ req'[d].seen = req[d].seen /\ req'[d].wrote = req[d].wrote
        /\ req'[d].kind = req[d].kind /\ req'[d].item = req[d].item
        /\ req'[d].to = req[d].to /\ req'[d].differs = req[d].differs
        /\ req'[d].sets = req[d].sets /\ req'[d].ruleset = req[d].ruleset
        /\ Busy(d) /\ req'[d].alone => req[d].alone /\ req[c].wrote = {}
    BY <1>3, <2>1 DEF Request
  <2>3. Shape(d)'
    BY <1>0, <1>2, <2>1, <2>2 DEF Shape, Busy, CommitEnds
  <2>4. ASSUME Busy(d), req'[d].alone
        PROVE  Loaded(d)' /\ ReadSoFar(d)'
    <3>1. Loaded(d) /\ ReadSoFar(d) /\ UNCHANGED <<items, ruleset, score>>
      BY <1>0, <2>1, <2>2, <2>4, NothingWritten DEF AloneOK
    <3>2. Loaded(d)'
      BY <2>2, <3>1 DEF Loaded
    <3>3. Counted(Intended(d))' = Counted(Intended(d)) /\ NewScore(d)' = NewScore(d)
      BY <2>2, <3>1 DEF Counted, Intended, NewScore
    <3>4. ReadSoFar(d)'
      BY <2>2, <3>1, <3>3 DEF ReadSoFar
    <3>5. QED
      BY <3>2, <3>4
  <2>5. AloneOK(d)'
    BY <2>2, <2>4 DEF AloneOK, Busy
  <2>6. QED
    BY <2>3, <2>5
<1>8. QED
  BY <1>5, <1>6, <1>7 DEF IInv

-----------------------------------------------------------------------------
THEOREM Invariant == Spec => []IInv
<1>1. Init => IInv
  <2> SUFFICES ASSUME Init
               PROVE  IInv
    OBVIOUS
  <2>1. TypeOK
    BY IdleIsRequest DEF Init, TypeOK, ItemStatus, ReviewStatus
  <2>2. \A c \in Clients : Shape(c) /\ AloneOK(c)
    BY IdleIsRequest DEF Init, Shape, AloneOK, Busy
  <2>3. QED
    BY <2>1, <2>2 DEF IInv
<1>2. IInv /\ [Next]_vars => IInv'
  <2> SUFFICES ASSUME IInv, [Next]_vars
               PROVE  IInv'
    OBVIOUS
  <2>1. ASSUME NEW c \in Clients, Submitting(c) \/ Serve(c) \/ Abort(c)
        PROVE  IInv'
    <3>1. CASE Submitting(c)
      BY <3>1, SubmittingKeeps
    <3>2. CASE Serve(c)
      BY <3>2, WriteKeeps, ReadKeeps, LoadKeeps, StoreKeeps, CommitKeeps DEF Serve
    <3>3. CASE Abort(c)
      BY <3>3, FailKeeps DEF Abort
    <3>4. QED
      BY <2>1, <3>1, <3>2, <3>3
  <2>2. CASE UNCHANGED vars
    BY <2>2 DEF IInv, TypeOK, Shape, AloneOK, Busy, Loaded, ReadSoFar, Intended, NewScore, vars
  <2>3. QED
    BY <2>1, <2>2 DEF Next
<1>3. QED
  BY <1>1, <1>2, PTL DEF Spec

\* Every row, score and request stays of its kind, whatever requests meet.
THEOREM TypeCorrect == Spec => []TypeOK
<1>1. IInv => TypeOK
  BY DEF IInv
<1>2. QED
  BY <1>1, Invariant, PTL

\* A recomputation during which nobody else committed leaves the score of the
\* rows and the ruleset it leaves, its own unflushed edit included.
THEOREM AloneLeavesFreshScore == Spec => []AloneIsFresh
<1>1. IInv => AloneIsFresh
  <2> SUFFICES ASSUME IInv, NEW c \in Clients, req[c].pc = "commit",
                      req[c].kind \in Recomputes, req[c].alone
               PROVE  ScoreAfter(c) = FreshScore(ItemsAfter(c), RulesetAfter(c))
    BY DEF AloneIsFresh
  <2>1. Busy(c) /\ Loaded(c) /\ ReadSoFar(c)
    BY DEF IInv, AloneOK, Busy
  <2>2. req[c].counted = Counted(ItemsAfter(c))
    BY <2>1, ViewIsIntended DEF ReadSoFar
  <2>3. req[c].ruleset = RulesetAfter(c)
    BY <2>1 DEF Loaded, RulesetAfter
  <2>4. ScoreAfter(c) = NewScore(c)
    BY <2>1 DEF ReadSoFar, ScoreAfter, NewScore
  <2>5. QED
    BY <2>2, <2>3, <2>4 DEF NewScore, FreshScore
<1>2. QED
  BY <1>1, Invariant, PTL

-----------------------------------------------------------------------------
(* A settled submission.                                                   *)

LEMMA OthersStaySettled ==
  ASSUME Settled, NEW c \in Clients, OnlyRequest(c), Busy(c)' => ReadsHold(c)'
  PROVE  Settled' /\ UNCHANGED <<items, ruleset, score>>
<1>1. ScoreSettled' /\ UNCHANGED <<items, ruleset, score>>
  BY DEF Settled, ScoreSettled, FreshScore, Counted, OnlyRequest
<1>2. \A d \in Clients \ {c} : Busy(d)' => ReadsHold(d)'
  BY <1>1 DEF Settled, ReadsHold, Busy, OnlyRequest, Counted
<1>3. QED
  BY <1>1, <1>2 DEF Settled

\* Only a read of the score and a reopening are admitted.
LEMMA AdmitStaysSettled ==
  ASSUME IInv, Settled, review = "submitted", NEW c \in Clients, Submitting(c)
  PROVE  Settled' /\ UNCHANGED <<items, ruleset, score>>
<1>1. PICK kind \in {"score", "reopen"}, differs \in BOOLEAN :
        Admit(c, kind, None, "absent", differs, FALSE, ruleset)
  <2>1. AdmitScore(c) \/ AdmitReopen(c)
    BY DEF Submitting, AdmitCreate, AdmitPatch, AdmitConfirm, AdmitReject, AdmitDelete,
           AdmitChange, AdmitEvaluation, AdmitFirstEvaluation, AdmitRuleset, AdmitSubmit
  <2>2. QED
    BY <2>1 DEF AdmitScore, AdmitReopen
<1>2. Asked(kind, None, "absent", differs, FALSE, ruleset)
  BY <1>1 DEF Asked, AllKinds, ItemKinds, ItemStatus, IInv, TypeOK
<1>3. Admitted(c, kind, None, "absent", differs, FALSE, ruleset)
  BY <1>1, <1>2, AdmitLeaves DEF IInv
<1>4. ReadsHold(c)'
  BY <1>1, <1>3 DEF Admitted, OnlyRequest, ReadsHold, EditKinds, ItemKinds
<1>5. QED
  BY <1>3, <1>4, OthersStaySettled DEF Admitted

LEMMA ServeStaysSettled ==
  ASSUME IInv, Settled, NEW c \in Clients, Serve(c), ~Commit(c)
  PROVE  Settled' /\ UNCHANGED <<items, ruleset, score>>
<1>0. TypeOK /\ Shape(c) /\ Busy(c) /\ ReadsHold(c)
  BY DEF IInv, Settled, Serve, Busy, WriteItem, WriteJob, ReadEvents, ReadDeductions,
         ReadEvaluation, Read, LoadScore, Store
<1>1. req[c].kind \notin ItemKinds /\ req[c].kind # "ruleset" /\ req[c].item = None
  BY <1>0 DEF ReadsHold, Shape, EditKinds
<1>2. ASSUME Fail(c)
      PROVE  Settled' /\ UNCHANGED <<items, ruleset, score>>
  <2>1. OnlyRequest(c) /\ ~Busy(c)'
    BY <1>0, <1>2, IdleIsRequest DEF Fail, TypeOK, OnlyRequest, Busy
  <2>2. QED
    BY <2>1, OthersStaySettled
<1>3. ASSUME NEW pc, NEW counted, NEW seen, NEW wrote, GoesOn(c, pc, counted, seen, wrote),
             ReadsHold(c)'
      PROVE  Settled' /\ UNCHANGED <<items, ruleset, score>>
  BY <1>3, OthersStaySettled DEF GoesOn
<1>4. CASE WriteItem(c)
  BY <1>1, <1>4 DEF WriteItem
<1>5. CASE WriteJob(c)
  <2>1. Flush(c, {"job"}, "commit") /\ req[c].kind \in {"submit", "reopen"}
    BY <1>1, <1>5 DEF WriteJob, AfterWrite, Recomputes
  <2>2. GoesOn(c, "commit", req[c].counted, req[c].seen, req[c].wrote \cup {"job"})
    BY <1>0, <2>1, FlushGoesOn DEF Rows, PC
  <2>3. ReadsHold(c)'
    BY <1>0, <2>1, <2>2 DEF GoesOn, OnlyRequest, ReadsHold
  <2>4. QED
    BY <1>3, <2>2, <2>3
<1>6. ASSUME ReadEvents(c) \/ ReadDeductions(c) \/ ReadEvaluation(c)
      PROVE  Settled' /\ UNCHANGED <<items, ruleset, score>>
  <2>1. View(c) = items
    <3>1. [items EXCEPT ![None] = req[c].to] = items
      BY <1>0, NoneAssumption DEF TypeOK
    <3>2. QED
      BY <1>1, <3>1 DEF View
  <2> DEFINE now == Counted(items)
  <2>2. now \subseteq Items
    BY CountedItems
  <2>3. PICK from \in {"events", "deductions", "evaluation"},
             to \in {"deductions", "evaluation", "load"}, table \in SUBSET Items :
          /\ Read(c, from, to, now \cap table)
          /\ \/ from = "events" /\ to = "deductions" /\ table = Events
             \/ from = "deductions" /\ to = "evaluation" /\ table = Deductions
             \/ from = "evaluation" /\ to = "load" /\ table = Evaluations
    BY <1>6, <2>1 DEF ReadEvents, ReadDeductions, ReadEvaluation, Items, Findings
  <2>4. req[c].pc = from /\ to \in PC
    BY <2>3 DEF Read, PC
  <2>5. GoesOn(c, to, req[c].counted \cup (now \cap table), req[c].seen, req[c].wrote)
    BY <1>0, <2>2, <2>3, <2>4, ReadGoesOn
  <2>6. now' = now
    BY <2>5 DEF GoesOn, OnlyRequest, Counted
  <2> HIDE DEF now
  <2>7. /\ to = "deductions" => req'[c].counted = now \cap Events
        /\ to = "evaluation" => req'[c].counted = now \cap Findings
        /\ to = "load" => req'[c].counted = now
    <3>1. CASE from = "events"
      BY <1>0, <2>3, <2>4, <2>5, <3>1 DEF GoesOn, Shape
    <3>2. CASE from = "deductions"
      BY <1>0, <2>3, <2>4, <2>5, <3>2 DEF GoesOn, ReadsHold, Findings, now
    <3>3. CASE from = "evaluation"
      BY <1>0, <2>2, <2>3, <2>4, <2>5, <3>3 DEF GoesOn, ReadsHold, Items, now
    <3>4. QED
      BY <2>3, <3>1, <3>2, <3>3
  <2>8. ReadsHold(c)'
    <3>1. /\ req'[c].kind \notin EditKinds /\ req'[c].ruleset = ruleset'
          /\ req'[c].pc = to
      BY <1>0, <2>5 DEF ReadsHold, GoesOn, OnlyRequest
    <3>2. QED
      BY <2>3, <2>6, <2>7, <3>1 DEF ReadsHold, now
  <2>9. QED
    BY <1>3, <2>5, <2>8
<1>7. CASE LoadScore(c)
  <2>1. GoesOn(c, "store", req[c].counted, score, req[c].wrote) /\ req[c].pc = "load"
    BY <1>0, <1>7, LoadGoesOn DEF LoadScore
  <2>2. ReadsHold(c)'
    BY <1>0, <2>1 DEF GoesOn, OnlyRequest, ReadsHold, Counted
  <2>3. QED
    BY <1>3, <2>1, <2>2
<1>8. ASSUME NEW rows \in {{}, {"score"}}, req[c].pc = "store", Flush(c, rows, "commit")
      PROVE  Settled' /\ UNCHANGED <<items, ruleset, score>>
  <2>1. GoesOn(c, "commit", req[c].counted, req[c].seen, req[c].wrote \cup rows)
    BY <1>0, <1>8, FlushGoesOn DEF Rows, PC
  <2>2. ReadsHold(c)'
    BY <1>0, <1>8, <2>1 DEF GoesOn, OnlyRequest, ReadsHold, Counted
  <2>3. QED
    BY <1>3, <2>1, <2>2
<1>9. CASE Store(c)
  BY <1>2, <1>8, <1>9 DEF Store
<1>10. QED
  BY <1>4, <1>5, <1>6, <1>7, <1>9 DEF Serve

LEMMA CommitStaysSettled ==
  ASSUME IInv, Settled, NEW c \in Clients, Commit(c), review' = "submitted"
  PROVE  Settled' /\ UNCHANGED <<items, ruleset, score>>
<1>1. /\ TypeOK /\ Shape(c) /\ Busy(c) /\ ReadsHold(c) /\ ScoreSettled
      /\ req[c].pc = "commit" /\ CommitEnds(c)
  BY DEF IInv, Settled, Commit, Busy
<1>2. /\ req[c].item = None /\ req[c].kind # "ruleset" /\ req[c].kind # "reopen"
  BY <1>1 DEF ReadsHold, Shape, EditKinds, CommitEnds, ReviewAfter
<1>3. UNCHANGED <<items, ruleset>>
  <2>1. [items EXCEPT ![None] = req[c].to] = items
    BY <1>1, NoneAssumption DEF TypeOK
  <2>2. QED
    BY <1>1, <1>2, <2>1 DEF CommitEnds, ItemsAfter, RulesetAfter
<1>4. UNCHANGED score
  <2>1. CASE req[c].kind = "submit"
    BY <1>1, <2>1 DEF Shape, CommitEnds, ScoreAfter
  <2>2. CASE req[c].kind = "score"
    <3>1. NewScore(c) = score /\ req[c].seen = score /\ score # None
      BY <1>1, <2>2 DEF ReadsHold, ScoreSettled, FreshScore, NewScore
    <3>2. /\ score = [counted |-> req[c].counted, ruleset |-> req[c].ruleset]
          /\ score.counted = req[c].counted /\ score.ruleset = req[c].ruleset
      BY <3>1 DEF NewScore
    <3>3. QED
      BY <1>1, <3>1, <3>2 DEF CommitEnds, ScoreAfter
  <2>3. req[c].kind \in {"submit", "score"}
    BY <1>1, <1>2 DEF ReadsHold, EditKinds, ItemKinds, TypeOK, Request, AllKinds
  <2>4. QED
    BY <2>1, <2>2, <2>3
<1>5. ASSUME NEW d \in Clients, Busy(d)'
      PROVE  ReadsHold(d)'
  <2>1. /\ d # c /\ req[d] \in Request
        /\ req'[d] = [req[d] EXCEPT !.alone = @ /\ (req[c].wrote = {} \/ ~Busy(d))]
    BY <1>1, <1>5, IdleIsRequest DEF CommitEnds, Busy, TypeOK
  <2>2. /\ req'[d].pc = req[d].pc /\ req'[d].kind = req[d].kind
        /\ req'[d].ruleset = req[d].ruleset /\ req'[d].counted = req[d].counted
        /\ req'[d].seen = req[d].seen
    BY <2>1 DEF Request
  <2>3. ReadsHold(d)
    BY <1>5, <2>2 DEF Settled, Busy
  <2>4. QED
    BY <1>3, <1>4, <2>2, <2>3 DEF ReadsHold, Counted
<1>6. ScoreSettled'
  BY <1>1, <1>3, <1>4 DEF ScoreSettled, FreshScore, Counted
<1>7. QED
  BY <1>3, <1>4, <1>5, <1>6 DEF Settled

\* A submitted analysis whose score is right, with no earlier edit in flight,
\* keeps its rows and its score until it is reopened, and stays so.
THEOREM SettledStays == Spec => SettledSubmissionStays
<1>1. ASSUME IInv, [Next]_vars, Settled, review = "submitted", review' = "submitted"
      PROVE  Settled' /\ UNCHANGED <<items, ruleset, score>>
  <2>1. ASSUME NEW c \in Clients, Submitting(c) \/ Serve(c) \/ Abort(c)
        PROVE  Settled' /\ UNCHANGED <<items, ruleset, score>>
    <3>1. CASE Submitting(c)
      BY <1>1, <3>1, AdmitStaysSettled
    <3>2. CASE Serve(c) /\ ~Commit(c)
      BY <1>1, <3>2, ServeStaysSettled
    <3>3. CASE Commit(c)
      BY <1>1, <3>3, CommitStaysSettled
    <3>4. CASE Abort(c)
      <4>1. OnlyRequest(c) /\ ~Busy(c)'
        BY <1>1, <3>4, IdleIsRequest DEF Abort, Fail, IInv, TypeOK, OnlyRequest, Busy
      <4>2. QED
        BY <1>1, <4>1, OthersStaySettled
    <3>5. QED
      BY <2>1, <3>1, <3>2, <3>3, <3>4
  <2>2. CASE UNCHANGED vars
    BY <1>1, <2>2 DEF vars, Settled, ScoreSettled, FreshScore, Counted, Busy, ReadsHold
  <2>3. QED
    BY <1>1, <2>1, <2>2 DEF Next
<1>2. IInv /\ [Next]_vars =>
        (Settled /\ review = "submitted" /\ review' = "submitted"
           => Settled' /\ UNCHANGED <<items, ruleset, score>>)
  BY <1>1
<1>3. QED
  BY <1>2, Invariant, PTL DEF Spec, SettledSubmissionStays
=============================================================================
