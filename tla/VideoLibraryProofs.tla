------------------------- MODULE VideoLibraryProofs -------------------------
(***************************************************************************)
(* Theorems about VideoLibrary for every number of videos, jobs and        *)
(* concurrent requests: rows and bytes agree, a deleted video has no bytes *)
(* on the file system backend, a removed video is removed for good, and    *)
(* one page imports a source once.                                         *)
(***************************************************************************)
EXTENDS VideoLibrary, TLAPS

-----------------------------------------------------------------------------
(* Type correctness.                                                       *)

LEMMA IdleType == Idle \in Request
  BY DEF Idle, Request

LEMMA NewRequestType ==
  ASSUME NEW kind \in Kinds, NEW pc \in {"store", "erase", "load", "commit"},
         NEW v \in Videos, NEW s \in Sources \cup {None}
  PROVE  [Idle EXCEPT !.kind = kind, !.pc = pc, !.video = v, !.source = s] \in Request
  BY DEF Idle, Request

LEMMA BeginType ==
  ASSUME TypeOK, NEW c \in Clients, NEW kind \in Kinds,
         NEW pc \in {"store", "erase", "load", "commit"}, NEW v \in Videos,
         NEW s \in Sources \cup {None}, Begin(c, kind, pc, v, s)
  PROVE  TypeOK'
<1>1. [Idle EXCEPT !.kind = kind, !.pc = pc, !.video = v, !.source = s] \in Request
  BY NewRequestType
<1>2. req' \in [Clients -> Request]
  BY <1>1 DEF TypeOK, Begin
<1>3. QED
  BY <1>2 DEF TypeOK, Begin, rows

LEMMA ArrivesType ==
  ASSUME TypeOK, NEW c \in Clients, Arrives(c)
  PROVE  TypeOK'
<1>1. PICK v \in Videos :
        \/ BeginUpload(c, v)
        \/ \E s \in Sources : BeginImport(c, v, s)
        \/ \E kind \in DeleteKinds : BeginDelete(c, v, kind)
        \/ BeginAnalyse(c, v)
        \/ BeginLink(c, v)
  BY DEF Arrives
<1>2. CASE BeginUpload(c, v)
  BY <1>2, BeginType DEF BeginUpload, Kinds, AddKinds
<1>3. ASSUME NEW s \in Sources, BeginImport(c, v, s)
      PROVE  TypeOK'
  BY <1>3, BeginType DEF BeginImport, Kinds, AddKinds
<1>4. ASSUME NEW kind \in DeleteKinds, BeginDelete(c, v, kind)
      PROVE  TypeOK'
  BY <1>4, BeginType DEF BeginDelete, Kinds
<1>5. CASE BeginAnalyse(c, v)
  BY <1>5, BeginType DEF BeginAnalyse, Kinds
<1>6. CASE BeginLink(c, v)
  BY <1>6, BeginType DEF BeginLink, Kinds
<1>7. QED
  BY <1>1, <1>2, <1>3, <1>4, <1>5, <1>6

\* A request that goes on or ends stays a request.
LEMMA ReqType ==
  ASSUME TypeOK, NEW c \in Clients
  PROVE  /\ Ends(c) => req' \in [Clients -> Request]
         /\ \A pc \in {"load", "commit"} : Goto(c, pc) => req' \in [Clients -> Request]
<1>1. Ends(c) => req' \in [Clients -> Request]
  BY IdleType DEF Ends, TypeOK
<1>2. ASSUME NEW pc \in {"load", "commit"}, Goto(c, pc)
      PROVE  req' \in [Clients -> Request]
  <2>1. req[c] \in Request
    BY DEF TypeOK
  <2>2. [req[c] EXCEPT !.pc = pc] \in Request
    BY <2>1 DEF Request
  <2>3. req' = [req EXCEPT ![c] = [req[c] EXCEPT !.pc = pc]]
    BY <1>2 DEF Goto
  <2>4. QED
    BY <2>2, <2>3 DEF TypeOK
<1>3. QED
  BY <1>1, <1>2

\* A request is idle, or of a kind and for a video, and each step belongs to the
\* requests that take it.
Shape ==
  \A c \in Clients :
    /\ req[c] # Idle => req[c].kind \in Kinds /\ req[c].video \in Videos
    /\ req[c].pc = "store" => Adding(c)
    /\ req[c].pc = "erase" => Deleting(c)
    /\ req[c].pc = "load" => req[c].kind = "hard"

LEMMA ServerType ==
  ASSUME TypeOK, Shape, NEW c \in Clients, Server(c)
  PROVE  TypeOK'
<1> USE DEF TypeOK
<1>0. req[c] = Idle \/ req[c].video \in Videos
  BY DEF Shape
<1>1. CASE Store(c)
  <2>1. req[c].video \in Videos
    BY <1>0, <1>1 DEF Store, Idle
  <2>2. QED
    BY <1>1, <2>1, ReqType DEF Store, rows
<1>2. ASSUME NEW newJobs \in FirstJobs, CommitAdd(c, newJobs)
      PROVE  TypeOK'
  <2>1. req[c] \in Request /\ req[c].video \in Videos
    BY <1>0, <1>2 DEF CommitAdd, Idle
  <2>2. source' \in [Videos -> Sources \cup {None}]
    BY <1>2, <2>1 DEF CommitAdd, Request
  <2>3. jobs' \in [Jobs -> Videos \cup {None}]
    BY <1>2, <2>1 DEF CommitAdd
  <2>4. QED
    BY <1>2, <2>2, <2>3, ReqType DEF CommitAdd
<1>3. CASE Erase(c)
  BY <1>3, ReqType DEF Erase, AfterErase, rows
<1>4. CASE EraseSkipped(c)
  <2>1. errors' \in 0 .. MaxErrors
    BY <1>4, MaxErrorsAssumption DEF EraseSkipped
  <2>2. req' \in [Clients -> Request]
    BY <1>4, ReqType DEF EraseSkipped, AfterErase
  <2>3. QED
    BY <1>4, <2>1, <2>2 DEF EraseSkipped, rows
<1>5. CASE LoadChildren(c)
  <2>1. req[c] \in Request
    OBVIOUS
  <2>2. [req[c] EXCEPT !.seen = JobsOf(req[c].video), !.pc = "commit"] \in Request
    BY <2>1 DEF Request, JobsOf
  <2>3. req' = [req EXCEPT ![c] =
                  [req[c] EXCEPT !.seen = JobsOf(req[c].video), !.pc = "commit"]]
    BY <1>5 DEF LoadChildren
  <2>4. QED
    BY <1>5, <2>2, <2>3 DEF LoadChildren, rows
<1>6. CASE CommitSoft(c)
  BY <1>6, ReqType DEF CommitSoft
<1>7. CASE CommitHard(c)
  BY <1>7, ReqType DEF CommitHard
<1>8. CASE RefuseHard(c)
  <2>1. req[c].video \in Videos
    BY <1>0, <1>8 DEF RefuseHard, Idle
  <2>2. QED
    BY <1>8, <2>1, ReqType DEF RefuseHard, rows
<1>9. ASSUME NEW j \in Jobs, CommitAnalyse(c, j)
      PROVE  TypeOK'
  <2>1. req[c].video \in Videos
    BY <1>0, <1>9, NoneAssumption DEF CommitAnalyse, Idle, Kinds
  <2>2. QED
    BY <1>9, <2>1, ReqType DEF CommitAnalyse
<1>10. CASE CommitLink(c)
  <2>1. req[c].video \in Videos
    BY <1>0, <1>10, NoneAssumption DEF CommitLink, Idle, Kinds
  <2>2. QED
    BY <1>10, <2>1, ReqType DEF CommitLink
<1>11. CASE Abort(c)
  BY <1>11, ReqType, MaxErrorsAssumption DEF Abort, rows
<1>12. QED
  BY <1>1, <1>2, <1>3, <1>4, <1>5, <1>6, <1>7, <1>8, <1>9, <1>10, <1>11 DEF Server

\* What each step does to the request that takes it, and to the others.
LEMMA Moves ==
  ASSUME TypeOK, NEW c \in Clients
  PROVE  /\ Ends(c) => \A d \in Clients : req'[d] = IF d = c THEN Idle ELSE req[d]
         /\ \A pc \in {"load", "commit"} : Goto(c, pc) =>
              /\ \A d \in Clients \ {c} : req'[d] = req[d]
              /\ req'[c] # Idle /\ req'[c].pc = pc
              /\ req'[c].kind = req[c].kind /\ req'[c].video = req[c].video
         /\ LoadChildren(c) =>
              /\ \A d \in Clients \ {c} : req'[d] = req[d]
              /\ req'[c] # Idle /\ req'[c].pc = "commit"
              /\ req'[c].kind = req[c].kind /\ req'[c].video = req[c].video
<1>1. req[c] \in Request
  BY DEF TypeOK
<1>2. Ends(c) => \A d \in Clients : req'[d] = IF d = c THEN Idle ELSE req[d]
  BY DEF Ends, TypeOK
<1>3. ASSUME NEW pc \in {"load", "commit"}, Goto(c, pc)
      PROVE  /\ \A d \in Clients \ {c} : req'[d] = req[d]
             /\ req'[c] # Idle /\ req'[c].pc = pc
             /\ req'[c].kind = req[c].kind /\ req'[c].video = req[c].video
  BY <1>1, <1>3 DEF Goto, TypeOK, Request, Idle
<1>4. ASSUME LoadChildren(c)
      PROVE  /\ \A d \in Clients \ {c} : req'[d] = req[d]
             /\ req'[c] # Idle /\ req'[c].pc = "commit"
             /\ req'[c].kind = req[c].kind /\ req'[c].video = req[c].video
  BY <1>1, <1>4 DEF LoadChildren, TypeOK, Request, Idle
<1>5. QED
  BY <1>2, <1>3, <1>4

LEMMA Began ==
  ASSUME TypeOK, NEW c \in Clients, NEW kind \in Kinds, NEW pc, NEW v \in Videos,
         NEW s, Begin(c, kind, pc, v, s)
  PROVE  /\ \A d \in Clients \ {c} : req'[d] = req[d]
         /\ req'[c].kind = kind /\ req'[c].pc = pc /\ req'[c].video = v
         /\ req[c] = Idle
         /\ UNCHANGED <<backend, row, source, linked, jobs, bytes, errors, refused>>
         /\ req'[c].source = s
  BY DEF Begin, TypeOK, Idle, rows

-----------------------------------------------------------------------------
(* The inductive invariant.                                                *)

\* A video that is being added has no row yet and belongs to one request; every
\* other request is for a video that has had one.
NewRows ==
  \A c \in Clients :
    /\ Adding(c) =>
         /\ row[req[c].video] = "absent"
         /\ \A d \in Clients \ {c} : req[d].video # req[c].video
    /\ req[c] # Idle /\ ~Adding(c) => row[req[c].video] # "absent"

\* Foreign keys: what refers to a video refers to a row.
References ==
  /\ \A v \in linked : InTable(v)
  /\ \A j \in Jobs : jobs[j] # None => InTable(jobs[j])

\* A deletion that has passed its erasure has erased, with the file system or
\* before the first error.
Erased ==
  backend = "local" \/ errors = 0 =>
    \A c \in Clients :
      Deleting(c) /\ req[c].pc \in {"load", "commit"} => req[c].video \notin bytes

IInv ==
  /\ TypeOK
  /\ Shape
  /\ NewRows
  /\ References
  /\ Erased
  /\ GoneHasNoBytes

LEMMA InitInv == Init => IInv
<1> SUFFICES ASSUME Init PROVE IInv
  OBVIOUS
<1>1. TypeOK
  BY IdleType, MaxErrorsAssumption DEF Init, TypeOK
<1>2. Shape /\ NewRows /\ Erased
  BY NoneAssumption DEF Init, Shape, NewRows, Erased, Idle, Adding, Deleting, Kinds
<1>3. References /\ GoneHasNoBytes
  BY DEF Init, References, GoneHasNoBytes
<1>4. QED
  BY <1>1, <1>2, <1>3 DEF IInv

\* A request that arrives for video v keeps the invariant: a new video is in no
\* other request, and only a listed video is asked for again.
LEMMA BeginInv ==
  ASSUME IInv, NEW c \in Clients, NEW kind \in Kinds, NEW pc, NEW v \in Videos,
         NEW s, Begin(c, kind, pc, v, s),
         \/ kind \in AddKinds /\ pc = "store" /\ FreshVideo(v)
         \/ kind \in DeleteKinds /\ pc = "erase" /\ Live(v)
         \/ kind \in {"analyse", "link"} /\ pc = "commit" /\ Live(v)
  PROVE  Shape' /\ NewRows' /\ References' /\ Erased' /\ GoneHasNoBytes'
<1> USE DEF IInv
<1>1. /\ \A d \in Clients \ {c} : req'[d] = req[d]
      /\ req'[c].kind = kind /\ req'[c].pc = pc /\ req'[c].video = v
      /\ req[c] = Idle
      /\ UNCHANGED <<backend, row, linked, jobs, bytes, errors>>
  BY Began, ZenonT(60)
<1>2. Shape'
  BY <1>1 DEF Shape, Adding, Deleting, AddKinds, DeleteKinds
<1>3. NewRows'
  BY <1>1, NoneAssumption
  DEF NewRows, Shape, Adding, AddKinds, DeleteKinds, FreshVideo, Live, Idle
<1>4. References' /\ Erased' /\ GoneHasNoBytes'
  BY <1>1 DEF References, InTable, Erased, Deleting, DeleteKinds, AddKinds, GoneHasNoBytes
<1>5. QED
  BY <1>2, <1>3, <1>4

LEMMA ArrivesInv ==
  ASSUME IInv, NEW c \in Clients, Arrives(c)
  PROVE  Shape' /\ NewRows' /\ References' /\ Erased' /\ GoneHasNoBytes'
<1>1. PICK v \in Videos :
        \/ BeginUpload(c, v)
        \/ \E s \in Sources : BeginImport(c, v, s)
        \/ \E kind \in DeleteKinds : BeginDelete(c, v, kind)
        \/ BeginAnalyse(c, v)
        \/ BeginLink(c, v)
  BY DEF Arrives
<1>2. CASE BeginUpload(c, v)
  BY <1>2, BeginInv DEF BeginUpload, Kinds, AddKinds
<1>3. ASSUME NEW s \in Sources, BeginImport(c, v, s)
      PROVE  Shape' /\ NewRows' /\ References' /\ Erased' /\ GoneHasNoBytes'
  BY <1>3, BeginInv DEF BeginImport, Kinds, AddKinds
<1>4. ASSUME NEW kind \in DeleteKinds, BeginDelete(c, v, kind)
      PROVE  Shape' /\ NewRows' /\ References' /\ Erased' /\ GoneHasNoBytes'
  BY <1>4, BeginInv DEF BeginDelete, Kinds
<1>5. CASE BeginAnalyse(c, v)
  BY <1>5, BeginInv DEF BeginAnalyse, Kinds
<1>6. CASE BeginLink(c, v)
  BY <1>6, BeginInv DEF BeginLink, Kinds
<1>7. QED
  BY <1>1, <1>2, <1>3, <1>4, <1>5, <1>6

\* The steps that go on with a request.
LEMMA GoesOnInv ==
  ASSUME IInv, NEW c \in Clients,
         Store(c) \/ Erase(c) \/ EraseSkipped(c) \/ LoadChildren(c)
  PROVE  Shape' /\ NewRows' /\ References' /\ Erased' /\ GoneHasNoBytes'
<1> USE DEF IInv
<1>1. /\ \A d \in Clients \ {c} : req'[d] = req[d]
      /\ req'[c] # Idle /\ req[c] # Idle /\ req'[c].pc \in {"load", "commit"}
      /\ req'[c].pc = "load" => req[c].kind = "hard"
      /\ req'[c].kind = req[c].kind /\ req'[c].video = req[c].video
      /\ UNCHANGED <<backend, rows>>
  BY Moves DEF Store, Erase, EraseSkipped, AfterErase, LoadChildren, Idle
<1>0. errors' = 0 => errors = 0
  BY DEF Store, Erase, EraseSkipped, LoadChildren, TypeOK
<1>2. Shape'
  BY <1>1 DEF Shape, Adding, Deleting
<1>3. NewRows' /\ References'
  BY <1>1 DEF NewRows, Adding, References, InTable, rows
<1>4. CASE Store(c)
  <2>1. Adding(c) /\ bytes' = bytes \cup {req[c].video}
    BY <1>4 DEF Store, Shape
  <2>2. \A d \in Clients : Deleting(d) => req[d].video # req[c].video
    BY <2>1, NoneAssumption DEF NewRows, Adding, Deleting, AddKinds, DeleteKinds, Idle, Kinds
  <2>3. QED
    BY <1>0, <1>1, <1>2, <1>3, <2>1, <2>2
    DEF Erased, Deleting, Adding, AddKinds, DeleteKinds, GoneHasNoBytes, NewRows, rows
<1>5. CASE Erase(c)
  BY <1>0, <1>1, <1>2, <1>3, <1>5 DEF Erase, Erased, Deleting, GoneHasNoBytes, rows
<1>6. CASE EraseSkipped(c)
  BY <1>0, <1>1, <1>2, <1>3, <1>6 DEF EraseSkipped, Erased, GoneHasNoBytes, TypeOK
<1>7. CASE LoadChildren(c)
  <2>1. UNCHANGED <<row, backend, bytes>> /\ req[c].pc = "load"
    BY <1>7 DEF LoadChildren, rows
  <2>2. Erased'
    BY <1>0, <1>1, <2>1 DEF Erased, Deleting
  <2>3. GoneHasNoBytes'
    BY <2>1 DEF GoneHasNoBytes
  <2>4. QED
    BY <1>2, <1>3, <2>2, <2>3
<1>8. QED
  BY <1>4, <1>5, <1>6, <1>7

\* The steps that end a request: what they leave of the others.
LEMMA EndsInv ==
  ASSUME IInv, NEW c \in Clients, Ends(c), UNCHANGED <<backend, bytes>>, errors' = 0 => errors = 0,
         \A v \in Videos : row'[v] = row[v] \/ (v = req[c].video /\ row'[v] # "absent")
  PROVE  Shape' /\ NewRows' /\ Erased'
<1> USE DEF IInv
<1>1. req'[c] = Idle /\ \A d \in Clients \ {c} : req'[d] = req[d]
  BY Moves
<1>2. Shape'
  <2> SUFFICES ASSUME NEW d \in Clients
               PROVE  /\ req'[d] # Idle => req'[d].kind \in Kinds /\ req'[d].video \in Videos
                      /\ req'[d].pc = "store" => Adding(d)'
                      /\ req'[d].pc = "erase" => Deleting(d)'
                      /\ req'[d].pc = "load" => req'[d].kind = "hard"
    BY DEF Shape
  <2>1. CASE d = c
    BY <1>1, <2>1 DEF Idle
  <2>2. CASE d # c
    BY <1>1, <2>2 DEF Shape, Adding, Deleting
  <2>3. QED
    BY <2>1, <2>2
<1>3. Erased'
  BY <1>1, NoneAssumption DEF Erased, Deleting, Idle, Kinds
<1>4. NewRows'
  <2> SUFFICES ASSUME NEW d \in Clients, d # c, req[d] # Idle
               PROVE  /\ Adding(d) =>
                           /\ row'[req[d].video] = "absent"
                           /\ \A e \in Clients \ {d} : req'[e].video # req[d].video
                      /\ ~Adding(d) => row'[req[d].video] # "absent"
    <3>1. ~Adding(c)' /\ req'[c] = Idle
      BY <1>1, NoneAssumption DEF Adding, Idle, Kinds
    <3>2. \A d \in Clients \ {c} : req'[d] = req[d] /\ (Adding(d)' <=> Adding(d))
      BY <1>1 DEF Adding
    <3>3. \A d \in Clients : req[d] = Idle => ~Adding(d)
      BY NoneAssumption DEF Adding, Idle, Kinds
    <3>4. QED
      BY <3>1, <3>2, <3>3 DEF NewRows
  <2>1. req[d].video \in Videos
    BY DEF Shape
  <2>2. ASSUME Adding(d)
        PROVE  /\ row'[req[d].video] = "absent"
               /\ \A e \in Clients \ {d} : req'[e].video # req[d].video
    <3>1. row[req[d].video] = "absent" /\ \A e \in Clients \ {d} : req[e].video # req[d].video
      BY <2>2 DEF NewRows
    <3>2. row'[req[d].video] = "absent"
      BY <2>1, <3>1
    <3>3. \A e \in Clients \ {d} : req'[e].video # req[d].video
      BY <1>1, <2>1, <3>1, NoneAssumption DEF Idle
    <3>4. QED
      BY <3>2, <3>3
  <2>3. ASSUME ~Adding(d)
        PROVE  row'[req[d].video] # "absent"
    BY <2>1, <2>3 DEF NewRows
  <2>4. QED
    BY <2>2, <2>3
<1>5. QED
  BY <1>2, <1>3, <1>4

\* The request of a commit is for a video whose row is known.
LEMMA Target ==
  ASSUME IInv, NEW c \in Clients, req[c].kind \in Kinds
  PROVE  /\ req[c] # Idle
         /\ req[c].video \in Videos
         /\ Adding(c) => row[req[c].video] = "absent"
         /\ ~Adding(c) => row[req[c].video] \in {"live", "tombstone", "removed"}
<1>1. req[c] # Idle
  BY NoneAssumption DEF Idle
<1>2. QED
  BY <1>1 DEF IInv, Shape, NewRows, TypeOK

LEMMA CommitAddInv ==
  ASSUME IInv, NEW c \in Clients, NEW newJobs \in FirstJobs, CommitAdd(c, newJobs)
  PROVE  Shape' /\ NewRows' /\ References' /\ Erased' /\ GoneHasNoBytes'
<1> USE DEF IInv
<1>1. req[c].video \in Videos /\ row[req[c].video] = "absent"
  BY Target DEF CommitAdd, Adding, Kinds
<1>2. \A v \in Videos : row'[v] = IF v = req[c].video THEN "live" ELSE row[v]
  BY <1>1 DEF CommitAdd, TypeOK
<1>3. Shape' /\ NewRows' /\ Erased'
  BY <1>2, EndsInv DEF CommitAdd
<1>4. References'
  <2>1. \A v \in linked : v \in Videos
    BY DEF TypeOK
  <2>2. \A j \in Jobs : jobs[j] # None => jobs[j] \in Videos
    BY DEF TypeOK
  <2>3. \A j \in Jobs : jobs'[j] = IF j \in newJobs THEN req[c].video ELSE jobs[j]
    BY DEF CommitAdd
  <2>4. QED
    BY <1>1, <1>2, <2>1, <2>2, <2>3 DEF References, InTable, CommitAdd
<1>5. GoneHasNoBytes'
  BY <1>2 DEF GoneHasNoBytes, CommitAdd
<1>6. QED
  BY <1>3, <1>4, <1>5

LEMMA CommitSoftInv ==
  ASSUME IInv, NEW c \in Clients, CommitSoft(c)
  PROVE  Shape' /\ NewRows' /\ References' /\ Erased' /\ GoneHasNoBytes'
<1> USE DEF IInv
<1>1. Deleting(c) /\ req[c].pc = "commit" /\ req[c].video \in Videos
  BY Target DEF CommitSoft, Deleting, DeleteKinds, Kinds
<1>2. \A v \in Videos :
        row'[v] = IF v = req[c].video /\ InTable(v) THEN "tombstone" ELSE row[v]
  BY <1>1 DEF CommitSoft, TypeOK, InTable
<1>3. Shape' /\ NewRows' /\ Erased'
  BY <1>2, EndsInv DEF CommitSoft
<1>4. References'
  BY <1>2 DEF References, InTable, CommitSoft, TypeOK
<1>5. GoneHasNoBytes'
  BY <1>1, <1>2 DEF GoneHasNoBytes, Erased, CommitSoft
<1>6. QED
  BY <1>3, <1>4, <1>5

LEMMA CommitHardInv ==
  ASSUME IInv, NEW c \in Clients, CommitHard(c)
  PROVE  Shape' /\ NewRows' /\ References' /\ Erased' /\ GoneHasNoBytes'
<1> USE DEF IInv
<1>1. Deleting(c) /\ req[c].pc = "commit" /\ req[c].video \in Videos
  BY Target DEF CommitHard, Deleting, DeleteKinds, Kinds
<1>2. \A v \in Videos : row'[v] = IF v = req[c].video THEN "removed" ELSE row[v]
  BY <1>1 DEF CommitHard, TypeOK
<1>3. Shape' /\ NewRows' /\ Erased'
  BY <1>2, EndsInv DEF CommitHard
<1>4. References'
  <2>1. req[c].video \notin linked
    BY DEF CommitHard, Held
  <2>2. \A j \in Jobs : jobs'[j] # None => jobs'[j] = jobs[j] /\ jobs[j] # req[c].video
    BY DEF CommitHard, Held, JobsOf
  <2>3. QED
    BY <1>2, <2>1, <2>2 DEF References, InTable, CommitHard, TypeOK
<1>5. GoneHasNoBytes'
  BY <1>1, <1>2 DEF GoneHasNoBytes, Erased, CommitHard
<1>6. QED
  BY <1>3, <1>4, <1>5

\* The rows of the videos stay as they are.
LEMMA OtherEndsInv ==
  ASSUME IInv, NEW c \in Clients,
         \/ RefuseHard(c)
         \/ \E j \in Jobs : CommitAnalyse(c, j)
         \/ CommitLink(c)
         \/ Abort(c)
  PROVE  Shape' /\ NewRows' /\ References' /\ Erased' /\ GoneHasNoBytes'
<1> USE DEF IInv
<1>1. UNCHANGED <<row, backend, bytes>> /\ Ends(c) /\ (errors' = 0 => errors = 0)
  BY DEF TypeOK, RefuseHard, CommitAnalyse, CommitLink, Abort, rows
<1>2. Shape' /\ NewRows' /\ Erased'
  BY <1>1, EndsInv
<1>3. GoneHasNoBytes'
  BY <1>1 DEF GoneHasNoBytes
<1>4. References'
  <2>1. CASE RefuseHard(c) \/ Abort(c)
    BY <2>1 DEF RefuseHard, Abort, References, InTable, rows
  <2>2. ASSUME NEW j \in Jobs, CommitAnalyse(c, j)
        PROVE  References'
    BY <2>2 DEF CommitAnalyse, References, InTable, TypeOK
  <2>3. CASE CommitLink(c)
    BY <2>3 DEF CommitLink, References, InTable
  <2>4. QED
    BY <2>1, <2>2, <2>3
<1>5. QED
  BY <1>2, <1>3, <1>4

LEMMA StepInv == IInv /\ [Next]_vars => IInv'
<1> SUFFICES ASSUME IInv, [Next]_vars PROVE IInv'
  OBVIOUS
<1> USE DEF IInv
<1>1. ASSUME NEW c \in Clients, Arrives(c)
      PROVE  IInv'
  BY <1>1, ArrivesType, ArrivesInv
<1>2. ASSUME NEW c \in Clients, Server(c)
      PROVE  IInv'
  <2>1. TypeOK'
    BY <1>2, ServerType
  <2>2. Shape' /\ NewRows' /\ References' /\ Erased' /\ GoneHasNoBytes'
    BY <1>2, GoesOnInv, CommitAddInv, CommitSoftInv, CommitHardInv, OtherEndsInv DEF Server
  <2>3. QED
    BY <2>1, <2>2
<1>3. ASSUME NEW v \in Videos, Unlink(v)
      PROVE  IInv'
  BY <1>3 DEF Unlink, TypeOK, Shape, NewRows, References, Erased, GoneHasNoBytes, Adding,
              Deleting, InTable
<1>4. ASSUME NEW j \in Jobs, RemoveJob(j)
      PROVE  IInv'
  BY <1>4 DEF RemoveJob, TypeOK, Shape, NewRows, References, Erased, GoneHasNoBytes, Adding,
              Deleting, InTable
<1>5. CASE UNCHANGED vars
  BY <1>5 DEF vars, rows, TypeOK, Shape, NewRows, References, Erased, GoneHasNoBytes, Adding,
              Deleting, InTable
<1>6. QED
  BY <1>1, <1>2, <1>3, <1>4, <1>5 DEF Next

THEOREM Invariance == Spec => []IInv
<1>1. QED
  BY InitInv, StepInv, PTL DEF Spec

-----------------------------------------------------------------------------
(* The theorems.                                                           *)

\* Every variable keeps its type, for any number of videos, jobs and requests.
THEOREM LibraryTypeCorrect == Spec => []TypeOK
<1>1. IInv => TypeOK
  BY DEF IInv
<1>2. QED
  BY <1>1, Invariance, PTL

\* With the file system a deleted video has no bytes, whatever interleaving of
\* requests and failures led to its deletion (delete_video, LocalFilesystemStorage).
THEOREM DeletedIsErased == Spec => []GoneHasNoBytes
<1>1. IInv => GoneHasNoBytes
  BY DEF IInv
<1>2. QED
  BY <1>1, Invariance, PTL

\* The only steps that write a row leave a removed one alone.
LEMMA RemovedRow ==
  ASSUME IInv, [Next]_vars, NEW v \in Videos, row[v] = "removed"
  PROVE  row'[v] = "removed"
<1> USE DEF IInv
<1>1. ASSUME NEW c \in Clients, NEW newJobs \in FirstJobs, CommitAdd(c, newJobs)
      PROVE  row'[v] = "removed"
  <2>1. row[req[c].video] = "absent"
    BY <1>1, Target DEF CommitAdd, Adding, Kinds
  <2>2. QED
    BY <1>1, <2>1 DEF CommitAdd, TypeOK
<1>2. ASSUME NEW c \in Clients, CommitSoft(c)
      PROVE  row'[v] = "removed"
  BY <1>2 DEF CommitSoft, InTable, TypeOK
<1>3. ASSUME NEW c \in Clients, CommitHard(c)
      PROVE  row'[v] = "removed"
  BY <1>3 DEF CommitHard, TypeOK
<1>4. ASSUME NEW c \in Clients,
             \/ Arrives(c) \/ Store(c) \/ Erase(c) \/ EraseSkipped(c) \/ LoadChildren(c)
             \/ RefuseHard(c) \/ CommitLink(c) \/ Abort(c)
             \/ \E j \in Jobs : CommitAnalyse(c, j)
      PROVE  UNCHANGED row
  BY <1>4 DEF Arrives, BeginUpload, BeginImport, BeginDelete, BeginAnalyse, BeginLink, Begin,
              Store, Erase, EraseSkipped, LoadChildren, RefuseHard, CommitLink, Abort,
              CommitAnalyse, rows
<1>5. (\E w \in Videos : Unlink(w)) \/ (\E j \in Jobs : RemoveJob(j)) \/ UNCHANGED vars
        => UNCHANGED row
  BY DEF Unlink, RemoveJob, vars, rows
<1>6. QED
  BY <1>1, <1>2, <1>3, <1>4, <1>5 DEF Next, Server

\* A removed video stays removed and nothing refers to it again, whatever
\* requests for it were in flight (delete_video and the foreign keys).
THEOREM RemovalIsFinal == Spec => RemovedForGood
<1>1. IInv /\ IInv' /\ [Next]_vars =>
        [\A v \in Videos : row[v] = "removed" =>
           row'[v] = "removed" /\ v \notin linked' /\ \A j \in Jobs : jobs'[j] # v]_vars
  <2> SUFFICES ASSUME IInv, IInv', [Next]_vars, NEW v \in Videos, row[v] = "removed"
               PROVE  row'[v] = "removed" /\ v \notin linked' /\ \A j \in Jobs : jobs'[j] # v
    OBVIOUS
  <2>1. row'[v] = "removed"
    BY RemovedRow
  <2>2. v \notin linked' /\ \A j \in Jobs : jobs'[j] # v
    BY <2>1, NoneAssumption DEF IInv, References, InTable
  <2>3. QED
    BY <2>1, <2>2
<1>2. QED
  BY <1>1, Invariance, PTL DEF Spec, RemovedForGood

-----------------------------------------------------------------------------
(* A source is imported once.                                              *)

\* From one page, one video is added at a time, and while a source is imported
\* no listed video has it.
OneImport ==
  OnePage =>
    /\ \A c, d \in Clients : Adding(c) /\ Adding(d) => c = d
    /\ \A c \in Clients : Adding(c) /\ req[c].source # None =>
         \A w \in Videos : Live(w) => source[w] # req[c].source

SourceInv == OneImport /\ SourceOnce

\* A step that lists no video and adds none.
LEMMA KeepsSources ==
  ASSUME SourceInv,
         \A v \in Videos : Live(v)' => Live(v) /\ source'[v] = source[v],
         \A d \in Clients : Adding(d)' => Adding(d) /\ req'[d].source = req[d].source
  PROVE  SourceInv'
  BY DEF SourceInv, OneImport, SourceOnce

LEMMA SourceStep == IInv /\ SourceInv /\ [Next]_vars => SourceInv'
<1> SUFFICES ASSUME IInv, SourceInv, [Next]_vars PROVE SourceInv'
  OBVIOUS
<1> USE DEF IInv
<1>1. ASSUME NEW c \in Clients, NEW v \in Videos, NEW s \in Sources \cup {None}, MayAdd,
             NEW kind \in AddKinds, Begin(c, kind, "store", v, s),
             s # None => \A w \in Videos : ~(Live(w) /\ source[w] = s)
      PROVE  SourceInv'
  <2>1. /\ \A d \in Clients \ {c} : req'[d] = req[d]
        /\ req'[c].source = s
        /\ UNCHANGED <<row, source>>
    BY <1>1, Began DEF Kinds
  <2>2. CASE OnePage
    <3>1. \A d \in Clients : Adding(d)' => d = c
      BY <1>1, <2>1, <2>2 DEF MayAdd, Adding
    <3>2. QED
      BY <1>1, <2>1, <2>2, <3>1 DEF SourceInv, OneImport, SourceOnce, Live
  <2>3. CASE ~OnePage
    BY <2>3 DEF SourceInv, OneImport, SourceOnce
  <2>4. QED
    BY <2>2, <2>3
<1>2. ASSUME NEW c \in Clients, Arrives(c)
      PROVE  SourceInv'
  <2>1. PICK v \in Videos :
          \/ BeginUpload(c, v)
          \/ \E s \in Sources : BeginImport(c, v, s)
          \/ \E kind \in DeleteKinds : BeginDelete(c, v, kind)
          \/ BeginAnalyse(c, v)
          \/ BeginLink(c, v)
    BY <1>2 DEF Arrives
  <2>2. CASE BeginUpload(c, v)
    BY <1>1, <2>2 DEF BeginUpload, AddKinds
  <2>3. ASSUME NEW s \in Sources, BeginImport(c, v, s)
        PROVE  SourceInv'
    BY <1>1, <2>3 DEF BeginImport, AddKinds
  <2>4. ASSUME NEW kind \in DeleteKinds \cup {"analyse", "link"}, NEW pc,
               Begin(c, kind, pc, v, None)
        PROVE  SourceInv'
    <3>1. /\ \A d \in Clients \ {c} : req'[d] = req[d]
          /\ req'[c].kind = kind
          /\ UNCHANGED <<row, source>>
      BY <2>4, Began DEF Kinds
    <3>2. ~Adding(c)'
      BY <2>4, <3>1 DEF Adding, AddKinds, DeleteKinds
    <3>3. QED
      BY <3>1, <3>2, KeepsSources DEF Live, Adding
  <2>5. QED
    BY <2>1, <2>2, <2>3, <2>4 DEF BeginDelete, BeginAnalyse, BeginLink
<1>3. ASSUME NEW c \in Clients, Store(c) \/ Erase(c) \/ EraseSkipped(c) \/ LoadChildren(c)
      PROVE  SourceInv'
  <2>1. UNCHANGED <<row, source>>
    BY <1>3 DEF Store, Erase, EraseSkipped, LoadChildren, rows
  <2>2. \A d \in Clients : Adding(d)' => Adding(d) /\ req'[d].source = req[d].source
    <3>1. req[c] \in Request
      BY DEF TypeOK
    <3>2. QED
      BY <1>3, <3>1 DEF Store, Erase, EraseSkipped, AfterErase, LoadChildren, Goto, Adding,
                        TypeOK, Request
  <2>3. QED
    BY <2>1, <2>2, KeepsSources DEF Live
<1>4. ASSUME NEW c \in Clients, Ends(c)
      PROVE  \A d \in Clients : Adding(d)' => Adding(d) /\ req'[d] = req[d] /\ d # c
  <2>1. req'[c] = Idle /\ \A d \in Clients \ {c} : req'[d] = req[d]
    BY <1>4, Moves
  <2>2. ~Adding(c)'
    BY <2>1, NoneAssumption DEF Adding, Idle, Kinds
  <2>3. QED
    BY <2>1, <2>2 DEF Adding
<1>5. ASSUME NEW c \in Clients, NEW newJobs \in FirstJobs, CommitAdd(c, newJobs)
      PROVE  SourceInv'
  <2>1. req[c].video \in Videos /\ Adding(c)
    BY <1>5, Target DEF CommitAdd, Adding, Kinds
  <2>2. \A v \in Videos :
          /\ row'[v] = IF v = req[c].video THEN "live" ELSE row[v]
          /\ source'[v] = IF v = req[c].video THEN req[c].source ELSE source[v]
    BY <1>5, <2>1 DEF CommitAdd, TypeOK
  <2>3. \A d \in Clients : Adding(d)' => Adding(d) /\ d # c
    BY <1>4, <1>5 DEF CommitAdd
  <2>4. CASE OnePage
    <3>1. \A d \in Clients : ~Adding(d)'
      BY <2>1, <2>3, <2>4 DEF SourceInv, OneImport
    <3>2. OneImport'
      BY <3>1 DEF OneImport
    <3>3. SourceOnce'
      BY <2>1, <2>2, <2>4 DEF SourceInv, OneImport, SourceOnce, Live
    <3>4. QED
      BY <3>2, <3>3 DEF SourceInv
  <2>5. CASE ~OnePage
    BY <2>5 DEF SourceInv, OneImport, SourceOnce
  <2>6. QED
    BY <2>4, <2>5
<1>6. ASSUME NEW c \in Clients,
             \/ CommitSoft(c) \/ CommitHard(c) \/ RefuseHard(c) \/ CommitLink(c) \/ Abort(c)
             \/ \E j \in Jobs : CommitAnalyse(c, j)
      PROVE  SourceInv'
  <2>1. Ends(c) /\ UNCHANGED source
    BY <1>6 DEF CommitSoft, CommitHard, RefuseHard, CommitLink, Abort, CommitAnalyse, rows
  <2>2. \A v \in Videos : Live(v)' => Live(v)
    BY <1>6 DEF CommitSoft, CommitHard, RefuseHard, CommitLink, Abort, CommitAnalyse, rows,
                Live, TypeOK
  <2>3. QED
    BY <1>4, <2>1, <2>2, KeepsSources
<1>7. CASE (\E v \in Videos : Unlink(v)) \/ (\E j \in Jobs : RemoveJob(j)) \/ UNCHANGED vars
  <2>1. UNCHANGED <<row, source, req>>
    BY <1>7 DEF Unlink, RemoveJob, vars, rows
  <2>2. QED
    BY <2>1, KeepsSources DEF Live, Adding
<1>8. QED
  BY <1>2, <1>3, <1>5, <1>6, <1>7 DEF Next, Server

\* From one page no source is in the library twice, although the duplicates are
\* looked up long before the row is inserted (import_youtube_video, AddVideoPanel).
THEOREM ImportedOnce == Spec => []SourceOnce
<1>1. Init => SourceInv
  BY NoneAssumption DEF Init, SourceInv, OneImport, SourceOnce, Adding, Idle, Live, Kinds
<1>2. SourceInv => SourceOnce
  BY DEF SourceInv
<1>3. QED
  BY <1>1, <1>2, SourceStep, Invariance, PTL DEF Spec

-----------------------------------------------------------------------------
(* Rows and bytes agree.                                                   *)

\* The two halves of StorageAgrees, for one video, and what a commit relies on.
Owned(v)    == v \in bytes => Live(v) \/ \E c \in Clients : Adding(c) /\ req[c].video = v
Playable(v) ==
  Live(v) => v \in bytes \cup refused \/ \E c \in Clients : Deleting(c) /\ req[c].video = v

Stored ==
  \A c \in Clients : Adding(c) /\ req[c].pc = "commit" => req[c].video \in bytes

StorageInv == (errors = 0 => \A v \in Videos : Owned(v) /\ Playable(v)) /\ Stored

LEMMA StorageStep == IInv /\ StorageInv /\ [Next]_vars => StorageInv'
<1> SUFFICES ASSUME IInv, StorageInv, [Next]_vars PROVE StorageInv'
  OBVIOUS
<1> USE DEF IInv
<1>1. ASSUME NEW c \in Clients, NEW kind \in Kinds, NEW pc \in {"store", "erase", "commit"},
             NEW v \in Videos, NEW s, Begin(c, kind, pc, v, s),
             pc = "commit" => kind \in {"analyse", "link"}
      PROVE  StorageInv'
  <2>1. /\ \A d \in Clients \ {c} : req'[d] = req[d]
        /\ req'[c].kind = kind /\ req'[c].pc = pc
        /\ req[c] = Idle
        /\ UNCHANGED <<row, bytes, errors, refused>>
    BY <1>1 DEF Begin, TypeOK, Idle, rows
  <2>2. ~Adding(c) /\ ~Deleting(c)
    BY <2>1, NoneAssumption DEF Adding, Deleting, Idle, Kinds
  <2>3. Stored'
    BY <1>1, <2>1 DEF StorageInv, Stored, Adding, AddKinds
  <2>4. QED
    BY <2>1, <2>2, <2>3 DEF StorageInv, Owned, Playable, Live, Adding, Deleting
<1>2. ASSUME NEW c \in Clients, Arrives(c)
      PROVE  StorageInv'
  BY <1>1, <1>2 DEF Arrives, BeginUpload, BeginImport, BeginDelete, BeginAnalyse, BeginLink,
                    Kinds, AddKinds
<1>3. ASSUME NEW c \in Clients, Store(c)
      PROVE  StorageInv'
  <2>1. /\ \A d \in Clients \ {c} : req'[d] = req[d]
        /\ req'[c].kind = req[c].kind /\ req'[c].video = req[c].video
        /\ bytes' = bytes \cup {req[c].video}
        /\ UNCHANGED <<row, errors, refused>>
        /\ Adding(c)
    BY <1>3, Moves DEF Store, rows, Shape
  <2>2. \A d \in Clients : (Adding(d)' <=> Adding(d)) /\ (Deleting(d)' <=> Deleting(d))
                           /\ req'[d].video = req[d].video
    BY <2>1 DEF Adding, Deleting
  <2>3. QED
    BY <2>1, <2>2 DEF StorageInv, Stored, Owned, Playable, Live
<1>4. ASSUME NEW c \in Clients, Erase(c)
      PROVE  StorageInv'
  <2>1. /\ \A d \in Clients \ {c} : req'[d] = req[d]
        /\ req'[c].kind = req[c].kind /\ req'[c].video = req[c].video
        /\ bytes' = bytes \ {req[c].video}
        /\ UNCHANGED <<row, errors, refused>>
        /\ Deleting(c) /\ req[c] # Idle
    BY <1>4, Moves DEF Erase, AfterErase, rows, Shape, Idle
  <2>2. \A d \in Clients : (Adding(d)' <=> Adding(d)) /\ (Deleting(d)' <=> Deleting(d))
                           /\ req'[d].video = req[d].video
    BY <2>1 DEF Adding, Deleting
  <2>3. ~Adding(c) /\ \A d \in Clients : Adding(d) => req[d].video # req[c].video
    BY <2>1 DEF NewRows, Adding, Deleting, AddKinds, DeleteKinds
  <2>4. Stored'
    BY <2>1, <2>2, <2>3 DEF StorageInv, Stored
  <2>5. QED
    BY <2>1, <2>2, <2>4 DEF StorageInv, Owned, Playable, Live
<1>5. ASSUME NEW c \in Clients, EraseSkipped(c) \/ LoadChildren(c)
      PROVE  StorageInv'
  <2>1. /\ \A d \in Clients \ {c} : req'[d] = req[d]
        /\ req'[c].kind = req[c].kind /\ req'[c].video = req[c].video
        /\ UNCHANGED <<row, bytes, refused>>
        /\ Deleting(c)
    BY <1>5, Moves DEF EraseSkipped, AfterErase, LoadChildren, rows, Shape, Deleting,
                       DeleteKinds
  <2>2. errors' = 0 => errors = 0
    BY <1>5 DEF EraseSkipped, LoadChildren, TypeOK
  <2>3. \A d \in Clients : (Adding(d)' <=> Adding(d)) /\ (Deleting(d)' <=> Deleting(d))
                           /\ req'[d].video = req[d].video
    BY <2>1 DEF Adding, Deleting
  <2>4. ~Adding(c)
    BY <2>1 DEF Adding, Deleting, AddKinds, DeleteKinds
  <2>5. Stored'
    BY <2>1, <2>3, <2>4 DEF StorageInv, Stored
  <2>6. QED
    BY <2>1, <2>2, <2>3, <2>5 DEF StorageInv, Owned, Playable, Live
<1>6. ASSUME NEW c \in Clients, Ends(c), UNCHANGED bytes
      PROVE  /\ Stored'
             /\ \A d \in Clients \ {c} : /\ req'[d] = req[d]
                                         /\ Adding(d)' <=> Adding(d)
                                         /\ Deleting(d)' <=> Deleting(d)
  <2>1. req'[c] = Idle /\ \A d \in Clients \ {c} : req'[d] = req[d]
    BY <1>6, Moves
  <2>2. ~Adding(c)'
    BY <2>1, NoneAssumption DEF Adding, Idle, Kinds
  <2>3. QED
    BY <1>6, <2>1, <2>2 DEF StorageInv, Stored, Adding, Deleting
<1>7. ASSUME NEW c \in Clients, NEW newJobs \in FirstJobs, CommitAdd(c, newJobs)
      PROVE  StorageInv'
  <2>1. req[c].video \in Videos /\ Adding(c) /\ req[c].pc = "commit" /\ ~Deleting(c)
    BY <1>7, Target DEF CommitAdd, Adding, Deleting, AddKinds, DeleteKinds, Kinds
  <2>2. \A v \in Videos : row'[v] = IF v = req[c].video THEN "live" ELSE row[v]
    BY <1>7, <2>1 DEF CommitAdd, TypeOK
  <2>3. req[c].video \in bytes /\ UNCHANGED <<bytes, errors, refused>>
    BY <1>7, <2>1 DEF StorageInv, Stored, CommitAdd
  <2>4. QED
    BY <1>6, <1>7, <2>1, <2>2, <2>3 DEF CommitAdd, StorageInv, Owned, Playable, Live
<1>8. ASSUME NEW c \in Clients, CommitSoft(c) \/ CommitHard(c)
      PROVE  StorageInv'
  <2>1. /\ Deleting(c) /\ ~Adding(c) /\ req[c].pc = "commit" /\ req[c].video \in Videos
        /\ Ends(c) /\ UNCHANGED <<bytes, errors, refused>>
    BY <1>8, Target
    DEF CommitSoft, CommitHard, Deleting, Adding, AddKinds, DeleteKinds, Kinds
  <2>2. \A v \in Videos : IF v = req[c].video THEN row'[v] # "live" ELSE row'[v] = row[v]
    BY <1>8, <2>1 DEF CommitSoft, CommitHard, InTable, TypeOK
  <2>3. errors = 0 => req[c].video \notin bytes
    BY <2>1 DEF Erased
  <2>4. QED
    BY <1>6, <2>1, <2>2, <2>3 DEF StorageInv, Owned, Playable, Live
<1>9. ASSUME NEW c \in Clients, RefuseHard(c)
      PROVE  StorageInv'
  <2>1. /\ Deleting(c) /\ ~Adding(c) /\ Ends(c) /\ UNCHANGED <<row, bytes, errors>>
        /\ refused' = refused \cup {req[c].video}
    BY <1>9 DEF RefuseHard, Deleting, Adding, AddKinds, DeleteKinds, rows
  <2>2. QED
    BY <1>6, <2>1 DEF StorageInv, Owned, Playable, Live
<1>10. ASSUME NEW c \in Clients, CommitLink(c) \/ \E j \in Jobs : CommitAnalyse(c, j)
       PROVE  StorageInv'
  <2>1. ~Deleting(c) /\ ~Adding(c) /\ Ends(c) /\ UNCHANGED <<row, bytes, errors, refused>>
    BY <1>10 DEF CommitLink, CommitAnalyse, Deleting, Adding, AddKinds, DeleteKinds
  <2>2. QED
    BY <1>6, <2>1 DEF StorageInv, Owned, Playable, Live
<1>11. ASSUME NEW c \in Clients, Abort(c)
       PROVE  StorageInv'
  BY <1>6, <1>11 DEF Abort, StorageInv, TypeOK
<1>12. CASE (\E v \in Videos : Unlink(v)) \/ (\E j \in Jobs : RemoveJob(j)) \/ UNCHANGED vars
  <2>1. UNCHANGED <<row, bytes, req, errors, refused>>
    BY <1>12 DEF Unlink, RemoveJob, vars, rows
  <2>2. QED
    BY <2>1 DEF StorageInv, Stored, Owned, Playable, Live, Adding, Deleting
<1>13. QED
  BY <1>2, <1>3, <1>4, <1>5, <1>7, <1>8, <1>9, <1>10, <1>11, <1>12 DEF Next, Server

\* Without errors the storage and the table agree, however uploads, imports,
\* deletions, analyses and links of any number of videos are interleaved
\* (create_video_from_upload, delete_video).
THEOREM RowsAndBytesAgree == Spec => []StorageAgrees
<1>1. Init => StorageInv
  BY NoneAssumption DEF Init, StorageInv, Stored, Owned, Playable, Live, Adding, Idle, Kinds
<1>2. StorageInv => StorageAgrees
  BY DEF StorageInv, StorageAgrees, Owned, Playable
<1>3. QED
  BY <1>1, <1>2, StorageStep, Invariance, PTL DEF Spec
=============================================================================
