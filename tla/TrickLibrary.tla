---------------------------- MODULE TrickLibrary ----------------------------
(***************************************************************************)
(* What an owner teaches the system by hand: the tricks of a division with *)
(* their example segments of videos (routers/tricks.py) and the training   *)
(* annotations of a video (routers/training_annotations.py).               *)
(*                                                                         *)
(* A request reads, and commits later: others commit in between.  Rows     *)
(* that a transaction has updated are locked until it ends, and an UPDATE  *)
(* changes the rows that existed when it started (PostgreSQL, READ         *)
(* COMMITTED, as docker-compose.yml runs it).  One owner; the free text of *)
(* a row is left out.                                                      *)
(***************************************************************************)
EXTENDS Integers, FiniteSets, SequencesExt, PythonLists

CONSTANTS
  Names,        (* [key, spelling]: key is lower(name).                     *)
  Videos,       (* [division, duration, player, rights, deleted] by id; duration may be None. *)
  Windows,      (* The <<start, end>> a client sends.                       *)
  Divisions,
  Requests,     (* The requests the server works on at once.                *)
  Stores,       (* What the tables may hold at first: [tricks, segments].   *)
  MaxServed,    (* Bound: requests.                                         *)
  None

VARIABLES
  tricks,       (* trick_catalog, by the order of creation: [name, division], None when deleted. *)
  segments,     (* trick_examples, and training_annotations (trick = None). *)
  requests,     (* The requests at work.                                    *)
  served,       (* How many requests began.                                 *)
  crossed       (* History: what two requests at once were about.            *)

vars == <<tricks, segments, requests, served, crossed>>

Segments == [trick : Nat \cup {None}, video : DOMAIN Videos,
             start : Nat, end : Nat, primary : BOOLEAN]
NoChange == [start |-> None, end |-> None, primary |-> None]

TypeOK ==
  /\ tricks \in Seq([name : Names, division : Divisions] \cup {None})
  /\ segments \in Seq(Segments \cup {None})
  /\ DOMAIN requests = Requests
  /\ \A r \in Requests : requests[r] # None =>
       requests[r].op \in {"create", "rename", "add", "change"}
  /\ served \in 0 .. MaxServed
  /\ crossed \subseteq {"name", "primary"}

Init ==
  /\ \E s \in Stores : tricks = s.tricks /\ segments = s.segments
  /\ requests = [r \in Requests |-> None] /\ served = 0 /\ crossed = {}

-----------------------------------------------------------------------------
Tricks      == {t \in DOMAIN tricks : tricks[t] # None}
Examples(t) == {e \in DOMAIN segments : segments[e] # None /\ segments[e].trick = t}
Annotations(v) == {a \in DOMAIN segments : /\ segments[a] # None /\ segments[a].trick = None
                                           /\ segments[a].video = v}

\* Rows another transaction has updated and not committed.
Locked(r) == UNION {requests[q].cleared : q \in {x \in Requests \ {r} : requests[x] # None}}

\* _validate_window, _validate_example_window: 422 otherwise.
ValidWindow(video, start, end) ==
  start < end /\ (Videos[video].duration # None => end <= Videos[video].duration)

Asked(op) == [op |-> op, trick |-> None, name |-> None, division |-> None, segment |-> None,
              new |-> None, changes |-> NoChange, seen |-> {}, cleared |-> {}, ready |-> TRUE]

NamesTrick(q)   == q.op \in {"create", "rename"}
MakesPrimary(q) == (q.op = "add" /\ q.new.primary) \/ (q.op = "change" /\ q.changes.primary = TRUE)

\* Two PATCHes wait for each other's rows; nobody waits for a row that is new.
Crossing(q, r) ==
  {c \in {"name", "primary"} :
     \/ c = "name" /\ NamesTrick(q) /\ NamesTrick(r)
     \/ c = "primary" /\ "add" \in {q.op, r.op} /\ (MakesPrimary(q) \/ MakesPrimary(r))}

Served == served < MaxServed /\ served' = served + 1

Free == {r \in Requests : requests[r] = None /\ served < MaxServed}

Begin(r, request) ==
  /\ r \in Free /\ Served
  /\ requests' = [requests EXCEPT ![r] = request]
  /\ crossed' = crossed \cup UNION {Crossing(requests[q], request) :
                                    q \in {x \in Requests : requests[x] # None}}

End(r) == requests' = [requests EXCEPT ![r] = None] /\ UNCHANGED <<served, crossed>>

\* Rolled back: 404, 500 or an IntegrityError.
Fails(r) == End(r) /\ UNCHANGED <<tricks, segments>>

-----------------------------------------------------------------------------
(* Tricks.                                                                 *)

\* Mutant: the case of a name counts.
ExactNames(division, name, self) ==
  {t \in Tricks \ {self} : tricks[t].division = division /\ tricks[t].name = name}

\* _assert_unique_name: a row is a 409, and two rows are an error as well.
SameName(division, name, self) ==
  {t \in Tricks \ {self} : tricks[t].division = division /\ tricks[t].name.key = name.key}

\* uq_trick_catalog_owner_name: the spelling counts here.
UniqueName(division, name, self) ==
  \A t \in Tricks \ {self} : tricks[t].division # division \/ tricks[t].name # name

BeginCreate(r, name, division) ==
  /\ SameName(division, name, None) = {}
  /\ Begin(r, [Asked("create") EXCEPT !.name = name, !.division = division])
  /\ UNCHANGED <<tricks, segments>>

BeginRename(r, t, name) ==
  /\ t \in Tricks /\ SameName(tricks[t].division, name, t) = {}
  /\ Begin(r, [Asked("rename") EXCEPT !.trick = t, !.name = name,
                                     !.division = tricks[t].division])
  /\ UNCHANGED <<tricks, segments>>

CommitName(r) ==
  LET q == requests[r]
  IN  /\ q # None /\ q.op \in {"create", "rename"}
      /\ IF ~UniqueName(q.division, q.name, q.trick) \/ (q.op = "rename" /\ q.trick \notin Tricks)
         THEN Fails(r)
         ELSE /\ tricks' = IF q.op = "create"
                           THEN Append(tricks, [name |-> q.name, division |-> q.division])
                           ELSE [tricks EXCEPT ![q.trick].name = q.name]
              /\ UNCHANGED segments /\ End(r)

\* delete_trick: its examples go with it.
DeleteTrick(t) ==
  /\ Served /\ t \in Tricks /\ Examples(t) \cap Locked(None) = {}
  /\ tricks' = [tricks EXCEPT ![t] = None]
  /\ segments' = [e \in DOMAIN segments |-> IF e \in Examples(t) THEN None ELSE segments[e]]
  /\ UNCHANGED <<requests, crossed>>

-----------------------------------------------------------------------------
(* Segments: the examples of a trick, and the annotations of a video.      *)

\* create_trick_example, create_annotation.
BeginAdd(r, t, v, w, primary) ==
  /\ t \in Tricks \cup {None} /\ (t = None => ~primary)
  /\ ~Videos[v].deleted /\ (t # None => Videos[v].division = tricks[t].division)
  /\ ValidWindow(v, w[1], w[2])
  /\ Begin(r, [Asked("add") EXCEPT !.trick = t, !.ready = ~primary,
                 !.seen = IF primary THEN Examples(t) ELSE {},
                 !.new = [trick |-> t, video |-> v, start |-> w[1], end |-> w[2],
                          primary |-> primary]])
  /\ UNCHANGED <<tricks, segments>>

\* What a PATCH sends: the fields that are not None.
Changes == [start : {w[1] : w \in Windows} \cup {None}, end : {w[2] : w \in Windows} \cup {None},
            primary : BOOLEAN \cup {None}]

Given(new, old) == IF new = None THEN old ELSE new

\* update_trick_example, update_annotation: the window is checked against the
\* row as it was read, and a value the row already had is not written.
BeginChange(r, e, c) ==
  LET row  == segments[e]
      Field(new, old) == IF new = old THEN None ELSE new
  IN  /\ row # None /\ c # NoChange /\ (row.trick = None => c.primary = None)
      /\ ValidWindow(row.video, Given(c.start, row.start), Given(c.end, row.end))
      /\ Begin(r, [Asked("change") EXCEPT !.trick = row.trick, !.segment = e,
                     !.changes = [start |-> Field(c.start, row.start),
                                  end |-> Field(c.end, row.end),
                                  primary |-> IF c.primary = TRUE THEN TRUE
                                              ELSE Field(c.primary, row.primary)],
                     !.seen = IF c.primary = TRUE THEN Examples(row.trick) ELSE {},
                     !.ready = c.primary # TRUE])
      /\ UNCHANGED <<tricks, segments>>

\* UPDATE trick_examples SET is_primary = false WHERE trick_id = ...: the rows
\* that were there when it started, once no other transaction holds one.
ClearPrimary(r) ==
  /\ requests[r] # None /\ ~requests[r].ready
  /\ requests[r].seen \cap Locked(r) = {}
  /\ requests' = [requests EXCEPT ![r].ready = TRUE,
                    ![r].cleared = {e \in requests[r].seen : segments[e] # None}]
  /\ UNCHANGED <<tricks, segments, served, crossed>>

Cleared(ids) ==
  [e \in DOMAIN segments |->
     IF e \in ids /\ segments[e] # None THEN [segments[e] EXCEPT !.primary = FALSE] ELSE segments[e]]

\* The ORM's UPDATE, and ck_..._end_after_start of both tables.
CommitSegment(r) ==
  LET q    == requests[r]
      base == Cleared(q.cleared)
      row  == base[q.segment]
      new  == [row EXCEPT !.start = Given(q.changes.start, @), !.end = Given(q.changes.end, @),
                          !.primary = Given(q.changes.primary, @)]
  IN  /\ q # None /\ q.op \in {"add", "change"} /\ q.ready
      /\ IF q.op = "add"
         THEN IF q.trick \in Tricks \cup {None}
              THEN segments' = Append(base, q.new) /\ UNCHANGED tricks /\ End(r)
              ELSE Fails(r)
         ELSE /\ q.segment \notin Locked(r)
              /\ IF row = None THEN Fails(r)
                 ELSE IF new.start >= new.end THEN Fails(r)
                 ELSE segments' = [base EXCEPT ![q.segment] = new] /\ UNCHANGED tricks /\ End(r)

\* delete_trick_example, delete_annotation.
DeleteSegment(e) ==
  /\ Served /\ segments[e] # None /\ e \notin Locked(None)
  /\ segments' = [segments EXCEPT ![e] = None]
  /\ UNCHANGED <<tricks, requests, crossed>>

Next ==
  \/ \E r \in Free, n \in Names, d \in Divisions : BeginCreate(r, n, d)
  \/ \E r \in Free, t \in DOMAIN tricks, n \in Names : BeginRename(r, t, n)
  \/ \E r \in Requests : CommitName(r)
  \/ \E t \in DOMAIN tricks : DeleteTrick(t)
  \/ \E r \in Free, t \in DOMAIN tricks \cup {None}, v \in DOMAIN Videos,
        w \in Windows, primary \in BOOLEAN : BeginAdd(r, t, v, w, primary)
  \/ \E r \in Free, e \in DOMAIN segments, c \in Changes : BeginChange(r, e, c)
  \/ \E r \in Requests : ClearPrimary(r)
  \/ \E r \in Requests : CommitSegment(r)
  \/ \E e \in DOMAIN segments : DeleteSegment(e)

Spec == Init /\ [][Next]_vars

-----------------------------------------------------------------------------
(* What is exported.                                                       *)

\* build_training_record: the annotations of a video by start_ms, None for a
\* ValueError (422).  It is never adjudicated, whoever asks for it.
TrainingRecord(v, user) ==
  LET rows == SetToSeq(Annotations(v))
  IN  IF \/ rows = <<>> \/ Videos[v].duration = None
         \/ Videos[v].player = None \/ ~Videos[v].rights
      THEN None
      ELSE [id |-> <<v, user>>, video |-> v, player |-> Videos[v].player,
            duration |-> Videos[v].duration, adjudicated |-> FALSE,
            events |-> SortedBy([i \in DOMAIN rows |->
                         [id |-> rows[i], start |-> segments[rows[i]].start,
                          end |-> segments[rows[i]].end, family |-> "unknown"]],
                       LAMBDA e : e.start)]

-----------------------------------------------------------------------------
(* Properties.                                                             *)

\* A name is used once in a division, whatever its case, unless two requests
\* for names were at work at once: the check and the insert are two statements
\* and the constraint tells the cases apart (_assert_unique_name, 0011).
NamesAreUnique ==
  "name" \in crossed \/
    \A t, u \in Tricks : t # u /\ tricks[t].division = tricks[u].division
                           => tricks[t].name.key # tricks[u].name.key

\* Even then no two tricks have the same spelling.
SpellingsAreUnique ==
  \A t, u \in Tricks : t # u /\ tricks[t].division = tricks[u].division
                         => tricks[t].name # tricks[u].name

\* A trick has one primary example at most, unless an example was added while
\* another request was at work on which one is primary.  Two PATCHes never make
\* two (create_trick_example, update_trick_example).
OnePrimary ==
  "primary" \in crossed \/
    \A t \in Tricks : Cardinality({e \in Examples(t) : segments[e].primary}) <= 1

\* Two PATCHes of different ends of a window never turn it around nor beyond
\* the video, and an example shows a trick that exists, of its own division.
SegmentsFit ==
  \A e \in {x \in DOMAIN segments : segments[x] # None} :
    LET s == segments[e]
    IN  /\ ValidWindow(s.video, s.start, s.end)
        /\ s.trick # None => s.trick \in Tricks
                             /\ tricks[s.trick].division = Videos[s.video].division

\* What is exported can be read again: in order, within the video, and each
\* event once.
ExportsAreOrdered ==
  \A v \in DOMAIN Videos :
    LET r == TrainingRecord(v, "ann")
    IN  r # None => /\ Len(r.events) = Cardinality(Annotations(v))
                    /\ \A i, j \in DOMAIN r.events :
                         i < j => /\ r.events[i].start <= r.events[j].start
                                  /\ r.events[i].id # r.events[j].id
                    /\ \A i \in DOMAIN r.events : r.events[i].end <= r.duration

\* The labels stay sound whatever requests of one owner overlap, but for the
\* two crossings named above (routers/tricks.py, routers/training_annotations.py).
LabelsAreSound == NamesAreUnique /\ SpellingsAreUnique /\ OnePrimary /\ SegmentsFit /\ ExportsAreOrdered
=============================================================================
