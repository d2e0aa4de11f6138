------------------------- MODULE TrickLibraryProofs -------------------------
(***************************************************************************)
(* The labels stay sound, and their exports in order, for any tricks,      *)
(* videos and windows, and however many requests overlap.                  *)
(***************************************************************************)
EXTENDS TrickLibrary, FunctionTheorems, FiniteSetTheorems, SequenceTheorems, TLAPS

-----------------------------------------------------------------------------
(* Sorting, and the rows of a set.                                         *)

\* Nothing comes at two places, and all places are taken.
LEMMA PlacesAreTaken ==
  ASSUME NEW n \in Nat, NEW keys \in [1 .. n -> Int]
  PROVE  /\ \A i \in 1 .. n : Place(keys, i) \in 1 .. n
         /\ \A i, j \in 1 .. n : Sooner(keys, i, j) => Place(keys, i) < Place(keys, j)
         /\ \A k \in 1 .. n : \E i \in 1 .. n : Place(keys, i) = k
<1> DEFINE S(i) == {j \in 1 .. n : Sooner(keys, j, i)}
<1>0. IsFiniteSet(1 .. n) /\ Cardinality(1 .. n) = n
  BY FS_Interval
<1>1. \A i \in 1 .. n : Place(keys, i) = Cardinality(S(i)) + 1
  BY DEF Place
<1>2. ASSUME NEW i \in 1 .. n
      PROVE  /\ IsFiniteSet(S(i)) /\ Cardinality(S(i)) \in Nat
             /\ Cardinality(S(i)) < n
  <2>1. S(i) \in SUBSET (1 .. n) /\ i \notin S(i)
    BY DEF Sooner
  <2> HIDE DEF S
  <2>2. /\ IsFiniteSet(S(i)) /\ Cardinality(S(i)) <= n /\ Cardinality(S(i)) # n
    BY <1>0, <2>1, FS_Subset
  <2>3. Cardinality(S(i)) \in Nat
    BY <2>2, FS_CardinalityType
  <2>4. QED
    BY <2>2, <2>3
<1>3. ASSUME NEW i \in 1 .. n, NEW j \in 1 .. n, Sooner(keys, i, j)
      PROVE  Cardinality(S(i)) < Cardinality(S(j))
  <2>1. S(i) \in SUBSET S(j)
    <3> SUFFICES ASSUME NEW m \in 1 .. n, Sooner(keys, m, i)
                 PROVE  Sooner(keys, m, j)
      OBVIOUS
    <3>1. keys[m] \in Int /\ keys[i] \in Int /\ keys[j] \in Int
      OBVIOUS
    <3>2. QED
      BY <1>3, <3>1 DEF Sooner
  <2>2. i \in S(j) /\ i \notin S(i)
    BY <1>3 DEF Sooner
  <2> HIDE DEF S
  <2>3. Cardinality(S(i)) <= Cardinality(S(j)) /\ Cardinality(S(i)) # Cardinality(S(j))
    BY <1>2, <2>1, <2>2, FS_Subset
  <2>4. QED
    BY <1>2, <2>3
<1> HIDE DEF S
<1>a. ASSUME NEW i \in 1 .. n
      PROVE  Place(keys, i) \in 1 .. n
  <2>1. PICK c \in Nat : c = Cardinality(S(i)) /\ c < n
    BY <1>2
  <2>2. Place(keys, i) = c + 1
    BY <1>1, <2>1
  <2>3. QED
    BY <2>1, <2>2
<1>b. ASSUME NEW i \in 1 .. n, NEW j \in 1 .. n, Sooner(keys, i, j)
      PROVE  Place(keys, i) < Place(keys, j)
  <2>1. PICK c \in Nat, d \in Nat : c = Cardinality(S(i)) /\ d = Cardinality(S(j))
    BY <1>2
  <2>2. c < d /\ Place(keys, i) = c + 1 /\ Place(keys, j) = d + 1
    BY <1>1, <1>3, <1>b, <2>1
  <2>3. QED
    BY <2>1, <2>2
<1>4. /\ \A i \in 1 .. n : Place(keys, i) \in 1 .. n
      /\ \A i, j \in 1 .. n : Sooner(keys, i, j) => Place(keys, i) < Place(keys, j)
  BY <1>a, <1>b
<1>5. \A k \in 1 .. n : \E i \in 1 .. n : Place(keys, i) = k
  <2> DEFINE place == [i \in 1 .. n |-> Place(keys, i)]
  <2>1. place \in [1 .. n -> 1 .. n]
    BY <1>4
  <2>2. ASSUME NEW i \in 1 .. n, NEW j \in 1 .. n, place[i] = place[j]
        PROVE  i = j
    <3>1. Place(keys, i) = Place(keys, j) /\ Place(keys, i) \in Int /\ Place(keys, j) \in Int
      BY <1>4, <2>2
    <3>2. ~ Sooner(keys, i, j) /\ ~ Sooner(keys, j, i)
      BY <1>4, <3>1
    <3>3. keys[i] \in Int /\ keys[j] \in Int
      OBVIOUS
    <3>4. QED
      BY <3>2, <3>3 DEF Sooner
  <2> HIDE DEF place
  <2>3. place \in Injection(1 .. n, 1 .. n)
    BY <2>1, <2>2, Fun_IsInj
  <2>4. place \in Surjection(1 .. n, 1 .. n)
    BY <1>0, <2>3, FS_Injection
  <2>5. \A k \in 1 .. n : \E i \in 1 .. n : place[i] = k
    BY <2>1, <2>4 DEF Surjection
  <2>6. QED
    BY <2>5 DEF place
<1>6. QED
  BY <1>4, <1>5

\* sorted() puts every element somewhere, once, and the keys in order.
LEMMA SortingSorts ==
  ASSUME NEW n \in Nat, NEW keys \in [1 .. n -> Int]
  PROVE  /\ Sorting(keys) \in [1 .. n -> 1 .. n]
         /\ \A a, b \in 1 .. n :
              a < b => /\ Sorting(keys)[a] # Sorting(keys)[b]
                       /\ keys[Sorting(keys)[a]] <= keys[Sorting(keys)[b]]
<1> DEFINE order == Sorting(keys)
<1>1. DOMAIN keys = 1 .. n
  OBVIOUS
<1>2. order = [k \in 1 .. n |-> CHOOSE i \in 1 .. n : Place(keys, i) = k]
  BY <1>1 DEF Sorting
<1> HIDE DEF order
<1>3. \A k \in 1 .. n : order[k] \in 1 .. n /\ Place(keys, order[k]) = k
  BY <1>2, PlacesAreTaken
<1>4. order \in [1 .. n -> 1 .. n]
  BY <1>2, <1>3
<1>5. ASSUME NEW a \in 1 .. n, NEW b \in 1 .. n, a < b
      PROVE  order[a] # order[b] /\ keys[order[a]] <= keys[order[b]]
  <2>1. order[a] # order[b]
    BY <1>3, <1>5
  <2>a. PICK i \in 1 .. n, j \in 1 .. n : i = order[a] /\ j = order[b]
    BY <1>3
  <2>b. Place(keys, i) = a /\ Place(keys, j) = b /\ ~ b < a
    BY <1>3, <1>5, <2>a
  <2>c. Sooner(keys, j, i) => Place(keys, j) < Place(keys, i)
    BY PlacesAreTaken
  <2>2. ~ Sooner(keys, order[b], order[a])
    BY <2>a, <2>b, <2>c
  <2>3. keys[order[a]] \in Int /\ keys[order[b]] \in Int
    BY <1>3
  <2>4. QED
    BY <2>1, <2>2, <2>3 DEF Sooner
<1>6. QED
  BY <1>4, <1>5 DEF order

\* The rows of a set, each once.
LEMMA RowsOfSet ==
  ASSUME NEW S, IsFiniteSet(S)
  PROVE  /\ Cardinality(S) \in Nat
         /\ SetToSeq(S) \in [1 .. Cardinality(S) -> S]
         /\ \A a, b \in 1 .. Cardinality(S) : SetToSeq(S)[a] = SetToSeq(S)[b] => a = b
<1>1. Cardinality(S) \in Nat /\ ExistsBijection(1 .. Cardinality(S), S)
  BY FS_CardinalityType
<1>2. PICK f : f \in Bijection(1 .. Cardinality(S), S)
  BY <1>1 DEF ExistsBijection
<1>3. f \in [1 .. Cardinality(S) -> S] /\ IsInjective(f)
  BY <1>2 DEF Bijection, Injection
<1>4. SetToSeq(S) \in [1 .. Cardinality(S) -> S] /\ IsInjective(SetToSeq(S))
  BY <1>3 DEF SetToSeq
<1>5. QED
  BY <1>1, <1>4 DEF IsInjective

-----------------------------------------------------------------------------
(* The invariant.                                                          *)

TrickRow == [name : Names, division : Divisions]

\* Durations and windows are in milliseconds, and no row is None.
ConstantsOK ==
  /\ None \notin Nat \cup BOOLEAN \cup TrickRow \cup Segments
  /\ Windows \subseteq Nat \X Nat
  /\ \A v \in DOMAIN Videos : Videos[v].duration \in Nat \cup {None}
  /\ MaxServed \in Nat

\* A window that fits, of a video of the division of its trick.
Fits(catalog, s) ==
  /\ ValidWindow(s.video, s.start, s.end)
  /\ s.trick # None => /\ s.trick \in DOMAIN catalog /\ catalog[s.trick] # None
                       /\ catalog[s.trick].division = Videos[s.video].division

\* The tables are sound at first: the constraints of the schema hold.
StoreOK(s) ==
  /\ s.tricks \in Seq(TrickRow \cup {None}) /\ s.segments \in Seq(Segments \cup {None})
  /\ \A t, u \in DOMAIN s.tricks :
       /\ t # u /\ s.tricks[t] # None /\ s.tricks[u] # None
       /\ s.tricks[t].division = s.tricks[u].division
       => /\ s.tricks[t].name.key # s.tricks[u].name.key
          /\ s.tricks[t].name # s.tricks[u].name
  /\ \A e, f \in DOMAIN s.segments :
       /\ e # f /\ s.segments[e] # None /\ s.segments[f] # None
       /\ s.segments[e].trick = s.segments[f].trick
       => ~ (s.segments[e].primary /\ s.segments[f].primary)
  /\ \A e \in DOMAIN s.segments : s.segments[e] # None => Fits(s.tricks, s.segments[e])

Fields == {"op", "trick", "name", "division", "segment", "new", "changes", "seen",
           "cleared", "ready"}

InFlight == {r \in Requests : requests[r] # None}

\* A request knows the row it is about, and that row keeps its trick.
RowOK(q) ==
  /\ q.op = "create" => q.trick = None
  /\ NamesTrick(q) => q.name \in Names /\ q.division \in Divisions
  /\ q.op = "rename" => /\ q.trick \in DOMAIN tricks
                        /\ tricks[q.trick] # None => tricks[q.trick].division = q.division
  /\ q.op = "add" =>
       /\ q.new \in Segments /\ q.new.trick = q.trick
       /\ ValidWindow(q.new.video, q.new.start, q.new.end)
       /\ q.trick # None =>
            /\ q.trick \in DOMAIN tricks
            /\ tricks[q.trick] # None => tricks[q.trick].division = Videos[q.new.video].division
  /\ q.op = "change" =>
       /\ q.changes \in [start : Nat \cup {None}, end : Nat \cup {None},
                         primary : BOOLEAN \cup {None}]
       /\ q.segment \in DOMAIN segments
       /\ LET s == segments[q.segment]
          IN  s # None => /\ s.trick = q.trick
                          /\ q.changes.end # None /\ Videos[s.video].duration # None
                               => q.changes.end <= Videos[s.video].duration

\* Its name is still free, unless another request was about a name.
NameFree(q) ==
  NamesTrick(q) /\ "name" \notin crossed => SameName(q.division, q.name, q.trick) = {}

\* It has seen every example of its trick, and then cleared them.
KnowsExamples(q) ==
  MakesPrimary(q) /\ "primary" \notin crossed =>
    /\ Examples(q.trick) \subseteq q.seen
    /\ q.ready => Examples(q.trick) \subseteq q.cleared

RequestOK(q) == DOMAIN q = Fields /\ RowOK(q) /\ NameFree(q) /\ KnowsExamples(q)

\* Two requests at once have crossed.
CrossingsSeen ==
  \A p, r \in InFlight : p # r => Crossing(requests[p], requests[r]) \subseteq crossed

AtMostOnePrimary ==
  "primary" \in crossed \/
    \A t \in Tricks : \A e, f \in Examples(t) :
      segments[e].primary /\ segments[f].primary => e = f

IInv ==
  /\ TypeOK /\ (\A r \in InFlight : RequestOK(requests[r])) /\ CrossingsSeen
  /\ NamesAreUnique /\ SpellingsAreUnique /\ AtMostOnePrimary /\ SegmentsFit

-----------------------------------------------------------------------------
(* What a step may do to the tables.                                       *)

\* A deleted row does not come back, and a trick keeps its division.
KeepsTricks ==
  /\ DOMAIN tricks \subseteq DOMAIN tricks'
  /\ \A t \in DOMAIN tricks :
       tricks'[t] # None => tricks[t] # None /\ tricks'[t].division = tricks[t].division

\* A segment keeps its trick and its video.
KeepsSegments ==
  /\ DOMAIN segments \subseteq DOMAIN segments'
  /\ \A e \in DOMAIN segments :
       segments'[e] # None => /\ segments[e] # None
                              /\ segments'[e].trick = segments[e].trick
                              /\ segments'[e].video = segments[e].video

NoNewNames ==
  /\ DOMAIN tricks' = DOMAIN tricks
  /\ \A t \in DOMAIN tricks : tricks'[t] # None => tricks'[t] = tricks[t]

NoNewExamples == DOMAIN segments' = DOMAIN segments

\* The rows of the tables by their ids.
LEMMA Tables ==
  ASSUME TypeOK
  PROVE  /\ Len(tricks) \in Nat /\ DOMAIN tricks = 1 .. Len(tricks)
         /\ \A t \in DOMAIN tricks : tricks[t] \in TrickRow \cup {None}
         /\ Len(segments) \in Nat /\ DOMAIN segments = 1 .. Len(segments)
         /\ \A e \in DOMAIN segments : segments[e] \in Segments \cup {None}
<1>1. tricks \in Seq(TrickRow \cup {None}) /\ segments \in Seq(Segments \cup {None})
  BY DEF TypeOK, TrickRow
<1>2. QED
  BY <1>1, LenProperties, ElementOfSeq

\* What a request knows stays true, unless another request named a trick or
\* added an example.
LEMMA RequestStays ==
  ASSUME NEW q, RequestOK(q), KeepsTricks, KeepsSegments, crossed \subseteq crossed',
         NamesTrick(q) /\ "name" \notin crossed' => NoNewNames,
         MakesPrimary(q) /\ "primary" \notin crossed' => NoNewExamples
  PROVE  RequestOK(q)'
<1>1. RowOK(q)'
  <2>1. q.trick \in DOMAIN tricks =>
          /\ q.trick \in DOMAIN tricks'
          /\ tricks'[q.trick] # None =>
               tricks[q.trick] # None /\ tricks'[q.trick].division = tricks[q.trick].division
    BY DEF KeepsTricks
  <2>2. q.segment \in DOMAIN segments =>
          /\ q.segment \in DOMAIN segments'
          /\ segments'[q.segment] # None =>
               /\ segments[q.segment] # None
               /\ segments'[q.segment].trick = segments[q.segment].trick
               /\ segments'[q.segment].video = segments[q.segment].video
    BY DEF KeepsSegments
  <2>3. RowOK(q)
    BY DEF RequestOK
  <2>4. (q.op = "create" => q.trick = None)
          /\ (NamesTrick(q) => q.name \in Names /\ q.division \in Divisions)
    BY <2>3 DEF RowOK
  <2>5. q.op = "rename" => /\ q.trick \in DOMAIN tricks'
                           /\ tricks'[q.trick] # None => tricks'[q.trick].division = q.division
    BY <2>1, <2>3 DEF RowOK
  <2>6. q.op = "add" =>
          /\ q.new \in Segments /\ q.new.trick = q.trick
          /\ ValidWindow(q.new.video, q.new.start, q.new.end)
          /\ q.trick # None =>
               /\ q.trick \in DOMAIN tricks'
               /\ tricks'[q.trick] # None =>
                    tricks'[q.trick].division = Videos[q.new.video].division
    BY <2>1, <2>3 DEF RowOK
  <2>7. q.op = "change" =>
          /\ q.changes \in [start : Nat \cup {None}, end : Nat \cup {None},
                            primary : BOOLEAN \cup {None}]
          /\ q.segment \in DOMAIN segments'
          /\ segments'[q.segment] # None =>
               /\ segments'[q.segment].trick = q.trick
               /\ q.changes.end # None /\ Videos[segments'[q.segment].video].duration # None
                    => q.changes.end <= Videos[segments'[q.segment].video].duration
    BY <2>2, <2>3 DEF RowOK
  <2>8. QED
    BY <2>4, <2>5, <2>6, <2>7 DEF RowOK
<1>2. NameFree(q)'
  <2>1. SUFFICES ASSUME NamesTrick(q), "name" \notin crossed'
                 PROVE  SameName(q.division, q.name, q.trick)' = {}
    BY DEF NameFree
  <2>2. SameName(q.division, q.name, q.trick) = {}
    BY <2>1 DEF RequestOK, NameFree
  <2>3. SameName(q.division, q.name, q.trick)' \subseteq SameName(q.division, q.name, q.trick)
    BY <2>1 DEF NoNewNames, SameName, Tricks
  <2>4. QED
    BY <2>2, <2>3
<1>3. KnowsExamples(q)'
  <2>1. SUFFICES ASSUME MakesPrimary(q), "primary" \notin crossed'
                 PROVE  /\ Examples(q.trick)' \subseteq q.seen
                        /\ q.ready => Examples(q.trick)' \subseteq q.cleared
    BY DEF KnowsExamples
  <2>2. /\ Examples(q.trick) \subseteq q.seen
        /\ q.ready => Examples(q.trick) \subseteq q.cleared
    BY <2>1 DEF RequestOK, KnowsExamples
  <2>3. Examples(q.trick)' \subseteq Examples(q.trick)
    BY <2>1 DEF NoNewExamples, KeepsSegments, Examples
  <2>4. QED
    BY <2>2, <2>3
<1>4. QED
  BY <1>1, <1>2, <1>3 DEF RequestOK

LEMMA CrossingIsMutual ==
  ASSUME NEW p, NEW q
  PROVE  Crossing(p, q) = Crossing(q, p)
BY DEF Crossing

\* The other requests, when one ends or a row goes.
LEMMA OthersStay ==
  ASSUME IInv, KeepsTricks, KeepsSegments, crossed' = crossed,
         \A p \in InFlight' :
           /\ p \in InFlight /\ requests'[p] = requests[p]
           /\ NamesTrick(requests[p]) /\ "name" \notin crossed => NoNewNames
           /\ MakesPrimary(requests[p]) /\ "primary" \notin crossed => NoNewExamples
  PROVE  (\A p \in InFlight : RequestOK(requests[p]))' /\ CrossingsSeen'
<1>1. ASSUME NEW p \in InFlight'
      PROVE  RequestOK(requests[p])'
  <2>1. PICK q : q = requests[p]
    OBVIOUS
  <2>2. q = requests'[p] /\ RequestOK(q)
    BY <2>1 DEF IInv
  <2>3. RequestOK(q)'
    BY <2>1, <2>2, RequestStays
  <2>4. QED
    BY <2>2, <2>3
<1>2. CrossingsSeen'
  <2>1. SUFFICES ASSUME NEW p \in InFlight', NEW r \in InFlight', p # r
                 PROVE  Crossing(requests'[p], requests'[r]) \subseteq crossed'
    BY DEF CrossingsSeen, Crossing, NamesTrick, MakesPrimary
  <2>2. Crossing(requests[p], requests[r]) \subseteq crossed
    BY <2>1 DEF IInv, CrossingsSeen
  <2>3. QED
    BY <2>1, <2>2
<1>3. QED
  BY <1>1, <1>2

\* Tables that stay as they are stay sound.
LEMMA SameTables ==
  ASSUME IInv, UNCHANGED <<tricks, segments>>, crossed \subseteq crossed'
  PROVE  /\ KeepsTricks /\ KeepsSegments /\ NoNewNames /\ NoNewExamples
         /\ (NamesAreUnique /\ SpellingsAreUnique /\ AtMostOnePrimary /\ SegmentsFit)'
<1>1. KeepsTricks /\ KeepsSegments /\ NoNewNames /\ NoNewExamples
  BY DEF KeepsTricks, KeepsSegments, NoNewNames, NoNewExamples
<1>2. Tricks' = Tricks /\ \A t : Examples(t)' = Examples(t)
  BY DEF Tricks, Examples
<1>3. NamesAreUnique' /\ SpellingsAreUnique'
  BY <1>2 DEF IInv, NamesAreUnique, SpellingsAreUnique
<1>4. AtMostOnePrimary'
  BY <1>2 DEF IInv, AtMostOnePrimary
<1>5. SegmentsFit'
  BY <1>2 DEF IInv, SegmentsFit, ValidWindow
<1>6. QED
  BY <1>1, <1>3, <1>4, <1>5

\* Fewer tricks have no more names in common.
LEMMA FewerNames ==
  ASSUME IInv, NoNewNames, crossed' = crossed
  PROVE  NamesAreUnique' /\ SpellingsAreUnique'
<1>1. Tricks' \subseteq Tricks /\ \A t \in Tricks' : tricks'[t] = tricks[t]
  BY DEF NoNewNames, Tricks
<1>2. QED
  BY <1>1 DEF IInv, NamesAreUnique, SpellingsAreUnique

-----------------------------------------------------------------------------
(* The steps that leave the tables alone.                                  *)

LEMMA InvariantInit ==
  ASSUME ConstantsOK, \A s \in Stores : StoreOK(s), Init
  PROVE  IInv
<1>1. PICK s \in Stores : tricks = s.tricks /\ segments = s.segments
  BY DEF Init
<1>2. StoreOK(s)
  BY <1>1
<1>3. TypeOK
  <2>1. tricks \in Seq(TrickRow \cup {None}) /\ segments \in Seq(Segments \cup {None})
    BY <1>1, <1>2 DEF StoreOK
  <2>2. served \in 0 .. MaxServed
    BY DEF Init, ConstantsOK
  <2>3. QED
    BY <2>1, <2>2 DEF Init, TypeOK, TrickRow
<1>4. InFlight = {}
  BY DEF Init, InFlight
<1>5. NamesAreUnique /\ SpellingsAreUnique
  BY <1>1, <1>2 DEF StoreOK, NamesAreUnique, SpellingsAreUnique, Tricks
<1>6. AtMostOnePrimary
  BY <1>1, <1>2 DEF StoreOK, AtMostOnePrimary, Tricks, Examples
<1>7. SegmentsFit
  BY <1>1, <1>2 DEF StoreOK, Fits, SegmentsFit, Tricks
<1>8. QED
  BY <1>3, <1>4, <1>5, <1>6, <1>7 DEF IInv, CrossingsSeen

\* A request that begins knows what it has read.
LEMMA BeginKeeps ==
  ASSUME ConstantsOK, IInv, NEW r \in Requests, NEW q, Begin(r, q),
         UNCHANGED <<tricks, segments>>,
         q.op \in {"create", "rename", "add", "change"}, RequestOK(q)'
  PROVE  IInv'
<1>1. /\ requests[r] = None /\ DOMAIN requests = Requests
      /\ requests' = [requests EXCEPT ![r] = q]
      /\ crossed \subseteq crossed'
      /\ \A p \in InFlight : Crossing(requests[p], q) \subseteq crossed'
  BY DEF IInv, TypeOK, Begin, Free, InFlight
<1>2. /\ \A p \in InFlight' : p = r \/ p \in InFlight
      /\ \A p \in InFlight : p # r /\ requests'[p] = requests[p]
      /\ requests'[r] = q
  BY <1>1 DEF InFlight
<1>3. TypeOK'
  <2>1. served' \in 0 .. MaxServed
    BY DEF IInv, TypeOK, Begin, Served, ConstantsOK
  <2>2. crossed' \subseteq {"name", "primary"}
    BY DEF IInv, TypeOK, Begin, Crossing
  <2>3. DOMAIN requests' = Requests
    BY <1>1
  <2>4. \A p \in Requests : requests'[p] # None =>
          requests'[p].op \in {"create", "rename", "add", "change"}
    BY <1>1 DEF IInv, TypeOK
  <2>5. QED
    BY <2>1, <2>2, <2>3, <2>4 DEF IInv, TypeOK
<1>4. ASSUME NEW p \in InFlight'
      PROVE  RequestOK(requests[p])'
  <2>1. CASE p = r
    BY <1>2, <2>1
  <2>2. CASE p # r
    <3>1. PICK x : x = requests[p]
      OBVIOUS
    <3>2. x = requests'[p] /\ RequestOK(x)
      BY <1>2, <2>2, <3>1 DEF IInv
    <3>3. RequestOK(x)'
      BY <1>1, <3>2, RequestStays, SameTables
    <3>4. QED
      BY <3>2, <3>3
  <2>3. QED
    BY <2>1, <2>2
<1>5. CrossingsSeen'
  <2>1. SUFFICES ASSUME NEW p \in InFlight', NEW x \in InFlight', p # x
                 PROVE  Crossing(requests'[p], requests'[x]) \subseteq crossed'
    BY DEF CrossingsSeen, Crossing, NamesTrick, MakesPrimary
  <2>2. CASE p = r
    <3>1. Crossing(requests[x], q) \subseteq crossed' /\ requests'[x] = requests[x]
      BY <1>1, <1>2, <2>1, <2>2
    <3>2. QED
      BY <1>2, <2>2, <3>1, CrossingIsMutual
  <2>3. CASE x = r
    BY <1>1, <1>2, <2>1, <2>3
  <2>4. CASE p # r /\ x # r
    <3>1. Crossing(requests[p], requests[x]) \subseteq crossed
      BY <1>2, <2>1, <2>4 DEF IInv, CrossingsSeen
    <3>2. QED
      BY <1>1, <1>2, <2>1, <2>4, <3>1
  <2>5. QED
    BY <2>2, <2>3, <2>4
<1>6. QED
  BY <1>1, <1>3, <1>4, <1>5, SameTables DEF IInv

LEMMA BeginCreateKeeps ==
  ASSUME ConstantsOK, IInv, NEW r \in Requests, NEW n \in Names, NEW d \in Divisions,
         BeginCreate(r, n, d)
  PROVE  IInv'
<1> DEFINE q == [Asked("create") EXCEPT !.name = n, !.division = d]
<1>1. Begin(r, q) /\ UNCHANGED <<tricks, segments>>
  BY DEF BeginCreate
<1>2. /\ DOMAIN q = Fields /\ q.op = "create" /\ q.trick = None
      /\ q.name = n /\ q.division = d
  BY DEF Asked, Fields
<1> HIDE DEF q
<1>3. SameName(d, n, None)' = {}
  BY <1>1 DEF BeginCreate, SameName, Tricks
<1>4. RequestOK(q)'
  BY <1>2, <1>3 DEF RequestOK, RowOK, NameFree, KnowsExamples, MakesPrimary, NamesTrick
<1>5. QED
  BY <1>1, <1>2, <1>4, BeginKeeps

LEMMA BeginRenameKeeps ==
  ASSUME ConstantsOK, IInv, NEW r \in Requests, NEW t \in DOMAIN tricks, NEW n \in Names,
         BeginRename(r, t, n)
  PROVE  IInv'
<1> DEFINE q == [Asked("rename") EXCEPT !.trick = t, !.name = n, !.division = tricks[t].division]
<1>1. Begin(r, q) /\ UNCHANGED <<tricks, segments>>
  BY DEF BeginRename
<1>2. /\ DOMAIN q = Fields /\ q.op = "rename" /\ q.trick = t
      /\ q.name = n /\ q.division = tricks[t].division
  BY DEF Asked, Fields
<1> HIDE DEF q
<1>3. SameName(tricks[t].division, n, t)' = {}
  BY <1>1 DEF BeginRename, SameName, Tricks
<1>4. tricks[t].division \in Divisions
  BY Tables DEF IInv, BeginRename, Tricks, TrickRow
<1>5. PICK x : x = q
  OBVIOUS
<1>6. RequestOK(x)'
  <2>1. RowOK(x)'
    BY <1>1, <1>2, <1>4, <1>5 DEF RowOK, NamesTrick
  <2>2. NameFree(x)'
    BY <1>1, <1>2, <1>3, <1>5 DEF NameFree
  <2>3. KnowsExamples(x)'
    BY <1>2, <1>5 DEF KnowsExamples, MakesPrimary
  <2>4. QED
    BY <1>2, <1>5, <2>1, <2>2, <2>3 DEF RequestOK
<1>7. QED
  BY <1>1, <1>2, <1>5, <1>6, BeginKeeps

LEMMA BeginAddKeeps ==
  ASSUME ConstantsOK, IInv, NEW r \in Requests, NEW t \in DOMAIN tricks \cup {None},
         NEW v \in DOMAIN Videos, NEW w \in Windows, NEW primary \in BOOLEAN,
         BeginAdd(r, t, v, w, primary)
  PROVE  IInv'
<1> DEFINE s == [trick |-> t, video |-> v, start |-> w[1], end |-> w[2], primary |-> primary]
           q == [Asked("add") EXCEPT !.trick = t, !.ready = ~primary,
                   !.seen = IF primary THEN Examples(t) ELSE {}, !.new = s]
<1>1. /\ Begin(r, q) /\ UNCHANGED <<tricks, segments>>
      /\ ValidWindow(v, w[1], w[2])
      /\ t # None => t \in Tricks /\ Videos[v].division = tricks[t].division
  BY DEF BeginAdd
<1>2. /\ DOMAIN q = Fields /\ q.op = "add" /\ q.trick = t /\ q.new = s
      /\ q.ready = ~primary /\ q.seen = IF primary THEN Examples(t) ELSE {}
  BY DEF Asked, Fields
<1>3. s \in Segments /\ s.trick = t /\ s.video = v /\ s.start = w[1] /\ s.end = w[2]
  <2>1. t \in Nat \cup {None}
    BY Tables DEF IInv
  <2>2. w[1] \in Nat /\ w[2] \in Nat
    BY DEF ConstantsOK
  <2>3. QED
    BY <2>1, <2>2 DEF Segments
<1>4. s.primary = primary
  OBVIOUS
<1> HIDE DEF q, s
<1>5. PICK x : x = q
  OBVIOUS
<1>6. RequestOK(x)'
  <2>1. RowOK(x)'
    BY <1>1, <1>2, <1>3, <1>5, Tables DEF IInv, RowOK, NamesTrick, Tricks
  <2>2. NameFree(x)'
    BY <1>2, <1>5 DEF NameFree, NamesTrick
  <2>3. KnowsExamples(x)'
    <3>1. MakesPrimary(x) => primary
      BY <1>2, <1>4, <1>5 DEF MakesPrimary
    <3>2. Examples(t)' = Examples(t)
      BY <1>1 DEF Examples
    <3>3. QED
      BY <1>2, <1>5, <3>1, <3>2 DEF KnowsExamples
  <2>4. QED
    BY <1>2, <1>5, <2>1, <2>2, <2>3 DEF RequestOK
<1>7. QED
  BY <1>1, <1>2, <1>5, <1>6, BeginKeeps

LEMMA BeginChangeKeeps ==
  ASSUME ConstantsOK, IInv, NEW r \in Requests, NEW e \in DOMAIN segments, NEW c \in Changes,
         BeginChange(r, e, c)
  PROVE  IInv'
<1> DEFINE row == segments[e]
           Field(new, old) == IF new = old THEN None ELSE new
           changes == [start |-> Field(c.start, row.start), end |-> Field(c.end, row.end),
                       primary |-> IF c.primary = TRUE THEN TRUE ELSE Field(c.primary, row.primary)]
           q == [Asked("change") EXCEPT !.trick = row.trick, !.segment = e, !.changes = changes,
                   !.seen = IF c.primary = TRUE THEN Examples(row.trick) ELSE {},
                   !.ready = c.primary # TRUE]
<1>1. /\ Begin(r, q) /\ UNCHANGED <<tricks, segments>> /\ row # None
      /\ ValidWindow(row.video, Given(c.start, row.start), Given(c.end, row.end))
  BY DEF BeginChange
<1>2. /\ DOMAIN q = Fields /\ q.op = "change" /\ q.trick = row.trick /\ q.segment = e
      /\ q.changes = changes /\ q.ready = (c.primary # TRUE)
      /\ q.seen = IF c.primary = TRUE THEN Examples(row.trick) ELSE {}
  BY DEF Asked, Fields
<1>3. /\ c.start \in Nat \cup {None} /\ c.end \in Nat \cup {None}
      /\ c.primary \in BOOLEAN \cup {None}
  <2>1. \A w \in Windows : w[1] \in Nat /\ w[2] \in Nat
    BY DEF ConstantsOK
  <2>2. QED
    BY <2>1 DEF Changes
<1>4. /\ changes \in [start : Nat \cup {None}, end : Nat \cup {None}, primary : BOOLEAN \cup {None}]
      /\ changes.end \in {None, c.end}
  BY <1>3
<1>5. changes.primary = TRUE => c.primary = TRUE
  <2>1. changes.primary = IF c.primary = TRUE THEN TRUE
                          ELSE IF c.primary = row.primary THEN None ELSE c.primary
    BY Zenon
  <2>2. None # TRUE
    BY DEF ConstantsOK
  <2> HIDE DEF changes
  <2>3. QED
    BY <2>1, <2>2, Zenon
<1> HIDE DEF q, changes
<1>6. PICK x : x = q
  OBVIOUS
<1>7. RequestOK(x)'
  <2>1. changes.end # None /\ Videos[row.video].duration # None
          => changes.end <= Videos[row.video].duration
    BY <1>1, <1>4 DEF ValidWindow, Given
  <2>2. RowOK(x)'
    BY <1>1, <1>2, <1>4, <1>6, <2>1 DEF RowOK, NamesTrick
  <2>3. NameFree(x)'
    BY <1>2, <1>6 DEF NameFree, NamesTrick
  <2>4. KnowsExamples(x)'
    <3>1. MakesPrimary(x) => c.primary = TRUE
      <4>1. x.op # "add"
        BY <1>2, <1>6
      <4>2. x.changes = changes
        BY <1>2, <1>6
      <4>3. QED
        BY <1>5, <4>1, <4>2, Zenon DEF MakesPrimary
    <3>2. Examples(x.trick)' = Examples(x.trick)
      BY <1>1 DEF Examples
    <3>3. c.primary = TRUE => x.seen = Examples(x.trick)' /\ ~ x.ready
      <4>1. x.trick = row.trick /\ x.ready = (c.primary # TRUE)
            /\ x.seen = IF c.primary = TRUE THEN Examples(row.trick) ELSE {}
        BY <1>2, <1>6
      <4>2. SUFFICES ASSUME c.primary = TRUE
                     PROVE  x.seen = Examples(x.trick)' /\ ~ x.ready
        OBVIOUS
      <4>3. x.seen = Examples(x.trick) /\ x.ready = FALSE
        BY <4>1, <4>2, Zenon
      <4>4. QED
        BY <3>2, <4>1, <4>3
    <3>4. QED
      BY <3>1, <3>3 DEF KnowsExamples
  <2>5. QED
    BY <1>2, <1>6, <2>2, <2>3, <2>4 DEF RequestOK
<1>8. QED
  BY <1>1, <1>2, <1>6, <1>7, BeginKeeps

\* The bulk UPDATE reaches every example it saw.
LEMMA ClearPrimaryKeeps ==
  ASSUME ConstantsOK, IInv, NEW r \in Requests, ClearPrimary(r)
  PROVE  IInv'
<1> DEFINE q == requests[r]
           gone == {e \in q.seen : segments[e] # None}
           x == [q EXCEPT !.ready = TRUE, !.cleared = gone]
<1>1. /\ r \in InFlight /\ ~ q.ready
      /\ UNCHANGED <<tricks, segments, served, crossed>>
  BY DEF ClearPrimary, InFlight
<1>2. DOMAIN requests = Requests /\ RequestOK(q) /\ DOMAIN q = Fields
  BY <1>1 DEF IInv, TypeOK, RequestOK
<1>3. requests' = [requests EXCEPT ![r] = x]
  BY <1>2 DEF ClearPrimary
<1>4. /\ DOMAIN x = Fields /\ x.ready = TRUE /\ x.cleared = gone
      /\ x.op = q.op /\ x.trick = q.trick /\ x.name = q.name /\ x.division = q.division
      /\ x.segment = q.segment /\ x.new = q.new /\ x.changes = q.changes /\ x.seen = q.seen
  BY <1>2 DEF Fields
<1> HIDE DEF x
<1>5. PICK y, old : y = x /\ old = q
  OBVIOUS
<1>6. RequestOK(y)'
  <2>1. RowOK(y)'
    <3>1. RowOK(old)
      BY <1>2, <1>5 DEF RequestOK
    <3>2. y.op = old.op /\ y.trick = old.trick /\ y.name = old.name /\ y.division = old.division
            /\ y.segment = old.segment /\ y.new = old.new /\ y.changes = old.changes
      BY <1>4, <1>5
    <3> HIDE DEF q
    <3>3. QED
      BY ONLY <1>1, <3>1, <3>2 DEF RowOK, NamesTrick
  <2>2. NameFree(y)'
    BY <1>1, <1>2, <1>4, <1>5 DEF RequestOK, NameFree, NamesTrick, SameName, Tricks
  <2>3. MakesPrimary(y) <=> MakesPrimary(q)
    BY <1>4, <1>5, Zenon DEF MakesPrimary
  <2>4. KnowsExamples(y)'
    <3>1. SUFFICES ASSUME MakesPrimary(q), "primary" \notin crossed
                   PROVE  Examples(q.trick) \subseteq q.seen /\ Examples(q.trick) \subseteq gone
      BY <1>1, <1>4, <1>5, <2>3 DEF KnowsExamples, Examples
    <3>2. Examples(q.trick) \subseteq q.seen
      BY <1>2, <3>1 DEF RequestOK, KnowsExamples
    <3>3. QED
      BY <3>2 DEF Examples
  <2>5. QED
    BY <1>4, <1>5, <2>1, <2>2, <2>4 DEF RequestOK
<1>7. \A p \in InFlight' :
        p \in InFlight /\ p \in Requests /\ requests'[p] = IF p = r THEN x ELSE requests[p]
  BY <1>1, <1>2, <1>3 DEF InFlight
<1>8. ASSUME NEW p \in InFlight'
      PROVE  RequestOK(requests[p])'
  <2>1. CASE p = r
    BY <1>5, <1>6, <1>7, <2>1
  <2>2. CASE p # r
    <3>1. PICK z : z = requests[p]
      OBVIOUS
    <3>2. z = requests'[p] /\ RequestOK(z)
      BY <1>7, <2>2, <3>1 DEF IInv
    <3>3. RequestOK(z)'
      BY <1>1, <3>2, RequestStays, SameTables
    <3>4. QED
      BY <3>2, <3>3
  <2>3. QED
    BY <2>1, <2>2
<1>9. CrossingsSeen'
  <2>1. SUFFICES ASSUME NEW p \in InFlight', NEW z \in InFlight', p # z
                 PROVE  Crossing(requests'[p], requests'[z]) \subseteq crossed'
    BY DEF CrossingsSeen, Crossing, NamesTrick, MakesPrimary
  <2>2. Crossing(requests[p], requests[z]) \subseteq crossed
    BY <1>7, <2>1 DEF IInv, CrossingsSeen
  <2>3. \A k : Crossing(x, k) = Crossing(q, k) /\ Crossing(k, x) = Crossing(k, q)
    BY <1>4 DEF Crossing, NamesTrick, MakesPrimary
  <2>4. QED
    BY <1>1, <1>7, <2>1, <2>2, <2>3
<1>10. TypeOK'
  <2>1. x.op \in {"create", "rename", "add", "change"}
    BY <1>1, <1>4 DEF IInv, TypeOK, InFlight
  <2>2. DOMAIN requests' = Requests
    BY <1>2, <1>3
  <2>3. \A p \in Requests : requests'[p] # None =>
          requests'[p].op \in {"create", "rename", "add", "change"}
    BY <1>2, <1>3, <2>1 DEF IInv, TypeOK
  <2>4. QED
    BY <1>1, <2>2, <2>3 DEF IInv, TypeOK
<1>11. QED
  BY <1>1, <1>8, <1>9, <1>10, SameTables DEF IInv

-----------------------------------------------------------------------------
(* The steps that write the tables.                                        *)

\* A request that ends leaves the others as they are, and it has crossed them.
LEMMA Ends ==
  ASSUME IInv, NEW r \in InFlight, End(r)
  PROVE  /\ crossed' = crossed /\ served' = served /\ DOMAIN requests' = Requests
         /\ \A p \in Requests : requests'[p] # None =>
              requests'[p].op \in {"create", "rename", "add", "change"}
         /\ \A p \in InFlight' : /\ p \in InFlight /\ requests'[p] = requests[p]
                                 /\ Crossing(requests[r], requests[p]) \subseteq crossed
<1>1. /\ DOMAIN requests = Requests /\ requests' = [requests EXCEPT ![r] = None]
      /\ crossed' = crossed /\ served' = served
  BY DEF IInv, TypeOK, End
<1>2. \A p \in InFlight' : p \in InFlight /\ p # r /\ requests'[p] = requests[p]
  BY <1>1 DEF InFlight
<1>3. \A p \in Requests : requests'[p] # None =>
          requests'[p].op \in {"create", "rename", "add", "change"}
  BY <1>1 DEF IInv, TypeOK
<1>4. DOMAIN requests' = Requests
  BY <1>1
<1>5. QED
  BY <1>1, <1>2, <1>3, <1>4 DEF IInv, CrossingsSeen

LEMMA FailsKeeps ==
  ASSUME IInv, NEW r \in InFlight, Fails(r)
  PROVE  IInv'
<1>1. End(r) /\ UNCHANGED <<tricks, segments>>
  BY DEF Fails
<1>2. (\A p \in InFlight : RequestOK(requests[p]))' /\ CrossingsSeen'
  BY <1>1, Ends, OthersStay, SameTables
<1>3. TypeOK'
  BY <1>1, Ends DEF IInv, TypeOK
<1>4. QED
  BY <1>1, <1>2, <1>3, Ends, SameTables DEF IInv

\* A row that goes takes nothing else with it than the examples of a trick.
LEMMA RowsGo ==
  ASSUME ConstantsOK, IInv, Served, UNCHANGED <<requests, crossed>>,
         NoNewNames, NoNewExamples,
         \A e \in DOMAIN segments : segments'[e] # None => segments'[e] = segments[e],
         \A e \in DOMAIN segments' :
           segments'[e] # None /\ segments'[e].trick # None => segments'[e].trick \in Tricks',
         tricks' \in Seq(TrickRow \cup {None}), segments' \in Seq(Segments \cup {None})
  PROVE  IInv'
<1>1. KeepsTricks /\ KeepsSegments
  BY DEF KeepsTricks, KeepsSegments, NoNewNames, NoNewExamples
<1>2. InFlight' = InFlight
  BY DEF InFlight
<1>3. (\A p \in InFlight : RequestOK(requests[p]))' /\ CrossingsSeen'
  BY <1>1, <1>2, OthersStay
<1>4. TypeOK'
  <2>1. served' \in 0 .. MaxServed
    BY DEF IInv, TypeOK, Served, ConstantsOK
  <2>2. QED
    BY <2>1 DEF IInv, TypeOK, TrickRow
<1>5. /\ \A t \in Tricks' : t \in Tricks /\ tricks'[t] = tricks[t]
      /\ \A t : Examples(t)' \subseteq Examples(t)
      /\ \A t : \A e \in Examples(t)' : segments'[e] = segments[e]
  BY DEF Tricks, Examples, NoNewNames, NoNewExamples
<1>6. AtMostOnePrimary'
  BY <1>5 DEF IInv, AtMostOnePrimary
<1>7. SegmentsFit'
  <2>1. SUFFICES ASSUME NEW e \in DOMAIN segments', segments'[e] # None
                 PROVE  /\ ValidWindow(segments'[e].video, segments'[e].start, segments'[e].end)
                        /\ segments'[e].trick # None =>
                             /\ segments'[e].trick \in Tricks'
                             /\ tricks'[segments'[e].trick].division
                                  = Videos[segments'[e].video].division
    BY DEF SegmentsFit, ValidWindow
  <2>2. e \in DOMAIN segments /\ segments[e] # None /\ segments'[e] = segments[e]
    BY <2>1 DEF NoNewExamples
  <2>3. QED
    BY <1>5, <2>1, <2>2 DEF IInv, SegmentsFit
<1>8. QED
  BY <1>3, <1>4, <1>6, <1>7, FewerNames DEF IInv

LEMMA DeleteTrickKeeps ==
  ASSUME ConstantsOK, IInv, NEW t \in DOMAIN tricks, DeleteTrick(t)
  PROVE  IInv'
<1>1. /\ Served /\ t \in Tricks /\ UNCHANGED <<requests, crossed>>
      /\ tricks' = [tricks EXCEPT ![t] = None]
      /\ segments' = [e \in DOMAIN segments |-> IF e \in Examples(t) THEN None ELSE segments[e]]
  BY DEF DeleteTrick
<1>2. NoNewNames /\ NoNewExamples
  BY <1>1 DEF NoNewNames, NoNewExamples
<1>3. \A e \in DOMAIN segments : segments'[e] # None => segments'[e] = segments[e] /\ e \notin Examples(t)
  BY <1>1
<1>4. ASSUME NEW e \in DOMAIN segments', segments'[e] # None, segments'[e].trick # None
      PROVE  segments'[e].trick \in Tricks'
  <2>1. e \in DOMAIN segments /\ segments'[e] = segments[e] /\ segments[e].trick # t
    BY <1>2, <1>3, <1>4 DEF NoNewExamples, Examples
  <2>2. segments[e].trick \in Tricks
    BY <1>4, <2>1 DEF IInv, SegmentsFit
  <2>3. QED
    BY <1>1, <2>1, <2>2 DEF Tricks
<1>5. tricks' \in Seq(TrickRow \cup {None}) /\ segments' \in Seq(Segments \cup {None})
  <2>1. tricks \in Seq(TrickRow \cup {None})
    BY DEF IInv, TypeOK, TrickRow
  <2>2. tricks' \in Seq(TrickRow \cup {None})
    BY <1>1, <2>1, ExceptSeq
  <2>3. PICK n \in Nat : n = Len(segments)
    BY Tables DEF IInv
  <2>4. segments' \in [1 .. n -> Segments \cup {None}]
    BY <1>1, <2>3, Tables DEF IInv
  <2>5. QED
    BY <2>2, <2>4 DEF Seq
<1>6. QED
  BY <1>1, <1>2, <1>3, <1>4, <1>5, RowsGo

LEMMA DeleteSegmentKeeps ==
  ASSUME ConstantsOK, IInv, NEW e \in DOMAIN segments, DeleteSegment(e)
  PROVE  IInv'
<1>1. /\ Served /\ UNCHANGED <<tricks, requests, crossed>>
      /\ segments' = [segments EXCEPT ![e] = None]
  BY DEF DeleteSegment
<1>2. NoNewNames /\ NoNewExamples
  BY <1>1 DEF NoNewNames, NoNewExamples
<1>3. \A f \in DOMAIN segments : segments'[f] # None => segments'[f] = segments[f]
  BY <1>1
<1>4. Tricks' = Tricks
  BY <1>1 DEF Tricks
<1>5. \A f \in DOMAIN segments' :
        segments'[f] # None /\ segments'[f].trick # None => segments'[f].trick \in Tricks'
  BY <1>2, <1>3, <1>4 DEF IInv, SegmentsFit, NoNewExamples
<1>6. segments \in Seq(Segments \cup {None}) /\ tricks \in Seq(TrickRow \cup {None})
  BY DEF IInv, TypeOK, TrickRow
<1>7. segments' \in Seq(Segments \cup {None}) /\ tricks' \in Seq(TrickRow \cup {None})
  BY <1>1, <1>6, ExceptSeq
<1>8. QED
  BY <1>1, <1>2, <1>3, <1>5, <1>7, RowsGo

\* Names that were unique stay so when one row takes a name nobody has.
LEMMA NameTaken ==
  ASSUME IInv, NEW t, NEW name, NEW division, KeepsTricks, crossed' = crossed,
         t \in DOMAIN tricks', tricks'[t] # None,
         tricks'[t].name = name, tricks'[t].division = division,
         \A u \in DOMAIN tricks' : u # t /\ tricks'[u] # None =>
             u \in DOMAIN tricks /\ tricks'[u] = tricks[u],
         \A u \in Tricks : u # t => tricks[u].division # division \/ tricks[u].name # name,
         "name" \notin crossed =>
           \A u \in Tricks : u # t /\ tricks[u].division = division => tricks[u].name.key # name.key
  PROVE  NamesAreUnique' /\ SpellingsAreUnique'
<1>1. \A u \in Tricks' : u # t => u \in Tricks /\ tricks'[u] = tricks[u]
  BY DEF Tricks
<1>2. SpellingsAreUnique'
  <2>1. SUFFICES ASSUME NEW a \in Tricks', NEW b \in Tricks', a # b,
                        tricks'[a].division = tricks'[b].division
                 PROVE  tricks'[a].name # tricks'[b].name
    BY DEF SpellingsAreUnique
  <2>2. CASE a = t
    BY <1>1, <2>1, <2>2
  <2>3. CASE b = t
    BY <1>1, <2>1, <2>3
  <2>4. CASE a # t /\ b # t
    BY <1>1, <2>1, <2>4 DEF IInv, SpellingsAreUnique
  <2>5. QED
    BY <2>2, <2>3, <2>4
<1>3. NamesAreUnique'
  <2>1. SUFFICES ASSUME "name" \notin crossed, NEW a \in Tricks', NEW b \in Tricks', a # b,
                        tricks'[a].division = tricks'[b].division
                 PROVE  tricks'[a].name.key # tricks'[b].name.key
    BY DEF NamesAreUnique
  <2>2. CASE a = t
    BY <1>1, <2>1, <2>2
  <2>3. CASE b = t
    BY <1>1, <2>1, <2>3
  <2>4. CASE a # t /\ b # t
    BY <1>1, <2>1, <2>4 DEF IInv, NamesAreUnique
  <2>5. QED
    BY <2>2, <2>3, <2>4
<1>4. QED
  BY <1>2, <1>3

LEMMA CommitNameKeeps ==
  ASSUME ConstantsOK, IInv, NEW r \in Requests, CommitName(r)
  PROVE  IInv'
<1> DEFINE q == requests[r]
<1>1. r \in InFlight /\ q.op \in {"create", "rename"}
  BY DEF CommitName, InFlight
<1>2. /\ RequestOK(q) /\ RowOK(q) /\ NameFree(q)
      /\ NamesTrick(q) /\ q.name \in Names /\ q.division \in Divisions
  BY <1>1 DEF IInv, RequestOK, RowOK, NamesTrick
<1>3. CASE Fails(r)
  BY <1>1, <1>3, FailsKeeps
<1>4. CASE ~ Fails(r)
  <2> DEFINE t == IF q.op = "create" THEN Len(tricks) + 1 ELSE q.trick
  <2>1. /\ UniqueName(q.division, q.name, q.trick) /\ (q.op = "rename" => q.trick \in Tricks)
        /\ UNCHANGED segments /\ End(r)
        /\ tricks' = IF q.op = "create"
                     THEN Append(tricks, [name |-> q.name, division |-> q.division])
                     ELSE [tricks EXCEPT ![q.trick].name = q.name]
    BY <1>4 DEF CommitName
  <2>2. tricks \in Seq(TrickRow \cup {None}) /\ Len(tricks) \in Nat
          /\ DOMAIN tricks = 1 .. Len(tricks)
    BY Tables DEF IInv, TypeOK, TrickRow
  <2>3. /\ tricks' \in Seq(TrickRow \cup {None})
        /\ DOMAIN tricks \subseteq DOMAIN tricks'
        /\ t \in DOMAIN tricks' /\ tricks'[t] \in TrickRow
        /\ tricks'[t].name = q.name /\ tricks'[t].division = q.division
        /\ \A u \in DOMAIN tricks' : u # t => u \in DOMAIN tricks /\ tricks'[u] = tricks[u]
    <3>1. CASE q.op = "create"
      <4> DEFINE new == [name |-> q.name, division |-> q.division]
      <4>1. new \in TrickRow /\ new.name = q.name /\ new.division = q.division
        BY <1>2 DEF TrickRow
      <4>2. t = Len(tricks) + 1 /\ tricks' = Append(tricks, new)
        BY <2>1, <3>1
      <4> HIDE DEF new, t
      <4>3. /\ tricks' \in Seq(TrickRow \cup {None}) /\ DOMAIN tricks' = 1 .. (Len(tricks) + 1)
            /\ \A u \in 1 .. Len(tricks) : tricks'[u] = tricks[u]
            /\ tricks'[Len(tricks) + 1] = new
        BY <2>2, <4>1, <4>2, AppendProperties, LenProperties
      <4>4. QED
        BY <2>2, <4>1, <4>2, <4>3
    <3>2. CASE q.op = "rename"
      <4>1. t = q.trick /\ t \in DOMAIN tricks /\ tricks[t] # None /\ t \in 1 .. Len(tricks)
        BY <2>1, <2>2, <3>2 DEF Tricks
      <4>2. tricks[t] \in TrickRow /\ tricks[t].division = q.division
        BY <1>2, <3>2, <4>1, Tables DEF IInv, RowOK
      <4> DEFINE new == [tricks[t] EXCEPT !.name = q.name]
      <4>3. new \in TrickRow /\ new.name = q.name /\ new.division = q.division
        BY <1>2, <4>2 DEF TrickRow
      <4>4. tricks' = [tricks EXCEPT ![t] = new]
        BY <2>1, <3>2, <4>1
      <4> HIDE DEF new, t
      <4>5. /\ tricks' \in Seq(TrickRow \cup {None}) /\ DOMAIN tricks' = DOMAIN tricks
            /\ tricks'[t] = new
        BY <2>2, <4>1, <4>3, <4>4, ExceptSeq
      <4>6. QED
        BY <4>1, <4>3, <4>4, <4>5
    <3>3. QED
      BY <1>1, <3>1, <3>2
  <2>4. tricks'[t] # None
    BY <2>3 DEF ConstantsOK
  <2>5. t = q.trick \/ (t \notin DOMAIN tricks /\ q.trick = None)
    BY <1>1, <1>2, <2>2 DEF RowOK
  <2>6. None \notin Tricks /\ t # None
    BY <2>2, <2>3, LenProperties DEF ConstantsOK, Tricks
  <2> HIDE DEF t
  <2>7. KeepsTricks
    <3>1. t \in DOMAIN tricks => tricks[t] # None /\ tricks[t].division = q.division
      BY <1>1, <1>2, <2>1, <2>2, <2>5 DEF RowOK, Tricks, t
    <3>2. QED
      BY <2>3, <2>4, <3>1 DEF KeepsTricks
  <2>8. KeepsSegments /\ NoNewExamples
    BY <2>1 DEF KeepsSegments, NoNewExamples
  <2>9. NamesAreUnique' /\ SpellingsAreUnique'
    <3>1. \A u \in Tricks : u # t => u \in Tricks \ {q.trick}
      BY <2>5, <2>6
    <3>2. \A u \in Tricks : u # t => tricks[u].division # q.division \/ tricks[u].name # q.name
      BY <2>1, <3>1 DEF UniqueName
    <3>3. "name" \notin crossed =>
            \A u \in Tricks : u # t /\ tricks[u].division = q.division
                                => tricks[u].name.key # q.name.key
      BY <1>2, <3>1 DEF NameFree, SameName
    <3>4. crossed' = crossed
      BY <1>1, <2>1, Ends
    <3>5. PICK k, n, d : k = t /\ n = q.name /\ d = q.division
      OBVIOUS
    <3> HIDE DEF q
    <3>6. /\ k \in DOMAIN tricks' /\ tricks'[k] # None
          /\ tricks'[k].name = n /\ tricks'[k].division = d
          /\ \A u \in DOMAIN tricks' : u # k /\ tricks'[u] # None =>
               u \in DOMAIN tricks /\ tricks'[u] = tricks[u]
          /\ \A u \in Tricks : u # k => tricks[u].division # d \/ tricks[u].name # n
          /\ "name" \notin crossed =>
               \A u \in Tricks : u # k /\ tricks[u].division = d => tricks[u].name.key # n.key
      BY <2>3, <2>4, <3>2, <3>3, <3>5
    <3>7. QED
      BY <2>7, <3>4, <3>6, NameTaken
  <2>10. (\A p \in InFlight : RequestOK(requests[p]))' /\ CrossingsSeen'
    <3>1. ASSUME NEW p \in InFlight', NamesTrick(requests[p])
          PROVE  "name" \in crossed
      <4>1. Crossing(q, requests[p]) \subseteq crossed
        BY <1>1, <2>1, <3>1, Ends
      <4>2. "name" \in Crossing(q, requests[p])
        BY <1>2, <3>1 DEF Crossing
      <4>3. QED
        BY <4>1, <4>2
    <3>2. \A p \in InFlight' : p \in InFlight /\ requests'[p] = requests[p]
      BY <1>1, <2>1, Ends
    <3>3. QED
      BY <1>1, <2>1, <2>7, <2>8, <3>1, <3>2, Ends, OthersStay
  <2>11. \A u \in Tricks' : u = t \/ u \in Tricks
    BY <2>3 DEF Tricks
  <2>12. ASSUME NEW e \in DOMAIN segments, segments[e] # None, segments[e].trick # None
         PROVE  /\ segments[e].trick \in Tricks /\ segments[e].trick \in Tricks'
                /\ tricks'[segments[e].trick].division = tricks[segments[e].trick].division
    <3>1. segments[e].trick \in Tricks
      BY <2>12 DEF IInv, SegmentsFit
    <3>2. segments[e].trick \in DOMAIN tricks' /\ tricks'[segments[e].trick] # None
      BY <2>3, <2>4, <3>1 DEF Tricks
    <3>3. QED
      BY <2>7, <3>1, <3>2 DEF KeepsTricks, Tricks
  <2>13. SegmentsFit'
    <3>1. SUFFICES ASSUME NEW e \in DOMAIN segments, segments[e] # None
                   PROVE  /\ ValidWindow(segments[e].video, segments[e].start, segments[e].end)
                          /\ segments[e].trick # None =>
                               /\ segments[e].trick \in Tricks'
                               /\ tricks'[segments[e].trick].division
                                    = Videos[segments[e].video].division
      BY <2>1 DEF SegmentsFit, ValidWindow
    <3>2. QED
      BY <2>12, <3>1 DEF IInv, SegmentsFit
  <2>14. AtMostOnePrimary'
    <3>1. SUFFICES ASSUME "primary" \notin crossed, NEW u \in Tricks',
                          NEW e \in Examples(u)', NEW f \in Examples(u)',
                          segments'[e].primary /\ segments'[f].primary
                   PROVE  e = f
      BY <1>1, <2>1, Ends DEF AtMostOnePrimary
    <3>2. e \in Examples(u) /\ f \in Examples(u) /\ segments[e].primary /\ segments[f].primary
      BY <2>1, <3>1 DEF Examples
    <3>3. u # None
      BY <2>6, <2>11
    <3>4. u \in Tricks
      BY <2>12, <3>2, <3>3 DEF Examples
    <3>5. QED
      BY <3>1, <3>2, <3>4 DEF IInv, AtMostOnePrimary
  <2>15. TypeOK'
    BY <1>1, <2>1, <2>3, Ends DEF IInv, TypeOK, TrickRow
  <2>16. QED
    BY <2>9, <2>10, <2>13, <2>14, <2>15 DEF IInv
<1>5. QED
  BY <1>3, <1>4

\* The bulk UPDATE changes nothing but which example is primary.
LEMMA ClearedRows ==
  ASSUME ConstantsOK, IInv, NEW ids
  PROVE  /\ DOMAIN Cleared(ids) = DOMAIN segments
         /\ Cleared(ids) \in Seq(Segments \cup {None})
         /\ \A e \in DOMAIN segments :
              /\ Cleared(ids)[e] # None <=> segments[e] # None
              /\ segments[e] # None =>
                   /\ Cleared(ids)[e] \in Segments
                   /\ Cleared(ids)[e].trick = segments[e].trick
                   /\ Cleared(ids)[e].video = segments[e].video
                   /\ Cleared(ids)[e].start = segments[e].start
                   /\ Cleared(ids)[e].end = segments[e].end
                   /\ Cleared(ids)[e].primary => segments[e].primary /\ e \notin ids
<1> DEFINE base == Cleared(ids)
<1>1. DOMAIN base = DOMAIN segments /\ \A e \in DOMAIN segments :
        base[e] = IF e \in ids /\ segments[e] # None
                  THEN [segments[e] EXCEPT !.primary = FALSE] ELSE segments[e]
  BY DEF Cleared
<1> HIDE DEF base
<1>2. ASSUME NEW e \in DOMAIN segments, segments[e] # None
      PROVE  /\ base[e] \in Segments /\ base[e] # None
             /\ base[e].trick = segments[e].trick /\ base[e].video = segments[e].video
             /\ base[e].start = segments[e].start /\ base[e].end = segments[e].end
             /\ base[e].primary => segments[e].primary /\ e \notin ids
  <2>1. segments[e] \in Segments
    BY <1>2, Tables DEF IInv
  <2>2. CASE e \in ids
    <3>1. base[e] = [segments[e] EXCEPT !.primary = FALSE]
      BY <1>1, <1>2, <2>2
    <3>2. base[e] \in Segments
      BY <2>1, <3>1 DEF Segments
    <3>3. /\ base[e].trick = segments[e].trick /\ base[e].video = segments[e].video
          /\ base[e].start = segments[e].start /\ base[e].end = segments[e].end
          /\ base[e].primary = FALSE
      BY <2>1, <3>1 DEF Segments
    <3>4. QED
      BY <3>2, <3>3 DEF ConstantsOK
  <2>3. CASE e \notin ids
    BY <1>1, <1>2, <2>1, <2>3
  <2>4. QED
    BY <2>2, <2>3
<1>3. \A e \in DOMAIN segments : base[e] \in Segments \cup {None}
  BY <1>1, <1>2
<1>4. base \in Seq(Segments \cup {None})
  <2>1. PICK n \in Nat : n = Len(segments)
    BY Tables DEF IInv
  <2>2. base = [e \in 1 .. n |-> base[e]]
    BY <2>1, Tables DEF IInv, Cleared, base
  <2>3. base \in [1 .. n -> Segments \cup {None}]
    BY <1>3, <2>1, <2>2, Tables DEF IInv
  <2>4. QED
    BY <2>3 DEF Seq
<1>5. \A e \in DOMAIN segments : segments[e] = None => base[e] = None
  BY <1>1
<1>6. QED
  BY <1>1, <1>2, <1>4, <1>5 DEF base

\* A segment is written: what a request added, or what a PATCH left of it.  Of
\* its trick it is the only primary one, if the request made it so.
LEMMA SegmentWritten ==
  ASSUME ConstantsOK, IInv, NEW r \in InFlight, RequestOK(requests[r]), requests[r].ready,
         End(r), UNCHANGED tricks, NEW e, NEW s \in Segments,
         requests[r].op \in {"add", "change"},
         segments' \in Seq(Segments \cup {None}),
         DOMAIN segments \subseteq DOMAIN segments', e \in DOMAIN segments', segments'[e] = s,
         requests[r].op = "change" => DOMAIN segments' = DOMAIN segments,
         e \in DOMAIN segments => /\ segments[e] # None /\ segments[e].trick = s.trick
                                  /\ segments[e].video = s.video,
         s.trick = requests[r].trick,
         ValidWindow(s.video, s.start, s.end),
         s.trick # None => /\ s.trick \in Tricks
                           /\ tricks[s.trick].division = Videos[s.video].division,
         s.primary => MakesPrimary(requests[r]) \/ (e \in DOMAIN segments /\ segments[e].primary),
         \A f \in DOMAIN segments' : f # e =>
           /\ f \in DOMAIN segments
           /\ segments'[f] = Cleared(requests[r].cleared)[f]
  PROVE  IInv'
<1> DEFINE q == requests[r]
<1>1. \A f \in DOMAIN segments' : f # e /\ segments'[f] # None =>
        /\ f \in DOMAIN segments /\ segments[f] # None
        /\ segments'[f].trick = segments[f].trick /\ segments'[f].video = segments[f].video
        /\ segments'[f].start = segments[f].start /\ segments'[f].end = segments[f].end
        /\ segments'[f].primary => segments[f].primary /\ f \notin q.cleared
  BY ClearedRows
<1>2. KeepsTricks /\ NoNewNames /\ Tricks' = Tricks
  BY DEF KeepsTricks, NoNewNames, Tricks
<1>3. KeepsSegments
  BY <1>1 DEF KeepsSegments
<1>4. crossed' = crossed
  BY Ends
<1>5. NamesAreUnique' /\ SpellingsAreUnique'
  BY <1>2, <1>4, FewerNames
<1>6. (\A p \in InFlight : RequestOK(requests[p]))' /\ CrossingsSeen'
  <2>1. ASSUME NEW p \in InFlight', MakesPrimary(requests[p]), "primary" \notin crossed
        PROVE  NoNewExamples
    <3>1. Crossing(q, requests[p]) \subseteq crossed
      BY Ends
    <3>2. q.op # "add"
      BY <2>1, <3>1 DEF Crossing
    <3>3. QED
      BY <3>2 DEF NoNewExamples
  <2>2. \A p \in InFlight' : p \in InFlight /\ requests'[p] = requests[p]
    BY Ends
  <2>3. QED
    BY <1>2, <1>3, <1>4, <2>1, <2>2, OthersStay
<1>7. SegmentsFit'
  <2>1. SUFFICES ASSUME NEW f \in DOMAIN segments', segments'[f] # None
                 PROVE  /\ ValidWindow(segments'[f].video, segments'[f].start, segments'[f].end)
                        /\ segments'[f].trick # None =>
                             /\ segments'[f].trick \in Tricks
                             /\ tricks[segments'[f].trick].division
                                  = Videos[segments'[f].video].division
    BY <1>2 DEF SegmentsFit, ValidWindow
  <2>2. CASE f = e
    BY <2>2
  <2>3. CASE f # e
    BY <1>1, <2>1, <2>3 DEF IInv, SegmentsFit
  <2>4. QED
    BY <2>2, <2>3
<1>8. AtMostOnePrimary'
  <2>1. SUFFICES ASSUME "primary" \notin crossed, NEW t \in Tricks,
                        NEW f \in Examples(t)', NEW g \in Examples(t)', f # e, f # g,
                        segments'[f].primary, segments'[g].primary
                 PROVE  FALSE
    BY <1>2, <1>4 DEF AtMostOnePrimary
  <2>2. /\ f \in Examples(t) /\ segments[f].primary /\ f \notin q.cleared
    BY <1>1, <2>1 DEF Examples
  <2>3. CASE g # e
    <3>1. g \in Examples(t) /\ segments[g].primary
      BY <1>1, <2>1, <2>3 DEF Examples
    <3>2. QED
      BY <2>1, <2>2, <3>1 DEF IInv, AtMostOnePrimary
  <2>4. CASE g = e
    <3>1. s.trick = t /\ s.primary
      BY <2>1, <2>4 DEF Examples
    <3>2. CASE MakesPrimary(q)
      <4>1. Examples(q.trick) \subseteq q.cleared
        BY <2>1, <3>2 DEF RequestOK, KnowsExamples
      <4>2. QED
        BY <2>2, <3>1, <4>1
    <3>3. CASE e \in DOMAIN segments /\ segments[e].primary
      <4>1. e \in Examples(t)
        BY <3>1, <3>3 DEF Examples
      <4>2. QED
        BY <2>1, <2>2, <3>3, <4>1 DEF IInv, AtMostOnePrimary
    <3>4. QED
      BY <3>1, <3>2, <3>3
  <2>5. QED
    BY <2>3, <2>4
<1>9. TypeOK'
  BY Ends DEF IInv, TypeOK
<1>10. QED
  BY <1>5, <1>6, <1>7, <1>8, <1>9 DEF IInv

LEMMA CommitSegmentKeeps ==
  ASSUME ConstantsOK, IInv, NEW r \in Requests, CommitSegment(r)
  PROVE  IInv'
<1> DEFINE q == requests[r]
           base == Cleared(q.cleared)
<1>1. r \in InFlight /\ q.op \in {"add", "change"} /\ q.ready
  BY DEF CommitSegment, InFlight
<1>2. RequestOK(q) /\ RowOK(q)
  BY <1>1 DEF IInv, RequestOK
<1>3. CASE Fails(r)
  BY <1>1, <1>3, FailsKeeps
<1>4. Len(segments) \in Nat /\ DOMAIN segments = 1 .. Len(segments)
  BY Tables DEF IInv
<1>5. CASE ~ Fails(r) /\ q.op = "add"
  <2>1. /\ q.trick \in Tricks \cup {None} /\ UNCHANGED tricks /\ End(r)
        /\ segments' = Append(base, q.new)
    BY <1>5 DEF CommitSegment
  <2>2. base \in Seq(Segments \cup {None}) /\ DOMAIN base = DOMAIN segments
    BY ClearedRows
  <2>3. Len(base) = Len(segments)
    BY <1>4, <2>2, LenProperties
  <2>4. q.new \in Segments
    BY <1>2, <1>5 DEF RowOK
  <2>5. PICK e \in Nat, s \in Segments : e = Len(segments) + 1 /\ s = q.new
    BY <1>4, <2>4
  <2> HIDE DEF base
  <2>6. /\ segments' \in Seq(Segments \cup {None}) /\ DOMAIN segments' = 1 .. e
        /\ \A f \in 1 .. Len(segments) : segments'[f] = base[f]
        /\ segments'[e] = s
    BY <1>4, <2>1, <2>2, <2>3, <2>4, <2>5, AppendProperties, LenProperties
  <2>7. /\ DOMAIN segments \subseteq DOMAIN segments' /\ e \in DOMAIN segments'
        /\ e \notin DOMAIN segments
        /\ \A f \in DOMAIN segments' : f # e => f \in DOMAIN segments /\ segments'[f] = base[f]
    BY <1>4, <2>5, <2>6
  <2>8. /\ s.trick = q.trick /\ ValidWindow(s.video, s.start, s.end)
        /\ s.trick # None => /\ s.trick \in Tricks
                             /\ tricks[s.trick].division = Videos[s.video].division
    BY <1>2, <1>5, <2>1, <2>5 DEF RowOK, Tricks
  <2>9. s.primary => MakesPrimary(q)
    BY <1>5, <2>5 DEF MakesPrimary
  <2>10. QED
    BY <1>1, <1>2, <1>5, <2>1, <2>6, <2>7, <2>8, <2>9, SegmentWritten DEF base
<1>6. CASE ~ Fails(r) /\ q.op = "change"
  <2> DEFINE row == base[q.segment]
             new == [row EXCEPT !.start = Given(q.changes.start, @),
                                !.end = Given(q.changes.end, @),
                                !.primary = Given(q.changes.primary, @)]
  <2>1. /\ row # None /\ ~ (new.start >= new.end) /\ UNCHANGED tricks /\ End(r)
        /\ segments' = [base EXCEPT ![q.segment] = new]
    BY <1>6 DEF CommitSegment
  <2>2. /\ base \in Seq(Segments \cup {None}) /\ DOMAIN base = DOMAIN segments
        /\ q.segment \in DOMAIN segments
        /\ q.changes \in [start : Nat \cup {None}, end : Nat \cup {None},
                          primary : BOOLEAN \cup {None}]
    BY <1>2, <1>6, ClearedRows DEF RowOK
  <2>3. PICK e, old : e = q.segment /\ old = segments[e]
    OBVIOUS
  <2>4. /\ old # None /\ row \in Segments
        /\ row.trick = old.trick /\ row.video = old.video
        /\ row.start = old.start /\ row.end = old.end
        /\ row.primary => old.primary
    BY <2>1, <2>2, <2>3, ClearedRows
  <2>5. /\ old.trick = q.trick
        /\ q.changes.end # None /\ Videos[old.video].duration # None
             => q.changes.end <= Videos[old.video].duration
    BY <1>2, <1>6, <2>3, <2>4 DEF RowOK
  <2> HIDE DEF base, row
  <2>6. /\ new \in Segments /\ new.trick = row.trick /\ new.video = row.video
        /\ new.start = Given(q.changes.start, row.start)
        /\ new.end = Given(q.changes.end, row.end)
        /\ new.primary = Given(q.changes.primary, row.primary)
    BY <2>2, <2>4 DEF Segments, Given
  <2>7. PICK s \in Segments : s = new
    BY <2>6
  <2> HIDE DEF new
  <2>8. /\ segments' \in Seq(Segments \cup {None}) /\ DOMAIN segments' = DOMAIN segments
        /\ segments'[e] = s
        /\ \A f \in DOMAIN segments' : f # e => f \in DOMAIN segments /\ segments'[f] = base[f]
    <3>1. DOMAIN segments = 1 .. Len(base)
      BY <2>2, LenProperties
    <3>2. QED
      BY <2>1, <2>2, <2>3, <2>7, <3>1, ExceptSeq
  <2>9. /\ ValidWindow(old.video, old.start, old.end)
        /\ old.trick # None => /\ old.trick \in Tricks
                               /\ tricks[old.trick].division = Videos[old.video].division
    BY <2>2, <2>3, <2>4 DEF IInv, SegmentsFit
  <2>10. ValidWindow(s.video, s.start, s.end)
    <3>1. s.start \in Nat /\ s.end \in Nat /\ ~ s.start >= s.end
      BY <2>1, <2>7 DEF Segments
    <3>2. Videos[old.video].duration # None => s.end <= Videos[old.video].duration
      BY <2>4, <2>5, <2>6, <2>7, <2>9 DEF ValidWindow, Given
    <3>3. QED
      BY <2>4, <2>6, <2>7, <3>1, <3>2 DEF ValidWindow
  <2>11. s.primary => MakesPrimary(q) \/ old.primary
    <3>1. s.primary = Given(q.changes.primary, row.primary)
      BY <2>6, <2>7
    <3>2. q.changes.primary \in BOOLEAN \cup {None}
      BY <2>2
    <3>3. CASE q.changes.primary = None
      BY <2>4, <3>1, <3>3 DEF Given
    <3>4. CASE q.changes.primary = TRUE
      BY <1>6, <3>4 DEF MakesPrimary
    <3>5. CASE q.changes.primary = FALSE
      <4>1. None # FALSE
        BY DEF ConstantsOK
      <4>2. s.primary = FALSE
        BY <3>1, <3>5, <4>1 DEF Given
      <4>3. QED
        BY <4>2
    <3>6. QED
      BY <3>2, <3>3, <3>4, <3>5
  <2>12. e \in DOMAIN segments /\ segments[e] = old
    BY <2>2, <2>3
  <2>13. /\ s.trick = old.trick /\ s.video = old.video /\ s.trick = q.trick
         /\ s.trick # None => /\ s.trick \in Tricks
                              /\ tricks[s.trick].division = Videos[s.video].division
    BY <2>4, <2>5, <2>6, <2>7, <2>9
  <2>14. /\ e \in DOMAIN segments => /\ segments[e] # None /\ segments[e].trick = s.trick
                                     /\ segments[e].video = s.video
         /\ s.primary => MakesPrimary(q) \/ (e \in DOMAIN segments /\ segments[e].primary)
         /\ DOMAIN segments \subseteq DOMAIN segments' /\ e \in DOMAIN segments'
         /\ \A f \in DOMAIN segments' : f # e =>
              f \in DOMAIN segments /\ segments'[f] = Cleared(q.cleared)[f]
    BY <2>4, <2>8, <2>11, <2>12, <2>13 DEF base
  <2>15. QED
    BY <1>1, <1>2, <1>6, <2>1, <2>8, <2>10, <2>13, <2>14, SegmentWritten
<1>7. QED
  BY <1>1, <1>3, <1>5, <1>6

-----------------------------------------------------------------------------
(* The theorems.                                                           *)

LEMMA InvariantNext ==
  ASSUME ConstantsOK, IInv, [Next]_vars
  PROVE  IInv'
<1>1. ASSUME NEW r \in Free, NEW n \in Names, NEW d \in Divisions, BeginCreate(r, n, d)
      PROVE  IInv'
  BY <1>1, BeginCreateKeeps DEF Free
<1>2. ASSUME NEW r \in Free, NEW t \in DOMAIN tricks, NEW n \in Names, BeginRename(r, t, n)
      PROVE  IInv'
  BY <1>2, BeginRenameKeeps DEF Free
<1>3. ASSUME NEW r \in Requests, CommitName(r)
      PROVE  IInv'
  BY <1>3, CommitNameKeeps
<1>4. ASSUME NEW t \in DOMAIN tricks, DeleteTrick(t)
      PROVE  IInv'
  BY <1>4, DeleteTrickKeeps
<1>5. ASSUME NEW r \in Free, NEW t \in DOMAIN tricks \cup {None}, NEW v \in DOMAIN Videos,
             NEW w \in Windows, NEW primary \in BOOLEAN, BeginAdd(r, t, v, w, primary)
      PROVE  IInv'
  BY <1>5, BeginAddKeeps DEF Free
<1>6. ASSUME NEW r \in Free, NEW e \in DOMAIN segments, NEW c \in Changes, BeginChange(r, e, c)
      PROVE  IInv'
  BY <1>6, BeginChangeKeeps DEF Free
<1>7. ASSUME NEW r \in Requests, ClearPrimary(r)
      PROVE  IInv'
  BY <1>7, ClearPrimaryKeeps
<1>8. ASSUME NEW r \in Requests, CommitSegment(r)
      PROVE  IInv'
  BY <1>8, CommitSegmentKeeps
<1>9. ASSUME NEW e \in DOMAIN segments, DeleteSegment(e)
      PROVE  IInv'
  BY <1>9, DeleteSegmentKeeps
<1>10. CASE UNCHANGED vars
  <2>1. UNCHANGED <<tricks, segments, requests, served, crossed>>
    BY <1>10 DEF vars
  <2>2. InFlight' = InFlight
    BY <2>1 DEF InFlight
  <2>3. (\A p \in InFlight : RequestOK(requests[p]))' /\ CrossingsSeen'
    BY <2>1, <2>2, SameTables, OthersStay
  <2>4. TypeOK'
    BY <2>1 DEF IInv, TypeOK
  <2>5. QED
    BY <2>1, <2>3, <2>4, SameTables DEF IInv
<1>11. QED
  BY <1>1, <1>2, <1>3, <1>4, <1>5, <1>6, <1>7, <1>8, <1>9, <1>10 DEF Next

\* Whatever requests overlap, each knows the rows it is about, its name is free
\* and it has seen the examples of its trick, unless it crossed another.
THEOREM LibraryInvariant ==
  ASSUME ConstantsOK, \A s \in Stores : StoreOK(s)
  PROVE  Spec => []IInv
<1>1. Init => IInv
  BY InvariantInit
<1>2. IInv /\ [Next]_vars => IInv'
  BY InvariantNext
<1>3. QED
  BY <1>1, <1>2, PTL DEF Spec

\* The events of an export are the annotations of the video, by their starts.
LEMMA ExportedEvents ==
  ASSUME ConstantsOK, IInv, NEW v \in DOMAIN Videos, TrainingRecord(v, "ann") # None
  PROVE  LET r == TrainingRecord(v, "ann")
         IN  /\ Len(r.events) = Cardinality(Annotations(v))
             /\ \A i, j \in DOMAIN r.events :
                  i < j => /\ r.events[i].start <= r.events[j].start
                           /\ r.events[i].id # r.events[j].id
             /\ \A i \in DOMAIN r.events : r.events[i].end <= r.duration
<1> DEFINE S == Annotations(v)
           n == Cardinality(S)
           rows == SetToSeq(S)
           list == [i \in DOMAIN rows |-> [id |-> rows[i], start |-> segments[rows[i]].start,
                                           end |-> segments[rows[i]].end, family |-> "unknown"]]
           keys == [i \in DOMAIN list |-> list[i].start]
           order == Sorting(keys)
           events == [k \in DOMAIN list |-> list[order[k]]]
           r == TrainingRecord(v, "ann")
<1>1. IsFiniteSet(S)
  <2>1. PICK m \in Nat : m = Len(segments)
    BY Tables DEF IInv
  <2>2. S \subseteq 1 .. m
    BY <2>1, Tables DEF IInv, Annotations
  <2> HIDE DEF S
  <2>3. IsFiniteSet(1 .. m)
    BY FS_Interval
  <2>4. QED
    BY <2>2, <2>3, FS_Subset
<1>2. /\ n \in Nat /\ rows \in [1 .. n -> S]
      /\ \A a, b \in 1 .. n : rows[a] = rows[b] => a = b
  BY <1>1, RowsOfSet
<1>3. \A e \in S : /\ segments[e] \in Segments
                   /\ Videos[v].duration # None => segments[e].end <= Videos[v].duration
  BY Tables DEF IInv, Annotations, SegmentsFit, ValidWindow
<1>4. Videos[v].duration # None /\ r.events = events /\ r.duration = Videos[v].duration
  BY DEF TrainingRecord, SortedBy
<1> HIDE DEF S, n, rows, r
<1>5. DOMAIN list = 1 .. n /\ \A i \in 1 .. n :
        /\ rows[i] \in S /\ list[i].id = rows[i]
        /\ list[i].start = segments[rows[i]].start /\ list[i].end = segments[rows[i]].end
  BY <1>2
<1> HIDE DEF list
<1>6. keys \in [1 .. n -> Int] /\ \A i \in 1 .. n : keys[i] = list[i].start
  BY <1>3, <1>5 DEF Segments
<1> HIDE DEF keys
<1>7. /\ order \in [1 .. n -> 1 .. n]
      /\ \A a, b \in 1 .. n : a < b => order[a] # order[b] /\ keys[order[a]] <= keys[order[b]]
  BY <1>2, <1>6, SortingSorts
<1> HIDE DEF order
<1>8. DOMAIN events = 1 .. n /\ \A k \in 1 .. n : order[k] \in 1 .. n /\ events[k] = list[order[k]]
  BY <1>5, <1>7
<1>9. Len(events) = n
  BY <1>2, <1>5
<1> HIDE DEF events
<1>10. ASSUME NEW i \in 1 .. n, NEW j \in 1 .. n, i < j
       PROVE  events[i].start <= events[j].start /\ events[i].id # events[j].id
  <2>1. order[i] # order[j] /\ keys[order[i]] <= keys[order[j]]
    BY <1>7, <1>10
  <2>2. rows[order[i]] # rows[order[j]]
    BY <1>2, <1>8, <2>1
  <2>3. QED
    BY <1>5, <1>6, <1>8, <2>1, <2>2
<1>11. ASSUME NEW i \in 1 .. n
       PROVE  events[i].end <= Videos[v].duration
  BY <1>3, <1>4, <1>5, <1>8
<1>12. QED
  BY <1>4, <1>8, <1>9, <1>10, <1>11 DEF n, S, r

\* The labels are sound for any tricks, videos and windows and any number of
\* requests at once: names, spellings, the primary example of a trick, windows,
\* and the exports built from them (routers/tricks.py, training_annotations.py).
THEOREM LabelsStaySound ==
  ASSUME ConstantsOK, \A s \in Stores : StoreOK(s)
  PROVE  Spec => []LabelsAreSound
<1>1. IInv => LabelsAreSound
  <2>1. SUFFICES ASSUME IInv
                 PROVE  LabelsAreSound
    OBVIOUS
  <2>2. OnePrimary
    <3>1. SUFFICES ASSUME "primary" \notin crossed, NEW t \in Tricks
                   PROVE  Cardinality({e \in Examples(t) : segments[e].primary}) <= 1
      BY DEF OnePrimary
    <3> DEFINE P == {e \in Examples(t) : segments[e].primary}
    <3>2. \A e, f \in P : e = f
      BY <2>1, <3>1 DEF IInv, AtMostOnePrimary
    <3>3. P = {} \/ \E e : P = {e}
      BY <3>2
    <3> HIDE DEF P
    <3>4. Cardinality(P) = 0 \/ Cardinality(P) = 1
      <4>1. CASE P = {}
        BY <4>1, FS_EmptySet
      <4>2. CASE P # {}
        <5>1. PICK e : P = {e}
          BY <3>3, <4>2
        <5>2. QED
          BY <5>1, FS_Singleton
      <4>3. QED
        BY <4>1, <4>2
    <3>5. QED
      BY <3>4 DEF P
  <2>3. ExportsAreOrdered
    BY <2>1, ExportedEvents DEF ExportsAreOrdered
  <2>4. QED
    BY <2>1, <2>2, <2>3 DEF LabelsAreSound, IInv
<1>2. QED
  BY <1>1, LibraryInvariant, PTL
=============================================================================
