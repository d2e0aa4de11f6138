---------------------------- MODULE VisionProofs ----------------------------
(***************************************************************************)
(* The machine-learning package (src/ml): what its models are trained on,  *)
(* what is decoded from what they say, and the yo-yo's track.              *)
(*                                                                         *)
(* The corpus can always be read and stays complete, for any analyses,     *)
(* reviews and number of processes, however their writes interleave and    *)
(* wherever they die (Corpus).                                             *)
(*                                                                         *)
(* Windows leave no frame out of training that any other is near to, for   *)
(* any times, window and stride; the events of a class that are decoded    *)
(* stand apart, and no run that lasts is lost, for any frames and whatever *)
(* a model says of them (EventDecode).                                     *)
(*                                                                         *)
(* Every detection is on the track, no gap is bridged that is too long, and*)
(* a yo-yo that rests has no fast run, for any detections, times and gains *)
(* of the filter (YoyoTracking).                                           *)
(***************************************************************************)
EXTENDS Corpus, FunctionTheorems, FiniteSetTheorems, SequenceTheorems, TLAPS

CONSTANTS Classes, Outputs, Configs, AnnotationSets, Steps, Margin, Window, Stride,
          MaxFrames, MaxTraining

VARIABLES config, annotated, clip

Clips == INSTANCE EventDecode

CONSTANTS Seen, FrameSteps, Gains, MaxGap, Scenes, FastAt, MinRun, MergeGap, IoU

VARIABLES scene, seen, filter, history, tracks

Tracking == INSTANCE YoyoTracking WITH Steps <- FrameSteps

\* A list without repetition.
ListOnce(s) == (\E S : s \in Seq(S)) /\ IsInjective(s)

\* A manifest whose records are among these.
Lists(m, ids) ==
  /\ m = [ids |-> m.ids, videos |-> m.videos, splits |-> m.splits]
  /\ ListOnce(m.ids) /\ \A i \in DOMAIN m.ids : m.ids[i] \in ids
  /\ ListOnce(m.videos)

\* A record whose video is on disk.
HasVideo(r, paths) == {"id", "path"} \subseteq DOMAIN r /\ r.path \in paths

\* What the corpora it may start with are: read from the manifest and the
\* records that the tools wrote.
StartOK(s) ==
  /\ s.manifest \in {None, Torn} \/ Lists(s.manifest, DOMAIN s.files)
  /\ \A id \in DOMAIN s.files : s.files[id] # Torn => /\ HasVideo(s.files[id], s.clips)
                                                      /\ s.files[id].id = id

\* Neither Python's None nor a torn file is a manifest, or the other.
ConstantsOK ==
  /\ \A s \in Starts : StartOK(s)
  /\ None # Torn
  /\ \A i, v, s : [ids |-> i, videos |-> v, splits |-> s] \notin {None, Torn}

-----------------------------------------------------------------------------
(* The inductive invariant.                                                *)

ManifestOK == manifest \in {None, Torn} \/ Lists(manifest, DOMAIN files)

FilesOK == \A id \in DOMAIN files : files[id] # Torn => HasVideo(files[id], clips) /\ files[id].id = id

\* An API process: it holds the manifest it read, and what it has written is
\* there.
ApiOK(p) ==
  /\ DOMAIN apis[p] = {"stage", "record", "held"}
  /\ apis[p].stage \in {"idle", "clip", "record", "manifest"}
  /\ apis[p].stage # "idle" => /\ Lists(apis[p].held, DOMAIN files)
                               /\ {"id", "path"} \subseteq DOMAIN apis[p].record
  /\ apis[p].stage \in {"record", "manifest"} => apis[p].record.path \in clips
  /\ apis[p].stage = "manifest" => apis[p].record.id \in DOMAIN files

ApisOK == DOMAIN apis = Apis /\ \A p \in Apis : ApiOK(p)

ToolOK ==
  tool # None =>
    \/ tool.step = "split" /\ Lists(tool.held, DOMAIN files)
    \/ /\ tool.step = "merge" /\ HasVideo(tool.held, clips)
       /\ tool.held.id \in DOMAIN files

\* What was answered is listed, until a save overwrites another.
ExportedOK ==
  /\ manifest = None => exported = {}
  /\ ExportsStayListed

\* Until something is written, the script finds what it validated.
PrepOK ==
  /\ DOMAIN prep = {"stage", "checked", "trained"}
  /\ prep.stage # "idle" =>
       /\ prep.trained = <<>>
       /\ prep.checked # <<>> /\ ~dirty => Loadable /\ prep.checked = Records
  /\ TrainsWhatItChecked

CorpusInv ==
  /\ ManifestOK /\ FilesOK /\ ApisOK /\ ToolOK /\ ExportedOK /\ PrepOK
-----------------------------------------------------------------------------
(* Lists.                                                                  *)

\* The places of a set are counted in order, and all of them.
LEMMA PlacesInOrder ==
  ASSUME NEW n \in Nat, NEW places \in SUBSET (1 .. n)
  PROVE  /\ IsFiniteSet(places) /\ Cardinality(places) \in Nat
         /\ \A k \in 1 .. Cardinality(places) : Nth(places, k) \in places
         /\ \A k, l \in 1 .. Cardinality(places) : k < l => Nth(places, k) < Nth(places, l)
         /\ \A i \in places : \E k \in 1 .. Cardinality(places) : Nth(places, k) = i
<1> DEFINE Upto(i) == {j \in places : j <= i}
           c == Cardinality(places)
<1>1. IsFiniteSet(places) /\ c \in Nat
  <2>1. IsFiniteSet(1 .. n)
    BY FS_Interval
  <2>2. IsFiniteSet(places)
    BY <2>1, FS_Subset
  <2>3. QED
    BY <2>2, FS_CardinalityType
<1>2. ASSUME NEW i \in places
      PROVE  IsFiniteSet(Upto(i)) /\ Cardinality(Upto(i)) \in 1 .. c
  <2>1. Upto(i) \in SUBSET places /\ Upto(i) # {}
    OBVIOUS
  <2> HIDE DEF Upto
  <2>2. IsFiniteSet(Upto(i)) /\ Cardinality(Upto(i)) <= c
    BY <1>1, <2>1, FS_Subset
  <2>3. Cardinality(Upto(i)) \in Nat /\ Cardinality(Upto(i)) # 0
    BY <2>1, <2>2, FS_CardinalityType, FS_EmptySet
  <2>4. QED
    BY <1>1, <2>2, <2>3
<1>3. ASSUME NEW i \in places, NEW j \in places, i < j
      PROVE  Cardinality(Upto(i)) < Cardinality(Upto(j))
  <2>1. Upto(i) \in SUBSET Upto(j) /\ j \in Upto(j) /\ j \notin Upto(i)
    <3>1. i \in Int /\ j \in Int /\ j <= j /\ ~ j <= i
      BY <1>3
    <3>2. \A m \in places : m <= i => m <= j
      BY <1>3, <3>1
    <3>3. QED
      BY <3>1, <3>2
  <2>2. PICK a \in 1 .. c, b \in 1 .. c : a = Cardinality(Upto(i)) /\ b = Cardinality(Upto(j))
    <3> HIDE DEF Upto, c
    <3>1. QED
      BY <1>2
  <2>3. IsFiniteSet(Upto(j))
    BY <1>2
  <2> HIDE DEF Upto
  <2>4. Cardinality(Upto(i)) <= Cardinality(Upto(j)) /\ Cardinality(Upto(i)) # Cardinality(Upto(j))
    BY <2>1, <2>3, FS_Subset
  <2>5. QED
    BY <2>2, <2>4
<1> HIDE DEF c
<1> DEFINE rank == [i \in places |-> Cardinality(Upto(i))]
<1>4. rank \in [places -> 1 .. c]
  BY <1>2
<1>5. \A i \in places : rank[i] = Cardinality(Upto(i))
  OBVIOUS
<1> HIDE DEF rank
<1>6. \A i, j \in places : i < j => rank[i] < rank[j]
  BY <1>3, <1>5
<1>7. \A i, j \in places : rank[i] = rank[j] => i = j
  BY <1>4, <1>6
<1>8. rank \in Injection(places, 1 .. c)
  BY <1>4, <1>7, Fun_IsInj
<1>9. IsFiniteSet(1 .. c) /\ Cardinality(1 .. c) = c
  BY <1>1, FS_Interval
<1>10. rank \in Surjection(places, 1 .. c)
  BY <1>1, <1>8, <1>9, FS_Injection DEF c
<1>11. \A k \in 1 .. c : \E i \in places : rank[i] = k
  BY <1>10 DEF Surjection
<1>12. ASSUME NEW k \in 1 .. c
       PROVE  Nth(places, k) \in places /\ rank[Nth(places, k)] = k
  <2>1. \E i \in places : Cardinality(Upto(i)) = k
    BY <1>5, <1>11
  <2>2. Nth(places, k) \in places /\ Cardinality(Upto(Nth(places, k))) = k
    BY <2>1 DEF Nth
  <2>3. QED
    BY <1>5, <2>2
<1>13. ASSUME NEW k \in 1 .. c, NEW l \in 1 .. c, k < l
       PROVE  Nth(places, k) < Nth(places, l)
  <2>1. PICK i \in places, j \in places : i = Nth(places, k) /\ j = Nth(places, l)
    BY <1>12
  <2>2. rank[i] = k /\ rank[j] = l
    BY <1>12, <2>1
  <2>3. j < i => rank[j] < rank[i]
    BY <1>6
  <2>4. QED
    BY <1>13, <2>1, <2>2, <2>3
<1>14. ASSUME NEW i \in places
       PROVE  \E k \in 1 .. c : Nth(places, k) = i
  <2>1. rank[i] \in 1 .. c
    BY <1>4
  <2>2. QED
    BY <1>7, <1>12, <2>1
<1>15. QED
  BY <1>1, <1>12, <1>13, <1>14 DEF c

\* A comprehension keeps what meets its condition, once and in order.
LEMMA KeptInOrder ==
  ASSUME NEW S, NEW s \in Seq(S), NEW places \in SUBSET (1 .. Len(s))
  PROVE  /\ ElementsAt(s, places) \in Seq(S)
         /\ \A k \in 1 .. Len(ElementsAt(s, places)) :
              \E i \in places : ElementsAt(s, places)[k] = s[i]
         /\ \A i \in places :
              \E k \in 1 .. Len(ElementsAt(s, places)) : ElementsAt(s, places)[k] = s[i]
         /\ IsInjective(s) => IsInjective(ElementsAt(s, places))
<1> DEFINE e == ElementsAt(s, places)
           c == Cardinality(places)
<1>1. Len(s) \in Nat /\ DOMAIN s = 1 .. Len(s)
  OBVIOUS
<1>2. /\ c \in Nat
      /\ \A k \in 1 .. c : Nth(places, k) \in places
      /\ \A k, l \in 1 .. c : k < l => Nth(places, k) < Nth(places, l)
      /\ \A i \in places : \E k \in 1 .. c : Nth(places, k) = i
  BY <1>1, PlacesInOrder
<1>3. e = [k \in 1 .. c |-> s[Nth(places, k)]]
  BY DEF ElementsAt
<1> HIDE DEF e, c
<1>4. \A k \in 1 .. c : s[Nth(places, k)] \in S
  BY <1>1, <1>2, ElementOfSeq
<1>5. e \in Seq(S) /\ Len(e) = c /\ DOMAIN e = 1 .. c
  BY <1>2, <1>3, <1>4
<1>6. \A k \in 1 .. c : e[k] = s[Nth(places, k)]
  BY <1>3
<1>7. ASSUME IsInjective(s), NEW k \in 1 .. c, NEW l \in 1 .. c, e[k] = e[l]
      PROVE  k = l
  <2>1. Nth(places, k) \in 1 .. Len(s) /\ Nth(places, l) \in 1 .. Len(s)
    BY <1>2
  <2>2. Nth(places, k) = Nth(places, l)
    BY <1>1, <1>6, <1>7, <2>1 DEF IsInjective
  <2>3. ~ k < l /\ ~ l < k
    BY <1>2, <2>1, <2>2
  <2>4. QED
    BY <1>2, <2>3
<1>8. IsInjective(s) => IsInjective(e)
  BY <1>5, <1>7 DEF IsInjective
<1>9. QED
  BY <1>2, <1>5, <1>6, <1>8 DEF e

\* A list whose entry moves to its end has it once, and all the others.
LEMMA Moves ==
  ASSUME NEW s, ListOnce(s), NEW x
  PROVE  /\ ListOnce(Append(Without(s, x), x))
         /\ \A i \in DOMAIN Append(Without(s, x), x) :
              Append(Without(s, x), x)[i] = x \/ \E k \in DOMAIN s : Append(Without(s, x), x)[i] = s[k]
         /\ Contains(Append(Without(s, x), x), x)
         /\ \A y : Contains(s, y) => Contains(Append(Without(s, x), x), y)
<1>1. PICK S : s \in Seq(S)
  BY DEF ListOnce
<1> DEFINE places == {i \in DOMAIN s : s[i] # x}
           w == Without(s, x)
           t == Append(w, x)
<1>2. Len(s) \in Nat /\ DOMAIN s = 1 .. Len(s) /\ places \in SUBSET (1 .. Len(s))
  BY <1>1
<1>3. w = ElementsAt(s, places)
  BY DEF Without
<1>4. \A i \in DOMAIN s : i \in places <=> s[i] # x
  OBVIOUS
<1> HIDE DEF places, w
<1>5. /\ w \in Seq(S)
      /\ \A k \in 1 .. Len(w) : \E i \in places : w[k] = s[i]
      /\ \A i \in places : \E k \in 1 .. Len(w) : w[k] = s[i]
      /\ IsInjective(w)
  BY <1>1, <1>2, <1>3, KeptInOrder DEF ListOnce
<1>6. \A k \in 1 .. Len(w) : w[k] # x
  BY <1>2, <1>4, <1>5
<1>7. /\ t \in Seq(S \cup {x}) /\ Len(t) = Len(w) + 1 /\ DOMAIN t = 1 .. (Len(w) + 1)
      /\ t[Len(w) + 1] = x /\ \A k \in 1 .. Len(w) : t[k] = w[k]
  <2>1. w \in Seq(S \cup {x})
    BY <1>5
  <2>2. QED
    BY <2>1
<1> HIDE DEF t
<1>8. Len(w) \in Nat
  BY <1>5
<1>9. IsInjective(t)
  <2>1. SUFFICES ASSUME NEW a \in 1 .. (Len(w) + 1), NEW b \in 1 .. (Len(w) + 1), t[a] = t[b]
                 PROVE  a = b
    BY <1>7 DEF IsInjective
  <2>2. CASE a \in 1 .. Len(w) /\ b \in 1 .. Len(w)
    <3>1. w[a] = w[b] /\ DOMAIN w = 1 .. Len(w)
      BY <1>5, <1>7, <2>1, <2>2
    <3>2. QED
      BY <1>5, <2>2, <3>1 DEF IsInjective
  <2>3. CASE a = Len(w) + 1 /\ b = Len(w) + 1
    BY <2>3
  <2>4. CASE (a \in 1 .. Len(w)) # (b \in 1 .. Len(w))
    BY <1>6, <1>7, <1>8, <2>1, <2>4
  <2>5. QED
    BY <1>8, <2>2, <2>3, <2>4
<1>10. ListOnce(t)
  BY <1>7, <1>9 DEF ListOnce
<1>11. ASSUME NEW i \in DOMAIN t
       PROVE  t[i] = x \/ \E k \in DOMAIN s : t[i] = s[k]
  <2>1. CASE i = Len(w) + 1
    BY <1>7, <2>1
  <2>2. CASE i \in 1 .. Len(w)
    <3>1. t[i] = w[i]
      BY <1>7, <2>2
    <3>2. PICK k \in DOMAIN s : w[i] = s[k]
      BY <1>2, <1>5, <2>2
    <3>3. QED
      BY <3>1, <3>2
  <2>3. QED
    BY <1>7, <1>8, <2>1, <2>2
<1>12. Contains(t, x)
  BY <1>7, <1>8 DEF Contains
<1>13. ASSUME NEW y, Contains(s, y)
       PROVE  Contains(t, y)
  <2>1. PICK i \in 1 .. Len(s) : s[i] = y
    BY <1>13 DEF Contains
  <2>2. CASE y = x
    BY <1>12, <2>2
  <2>3. CASE y # x
    <3>1. PICK k \in 1 .. Len(w) : w[k] = y
      BY <1>2, <1>4, <1>5, <2>1, <2>3
    <3>2. k \in 1 .. (Len(w) + 1) /\ t[k] = y
      BY <1>7, <1>8, <3>1
    <3>3. QED
      BY <1>7, <3>2 DEF Contains
  <2>4. QED
    BY <2>2, <2>3
<1>14. QED
  BY <1>10, <1>11, <1>12, <1>13 DEF t, w

\* Nothing comes at two places, and all places are taken.
LEMMA PlacesAreTaken ==
  ASSUME NEW n \in Nat, NEW keys \in [1 .. n -> Int]
  PROVE  /\ \A i \in 1 .. n : Place(keys, i) \in 1 .. n
         /\ \A i, j \in 1 .. n : Sooner(keys, i, j) => Place(keys, i) < Place(keys, j)
         /\ \A k \in 1 .. n : \E i \in 1 .. n : Place(keys, i) = k
<1> DEFINE S(i) == {j \in 1 .. n : Sooner(keys, j, i)}
<1>0. IsFiniteSet(1 .. n) /\ Cardinality(1 .. n) = n
  BY FS_Interval
<1>1. \A i \in 1 .. n : Place(keys, i) = Cardinality(S(i)) + 1
  BY DEF Place
<1>2. ASSUME NEW i \in 1 .. n
      PROVE  /\ IsFiniteSet(S(i)) /\ Cardinality(S(i)) \in Nat
             /\ Cardinality(S(i)) < n
  <2>1. S(i) \in SUBSET (1 .. n) /\ i \notin S(i)
    BY DEF Sooner
  <2> HIDE DEF S
  <2>2. /\ IsFiniteSet(S(i)) /\ Cardinality(S(i)) <= n /\ Cardinality(S(i)) # n
    BY <1>0, <2>1, FS_Subset
  <2>3. Cardinality(S(i)) \in Nat
    BY <2>2, FS_CardinalityType
  <2>4. QED
    BY <2>2, <2>3
<1>3. ASSUME NEW i \in 1 .. n, NEW j \in 1 .. n, Sooner(keys, i, j)
      PROVE  Cardinality(S(i)) < Cardinality(S(j))
  <2>1. S(i) \in SUBSET S(j)
    <3> SUFFICES ASSUME NEW m \in 1 .. n, Sooner(keys, m, i)
                 PROVE  Sooner(keys, m, j)
      OBVIOUS
    <3>1. keys[m] \in Int /\ keys[i] \in Int /\ keys[j] \in Int
      OBVIOUS
    <3>2. QED
      BY <1>3, <3>1 DEF Sooner
  <2>2. i \in S(j) /\ i \notin S(i)
    BY <1>3 DEF Sooner
  <2> HIDE DEF S
  <2>3. Cardinality(S(i)) <= Cardinality(S(j)) /\ Cardinality(S(i)) # Cardinality(S(j))
    BY <1>2, <2>1, <2>2, FS_Subset
  <2>4. QED
    BY <1>2, <2>3
<1> HIDE DEF S
<1>a. ASSUME NEW i \in 1 .. n
      PROVE  Place(keys, i) \in 1 .. n
  <2>1. PICK c \in Nat : c = Cardinality(S(i)) /\ c < n
    BY <1>2
  <2>2. Place(keys, i) = c + 1
    BY <1>1, <2>1
  <2>3. QED
    BY <2>1, <2>2
<1>b. ASSUME NEW i \in 1 .. n, NEW j \in 1 .. n, Sooner(keys, i, j)
      PROVE  Place(keys, i) < Place(keys, j)
  <2>1. PICK c \in Nat, d \in Nat : c = Cardinality(S(i)) /\ d = Cardinality(S(j))
    BY <1>2
  <2>2. c < d /\ Place(keys, i) = c + 1 /\ Place(keys, j) = d + 1
    BY <1>1, <1>3, <1>b, <2>1
  <2>3. QED
    BY <2>1, <2>2
<1>4. /\ \A i \in 1 .. n : Place(keys, i) \in 1 .. n
      /\ \A i, j \in 1 .. n : Sooner(keys, i, j) => Place(keys, i) < Place(keys, j)
  BY <1>a, <1>b
<1>5. \A k \in 1 .. n : \E i \in 1 .. n : Place(keys, i) = k
  <2> DEFINE place == [i \in 1 .. n |-> Place(keys, i)]
  <2>1. place \in [1 .. n -> 1 .. n]
    BY <1>4
  <2>2. ASSUME NEW i \in 1 .. n, NEW j \in 1 .. n, place[i] = place[j]
        PROVE  i = j
    <3>1. Place(keys, i) = Place(keys, j) /\ Place(keys, i) \in Int /\ Place(keys, j) \in Int
      BY <1>4, <2>2
    <3>2. ~ Sooner(keys, i, j) /\ ~ Sooner(keys, j, i)
      BY <1>4, <3>1
    <3>3. keys[i] \in Int /\ keys[j] \in Int
      OBVIOUS
    <3>4. QED
      BY <3>2, <3>3 DEF Sooner
  <2> HIDE DEF place
  <2>3. place \in Injection(1 .. n, 1 .. n)
    BY <2>1, <2>2, Fun_IsInj
  <2>4. place \in Surjection(1 .. n, 1 .. n)
    BY <1>0, <2>3, FS_Injection
  <2>5. \A k \in 1 .. n : \E i \in 1 .. n : place[i] = k
    BY <2>1, <2>4 DEF Surjection
  <2>6. QED
    BY <2>5 DEF place
<1>6. QED
  BY <1>4, <1>5

\* sorted() puts every element somewhere, once, and the keys in order.
LEMMA SortingSorts ==
  ASSUME NEW n \in Nat, NEW keys \in [1 .. n -> Int]
  PROVE  /\ Sorting(keys) \in [1 .. n -> 1 .. n]
         /\ \A a, b \in 1 .. n :
              a < b => /\ Sorting(keys)[a] # Sorting(keys)[b]
                       /\ keys[Sorting(keys)[a]] <= keys[Sorting(keys)[b]]
<1> DEFINE order == Sorting(keys)
<1>1. DOMAIN keys = 1 .. n
  OBVIOUS
<1>2. order = [k \in 1 .. n |-> CHOOSE i \in 1 .. n : Place(keys, i) = k]
  BY <1>1 DEF Sorting
<1> HIDE DEF order
<1>3. \A k \in 1 .. n : order[k] \in 1 .. n /\ Place(keys, order[k]) = k
  BY <1>2, PlacesAreTaken
<1>4. order \in [1 .. n -> 1 .. n]
  BY <1>2, <1>3
<1>5. ASSUME NEW a \in 1 .. n, NEW b \in 1 .. n, a < b
      PROVE  order[a] # order[b] /\ keys[order[a]] <= keys[order[b]]
  <2>1. order[a] # order[b]
    BY <1>3, <1>5
  <2>a. PICK i \in 1 .. n, j \in 1 .. n : i = order[a] /\ j = order[b]
    BY <1>3
  <2>b. Place(keys, i) = a /\ Place(keys, j) = b /\ ~ b < a
    BY <1>3, <1>5, <2>a
  <2>c. Sooner(keys, j, i) => Place(keys, j) < Place(keys, i)
    BY PlacesAreTaken
  <2>2. ~ Sooner(keys, order[b], order[a])
    BY <2>a, <2>b, <2>c
  <2>3. keys[order[a]] \in Int /\ keys[order[b]] \in Int
    BY <1>3
  <2>4. QED
    BY <2>1, <2>2, <2>3 DEF Sooner
<1>6. QED
  BY <1>4, <1>5 DEF order

\* Of numbers above 0 one is the least.
LEMMA Least ==
  ASSUME NEW n \in Nat, NEW S \in SUBSET (1 .. n), S # {}
  PROVE  \E m \in S : \A k \in S : m <= k
<1> DEFINE c == Cardinality(S)
<1>1. /\ c \in Nat /\ \A k \in 1 .. c : Nth(S, k) \in S
      /\ \A k, l \in 1 .. c : k < l => Nth(S, k) < Nth(S, l)
      /\ \A i \in S : \E k \in 1 .. c : Nth(S, k) = i
  BY PlacesInOrder
<1> HIDE DEF c
<1>2. 1 \in 1 .. c
  <2>1. PICK i \in S : TRUE
    OBVIOUS
  <2>2. PICK k \in 1 .. c : Nth(S, k) = i
    BY <1>1
  <2>3. QED
    BY <1>1, <2>2
<1>3. PICK m \in S : m = Nth(S, 1)
  BY <1>1, <1>2
<1>4. ASSUME NEW i \in S
      PROVE  m <= i
  <2>1. PICK k \in 1 .. c : Nth(S, k) = i
    BY <1>1
  <2>2. k = 1 \/ 1 < k
    BY <1>1
  <2>3. CASE 1 < k
    BY <1>1, <1>2, <1>3, <2>1, <2>3
  <2>4. QED
    BY <1>3, <2>1, <2>2, <2>3
<1>5. QED
  BY <1>4

-----------------------------------------------------------------------------
(* What a step leaves alone.                                               *)

\* Files and videos are written, never deleted.
Grows == DOMAIN files \subseteq DOMAIN files' /\ clips \subseteq clips'

LEMMA ListsMore ==
  ASSUME NEW m, NEW A, NEW B, Lists(m, A), A \subseteq B
  PROVE  Lists(m, B)
BY DEF Lists

LEMMA EmptyLists ==
  ASSUME NEW A
  PROVE  Lists(NewManifest, A)
<1>1. ListOnce(<<>>)
  <2>1. <<>> \in Seq({}) /\ IsInjective(<<>>)
    BY DEF IsInjective
  <2>2. QED
    BY <2>1 DEF ListOnce
<1>2. QED
  BY <1>1 DEF Lists, NewManifest

LEMMA ManifestStays ==
  ASSUME ManifestOK, Grows, manifest' = manifest
  PROVE  ManifestOK'
BY ListsMore DEF ManifestOK, Grows

LEMMA FilesStay ==
  ASSUME FilesOK, Grows, files' = files
  PROVE  FilesOK'
BY DEF FilesOK, Grows, HasVideo

LEMMA ApiStays ==
  ASSUME NEW p, ApiOK(p), Grows, apis'[p] = apis[p]
  PROVE  ApiOK(p)'
<1>1. apis[p].stage # "idle" => Lists(apis[p].held, DOMAIN files')
  BY ListsMore DEF ApiOK, Grows
<1>2. QED
  BY <1>1 DEF ApiOK, Grows

LEMMA ApisStay ==
  ASSUME ApisOK, Grows, apis' = apis
  PROVE  ApisOK'
<1>1. \A p \in Apis : ApiOK(p) /\ apis'[p] = apis[p]
  BY DEF ApisOK
<1>2. \A p \in Apis : ApiOK(p)'
  BY <1>1, ApiStays
<1>3. QED
  BY <1>2 DEF ApisOK

\* One process goes on.
LEMMA ApiGoesOn ==
  ASSUME ApisOK, Grows, NEW p \in Apis, NEW a, apis' = [apis EXCEPT ![p] = a],
         apis'[p] = a => ApiOK(p)'
  PROVE  ApisOK'
<1>1. DOMAIN apis' = Apis /\ apis'[p] = a /\ \A q \in Apis \ {p} : apis'[q] = apis[q]
  BY DEF ApisOK
<1>2. ASSUME NEW q \in Apis \ {p}
      PROVE  ApiOK(q)'
  <2>1. ApiOK(q) /\ apis'[q] = apis[q]
    BY <1>1 DEF ApisOK
  <2>2. QED
    BY <2>1, ApiStays
<1>3. QED
  BY <1>1, <1>2 DEF ApisOK

LEMMA ToolStays ==
  ASSUME ToolOK, Grows, tool' = tool
  PROVE  ToolOK'
<1>1. CASE tool = None
  BY <1>1 DEF ToolOK
<1>2. CASE tool # None /\ tool.step = "split" /\ Lists(tool.held, DOMAIN files)
  <2>1. Lists(tool.held, DOMAIN files')
    BY <1>2, ListsMore DEF Grows
  <2>2. QED
    BY <1>2, <2>1 DEF ToolOK
<1>3. CASE tool # None /\ tool.step = "merge" /\ HasVideo(tool.held, clips) /\ tool.held.id \in DOMAIN files
  BY <1>3 DEF ToolOK, Grows, HasVideo
<1>4. QED
  BY <1>1, <1>2, <1>3 DEF ToolOK

LEMMA ExportedStay ==
  ASSUME ExportedOK, UNCHANGED <<manifest, exported, lost>>
  PROVE  ExportedOK'
BY DEF ExportedOK, ExportsStayListed, HasManifest

\* The script finds the dataset as it was, or somebody has written.
LEMMA PrepStays ==
  ASSUME PrepOK, prep' = prep,
         dirty' \/ (dirty' = dirty /\ files' = files /\ (Loadable => manifest' = manifest))
  PROVE  PrepOK'
<1>1. CASE dirty'
  BY <1>1 DEF PrepOK, TrainsWhatItChecked
<1>2. CASE ~dirty' /\ dirty' = dirty /\ files' = files /\ (Loadable => manifest' = manifest)
  <2>1. TrainsWhatItChecked'
    BY <1>2 DEF PrepOK, TrainsWhatItChecked
  <2>2. ASSUME prep.stage # "idle", prep.checked # <<>>
        PROVE  Loadable' /\ prep.checked = Records'
    <3>1. Loadable /\ prep.checked = Records
      BY <1>2, <2>2 DEF PrepOK
    <3>2. UNCHANGED <<manifest, files>>
      BY <1>2, <3>1
    <3>3. QED
      BY <3>1, <3>2 DEF Loadable, Records
  <2>3. QED
    BY <2>1, <2>2 DEF PrepOK
<1>3. QED
  BY <1>1, <1>2

-----------------------------------------------------------------------------
(* The API processes.                                                      *)

LEMMA ExportFields ==
  ASSUME NEW job, NEW rows, NEW flaws
  PROVE  {"id", "path"} \subseteq DOMAIN ExportOf(job, rows, flaws)
BY DEF ExportOf

LEMMA ExportKeeps ==
  ASSUME ConstantsOK, CorpusInv, NEW p \in Apis, NEW j \in JobIds, Export(p, j)
  PROVE  CorpusInv'
<1>1. /\ manifest # Torn
      /\ manifest' = IF manifest = None THEN NewManifest ELSE manifest
      /\ UNCHANGED <<files, clips, reviews, tool, prep, artefacts, exported, lost, dirty>>
  BY DEF Export
<1>2. PICK r : /\ {"id", "path"} \subseteq DOMAIN r
               /\ apis' = [apis EXCEPT ![p] = [stage |-> "clip", held |-> manifest', record |-> r]]
  BY ExportFields DEF Export
<1>3. Grows
  BY <1>1 DEF Grows
<1>4. Lists(manifest', DOMAIN files')
  BY <1>1, EmptyLists DEF CorpusInv, ManifestOK
<1>5. ApisOK'
  <2>1. apis'[p] = [stage |-> "clip", held |-> manifest', record |-> r] => ApiOK(p)'
    BY <1>2, <1>4 DEF ApiOK
  <2>2. QED
    BY <1>2, <1>3, <2>1, ApiGoesOn DEF CorpusInv
<1>6. ExportedOK'
  <2>1. CASE manifest = None
    <3>1. exported' = {}
      BY <1>1, <2>1 DEF CorpusInv, ExportedOK
    <3>2. QED
      BY <3>1 DEF ExportedOK, ExportsStayListed
  <2>2. CASE manifest # None
    BY <1>1, <2>2, ExportedStay DEF CorpusInv
  <2>3. QED
    BY <2>1, <2>2
<1>7. PrepOK'
  <2>1. Loadable => manifest' = manifest
    BY <1>1 DEF Loadable
  <2>2. QED
    BY <1>1, <2>1, PrepStays DEF CorpusInv
<1>8. QED
  BY <1>1, <1>3, <1>4, <1>5, <1>6, <1>7, FilesStay, ToolStays DEF CorpusInv, ManifestOK

LEMMA WriteClipKeeps ==
  ASSUME CorpusInv, NEW p \in Apis, WriteClip(p)
  PROVE  CorpusInv'
<1>1. /\ apis[p].stage = "clip" /\ clips' = clips \cup {apis[p].record.path} /\ dirty' = TRUE
      /\ apis' = [apis EXCEPT ![p] = [apis[p] EXCEPT !.stage = "record"]]
      /\ UNCHANGED <<manifest, files, reviews, tool, prep, artefacts, exported, lost>>
  BY DEF WriteClip
<1>2. Grows
  BY <1>1 DEF Grows
<1>3. ApisOK'
  <2>1. ApiOK(p)
    BY DEF CorpusInv, ApisOK
  <2>2. apis'[p] = [apis[p] EXCEPT !.stage = "record"] => ApiOK(p)'
    BY <1>1, <2>1 DEF ApiOK
  <2>3. QED
    BY <1>1, <1>2, <2>2, ApiGoesOn DEF CorpusInv
<1>4. QED
  BY <1>1, <1>2, <1>3, ManifestStays, FilesStay, ToolStays, ExportedStay, PrepStays DEF CorpusInv

LEMMA WriteRecordKeeps ==
  ASSUME CorpusInv, NEW p \in Apis, WriteRecord(p)
  PROVE  CorpusInv'
<1> DEFINE r == apis[p].record
<1>1. /\ apis[p].stage = "record" /\ files' = Put(files, r.id, r) /\ dirty' = TRUE
      /\ apis' = [apis EXCEPT ![p] = [apis[p] EXCEPT !.stage = "manifest"]]
      /\ UNCHANGED <<manifest, clips, reviews, tool, prep, artefacts, exported, lost>>
  BY DEF WriteRecord
<1>2. ApiOK(p)
  BY DEF CorpusInv, ApisOK
<1>3. /\ DOMAIN files' = DOMAIN files \cup {r.id} /\ files'[r.id] = r
      /\ \A id \in DOMAIN files \ {r.id} : files'[id] = files[id]
  BY <1>1 DEF Put
<1>4. Grows
  BY <1>1, <1>3 DEF Grows
<1>5. FilesOK'
  BY <1>1, <1>2, <1>3 DEF CorpusInv, FilesOK, HasVideo, ApiOK
<1>6. ApisOK'
  <2>1. apis'[p] = [apis[p] EXCEPT !.stage = "manifest"] => ApiOK(p)'
    <3>1. Lists(apis[p].held, DOMAIN files')
      BY <1>1, <1>2, <1>4, ListsMore DEF ApiOK, Grows
    <3>2. QED
      BY <1>1, <1>2, <1>3, <3>1 DEF ApiOK
  <2>2. QED
    BY <1>1, <1>4, <2>1, ApiGoesOn DEF CorpusInv
<1>7. QED
  BY <1>1, <1>4, <1>5, <1>6, ManifestStays, ToolStays, ExportedStay, PrepStays DEF CorpusInv

\* What is saved lists the record that was written, and what was listed before.
LEMMA RelistedLists ==
  ASSUME NEW m, NEW A, Lists(m, A), NEW r, r.id \in A
  PROVE  /\ Lists(Relisted(m, r), A)
         /\ Contains(Relisted(m, r).ids, r.id)
         /\ \A y : Contains(m.ids, y) => Contains(Relisted(m, r).ids, y)
<1> DEFINE t == Relisted(m, r)
<1>1. /\ t = [ids |-> t.ids, videos |-> t.videos, splits |-> t.splits]
      /\ t.ids = Append(Without(m.ids, r.id), r.id)
      /\ t.videos = Append(Without(m.videos, r.video), r.video)
  <2>1. PICK i, v, s : m = [ids |-> i, videos |-> v, splits |-> s]
    BY DEF Lists
  <2>2. m.ids = i /\ m.videos = v /\ m.splits = s
    BY <2>1
  <2>3. PICK a, b : a = Append(Without(i, r.id), r.id) /\ b = Append(Without(v, r.video), r.video)
    OBVIOUS
  <2>4. t = [m EXCEPT !.ids = a, !.videos = b]
    BY <2>2, <2>3 DEF Relisted
  <2>5. t = [ids |-> a, videos |-> b, splits |-> s]
    BY <2>1, <2>4
  <2>6. QED
    BY <2>2, <2>3, <2>5
<1> HIDE DEF t
<1>2. ListOnce(m.ids) /\ ListOnce(m.videos) /\ \A i \in DOMAIN m.ids : m.ids[i] \in A
  BY DEF Lists
<1>3. ListOnce(t.ids) /\ ListOnce(t.videos)
  BY <1>1, <1>2, Moves
<1>4. \A i \in DOMAIN t.ids : t.ids[i] \in A
  BY <1>1, <1>2, Moves
<1>5. Contains(t.ids, r.id) /\ \A y : Contains(m.ids, y) => Contains(t.ids, y)
  BY <1>1, <1>2, Moves
<1>6. QED
  BY <1>1, <1>3, <1>4, <1>5 DEF Lists, t

\* A manifest is neither None nor torn.
LEMMA ManifestsAreFiles ==
  ASSUME ConstantsOK, NEW m, NEW A, Lists(m, A)
  PROVE  m \notin {None, Torn}
BY DEF ConstantsOK, Lists

LEMMA WriteManifestKeeps ==
  ASSUME ConstantsOK, CorpusInv, NEW p \in Apis, WriteManifest(p)
  PROVE  CorpusInv'
<1>1. PICK held, r : held = apis[p].held /\ r = apis[p].record
  OBVIOUS
<1>2. /\ apis[p].stage = "manifest" /\ manifest' = Relisted(held, r) /\ dirty' = TRUE
      /\ lost' = (lost \/ manifest # held) /\ exported' = exported \cup {r.id}
      /\ apis' = [apis EXCEPT ![p] = Resting]
      /\ UNCHANGED <<files, clips, reviews, tool, prep, artefacts>>
  BY <1>1 DEF WriteManifest
<1>3. Lists(held, DOMAIN files) /\ r.id \in DOMAIN files
  BY <1>1, <1>2 DEF CorpusInv, ApisOK, ApiOK
<1>4. /\ Lists(manifest', DOMAIN files)
      /\ Contains(manifest'.ids, r.id)
      /\ \A y : Contains(held.ids, y) => Contains(manifest'.ids, y)
  BY <1>2, <1>3, RelistedLists
<1>5. held \notin {None, Torn} /\ manifest' \notin {None, Torn}
  BY <1>3, <1>4, ManifestsAreFiles
<1>6. Grows /\ ManifestOK'
  BY <1>2, <1>4 DEF Grows, ManifestOK
<1>7. ApisOK'
  <2>1. apis'[p] = Resting => ApiOK(p)'
    BY DEF ApiOK, Resting
  <2>2. QED
    BY <1>2, <1>6, <2>1, ApiGoesOn DEF CorpusInv
<1>8. ExportedOK'
  <2>1. ASSUME ~lost'
        PROVE  \A id \in exported' : Contains(manifest'.ids, id)
    <3>1. ~lost /\ manifest = held
      BY <1>2, <2>1
    <3>2. \A id \in exported : Contains(held.ids, id)
      BY <1>5, <3>1 DEF CorpusInv, ExportedOK, ExportsStayListed, HasManifest
    <3>3. QED
      BY <1>2, <1>4, <3>2
  <2>2. QED
    BY <1>5, <2>1 DEF ExportedOK, ExportsStayListed
<1>9. QED
  BY <1>2, <1>6, <1>7, <1>8, FilesStay, ToolStays, PrepStays DEF CorpusInv

LEMMA CrashKeeps ==
  ASSUME ConstantsOK, CorpusInv, NEW p \in Apis, NEW t \in BOOLEAN, Crash(p, t)
  PROVE  CorpusInv'
<1>1. /\ apis[p].stage # "idle" /\ apis' = [apis EXCEPT ![p] = Resting] /\ dirty' = TRUE
      /\ \/ files' = files
         \/ files' = Put(files, apis[p].record.id, Torn)
      /\ manifest' = manifest \/ manifest' = Torn
      /\ UNCHANGED <<clips, reviews, tool, prep, artefacts, exported, lost>>
  BY DEF Crash
<1>2. /\ DOMAIN files \subseteq DOMAIN files'
      /\ \A id \in DOMAIN files' : files'[id] # Torn => id \in DOMAIN files /\ files'[id] = files[id]
  BY <1>1 DEF Put
<1>3. Grows
  BY <1>1, <1>2 DEF Grows
<1>4. FilesOK'
  BY <1>1, <1>2 DEF CorpusInv, FilesOK, HasVideo
<1>5. ApisOK'
  <2>1. apis'[p] = Resting => ApiOK(p)'
    BY DEF ApiOK, Resting
  <2>2. QED
    BY <1>1, <1>3, <2>1, ApiGoesOn DEF CorpusInv
<1>6. ManifestOK' /\ ExportedOK'
  <2>1. CASE manifest' = manifest
    BY <1>1, <1>3, <2>1, ManifestStays, ExportedStay DEF CorpusInv
  <2>2. CASE manifest' = Torn /\ manifest' # manifest
    <3>1. ManifestOK'
      BY <2>2 DEF ManifestOK
    <3>2. ~HasManifest'
      BY <2>2 DEF HasManifest
    <3>3. manifest' # None
      BY <2>2 DEF ConstantsOK
    <3>4. QED
      BY <3>1, <3>2, <3>3 DEF ExportedOK, ExportsStayListed
  <2>3. QED
    BY <1>1, <2>1, <2>2
<1>7. QED
  BY <1>1, <1>3, <1>4, <1>5, <1>6, ToolStays, PrepStays DEF CorpusInv

-----------------------------------------------------------------------------
(* The dataset tool.                                                       *)

LEMMA SplitKeeps ==
  ASSUME CorpusInv, Split
  PROVE  CorpusInv'
<1>1. /\ Loadable
      /\ tool' # None => tool'.step = "split" /\ tool'.held = manifest
      /\ UNCHANGED <<manifest, files, clips, reviews, apis, prep, artefacts, exported, lost, dirty>>
  BY DEF Split, dataset
<1>2. Grows
  BY <1>1 DEF Grows
<1>3. Lists(manifest, DOMAIN files)
  BY <1>1 DEF Loadable, CorpusInv, ManifestOK
<1>4. ToolOK'
  BY <1>1, <1>3 DEF ToolOK
<1>5. QED
  BY <1>1, <1>2, <1>4, ManifestStays, FilesStay, ApisStay, ExportedStay, PrepStays DEF CorpusInv

LEMMA MergeKeeps ==
  ASSUME CorpusInv, NEW id \in DOMAIN files, Merge(id)
  PROVE  CorpusInv'
<1>1. /\ files[id] # Torn /\ tool' = [step |-> "merge", held |-> files[id]]
      /\ UNCHANGED <<manifest, files, clips, reviews, apis, prep, artefacts, exported, lost, dirty>>
  BY DEF Merge, dataset
<1>2. Grows
  BY <1>1 DEF Grows
<1>3. HasVideo(files[id], clips) /\ files[id].id = id
  BY <1>1 DEF CorpusInv, FilesOK
<1>4. ToolOK'
  BY <1>1, <1>3 DEF ToolOK
<1>5. QED
  BY <1>1, <1>2, <1>4, ManifestStays, FilesStay, ApisStay, ExportedStay, PrepStays DEF CorpusInv

LEMMA SaveSplitKeeps ==
  ASSUME ConstantsOK, CorpusInv, SaveSplit
  PROVE  CorpusInv'
<1>1. PICK held, of : held = tool.held /\ of = tool.splits
  OBVIOUS
<1>2. /\ tool # None /\ tool.step = "split" /\ manifest' = [held EXCEPT !.splits = of]
      /\ lost' = (lost \/ manifest # held) /\ tool' = None /\ dirty' = TRUE
      /\ UNCHANGED <<files, clips, reviews, apis, prep, artefacts, exported>>
  BY <1>1 DEF SaveSplit
<1>3. Lists(held, DOMAIN files)
  BY <1>1, <1>2 DEF CorpusInv, ToolOK
<1>4. /\ manifest' = [ids |-> held.ids, videos |-> held.videos, splits |-> of]
      /\ Lists(manifest', DOMAIN files)
  <2>1. PICK i, v, s : i = held.ids /\ v = held.videos /\ held = [ids |-> i, videos |-> v, splits |-> s]
    BY <1>3 DEF Lists
  <2>2. manifest' = [ids |-> i, videos |-> v, splits |-> of]
    BY <1>2, <2>1
  <2>3. QED
    BY <1>3, <2>1, <2>2 DEF Lists
<1>5. held \notin {None, Torn} /\ manifest' \notin {None, Torn}
  BY <1>3, <1>4, ManifestsAreFiles
<1>6. Grows /\ ManifestOK'
  BY <1>2, <1>4 DEF Grows, ManifestOK
<1>7. ExportedOK'
  <2>1. ASSUME ~lost'
        PROVE  \A id \in exported' : Contains(manifest'.ids, id)
    <3>1. ~lost /\ manifest = held
      BY <1>2, <2>1
    <3>2. \A id \in exported : Contains(held.ids, id)
      BY <1>5, <3>1 DEF CorpusInv, ExportedOK, ExportsStayListed, HasManifest
    <3>3. QED
      BY <1>2, <1>4, <3>2
  <2>2. QED
    BY <1>5, <2>1 DEF ExportedOK, ExportsStayListed
<1>8. ToolOK'
  BY <1>2 DEF ToolOK
<1>9. QED
  BY <1>2, <1>6, <1>7, <1>8, FilesStay, ApisStay, PrepStays DEF CorpusInv

LEMMA SaveMergeKeeps ==
  ASSUME CorpusInv, SaveMerge
  PROVE  CorpusInv'
<1>1. PICK held, new : held = tool.held /\ new = [held EXCEPT !.track = <<"yoyo">>]
  OBVIOUS
<1>2. /\ tool # None /\ tool.step = "merge" /\ files' = [files EXCEPT ![held.id] = new]
      /\ tool' = None /\ dirty' = TRUE
      /\ UNCHANGED <<manifest, clips, reviews, apis, prep, artefacts, exported>>
  BY <1>1 DEF SaveMerge
<1>3. HasVideo(held, clips) /\ held.id \in DOMAIN files
  BY <1>1, <1>2 DEF CorpusInv, ToolOK
<1>4. HasVideo(new, clips) /\ new.id = held.id
  BY <1>1, <1>3 DEF HasVideo
<1>5. /\ DOMAIN files' = DOMAIN files /\ files'[held.id] = new
      /\ \A id \in DOMAIN files \ {held.id} : files'[id] = files[id]
  BY <1>2, <1>3
<1>6. Grows
  BY <1>2, <1>5 DEF Grows
<1>7. FilesOK'
  BY <1>2, <1>4, <1>5 DEF CorpusInv, FilesOK, HasVideo
<1>8. ToolOK'
  BY <1>2 DEF ToolOK
<1>9. ExportedOK'
  <2>1. PICK gone \in BOOLEAN : lost' = (lost \/ gone)
    BY Zenon DEF SaveMerge
  <2>2. ASSUME ~lost'
        PROVE  ~lost
    BY <2>1, <2>2
  <2>3. ExportedOK
    BY DEF CorpusInv
  <2>4. manifest' = None => exported' = {}
    BY <1>2, <2>3 DEF ExportedOK
  <2>5. QED
    BY <1>2, <2>2, <2>3, <2>4 DEF ExportedOK, ExportsStayListed, HasManifest
<1>10. QED
  BY <1>2, <1>6, <1>7, <1>8, <1>9, ManifestStays, ApisStay, PrepStays DEF CorpusInv

-----------------------------------------------------------------------------
(* The script.                                                             *)

\* The script writes nothing the others read.
LEMMA OthersStay ==
  ASSUME CorpusInv, UNCHANGED <<manifest, files, clips, apis, tool, exported, lost>>, PrepOK'
  PROVE  CorpusInv'
<1>1. Grows
  BY DEF Grows
<1>2. QED
  BY <1>1, ManifestStays, FilesStay, ApisStay, ToolStays, ExportedStay DEF CorpusInv

LEMMA ValidateKeeps ==
  ASSUME CorpusInv, NEW skipped \in BOOLEAN, Validate(skipped)
  PROVE  CorpusInv'
<1>1. UNCHANGED <<manifest, files, clips, apis, tool, exported, lost>>
  BY DEF Validate, dataset
<1>2. \/ prep' = [stage |-> "perceive", checked |-> <<>>, trained |-> <<>>]
      \/ Loadable /\ prep' = [stage |-> "perceive", checked |-> Records, trained |-> <<>>]
      \/ prep' = Unprepared
  BY DEF Validate
<1>3. Loadable' = Loadable /\ Records' = Records
  BY <1>1 DEF Loadable, Records
<1>4. PrepOK'
  BY <1>2, <1>3 DEF PrepOK, TrainsWhatItChecked, Unprepared
<1>5. QED
  BY <1>1, <1>4, OthersStay

LEMMA PerceiveKeeps ==
  ASSUME CorpusInv, NEW skipped \in BOOLEAN, Perceive(skipped)
  PROVE  CorpusInv'
<1>1. UNCHANGED <<manifest, files, clips, apis, tool, exported, lost, dirty>>
  BY DEF Perceive, dataset
<1>2. /\ prep.stage = "perceive"
      /\ \/ prep' = [prep EXCEPT !.stage = "train"]
         \/ prep' = [prep EXCEPT !.stage = "idle"]
  BY DEF Perceive, PrepTo, PrepEnds
<1>3. /\ DOMAIN prep' = {"stage", "checked", "trained"}
      /\ prep'.checked = prep.checked /\ prep'.trained = <<>>
  BY <1>2 DEF CorpusInv, PrepOK
<1>4. Loadable' = Loadable /\ Records' = Records
  BY <1>1 DEF Loadable, Records
<1>5. PrepOK'
  BY <1>1, <1>2, <1>3, <1>4 DEF CorpusInv, PrepOK, TrainsWhatItChecked
<1>6. QED
  BY <1>1, <1>5, OthersStay

LEMMA TrainKeeps ==
  ASSUME CorpusInv, NEW yoyo \in BOOLEAN, Train(yoyo)
  PROVE  CorpusInv'
<1>1. UNCHANGED <<manifest, files, clips, apis, tool, exported, lost, dirty>>
  BY DEF Train, dataset
<1>2. PICK chosen : /\ Loadable => chosen = SelectTraining(Records)
                    /\ prep.stage = "train"
                    /\ \/ prep' = [prep EXCEPT !.stage = "idle"]
                       \/ prep' = [prep EXCEPT !.stage = "idle", !.trained = chosen]
  BY DEF Train, PrepEnds
<1>3. /\ DOMAIN prep = {"stage", "checked", "trained"} /\ prep.trained = <<>>
      /\ prep.checked # <<>> /\ ~dirty => Loadable /\ prep.checked = Records
  BY <1>2 DEF CorpusInv, PrepOK
<1>4. /\ DOMAIN prep' = {"stage", "checked", "trained"} /\ prep'.stage = "idle"
      /\ prep'.checked = prep.checked /\ prep'.trained \in {<<>>, chosen}
  BY <1>2, <1>3
<1>5. TrainsWhatItChecked'
  BY <1>1, <1>2, <1>3, <1>4 DEF TrainsWhatItChecked
<1>6. PrepOK'
  BY <1>4, <1>5 DEF PrepOK
<1>7. QED
  BY <1>1, <1>6, OthersStay

-----------------------------------------------------------------------------
(* The theorems.                                                           *)

LEMMA CorpusBegins ==
  ASSUME ConstantsOK, Init
  PROVE  CorpusInv
<1>1. PICK s \in Starts : manifest = s.manifest /\ files = s.files /\ clips = s.clips
  BY DEF Init
<1>2. StartOK(s)
  BY DEF ConstantsOK
<1>3. ManifestOK /\ FilesOK
  BY <1>1, <1>2 DEF StartOK, ManifestOK, FilesOK
<1>4. apis = [p \in Apis |-> Resting] /\ tool = None /\ prep = Unprepared /\ exported = {}
  BY DEF Init
<1>5. ApisOK /\ ToolOK
  BY <1>4 DEF ApisOK, ApiOK, Resting, ToolOK
<1>6. ExportedOK /\ PrepOK
  BY <1>4 DEF ExportedOK, ExportsStayListed, PrepOK, Unprepared, TrainsWhatItChecked
<1>7. QED
  BY <1>3, <1>5, <1>6 DEF CorpusInv

LEMMA CorpusKeeps ==
  ASSUME ConstantsOK, CorpusInv, [Next]_vars
  PROVE  CorpusInv'
<1>1. ASSUME UNCHANGED <<manifest, files, clips, apis, tool, prep, exported, lost, dirty>>
      PROVE  CorpusInv'
  <2>1. PrepOK'
    BY <1>1, PrepStays DEF CorpusInv
  <2>2. QED
    BY <1>1, <2>1, OthersStay
<1>2. ASSUME NEW j \in JobIds, NEW r \in Reviews, ChangeReview(j, r)
      PROVE  CorpusInv'
  BY <1>1, <1>2 DEF ChangeReview, dataset
<1>3. ASSUME NEW p \in Apis, NEW j \in JobIds, Export(p, j)
      PROVE  CorpusInv'
  BY <1>3, ExportKeeps
<1>4. ASSUME NEW p \in Apis, WriteClip(p) \/ WriteRecord(p) \/ WriteManifest(p)
      PROVE  CorpusInv'
  BY <1>4, WriteClipKeeps, WriteRecordKeeps, WriteManifestKeeps
<1>5. ASSUME NEW p \in Apis, NEW t \in BOOLEAN, Crash(p, t)
      PROVE  CorpusInv'
  BY <1>5, CrashKeeps
<1>6. CASE Split      BY <1>6, SplitKeeps
<1>7. CASE SaveSplit  BY <1>7, SaveSplitKeeps
<1>8. CASE SaveMerge  BY <1>8, SaveMergeKeeps
<1>9. ASSUME NEW id \in DOMAIN files, Merge(id)
      PROVE  CorpusInv'
  BY <1>9, MergeKeeps
<1>10. ASSUME NEW skipped \in BOOLEAN, Validate(skipped) \/ Perceive(skipped)
       PROVE  CorpusInv'
  BY <1>10, ValidateKeeps, PerceiveKeeps
<1>11. ASSUME NEW yoyo \in BOOLEAN, Train(yoyo)
       PROVE  CorpusInv'
  BY <1>11, TrainKeeps
<1>12. ASSUME NEW v \in clips, PerceiveOne(v)
       PROVE  CorpusInv'
  BY <1>1, <1>12 DEF PerceiveOne, dataset
<1>13. CASE UNCHANGED vars
  BY <1>1, <1>13 DEF vars, dataset
<1>14. QED
  BY <1>2, <1>3, <1>4, <1>5, <1>6, <1>7, <1>8, <1>9, <1>10, <1>11, <1>12, <1>13 DEF Next

\* Who holds which manifest, what is on disk for it, and what the script has
\* checked.
THEOREM CorpusInvariant ==
  ASSUME ConstantsOK
  PROVE  Spec => []CorpusInv
<1>1. Init => CorpusInv
  BY CorpusBegins
<1>2. CorpusInv /\ [Next]_vars => CorpusInv'
  BY CorpusKeeps
<1>3. QED
  BY <1>1, <1>2, PTL DEF Spec

\* However many processes write, race and die, a manifest that can be read
\* lists nothing twice and nothing that is not there (append_record_to_corpus).
THEOREM ListedStaysThere ==
  ASSUME ConstantsOK
  PROVE  Spec => []ListedIsThere
<1>1. ASSUME CorpusInv
      PROVE  ListedIsThere
  <2>1. SUFFICES ASSUME HasManifest
                 PROVE  /\ IsInjective(manifest.ids) /\ IsInjective(manifest.videos)
                        /\ \A i \in DOMAIN manifest.ids :
                             /\ manifest.ids[i] \in DOMAIN files
                             /\ files[manifest.ids[i]] # Torn => files[manifest.ids[i]].path \in clips
    BY DEF ListedIsThere
  <2>2. Lists(manifest, DOMAIN files)
    BY <1>1, <2>1 DEF CorpusInv, ManifestOK, HasManifest
  <2>3. \A id \in DOMAIN files : files[id] # Torn => files[id].path \in clips
    BY <1>1 DEF CorpusInv, FilesOK, HasVideo
  <2>4. QED
    BY <2>2, <2>3 DEF Lists, ListOnce
<1>2. QED
  BY <1>1, CorpusInvariant, PTL

\* An export that was answered stays in the corpus while no process saves a
\* manifest it read before another's save (append_analysis_to_corpus).
THEOREM AnsweredStaysListed ==
  ASSUME ConstantsOK
  PROVE  Spec => []ExportsStayListed
<1>1. CorpusInv => ExportsStayListed
  BY DEF CorpusInv, ExportedOK
<1>2. QED
  BY <1>1, CorpusInvariant, PTL

\* The script trains on the selection of the records it validated while nobody
\* writes, though each step loads the dataset again (prepare_training_corpus).
THEOREM ValidatedIsTrained ==
  ASSUME ConstantsOK
  PROVE  Spec => []TrainsWhatItChecked
<1>1. CorpusInv => TrainsWhatItChecked
  BY DEF CorpusInv, PrepOK
<1>2. QED
  BY <1>1, CorpusInvariant, PTL

-----------------------------------------------------------------------------
(* The records: what is read from the corpus, and what is checked in it.   *)

\* A list of events with the times of the schema's columns.
Timed(s) ==
  /\ \E S : s \in Seq(S)
  /\ \A i \in DOMAIN s : /\ {"start", "end"} \subseteq DOMAIN s[i]
                         /\ s[i].start \in Int /\ s[i].end \in Int

\* A record the models of the schema accept.
RecordOK(r) ==
  {"duration", "events", "deductions"} \subseteq DOMAIN r /\ WellFormed(r) /\ Timed(r.events)

\* The rows of a review have times, whichever; the corpora it may start with
\* were written through the same models.
RowsOK ==
  /\ \A r \in Reviews : Timed(r.rows)
  /\ \A s \in Starts : \A id \in DOMAIN s.files : s.files[id] # Torn => RecordOK(s.files[id])
  /\ MaxWork \in Nat /\ MaxEdits \in Nat /\ MaxCrashes \in Nat

\* Every record on its way to the disk, and on it, has passed the models.
RecordsInv ==
  /\ reviews \in [JobIds -> Reviews]
  /\ \A id \in DOMAIN files : files[id] # Torn => RecordOK(files[id])
  /\ \A p \in Apis : apis[p].stage # "idle" => RecordOK(apis[p].record)
  /\ tool # None /\ tool.step = "merge" => RecordOK(tool.held)

CountsOK ==
  /\ prep.stage \in {"idle", "perceive", "train"}
  /\ work \in 0 .. MaxWork /\ edits \in 0 .. MaxEdits /\ crashes \in 0 .. MaxCrashes
  /\ lost \in BOOLEAN /\ dirty \in BOOLEAN

\* A list of some elements of a list with times has times.
LEMMA SomeTimed ==
  ASSUME NEW s, Timed(s), NEW T, NEW t \in Seq(T),
         \A k \in 1 .. Len(t) : \E i \in DOMAIN s : t[k] = s[i]
  PROVE  Timed(t)
<1>1. DOMAIN t = 1 .. Len(t)
  OBVIOUS
<1>2. ASSUME NEW k \in DOMAIN t
      PROVE  /\ {"start", "end"} \subseteq DOMAIN t[k]
             /\ t[k].start \in Int /\ t[k].end \in Int
  BY <1>1 DEF Timed
<1>3. QED
  BY <1>2 DEF Timed

LEMMA OwnTimed ==
  ASSUME NEW j, NEW rows, Timed(rows)
  PROVE  Timed(Own(j, rows))
<1> DEFINE own == Own(j, rows)
<1>1. PICK S : rows \in Seq(S)
  BY DEF Timed
<1>a. DOMAIN own = DOMAIN rows
  BY DEF Own
<1>b. \A i \in DOMAIN rows : own[i] = [rows[i] EXCEPT !.id = <<j, @>>]
  BY Zenon DEF Own
<1> DEFINE T == {[rows[i] EXCEPT !.id = <<j, @>>] : i \in DOMAIN rows}
<1>3. own \in [DOMAIN rows -> T]
  BY Zenon DEF Own
<1> HIDE DEF own, T
<1>2. DOMAIN own = 1 .. Len(rows) /\ Len(rows) \in Nat
  BY <1>1, <1>a
<1>4. own \in Seq(T)
  BY <1>1, <1>3
<1>5. ASSUME NEW i \in 1 .. Len(rows)
      PROVE  /\ {"start", "end"} \subseteq DOMAIN own[i]
             /\ own[i].start \in Int /\ own[i].end \in Int
  <2>1. /\ {"start", "end"} \subseteq DOMAIN rows[i]
        /\ rows[i].start \in Int /\ rows[i].end \in Int
    BY <1>1 DEF Timed
  <2>a. i \in DOMAIN rows
    BY <1>1
  <2>b. PICK x, v : x = rows[i] /\ own[i] = [x EXCEPT !.id = v]
    BY <1>b, <2>a, Zenon
  <2>c. {"start", "end"} \subseteq DOMAIN x
    BY <2>1, <2>b
  <2>d. PICK y : y = [x EXCEPT !.id = v]
    OBVIOUS
  <2>2. DOMAIN y = DOMAIN x /\ y.start = x.start /\ y.end = x.end
    BY <2>c, <2>d
  <2>3. /\ DOMAIN own[i] = DOMAIN rows[i]
        /\ own[i].start = rows[i].start /\ own[i].end = rows[i].end
    BY <2>b, <2>d, <2>2
  <2>4. QED
    BY <2>1, <2>3
<1>6. QED
  BY <1>2, <1>4, <1>5 DEF Timed, own

\* Sorting by the start keeps all the events, once, and puts their starts in order.
LEMMA EventsSorted ==
  ASSUME NEW s, Timed(s)
  PROVE  LET n == Len(s)  t == SortedBy(s, LAMBDA e : e.start)
         IN  /\ n \in Nat /\ DOMAIN s = 1 .. n
             /\ \E order \in [1 .. n -> 1 .. n] :
                  /\ t = [k \in 1 .. n |-> s[order[k]]]
                  /\ \A i \in 1 .. n : \E k \in 1 .. n : order[k] = i
                  /\ \A a, b \in 1 .. n :
                       a < b => order[a] # order[b] /\ s[order[a]].start <= s[order[b]].start
<1>1. PICK S : s \in Seq(S)
  BY DEF Timed
<1> DEFINE n == Len(s)
           keys == [i \in DOMAIN s |-> s[i].start]
           order == Sorting(keys)
<1>2. n \in Nat /\ DOMAIN s = 1 .. n
  BY <1>1
<1>3. SortedBy(s, LAMBDA e : e.start) = [k \in 1 .. n |-> s[order[k]]]
  BY <1>2 DEF SortedBy
<1>4. keys \in [1 .. n -> Int] /\ \A i \in 1 .. n : keys[i] = s[i].start
  BY <1>2 DEF Timed
<1> HIDE DEF keys, n
<1>5. /\ order \in [1 .. n -> 1 .. n]
      /\ \A a, b \in 1 .. n : a < b => order[a] # order[b] /\ keys[order[a]] <= keys[order[b]]
  BY <1>2, <1>4, SortingSorts
<1> HIDE DEF order
<1>6. \A i \in 1 .. n : \E k \in 1 .. n : order[k] = i
  <2>1. \A a, b \in 1 .. n : order[a] = order[b] => a = b
    BY <1>2, <1>5
  <2>2. order \in Injection(1 .. n, 1 .. n)
    BY <1>5, <2>1, Fun_IsInj
  <2>3. IsFiniteSet(1 .. n) /\ Cardinality(1 .. n) = n
    BY <1>2, FS_Interval
  <2>4. order \in Surjection(1 .. n, 1 .. n)
    BY <2>2, <2>3, FS_Injection
  <2>5. QED
    BY <2>4 DEF Surjection
<1>7. \A a, b \in 1 .. n :
        a < b => order[a] # order[b] /\ s[order[a]].start <= s[order[b]].start
  BY <1>4, <1>5
<1>8. QED
  BY <1>2, <1>3, <1>5, <1>6, <1>7 DEF n

\* Of all pairs of events, those that are neighbours by start are enough.
LEMMA NeighboursFound ==
  ASSUME NEW s, Timed(s), \A i \in DOMAIN s : s[i].start < s[i].end
  PROVE  NeighboursOverlap(s) <=> \E i, j \in DOMAIN s : i # j /\ s[i].start < s[j].end
                                                                /\ s[j].start < s[i].end
<1> DEFINE n == Len(s)
           t == SortedBy(s, LAMBDA e : e.start)
<1>1. n \in Nat /\ DOMAIN s = 1 .. n
  BY EventsSorted
<1>2. PICK order \in [1 .. n -> 1 .. n] :
             /\ t = [k \in 1 .. n |-> s[order[k]]]
             /\ \A i \in 1 .. n : \E k \in 1 .. n : order[k] = i
             /\ \A a, b \in 1 .. n :
                  a < b => order[a] # order[b] /\ s[order[a]].start <= s[order[b]].start
  BY EventsSorted
<1>3. \A i \in 1 .. n : s[i].start \in Int /\ s[i].end \in Int
  BY <1>1 DEF Timed
<1>4. DOMAIN t = 1 .. n /\ Len(t) = n /\ \A k \in 1 .. n : t[k] = s[order[k]]
  BY <1>1, <1>2
<1>5. NeighboursOverlap(s) <=> \E k \in 1 .. n : k < n /\ t[k + 1].start < t[k].end
  BY <1>4 DEF NeighboursOverlap
<1> HIDE DEF n, t
<1>6. ASSUME NEW k \in 1 .. n, k < n, t[k + 1].start < t[k].end
      PROVE  \E i, j \in 1 .. n : i # j /\ s[i].start < s[j].end /\ s[j].start < s[i].end
  <2>a. PICK l \in 1 .. n : l = k + 1 /\ k < l
    BY <1>1, <1>6
  <2>1. PICK i \in 1 .. n, j \in 1 .. n : i = order[k] /\ j = order[l]
    BY <1>2
  <2>2. i # j /\ s[i].start <= s[j].start
    BY <1>2, <2>a, <2>1
  <2>3. s[j].start < s[i].end /\ s[j].start < s[j].end
    BY <1>1, <1>4, <1>6, <2>a, <2>1
  <2>4. s[i].start < s[j].end
    BY <1>3, <2>2, <2>3
  <2>5. QED
    BY <2>2, <2>3, <2>4
<1>7. ASSUME NEW i \in 1 .. n, NEW j \in 1 .. n, i # j, s[i].start < s[j].end, s[j].start < s[i].end
      PROVE  \E k \in 1 .. n : k < n /\ t[k + 1].start < t[k].end
  <2>1. PICK a \in 1 .. n, b \in 1 .. n : order[a] = i /\ order[b] = j
    BY <1>2
  <2>2. ASSUME NEW c \in 1 .. n, NEW d \in 1 .. n, c < d, s[order[d]].start < s[order[c]].end
        PROVE  \E k \in 1 .. n : k < n /\ t[k + 1].start < t[k].end
    <3>1. c + 1 \in 1 .. n /\ c < n
      BY <1>1, <2>2
    <3>2. PICK x \in 1 .. n, y \in 1 .. n, z \in 1 .. n :
                 x = order[c] /\ y = order[c + 1] /\ z = order[d]
      BY <1>2, <3>1
    <3>3. s[y].start <= s[z].start
      <4>1. CASE c + 1 = d
        BY <1>3, <3>2, <4>1
      <4>2. CASE c + 1 < d
        BY <1>2, <3>1, <3>2, <4>2
      <4>3. QED
        BY <2>2, <4>1, <4>2
    <3>a. s[z].start < s[x].end
      BY <2>2, <3>2
    <3>4. s[y].start < s[x].end
      BY <1>3, <3>3, <3>a
    <3>5. QED
      BY <1>4, <3>1, <3>2, <3>4
  <2>3. CASE a < b
    BY <1>7, <2>1, <2>2, <2>3
  <2>4. CASE b < a
    BY <1>7, <2>1, <2>2, <2>4
  <2>5. QED
    BY <1>7, <2>1, <2>3, <2>4
<1>8. QED
  BY <1>1, <1>5, <1>6, <1>7

\* What a review exports has times.
LEMMA ExportTimed ==
  ASSUME NEW job, NEW rows, NEW flaws, Timed(rows)
  PROVE  LET r == ExportOf(job, rows, flaws)
         IN  {"duration", "events", "deductions"} \subseteq DOMAIN r /\ Timed(r.events)
<1> DEFINE places == {i \in DOMAIN rows : rows[i].status # "rejected"}
           kept == ElementsAt(rows, places)
           r == ExportOf(job, rows, flaws)
<1>1. PICK S : rows \in Seq(S)
  BY DEF Timed
<1>2. r.events = SortedBy(kept, LAMBDA e : e.start)
      /\ {"duration", "events", "deductions"} \subseteq DOMAIN r
  BY DEF ExportOf
<1>3. Len(rows) \in Nat /\ DOMAIN rows = 1 .. Len(rows) /\ places \in SUBSET (1 .. Len(rows))
  BY <1>1
<1>4. \A i \in places : i \in DOMAIN rows
  OBVIOUS
<1> HIDE DEF places, r
<1>5. /\ kept \in Seq(S)
      /\ \A k \in 1 .. Len(kept) : \E i \in places : kept[k] = rows[i]
  BY <1>1, <1>3, KeptInOrder
<1> HIDE DEF kept
<1>6. Timed(kept)
  <2>1. \A k \in 1 .. Len(kept) : \E i \in DOMAIN rows : kept[k] = rows[i]
    BY <1>4, <1>5
  <2>2. QED
    BY <1>5, <2>1, SomeTimed
<1>7. PICK order \in [1 .. Len(kept) -> 1 .. Len(kept)] :
             r.events = [k \in 1 .. Len(kept) |-> kept[order[k]]]
  <2>1. PICK order \in [1 .. Len(kept) -> 1 .. Len(kept)] :
               SortedBy(kept, LAMBDA e : e.start) = [k \in 1 .. Len(kept) |-> kept[order[k]]]
    BY <1>6, EventsSorted, ZenonT(40)
  <2>2. QED
    BY <1>2, <2>1
<1>8. Len(kept) \in Nat /\ DOMAIN kept = 1 .. Len(kept)
  BY <1>5
<1>9. PICK t : t = r.events
  OBVIOUS
<1>10. t \in Seq(S) /\ Len(t) = Len(kept) /\ \A k \in 1 .. Len(t) : t[k] = kept[order[k]]
  <2>1. t = [k \in 1 .. Len(kept) |-> kept[order[k]]]
    BY <1>7, <1>9
  <2>2. \A k \in 1 .. Len(kept) : kept[order[k]] \in S
    BY <1>5, <1>7, <1>8
  <2>3. QED
    BY <1>8, <2>1, <2>2
<1>11. Timed(t)
  <2>1. \A k \in 1 .. Len(t) : \E i \in DOMAIN kept : t[k] = kept[i]
    BY <1>7, <1>8, <1>10
  <2>2. QED
    BY <1>6, <1>10, <2>1, SomeTimed
<1>12. QED
  BY <1>2, <1>9, <1>11 DEF r

LEMMA RecordsBegin ==
  ASSUME ConstantsOK, RowsOK, Init
  PROVE  RecordsInv /\ CountsOK
<1>1. PICK s \in Starts : manifest = s.manifest /\ files = s.files /\ clips = s.clips
  BY DEF Init
<1>2. /\ reviews \in [JobIds -> Reviews] /\ apis = [p \in Apis |-> Resting] /\ tool = None
      /\ prep = Unprepared /\ work = 0 /\ edits = 0 /\ crashes = 0 /\ lost = FALSE /\ dirty = FALSE
  BY DEF Init
<1>3. \A p \in Apis : apis[p].stage = "idle"
  BY <1>2 DEF Resting
<1>4. \A id \in DOMAIN files : files[id] # Torn => RecordOK(files[id])
  BY <1>1 DEF RowsOK
<1>5. RecordsInv
  BY <1>2, <1>3, <1>4 DEF RecordsInv
<1>6. CountsOK
  <2>1. prep.stage = "idle"
    BY <1>2 DEF Unprepared
  <2>2. 0 \in 0 .. MaxWork /\ 0 \in 0 .. MaxEdits /\ 0 \in 0 .. MaxCrashes
    BY DEF RowsOK
  <2>3. QED
    BY <1>2, <2>1, <2>2 DEF CountsOK
<1>7. QED
  BY <1>5, <1>6

\* What writes no record, and takes none up, keeps them.
LEMMA RecordsStay ==
  ASSUME RecordsInv, UNCHANGED <<reviews, files, apis, tool>>
  PROVE  RecordsInv'
BY DEF RecordsInv

\* A process that goes on keeps its record or lets it go.
LEMMA RecordsGoOn ==
  ASSUME CorpusInv, RecordsInv, NEW p \in Apis, NEW a, apis' = [apis EXCEPT ![p] = a],
         a.stage = "idle" \/ RecordOK(a.record),
         UNCHANGED <<reviews, tool>>,
         \A id \in DOMAIN files' :
           files'[id] # Torn => RecordOK(files'[id]) \/ (id \in DOMAIN files /\ files'[id] = files[id])
  PROVE  RecordsInv'
<1>1. DOMAIN apis = Apis
  BY DEF CorpusInv, ApisOK
<1>2. apis'[p] = a /\ \A q \in Apis \ {p} : apis'[q] = apis[q]
  BY <1>1
<1>3. \A q \in Apis : apis'[q].stage # "idle" => RecordOK(apis'[q].record)
  BY <1>2 DEF RecordsInv
<1>4. QED
  BY <1>3 DEF RecordsInv

LEMMA ExportIsWellFormed ==
  ASSUME RowsOK, CorpusInv, RecordsInv, NEW p \in Apis, NEW j \in JobIds, Export(p, j)
  PROVE  RecordsInv'
<1>1. PICK job, rows, flaws, r :
           /\ rows = Own(j, reviews[j].rows) /\ r = ExportOf(job, rows, flaws) /\ WellFormed(r)
           /\ apis' = [apis EXCEPT ![p] = [stage |-> "clip", held |-> manifest', record |-> r]]
           /\ UNCHANGED <<files, reviews, tool>>
  BY DEF Export
<1>2. Timed(reviews[j].rows)
  BY DEF RecordsInv, RowsOK
<1>3. Timed(rows)
  BY <1>1, <1>2, OwnTimed
<1>4. {"duration", "events", "deductions"} \subseteq DOMAIN r /\ Timed(r.events)
  BY <1>1, <1>3, ExportTimed
<1>5. RecordOK(r)
  BY <1>1, <1>4 DEF RecordOK
<1>6. PICK a : a = [stage |-> "clip", held |-> manifest', record |-> r]
  OBVIOUS
<1>7. a.record = r
  BY <1>6
<1>8. QED
  BY <1>1, <1>5, <1>6, <1>7, RecordsGoOn

LEMMA WritingIsWellFormed ==
  ASSUME CorpusInv, RecordsInv, NEW p \in Apis,
         WriteClip(p) \/ WriteRecord(p) \/ WriteManifest(p)
  PROVE  RecordsInv'
<1>1. PICK was : was = apis[p] /\ DOMAIN was = {"stage", "record", "held"}
  BY DEF CorpusInv, ApisOK, ApiOK
<1>2. /\ was.stage # "idle" /\ UNCHANGED <<reviews, tool>>
      /\ files' = files \/ (was.stage = "record" /\ files' = Put(files, was.record.id, was.record))
      /\ \/ apis' = [apis EXCEPT ![p] = Resting]
         \/ apis' = [apis EXCEPT ![p] = [was EXCEPT !.stage = "record"]]
         \/ apis' = [apis EXCEPT ![p] = [was EXCEPT !.stage = "manifest"]]
  BY <1>1 DEF WriteClip, WriteRecord, WriteManifest
<1>3. RecordOK(was.record)
  BY <1>1, <1>2 DEF RecordsInv
<1>4. \A id \in DOMAIN files' :
        files'[id] # Torn => RecordOK(files'[id]) \/ (id \in DOMAIN files /\ files'[id] = files[id])
  BY <1>2, <1>3 DEF Put
<1>5. PICK a : apis' = [apis EXCEPT ![p] = a] /\ (a.stage = "idle" \/ a.record = was.record)
  BY <1>1, <1>2 DEF Resting
<1>6. QED
  BY <1>2, <1>3, <1>4, <1>5, RecordsGoOn

LEMMA CrashIsWellFormed ==
  ASSUME CorpusInv, RecordsInv, NEW p \in Apis, NEW t \in BOOLEAN, Crash(p, t)
  PROVE  RecordsInv'
<1>1. /\ apis' = [apis EXCEPT ![p] = Resting] /\ UNCHANGED <<reviews, tool>>
      /\ files' = files \/ files' = Put(files, apis[p].record.id, Torn)
  BY DEF Crash
<1>2. \A id \in DOMAIN files' :
        files'[id] # Torn => id \in DOMAIN files /\ files'[id] = files[id]
  BY <1>1 DEF Put
<1>3. Resting.stage = "idle"
  BY DEF Resting
<1>4. QED
  BY <1>1, <1>2, <1>3, RecordsGoOn

LEMMA ToolIsWellFormed ==
  ASSUME CorpusInv, RecordsInv, Split \/ SaveSplit \/ SaveMerge \/ \E id \in DOMAIN files : Merge(id)
  PROVE  RecordsInv'
<1>1. CASE Split
  <2>1. UNCHANGED <<reviews, files, apis>> /\ tool'.step = "split"
    BY <1>1 DEF Split, dataset
  <2>2. QED
    BY <2>1 DEF RecordsInv
<1>2. CASE SaveSplit
  BY <1>2 DEF SaveSplit, RecordsInv
<1>3. CASE \E id \in DOMAIN files : Merge(id)
  <2>1. PICK id \in DOMAIN files :
               /\ files[id] # Torn /\ tool' = [step |-> "merge", held |-> files[id]]
               /\ UNCHANGED <<reviews, files, apis>>
    BY <1>3 DEF Merge, dataset
  <2>2. RecordOK(tool'.held)
    BY <2>1 DEF RecordsInv
  <2>3. QED
    BY <2>1, <2>2 DEF RecordsInv
<1>4. CASE SaveMerge
  <2>1. PICK held, new : held = tool.held /\ new = [held EXCEPT !.track = <<"yoyo">>]
    OBVIOUS
  <2>2. /\ tool # None /\ tool.step = "merge" /\ files' = [files EXCEPT ![held.id] = new]
        /\ tool' = None /\ UNCHANGED <<reviews, apis>>
    BY <1>4, <2>1 DEF SaveMerge
  <2>3. RecordOK(held)
    BY <2>1, <2>2 DEF RecordsInv
  <2>4. /\ DOMAIN new = DOMAIN held /\ new.duration = held.duration
        /\ new.events = held.events /\ new.deductions = held.deductions
    BY <2>1, <2>3 DEF RecordOK
  <2>5. WellFormed(new)
    BY <2>3, <2>4 DEF RecordOK, WellFormed
  <2>6. RecordOK(new)
    BY <2>3, <2>4, <2>5 DEF RecordOK
  <2>7. \A id \in DOMAIN files' : id \in DOMAIN files /\ files'[id] \in {files[id], new}
    BY <2>2
  <2>8. QED
    BY <2>2, <2>6, <2>7 DEF RecordsInv
<1>5. QED
  BY <1>1, <1>2, <1>3, <1>4

LEMMA RecordsKeep ==
  ASSUME RowsOK, CorpusInv, RecordsInv, [Next]_vars
  PROVE  RecordsInv'
<1>1. ASSUME NEW j \in JobIds, NEW r \in Reviews, ChangeReview(j, r)
      PROVE  RecordsInv'
  <2>1. reviews' = [reviews EXCEPT ![j] = r] /\ UNCHANGED <<files, apis, tool>>
    BY <1>1 DEF ChangeReview, dataset
  <2>2. reviews' \in [JobIds -> Reviews]
    BY <2>1 DEF RecordsInv
  <2>3. QED
    BY <2>1, <2>2 DEF RecordsInv
<1>2. ASSUME NEW p \in Apis, NEW j \in JobIds, Export(p, j)
      PROVE  RecordsInv'
  BY <1>2, ExportIsWellFormed
<1>3. ASSUME NEW p \in Apis, WriteClip(p) \/ WriteRecord(p) \/ WriteManifest(p)
      PROVE  RecordsInv'
  BY <1>3, WritingIsWellFormed
<1>4. ASSUME NEW p \in Apis, NEW t \in BOOLEAN, Crash(p, t)
      PROVE  RecordsInv'
  BY <1>4, CrashIsWellFormed
<1>5. CASE Split \/ SaveSplit \/ SaveMerge \/ \E id \in DOMAIN files : Merge(id)
  BY <1>5, ToolIsWellFormed
<1>6. ASSUME NEW skipped \in BOOLEAN, Validate(skipped) \/ Perceive(skipped) \/ Train(skipped)
      PROVE  RecordsInv'
  BY <1>6, RecordsStay DEF Validate, Perceive, Train, dataset
<1>7. ASSUME NEW v \in clips, PerceiveOne(v)
      PROVE  RecordsInv'
  BY <1>7, RecordsStay DEF PerceiveOne, dataset
<1>8. CASE UNCHANGED vars
  BY <1>8, RecordsStay DEF vars, dataset
<1>9. QED
  BY <1>1, <1>2, <1>3, <1>4, <1>5, <1>6, <1>7, <1>8 DEF Next

LEMMA CountsKeep ==
  ASSUME RowsOK, CorpusInv, CountsOK, [Next]_vars
  PROVE  CountsOK'
<1>1. /\ MaxWork \in Nat /\ MaxEdits \in Nat /\ MaxCrashes \in Nat
      /\ work \in 0 .. MaxWork /\ edits \in 0 .. MaxEdits /\ crashes \in 0 .. MaxCrashes
      /\ lost \in BOOLEAN /\ dirty \in BOOLEAN
      /\ prep.stage \in {"idle", "perceive", "train"}
  BY DEF RowsOK, CountsOK
<1>2. DOMAIN prep = {"stage", "checked", "trained"}
  BY DEF CorpusInv, PrepOK
<1>3. prep'.stage \in {"idle", "perceive", "train"}
  <2>1. PICK was : was = prep /\ DOMAIN was = {"stage", "checked", "trained"}
    BY <1>2
  <2>2. ASSUME NEW skipped \in BOOLEAN, Validate(skipped)
        PROVE  prep' = Unprepared \/ prep'.stage = "perceive"
    BY <2>2 DEF Validate
  <2>3. ASSUME NEW skipped \in BOOLEAN, Perceive(skipped)
        PROVE  \E stage \in {"idle", "train"} : prep' = [was EXCEPT !.stage = stage]
    BY <2>1, <2>3 DEF Perceive, PrepTo, PrepEnds
  <2>4. ASSUME NEW yoyo \in BOOLEAN, Train(yoyo)
        PROVE  prep'.stage = "idle"
    <3>1. \/ prep' = [prep EXCEPT !.stage = "idle"]
          \/ \E chosen : prep' = [prep EXCEPT !.stage = "idle", !.trained = chosen]
      BY <2>4, Zenon DEF Train, PrepEnds
    <3>2. QED
      BY <2>1, <3>1
  <2>5. \/ prep' = prep \/ \E x \in BOOLEAN : Validate(x) \/ Perceive(x) \/ Train(x)
    BY Zenon DEF Next, vars, ChangeReview, Export, WriteClip, WriteRecord, WriteManifest, Crash,
                 Split, SaveSplit, SaveMerge, Merge, PerceiveOne
  <2>6. ASSUME NEW stage \in {"idle", "train"}, prep' = [was EXCEPT !.stage = stage]
        PROVE  prep'.stage = stage
    BY <2>1, <2>6
  <2>7. QED
    BY <1>1, <2>2, <2>3, <2>4, <2>5, <2>6 DEF Unprepared
<1>4. /\ work' = work \/ (work < MaxWork /\ work' = work + 1)
      /\ edits' = edits \/ (edits < MaxEdits /\ edits' = edits + 1)
      /\ crashes' = crashes \/ (crashes < MaxCrashes /\ crashes' = crashes + 1)
  BY DEF Next, vars, bounds, Work, ChangeReview, Export, WriteClip, WriteRecord, WriteManifest,
         Crash, Split, SaveSplit, SaveMerge, Merge, Validate, Perceive, Train, PerceiveOne
<1>5. work' \in 0 .. MaxWork /\ edits' \in 0 .. MaxEdits /\ crashes' \in 0 .. MaxCrashes
  BY <1>1, <1>4
<1>6. dirty' \in BOOLEAN
  <2>1. dirty' = dirty \/ dirty' = TRUE \/ dirty' = FALSE
    BY Zenon DEF Next, vars, ChangeReview, Export, WriteClip, WriteRecord, WriteManifest, Crash,
             Split, SaveSplit, SaveMerge, Merge, Validate, Perceive, Train, PerceiveOne
  <2>2. QED
    BY <1>1, <2>1, Zenon
<1>7. lost' \in BOOLEAN
  <2>1. lost' = lost \/ \E change \in BOOLEAN : lost' = (lost \/ change)
    BY Zenon DEF Next, vars, ChangeReview, Export, WriteClip, WriteRecord, WriteManifest, Crash,
             Split, SaveSplit, SaveMerge, Merge, Validate, Perceive, Train, PerceiveOne
  <2>2. QED
    BY <1>1, <2>1, Zenon
<1>8. QED
  BY <1>3, <1>5, <1>6, <1>7 DEF CountsOK

\* Whatever the reviewers typed, no record that the models refuse is on its way
\* to the corpus, in it, or merged (build_dataset_record, load_record).
THEOREM RecordsInvariant ==
  ASSUME ConstantsOK, RowsOK
  PROVE  Spec => []RecordsInv
<1>1. Init => RecordsInv
  BY RecordsBegin
<1>2. CorpusInv /\ RecordsInv /\ [Next]_vars => RecordsInv'
  BY RecordsKeep
<1>3. QED
  BY <1>1, <1>2, CorpusInvariant, PTL DEF Spec

\* Comparing neighbours by start finds every overlap in every record of the
\* corpus, for any events (_check_overlapping_incompatible_labels).
THEOREM NeighboursStaySufficient ==
  ASSUME ConstantsOK, RowsOK
  PROVE  Spec => []NeighboursSuffice
<1>1. ASSUME RecordsInv
      PROVE  NeighboursSuffice
  <2>1. ASSUME NEW id \in DOMAIN files, files[id] # Torn
        PROVE  NeighboursOverlap(files[id].events) <=>
                 \E i, j \in DOMAIN files[id].events :
                   /\ i # j /\ files[id].events[i].start < files[id].events[j].end
                   /\ files[id].events[j].start < files[id].events[i].end
    <3>1. PICK e : e = files[id].events
      OBVIOUS
    <3>2. RecordOK(files[id])
      BY <1>1, <2>1 DEF RecordsInv
    <3>3. Timed(e) /\ \A i \in DOMAIN e : e[i].start < e[i].end
      BY <3>1, <3>2 DEF RecordOK, WellFormed
    <3>4. QED
      BY <3>1, <3>3, NeighboursFound
  <2>2. QED
    BY <2>1 DEF NeighboursSuffice
<1>2. QED
  BY <1>1, RecordsInvariant, PTL

\* The corpus keeps its shape: a manifest is one or cannot be read, a record
\* has the id of its file and is well-formed, every count is in its bounds.
THEOREM CorpusIsTyped ==
  ASSUME ConstantsOK, RowsOK
  PROVE  Spec => []TypeOK
<1>1. Init => CountsOK
  BY RecordsBegin
<1>2. CorpusInv /\ CountsOK /\ [Next]_vars => CountsOK'
  BY CountsKeep
<1>3. ASSUME CorpusInv, RecordsInv, CountsOK
      PROVE  TypeOK
  <2>1. manifest \in {None, Torn} \/ DOMAIN manifest = DOMAIN NewManifest
    <3>1. ASSUME Lists(manifest, DOMAIN files)
          PROVE  DOMAIN manifest = DOMAIN NewManifest
      <4>1. PICK i, v, s : manifest = [ids |-> i, videos |-> v, splits |-> s]
        BY <3>1 DEF Lists
      <4>2. QED
        BY <4>1 DEF NewManifest
    <3>2. QED
      BY <1>3, <3>1 DEF CorpusInv, ManifestOK
  <2>2. \A id \in DOMAIN files : files[id] = Torn \/ (files[id].id = id /\ WellFormed(files[id]))
    BY <1>3 DEF CorpusInv, FilesOK, RecordsInv, RecordOK
  <2>3. \A p \in Apis : apis[p].stage \in {"idle", "clip", "record", "manifest"}
    BY <1>3 DEF CorpusInv, ApisOK, ApiOK
  <2>4. DOMAIN reviews = JobIds /\ \A j \in JobIds : reviews[j] \in Reviews
    BY <1>3 DEF RecordsInv
  <2>5. QED
    BY <1>3, <2>1, <2>2, <2>3, <2>4 DEF TypeOK, CountsOK
<1>4. QED
  BY <1>1, <1>2, <1>3, CorpusInvariant, RecordsInvariant, PTL DEF Spec

-----------------------------------------------------------------------------
(* The windows of a clip.                                                  *)

\* TrainingConfig: a window and a stride are above 0; so is the time between
\* two frames.
ClipsOK == Window \in Nat \ {0} /\ Stride \in Nat \ {0} /\ Steps \subseteq Nat \ {0}

\* The times of the frames go up.
ClipInv ==
  /\ \E S : clip \in Seq(S)
  /\ \A i \in 1 .. Len(clip) : clip[i].ms \in Nat
  /\ \A i, j \in 1 .. Len(clip) : i < j => clip[i].ms < clip[j].ms

LEMMA FrameKeeps ==
  ASSUME ClipInv, NEW f, NEW step \in Steps, ClipsOK, f.ms = Clips!NextTime(step),
         clip' = Append(clip, f)
  PROVE  ClipInv'
<1>1. PICK S : clip \in Seq(S)
  BY DEF ClipInv
<1>2. PICK n \in Nat : n = Len(clip)
  BY <1>1
<1>3. clip' \in Seq(S \cup {f}) /\ Len(clip') = n + 1 /\ clip'[n + 1] = f
      /\ \A i \in 1 .. n : clip'[i] = clip[i]
  BY <1>1, <1>2
<1>4. f.ms \in Nat /\ \A i \in 1 .. n : clip[i].ms < f.ms
  <2>1. CASE clip = <<>>
    <3>1. n = 0
      BY <1>2, <2>1
    <3>2. f.ms = 0
      BY <2>1 DEF Clips!NextTime
    <3>3. QED
      BY <3>1, <3>2
  <2>2. CASE clip # <<>>
    <3>1. clip # <<>> /\ n \in 1 .. n
      BY <1>1, <1>2, <2>2, EmptySeq
    <3>2. f.ms = clip[n].ms + step
      BY <1>2, <3>1 DEF Clips!NextTime, Clips!Last
    <3>3. step \in Nat \ {0} /\ clip[n].ms \in Nat
      BY <1>2, <3>1 DEF ClipsOK, ClipInv
    <3>4. \A i \in 1 .. n : clip[i].ms \in Nat /\ (i < n => clip[i].ms < clip[n].ms)
      BY <1>2, <3>1 DEF ClipInv
    <3>5. QED
      BY <3>2, <3>3, <3>4
  <2>3. QED
    BY <2>1, <2>2
<1>5. \A i \in 1 .. n + 1 : clip'[i].ms \in Nat
  BY <1>2, <1>3, <1>4 DEF ClipInv
<1>6. ASSUME NEW i \in 1 .. n + 1, NEW j \in 1 .. n + 1, i < j
      PROVE  clip'[i].ms < clip'[j].ms
  <2>1. i \in 1 .. n
    BY <1>6
  <2>2. CASE j = n + 1
    BY <1>3, <1>4, <2>1, <2>2
  <2>3. CASE j \in 1 .. n
    BY <1>2, <1>3, <1>6, <2>1, <2>3 DEF ClipInv
  <2>4. j = n + 1 \/ j \in 1 .. n
    OBVIOUS
  <2>5. QED
    BY <2>2, <2>3, <2>4
<1>7. QED
  BY <1>3, <1>5, <1>6 DEF ClipInv

LEMMA ClipKeeps ==
  ASSUME ClipsOK, ClipInv, [Clips!Next]_Clips!vars
  PROVE  ClipInv'
<1>1. ASSUME NEW step \in Steps, NEW out, Clips!Infer(step, out)
      PROVE  ClipInv'
  <2>1. PICK f : f = [ms |-> Clips!NextTime(step), out |-> out]
    OBVIOUS
  <2>2. f.ms = Clips!NextTime(step) /\ clip' = Append(clip, f)
    BY <1>1, <2>1 DEF Clips!Infer
  <2>3. QED
    BY <2>2, FrameKeeps
<1>2. ASSUME NEW step \in Steps, Clips!Sample(step)
      PROVE  ClipInv'
  <2>1. PICK f : f = [ms |-> Clips!NextTime(step), out |-> Clips!Silent]
    OBVIOUS
  <2>2. f.ms = Clips!NextTime(step) /\ clip' = Append(clip, f)
    BY <1>2, <2>1 DEF Clips!Sample
  <2>3. QED
    BY <2>2, FrameKeeps
<1>3. CASE UNCHANGED Clips!vars
  BY <1>3 DEF Clips!vars, ClipInv
<1>4. QED
  BY <1>1, <1>2, <1>3 DEF Clips!Next

\* A distance is a number of strides and a rest.
LEMMA StridesFit ==
  ASSUME ClipsOK, NEW d \in Nat
  PROVE  \E m \in Nat : /\ m % Stride = 0 /\ m - Stride <= d /\ d < m
                        /\ m - Stride \in Nat
<1>1. Stride \in Nat /\ Stride > 0
  BY DEF ClipsOK
<1>2. PICK q, r : q = d \div Stride /\ r = d % Stride
  OBVIOUS
<1>3. q \in Nat /\ r \in 0 .. Stride - 1 /\ d = Stride * q + r
  <2>1. r \in 0 .. Stride - 1
    BY <1>1, <1>2
  <2>2. q \in Nat
    BY <1>1, <1>2
  <2>3. d = Stride * q + r
    BY <1>1, <1>2, <2>1, <2>2
  <2>4. QED
    BY <2>1, <2>2, <2>3
<1>4. PICK k \in Nat, m \in Nat : k = q + 1 /\ m = Stride * k
  BY <1>1, <1>3
<1>5. m = Stride * q + Stride
  BY <1>1, <1>3, <1>4
<1>6. m % Stride = 0
  <2>1. (Stride * k) % Stride = 0
    BY <1>1, <1>4
  <2>2. QED
    BY <1>4, <2>1
<1>7. Stride * q \in Nat
  BY <1>1, <1>3
<1>8. QED
  BY <1>1, <1>3, <1>5, <1>6, <1>7

\* The first window over a frame: the clip begins there, or the frame is at
\* least a window after the start of the window before.
LEMMA FirstWindow ==
  ASSUME ClipsOK, Stride <= Window,
         NEW first \in Nat, NEW last \in Nat, NEW t \in Nat, first <= t, t < last
  PROVE  \E s \in first .. last :
           /\ (s - first) % Stride = 0 /\ (s > first => s - Stride + Window < last)
           /\ s <= t /\ t < s + Window
           /\ s = first \/ t >= s - Stride + Window
<1>1. /\ Stride \in Nat /\ Stride > 0 /\ Window \in Nat /\ Window > 0
  BY DEF ClipsOK
<1>2. CASE t < first + Window
  <2>1. (first - first) % Stride = 0
    BY <1>1
  <2>2. QED
    BY <1>1, <1>2, <2>1
<1>3. CASE t >= first + Window
  <2>1. PICK d \in Nat : d = t - first - Window
    BY <1>1, <1>3
  <2>2. PICK m \in Nat : m % Stride = 0 /\ m - Stride <= d /\ d < m
    BY StridesFit
  <2>3. PICK s \in Nat : s = first + m
    OBVIOUS
  <2>4. s - first = m /\ s - Stride + Window <= t /\ t < s + Window
    BY <1>1, <2>1, <2>2, <2>3
  <2>5. s <= t /\ s \in first .. last /\ s - Stride + Window < last
    BY <1>1, <2>3, <2>4
  <2>6. QED
    BY <2>2, <2>4, <2>5
<1>4. QED
  BY <1>1, <1>2, <1>3

\* An instance of the module counts as this one does.
LEMMA SameCount ==
  ASSUME NEW S
  PROVE  Clips!Cardinality(S) = Cardinality(S)
BY DEF Clips!Cardinality, Cardinality

\* A window with two frames is not dropped.
LEMMA TwoFrames ==
  ASSUME NEW n \in Nat, NEW S \in SUBSET (1 .. n), NEW i \in S, NEW j \in S, i # j
  PROVE  Clips!Cardinality(S) > 1
<1>1. IsFiniteSet(S)
  <2>1. IsFiniteSet(1 .. n)
    BY FS_Interval
  <2>2. QED
    BY <2>1, FS_Subset
<1>2. Cardinality({i}) = 1 /\ IsFiniteSet({i}) /\ {i} \in SUBSET S /\ {i} # S
  BY FS_Singleton
<1>3. Cardinality(S) \in Nat
  BY <1>1, FS_CardinalityType
<1>4. Cardinality({i}) < Cardinality(S)
  <2>1. Cardinality({i}) <= Cardinality(S) /\ (Cardinality(S) = Cardinality({i}) => S = {i})
    BY <1>1, <1>2, FS_Subset
  <2>2. QED
    BY <1>2, <1>3, <2>1
<1>5. Clips!Cardinality(S) = Cardinality(S)
  BY SameCount
<1>6. QED
  BY <1>2, <1>3, <1>4, <1>5

LEMMA FramesInReach ==
  ASSUME ClipsOK, ClipInv, clip # <<>>, Stride <= Window,
         NEW i \in DOMAIN clip, i \notin UNION Clips!Windows(Clips!Times)
  PROVE  \/ i = Len(clip)
         \/ \E j \in {i - 1, i + 1} \cap DOMAIN clip :
              Clips!Abs(clip[i].ms - clip[j].ms) > Window - Stride
<1>1. PICK S : clip \in Seq(S)
  BY DEF ClipInv
<1>2. PICK n, ms : n \in Nat /\ n = Len(clip) /\ n > 0 /\ ms = Clips!Times
  BY <1>1
<1>3. DOMAIN clip = 1 .. n /\ ms = [k \in 1 .. n |-> clip[k].ms]
  BY <1>1, <1>2 DEF Clips!Times
<1>4. /\ ms \in [1 .. n -> Nat] /\ \A k \in 1 .. n : ms[k] = clip[k].ms
      /\ \A j, k \in 1 .. n : j < k => ms[j] < ms[k]
  BY <1>2, <1>3 DEF ClipInv
<1>5. ms # <<>> /\ Len(ms) = n /\ DOMAIN ms = 1 .. n
  BY <1>2, <1>4
<1>6. PICK first \in Nat, last \in Nat : first = ms[1] /\ last = ms[n]
  BY <1>2, <1>4
<1> DEFINE In(s) == {k \in 1 .. n : ms[k] >= s /\ ms[k] < s + Window}
           starts == {s \in first .. last : /\ (s - first) % Stride = 0
                                            /\ s > first => s - Stride + Window < last}
<1>7. Clips!Windows(ms) = IF last - first < Window THEN {1 .. n}
                          ELSE {w \in {In(s) : s \in starts} : Clips!Cardinality(w) > 1}
  BY <1>5, <1>6 DEF Clips!Windows
<1>8. SUFFICES ASSUME i # n
               PROVE  \E j \in {i - 1, i + 1} \cap 1 .. n :
                        Clips!Abs(ms[i] - ms[j]) > Window - Stride
  BY <1>2, <1>3, <1>4
<1>9. i \in 1 .. n /\ i < n
  BY <1>2, <1>3, <1>8
<1>10. i \notin UNION Clips!Windows(ms)
  BY <1>2
<1>11. ~ last - first < Window
  BY <1>7, <1>9, <1>10
<1>12. PICK t : t = ms[i] /\ t \in Nat /\ first <= t /\ t < last
  BY <1>2, <1>4, <1>6, <1>9
<1>13. PICK s \in first .. last :
              /\ (s - first) % Stride = 0 /\ (s > first => s - Stride + Window < last)
              /\ s <= t /\ t < s + Window
              /\ s = first \/ t >= s - Stride + Window
  <2>1. first \in Nat /\ last \in Nat /\ t \in Nat /\ first <= t /\ t < last /\ Stride <= Window
    BY <1>12
  <2> HIDE DEF In, starts
  <2>2. QED
    BY <2>1, FirstWindow
<1>14. s \in starts /\ i \in In(s)
  BY <1>9, <1>12, <1>13
<1>15. \A j \in 1 .. n : j # i => j \notin In(s)
  <2>1. In(s) \notin {w \in {In(x) : x \in starts} : Clips!Cardinality(w) > 1}
    BY <1>7, <1>10, <1>11, <1>14
  <2>2. ~ Clips!Cardinality(In(s)) > 1
    BY <1>14, <2>1
  <2>3. In(s) \in SUBSET (1 .. n)
    OBVIOUS
  <2> HIDE DEF In
  <2>4. \A j \in In(s) : j # i => Clips!Cardinality(In(s)) > 1
    BY <1>2, <1>14, <2>3, TwoFrames
  <2>5. QED
    BY <2>2, <2>4
<1>16. /\ Stride \in Nat /\ Stride > 0 /\ Window \in Nat
  BY DEF ClipsOK
<1>17. CASE i = 1
  <2>1. 2 \in 1 .. n /\ 1 < 2
    BY <1>2, <1>9, <1>17
  <2>2. PICK u : u = ms[2] /\ u \in Nat /\ 2 \in 1 .. n /\ t < u
    BY <1>4, <1>9, <1>12, <1>17, <2>1
  <2>3. s = t
    BY <1>6, <1>12, <1>13, <1>17
  <2>4. u >= t + Window
    <3>1. 2 \notin In(s)
      BY <1>15, <1>17, <2>2
    <3>2. ~ (s <= u /\ u < s + Window)
      BY <2>2, <3>1
    <3>3. QED
      BY <1>12, <1>16, <2>2, <2>3, <3>2
  <2>5. Clips!Abs(t - u) > Window - Stride
    BY <1>12, <1>16, <2>2, <2>4 DEF Clips!Abs
  <2>6. QED
    BY <1>12, <1>17, <2>2, <2>5
<1>18. CASE i # 1
  <2>1. PICK j \in 1 .. n : j = i - 1 /\ j < i
    BY <1>2, <1>9, <1>18
  <2>2. PICK u \in Nat : u = ms[j] /\ u < t /\ first <= u
    BY <1>2, <1>4, <1>6, <1>9, <1>12, <2>1
  <2>3. u < s
    BY <1>12, <1>13, <1>15, <1>16, <2>1, <2>2
  <2>4. t >= s - Stride + Window
    BY <1>13, <2>2, <2>3
  <2>5. Clips!Abs(t - u) > Window - Stride
    BY <1>12, <1>13, <1>16, <2>2, <2>3, <2>4 DEF Clips!Abs
  <2>6. QED
    BY <1>12, <2>1, <2>2, <2>5
<1>19. QED
  BY <1>17, <1>18

\* A frame of any clip is seen in training but for the last one, or where the
\* frames beside it are further apart than the windows overlap (slice_windows).
THEOREM FramesStayTrained ==
  ASSUME ClipsOK
  PROVE  Clips!Spec => []Clips!FramesAreTrained
<1>1. ASSUME Clips!Init
      PROVE  ClipInv
  <2>1. clip = <<>>
    BY <1>1 DEF Clips!Init
  <2>2. Len(<<>>) = 0 /\ <<>> \in Seq({})
    OBVIOUS
  <2>3. QED
    BY <2>1, <2>2 DEF ClipInv
<1>2. ClipInv /\ [Clips!Next]_Clips!vars => ClipInv'
  BY ClipKeeps
<1>3. ClipInv => Clips!FramesAreTrained
  BY FramesInReach DEF Clips!FramesAreTrained
<1>4. QED
  BY <1>1, <1>2, <1>3, PTL DEF Clips!Spec

-----------------------------------------------------------------------------
(* The events of a clip that is decoded.                                   *)

\* What the provers are told of EventDecode's lists is said of PythonLists here.
LEMMA ClipsLists ==
  /\ \A places, k : Clips!Nth(places, k) = Nth(places, k)
  /\ \A keys : Clips!Sorting(keys) = Sorting(keys)
  /\ \A T : Clips!Cardinality(T) = Cardinality(T)
  /\ \A n \in Nat : \A S : \A f \in [1 .. n -> S] : Clips!List(f) = f /\ Len(f) = n
<1>0. \A T : Clips!Cardinality(T) = Cardinality(T)
  BY DEF Clips!Cardinality, Cardinality
<1>1. \A places, k : Clips!Nth(places, k) = Nth(places, k)
  BY <1>0 DEF Clips!Nth, Nth
<1>2. ASSUME NEW keys, NEW i, NEW j
      PROVE  Clips!Sooner(keys, i, j) = Sooner(keys, i, j)
  BY DEF Clips!Sooner, Sooner
<1>3. ASSUME NEW keys, NEW i
      PROVE  Clips!Place(keys, i) = Place(keys, i)
  BY <1>0, <1>2 DEF Clips!Place, Place
<1>4. ASSUME NEW keys
      PROVE  Clips!Sorting(keys) = Sorting(keys)
  BY <1>3 DEF Clips!Sorting, Sorting
<1>5. ASSUME NEW n \in Nat, NEW S, NEW f \in [1 .. n -> S]
      PROVE  Clips!List(f) = f /\ Len(f) = n
  <2>1. f \in Seq(S) /\ Len(f) = n
    OBVIOUS
  <2>2. f \o <<>> = f
    BY <2>1
  <2>3. QED
    BY <2>1, <2>2 DEF Clips!List
<1>6. QED
  BY <1>0, <1>1, <1>4, <1>5

\* What holds of 0 and of each next number holds of all of them.
LEMMA UpTo ==
  ASSUME NEW n \in Nat, NEW S, 0 \in S, \A k \in 0 .. n - 1 : k \in S => k + 1 \in S
  PROVE  \A k \in 0 .. n : k \in S
<1> DEFINE T == {k \in 1 .. n : k \notin S}
<1>1. SUFFICES ASSUME NEW x \in 0 .. n, x \notin S
               PROVE  FALSE
  OBVIOUS
<1>2. T \in SUBSET (1 .. n) /\ T # {}
  <2>1. x \in T
    BY <1>1
  <2>2. QED
    BY <2>1
<1>3. PICK m \in T : \A k \in T : m <= k
  <2> HIDE DEF T
  <2>1. QED
    BY <1>2, Least
<1>4. m \in 1 .. n /\ m \notin S
  BY <1>3
<1>5. m - 1 \in 0 .. n - 1 /\ ~ m <= m - 1 /\ m - 1 + 1 = m /\ m - 1 \in 0 .. n
  BY <1>4
<1>6. m - 1 \in S
  <2>1. CASE m - 1 = 0
    BY <2>1
  <2>2. CASE m - 1 \in 1 .. n
    BY <1>3, <1>5, <2>2
  <2>3. m - 1 = 0 \/ m - 1 \in 1 .. n
    BY <1>4
  <2>4. QED
    BY <2>1, <2>2, <2>3
<1>7. QED
  BY <1>4, <1>5, <1>6

\* A loop of m rounds from a, the n-th of which makes G[n][x] of x.
Loops(m, S, a, G) ==
  \E f \in [0 .. m -> S] : f[0] = a /\ \A n \in 1 .. m : f[n] = G[n][f[n - 1]]

LEMMA LoopRuns ==
  ASSUME NEW m \in Nat, NEW S, NEW a \in S, NEW G \in [1 .. m -> [S -> S]]
  PROVE  Loops(m, S, a, G)
<1> DEFINE Runs(f, k) == f[0] = a /\ \A n \in 1 .. k : f[n] = G[n][f[n - 1]]
           T == {k \in 0 .. m : \E f \in [0 .. k -> S] : Runs(f, k)}
<1>1. 0 \in T
  <2>1. [n \in 0 .. 0 |-> a] \in [0 .. 0 -> S] /\ [n \in 0 .. 0 |-> a][0] = a
    OBVIOUS
  <2>2. \A n \in 1 .. 0 : FALSE
    OBVIOUS
  <2>3. Runs([n \in 0 .. 0 |-> a], 0)
    BY <2>1, <2>2
  <2>4. 0 \in 0 .. m
    OBVIOUS
  <2> HIDE DEF Runs
  <2>5. QED
    BY <2>1, <2>3, <2>4
<1>2. ASSUME NEW k \in 0 .. m - 1, k \in T
      PROVE  k + 1 \in T
  <2>1. PICK f \in [0 .. k -> S] : Runs(f, k)
    BY <1>2
  <2> DEFINE g == [n \in 0 .. k + 1 |-> IF n = k + 1 THEN G[k + 1][f[k]] ELSE f[n]]
  <2>2. k + 1 \in 1 .. m /\ k + 1 \in 0 .. m /\ k \in 0 .. k
    OBVIOUS
  <2>3. G[k + 1][f[k]] \in S
    BY <2>1, <2>2
  <2>4. g \in [0 .. k + 1 -> S]
    BY <2>1, <2>3
  <2>5. ASSUME NEW n \in 1 .. k + 1
        PROVE  g[n] = G[n][g[n - 1]]
    <3>1. CASE n = k + 1
      <4>1. n - 1 = k /\ k # k + 1 /\ k \in 0 .. k + 1
        BY <3>1
      <4>2. g[n - 1] = f[k] /\ g[n] = G[k + 1][f[k]]
        BY <3>1, <4>1
      <4>3. QED
        BY <3>1, <4>2
    <3>2. CASE n # k + 1
      <4>1. n \in 1 .. k /\ n - 1 \in 0 .. k + 1 /\ n - 1 # k + 1 /\ n \in 0 .. k + 1
        BY <3>2
      <4>2. g[n] = f[n] /\ g[n - 1] = f[n - 1]
        BY <3>2, <4>1
      <4>3. QED
        BY <2>1, <4>1, <4>2
    <3>3. QED
      BY <3>1, <3>2
  <2>6. g[0] = a
    BY <2>1
  <2> HIDE DEF g
  <2>7. Runs(g, k + 1)
    BY <2>5, <2>6
  <2> HIDE DEF Runs
  <2>8. QED
    BY <2>2, <2>4, <2>7
<1> HIDE DEF T
<1>3. \A k \in 0 .. m : k \in T
  BY <1>1, <1>2, UpTo
<1>4. m \in T
  BY <1>3
<1>5. QED
  BY <1>4 DEF T, Loops

\* A sum of integers is one, and so is their mean.
LEMMA MeanIsInt ==
  ASSUME NEW n \in Nat \ {0}, NEW v \in [1 .. n -> Int]
  PROVE  Clips!Total(v) \in Int /\ (Clips!Unit * Clips!Total(v)) \div n \in Int
<1> DEFINE Sums(f) == f = [k \in 0 .. n |-> IF k = 0 THEN 0 ELSE f[k - 1] + v[k]]
           G == [k \in 1 .. n |-> [x \in Int |-> x + v[k]]]
           s == CHOOSE f : Sums(f)
           T == {k \in 0 .. n : s[k] \in Int}
<1>1. Len(v) = n
  BY ClipsLists
<1>2. Clips!Total(v) = s[n]
  BY <1>1 DEF Clips!Total
<1>3. \E f : Sums(f)
  <2>0. n \in Nat /\ 0 \in Int /\ G \in [1 .. n -> [Int -> Int]]
    OBVIOUS
  <2> HIDE DEF G
  <2>1. Loops(n, Int, 0, G)
    BY ONLY <2>0, LoopRuns, Zenon
  <2>2. PICK f \in [0 .. n -> Int] : f[0] = 0 /\ \A k \in 1 .. n : f[k] = G[k][f[k - 1]]
    BY <2>1 DEF Loops
  <2>3. ASSUME NEW k \in 1 .. n
        PROVE  f[k] = f[k - 1] + v[k]
    <3>1. k - 1 \in 0 .. n
      OBVIOUS
    <3>2. f[k - 1] \in Int
      BY <2>2, <3>1
    <3>3. QED
      BY <2>2, <3>2 DEF G
  <2>4. \A k \in 0 .. n : f[k] = IF k = 0 THEN 0 ELSE f[k - 1] + v[k]
    <3>1. \A k \in 0 .. n : k = 0 \/ k \in 1 .. n
      OBVIOUS
    <3>2. QED
      BY <2>2, <2>3, <3>1
  <2>5. f = [k \in 0 .. n |-> f[k]]
    OBVIOUS
  <2>6. Sums(f)
    BY <2>4, <2>5
  <2>7. QED
    BY <2>6
<1>4. Sums(s)
  <2> HIDE DEF Sums
  <2>1. QED
    BY <1>3
<1> HIDE DEF s
<1>5. \A k \in 0 .. n : s[k] = IF k = 0 THEN 0 ELSE s[k - 1] + v[k]
  BY <1>4
<1>6. 0 \in T
  BY <1>5
<1>7. ASSUME NEW k \in 0 .. n - 1, k \in T
      PROVE  k + 1 \in T
  <2>1. k + 1 \in 1 .. n /\ k + 1 \in 0 .. n /\ k + 1 # 0 /\ k + 1 - 1 = k
    OBVIOUS
  <2>2. s[k + 1] = s[k] + v[k + 1]
    BY <1>5, <2>1
  <2>3. s[k] \in Int /\ v[k + 1] \in Int
    BY <1>7, <2>1
  <2>4. QED
    BY <2>1, <2>2, <2>3
<1> HIDE DEF T
<1>8. \A k \in 0 .. n : k \in T
  BY <1>6, <1>7, UpTo
<1>9. s[n] \in Int
  BY <1>8 DEF T
<1>10. PICK x \in Int : x = Clips!Total(v)
  BY <1>2, <1>9
<1>11. (60 * x) \div n \in Int
  OBVIOUS
<1>12. QED
  BY <1>10, <1>11 DEF Clips!Unit

\* Of two numbers.
LEMMA ClipsMaxOfTwo ==
  ASSUME NEW a \in Int, NEW b \in Int
  PROVE  /\ Clips!Max({a, b}) = IF a >= b THEN a ELSE b
         /\ Clips!Min({a, b}) = IF a <= b THEN a ELSE b
<1>1. Clips!Max({a, b}) = IF a >= b THEN a ELSE b
  BY DEF Clips!Max
<1>2. Clips!Min({a, b}) = IF a <= b THEN a ELSE b
  BY DEF Clips!Min
<1>3. QED
  BY <1>1, <1>2

\* The argmax of a row of integers is one of its places.
LEMMA ArgMaxIs ==
  ASSUME NEW a \in Nat \ {0}, NEW b \in Nat, a <= b, NEW f \in [a .. b -> Int]
  PROVE  Clips!ArgMax(f) \in a .. b
<1> DEFINE T == {i \in a .. b : \A j \in a .. b : f[j] <= f[i]}
           H == {k \in 0 .. b - a : \E i \in a .. a + k : \A j \in a .. a + k : f[j] <= f[i]}
<1>1. b - a \in Nat
  OBVIOUS
<1>2. 0 \in H
  <2>1. a .. a + 0 = {a} /\ f[a] \in Int
    OBVIOUS
  <2>2. f[a] <= f[a]
    BY <2>1
  <2>3. QED
    BY <1>1, <2>1, <2>2
<1>3. ASSUME NEW k \in 0 .. b - a - 1, k \in H
      PROVE  k + 1 \in H
  <2>1. PICK i \in a .. a + k : \A j \in a .. a + k : f[j] <= f[i]
    BY <1>3
  <2>2. k + 1 \in 0 .. b - a /\ a + k + 1 \in a .. b /\ i \in a .. b
    OBVIOUS
  <2>3. PICK x \in Int, y \in Int : x = f[i] /\ y = f[a + k + 1]
    BY <2>2
  <2>4. \A j \in a .. a + (k + 1) : j \in a .. a + k \/ j = a + k + 1
    OBVIOUS
  <2>5. i \in a .. a + (k + 1) /\ a + k + 1 \in a .. a + (k + 1)
    OBVIOUS
  <2>6. CASE y <= x
    <3>1. \A j \in a .. a + (k + 1) : f[j] <= f[i]
      BY <2>1, <2>3, <2>4, <2>6
    <3>2. QED
      BY <2>2, <2>5, <3>1
  <2>7. CASE ~ y <= x
    <3>1. ASSUME NEW j \in a .. a + (k + 1)
          PROVE  f[j] <= f[a + k + 1]
      <4>1. CASE j \in a .. a + k
        <5>1. j \in a .. b
          OBVIOUS
        <5>2. PICK z \in Int : z = f[j]
          BY <5>1
        <5>3. z <= x
          BY <2>1, <2>3, <4>1, <5>2
        <5>4. z <= y
          BY <2>7, <5>3
        <5>5. QED
          BY <2>3, <5>2, <5>4
      <4>2. CASE j = a + k + 1
        BY <2>3, <4>2
      <4>3. QED
        BY <2>4, <4>1, <4>2
    <3>2. QED
      BY <2>2, <2>5, <3>1
  <2>8. QED
    BY <2>6, <2>7
<1> HIDE DEF H
<1>4. b - a \in H
  <2>1. \A k \in 0 .. b - a : k \in H
    BY <1>1, <1>2, <1>3, UpTo
  <2>2. QED
    BY <1>1, <2>1
<1>5. T # {}
  <2>1. a + (b - a) = b
    OBVIOUS
  <2>2. QED
    BY <1>4, <2>1 DEF H
<1>6. T \in SUBSET (1 .. b)
  OBVIOUS
<1>7. PICK m \in T : \A k \in T : m <= k
  <2> HIDE DEF T
  <2>1. QED
    BY <1>5, <1>6, Least
<1>8. Clips!Min(T) \in T
  <2> HIDE DEF T
  <2>1. QED
    BY <1>7 DEF Clips!Min
<1>9. DOMAIN f = a .. b
  OBVIOUS
<1>10. Clips!ArgMax(f) = Clips!Min(T)
  BY <1>9 DEF Clips!ArgMax
<1>11. QED
  BY <1>8, <1>10

\* A frame, with what a model said of it.
Frame == [ms : Nat, out : Clips!Output]

\* The frames of a clip: their times go up.
FramesOK(fs) ==
  fs \in Seq(Frame) /\ \A i, j \in 1 .. Len(fs) : i < j => fs[i].ms < fs[j].ms

\* A run lies in the clip.
LEMMA RunIs ==
  ASSUME NEW fs, FramesOK(fs), NEW c, NEW k, NEW r \in Clips!Runs(fs, c, k)
  PROVE  /\ Len(fs) \in Nat /\ DOMAIN fs = 1 .. Len(fs)
         /\ r = <<r[1], r[2]>> /\ r[1] \in 1 .. Len(fs) /\ r[2] \in 2 .. Len(fs) + 1
         /\ r[1] < r[2]
BY DEF FramesOK, Clips!Runs

\* Two runs of a class do not begin together.
LEMMA RunsBeginAlone ==
  ASSUME NEW fs, FramesOK(fs), NEW c, NEW k,
         NEW r \in Clips!Runs(fs, c, k), NEW q \in Clips!Runs(fs, c, k), r[1] = q[1]
  PROVE  r = q
<1> DEFINE On(i) == i \in DOMAIN fs /\ fs[i].out.class[c] >= k.activation
<1>1. /\ \A i \in r[1] .. r[2] - 1 : On(i)
      /\ \A i \in q[1] .. q[2] - 1 : On(i)
      /\ ~ On(r[2]) /\ ~ On(q[2])
  BY DEF Clips!Runs
<1> HIDE DEF On
<1>2. /\ r = <<r[1], r[2]>> /\ q = <<q[1], q[2]>>
      /\ r[1] \in Int /\ r[2] \in Int /\ q[2] \in Int /\ r[1] < r[2] /\ q[1] < q[2]
  BY RunIs
<1>3. ~ r[2] < q[2] /\ ~ q[2] < r[2]
  BY <1>1, <1>2
<1>4. QED
  BY <1>2, <1>3

\* A boundary is looked for among the frames.
LEMMA RefineIs ==
  ASSUME NEW fs, FramesOK(fs), NEW c \in Classes, NEW k, NEW r \in Clips!Runs(fs, c, k),
         NEW head \in {"start", "end"}, Margin \in Nat
  PROVE  Clips!Refine(fs, c, r, head) \in 1 .. Len(fs)
<1>1. PICK n \in Nat, lo \in Int, hi \in Int, m \in Nat :
        n = Len(fs) /\ lo = r[1] /\ hi = r[2] /\ m = Margin
        /\ lo \in 1 .. n /\ hi \in 2 .. n + 1 /\ lo < hi
  BY RunIs
<1> DEFINE a == Clips!Max({1, lo - m})
           b == Clips!Min({n, hi - 1 + m})
           f == [i \in a .. b |-> fs[i].out[head][c]]
<1>a. 1 <= lo /\ lo <= n /\ lo <= hi - 1
  BY ONLY <1>1, n \in Nat, lo \in Int, hi \in Int
<1>m. lo - m \in Int /\ n \in Int /\ hi - 1 + m \in Int
      /\ lo - m <= lo /\ lo <= hi - 1 + m
  BY ONLY <1>a, n \in Nat, lo \in Int, hi \in Int, m \in Nat
<1>2. a \in Nat \ {0} /\ a <= lo
  <2>1. a = IF 1 >= lo - m THEN 1 ELSE lo - m
    BY ONLY <1>m, ClipsMaxOfTwo
  <2>2. QED
    BY ONLY <1>a, <1>m, <2>1, n \in Nat, lo \in Int, hi \in Int, m \in Nat
<1>3. b \in Nat /\ b <= n /\ lo <= b
  <2>1. b = IF n <= hi - 1 + m THEN n ELSE hi - 1 + m
    BY ONLY <1>m, ClipsMaxOfTwo
  <2>2. QED
    BY ONLY <1>a, <1>m, <2>1, n \in Nat, lo \in Int, hi \in Int, m \in Nat
<1> HIDE DEF a, b
<1>4. f \in [a .. b -> Int]
  <2>1. ASSUME NEW i \in a .. b
        PROVE  fs[i].out[head][c] \in Int
    <3>1. i \in 1 .. n
      BY <1>1, <1>2, <1>3
    <3>2. fs[i] \in Frame
      BY <1>1, <3>1 DEF FramesOK
    <3>3. fs[i].out \in Clips!Output
      BY <3>2 DEF Frame
    <3>4. fs[i].out[head] \in [Classes -> 0 .. 100]
      BY <3>3 DEF Clips!Output, Clips!Probabilities
    <3>5. fs[i].out[head][c] \in 0 .. 100
      BY <3>4
    <3>6. QED
      BY <3>5
  <2>2. QED
    BY <2>1
<1> HIDE DEF f
<1>5. a <= b
  BY <1>1, <1>2, <1>3
<1>6. Clips!ArgMax(f) \in a .. b
  BY <1>2, <1>3, <1>4, <1>5, ArgMaxIs
<1>7. Clips!Refine(fs, c, r, head) = Clips!ArgMax(f)
  BY <1>1 DEF Clips!Refine, f, a, b
<1>8. QED
  BY <1>1, <1>2, <1>3, <1>6, <1>7

\* An event of a class, before it is named.
CandidateOf(c) == [class : {c}, start : Int, end : Int, confidence : Int, outcome : 1 .. 3]

\* What the machine's constants are: a model says a percentage of each class.
DecodeOK ==
  /\ IsFiniteSet(Classes) /\ Outputs \subseteq Clips!Output /\ Configs \subseteq Clips!Config
  /\ Margin \in Nat

\* The mean of percentages over the frames of a run is an integer.
LEMMA MeansAre ==
  ASSUME NEW fs, FramesOK(fs), NEW c \in Classes, NEW k, NEW r \in Clips!Runs(fs, c, k)
  PROVE  LET frames == Clips!List([i \in 1 .. r[2] - r[1] |-> fs[r[1] + i - 1]])
         IN  /\ Clips!Mean(LAMBDA f : f.out.class[c], frames) \in Int
             /\ \A o \in 1 .. 3 : Clips!Mean(LAMBDA f : f.out.outcome[o], frames) \in Int
<1>1. PICK n \in Nat, lo \in Int, hi \in Int :
        n = Len(fs) /\ lo = r[1] /\ hi = r[2] /\ lo \in 1 .. n /\ hi \in 2 .. n + 1 /\ lo < hi
  BY RunIs
<1>a. 1 <= lo /\ lo < hi /\ hi <= n + 1
  BY <1>1
<1>2. PICK d \in Nat \ {0} : d = hi - lo
  BY <1>a
<1> DEFINE g == [i \in 1 .. d |-> fs[lo + i - 1]]
<1>3. g \in [1 .. d -> Frame]
  <2>1. ASSUME NEW i \in 1 .. d
        PROVE  fs[lo + i - 1] \in Frame
    <3>1. lo + i - 1 \in 1 .. n
      BY ONLY <1>a, <1>2, n \in Nat, lo \in Int, hi \in Int, d \in Nat \ {0}, i \in 1 .. d
    <3>2. QED
      BY <1>1, <3>1 DEF FramesOK
  <2>2. QED
    BY <2>1
<1> DEFINE frames == Clips!List([i \in 1 .. r[2] - r[1] |-> fs[r[1] + i - 1]])
<1>4. frames = g /\ Len(g) = d /\ DOMAIN g = 1 .. d
  <2>1. frames = Clips!List(g)
    BY <1>1, <1>2
  <2> HIDE DEF g, frames
  <2>2. Clips!List(g) = g /\ Len(g) = d
    BY <1>3, ClipsLists
  <2>3. QED
    BY <1>3, <2>1, <2>2
<1> HIDE DEF g, frames
<1>5. Clips!Mean(LAMBDA f : f.out.class[c], frames) \in Int
  <2> DEFINE v == [i \in 1 .. d |-> g[i].out.class[c]]
  <2>1. v \in [1 .. d -> Int]
    <3>1. ASSUME NEW i \in 1 .. d
          PROVE  g[i].out.class[c] \in Int
      <4>1. g[i].out.class \in [Classes -> 0 .. 100]
        BY <1>3 DEF Frame, Clips!Output, Clips!Probabilities
      <4>2. g[i].out.class[c] \in 0 .. 100
        BY <4>1
      <4>3. QED
        BY <4>2
    <3>2. QED
      BY <3>1
  <2>2. Clips!Mean(LAMBDA f : f.out.class[c], frames) = (Clips!Unit * Clips!Total(v)) \div d
    BY <1>4 DEF Clips!Mean, Clips!SumOver
  <2> HIDE DEF v
  <2>3. QED
    BY <2>1, <2>2, MeanIsInt
<1>6. ASSUME NEW o \in 1 .. 3
      PROVE  Clips!Mean(LAMBDA f : f.out.outcome[o], frames) \in Int
  <2> DEFINE v == [i \in 1 .. d |-> g[i].out.outcome[o]]
  <2>1. v \in [1 .. d -> Int]
    <3>1. ASSUME NEW i \in 1 .. d
          PROVE  g[i].out.outcome[o] \in Int
      <4>1. g[i].out.outcome \in [1 .. 3 -> 0 .. 100]
        BY <1>3 DEF Frame, Clips!Output
      <4>2. g[i].out.outcome[o] \in 0 .. 100
        BY <4>1
      <4>3. QED
        BY <4>2
    <3>2. QED
      BY <3>1
  <2>2. Clips!Mean(LAMBDA f : f.out.outcome[o], frames) = (Clips!Unit * Clips!Total(v)) \div d
    BY <1>4 DEF Clips!Mean, Clips!SumOver
  <2> HIDE DEF v
  <2>3. QED
    BY <2>1, <2>2, MeanIsInt
<1>7. QED
  BY <1>5, <1>6 DEF frames

\* The event of a run; without boundary heads it covers the run.
LEMMA CandidateIs ==
  ASSUME DecodeOK, NEW fs, FramesOK(fs), NEW c \in Classes, NEW k, NEW r \in Clips!Runs(fs, c, k)
  PROVE  LET e == Clips!Candidate(fs, c, r, k)
         IN  /\ e \in CandidateOf(c)
             /\ ~ k.heads => e.start = fs[r[1]].ms /\ fs[r[2] - 1].ms <= e.end
<1>1. PICK n \in Nat, lo \in Int, hi \in Int :
        n = Len(fs) /\ lo = r[1] /\ hi = r[2] /\ lo \in 1 .. n /\ hi \in 2 .. n + 1 /\ lo < hi
  BY RunIs
<1>2. ASSUME NEW i \in 1 .. n
      PROVE  fs[i].ms \in Nat
  <2>1. fs[i] \in Frame
    BY <1>1 DEF FramesOK
  <2>2. QED
    BY <2>1 DEF Frame
<1> DEFINE from == IF k.heads THEN Clips!Refine(fs, c, r, "start") ELSE r[1]
           a == Clips!Min({from, r[2] - 1})
           after == Clips!FrameAfter(fs, c, r, k)
           b == Clips!Max({after, a + 1})
           z == Clips!Min({b, n})
<1>3. from \in 1 .. n /\ (~ k.heads => from = lo)
  <2>1. CASE k.heads
    <3>1. Clips!Refine(fs, c, r, "start") \in 1 .. n
      BY <1>1, RefineIs DEF DecodeOK
    <3>2. QED
      BY <2>1, <3>1
  <2>2. CASE ~ k.heads
    BY <1>1, <2>2
  <2>3. QED
    BY <2>1, <2>2
<1>4. after \in 2 .. n + 1 /\ (~ k.heads => after = hi)
  <2>1. CASE k.heads
    <3>1. Clips!Refine(fs, c, r, "end") \in 1 .. n
      BY <1>1, RefineIs DEF DecodeOK
    <3>2. PICK x \in 1 .. n : x = Clips!Refine(fs, c, r, "end")
      BY <3>1
    <3>3. after = x + 1
      BY <2>1, <3>2 DEF Clips!FrameAfter
    <3>4. QED
      BY <2>1, <3>2, <3>3
  <2>2. CASE ~ k.heads
    BY <1>1, <2>2 DEF Clips!FrameAfter
  <2>3. QED
    BY <2>1, <2>2
<1> HIDE DEF from, after
<1>5. PICK x \in Int, y \in Int : x = from /\ y = after
  BY <1>3, <1>4
<1>6. 1 <= x /\ x <= n /\ 2 <= y /\ y <= n + 1 /\ (~ k.heads => x = lo /\ y = hi)
      /\ 1 <= lo /\ lo <= n /\ 2 <= hi /\ hi <= n + 1 /\ lo < hi
  BY <1>1, <1>3, <1>4, <1>5
<1>7. a = IF x <= hi - 1 THEN x ELSE hi - 1
  <2>1. hi - 1 \in Int
    OBVIOUS
  <2>2. Clips!Min({x, hi - 1}) = IF x <= hi - 1 THEN x ELSE hi - 1
    BY <2>1, ClipsMaxOfTwo
  <2>3. QED
    BY <1>1, <1>5, <2>2
<1> HIDE DEF a
<1>8. PICK u \in Int : u = a /\ 1 <= u /\ u <= n /\ (~ k.heads => u = lo)
  <2>1. a \in Int /\ 1 <= a /\ a <= n
    BY <1>6, <1>7
  <2>2. ~ k.heads => a = lo
    BY <1>6, <1>7
  <2>3. QED
    BY <2>1, <2>2
<1>9. b = IF y >= u + 1 THEN y ELSE u + 1
  <2>1. u + 1 \in Int
    OBVIOUS
  <2>2. Clips!Max({y, u + 1}) = IF y >= u + 1 THEN y ELSE u + 1
    BY <2>1, ClipsMaxOfTwo
  <2>3. QED
    BY <1>5, <1>8, <2>2
<1> HIDE DEF b
<1>10. PICK v \in Int : v = b /\ 2 <= v /\ (~ k.heads => v = hi)
  <2>1. b \in Int /\ 2 <= b
    BY <1>6, <1>8, <1>9
  <2>2. ~ k.heads => b = hi
    BY <1>6, <1>8, <1>9
  <2>3. QED
    BY <2>1, <2>2
<1>11. z = IF v <= n THEN v ELSE n
  <2>1. Clips!Min({v, n}) = IF v <= n THEN v ELSE n
    BY ONLY n \in Int, v \in Int, ClipsMaxOfTwo
  <2>2. QED
    BY <1>10, <2>1
<1> HIDE DEF z
<1>12. PICK w \in Int : w = z /\ 1 <= w /\ w <= n /\ (~ k.heads => hi - 1 <= w)
  <2>1. z \in Int /\ 1 <= z /\ z <= n
    BY <1>6, <1>10, <1>11
  <2>2. ~ k.heads => hi - 1 <= z
    BY <1>6, <1>10, <1>11
  <2>3. QED
    BY <2>1, <2>2
<1> DEFINE frames == Clips!List([i \in 1 .. r[2] - r[1] |-> fs[r[1] + i - 1]])
           mean == Clips!Mean(LAMBDA f : f.out.class[c], frames)
           outcomes == [o \in 1 .. 3 |-> Clips!Mean(LAMBDA f : f.out.outcome[o], frames)]
<1>13. mean \in Int /\ outcomes \in [1 .. 3 -> Int]
  BY MeansAre
<1>14. Clips!Candidate(fs, c, r, k)
         = [class |-> c, start |-> fs[a].ms, end |-> fs[z].ms, confidence |-> mean,
            outcome |-> Clips!ArgMax(outcomes)]
  BY <1>1 DEF Clips!Candidate, a, b, z, from, after
<1> HIDE DEF frames, mean, outcomes
<1>15. Clips!ArgMax(outcomes) \in 1 .. 3
  <2>1. 1 \in Nat \ {0} /\ 3 \in Nat /\ 1 <= 3
    OBVIOUS
  <2>2. QED
    BY ONLY <1>13, <2>1, ArgMaxIs, Zenon
<1>16. u \in 1 .. n /\ w \in 1 .. n
  BY <1>8, <1>12
<1>17. fs[a].ms \in Int /\ fs[z].ms \in Int
  BY <1>2, <1>8, <1>12, <1>16
<1>18. ASSUME ~ k.heads
       PROVE  fs[a].ms = fs[r[1]].ms /\ fs[r[2] - 1].ms <= fs[z].ms
  <2>1. a = lo /\ hi - 1 \in 1 .. n /\ hi - 1 <= w
    BY <1>6, <1>8, <1>12, <1>18
  <2>2. fs[a] = fs[r[1]] /\ fs[r[2] - 1] = fs[hi - 1] /\ fs[z] = fs[w]
    BY <1>1, <1>12, <2>1
  <2>3. PICK p \in Nat, q \in Nat : p = fs[hi - 1].ms /\ q = fs[w].ms
    BY <1>2, <1>16, <2>1
  <2>4. hi - 1 < w => p < q
    BY <1>1, <1>16, <2>1, <2>3 DEF FramesOK
  <2>5. hi - 1 = w => p = q
    BY <2>3
  <2>6. hi - 1 < w \/ hi - 1 = w
    BY <2>1
  <2>7. p <= q
    BY <2>4, <2>5, <2>6
  <2>8. QED
    BY <2>2, <2>3, <2>7
<1>19. QED
  BY <1>13, <1>14, <1>15, <1>17, <1>18 DEF CandidateOf

Spans(c) == {e \in CandidateOf(c) : e.start <= e.end}

\* The events of a class: each run that is long enough has one.
LEMMA CandidatesAre ==
  ASSUME DecodeOK, NEW fs, FramesOK(fs), NEW c \in Classes, NEW k, k.min \in Nat
  PROVE  LET es == Clips!ClassCandidates(fs, c, k)
         IN  /\ es \in Seq(Spans(c))
             /\ \A r \in Clips!Runs(fs, c, k) :
                  LET e == Clips!Candidate(fs, c, r, k)
                  IN  e.end - e.start >= k.min => \E i \in 1 .. Len(es) : es[i] = e
<1> DEFINE event(r) == Clips!Candidate(fs, c, r, k)
           long == {r \in Clips!Runs(fs, c, k) : event(r).end - event(r).start >= k.min}
           first == {r[1] : r \in long}
           m == Clips!Cardinality(first)
           Run(i) == CHOOSE r \in long : r[1] = Clips!Nth(first, i)
           g == [i \in 1 .. m |-> event(Run(i))]
<1>1. ASSUME NEW r \in long
      PROVE  event(r) \in Spans(c)
  <2>1. event(r) \in CandidateOf(c)
    BY CandidateIs
  <2>2. event(r).end - event(r).start >= k.min
    OBVIOUS
  <2> HIDE DEF event, long
  <2>3. event(r).start \in Int /\ event(r).end \in Int
    BY <2>1 DEF CandidateOf
  <2>4. event(r).start <= event(r).end
    BY ONLY <2>2, <2>3, k.min \in Nat
  <2>5. QED
    BY <2>1, <2>4 DEF Spans
<1>2. first \in SUBSET (1 .. Len(fs)) /\ Len(fs) \in Nat
  <2>1. \A r \in long : r[1] \in 1 .. Len(fs)
    BY RunIs
  <2>2. Len(fs) \in Nat
    BY DEF FramesOK
  <2>3. QED
    BY <2>1, <2>2
<1>3. \A r \in long, q \in long : r[1] = q[1] => r = q
  BY RunsBeginAlone
<1>4. Clips!ClassCandidates(fs, c, k) = Clips!List(g)
  BY DEF Clips!ClassCandidates
<1> HIDE DEF event, long, first
<1>5. /\ m \in Nat /\ \A i \in 1 .. m : Clips!Nth(first, i) \in first
      /\ \A x \in first : \E i \in 1 .. m : Clips!Nth(first, i) = x
  <2>1. PICK n \in Nat : n = Len(fs)
    BY <1>2
  <2>2. first \in SUBSET (1 .. n)
    BY <1>2, <2>1
  <2>3. /\ Cardinality(first) \in Nat
        /\ \A i \in 1 .. Cardinality(first) : Nth(first, i) \in first
        /\ \A x \in first : \E i \in 1 .. Cardinality(first) : Nth(first, i) = x
    BY ONLY <2>2, n \in Nat, PlacesInOrder
  <2>4. m = Cardinality(first) /\ \A i : Clips!Nth(first, i) = Nth(first, i)
    BY ClipsLists
  <2>5. QED
    BY <2>3, <2>4
<1> HIDE DEF m
<1>6. ASSUME NEW i \in 1 .. m
      PROVE  Run(i) \in long /\ Run(i)[1] = Clips!Nth(first, i)
  <2>1. Clips!Nth(first, i) \in first
    BY <1>5
  <2>2. \E r \in long : r[1] = Clips!Nth(first, i)
    BY <2>1 DEF first
  <2>3. QED
    BY <2>2
<1> HIDE DEF Run
<1>8. g \in [1 .. m -> Spans(c)]
  BY <1>1, <1>6
<1>9. \A i \in 1 .. m : g[i] = event(Run(i))
  OBVIOUS
<1> HIDE DEF g
<1>10. Clips!List(g) = g /\ Len(g) = m /\ g \in Seq(Spans(c))
  BY <1>5, <1>8, ClipsLists
<1>11. ASSUME NEW r \in long
       PROVE  \E i \in 1 .. m : g[i] = event(r)
  <2>1. r[1] \in first
    BY DEF first
  <2>2. PICK i \in 1 .. m : Clips!Nth(first, i) = r[1]
    BY <1>5, <2>1
  <2>3. Run(i) = r
    BY <1>3, <1>6, <2>2
  <2>4. QED
    BY <1>9, <2>3
<1>12. \A r \in Clips!Runs(fs, c, k) : event(r).end - event(r).start >= k.min => r \in long
  BY DEF long
<1>13. QED
  BY <1>4, <1>10, <1>11, <1>12 DEF event

\* sorted() puts every element somewhere, once, and the keys in order.
LEMMA OrderIs ==
  ASSUME NEW n \in Nat, NEW keys \in [1 .. n -> Int]
  PROVE  LET order == Clips!Sorting(keys)
         IN  /\ order \in [1 .. n -> 1 .. n]
             /\ \A i \in 1 .. n : \E j \in 1 .. n : order[j] = i
             /\ \A i, j \in 1 .. n : i < j => /\ order[i] # order[j]
                                              /\ keys[order[i]] <= keys[order[j]]
<1> DEFINE order == Clips!Sorting(keys)
<1>1. /\ order \in [1 .. n -> 1 .. n]
      /\ \A i, j \in 1 .. n : i < j => order[i] # order[j] /\ keys[order[i]] <= keys[order[j]]
  BY SortingSorts, ClipsLists
<1> HIDE DEF order
<1>2. \A i, j \in 1 .. n : order[i] = order[j] => i = j
  BY <1>1
<1>3. order \in Injection(1 .. n, 1 .. n)
  BY <1>1, <1>2, Fun_IsInj
<1>4. IsFiniteSet(1 .. n) /\ Cardinality(1 .. n) = n
  BY FS_Interval
<1>5. order \in Surjection(1 .. n, 1 .. n)
  BY <1>3, <1>4, FS_Injection
<1>6. \A i \in 1 .. n : \E j \in 1 .. n : order[j] = i
  BY <1>5 DEF Surjection
<1>7. QED
  BY <1>1, <1>6 DEF order

\* The n events es, each once, in the order t of their start.
InOrder(S, n, es, t) ==
  /\ t \in [1 .. n -> S]
  /\ \A i \in 1 .. n : \E j \in 1 .. n : t[j] = es[i]
  /\ \A i, j \in 1 .. n : i < j => t[i].start <= t[j].start
  /\ \A i, j \in 1 .. n : i < j => \E p, q \in 1 .. n : p # q /\ t[i] = es[p] /\ t[j] = es[q]

LEMMA StartsInOrder ==
  ASSUME NEW n \in Nat, NEW S, \A e \in S : e.start \in Int, NEW es \in [1 .. n -> S]
  PROVE  InOrder(S, n, es, Clips!ByStart(es))
<1> DEFINE by == [i \in 1 .. n |-> es[i].start]
           s == Clips!Sorting(by)
           t == [j \in 1 .. n |-> es[s[j]]]
<1>1. by \in [1 .. n -> Int] /\ \A i \in 1 .. n : by[i] = es[i].start
  <2>1. \A i \in 1 .. n : es[i].start \in Int
    OBVIOUS
  <2>2. QED
    BY <2>1
<1>2. Clips!ByStart(es) = Clips!List(t)
  BY DEF Clips!ByStart, Clips!SortedBy
<1> HIDE DEF by
<1>3. /\ s \in [1 .. n -> 1 .. n]
      /\ \A i \in 1 .. n : \E j \in 1 .. n : s[j] = i
      /\ \A i, j \in 1 .. n : i < j => s[i] # s[j] /\ by[s[i]] <= by[s[j]]
  BY <1>1, OrderIs
<1> HIDE DEF s
<1>4. t \in [1 .. n -> S]
  BY <1>3
<1>5. \A j \in 1 .. n : s[j] \in 1 .. n /\ t[j] = es[s[j]] /\ t[j].start = by[s[j]]
  BY <1>1, <1>3
<1> HIDE DEF t
<1>6. ASSUME NEW i \in 1 .. n
      PROVE  \E j \in 1 .. n : t[j] = es[i]
  <2>1. PICK j \in 1 .. n : s[j] = i
    BY <1>3
  <2>2. t[j] = es[i]
    BY <1>5, <2>1
  <2>3. QED
    BY <2>2
<1>7. \A i, j \in 1 .. n : i < j => t[i].start <= t[j].start
  <2>1. ASSUME NEW i \in 1 .. n, NEW j \in 1 .. n, i < j
        PROVE  t[i].start <= t[j].start
    <3>1. by[s[i]] <= by[s[j]]
      BY <1>3, <2>1
    <3>2. t[i].start = by[s[i]] /\ t[j].start = by[s[j]]
      BY <1>5
    <3>3. QED
      BY <3>1, <3>2
  <2>2. QED
    BY <2>1
<1>8. ASSUME NEW i \in 1 .. n, NEW j \in 1 .. n, i < j
      PROVE  \E p, q \in 1 .. n : p # q /\ t[i] = es[p] /\ t[j] = es[q]
  <2>1. /\ s[i] \in 1 .. n /\ s[j] \in 1 .. n /\ s[i] # s[j]
        /\ t[i] = es[s[i]] /\ t[j] = es[s[j]]
    BY <1>3, <1>5, <1>8
  <2>2. QED
    BY <2>1
<1>9. Clips!List(t) = t
  BY <1>4, ClipsLists
<1>10. QED
  BY <1>2, <1>4, <1>6, <1>7, <1>8, <1>9 DEF InOrder

\* The events of a class by their start, and by their confidence.
LEMMA EventsOrdered ==
  ASSUME NEW c, NEW n \in Nat, NEW es \in [1 .. n -> Spans(c)]
  PROVE  /\ InOrder(Spans(c), n, es, Clips!ByStart(es))
         /\ Clips!ByConfidence(es) \in [1 .. n -> Spans(c)]
<1>1. /\ \A e \in Spans(c) : e.start \in Int
      /\ \A i \in 1 .. n : es[i].confidence \in Int /\ es[i] \in Spans(c)
  BY DEF Spans, CandidateOf
<1>2. InOrder(Spans(c), n, es, Clips!ByStart(es))
  BY <1>1, StartsInOrder
<1> DEFINE down == [i \in 1 .. n |-> -es[i].confidence]
           d == Clips!Sorting(down)
           u == [j \in 1 .. n |-> es[d[j]]]
<1>3. down \in [1 .. n -> Int]
  BY <1>1
<1>4. Clips!ByConfidence(es) = Clips!List(u)
  BY DEF Clips!ByConfidence, Clips!SortedBy
<1> HIDE DEF down
<1>5. d \in [1 .. n -> 1 .. n]
  BY <1>3, OrderIs
<1> HIDE DEF d
<1>6. u \in [1 .. n -> Spans(c)]
  BY <1>1, <1>5
<1> HIDE DEF u
<1>7. Clips!List(u) = u
  BY <1>6, ClipsLists
<1>8. QED
  BY <1>2, <1>4, <1>6, <1>7

\* Whether two events overlap too much is the same either way round.
LEMMA ApartBothWays ==
  ASSUME NEW c, NEW a \in Spans(c), NEW b \in Spans(c), NEW t \in Int
  PROVE  Clips!Apart(a, b, t) => Clips!Apart(b, a, t)
<1>1. PICK p \in Int, q \in Int, u \in Int, v \in Int :
        p = a.start /\ q = a.end /\ u = b.start /\ v = b.end
  BY DEF Spans, CandidateOf
<1> DEFINE ov(x, y) == Clips!Max({0, x - y})
<1>2. /\ Clips!Min({q, v}) = Clips!Min({v, q}) /\ Clips!Max({p, u}) = Clips!Max({u, p})
  <2>1. {q, v} = {v, q} /\ {p, u} = {u, p}
    OBVIOUS
  <2>2. QED
    BY <2>1
<1>3. Clips!Min({q, v}) \in Int /\ Clips!Max({p, u}) \in Int
  BY ClipsMaxOfTwo
<1>4. PICK x \in Int : x = Clips!Max({0, Clips!Min({q, v}) - Clips!Max({p, u})})
  <2>1. 0 \in Int /\ Clips!Min({q, v}) - Clips!Max({p, u}) \in Int
    BY <1>3
  <2>2. QED
    BY <2>1, ClipsMaxOfTwo
<1>5. x = Clips!Max({0, Clips!Min({v, q}) - Clips!Max({u, p})})
  BY <1>2, <1>4
<1>6. Clips!Apart(a, b, t)
        <=> LET w == (q - p) + (v - u) - x IN IF w > 0 THEN 100 * x < t * w ELSE t > 0
  BY <1>1, <1>4 DEF Clips!Apart
<1>7. Clips!Apart(b, a, t)
        <=> LET w == (v - u) + (q - p) - x IN IF w > 0 THEN 100 * x < t * w ELSE t > 0
  BY <1>1, <1>5 DEF Clips!Apart
<1>8. (v - u) + (q - p) - x = (q - p) + (v - u) - x
  OBVIOUS
<1>9. QED
  BY <1>6, <1>7, <1>8

\* What suppression keeps is apart.
AllApart(c, x, t) ==
  /\ x \in Seq(Spans(c))
  /\ \A i, j \in 1 .. Len(x) : i # j => Clips!Apart(x[i], x[j], t)

LEMMA KeptIsApart ==
  ASSUME NEW c, NEW t \in Int, NEW x, NEW e \in Spans(c)
  PROVE  /\ x \in Seq(Spans(c)) => Clips!Kept(x, e, t) \in Seq(Spans(c))
         /\ AllApart(c, x, t) => AllApart(c, Clips!Kept(x, e, t), t)
<1>1. Clips!Kept(x, e, t) = Append(x, e) \/ Clips!Kept(x, e, t) = x
  BY DEF Clips!Kept
<1>2. x \in Seq(Spans(c)) => Clips!Kept(x, e, t) \in Seq(Spans(c))
  BY <1>1
<1>3. ASSUME AllApart(c, x, t), Clips!Kept(x, e, t) # x
      PROVE  AllApart(c, Append(x, e), t)
  <2>1. PICK n \in Nat : n = Len(x)
    BY <1>3 DEF AllApart
  <2>2. /\ x \in Seq(Spans(c)) /\ DOMAIN x = 1 .. n
        /\ \A i, j \in 1 .. n : i # j => Clips!Apart(x[i], x[j], t)
        /\ \A i \in 1 .. n : x[i] \in Spans(c)
    BY <1>3, <2>1 DEF AllApart
  <2>3. \A i \in 1 .. n : Clips!Apart(e, x[i], t)
    BY <1>3, <2>2 DEF Clips!Kept
  <2>4. \A i \in 1 .. n : Clips!Apart(x[i], e, t)
    BY <2>2, <2>3, ApartBothWays
  <2> DEFINE y == Append(x, e)
  <2>5. y \in Seq(Spans(c)) /\ Len(y) = n + 1 /\ y[n + 1] = e /\ \A i \in 1 .. n : y[i] = x[i]
    BY <2>1, <2>2
  <2> HIDE DEF y
  <2>6. \A i \in 1 .. n + 1 : i \in 1 .. n \/ i = n + 1
    OBVIOUS
  <2>7. \A i, j \in 1 .. n + 1 : i # j => Clips!Apart(y[i], y[j], t)
    BY <2>2, <2>3, <2>4, <2>5, <2>6
  <2>8. AllApart(c, y, t)
    BY <2>5, <2>7 DEF AllApart
  <2>9. QED
    BY <2>8 DEF y
<1>4. QED
  BY <1>1, <1>2, <1>3

LEMMA SuppressIsApart ==
  ASSUME NEW c, NEW n \in Nat, NEW es \in [1 .. n -> Spans(c)], NEW t \in Int
  PROVE  AllApart(c, Clips!Suppress(es, t), t)
<1> DEFINE o == Clips!ByConfidence(es)
           Goes(f) == f = [k \in 0 .. n |-> IF k = 0 THEN <<>> ELSE Clips!Kept(f[k - 1], o[k], t)]
           G == [k \in 1 .. n |-> [x \in Seq(Spans(c)) |-> Clips!Kept(x, o[k], t)]]
           s == CHOOSE f : Goes(f)
           T == {k \in 0 .. n : AllApart(c, s[k], t)}
<1>1. Len(es) = n
  BY ClipsLists
<1>2. Clips!Suppress(es, t) = s[n]
  BY <1>1 DEF Clips!Suppress
<1>3. \A k \in 1 .. n : o[k] \in Spans(c)
  BY EventsOrdered
<1> HIDE DEF o
<1>4. \E f : Goes(f)
  <2>1. n \in Nat /\ <<>> \in Seq(Spans(c)) /\ G \in [1 .. n -> [Seq(Spans(c)) -> Seq(Spans(c))]]
    BY <1>3, KeptIsApart
  <2> HIDE DEF G
  <2>2. Loops(n, Seq(Spans(c)), <<>>, G)
    BY ONLY <2>1, LoopRuns, Zenon
  <2>3. PICK f \in [0 .. n -> Seq(Spans(c))] :
          f[0] = <<>> /\ \A k \in 1 .. n : f[k] = G[k][f[k - 1]]
    BY <2>2 DEF Loops
  <2>4. ASSUME NEW k \in 1 .. n
        PROVE  f[k] = Clips!Kept(f[k - 1], o[k], t)
    <3>1. k - 1 \in 0 .. n
      OBVIOUS
    <3>2. f[k - 1] \in Seq(Spans(c))
      BY <2>3, <3>1
    <3>3. QED
      BY <2>3, <3>2 DEF G
  <2>5. \A k \in 0 .. n : f[k] = IF k = 0 THEN <<>> ELSE Clips!Kept(f[k - 1], o[k], t)
    <3>1. \A k \in 0 .. n : k = 0 \/ k \in 1 .. n
      OBVIOUS
    <3>2. QED
      BY <2>3, <2>4, <3>1
  <2>6. f = [k \in 0 .. n |-> f[k]]
    OBVIOUS
  <2>7. Goes(f)
    BY <2>5, <2>6
  <2>8. QED
    BY <2>7
<1>5. Goes(s)
  <2> HIDE DEF Goes
  <2>1. QED
    BY <1>4
<1> HIDE DEF s
<1>6. \A k \in 0 .. n : s[k] = IF k = 0 THEN <<>> ELSE Clips!Kept(s[k - 1], o[k], t)
  BY <1>5
<1>7. 0 \in T
  <2>1. s[0] = <<>> /\ Len(<<>>) = 0 /\ <<>> \in Seq(Spans(c))
    BY <1>6
  <2>2. AllApart(c, <<>>, t)
    BY <2>1 DEF AllApart
  <2>3. QED
    BY <2>1, <2>2
<1>8. ASSUME NEW k \in 0 .. n - 1, k \in T
      PROVE  k + 1 \in T
  <2>1. k + 1 \in 1 .. n /\ k + 1 \in 0 .. n /\ k + 1 # 0 /\ k + 1 - 1 = k
    OBVIOUS
  <2>2. s[k + 1] = Clips!Kept(s[k], o[k + 1], t)
    BY <1>6, <2>1
  <2>3. AllApart(c, s[k], t) /\ o[k + 1] \in Spans(c)
    BY <1>3, <1>8, <2>1
  <2>4. AllApart(c, s[k + 1], t)
    BY <2>2, <2>3, KeptIsApart
  <2>5. QED
    BY <2>1, <2>4
<1> HIDE DEF T
<1>9. \A k \in 0 .. n : k \in T
  BY <1>7, <1>8, UpTo
<1>10. AllApart(c, s[n], t)
  BY <1>9 DEF T
<1>11. QED
  BY <1>2, <1>10

\* An event that extends another, of the same class and not earlier.
LEMMA JoinedIs ==
  ASSUME NEW c, NEW a \in Spans(c), NEW b \in Spans(c)
  PROVE  LET j == Clips!Joined(a, b)
         IN  j \in Spans(c) /\ j.start = a.start /\ a.end <= j.end /\ b.end <= j.end
<1>1. a \in CandidateOf(c) /\ b \in CandidateOf(c) /\ a.start <= a.end
  BY DEF Spans
<1>2. PICK p \in Int, q \in Int, v \in Int, x \in Int, y \in Int, o \in 1 .. 3 :
        /\ p = a.start /\ q = a.end /\ v = b.end /\ x = a.confidence /\ y = b.confidence
        /\ o = IF b.confidence > a.confidence THEN b.outcome ELSE a.outcome
  BY <1>1 DEF CandidateOf
<1>3. PICK e \in Int : e = Clips!Max({q, v}) /\ q <= e /\ v <= e
  BY ClipsMaxOfTwo
<1>4. PICK d \in Int : d = Clips!Max({x, y})
  BY ClipsMaxOfTwo
<1>5. Clips!Joined(a, b) = [a EXCEPT !.end = e, !.confidence = d, !.outcome = o]
  BY <1>2, <1>3, <1>4 DEF Clips!Joined
<1> DEFINE j == [a EXCEPT !.end = e, !.confidence = d, !.outcome = o]
<1>6. j \in CandidateOf(c) /\ j.start = a.start /\ j.end = e
  BY <1>1 DEF CandidateOf
<1>7. a.start <= e
  BY ONLY <1>1, <1>2, <1>3
<1> HIDE DEF j
<1>8. j \in Spans(c)
  BY <1>6, <1>7 DEF Spans
<1>9. QED
  BY <1>2, <1>3, <1>5, <1>6, <1>8 DEF j

\* What is merged is more than the gap apart, in order.
FarApart(c, x, gap) ==
  /\ x \in Seq(Spans(c))
  /\ \A i, j \in 1 .. Len(x) : i < j => x[j].start - x[i].end > gap

\* The first m of the n events o are merged into x: it covers them, and the
\* others start no earlier.
MergedUpTo(c, x, gap, o, n, m) ==
  /\ FarApart(c, x, gap)
  /\ \A i \in 1 .. Len(x) : \A j \in m + 1 .. n : x[i].start <= o[j].start
  /\ \A i \in 1 .. m : \E j \in 1 .. Len(x) : x[j].start <= o[i].start /\ o[i].end <= x[j].end

\* What an event does to what is merged: it extends the last one, or follows it.
LEMMA MergedBy ==
  ASSUME NEW x, x # <<>> => Len(x) \in DOMAIN x, NEW e, NEW gap
  PROVE  Clips!Merged(x, e, gap)
           = IF x # <<>> /\ e.start - x[Len(x)].end <= gap
             THEN [x EXCEPT ![Len(x)] = Clips!Joined(x[Len(x)], e)] ELSE Append(x, e)
<1>1. Clips!Last(x) = x[Len(x)]
  BY DEF Clips!Last
<1>2. [x EXCEPT ![Len(x)] = Clips!Joined(@, e)] = [x EXCEPT ![Len(x)] = Clips!Joined(x[Len(x)], e)]
  OBVIOUS
<1>3. QED
  BY <1>1, <1>2 DEF Clips!Merged

LEMMA MergedStays ==
  ASSUME NEW c, NEW x \in Seq(Spans(c)), NEW e \in Spans(c), NEW gap
  PROVE  Clips!Merged(x, e, gap) \in Seq(Spans(c))
<1>1. PICK n \in Nat : n = Len(x) /\ x \in [1 .. n -> Spans(c)]
  OBVIOUS
<1>2. x # <<>> => Len(x) \in 1 .. n /\ DOMAIN x = 1 .. n
  BY <1>1, EmptySeq
<1>3. Append(x, e) \in Seq(Spans(c))
  OBVIOUS
<1>4. ASSUME x # <<>>
      PROVE  [x EXCEPT ![Len(x)] = Clips!Joined(x[Len(x)], e)] \in Seq(Spans(c))
  <2>1. PICK a \in Spans(c) : a = x[Len(x)]
    BY <1>1, <1>2, <1>4
  <2>2. Clips!Joined(a, e) \in Spans(c)
    BY JoinedIs
  <2>3. [x EXCEPT ![Len(x)] = Clips!Joined(a, e)] \in [1 .. n -> Spans(c)]
    BY <1>1, <2>2
  <2>4. QED
    BY <2>1, <2>3
<1>5. QED
  BY <1>2, <1>3, <1>4, MergedBy

LEMMA MergedIs ==
  ASSUME NEW c, NEW gap \in Nat, NEW n \in Nat, NEW o \in [1 .. n -> Spans(c)],
         \A i, j \in 1 .. n : i < j => o[i].start <= o[j].start,
         NEW m \in 0 .. n - 1, NEW x, MergedUpTo(c, x, gap, o, n, m)
  PROVE  MergedUpTo(c, Clips!Merged(x, o[m + 1], gap), gap, o, n, m + 1)
<1>1. PICK l \in Nat : l = Len(x) /\ x \in [1 .. l -> Spans(c)] /\ x \in Seq(Spans(c))
  BY DEF MergedUpTo, FarApart
<1>2. PICK e \in Spans(c) : e = o[m + 1] /\ m + 1 \in 1 .. n
  <2>1. m + 1 \in 1 .. n
    OBVIOUS
  <2>2. QED
    BY <2>1
<1>3. /\ \A i \in 1 .. l : x[i].start \in Int /\ x[i].end \in Int /\ x[i].start <= x[i].end
      /\ \A i \in 1 .. n : o[i].start \in Int /\ o[i].end \in Int
      /\ e.start \in Int /\ e.end \in Int
  BY <1>1 DEF Spans, CandidateOf
<1>4. /\ \A i, j \in 1 .. l : i < j => x[j].start - x[i].end > gap
      /\ \A i \in 1 .. l : \A j \in m + 1 .. n : x[i].start <= o[j].start
      /\ \A i \in 1 .. m : \E j \in 1 .. l : x[j].start <= o[i].start /\ o[i].end <= x[j].end
  BY <1>1 DEF MergedUpTo, FarApart
<1>5. \A i \in 1 .. l : x[i].start <= e.start
  <2>1. m + 1 \in m + 1 .. n
    BY <1>2
  <2>2. QED
    BY <1>2, <1>4, <2>1
<1>6. \A j \in m + 1 + 1 .. n : j \in m + 1 .. n /\ e.start <= o[j].start
  <2>1. \A j \in m + 1 + 1 .. n : j \in m + 1 .. n /\ j \in 1 .. n /\ m + 1 < j
    OBVIOUS
  <2>2. QED
    BY <1>2, <2>1
<1>7. \A i \in 1 .. m + 1 : i \in 1 .. m \/ i = m + 1
  OBVIOUS
<1>a. Clips!Merged(x, e, gap)
        = IF x # <<>> /\ e.start - x[l].end <= gap
          THEN [x EXCEPT ![l] = Clips!Joined(x[l], e)] ELSE Append(x, e)
  <2>1. Len(x) = l /\ (x # <<>> => Len(x) \in DOMAIN x)
    BY <1>1, EmptySeq
  <2>2. Clips!Merged(x, e, gap)
          = IF x # <<>> /\ e.start - x[Len(x)].end <= gap
            THEN [x EXCEPT ![Len(x)] = Clips!Joined(x[Len(x)], e)] ELSE Append(x, e)
    BY ONLY <2>1, MergedBy
  <2>3. QED
    BY <2>1, <2>2, Zenon
<1>8. CASE x # <<>> /\ e.start - x[l].end <= gap
  <2>1. l \in 1 .. l
    BY <1>1, <1>8, EmptySeq
  <2>a. PICK last \in Spans(c) : last = x[l]
    BY <1>1, <2>1
  <2>3. PICK d \in Spans(c) : /\ d = Clips!Joined(last, e) /\ d.start = last.start
                             /\ last.end <= d.end /\ e.end <= d.end
    BY ONLY last \in Spans(c), e \in Spans(c), JoinedIs
  <2> DEFINE y == [x EXCEPT ![l] = d]
  <2>2. Clips!Merged(x, e, gap) = y
    <3>1. Clips!Joined(x[l], e) = d
      BY <2>a, <2>3
    <3>2. Clips!Merged(x, e, gap) = [x EXCEPT ![l] = Clips!Joined(x[l], e)]
      BY <1>8, <1>a, Zenon
    <3>3. QED
      BY ONLY <3>1, <3>2
  <2>4. /\ y \in [1 .. l -> Spans(c)] /\ y[l] = d
        /\ \A i \in 1 .. l : i # l => y[i] = x[i]
    <3>1. x \in [1 .. l -> Spans(c)]
      BY <1>1
    <3>2. QED
      BY ONLY <2>1, <3>1, d \in Spans(c)
  <2> HIDE DEF y
  <2>5. y \in Seq(Spans(c)) /\ Len(y) = l
    BY <2>4
  <2>6. /\ \A i \in 1 .. l : y[i].start = x[i].start /\ x[i].end <= y[i].end
        /\ \A i \in 1 .. l : i # l => y[i].end = x[i].end
        /\ e.end <= y[l].end
        /\ \A i \in 1 .. l : y[i].end \in Int
    <3>1. ASSUME NEW i \in 1 .. l
          PROVE  /\ y[i].start = x[i].start /\ x[i].end <= y[i].end
                 /\ i # l => y[i].end = x[i].end
                 /\ y[i].end \in Int
      <4>1. CASE i = l
        <5>1. y[i] \in Spans(c)
          BY <2>4
        <5>2. y[i].end \in Int
          BY <5>1 DEF Spans, CandidateOf
        <5>3. QED
          BY <2>a, <2>3, <2>4, <4>1, <5>2
      <4>2. CASE i # l
        BY <1>3, <2>4, <4>2
      <4>3. QED
        BY <4>1, <4>2
    <3>2. QED
      BY <2>3, <2>4, <3>1
  <2>7. ASSUME NEW i \in 1 .. l, NEW j \in 1 .. l, i < j
        PROVE  y[j].start - y[i].end > gap
    <3>1. i # l
      BY <2>7
    <3>2. QED
      BY <1>4, <2>6, <2>7, <3>1
  <2>8. \A i \in 1 .. l : \A j \in m + 1 + 1 .. n : y[i].start <= o[j].start
    BY <1>4, <1>6, <2>6
  <2>9. ASSUME NEW i \in 1 .. m + 1
        PROVE  \E j \in 1 .. l : y[j].start <= o[i].start /\ o[i].end <= y[j].end
    <3>1. CASE i \in 1 .. m
      <4>1. PICK j \in 1 .. l : x[j].start <= o[i].start /\ o[i].end <= x[j].end
        BY <1>4, <3>1
      <4>2. PICK u \in Int, v \in Int, w \in Int : u = o[i].end /\ v = x[j].end /\ w = y[j].end
        <5>1. i \in 1 .. n
          BY <3>1
        <5>2. QED
          BY <1>3, <2>6, <5>1
      <4>3. u <= v /\ v <= w
        BY <2>6, <4>1, <4>2
      <4>4. u <= w
        BY ONLY <4>3, u \in Int, v \in Int, w \in Int
      <4>5. y[j].start <= o[i].start
        BY <2>6, <4>1
      <4>6. QED
        BY <4>2, <4>4, <4>5
    <3>2. CASE i = m + 1
      BY <1>2, <1>5, <2>1, <2>6, <3>2
    <3>3. QED
      BY <1>7, <3>1, <3>2
  <2>10. MergedUpTo(c, y, gap, o, n, m + 1)
    BY <2>5, <2>7, <2>8, <2>9 DEF MergedUpTo, FarApart
  <2>11. QED
    BY <1>2, <2>2, <2>10
<1>9. CASE ~ (x # <<>> /\ e.start - x[l].end <= gap)
  <2> DEFINE y == Append(x, e)
  <2>1. Clips!Merged(x, e, gap) = y
    BY <1>9, <1>a, Zenon
  <2>2. y \in Seq(Spans(c)) /\ Len(y) = l + 1 /\ y[l + 1] = e /\ \A i \in 1 .. l : y[i] = x[i]
    BY <1>1
  <2> HIDE DEF y
  <2>3. \A i \in 1 .. l + 1 : i \in 1 .. l \/ i = l + 1
    OBVIOUS
  <2>4. ASSUME NEW i \in 1 .. l
        PROVE  e.start - x[i].end > gap
    <3>1. x # <<>> /\ l \in 1 .. l
      BY <1>1
    <3>2. e.start - x[l].end > gap
      BY <1>3, <1>9, <3>1
    <3>3. CASE i < l
      <4>1. PICK u \in Int, v \in Int, w \in Int : u = x[l].start /\ v = x[i].end /\ w = e.start
        BY <1>3, <3>1
      <4>2. u - v > gap /\ u <= w
        BY <1>4, <1>5, <3>1, <3>3, <4>1
      <4>3. w - v > gap
        BY ONLY <4>2, u \in Int, v \in Int, w \in Int, gap \in Nat
      <4>4. QED
        BY <4>1, <4>3
    <3>4. CASE i = l
      BY <3>2, <3>4
    <3>5. QED
      BY <3>3, <3>4
  <2>5. ASSUME NEW i \in 1 .. l + 1, NEW j \in 1 .. l + 1, i < j
        PROVE  y[j].start - y[i].end > gap
    <3>1. i \in 1 .. l
      BY <2>5
    <3>2. QED
      BY <1>4, <2>2, <2>3, <2>4, <2>5, <3>1
  <2>6. \A i \in 1 .. l + 1 : \A j \in m + 1 + 1 .. n : y[i].start <= o[j].start
    BY <1>4, <1>6, <2>2, <2>3
  <2>7. ASSUME NEW i \in 1 .. m + 1
        PROVE  \E j \in 1 .. l + 1 : y[j].start <= o[i].start /\ o[i].end <= y[j].end
    <3>1. CASE i \in 1 .. m
      <4>1. PICK j \in 1 .. l : x[j].start <= o[i].start /\ o[i].end <= x[j].end
        BY <1>4, <3>1
      <4>2. j \in 1 .. l + 1 /\ y[j] = x[j]
        BY <2>2
      <4>3. QED
        BY <4>1, <4>2
    <3>2. CASE i = m + 1
      <4>1. l + 1 \in 1 .. l + 1 /\ e.start <= e.start /\ e.end <= e.end
        BY <1>3
      <4>2. QED
        BY <1>2, <2>2, <3>2, <4>1
    <3>3. QED
      BY <1>7, <3>1, <3>2
  <2>8. MergedUpTo(c, y, gap, o, n, m + 1)
    BY <2>2, <2>5, <2>6, <2>7 DEF MergedUpTo, FarApart
  <2>9. QED
    BY <1>2, <2>1, <2>8
<1>10. QED
  BY <1>8, <1>9

\* _merge: what comes of the events of a class is far apart and covers them.
LEMMA MergeIs ==
  ASSUME NEW c, NEW n \in Nat, NEW es \in [1 .. n -> Spans(c)], NEW gap \in Nat
  PROVE  LET x == Clips!Merge(es, gap)
         IN  /\ FarApart(c, x, gap)
             /\ \A i \in 1 .. n : \E j \in 1 .. Len(x) :
                  x[j].start <= es[i].start /\ es[i].end <= x[j].end
<1> DEFINE o == Clips!ByStart(es)
           Goes(f) == f = [k \in 0 .. n |-> IF k = 0 THEN <<>> ELSE Clips!Merged(f[k - 1], o[k], gap)]
           G == [k \in 1 .. n |-> [x \in Seq(Spans(c)) |-> Clips!Merged(x, o[k], gap)]]
           s == CHOOSE f : Goes(f)
           T == {k \in 0 .. n : MergedUpTo(c, s[k], gap, o, n, k)}
<1>1. Len(es) = n
  BY ClipsLists
<1>2. Clips!Merge(es, gap) = s[n]
  BY <1>1 DEF Clips!Merge
<1>3. /\ o \in [1 .. n -> Spans(c)]
      /\ \A i \in 1 .. n : \E j \in 1 .. n : o[j] = es[i]
      /\ \A i, j \in 1 .. n : i < j => o[i].start <= o[j].start
  <2>1. InOrder(Spans(c), n, es, Clips!ByStart(es))
    BY EventsOrdered
  <2>2. QED
    BY <2>1 DEF InOrder
<1> HIDE DEF o
<1>4. \E f : Goes(f)
  <2>1. n \in Nat /\ <<>> \in Seq(Spans(c)) /\ G \in [1 .. n -> [Seq(Spans(c)) -> Seq(Spans(c))]]
    BY <1>3, MergedStays
  <2> HIDE DEF G
  <2>2. Loops(n, Seq(Spans(c)), <<>>, G)
    BY ONLY <2>1, LoopRuns, Zenon
  <2>3. PICK f \in [0 .. n -> Seq(Spans(c))] :
          f[0] = <<>> /\ \A k \in 1 .. n : f[k] = G[k][f[k - 1]]
    BY <2>2 DEF Loops
  <2>4. ASSUME NEW k \in 1 .. n
        PROVE  f[k] = Clips!Merged(f[k - 1], o[k], gap)
    <3>1. k - 1 \in 0 .. n
      OBVIOUS
    <3>2. f[k - 1] \in Seq(Spans(c))
      BY <2>3, <3>1
    <3>3. QED
      BY <2>3, <3>2 DEF G
  <2>5. \A k \in 0 .. n : f[k] = IF k = 0 THEN <<>> ELSE Clips!Merged(f[k - 1], o[k], gap)
    <3>1. \A k \in 0 .. n : k = 0 \/ k \in 1 .. n
      OBVIOUS
    <3>2. QED
      BY <2>3, <2>4, <3>1
  <2>6. f = [k \in 0 .. n |-> f[k]]
    OBVIOUS
  <2>7. Goes(f)
    BY <2>5, <2>6
  <2>8. QED
    BY <2>7
<1>5. Goes(s)
  <2> HIDE DEF Goes
  <2>1. QED
    BY <1>4
<1> HIDE DEF s
<1>6. \A k \in 0 .. n : s[k] = IF k = 0 THEN <<>> ELSE Clips!Merged(s[k - 1], o[k], gap)
  BY <1>5
<1>7. 0 \in T
  <2>1. s[0] = <<>> /\ Len(<<>>) = 0 /\ <<>> \in Seq(Spans(c))
    BY <1>6
  <2>2. MergedUpTo(c, <<>>, gap, o, n, 0)
    BY <2>1 DEF MergedUpTo, FarApart
  <2>3. QED
    BY <2>1, <2>2
<1>8. ASSUME NEW k \in 0 .. n - 1, k \in T
      PROVE  k + 1 \in T
  <2>1. k + 1 \in 1 .. n /\ k + 1 \in 0 .. n /\ k + 1 # 0 /\ k + 1 - 1 = k
    OBVIOUS
  <2>2. s[k + 1] = Clips!Merged(s[k], o[k + 1], gap)
    BY <1>6, <2>1
  <2>3. MergedUpTo(c, s[k], gap, o, n, k)
    BY <1>8
  <2>4. MergedUpTo(c, Clips!Merged(s[k], o[k + 1], gap), gap, o, n, k + 1)
    BY <1>3, <2>3, MergedIs
  <2>5. QED
    BY <2>1, <2>2, <2>4
<1> HIDE DEF T
<1>9. \A k \in 0 .. n : k \in T
  BY <1>7, <1>8, UpTo
<1>10. MergedUpTo(c, s[n], gap, o, n, n)
  BY <1>9 DEF T
<1>11. ASSUME NEW i \in 1 .. n
       PROVE  \E j \in 1 .. Len(s[n]) : s[n][j].start <= es[i].start /\ es[i].end <= s[n][j].end
  <2>1. PICK k \in 1 .. n : o[k] = es[i]
    BY <1>3
  <2>2. QED
    BY <1>10, <2>1 DEF MergedUpTo
<1>12. QED
  BY <1>2, <1>10, <1>11 DEF MergedUpTo

\* How two events of a class stand to each other.
StandsApart(a, b, k) ==
  IF k.strategy = "merge" THEN b.start - a.end > k.gap
  ELSE Clips!Apart(a, b, k.iou) /\ Clips!Apart(b, a, k.iou)

\* An event over a run.
Covers(e, fs, r) == e.start <= fs[r[1]].ms /\ fs[r[2] - 1].ms <= e.end

Sustained(fs, c, k) ==
  {r \in Clips!Runs(fs, c, k) : fs[r[2] - 1].ms - fs[r[1]].ms >= k.min}

LEMMA OfClassIs ==
  ASSUME DecodeOK, NEW fs, FramesOK(fs), NEW c \in Classes, NEW k \in Clips!Config
  PROVE  LET x == Clips!OfClass(fs, c, k)
         IN  /\ x \in Seq(Spans(c))
             /\ \A i, j \in 1 .. Len(x) : i < j => StandsApart(x[i], x[j], k)
             /\ ~ k.heads /\ k.strategy = "merge" =>
                  \A r \in Sustained(fs, c, k) : \E i \in 1 .. Len(x) : Covers(x[i], fs, r)
<1> DEFINE es == Clips!ClassCandidates(fs, c, k)
<1>1. k.min \in Nat /\ k.gap \in Nat /\ k.iou \in Int
  BY DEF Clips!Config
<1>2. /\ es \in Seq(Spans(c))
      /\ \A r \in Clips!Runs(fs, c, k) :
           LET e == Clips!Candidate(fs, c, r, k)
           IN  e.end - e.start >= k.min => \E i \in 1 .. Len(es) : es[i] = e
  BY <1>1, CandidatesAre
<1> HIDE DEF es
<1>3. PICK n \in Nat : n = Len(es) /\ es \in [1 .. n -> Spans(c)]
  BY <1>2
<1>4. CASE k.strategy = "merge"
  <2> DEFINE x == Clips!Merge(es, k.gap)
  <2>1. Clips!OfClass(fs, c, k) = x
    BY <1>4 DEF Clips!OfClass, Clips!Settled, es
  <2>2. /\ FarApart(c, x, k.gap)
        /\ \A i \in 1 .. n : \E j \in 1 .. Len(x) :
             x[j].start <= es[i].start /\ es[i].end <= x[j].end
    BY <1>1, <1>3, MergeIs
  <2> HIDE DEF x
  <2>3. ASSUME ~ k.heads, NEW r \in Sustained(fs, c, k)
        PROVE  \E i \in 1 .. Len(x) : Covers(x[i], fs, r)
    <3> DEFINE e == Clips!Candidate(fs, c, r, k)
    <3>1. r \in Clips!Runs(fs, c, k) /\ fs[r[2] - 1].ms - fs[r[1]].ms >= k.min
      BY <2>3 DEF Sustained
    <3>2. e \in CandidateOf(c) /\ e.start = fs[r[1]].ms /\ fs[r[2] - 1].ms <= e.end
      BY <2>3, <3>1, CandidateIs
    <3>a. fs[r[2] - 1].ms \in Int
      <4>1. PICK m \in Nat, lo \in Int, hi \in Int :
              m = Len(fs) /\ lo = r[1] /\ hi = r[2] /\ lo \in 1 .. m /\ hi \in 2 .. m + 1 /\ lo < hi
        BY <3>1, RunIs
      <4>2. hi - 1 \in 1 .. m
        BY <4>1
      <4>3. fs[hi - 1] \in Frame
        BY <4>1, <4>2 DEF FramesOK
      <4>4. QED
        BY <4>1, <4>3 DEF Frame
    <3>3. PICK a \in Int, b \in Int, d \in Int : a = e.start /\ b = e.end /\ d = fs[r[2] - 1].ms
      BY <3>2, <3>a DEF CandidateOf
    <3>4. d - a >= k.min /\ d <= b
      BY <3>1, <3>2, <3>3
    <3>5. b - a >= k.min
      BY ONLY <3>4, <1>1, a \in Int, b \in Int, d \in Int
    <3>6. PICK i \in 1 .. n : es[i] = e
      BY <1>2, <1>3, <3>1, <3>3, <3>5
    <3>7. PICK j \in 1 .. Len(x) : x[j].start <= e.start /\ e.end <= x[j].end
      BY <2>2, <3>6
    <3>8. PICK z \in Int : z = x[j].end
      <4>1. x[j] \in Spans(c)
        BY <2>2 DEF FarApart
      <4>2. QED
        BY <4>1 DEF Spans, CandidateOf
    <3>9. d <= z
      <4>1. b <= z
        BY <3>3, <3>7, <3>8
      <4>2. QED
        BY ONLY <3>4, <4>1, b \in Int, d \in Int, z \in Int
    <3>10. QED
      BY <3>2, <3>3, <3>7, <3>8, <3>9 DEF Covers
  <2>4. QED
    BY <1>4, <2>1, <2>2, <2>3 DEF FarApart, StandsApart
<1>5. CASE k.strategy # "merge"
  <2> DEFINE x == Clips!Suppress(es, k.iou)
  <2>1. Clips!OfClass(fs, c, k) = x
    BY <1>5 DEF Clips!OfClass, Clips!Settled, es
  <2>2. AllApart(c, x, k.iou)
    BY <1>1, <1>3, SuppressIsApart
  <2> HIDE DEF x
  <2>3. x \in Seq(Spans(c)) /\ Len(x) \in Nat
    BY <2>2 DEF AllApart
  <2>4. \A i, j \in 1 .. Len(x) : i < j => StandsApart(x[i], x[j], k)
    <3>1. \A i, j \in 1 .. Len(x) : i < j => i # j /\ j # i
      BY <2>3
    <3>2. QED
      BY <1>5, <2>2, <3>1 DEF AllApart, StandsApart
  <2>5. QED
    BY <1>5, <2>1, <2>3, <2>4
<1>6. QED
  BY <1>4, <1>5

\* The classes in the order they are decoded in: each one once.
LEMMA ClassesInOrder ==
  ASSUME DecodeOK
  PROVE  LET order == Clips!SetToSeq(Classes)
         IN  /\ Len(order) \in Nat /\ order \in [1 .. Len(order) -> Classes]
             /\ \A i, j \in 1 .. Len(order) : order[i] = order[j] => i = j
             /\ \A c \in Classes : \E i \in 1 .. Len(order) : order[i] = c
<1> DEFINE order == Clips!SetToSeq(Classes)
<1>1. PICK n \in Nat : n = Cardinality(Classes) /\ ExistsBijection(1 .. n, Classes)
  BY FS_CardinalityType DEF DecodeOK
<1>2. Clips!Cardinality(Classes) = n
  BY <1>1, ClipsLists
<1>3. \E f \in [1 .. n -> Classes] : Clips!IsInjective(f)
  BY <1>1 DEF ExistsBijection, Bijection, Injection, IsInjective, Clips!IsInjective
<1>4. order \in [1 .. n -> Classes] /\ Clips!IsInjective(order)
  BY <1>2, <1>3 DEF Clips!SetToSeq
<1> HIDE DEF order
<1>5. Len(order) = n /\ DOMAIN order = 1 .. n
  BY <1>4, ClipsLists
<1>6. \A i, j \in 1 .. n : order[i] = order[j] => i = j
  BY <1>4, <1>5 DEF Clips!IsInjective
<1>7. order \in Injection(1 .. n, Classes)
  BY <1>4, <1>6, Fun_IsInj
<1>8. IsFiniteSet(Classes) /\ Cardinality(1 .. n) = Cardinality(Classes)
  BY <1>1, FS_Interval DEF DecodeOK
<1>9. order \in Surjection(1 .. n, Classes)
  BY <1>7, <1>8, FS_Injection
<1>10. \A c \in Classes : \E i \in 1 .. n : order[i] = c
  BY <1>9 DEF Surjection
<1>11. QED
  BY <1>4, <1>5, <1>6, <1>10 DEF order

Found == UNION {Spans(c) : c \in Classes}

\* What the first m classes of the order are decoded to.
FoundUpTo(x, fs, k, order, m) ==
  /\ x \in Seq(Found)
  /\ \A i \in 1 .. Len(x) : \E l \in 1 .. m : x[i].class = order[l]
  /\ \A i, j \in 1 .. Len(x) : i < j /\ x[i].class = x[j].class => StandsApart(x[i], x[j], k)
  /\ ~ k.heads /\ k.strategy = "merge" =>
       \A l \in 1 .. m : \A r \in Sustained(fs, order[l], k) :
         \E i \in 1 .. Len(x) : x[i].class = order[l] /\ Covers(x[i], fs, r)

\* One more class.
LEMMA ClassAdds ==
  ASSUME DecodeOK, NEW fs, FramesOK(fs), NEW k \in Clips!Config,
         NEW n \in Nat, NEW order \in [1 .. n -> Classes],
         \A i, j \in 1 .. n : order[i] = order[j] => i = j,
         NEW m \in 0 .. n - 1, NEW x, FoundUpTo(x, fs, k, order, m)
  PROVE  FoundUpTo(x \o Clips!OfClass(fs, order[m + 1], k), fs, k, order, m + 1)
<1>1. PICK c \in Classes : c = order[m + 1] /\ m + 1 \in 1 .. n
  <2>1. m + 1 \in 1 .. n
    OBVIOUS
  <2>2. QED
    BY <2>1
<1> DEFINE y == Clips!OfClass(fs, c, k)
           z == x \o y
<1>2. /\ y \in Seq(Spans(c))
      /\ \A i, j \in 1 .. Len(y) : i < j => StandsApart(y[i], y[j], k)
      /\ ~ k.heads /\ k.strategy = "merge" =>
           \A r \in Sustained(fs, c, k) : \E i \in 1 .. Len(y) : Covers(y[i], fs, r)
  BY OfClassIs
<1> HIDE DEF y
<1>3. x \in Seq(Found) /\ y \in Seq(Found)
  <2>1. Spans(c) \subseteq Found
    BY DEF Found
  <2>2. y \in Seq(Found)
    BY <1>2, <2>1
  <2>3. QED
    BY <2>2 DEF FoundUpTo
<1>4. PICK p \in Nat, q \in Nat : p = Len(x) /\ q = Len(y)
  BY <1>3
<1>5. /\ z \in Seq(Found) /\ Len(z) = p + q
      /\ \A i \in 1 .. p : z[i] = x[i]
      /\ \A i \in p + 1 .. p + q : z[i] = y[i - p]
  BY <1>3, <1>4
<1> HIDE DEF z
<1>6. ASSUME NEW i \in 1 .. p
      PROVE  /\ z[i] = x[i] /\ z[i].class # c
             /\ \E l \in 1 .. m + 1 : z[i].class = order[l]
  <2>1. PICK l \in 1 .. m : x[i].class = order[l]
    BY <1>4 DEF FoundUpTo
  <2>2. l \in 1 .. n /\ l # m + 1 /\ l \in 1 .. m + 1
    BY <1>1
  <2>3. QED
    BY <1>1, <1>5, <2>1, <2>2
<1>7. ASSUME NEW i \in p + 1 .. p + q
      PROVE  i - p \in 1 .. q /\ z[i] = y[i - p] /\ z[i].class = c
  <2>1. i - p \in 1 .. q
    OBVIOUS
  <2>2. y[i - p] \in Spans(c)
    BY <1>2, <1>4, <2>1
  <2>3. QED
    BY <1>5, <2>1, <2>2 DEF Spans, CandidateOf
<1>8. \A i \in 1 .. p + q : i \in 1 .. p \/ i \in p + 1 .. p + q
  OBVIOUS
<1>9. \A i \in 1 .. p + q : \E l \in 1 .. m + 1 : z[i].class = order[l]
  <2>1. m + 1 \in 1 .. m + 1
    OBVIOUS
  <2>2. QED
    BY <1>1, <1>6, <1>7, <1>8, <2>1
<1>10. ASSUME NEW i \in 1 .. p + q, NEW j \in 1 .. p + q, i < j, z[i].class = z[j].class
       PROVE  StandsApart(z[i], z[j], k)
  <2>1. CASE j \in 1 .. p
    <3>1. i \in 1 .. p
      BY <1>10, <2>1
    <3>2. z[i] = x[i] /\ z[j] = x[j]
      BY <1>6, <2>1, <3>1
    <3>3. QED
      BY <1>4, <1>10, <2>1, <3>1, <3>2 DEF FoundUpTo
  <2>2. CASE j \in p + 1 .. p + q
    <3>1. i \in p + 1 .. p + q
      BY <1>6, <1>7, <1>8, <1>10, <2>2
    <3>2. i - p \in 1 .. q /\ j - p \in 1 .. q /\ i - p < j - p
      BY <1>10, <2>2, <3>1
    <3>3. z[i] = y[i - p] /\ z[j] = y[j - p]
      BY <1>7, <2>2, <3>1
    <3>4. StandsApart(y[i - p], y[j - p], k)
      BY <1>2, <1>4, <3>2
    <3>5. QED
      BY <3>3, <3>4
  <2>3. QED
    BY <1>8, <2>1, <2>2
<1>11. ASSUME ~ k.heads, k.strategy = "merge", NEW l \in 1 .. m + 1,
              NEW r \in Sustained(fs, order[l], k)
       PROVE  \E i \in 1 .. p + q : z[i].class = order[l] /\ Covers(z[i], fs, r)
  <2>1. CASE l \in 1 .. m
    <3>1. PICK i \in 1 .. p : x[i].class = order[l] /\ Covers(x[i], fs, r)
      BY <1>4, <1>11, <2>1 DEF FoundUpTo
    <3>2. z[i] = x[i] /\ i \in 1 .. p + q
      BY <1>6
    <3>3. QED
      BY <3>1, <3>2
  <2>2. CASE l = m + 1
    <3>1. PICK i \in 1 .. q : Covers(y[i], fs, r)
      BY <1>1, <1>2, <1>4, <1>11, <2>2
    <3>2. p + i \in p + 1 .. p + q /\ p + i \in 1 .. p + q /\ p + i - p = i
      OBVIOUS
    <3>3. z[p + i] = y[i] /\ z[p + i].class = c
      BY <1>7, <3>2
    <3>4. QED
      BY <1>1, <2>2, <3>1, <3>2, <3>3
  <2>3. l \in 1 .. m \/ l = m + 1
    OBVIOUS
  <2>4. QED
    BY <2>1, <2>2, <2>3
<1>12. FoundUpTo(z, fs, k, order, m + 1)
  BY <1>5, <1>9, <1>10, <1>11 DEF FoundUpTo
<1>13. QED
  BY <1>1, <1>12 DEF y, z

\* decode_predictions, before the events are named and sorted.
AllOf(fs, k) ==
  LET order == Clips!SetToSeq(Classes)
      all[n \in 0 .. Len(order)] ==
        IF n = 0 THEN <<>> ELSE all[n - 1] \o Clips!OfClass(fs, order[n], k)
  IN  all[Len(order)]

LEMMA AllIs ==
  ASSUME DecodeOK, NEW fs, FramesOK(fs), NEW k \in Clips!Config
  PROVE  LET order == Clips!SetToSeq(Classes)
         IN  FoundUpTo(AllOf(fs, k), fs, k, order, Len(order))
<1> DEFINE order == Clips!SetToSeq(Classes)
           size == Len(order)
<1>0. /\ size \in Nat /\ order \in [1 .. size -> Classes]
      /\ \A i, j \in 1 .. size : order[i] = order[j] => i = j
  BY ClassesInOrder
<1> HIDE DEF order, size
<1>1. PICK n \in Nat :
        /\ n = size /\ order \in [1 .. n -> Classes]
        /\ \A i, j \in 1 .. n : order[i] = order[j] => i = j
  BY <1>0
<1> DEFINE Goes(f) ==
             f = [m \in 0 .. n |-> IF m = 0 THEN <<>> ELSE f[m - 1] \o Clips!OfClass(fs, order[m], k)]
           G == [m \in 1 .. n |-> [x \in Seq(Found) |-> x \o Clips!OfClass(fs, order[m], k)]]
           s == CHOOSE f : Goes(f)
           T == {m \in 0 .. n : FoundUpTo(s[m], fs, k, order, m)}
<1>2. AllOf(fs, k) = s[n]
  BY <1>1 DEF AllOf, order, size
<1>3. ASSUME NEW m \in 1 .. n
      PROVE  Clips!OfClass(fs, order[m], k) \in Seq(Found)
  <2>1. PICK c \in Classes : c = order[m]
    BY <1>1
  <2>2. Clips!OfClass(fs, c, k) \in Seq(Spans(c))
    BY OfClassIs
  <2>3. Spans(c) \subseteq Found
    BY DEF Found
  <2>4. Clips!OfClass(fs, c, k) \in Seq(Found)
    BY <2>2, <2>3
  <2>5. QED
    BY <2>1, <2>4
<1>4. \E f : Goes(f)
  <2>1. n \in Nat /\ <<>> \in Seq(Found) /\ G \in [1 .. n -> [Seq(Found) -> Seq(Found)]]
    BY <1>3
  <2> HIDE DEF G
  <2>2. Loops(n, Seq(Found), <<>>, G)
    BY ONLY <2>1, LoopRuns, Zenon
  <2>3. PICK f \in [0 .. n -> Seq(Found)] :
          f[0] = <<>> /\ \A m \in 1 .. n : f[m] = G[m][f[m - 1]]
    BY <2>2 DEF Loops
  <2>4. ASSUME NEW m \in 1 .. n
        PROVE  f[m] = f[m - 1] \o Clips!OfClass(fs, order[m], k)
    <3>1. m - 1 \in 0 .. n
      OBVIOUS
    <3>2. f[m - 1] \in Seq(Found)
      BY <2>3, <3>1
    <3>3. QED
      BY <2>3, <3>2 DEF G
  <2>5. \A m \in 0 .. n : f[m] = IF m = 0 THEN <<>> ELSE f[m - 1] \o Clips!OfClass(fs, order[m], k)
    <3>1. \A m \in 0 .. n : m = 0 \/ m \in 1 .. n
      OBVIOUS
    <3>2. QED
      BY <2>3, <2>4, <3>1
  <2>6. f = [m \in 0 .. n |-> f[m]]
    OBVIOUS
  <2>7. Goes(f)
    BY <2>5, <2>6
  <2>8. QED
    BY <2>7
<1>5. Goes(s)
  <2> HIDE DEF Goes
  <2>1. QED
    BY <1>4
<1> HIDE DEF s
<1>6. \A m \in 0 .. n : s[m] = IF m = 0 THEN <<>> ELSE s[m - 1] \o Clips!OfClass(fs, order[m], k)
  BY <1>5
<1>7. 0 \in T
  <2>1. s[0] = <<>> /\ Len(<<>>) = 0 /\ <<>> \in Seq(Found)
    BY <1>6
  <2>2. FoundUpTo(<<>>, fs, k, order, 0)
    BY <2>1 DEF FoundUpTo
  <2>3. QED
    BY <2>1, <2>2
<1>8. ASSUME NEW m \in 0 .. n - 1, m \in T
      PROVE  m + 1 \in T
  <2>1. m + 1 \in 1 .. n /\ m + 1 \in 0 .. n /\ m + 1 # 0 /\ m + 1 - 1 = m
    OBVIOUS
  <2>2. s[m + 1] = s[m] \o Clips!OfClass(fs, order[m + 1], k)
    <3>1. PICK j : j = m + 1
      OBVIOUS
    <3>2. j \in 0 .. n /\ j # 0 /\ j - 1 = m
      BY <3>1
    <3>3. s[j] = IF j = 0 THEN <<>> ELSE s[j - 1] \o Clips!OfClass(fs, order[j], k)
      BY <1>6, <3>2, Zenon
    <3>4. QED
      BY <3>1, <3>2, <3>3, Zenon
  <2>3. FoundUpTo(s[m], fs, k, order, m)
    BY <1>8
  <2>4. FoundUpTo(s[m] \o Clips!OfClass(fs, order[m + 1], k), fs, k, order, m + 1)
    BY <1>1, <2>3, ClassAdds
  <2>5. QED
    BY <2>1, <2>2, <2>4
<1> HIDE DEF T
<1>9. \A m \in 0 .. n : m \in T
  BY <1>7, <1>8, UpTo
<1>10. FoundUpTo(s[n], fs, k, order, n)
  BY <1>9 DEF T
<1>11. QED
  <2>1. FoundUpTo(AllOf(fs, k), fs, k, order, Len(order))
    BY <1>1, <1>2, <1>10 DEF size
  <2>2. QED
    BY <2>1 DEF order

\* Naming an event leaves its class and its time alone.
LEMMA DetectionIs ==
  ASSUME NEW e, NEW k
  PROVE  LET d == Clips!Detection(e, k)
         IN  d.class = e.class /\ d.start = e.start /\ d.end = e.end
BY DEF Clips!Detection

\* What comes of a clip: of two events of a class the later one stands apart,
\* and the runs that last are within an event.
DecodedWell(x, fs, k) ==
  /\ DOMAIN x = 1 .. Len(x)
  /\ \A i, j \in 1 .. Len(x) :
       i < j /\ x[i].class = x[j].class =>
         IF k.strategy = "merge" THEN x[j].start - x[i].end > k.gap
         ELSE Clips!Apart(x[i], x[j], k.iou)
  /\ ~ k.heads /\ k.strategy = "merge" =>
       \A c \in Classes : \A r \in Sustained(fs, c, k) :
         \E i \in 1 .. Len(x) : x[i].class = c /\ Covers(x[i], fs, r)

LEMMA DecodeIs ==
  ASSUME DecodeOK, NEW fs, FramesOK(fs), NEW k \in Clips!Config
  PROVE  DecodedWell(Clips!Decode(fs, k), fs, k)
<1> DEFINE order == Clips!SetToSeq(Classes)
           a == AllOf(fs, k)
           Name(e) == Clips!Detection(e, k)
           named == [i \in DOMAIN a |-> Name(a[i])]
           S == {Name(e) : e \in Found}
           x == Clips!Decode(fs, k)
<1>1. FoundUpTo(a, fs, k, order, Len(order))
  BY AllIs
<1>2. \A c \in Classes : \E l \in 1 .. Len(order) : order[l] = c
  BY ClassesInOrder
<1>3. x = Clips!ByStart(Clips!List(named))
  BY DEF Clips!Decode, AllOf
<1> HIDE DEF x, a, order
<1>4. PICK n \in Nat : n = Len(a) /\ a \in [1 .. n -> Found] /\ DOMAIN a = 1 .. n
  BY <1>1 DEF FoundUpTo
<1>5. /\ \A e : Name(e).class = e.class /\ Name(e).start = e.start /\ Name(e).end = e.end
      /\ \A e \in Found : Name(e) \in S
  BY DetectionIs
<1>6. \A e \in Found : e.start \in Int /\ e.end \in Int /\ e.start <= e.end
  BY DEF Found, Spans, CandidateOf
<1>7. \A d \in S : d.start \in Int
  BY <1>5, <1>6
<1> HIDE DEF Name, S
<1>8. named \in [1 .. n -> S] /\ \A i \in 1 .. n : named[i] = Name(a[i]) /\ a[i] \in Found
  BY <1>4, <1>5
<1> HIDE DEF named
<1>9. Clips!List(named) = named
  BY <1>8, ClipsLists
<1>10. InOrder(S, n, named, x)
  BY <1>3, <1>7, <1>8, <1>9, StartsInOrder
<1>11. Len(x) = n /\ DOMAIN x = 1 .. n
  BY <1>10, ClipsLists DEF InOrder
<1>12. ASSUME NEW i \in 1 .. n, NEW j \in 1 .. n, i < j, x[i].class = x[j].class
       PROVE  IF k.strategy = "merge" THEN x[j].start - x[i].end > k.gap
              ELSE Clips!Apart(x[i], x[j], k.iou)
  <2>1. PICK p \in 1 .. n, q \in 1 .. n : p # q /\ x[i] = named[p] /\ x[j] = named[q]
    BY <1>10, <1>12 DEF InOrder
  <2>2. PICK d \in Found, e \in Found : d = a[p] /\ e = a[q]
    BY <1>8
  <2>3. x[i] = Name(d) /\ x[j] = Name(e)
    BY <1>8, <2>1, <2>2
  <2>4. d.class = e.class
    BY <1>5, <1>12, <2>3
  <2>5. StandsApart(d, e, k) \/ StandsApart(e, d, k)
    <3>1. p < q \/ q < p
      BY <2>1
    <3>2. \A y, z \in 1 .. n : y < z /\ a[y].class = a[z].class => StandsApart(a[y], a[z], k)
      BY <1>1, <1>4 DEF FoundUpTo
    <3>3. QED
      BY <2>2, <2>4, <3>1, <3>2
  <2>6. CASE k.strategy = "merge"
    <3>1. PICK s1 \in Int, e1 \in Int, s2 \in Int, e2 \in Int :
            s1 = d.start /\ e1 = d.end /\ s2 = e.start /\ e2 = e.end /\ s1 <= e1 /\ s2 <= e2
      BY <1>6
    <3>2. s1 <= s2
      <4>1. x[i].start <= x[j].start
        BY <1>10, <1>12 DEF InOrder
      <4>2. QED
        BY <1>5, <2>3, <3>1, <4>1
    <3>3. s2 - e1 > k.gap \/ s1 - e2 > k.gap
      BY <2>5, <2>6, <3>1 DEF StandsApart
    <3>4. k.gap \in Nat
      BY DEF Clips!Config
    <3>5. s2 - e1 > k.gap
      BY ONLY <3>1, <3>2, <3>3, <3>4, s1 \in Int, e1 \in Int, s2 \in Int, e2 \in Int
    <3>6. QED
      BY <1>5, <2>3, <2>6, <3>1, <3>5
  <2>7. CASE k.strategy # "merge"
    <3>1. Clips!Apart(d, e, k.iou)
      BY <2>5, <2>7 DEF StandsApart
    <3>2. /\ x[i].start = d.start /\ x[i].end = d.end
          /\ x[j].start = e.start /\ x[j].end = e.end
      BY <1>5, <2>3
    <3>3. Clips!Apart(x[i], x[j], k.iou)
      BY <3>1, <3>2 DEF Clips!Apart
    <3>4. QED
      BY <2>7, <3>3
  <2>8. QED
    BY <2>6, <2>7
<1>13. ASSUME ~ k.heads, k.strategy = "merge", NEW c \in Classes, NEW r \in Sustained(fs, c, k)
       PROVE  \E i \in 1 .. n : x[i].class = c /\ Covers(x[i], fs, r)
  <2>1. PICK l \in 1 .. Len(order) : order[l] = c
    BY <1>2
  <2>2. PICK i \in 1 .. n : a[i].class = c /\ Covers(a[i], fs, r)
    BY <1>1, <1>4, <1>13, <2>1 DEF FoundUpTo
  <2>3. PICK j \in 1 .. n : x[j] = named[i]
    BY <1>10 DEF InOrder
  <2>4. x[j].class = a[i].class /\ x[j].start = a[i].start /\ x[j].end = a[i].end
    BY <1>5, <1>8, <2>3
  <2>5. QED
    BY <2>2, <2>4 DEF Covers
<1>14. DecodedWell(x, fs, k)
  BY <1>11, <1>12, <1>13 DEF DecodedWell
<1>15. QED
  BY <1>14 DEF x

\* The frames are those of a clip, and a configuration is chosen.
DecodeInv == FramesOK(clip) /\ config \in Clips!Config

LEMMA FrameAppended ==
  ASSUME ClipsOK, DecodeInv, NEW step \in Steps, NEW out \in Clips!Output,
         clip' = Append(clip, [ms |-> Clips!NextTime(step), out |-> out]), config' = config
  PROVE  DecodeInv'
<1> DEFINE f == [ms |-> Clips!NextTime(step), out |-> out]
<1>1. clip \in Seq(Frame) /\ \A i, j \in 1 .. Len(clip) : i < j => clip[i].ms < clip[j].ms
  BY DEF DecodeInv, FramesOK
<1>2. ClipInv
  <2>1. \A i \in 1 .. Len(clip) : clip[i].ms \in Nat
    <3>1. ASSUME NEW i \in 1 .. Len(clip)
          PROVE  clip[i].ms \in Nat
      <4>1. clip[i] \in Frame
        BY <1>1
      <4>2. QED
        BY <4>1 DEF Frame
    <3>2. QED
      BY <3>1
  <2>2. QED
    BY <1>1, <2>1 DEF ClipInv
<1>3. ClipInv'
  <2>1. f.ms = Clips!NextTime(step) /\ clip' = Append(clip, f)
    OBVIOUS
  <2> HIDE DEF f
  <2>2. QED
    BY <1>2, <2>1, FrameKeeps
<1>4. f \in Frame
  <2>1. clip' = Append(clip, f) /\ f.ms = Clips!NextTime(step) /\ f = [ms |-> f.ms, out |-> out]
    OBVIOUS
  <2> HIDE DEF f
  <2>2. Len(clip) + 1 \in 1 .. Len(clip') /\ clip'[Len(clip) + 1] = f
    BY <1>1, <2>1
  <2>3. f.ms \in Nat
    BY <1>3, <2>2 DEF ClipInv
  <2>4. QED
    BY <2>1, <2>3 DEF Frame
<1>5. clip' \in Seq(Frame)
  BY <1>1, <1>4
<1>6. FramesOK(clip)'
  BY <1>3, <1>5 DEF FramesOK, ClipInv
<1>7. QED
  BY <1>6 DEF DecodeInv

LEMMA DecodeStarts ==
  ASSUME DecodeOK, Clips!Init
  PROVE  DecodeInv
<1>1. clip = <<>> /\ config \in Configs
  BY DEF Clips!Init
<1>2. <<>> \in Seq(Frame) /\ Len(<<>>) = 0
  OBVIOUS
<1>3. FramesOK(<<>>)
  BY <1>2 DEF FramesOK
<1>4. QED
  BY <1>1, <1>3 DEF DecodeInv, DecodeOK

LEMMA DecodeKeeps ==
  ASSUME ClipsOK, DecodeOK, DecodeInv, [Clips!Next]_Clips!vars
  PROVE  DecodeInv'
<1>1. ASSUME NEW step \in Steps, NEW out \in Outputs, Clips!Infer(step, out)
      PROVE  DecodeInv'
  <2>1. out \in Clips!Output
    BY DEF DecodeOK
  <2>2. QED
    BY <1>1, <2>1, FrameAppended DEF Clips!Infer
<1>2. ASSUME NEW step \in Steps, Clips!Sample(step)
      PROVE  DecodeInv'
  <2>1. Clips!Silent \in Clips!Output
    BY DEF Clips!Silent, Clips!Output, Clips!Probabilities
  <2>2. QED
    BY <1>2, <2>1, FrameAppended DEF Clips!Sample
<1>3. CASE UNCHANGED Clips!vars
  BY <1>3 DEF Clips!vars, DecodeInv
<1>4. QED
  BY <1>1, <1>2, <1>3 DEF Clips!Next

\* Whatever a model says of whatever frames, the events of a clip are decoded
\* from its frames with one of the configurations.
THEOREM DecodeInvariant ==
  ASSUME ClipsOK, DecodeOK
  PROVE  Clips!Spec => []DecodeInv
<1>1. Clips!Init => DecodeInv
  BY DecodeStarts
<1>2. DecodeInv /\ [Clips!Next]_Clips!vars => DecodeInv'
  BY DecodeKeeps
<1>3. QED
  BY <1>1, <1>2, PTL DEF Clips!Spec

\* Whatever a model says of the frames, and wherever its heads put the
\* boundaries, merged events of a class are more than the gap apart, and of two
\* that overlap too much one is gone (_merge, _suppress, decode_predictions).
THEOREM EventsStayApart ==
  ASSUME ClipsOK, DecodeOK
  PROVE  Clips!Spec => []Clips!StandApart
<1>1. ASSUME DecodeInv
      PROVE  Clips!StandApart
  <2>1. DecodedWell(Clips!Decode(clip, config), clip, config)
    BY <1>1, DecodeIs DEF DecodeInv
  <2>2. QED
    BY <2>1 DEF DecodedWell, Clips!StandApart, Clips!Uncrowded, Clips!Decoded
<1>2. QED
  BY <1>1, DecodeInvariant, PTL

\* Whatever the length and the number of the runs: without boundary heads and
\* with merging no run that lasts is lost (_find_runs, _merge).
THEOREM SustainedStaysFound ==
  ASSUME ClipsOK, DecodeOK
  PROVE  Clips!Spec => []Clips!SustainedIsFound
<1>1. ASSUME DecodeInv
      PROVE  Clips!SustainedIsFound
  <2>1. DecodedWell(Clips!Decode(clip, config), clip, config)
    BY <1>1, DecodeIs DEF DecodeInv
  <2> DEFINE found == Clips!Decode(clip, config)
  <2>2. SUFFICES ASSUME ~ config.heads, config.strategy = "merge", NEW c \in Classes,
                        NEW r \in Clips!Runs(clip, c, config),
                        clip[r[2] - 1].ms - clip[r[1]].ms >= config.min
                 PROVE  Clips!Within(found, c, r)
    BY DEF Clips!SustainedIsFound, Clips!Decoded
  <2> HIDE DEF found
  <2>3. r \in Sustained(clip, c, config)
    BY <2>2 DEF Sustained
  <2>4. PICK i \in DOMAIN found : found[i].class = c /\ Covers(found[i], clip, r)
    BY <2>1, <2>2, <2>3 DEF DecodedWell, found
  <2>5. QED
    BY <2>4 DEF Covers, Clips!Within
<1>2. QED
  BY <1>1, DecodeInvariant, PTL

-----------------------------------------------------------------------------
(* Tracking.                                                               *)

Filters == [pos : Int, vel : Int, last : Nat, width : Nat]

\* Frames have a time of their own, a speed that is excessive is above 0
\* (DangerousPlayConfig), and Python's None is no box and no filter.
TrackingOK ==
  /\ \A found \in Seen : found \in Seq(Tracking!Boxes)
  /\ FrameSteps \subseteq Nat \ {0}
  /\ Gains \subseteq [pos : Int, vel : Int]
  /\ MaxGap \in Int /\ FastAt \in Int /\ FastAt > 0
  /\ None \notin Tracking!Boxes /\ None \notin Filters

SeenOK ==
  /\ \E S : seen \in Seq(S)
  /\ \A i \in 1 .. Len(seen) : seen[i].ms \in Nat /\ seen[i].found \in Seen
  /\ \A i, j \in 1 .. Len(seen) : i < j => seen[i].ms < seen[j].ms

\* There is a filter once something was seen, and it stands at the last frame.
FilterOK ==
  /\ filter # None =>
       /\ filter \in Filters
       /\ seen # <<>> /\ filter.last = seen[Len(seen)].ms
       /\ \E j \in 1 .. Len(seen) : seen[j].found # <<>>
  /\ filter = None => \A j \in 1 .. Len(seen) : seen[j].found = <<>>

\* A track has the frames' times, once each.
TracksOK ==
  /\ \E S : tracks \in Seq(S)
  /\ \A k \in 1 .. Len(tracks) : /\ tracks[k].ms \in Nat /\ tracks[k].x \in Int
                                 /\ seen # <<>> /\ tracks[k].ms <= seen[Len(seen)].ms
  /\ \A k, l \in 1 .. Len(tracks) : k < l => tracks[k].ms < tracks[l].ms

OnTrack(ms) == \E k \in 1 .. Len(tracks) : tracks[k].ms = ms

\* A frame that the tracker can predict: not too far from the one before it,
\* and something was seen.
Bridged(i) ==
  /\ 1 < i /\ seen[i].ms - seen[i - 1].ms <= MaxGap
  /\ \E j \in 1 .. i - 1 : seen[j].found # <<>>

\* Which frames are on the track.
TrackedOK ==
  \A i \in 1 .. Len(seen) : OnTrack(seen[i].ms) <=> seen[i].found # <<>> \/ Bridged(i)

\* The yo-yo is seen nowhere but at one place.
SeenAt(x) == \A i \in 1 .. Len(seen) : \A d \in DOMAIN seen[i].found : seen[i].found[d].x = x

Rests(f, x) == f.pos = x /\ f.vel = 0

\* Then that is where the track is, and the filter rests.
RestsOK ==
  \A x \in Int : SeenAt(x) => /\ \A k \in 1 .. Len(tracks) : tracks[k].x = x
                              /\ filter # None => Rests(filter, x)

TrackInv == SeenOK /\ FilterOK /\ TracksOK /\ TrackedOK /\ RestsOK

\* The best detection is one of them.
LEMMA BestIsOne ==
  ASSUME TrackingOK, NEW found \in Seen, found # <<>>
  PROVE  \E i \in 1 .. Len(found) : Tracking!Best(found) = found[i]
<1>1. PICK n : n \in Nat /\ n = Len(found) /\ n > 0 /\ DOMAIN found = 1 .. n
  BY EmptySeq DEF TrackingOK
<1>2. \A i \in 1 .. n : found[i].conf \in 0 .. 100
  <2>1. found \in Seq(Tracking!Boxes)
    BY DEF TrackingOK
  <2>2. \A i \in 1 .. n : found[i] \in Tracking!Boxes
    BY <1>1, <2>1
  <2>3. QED
    BY <2>2 DEF Tracking!Boxes
<1> DEFINE C == {101 - found[i].conf : i \in 1 .. n}
           T == {i \in 1 .. n : \A j \in 1 .. n : found[j].conf <= found[i].conf}
<1>3. C \in SUBSET (1 .. 101) /\ C # {}
  <2>1. ASSUME NEW i \in 1 .. n
        PROVE  101 - found[i].conf \in 1 .. 101
    <3>1. PICK a \in 0 .. 100 : a = found[i].conf
      BY <1>2
    <3>2. 101 - a \in 1 .. 101
      OBVIOUS
    <3>3. QED
      BY <3>1, <3>2
  <2>2. 1 \in 1 .. n
    BY <1>1
  <2>3. QED
    BY <2>1, <2>2
<1>4. \E m \in C : \A k \in C : m <= k
  <2> HIDE DEF C
  <2>1. QED
    BY <1>3, Least
<1>5. PICK i \in 1 .. n : \A j \in 1 .. n : 101 - found[i].conf <= 101 - found[j].conf
  BY <1>4
<1>6. i \in T
  <2>1. ASSUME NEW j \in 1 .. n
        PROVE  found[j].conf <= found[i].conf
    <3>1. PICK a \in 0 .. 100 : a = found[i].conf
      BY <1>2
    <3>2. PICK b \in 0 .. 100 : b = found[j].conf
      BY <1>2
    <3>3. 101 - a <= 101 - b
      BY <1>5, <3>1, <3>2
    <3>4. QED
      BY <3>1, <3>2, <3>3
  <2>2. QED
    BY <2>1
<1>7. T \in SUBSET (1 .. n) /\ T # {}
  BY <1>6
<1>8. \E k \in T : \A l \in T : k <= l
  <2> HIDE DEF T
  <2>1. QED
    BY <1>1, <1>7, Least
<1>9. Tracking!Min(T) \in T
  <2> HIDE DEF T
  <2>1. QED
    BY <1>8 DEF Tracking!Min
<1>10. Tracking!Best(found) = found[Tracking!Min(T)]
  BY <1>1 DEF Tracking!Best
<1>11. QED
  BY <1>1, <1>9, <1>10

\* What a detection at x makes of the filter.
Corrected(f, gap, x, gain, ms, wide) ==
  [Tracking!Updated(Tracking!Predicted(f, gap), x, gain) EXCEPT !.last = ms, !.width = wide]

LEMMA NewFilter ==
  ASSUME NEW f \in Filters, NEW gap \in Int, NEW x \in Int, NEW gain \in [pos : Int, vel : Int],
         NEW ms \in Nat, NEW wide \in Nat
  PROVE  /\ Corrected(f, gap, x, gain, ms, wide) \in Filters
         /\ Corrected(f, gap, x, gain, ms, wide).last = ms
         /\ Rests(f, x) => Rests(Corrected(f, gap, x, gain, ms, wide), x)
<1>1. PICK b \in Int, s \in Int, l \in Nat, w \in Nat : f = [pos |-> b, vel |-> s, last |-> l, width |-> w]
  BY DEF Filters
<1>2. PICK p \in Int : p = b + s * gap
  OBVIOUS
<1>3. Tracking!Predicted(f, gap) = [pos |-> p, vel |-> s, last |-> l, width |-> w]
  <2>1. f.vel = s /\ f.pos = b
    BY <1>1
  <2>2. [f EXCEPT !.pos = p] = [pos |-> p, vel |-> s, last |-> l, width |-> w]
    BY <1>1
  <2>3. Tracking!Predicted(f, gap) = [f EXCEPT !.pos = p]
    BY <1>1, <1>2, <2>1 DEF Tracking!Predicted
  <2>4. QED
    BY <2>2, <2>3
<1>4. PICK m : m = [pos |-> p, vel |-> s, last |-> l, width |-> w]
  OBVIOUS
<1>5. PICK y \in Int, z \in Int : y = gain.pos * (x - p) /\ z = gain.vel * (x - p)
  OBVIOUS
<1>6. PICK c \in Int, d \in Int : c = y \div 100 /\ d = z \div 100
  OBVIOUS
<1>7. PICK a \in Int, v \in Int : a = p + c /\ v = s + d
  OBVIOUS
<1>8. Tracking!Updated(m, x, gain) = [pos |-> a, vel |-> v, last |-> l, width |-> w]
  <2>1. m.pos = p /\ m.vel = s
    BY <1>4
  <2>2. p + (gain.pos * (x - m.pos)) \div 100 = a /\ s + (gain.vel * (x - m.pos)) \div 100 = v
    BY <1>5, <1>6, <1>7, <2>1
  <2>3. [m EXCEPT !.pos = p + (gain.pos * (x - m.pos)) \div 100,
                  !.vel = s + (gain.vel * (x - m.pos)) \div 100] = [m EXCEPT !.pos = a, !.vel = v]
    BY <2>2
  <2>4. Tracking!Updated(m, x, gain) = [m EXCEPT !.pos = a, !.vel = v]
    BY <1>4, <2>1, <2>2, Zenon DEF Tracking!Updated
  <2>5. QED
    BY <1>4, <2>4
<1>9. [Tracking!Updated(m, x, gain) EXCEPT !.last = ms, !.width = wide]
        = [pos |-> a, vel |-> v, last |-> ms, width |-> wide]
  <2>1. PICK u : u = [pos |-> a, vel |-> v, last |-> l, width |-> w]
    OBVIOUS
  <2>2. PICK g : g = [u EXCEPT !.last = ms]
    OBVIOUS
  <2>3. g = [pos |-> a, vel |-> v, last |-> ms, width |-> w]
    BY <2>1, <2>2
  <2>4. [g EXCEPT !.width = wide] = [pos |-> a, vel |-> v, last |-> ms, width |-> wide]
    BY <2>3
  <2>5. [u EXCEPT !.last = ms, !.width = wide] = [[u EXCEPT !.last = ms] EXCEPT !.width = wide]
    OBVIOUS
  <2>6. QED
    BY <1>8, <2>1, <2>2, <2>4, <2>5, Zenon
<1>10. f.vel = 0 /\ f.pos = x => a = x /\ v = 0
  <2>1. SUFFICES ASSUME f.vel = 0, f.pos = x
                 PROVE  a = x /\ v = 0
    OBVIOUS
  <2>2. s = 0 /\ b = x
    BY <1>1, <2>1
  <2>3. s * gap = 0
    BY <2>2
  <2>4. x - p = 0 /\ p = x
    BY <1>2, <2>2, <2>3
  <2>5. y = 0 /\ z = 0
    BY <1>5, <2>4
  <2>6. QED
    BY <1>6, <1>7, <2>2, <2>4, <2>5
<1>11. Corrected(f, gap, x, gain, ms, wide) = [pos |-> a, vel |-> v, last |-> ms, width |-> wide]
  BY <1>3, <1>4, <1>9, Zenon DEF Corrected
<1>12. QED
  BY <1>10, <1>11 DEF Filters, Rests

\* What a frame does to the tracker.
LEMMA FrameStep ==
  ASSUME TrackingOK, SeenOK, FilterOK, NEW step \in FrameSteps, NEW found \in Seen, NEW gain \in Gains,
         Tracking!Update(Tracking!NextTime(step), found, gain)
  PROVE  \E ms, w :
           /\ ms \in Nat /\ w.ms = ms /\ w.found = found /\ seen' = Append(seen, w)
           /\ seen # <<>> => seen[Len(seen)].ms < ms
           /\ filter = None => filter' = None \/ found # <<>>
           /\ filter' # None => filter' \in Filters /\ filter'.last = ms
           /\ filter # None => filter' # None
           /\ \/ /\ found = <<>> /\ tracks' = tracks
                 /\ filter # None => /\ ~ ms - filter.last <= MaxGap
                                    /\ \A x : Rests(filter, x) => Rests(filter', x)
              \/ \E t : /\ tracks' = Append(tracks, t) /\ t.ms = ms /\ filter' # None
                        /\ t.x = filter'.pos
                        /\ found = <<>> =>
                             /\ filter # None /\ ms - filter.last <= MaxGap
                             /\ \A x : Rests(filter, x) => Rests(filter', x)
                        /\ found # <<>> =>
                             \E i \in 1 .. Len(found) :
                               filter = None \/ Rests(filter, found[i].x) => Rests(filter', found[i].x)
<1>1. PICK S : seen \in Seq(S)
  BY DEF SeenOK
<1>2. PICK ms : /\ ms = Tracking!NextTime(step) /\ ms \in Nat
                /\ seen # <<>> => seen[Len(seen)].ms < ms
  <2>1. step \in Nat /\ step > 0
    BY DEF TrackingOK
  <2>2. CASE seen = <<>>
    BY <2>2 DEF Tracking!NextTime
  <2>3. CASE seen # <<>>
    <3>1. Len(seen) \in 1 .. Len(seen)
      BY <1>1, <2>3, EmptySeq
    <3>2. seen[Len(seen)].ms \in Nat
      BY <3>1 DEF SeenOK
    <3>3. Tracking!NextTime(step) = seen[Len(seen)].ms + step
      BY <2>3 DEF Tracking!NextTime, Tracking!Last
    <3>4. QED
      BY <2>1, <3>2, <3>3
  <2>4. QED
    BY <2>2, <2>3
<1>3. PICK w : w = [ms |-> ms, found |-> found]
  OBVIOUS
<1>4. w.ms = ms /\ w.found = found /\ seen' = Append(seen, w)
  BY <1>2, <1>3 DEF Tracking!Update
<1>5. PICK top : /\ top = Tracking!Best(found)
                 /\ found = <<>> => top = None
                 /\ found # <<>> => /\ top # None /\ top \in Tracking!Boxes
                                    /\ \E i \in 1 .. Len(found) : top = found[i]
  <2>1. CASE found = <<>>
    BY <2>1 DEF Tracking!Best
  <2>2. CASE found # <<>>
    <3>1. found \in Seq(Tracking!Boxes) /\ None \notin Tracking!Boxes
      BY DEF TrackingOK
    <3>2. PICK i \in 1 .. Len(found) : Tracking!Best(found) = found[i]
      BY <2>2, BestIsOne
    <3>3. found[i] \in Tracking!Boxes
      BY <3>1
    <3>4. QED
      BY <2>2, <3>1, <3>2, <3>3
  <2>3. QED
    BY <2>1, <2>2
<1>6. MaxGap \in Int /\ gain \in [pos : Int, vel : Int] /\ None \notin Filters
  BY DEF TrackingOK
<1>7. CASE filter = None
  <2>1. CASE found = <<>>
    <3>1. Tracking!GivesUp(0, top)
      BY <1>5, <1>7, <2>1 DEF Tracking!GivesUp
    <3>2. filter' = None /\ tracks' = tracks
      BY <1>2, <1>5, <1>7, <3>1 DEF Tracking!Update
    <3>3. QED
      BY <1>2, <1>4, <1>7, <2>1, <3>2
  <2>2. CASE found # <<>>
    <3>1. ~ Tracking!GivesUp(0, top)
      BY <1>5, <2>2 DEF Tracking!GivesUp
    <3>2. PICK new, t : /\ new = [pos |-> top.x, vel |-> 0, last |-> ms, width |-> top.w]
                        /\ t = [ms |-> ms, x |-> new.pos, w |-> new.width, conf |-> top.conf,
                                interpolated |-> top = None]
                        /\ filter' = new /\ tracks' = Append(tracks, t)
      BY <1>2, <1>5, <1>7, <2>2, <3>1 DEF Tracking!Update
    <3>3. new \in Filters /\ new.last = ms /\ new.pos = top.x /\ Rests(new, top.x)
      BY <1>2, <1>5, <2>2, <3>2 DEF Tracking!Boxes, Filters, Rests
    <3>4. t.ms = ms /\ t.x = new.pos
      BY <3>2
    <3>5. filter' # None
      BY <1>6, <3>2, <3>3
    <3>6. PICK i \in 1 .. Len(found) : top = found[i]
      BY <1>5, <2>2
    <3>7. QED
      BY <1>2, <1>4, <1>7, <2>2, <3>2, <3>3, <3>4, <3>5, <3>6
  <2>3. QED
    BY <2>1, <2>2
<1>8. CASE filter # None
  <2>1. PICK f : f = filter /\ f \in Filters
    BY <1>8 DEF FilterOK
  <2>2. PICK gap : gap = ms - f.last /\ gap \in Int
    BY <1>2, <2>1 DEF Filters
  <2>3. CASE Tracking!GivesUp(gap, top)
    <3>1. found = <<>>
      BY <1>5, <2>3 DEF Tracking!GivesUp
    <3>2. PICK new : new = [f EXCEPT !.last = ms] /\ filter' = new /\ tracks' = tracks
      BY <1>2, <1>5, <1>8, <2>1, <2>2, <2>3 DEF Tracking!Update
    <3>3. new \in Filters /\ new.last = ms /\ (\A x : Rests(f, x) => Rests(new, x))
      BY <1>2, <2>1, <3>2 DEF Filters, Rests
    <3>4. filter' # None
      BY <1>6, <3>2, <3>3
    <3>5. ~ gap <= MaxGap
      BY <1>6, <1>8, <2>1, <2>2, <2>3 DEF Tracking!GivesUp
    <3>6. QED
      BY <1>2, <1>4, <1>8, <2>1, <2>2, <3>1, <3>2, <3>3, <3>4, <3>5
  <2>4. CASE ~ Tracking!GivesUp(gap, top) /\ found = <<>>
    <3>1. gap <= MaxGap
      BY <1>5, <1>6, <2>2, <2>4 DEF Tracking!GivesUp
    <3>2. PICK new, t : /\ new = [Tracking!Predicted(f, gap) EXCEPT !.last = ms]
                        /\ t.ms = ms /\ t.x = new.pos
                        /\ filter' = new /\ tracks' = Append(tracks, t)
      BY <1>2, <1>5, <1>8, <2>1, <2>2, <2>4 DEF Tracking!Update
    <3>3. PICK p : p = f.pos + f.vel * gap /\ p \in Int
      BY <2>1, <2>2 DEF Filters
    <3>4. new = [pos |-> p, vel |-> f.vel, last |-> ms, width |-> f.width]
      BY <2>1, <3>2, <3>3 DEF Tracking!Predicted, Filters
    <3>5. new \in Filters /\ new.last = ms /\ (\A x : Rests(f, x) => Rests(new, x))
      BY <1>2, <2>1, <2>2, <3>3, <3>4 DEF Filters, Rests
    <3>6. filter' # None
      BY <1>6, <3>2, <3>5
    <3>7. QED
      BY <1>2, <1>4, <1>8, <2>1, <2>2, <2>4, <3>1, <3>2, <3>5, <3>6
  <2>5. CASE ~ Tracking!GivesUp(gap, top) /\ found # <<>>
    <3>1. PICK new, t : /\ new = [Tracking!Updated(Tracking!Predicted(f, gap), top.x, gain)
                                    EXCEPT !.last = ms, !.width = top.w]
                        /\ t.ms = ms /\ t.x = new.pos
                        /\ filter' = new /\ tracks' = Append(tracks, t)
      BY <1>2, <1>5, <1>8, <2>1, <2>2, <2>5 DEF Tracking!Update
    <3>2. PICK x \in Int, wide \in Nat : x = top.x /\ wide = top.w
      BY <1>5, <2>5 DEF Tracking!Boxes
    <3>3. new = Corrected(f, gap, x, gain, ms, wide)
      BY <3>1, <3>2, Zenon DEF Corrected
    <3>4. /\ f \in Filters /\ gap \in Int /\ x \in Int /\ gain \in [pos : Int, vel : Int]
          /\ ms \in Nat /\ wide \in Nat
      BY <1>2, <1>6, <2>1, <2>2, <3>2
    <3>5. new \in Filters /\ new.last = ms /\ (Rests(f, x) => Rests(new, x))
      <4>1. Corrected(f, gap, x, gain, ms, wide) \in Filters
        BY ONLY <3>4, NewFilter
      <4>2. Corrected(f, gap, x, gain, ms, wide).last = ms
        BY ONLY <3>4, NewFilter
      <4>3. Rests(f, x) => Rests(Corrected(f, gap, x, gain, ms, wide), x)
        BY ONLY <3>4, NewFilter
      <4>4. QED
        BY <3>3, <4>1, <4>2, <4>3
    <3>6. filter' # None
      BY <1>6, <3>1, <3>5
    <3>7. PICK i \in 1 .. Len(found) : top = found[i]
      BY <1>5, <2>5
    <3>8. QED
      BY <1>2, <1>4, <1>8, <2>1, <2>5, <3>1, <3>2, <3>5, <3>6, <3>7
  <2>6. QED
    BY <2>3, <2>4, <2>5
<1>9. QED
  BY <1>7, <1>8

LEMMA TrackerStarts ==
  ASSUME seen = <<>>, filter = None, tracks = <<>>
  PROVE  TrackInv
<1>1. Len(seen) = 0 /\ Len(tracks) = 0 /\ seen \in Seq({}) /\ tracks \in Seq({})
  OBVIOUS
<1>2. SeenOK /\ FilterOK /\ TracksOK
  BY <1>1 DEF SeenOK, FilterOK, TracksOK
<1>3. TrackedOK /\ RestsOK
  BY <1>1 DEF TrackedOK, RestsOK
<1>4. QED
  BY <1>2, <1>3 DEF TrackInv

LEMMA TrackerRestarts ==
  ASSUME seen' = <<>>, filter' = None, tracks' = <<>>
  PROVE  TrackInv'
<1>1. Len(seen') = 0 /\ Len(tracks') = 0 /\ seen' \in Seq({}) /\ tracks' \in Seq({})
  OBVIOUS
<1>2. SeenOK' /\ FilterOK' /\ TracksOK'
  BY <1>1 DEF SeenOK, FilterOK, TracksOK
<1>3. TrackedOK' /\ RestsOK'
  BY <1>1 DEF TrackedOK, RestsOK
<1>4. QED
  BY <1>2, <1>3 DEF TrackInv

\* A sequence that grows by one element.
LEMMA Grown ==
  ASSUME NEW S, NEW s \in Seq(S), NEW e
  PROVE  /\ \E T : Append(s, e) \in Seq(T)
         /\ Len(Append(s, e)) = Len(s) + 1 /\ Len(s) \in Nat /\ Append(s, e) # <<>>
         /\ Append(s, e)[Len(s) + 1] = e /\ \A i \in 1 .. Len(s) : Append(s, e)[i] = s[i]
<1>1. s \in Seq(S \cup {e})
  OBVIOUS
<1>2. Append(s, e) \in Seq(S \cup {e}) /\ Len(Append(s, e)) = Len(s) + 1 /\ Len(s) \in Nat
  BY <1>1
<1>3. Append(s, e) # <<>>
  BY <1>2
<1>4. QED
  BY <1>1, <1>2, <1>3

LEMMA FrameTracked ==
  ASSUME TrackingOK, TrackInv, Tracking!Frame
  PROVE  TrackInv'
<1>1. SeenOK /\ FilterOK /\ TracksOK /\ TrackedOK /\ RestsOK
  BY DEF TrackInv
<1>2. PICK step \in FrameSteps, found \in Seen, gain \in Gains :
        Tracking!Update(Tracking!NextTime(step), found, gain)
  BY DEF Tracking!Frame
<1>3. PICK ms, w :
        /\ ms \in Nat /\ w.ms = ms /\ w.found = found /\ seen' = Append(seen, w)
        /\ seen # <<>> => seen[Len(seen)].ms < ms
        /\ filter = None => filter' = None \/ found # <<>>
        /\ filter' # None => filter' \in Filters /\ filter'.last = ms
        /\ filter # None => filter' # None
        /\ \/ /\ found = <<>> /\ tracks' = tracks
              /\ filter # None => /\ ~ ms - filter.last <= MaxGap
                                 /\ \A x : Rests(filter, x) => Rests(filter', x)
           \/ \E t : /\ tracks' = Append(tracks, t) /\ t.ms = ms /\ filter' # None
                     /\ t.x = filter'.pos
                     /\ found = <<>> =>
                          /\ filter # None /\ ms - filter.last <= MaxGap
                          /\ \A x : Rests(filter, x) => Rests(filter', x)
                     /\ found # <<>> =>
                          \E i \in 1 .. Len(found) :
                            filter = None \/ Rests(filter, found[i].x) => Rests(filter', found[i].x)
  BY <1>1, <1>2, FrameStep
<1>4. PICK n : /\ n = Len(seen) /\ n \in Nat /\ Len(seen') = n + 1 /\ seen' # <<>>
               /\ seen'[n + 1] = w /\ \A i \in 1 .. n : seen'[i] = seen[i]
               /\ \E S : seen' \in Seq(S)
               /\ n = 0 <=> seen = <<>>
  <2>1. PICK S : seen \in Seq(S)
    BY <1>1 DEF SeenOK
  <2>2. /\ \E T : Append(seen, w) \in Seq(T)
        /\ Len(Append(seen, w)) = Len(seen) + 1 /\ Len(seen) \in Nat /\ Append(seen, w) # <<>>
        /\ Append(seen, w)[Len(seen) + 1] = w /\ \A i \in 1 .. Len(seen) : Append(seen, w)[i] = seen[i]
    BY <2>1, Grown
  <2>3. Len(seen) = 0 <=> seen = <<>>
    BY <2>1, EmptySeq
  <2>4. seen' = Append(seen, w)
    BY <1>3
  <2>5. QED
    BY <2>2, <2>3, <2>4
<1>5. \A i \in 1 .. n : seen[i].ms \in Nat /\ seen[i].found \in Seen /\ seen[i].ms < ms
  <2>1. ASSUME NEW i \in 1 .. n
        PROVE  seen[i].ms < ms
    <3>1. n \in 1 .. n /\ seen # <<>> /\ seen[n].ms < ms
      BY <1>3, <1>4
    <3>2. seen[i].ms \in Nat /\ seen[n].ms \in Nat /\ (i < n => seen[i].ms < seen[n].ms)
      BY <1>1, <1>4, <3>1 DEF SeenOK
    <3>3. i = n \/ i < n
      BY <1>4
    <3>4. QED
      BY <1>3, <3>1, <3>2, <3>3
  <2>2. QED
    BY <1>1, <1>4, <2>1 DEF SeenOK
<1>6. SeenOK'
  <2>1. \A i \in 1 .. n + 1 : i \in 1 .. n \/ i = n + 1
    BY <1>4
  <2>2. \A i \in 1 .. n + 1 : seen'[i].ms \in Nat /\ seen'[i].found \in Seen
    BY <1>3, <1>4, <1>5, <2>1
  <2>3. ASSUME NEW i \in 1 .. n + 1, NEW j \in 1 .. n + 1, i < j
        PROVE  seen'[i].ms < seen'[j].ms
    <3>1. i \in 1 .. n
      BY <1>4, <2>3
    <3>2. CASE j \in 1 .. n
      BY <1>1, <1>4, <2>3, <3>1, <3>2 DEF SeenOK
    <3>3. CASE j = n + 1
      BY <1>3, <1>4, <1>5, <3>1, <3>3
    <3>4. QED
      BY <2>1, <3>2, <3>3
  <2>4. QED
    BY <1>4, <2>2, <2>3 DEF SeenOK
<1>7. FilterOK'
  <2>0. ASSUME filter' = None, NEW j \in 1 .. Len(seen')
        PROVE  seen'[j].found = <<>>
    <3>1. filter = None /\ found = <<>>
      BY <1>3, <2>0
    <3>2. \A i \in 1 .. n : seen[i].found = <<>>
      BY <1>1, <1>4, <3>1 DEF FilterOK
    <3>3. j \in 1 .. n \/ j = n + 1
      BY <1>4, <2>0
    <3>4. QED
      BY <1>3, <1>4, <3>1, <3>2, <3>3
  <2>1. SUFFICES ASSUME filter' # None
                 PROVE  /\ filter' \in Filters
                        /\ seen' # <<>> /\ filter'.last = seen'[Len(seen')].ms
                        /\ \E j \in 1 .. Len(seen') : seen'[j].found # <<>>
    BY <2>0 DEF FilterOK
  <2>2. filter' \in Filters /\ seen' # <<>> /\ filter'.last = seen'[Len(seen')].ms
    BY <1>3, <1>4, <2>1
  <2>3. CASE filter = None
    <3>1. seen'[n + 1].found # <<>> /\ n + 1 \in 1 .. Len(seen')
      BY <1>3, <1>4, <2>1, <2>3
    <3>2. QED
      BY <2>2, <3>1
  <2>4. CASE filter # None
    <3>1. PICK j \in 1 .. n : seen[j].found # <<>>
      BY <1>1, <1>4, <2>4 DEF FilterOK
    <3>2. j \in 1 .. Len(seen') /\ seen'[j] = seen[j]
      BY <1>4
    <3>3. QED
      BY <2>2, <3>1, <3>2
  <2>5. QED
    BY <2>3, <2>4
<1>8. PICK m : /\ m = Len(tracks) /\ m \in Nat
               /\ \A k \in 1 .. m : /\ tracks[k].ms \in Nat /\ tracks[k].x \in Int
                                    /\ tracks[k].ms < ms
  <2>1. PICK T : tracks \in Seq(T)
    BY <1>1 DEF TracksOK
  <2>2. ASSUME NEW k \in 1 .. Len(tracks)
        PROVE  tracks[k].ms \in Nat /\ tracks[k].x \in Int /\ tracks[k].ms < ms
    <3>1. /\ tracks[k].ms \in Nat /\ tracks[k].x \in Int
          /\ seen # <<>> /\ tracks[k].ms <= seen[Len(seen)].ms
      BY <1>1 DEF TracksOK
    <3>2. n \in 1 .. n
      BY <1>4, <3>1
    <3>3. seen[n].ms \in Nat /\ seen[n].ms < ms
      BY <1>5, <3>2
    <3>4. QED
      BY <1>3, <1>4, <3>1, <3>3
  <2>3. QED
    BY <2>1, <2>2
\* A track, if there is one, is that of this frame.
<1>9. PICK k \in {m, m + 1} :
        /\ Len(tracks') = k /\ \E T : tracks' \in Seq(T)
        /\ \A l \in 1 .. m : tracks'[l] = tracks[l]
        /\ k = m => /\ found = <<>>
                    /\ filter # None => /\ ~ ms - filter.last <= MaxGap
                                       /\ \A x : Rests(filter, x) => Rests(filter', x)
        /\ k = m + 1 =>
             /\ tracks'[m + 1].ms = ms /\ filter' # None /\ tracks'[m + 1].x = filter'.pos
             /\ found = <<>> => /\ filter # None /\ ms - filter.last <= MaxGap
                               /\ \A x : Rests(filter, x) => Rests(filter', x)
             /\ found # <<>> =>
                  \E i \in 1 .. Len(found) :
                    filter = None \/ Rests(filter, found[i].x) => Rests(filter', found[i].x)
  <2>1. PICK S : tracks \in Seq(S)
    BY <1>1 DEF TracksOK
  <2>2. CASE /\ found = <<>> /\ tracks' = tracks
             /\ filter # None => /\ ~ ms - filter.last <= MaxGap
                                /\ \A x : Rests(filter, x) => Rests(filter', x)
    <3>1. Len(tracks') = m /\ tracks' \in Seq(S) /\ m # m + 1 /\ m \in {m, m + 1}
      BY <1>8, <2>1, <2>2
    <3>2. QED
      BY <2>2, <3>1
  <2>3. CASE \E t : /\ tracks' = Append(tracks, t) /\ t.ms = ms /\ filter' # None
                    /\ t.x = filter'.pos
                    /\ found = <<>> =>
                         /\ filter # None /\ ms - filter.last <= MaxGap
                         /\ \A x : Rests(filter, x) => Rests(filter', x)
                    /\ found # <<>> =>
                         \E i \in 1 .. Len(found) :
                           filter = None \/ Rests(filter, found[i].x) => Rests(filter', found[i].x)
    <3>1. PICK t : /\ tracks' = Append(tracks, t) /\ t.ms = ms /\ filter' # None
                   /\ t.x = filter'.pos
                   /\ found = <<>> =>
                        /\ filter # None /\ ms - filter.last <= MaxGap
                        /\ \A x : Rests(filter, x) => Rests(filter', x)
                   /\ found # <<>> =>
                        \E i \in 1 .. Len(found) :
                          filter = None \/ Rests(filter, found[i].x) => Rests(filter', found[i].x)
      BY <2>3
    <3>2. /\ \E T : Append(tracks, t) \in Seq(T)
          /\ Len(Append(tracks, t)) = Len(tracks) + 1 /\ Len(tracks) \in Nat /\ Append(tracks, t) # <<>>
          /\ Append(tracks, t)[Len(tracks) + 1] = t
          /\ \A l \in 1 .. Len(tracks) : Append(tracks, t)[l] = tracks[l]
      BY <2>1, Grown
    <3>3. /\ \E U : tracks' \in Seq(U)
          /\ Len(tracks') = m + 1 /\ tracks'[m + 1] = t
          /\ \A l \in 1 .. m : tracks'[l] = tracks[l]
      BY <1>8, <3>1, <3>2
    <3>4. m # m + 1 /\ m + 1 \in {m, m + 1}
      BY <1>8
    <3>5. QED
      BY <3>1, <3>3, <3>4
  <2>4. QED
    BY <1>3, <2>2, <2>3
<1>10. TracksOK'
  <2>1. ASSUME NEW l \in 1 .. k
        PROVE  /\ tracks'[l].ms \in Nat /\ tracks'[l].x \in Int /\ tracks'[l].ms <= ms
               /\ l \in 1 .. m => tracks'[l].ms < ms
               /\ l \notin 1 .. m => tracks'[l].ms = ms
    <3>1. CASE l \in 1 .. m
      <4>1. tracks[l].ms \in Nat /\ tracks[l].x \in Int /\ tracks[l].ms < ms /\ tracks'[l] = tracks[l]
        BY <1>8, <1>9, <3>1
      <4>2. QED
        BY <1>3, <3>1, <4>1
    <3>2. CASE l \notin 1 .. m
      <4>1. l = m + 1 /\ k = m + 1
        BY <1>8, <1>9, <3>2
      <4>2. filter'.pos \in Int
        BY <1>3, <1>9, <4>1 DEF Filters
      <4>3. QED
        BY <1>3, <1>9, <3>2, <4>1, <4>2
    <3>3. QED
      BY <3>1, <3>2
  <2>2. ASSUME NEW l \in 1 .. k, NEW o \in 1 .. k, l < o
        PROVE  tracks'[l].ms < tracks'[o].ms
    <3>1. l \in 1 .. m
      BY <1>8, <1>9, <2>2
    <3>2. CASE o \in 1 .. m
      BY <1>1, <1>8, <1>9, <2>2, <3>1, <3>2 DEF TracksOK
    <3>3. CASE o \notin 1 .. m
      BY <1>3, <2>1, <3>1, <3>3
    <3>4. QED
      BY <3>2, <3>3
  <2>3. seen' # <<>> /\ seen'[Len(seen')].ms = ms
    BY <1>3, <1>4
  <2>4. QED
    BY <1>9, <2>1, <2>2, <2>3 DEF TracksOK
<1>11. TrackedOK'
  <2>1. ASSUME NEW i \in 1 .. n
        PROVE  /\ OnTrack(seen[i].ms)' <=> OnTrack(seen[i].ms)
               /\ seen'[i] = seen[i]
    <3>1. seen[i].ms # ms /\ seen'[i] = seen[i]
      BY <1>3, <1>4, <1>5
    <3>2. \A l \in 1 .. m : tracks'[l].ms = tracks[l].ms
      BY <1>9
    <3>3. \A l \in 1 .. k : l \in 1 .. m \/ tracks'[l].ms = ms
      BY <1>8, <1>9
    <3>4. 1 .. m \subseteq 1 .. k
      BY <1>8, <1>9
    <3>5. QED
      BY <1>8, <1>9, <3>1, <3>2, <3>3, <3>4 DEF OnTrack
  <2>2. ASSUME NEW i \in 1 .. n
        PROVE  OnTrack(seen[i].ms)' <=> seen'[i].found # <<>> \/ Bridged(i)'
    <3>1. OnTrack(seen[i].ms) <=> seen[i].found # <<>> \/ Bridged(i)
      BY <1>1, <1>4 DEF TrackedOK
    <3>2. 1 < i => seen'[i - 1] = seen[i - 1]
      BY <1>4
    <3>3. \A j \in 1 .. i - 1 : seen'[j] = seen[j]
      BY <1>4
    <3>4. Bridged(i)' <=> Bridged(i)
      BY <2>1, <3>2, <3>3 DEF Bridged
    <3>5. QED
      BY <2>1, <3>1, <3>4
  <2>3. found # <<>> => OnTrack(ms)'
    <3>1. SUFFICES ASSUME found # <<>>
                   PROVE  OnTrack(ms)'
      OBVIOUS
    <3>2. k = m + 1 /\ m + 1 \in 1 .. k
      BY <1>8, <1>9, <3>1
    <3>3. tracks'[m + 1].ms = ms
      BY <1>9, <3>2
    <3>4. QED
      BY <1>9, <3>2, <3>3 DEF OnTrack
  <2>4. seen'[n + 1].ms = ms /\ seen'[n + 1].found = found /\ (n + 1) - 1 = n
    BY <1>3, <1>4
  <2>5. Bridged(n + 1)' <=> /\ 1 < n + 1 /\ ms - seen[n].ms <= MaxGap
                            /\ \E j \in 1 .. n : seen[j].found # <<>>
    <3>1. 1 < n + 1 => seen'[n] = seen[n]
      BY <1>4
    <3>2. \A j \in 1 .. n : seen'[j] = seen[j]
      BY <1>4
    <3>3. QED
      BY <2>4, <3>1, <3>2 DEF Bridged
  <2>6. found = <<>> => (OnTrack(ms)' <=> Bridged(n + 1)')
    <3>0. SUFFICES ASSUME found = <<>>
                   PROVE  OnTrack(ms)' <=> Bridged(n + 1)'
      OBVIOUS
    <3>1. OnTrack(ms)' <=> k = m + 1
      <4>1. ASSUME k = m + 1
            PROVE  OnTrack(ms)'
        <5>1. m + 1 \in 1 .. k /\ tracks'[m + 1].ms = ms
          BY <1>8, <1>9, <4>1
        <5>2. QED
          BY <1>9, <5>1 DEF OnTrack
      <4>2. ASSUME OnTrack(ms)'
            PROVE  k = m + 1
        <5>1. PICK l \in 1 .. k : tracks'[l].ms = ms
          BY <1>9, <4>2 DEF OnTrack
        <5>2. CASE l \in 1 .. m
          <6>1. tracks'[l].ms = tracks[l].ms /\ tracks[l].ms \in Nat /\ tracks[l].ms < ms
            BY <1>8, <1>9, <5>2
          <6>2. QED
            BY <1>3, <5>1, <6>1
        <5>3. CASE l \notin 1 .. m
          BY <1>8, <1>9, <5>3
        <5>4. QED
          BY <5>2, <5>3
      <4>3. QED
        BY <4>1, <4>2
    <3>2. ASSUME k = m + 1
          PROVE  Bridged(n + 1)'
      <4>1. filter # None /\ ms - filter.last <= MaxGap
        BY <1>9, <3>0, <3>2
      <4>2. /\ seen # <<>> /\ filter.last = seen[n].ms
            /\ \E j \in 1 .. n : seen[j].found # <<>>
        BY <1>1, <1>4, <4>1 DEF FilterOK
      <4>3. 1 < n + 1
        BY <1>4, <4>2
      <4>4. QED
        BY <2>5, <4>1, <4>2, <4>3
    <3>3. ASSUME Bridged(n + 1)'
          PROVE  k = m + 1
      <4>1. ms - seen[n].ms <= MaxGap /\ \E j \in 1 .. n : seen[j].found # <<>>
        BY <2>5, <3>3
      <4>2. filter # None
        BY <1>1, <1>4, <4>1 DEF FilterOK
      <4>3. filter.last = seen[n].ms
        BY <1>1, <1>4, <4>2 DEF FilterOK
      <4>4. ms - filter.last <= MaxGap
        BY <4>1, <4>3
      <4>5. k # m
        BY <1>9, <4>2, <4>4
      <4>6. QED
        BY <1>9, <4>5
    <3>4. QED
      BY <3>1, <3>2, <3>3
  <2>7. \A i \in 1 .. n + 1 : i \in 1 .. n \/ i = n + 1
    BY <1>4
  <2>8. ASSUME NEW i \in 1 .. n + 1
        PROVE  OnTrack(seen[i].ms)' <=> seen'[i].found # <<>> \/ Bridged(i)'
    <3>1. CASE i \in 1 .. n
      BY <2>2, <3>1
    <3>2. CASE i = n + 1
      <4>1. OnTrack(seen[i].ms)' <=> OnTrack(ms)'
        BY <2>4, <3>2 DEF OnTrack
      <4>2. seen'[i].found = found /\ (Bridged(i)' <=> Bridged(n + 1)')
        BY <2>4, <3>2
      <4>3. QED
        BY <2>3, <2>6, <4>1, <4>2
    <3>3. QED
      BY <2>7, <3>1, <3>2
  <2>9. QED
    BY <1>4, <2>8 DEF TrackedOK
<1>12. RestsOK'
  <2>1. SUFFICES ASSUME NEW x \in Int, SeenAt(x)'
                 PROVE  /\ \A l \in 1 .. k : tracks'[l].x = x
                        /\ filter' # None => Rests(filter', x)
    BY <1>9 DEF RestsOK
  <2>2. SeenAt(x)
    BY <1>4, <2>1 DEF SeenAt
  <2>3. \A d \in DOMAIN found : found[d].x = x
    <3>1. n + 1 \in 1 .. n + 1 /\ seen'[n + 1].found = found
      BY <1>3, <1>4
    <3>2. QED
      BY <1>4, <2>1, <3>1 DEF SeenAt
  <2>4. /\ \A l \in 1 .. m : tracks[l].x = x
        /\ filter # None => Rests(filter, x)
    BY <1>1, <1>8, <2>2 DEF RestsOK
  <2>5. filter' # None => Rests(filter', x)
    <3>1. CASE found = <<>>
      <4>1. filter' # None => filter # None
        BY <1>3, <3>1
      <4>2. filter # None => \A y : Rests(filter, y) => Rests(filter', y)
        BY <1>9, <3>1
      <4>3. QED
        BY <2>4, <4>1, <4>2
    <3>2. CASE found # <<>>
      <4>1. k = m + 1
        BY <1>9, <3>2
      <4>2. PICK i \in 1 .. Len(found) :
              filter = None \/ Rests(filter, found[i].x) => Rests(filter', found[i].x)
        BY <1>8, <1>9, <3>2, <4>1
      <4>3. i \in DOMAIN found
        BY DEF TrackingOK
      <4>4. found[i].x = x
        BY <2>3, <4>3
      <4>5. QED
        BY <2>4, <4>2, <4>4
    <3>3. QED
      BY <3>1, <3>2
  <2>6. ASSUME NEW l \in 1 .. k
        PROVE  tracks'[l].x = x
    <3>1. CASE l \in 1 .. m
      BY <1>9, <2>4, <3>1
    <3>2. CASE l \notin 1 .. m
      <4>1. l = m + 1 /\ k = m + 1
        BY <1>8, <1>9, <3>2
      <4>2. tracks'[l].x = filter'.pos /\ filter' # None
        BY <1>8, <1>9, <4>1
      <4>3. QED
        BY <2>5, <4>2 DEF Rests
    <3>3. QED
      BY <3>1, <3>2
  <2>7. QED
    BY <2>5, <2>6
<1>13. QED
  BY <1>6, <1>7, <1>10, <1>11, <1>12 DEF TrackInv

\* Whatever is seen and whatever the gains are, the filter and the track keep
\* what they owe to the detections (tracker_kalman.py, update).
THEOREM TrackerInvariant ==
  ASSUME TrackingOK
  PROVE  Tracking!Spec => []TrackInv
<1>1. Tracking!Init => TrackInv
  BY TrackerStarts DEF Tracking!Init
<1>2. TrackInv /\ [Tracking!Next]_Tracking!vars => TrackInv'
  <2>1. SUFFICES ASSUME TrackInv, [Tracking!Next]_Tracking!vars
                 PROVE  TrackInv'
    OBVIOUS
  <2>2. CASE Tracking!Frame
    BY <2>1, <2>2, FrameTracked
  <2>3. CASE Tracking!Reset
    <3>1. seen' = <<>> /\ filter' = None /\ tracks' = <<>>
      BY <2>3 DEF Tracking!Reset
    <3>2. QED
      BY <3>1, TrackerRestarts
  <2>4. CASE UNCHANGED Tracking!vars
    BY <2>1, <2>4
    DEF Tracking!vars, TrackInv, SeenOK, FilterOK, TracksOK, TrackedOK, RestsOK, OnTrack, Bridged, SeenAt
  <2>5. QED
    BY <2>1, <2>2, <2>3, <2>4 DEF Tracking!Next
<1>3. QED
  BY <1>1, <1>2, PTL DEF Tracking!Spec

\* Whatever the detector finds, and whatever the filter makes of it, a frame is
\* on the track if and only if it has a detection, or a frame just before it, no
\* further than the longest gap, and a detection somewhere before
\* (tracker_kalman.py, update).
THEOREM DetectionsStayTracked ==
  ASSUME TrackingOK
  PROVE  Tracking!Spec => []Tracking!DetectionsAreTracked
<1>1. TrackInv => Tracking!DetectionsAreTracked
  <2>1. SUFFICES ASSUME TrackInv
                 PROVE  Tracking!DetectionsAreTracked
    OBVIOUS
  <2>2. PICK n : n = Len(seen) /\ n \in Nat /\ DOMAIN seen = 1 .. n
    BY <2>1 DEF TrackInv, SeenOK
  <2>3. DOMAIN tracks = 1 .. Len(tracks)
    BY <2>1 DEF TrackInv, TracksOK
  <2>4. \A ms : ms \in Tracking!Covered <=> OnTrack(ms)
    BY <2>3 DEF Tracking!Covered, OnTrack
  <2>5. \A i \in 1 .. n : OnTrack(seen[i].ms) <=> seen[i].found # <<>> \/ Bridged(i)
    BY <2>1, <2>2 DEF TrackInv, TrackedOK
  <2>6. ASSUME NEW i \in 1 .. n
        PROVE  Bridged(i) <=> \E j \in 1 .. i - 1 : /\ seen[j].found # <<>>
                                                    /\ seen[i].ms - seen[i - 1].ms <= MaxGap
    <3>1. (\E j \in 1 .. i - 1 : seen[j].found # <<>>) => 1 < i
      BY <2>2
    <3>2. QED
      BY <3>1 DEF Bridged
  <2>7. QED
    BY <2>2, <2>4, <2>5, <2>6 DEF Tracking!DetectionsAreTracked
<1>2. QED
  BY <1>1, TrackerInvariant, PTL

\* A yo-yo that was only ever seen at one place has no run of excessive speed:
\* neither the frames where it is missing nor the filter's corrections make a
\* speed of their own (tracker_kalman.py, features.py, dangerous_play.py).
NoFastRun ==
  (\E x \in Int : SeenAt(x)) => Tracking!Sustained(Tracking!Features(tracks)) = {}

THEOREM StillStaysSlow ==
  ASSUME TrackingOK
  PROVE  Tracking!Spec => []NoFastRun
<1>1. TrackInv => NoFastRun
  <2>1. SUFFICES ASSUME TrackInv, NEW x \in Int, SeenAt(x)
                 PROVE  Tracking!Sustained(Tracking!Features(tracks)) = {}
    BY DEF NoFastRun
  <2>2. PICK m : m = Len(tracks) /\ m \in Nat /\ DOMAIN tracks = 1 .. m
    BY <2>1 DEF TrackInv, TracksOK
  <2>3. \A k \in 1 .. m : tracks[k].x = x /\ tracks[k].ms \in Nat
    BY <2>1, <2>2 DEF TrackInv, RestsOK, TracksOK
  <2>4. PICK fs : fs = Tracking!Features(tracks)
    OBVIOUS
  <2>5. DOMAIN fs = 1 .. m
    BY <2>2, <2>4 DEF Tracking!Features
  <2>6. ASSUME NEW k \in 1 .. m
        PROVE  fs[k].velocity = 0
    <3>1. CASE k = 1
      <4>1. fs[k].velocity = Tracking!Abs(0)
        BY <2>2, <2>4, <3>1 DEF Tracking!Features
      <4>2. QED
        BY <4>1 DEF Tracking!Abs
    <3>2. CASE k # 1
      <4>1. fs[k].velocity
              = Tracking!Abs((tracks[k].x - tracks[k - 1].x) \div (tracks[k].ms - tracks[k - 1].ms))
        BY <2>2, <2>4, <3>2 DEF Tracking!Features
      <4>2. k - 1 \in 1 .. m /\ k - 1 < k
        BY <2>2, <3>2
      <4>3. tracks[k].x - tracks[k - 1].x = 0
        BY <2>3, <4>2
      <4>4. PICK d \in Nat : d = tracks[k].ms - tracks[k - 1].ms /\ d > 0
        <5>1. tracks[k - 1].ms < tracks[k].ms
          BY <2>1, <2>2, <4>2 DEF TrackInv, TracksOK
        <5>2. QED
          BY <2>3, <4>2, <5>1
      <4>5. 0 \div d = 0
        BY <4>4
      <4>6. fs[k].velocity = Tracking!Abs(0)
        BY <4>1, <4>3, <4>4, <4>5
      <4>7. QED
        BY <4>6 DEF Tracking!Abs
    <3>3. QED
      BY <3>1, <3>2
  <2>7. ASSUME NEW r \in Tracking!FastRuns(fs)
        PROVE  FALSE
    <3>1. r[1] \in 1 .. m /\ r[2] \in 1 .. m /\ r[1] <= r[2]
      BY <2>5, <2>7 DEF Tracking!FastRuns
    <3>2. r[1] \in r[1] .. r[2]
      BY <3>1
    <3>3. fs[r[1]].velocity >= FastAt
      BY <2>7, <3>2 DEF Tracking!FastRuns
    <3>4. fs[r[1]].velocity = 0 /\ FastAt \in Int /\ FastAt > 0
      BY <2>6, <3>1 DEF TrackingOK
    <3>5. QED
      BY <3>3, <3>4
  <2>8. QED
    BY <2>4, <2>7 DEF Tracking!Sustained
<1>2. QED
  BY <1>1, TrackerInvariant, PTL
=============================================================================
