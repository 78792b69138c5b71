------------------------ MODULE MaterialVersionsProofs ------------------------
(***************************************************************************)
(* For any number of versions and of overlapping requests: one published   *)
(* edition and one working version, unless the history says how a second   *)
(* one came about; the columns that say "live" agree; generated versions   *)
(* are numbered in order; and clearing drafts spares what is live.         *)
(***************************************************************************)
EXTENDS MaterialVersions, FiniteSetTheorems, WellFoundedInduction, TLAPS

-----------------------------------------------------------------------------
(* Least and greatest numbers, and sets of at most one element.            *)

(* A set of naturals has a least element.                                  *)
LEMMA Least ==
  ASSUME NEW T \in SUBSET Nat, T # {}
  PROVE  \E x \in T : \A y \in T : x <= y
<1> DEFINE R == OpToRel(<, Nat)
<1>1. IsWellFoundedOn(R, Nat)
  BY NatLessThanWellFounded
<1>2. \A x, y \in Nat : y < x => <<y, x>> \in R
  BY DEF OpToRel
<1> HIDE DEF R
<1>3. PICK x \in T : \A y \in T : ~ (<<y, x>> \in R)
  BY <1>1, WFMin
<1>4. ASSUME NEW y \in T
      PROVE  x <= y
  <2>1. x \in Nat /\ y \in Nat
    OBVIOUS
  <2>2. ~(y < x)
    BY <1>2, <1>3, <2>1
  <2> QED
    BY <2>1, <2>2
<1> QED
  BY <1>4

(* A bounded set of naturals has a greatest element.                       *)
LEMMA Greatest ==
  ASSUME NEW N \in Nat, NEW S \in SUBSET (0..N), S # {}
  PROVE  \E x \in S : \A y \in S : y <= x
<1> DEFINE T == {N - s : s \in S}
<1>1. T \in SUBSET Nat /\ T # {}
  <2>1. \A s \in S : s \in 0..N /\ N - s \in Nat
    OBVIOUS
  <2> QED
    BY <2>1
<1>2. PICK t \in T : \A u \in T : t <= u
  BY <1>1, Least
<1>3. PICK x \in S : t = N - x
  OBVIOUS
<1>4. ASSUME NEW y \in S
      PROVE  y <= x
  <2>1. N - y \in T
    OBVIOUS
  <2>2. N - x <= N - y
    BY <1>2, <1>3, <2>1
  <2> QED
    BY <2>2
<1> QED
  BY <1>4

LEMMA FiniteVersions ==
  ASSUME NEW S \in SUBSET Versions
  PROVE  IsFiniteSet(S) /\ Cardinality(S) \in Nat
<1>1. 1 \in Int /\ MaxVersions \in Int
  BY MaterialAssumption
<1>2. IsFiniteSet(1..MaxVersions)
  BY <1>1, FS_Interval
<1>3. IsFiniteSet(S)
  BY <1>2, FS_Subset DEF Versions
<1> QED
  BY <1>3, FS_CardinalityType

(* Sets of versions with at most one element, by counting.                 *)
LEMMA Counted ==
  ASSUME NEW S \in SUBSET Versions
  PROVE  Cardinality(S) <= 1 <=> AtMostOne(S)
<1>1. IsFiniteSet(S)
  BY FiniteVersions
<1>2. ASSUME Cardinality(S) <= 1, NEW v \in S, NEW w \in S, v # w
      PROVE  FALSE
  <2>1. {v, w} \subseteq S
    OBVIOUS
  <2>2. IsFiniteSet({v, w}) /\ Cardinality({v, w}) = 2
    <3>1. IsFiniteSet({v}) /\ Cardinality({v}) = 1
      BY FS_Singleton
    <3>2. IsFiniteSet({v} \cup {w}) /\ Cardinality({v} \cup {w}) = 2
      BY <1>2, <3>1, FS_AddElement
    <3>3. {v} \cup {w} = {v, w}
      OBVIOUS
    <3> QED
      BY <3>2, <3>3
  <2>3. Cardinality({v, w}) <= Cardinality(S)
    BY <1>1, <2>1, FS_Subset
  <2>4. Cardinality(S) \in Nat
    BY <1>1, FS_CardinalityType
  <2> QED
    BY <1>2, <2>2, <2>3, <2>4
<1>3. ASSUME AtMostOne(S)
      PROVE  Cardinality(S) <= 1
  <2>1. CASE S = {}
    BY <2>1, FS_EmptySet
  <2>2. CASE S # {}
    <3>1. PICK v \in S : TRUE
      BY <2>2
    <3>2. S = {v}
      BY <1>3, <3>1 DEF AtMostOne
    <3> QED
      BY <3>2, FS_Singleton
  <2> QED
    BY <2>1, <2>2
<1> QED
  BY <1>2, <1>3 DEF AtMostOne

-----------------------------------------------------------------------------
(* Rows.                                                                   *)

\* y is what an UPDATE leaves of the existing row x.
Rewritten(x, y) ==
  /\ y \in Rows /\ y.life # "none" /\ y.num = x.num /\ y.base = x.base
  /\ y.run = "none" <=> x.run = "none"
  /\ y.published <=> y.life = "active"

(* An existing row in which the two columns that say "live" agree.         *)
Good(x) == x \in Rows /\ x.life # "none" /\ (x.published <=> x.life = "active")

LEMMA NoRowFields ==
  /\ NoRow \in Rows /\ NoRow.life = "none" /\ NoRow.num = 0 /\ NoRow.base = None
  /\ NoRow.run = "none" /\ ~NoRow.published /\ ~NoRow.active /\ ~NoRow.shelved
<1>1. 0 \in 0..MaxVersions
  BY MaterialAssumption
<1> QED
  BY <1>1 DEF NoRow, Rows, Lives, None

LEMMA Same ==
  ASSUME NEW x, Good(x)
  PROVE  Rewritten(x, x)
BY DEF Good, Rewritten

LEMMA DeactivateFields ==
  ASSUME NEW x, Good(x), NEW held
  PROVE  LET y == Deactivate(x, held)
         IN /\ Rewritten(x, y)
            /\ y.life = x.life /\ y.published = x.published /\ y.shelved = x.shelved
            /\ y.active => x.active /\ ~held
<1>1. CASE held
  BY <1>1 DEF Good, Rewritten, Deactivate, Rows
<1>2. CASE ~held
  BY <1>2 DEF Good, Rewritten, Deactivate, Rows
<1> QED
  BY <1>1, <1>2

LEMMA RetiredFields ==
  ASSUME NEW x, Good(x), NEW held, NEW mode \in Modes
  PROVE  LET y == Retired(x, held, mode)
         IN Rewritten(x, y) /\ ~y.published /\ (y.active => x.active) /\ y.life = mode
<1> DEFINE z == [x EXCEPT !.published = FALSE, !.life = mode]
<1>1. Good(z) /\ ~z.published /\ z.active = x.active /\ z.life = mode
  BY DEF Good, Rows, Lives, Modes
<1>2. z.num = x.num /\ z.base = x.base /\ z.run = x.run
  BY DEF Good, Rows
<1>3. Retired(x, held, mode) = Deactivate(z, held)
  BY DEF Retired
<1> HIDE DEF z
<1>4. /\ Rewritten(z, Deactivate(z, held))
      /\ Deactivate(z, held).life = z.life /\ Deactivate(z, held).published = z.published
      /\ Deactivate(z, held).active => z.active
  BY <1>1, DeactivateFields
<1> QED
  BY <1>1, <1>2, <1>3, <1>4 DEF Rewritten

LEMMA WentLiveFields ==
  ASSUME NEW x, Good(x)
  PROVE  LET y == WentLive(x)
         IN Rewritten(x, y) /\ y.published /\ y.active = x.active /\ y.life = "active"
BY DEF Good, Rewritten, WentLive, Rows, Lives

LEMMA ActivatedFields ==
  ASSUME NEW x, Good(x)
  PROVE  LET y == Activated(x)
         IN /\ Rewritten(x, y) /\ y.published = x.published /\ y.active
            /\ y.life = x.life /\ y.shelved = x.shelved
BY DEF Good, Rewritten, Activated, Rows

LEMMA DiscardedFields ==
  ASSUME NEW x, Good(x)
  PROVE  LET y == Discarded(x)
         IN Rewritten(x, y) /\ ~y.published /\ ~y.active /\ y.life = "discarded"
BY DEF Good, Rewritten, Discarded, Rows, Lives

LEMMA ShelvedFields ==
  ASSUME NEW x, Good(x), NEW on \in BOOLEAN
  PROVE  LET y == [x EXCEPT !.shelved = on]
         IN Rewritten(x, y) /\ Good(y) /\ y.published = x.published /\ y.active = x.active /\ y.life = x.life
BY DEF Good, Rewritten, Rows

LEMMA ClosedFields ==
  ASSUME NEW x, Good(x), x.run # "none"
  PROVE  LET y == [x EXCEPT !.run = "closed"]
         IN /\ Rewritten(x, y) /\ y.published = x.published /\ y.active = x.active
            /\ y.life = x.life /\ y.shelved = x.shelved
BY DEF Good, Rewritten, Rows

-----------------------------------------------------------------------------
(* All rows.                                                               *)

\* What the invariant says of the rows alone.
Sound(rows) ==
  /\ rows \in [Versions -> Rows] /\ InOrder(rows)
  /\ \A v \in Versions : rows[v].published <=> rows[v].life = "active"
  /\ \A v, w \in Versions :
       v < w /\ rows[v].run # "none" /\ rows[w].run # "none" => rows[v].num < rows[w].num

\* The existing rows are rewritten, the others left alone.
Updated(rows) ==
  /\ rows \in [Versions -> Rows]
  /\ \A w \in Versions : IF w \in Exists THEN Rewritten(ver[w], rows[w]) ELSE rows[w] = ver[w]

LEMMA VersionsAreNumbers == Versions \subseteq Nat \ {0} /\ None \notin Versions
BY MaterialAssumption DEF Versions, None

(* The invariant makes the rows sound.                                     *)
LEMMA SoundNow ==
  ASSUME IInv
  PROVE  /\ Sound(ver) /\ \A v \in Exists : v \in Versions /\ Good(ver[v])
         /\ \A v \in Versions : ver[v].published \/ ver[v].active => v \in Exists
<1>1. Sound(ver)
  BY DEF IInv, TypeOK, PublishedIsActive, GeneratedInOrder, Sound
<1>2. \A v \in Versions : v \notin Exists => ver[v] = NoRow
  BY <1>1 DEF Sound, InOrder, Exists, ExistIn
<1> QED
  BY <1>1, <1>2, NoRowFields DEF Sound, Good, Exists, ExistIn

(* An update keeps the rows sound and what requests know of them.          *)
LEMMA UpdatedSound ==
  ASSUME IInv, NEW rows, Updated(rows)
  PROVE  /\ Sound(rows) /\ ExistIn(rows) = Exists
         /\ \A x \in Requests : Known(x, ver) => Known(x, rows)
<1>1. /\ Sound(ver) /\ \A v \in Exists : v \in Versions /\ Good(ver[v])
  BY SoundNow
<1>2. \A w \in Versions : /\ rows[w].life = "none" <=> ver[w].life = "none"
                          /\ rows[w].num = ver[w].num /\ rows[w].base = ver[w].base
                          /\ rows[w].run = "none" <=> ver[w].run = "none"
                          /\ ver[w].life = "none" => rows[w] = ver[w]
                          /\ rows[w].published <=> rows[w].life = "active"
  <2> SUFFICES ASSUME NEW w \in Versions
               PROVE  /\ rows[w].life = "none" <=> ver[w].life = "none"
                      /\ rows[w].num = ver[w].num /\ rows[w].base = ver[w].base
                      /\ rows[w].run = "none" <=> ver[w].run = "none"
                      /\ ver[w].life = "none" => rows[w] = ver[w]
                      /\ rows[w].published <=> rows[w].life = "active"
    OBVIOUS
  <2>1. CASE w \in Exists
    BY <2>1 DEF Updated, Rewritten, Exists, ExistIn
  <2>2. CASE w \notin Exists
    <3>1. rows[w] = ver[w]
      BY <2>2 DEF Updated
    <3> QED
      BY <1>1, <2>2, <3>1 DEF Sound, Exists, ExistIn
  <2> QED
    BY <2>1, <2>2
<1>3. ExistIn(rows) = Exists
  BY <1>2 DEF ExistIn, Exists
<1>4. InOrder(rows)
  BY <1>1, <1>2, <1>3 DEF Sound, InOrder, Exists
<1>5. Sound(rows)
  <2>1. \A v, w \in Versions :
          v < w /\ rows[v].run # "none" /\ rows[w].run # "none" => rows[v].num < rows[w].num
    BY <1>1, <1>2 DEF Sound
  <2>2. rows \in [Versions -> Rows]
    BY DEF Updated
  <2> QED
    BY <1>2, <1>4, <2>1, <2>2 DEF Sound
<1>6. ASSUME NEW x \in Requests, Known(x, ver)
      PROVE  Known(x, rows)
  <2>1. x.v \in Versions \cup {None}
    BY DEF Requests
  <2>2. x.op = "abandon" => rows[x.v].run # "none"
    BY <1>2, <1>6, <2>1 DEF Known
  <2>3. \A v \in Versions : rows[v].run # "none" => ver[v].run # "none" /\ rows[v].num = ver[v].num
    BY <1>2
  <2> QED
    BY <1>3, <1>6, <2>2, <2>3 DEF Known, Exists
<1> QED
  BY <1>3, <1>5, <1>6

(* An update of one row.                                                   *)
LEMMA OneRow ==
  ASSUME IInv, NEW v \in Exists, NEW y, Rewritten(ver[v], y)
  PROVE  LET rows == [ver EXCEPT ![v] = y]
         IN Updated(rows) /\ \A w \in Versions : rows[w] = IF w = v THEN y ELSE ver[w]
<1>1. ver \in [Versions -> Rows] /\ \A w \in Exists : w \in Versions /\ Good(ver[w])
  BY SoundNow DEF Sound
<1> DEFINE rows == [ver EXCEPT ![v] = y]
<1>2. \A w \in Versions : rows[w] = IF w = v THEN y ELSE ver[w]
  BY <1>1
<1>3. rows \in [Versions -> Rows]
  BY <1>1 DEF Rewritten
<1> HIDE DEF rows
<1>4. Updated(rows)
  BY <1>1, <1>2, <1>3, Same DEF Updated
<1> QED
  BY <1>2, <1>4 DEF rows

(* The next number is above all numbers, and no unused place is below it.  *)
LEMMA NextNumberFits ==
  ASSUME IInv
  PROVE  /\ NextNumber \in 1..(MaxVersions + 1)
         /\ \A v \in Versions : ver[v].num < NextNumber
         /\ \A v \in Unused : NextNumber <= v
<1> DEFINE numbers == {ver[v].num : v \in Versions}
<1>1. /\ Sound(ver) /\ MaxVersions \in Nat \ {0}
  BY SoundNow, MaterialAssumption
<1>2. \A v \in Versions : ver[v].num \in 0..MaxVersions
  BY <1>1 DEF Sound, Rows
<1>3. numbers \in SUBSET (0..MaxVersions) /\ numbers # {}
  BY <1>1, <1>2 DEF Versions
<1>4. \E n \in numbers : \A m \in numbers : m <= n
  BY <1>1, <1>3, Greatest
<1> DEFINE n == CHOOSE n \in numbers : \A m \in numbers : m <= n
<1>5. n \in numbers /\ \A m \in numbers : m <= n
  BY <1>4
<1>6. NextNumber = 1 + n
  BY DEF NextNumber
<1> HIDE DEF n
<1>7. n \in 0..MaxVersions /\ \A v \in Versions : ver[v].num <= n
  BY <1>3, <1>5
<1>8. PICK w \in Versions : n = ver[w].num
  BY <1>5
<1>9. ASSUME NEW v \in Unused
      PROVE  1 + n <= v
  <2>1. v \in Versions /\ ver[v].life = "none"
    BY <1>9 DEF Unused, Exists, ExistIn
  <2>2. CASE ver[w].life = "none"
    BY <1>1, <1>8, <2>1, <2>2, NoRowFields, VersionsAreNumbers DEF Sound, InOrder
  <2>3. CASE ver[w].life # "none"
    <3>1. ver[w].num <= w /\ ~(v < w) /\ v # w
      BY <1>1, <2>1, <2>3 DEF Sound, InOrder
    <3> QED
      BY <1>7, <1>8, <2>1, <3>1, VersionsAreNumbers
  <2> QED
    BY <2>2, <2>3
<1>10. \A v \in Versions : ver[v].num < 1 + n
  BY <1>2, <1>7
<1>11. 1 + n \in 1..(MaxVersions + 1)
  BY <1>1, <1>7
<1> QED
  BY <1>6, <1>9, <1>10, <1>11

(* The place of a new version is the first one that is not used.           *)
LEMMA FirstUnusedIsFirst ==
  ASSUME Unused # {}
  PROVE  FirstUnused \in Unused /\ \A w \in Unused : FirstUnused <= w
<1>1. Unused \in SUBSET Nat
  BY VersionsAreNumbers DEF Unused
<1>2. \E v \in Unused : \A w \in Unused : v <= w
  BY <1>1, Least
<1> QED
  BY <1>2 DEF FirstUnused

-----------------------------------------------------------------------------
(* Steps.                                                                  *)

LEMMA NoCallFields ==
  /\ NoCall \in Requests /\ NoCall.op = "idle" /\ NoCall.pc = "idle"
  /\ \A rows : Known(NoCall, rows)
<1>1. NoCall \in Requests
  BY MaterialAssumption DEF NoCall, Requests, None
<1>2. NoCall.op = "idle" /\ NoCall.pc = "idle" /\ NoCall.v = None /\ NoCall.other = None /\ NoCall.others = {}
  BY DEF NoCall
<1> QED
  BY <1>1, <1>2 DEF Known

(* A request that has nothing pending has seen whatever there is.          *)
LEMMA IdleHasSeen ==
  ASSUME NEW x, NEW rows, x.op = "idle", x.pc = "idle"
  PROVE  SeenPublished(x, rows) /\ SeenWorking(x, rows)
BY DEF SeenPublished, SeenWorking

(* What is doubled after a commit.                                         *)
LEMMA TagsAfter ==
  ASSUME IInv, NEW c \in Callers, NEW next, NEW rows, NEW tag \in SUBSET {"restore"},
         Commit(c, next, rows, tag)
  PROVE  /\ doubled' \subseteq {"overlap", "restore", "hidden"}
         /\ "overlap" \notin doubled' =>
              /\ \A d \in Callers \ {c} : call[d].op = "idle"
              /\ "overlap" \notin doubled \/ AtMostOne(PublishedIn(rows))
         /\ doubled' = {} =>
              /\ \A d \in Callers \ {c} : call[d].op = "idle"
              /\ \/ next.op = "idle" /\ AtMostOne(ActiveIn(rows))
                 \/ doubled = {} /\ tag = {} /\ \A v \in Versions : ~Hidden(rows[v])
<1> DEFINE overlap == {"overlap" : d \in {e \in Callers \ {c} : call[e].op # "idle"}}
           hidden == {"hidden" : v \in {w \in Versions : Hidden(rows[w])}}
           settled == /\ overlap = {} /\ next.op = "idle"
                      /\ Cardinality(PublishedIn(rows)) <= 1
                      /\ Cardinality(ActiveIn(rows)) <= 1
<1>1. doubled' = IF settled THEN {} ELSE doubled \cup overlap \cup hidden \cup tag
  BY DEF Commit
<1>2. overlap \subseteq {"overlap"} /\ hidden \subseteq {"hidden"}
  OBVIOUS
<1>3. doubled \subseteq {"overlap", "restore", "hidden"}
  BY DEF IInv, TypeOK
<1>4. overlap = {} <=> \A d \in Callers \ {c} : call[d].op = "idle"
  OBVIOUS
<1>5. overlap # {} => "overlap" \in overlap
  OBVIOUS
<1>6. hidden = {} => \A v \in Versions : ~Hidden(rows[v])
  OBVIOUS
<1>7. settled => /\ overlap = {} /\ next.op = "idle"
                 /\ AtMostOne(PublishedIn(rows)) /\ AtMostOne(ActiveIn(rows))
  <2>1. PublishedIn(rows) \in SUBSET Versions /\ ActiveIn(rows) \in SUBSET Versions
    BY DEF PublishedIn, ActiveIn
  <2> QED
    BY <2>1, Counted
<1> HIDE DEF overlap, hidden, settled
<1>8. doubled' \subseteq {"overlap", "restore", "hidden"}
  BY <1>1, <1>2, <1>3
<1>9. ASSUME "overlap" \notin doubled'
      PROVE  /\ \A d \in Callers \ {c} : call[d].op = "idle"
             /\ "overlap" \notin doubled \/ AtMostOne(PublishedIn(rows))
  BY <1>1, <1>4, <1>5, <1>7, <1>9
<1>10. ASSUME doubled' = {}
       PROVE  /\ \A d \in Callers \ {c} : call[d].op = "idle"
              /\ \/ next.op = "idle" /\ AtMostOne(ActiveIn(rows))
                 \/ doubled = {} /\ tag = {} /\ \A v \in Versions : ~Hidden(rows[v])
  BY <1>1, <1>4, <1>6, <1>7, <1>10
<1> QED
  BY <1>8, <1>9, <1>10

(* A commit after which the rows are sound keeps the invariant, if it      *)
(* makes no second version of a kind unless the others may have.           *)
LEMMA CommitStep ==
  ASSUME IInv, NEW c \in Callers, NEW next \in Requests, NEW rows, NEW tag \in SUBSET {"restore"},
         Commit(c, next, rows, tag), Sound(rows), Known(next, rows),
         \A d \in Callers \ {c} : Known(call[d], rows),
         next.op = "generate" => call[c].op = "generate", next.op # "publish",
         "overlap" \notin doubled => AtMostOne(PublishedIn(rows)),
         doubled = {} /\ tag = {} /\ (\A v \in Versions : ~Hidden(rows[v])) =>
           AtMostOne(ActiveIn(rows)) /\ SeenWorking(next, rows)
  PROVE  IInv'
<1>1. ver' = rows /\ call' = [call EXCEPT ![c] = next]
  BY DEF Commit
<1>2. call \in [Callers -> Requests] /\ \A d \in Callers : Known(call[d], ver)
  BY DEF IInv, TypeOK, RequestsKnown
<1>3. call' \in [Callers -> Requests] /\ \A d \in Callers : call'[d] = IF d = c THEN next ELSE call[d]
  BY <1>1, <1>2
<1>4. /\ doubled' \subseteq {"overlap", "restore", "hidden"}
      /\ "overlap" \notin doubled' =>
           /\ \A d \in Callers \ {c} : call[d].op = "idle"
           /\ "overlap" \notin doubled \/ AtMostOne(PublishedIn(rows))
      /\ doubled' = {} =>
           /\ \A d \in Callers \ {c} : call[d].op = "idle"
           /\ \/ next.op = "idle" /\ AtMostOne(ActiveIn(rows))
              \/ doubled = {} /\ tag = {} /\ \A v \in Versions : ~Hidden(rows[v])
  BY TagsAfter
<1>5. TypeOK'
  BY <1>1, <1>3, <1>4 DEF TypeOK, Sound
<1>6. InOrder(ver)' /\ PublishedIsActive' /\ GeneratedInOrder'
  BY <1>1 DEF Sound, PublishedIsActive, GeneratedInOrder
<1>7. RequestsKnown'
  BY <1>1, <1>3 DEF RequestsKnown
<1>8. OneGeneration'
  BY <1>3 DEF IInv, OneGeneration
<1>9. NoOverlap'
  <2>1. SUFFICES ASSUME "overlap" \notin doubled'
                 PROVE  AtMostOne(PublishedIn(rows)) /\ \A d \in Callers : SeenPublished(call'[d], rows)
    BY <1>1 DEF NoOverlap, Published
  <2>2. ASSUME NEW d \in Callers
        PROVE  SeenPublished(call'[d], rows)
    <3>1. call'[d].op # "publish"
      BY <1>3, <1>4, <2>1
    <3> QED
      BY <3>1 DEF SeenPublished
  <2> QED
    BY <1>4, <2>1, <2>2
<1>10. NotDoubled'
  <2>1. SUFFICES ASSUME doubled' = {}
                 PROVE  AtMostOne(ActiveIn(rows)) /\ \A d \in Callers : SeenWorking(call'[d], rows)
    BY <1>1 DEF NotDoubled
  <2>2. AtMostOne(ActiveIn(rows)) /\ SeenWorking(next, rows)
    <3>1. CASE next.op = "idle" /\ AtMostOne(ActiveIn(rows))
      <4>1. next.pc = "idle"
        BY <3>1 DEF Known
      <4> QED
        BY <3>1, <4>1, IdleHasSeen
    <3>2. CASE doubled = {} /\ tag = {} /\ \A v \in Versions : ~Hidden(rows[v])
      BY <3>2
    <3> QED
      BY <1>4, <2>1, <3>1, <3>2
  <2>3. ASSUME NEW d \in Callers \ {c}
        PROVE  SeenWorking(call'[d], rows)
    <3>1. call'[d] = call[d] /\ call[d].op = "idle"
      BY <1>3, <1>4, <2>1
    <3>2. call[d].pc = "idle"
      BY <1>2, <3>1 DEF Known
    <3> QED
      BY <3>1, <3>2, IdleHasSeen
  <2>4. \A d \in Callers : d = c => SeenWorking(call'[d], rows)
    BY <1>3, <2>2
  <2> QED
    BY <2>2, <2>3, <2>4
<1> QED
  BY <1>5, <1>6, <1>7, <1>8, <1>9, <1>10 DEF IInv

(* The request reads.                                                      *)
LEMMA ReadStep ==
  ASSUME IInv, NEW c \in Callers, NEW next \in Requests, Read(c, next), Known(next, ver),
         next.op = "generate" => call[c].op = "generate" \/ TopicFree(c),
         SeenPublished(next, ver), doubled = {} => SeenWorking(next, ver)
  PROVE  IInv'
<1>1. ver' = ver /\ doubled' = doubled /\ call' = [call EXCEPT ![c] = next]
  BY DEF Read
<1>2. call \in [Callers -> Requests]
  BY DEF IInv, TypeOK
<1>3. call' \in [Callers -> Requests] /\ \A d \in Callers : call'[d] = IF d = c THEN next ELSE call[d]
  BY <1>1, <1>2
<1>4. TypeOK'
  BY <1>1, <1>3 DEF IInv, TypeOK
<1>5. InOrder(ver)' /\ PublishedIsActive' /\ GeneratedInOrder'
  BY <1>1 DEF IInv, PublishedIsActive, GeneratedInOrder
<1>6. RequestsKnown'
  BY <1>1, <1>3 DEF IInv, RequestsKnown
<1>7. OneGeneration'
  BY <1>3 DEF IInv, OneGeneration, TopicFree
<1>8. NoOverlap'
  BY <1>1, <1>3 DEF IInv, NoOverlap, Published
<1>9. NotDoubled'
  BY <1>1, <1>3 DEF IInv, NotDoubled
<1> QED
  BY <1>4, <1>5, <1>6, <1>7, <1>8, <1>9 DEF IInv

(* A commit that rewrites rows and raises no flag of any.                  *)
LEMMA LoweringStep ==
  ASSUME IInv, NEW c \in Callers, NEW next \in Requests, NEW rows, Commit(c, next, rows, {}),
         Updated(rows), ActiveIn(rows) \subseteq ActiveIn(ver), PublishedIn(rows) \subseteq Published,
         Known(next, ver), next.op \notin {"publish", "generate"},
         doubled = {} => SeenWorking(next, rows)
  PROVE  IInv'
<1>1. /\ Sound(rows) /\ \A x \in Requests : Known(x, ver) => Known(x, rows)
  BY UpdatedSound
<1>2. \A d \in Callers : call[d] \in Requests /\ Known(call[d], ver)
  BY DEF IInv, TypeOK, RequestsKnown
<1>3. "overlap" \notin doubled => AtMostOne(PublishedIn(rows))
  BY DEF IInv, NoOverlap, AtMostOne
<1>4. doubled = {} => AtMostOne(ActiveIn(rows))
  BY DEF IInv, NotDoubled, AtMostOne
<1>5. /\ Known(next, rows)
      /\ \A d \in Callers \ {c} : Known(call[d], rows)
      /\ {} \in SUBSET {"restore"}
  BY <1>1, <1>2
<1> QED
  BY <1>1, <1>3, <1>4, <1>5, CommitStep

-----------------------------------------------------------------------------
(* What requests hold.                                                     *)

LEMMA BeginFields ==
  ASSUME NEW c,
         NEW op \in {"edit", "generate", "publish", "unpublish", "reconcile", "activate", "archive",
                     "clear", "abandon"},
         NEW pc \in {"drop", "number", "swap", "retire", "unshelve", "lookup", "shelve", "discard"}
  PROVE  LET x == Begin(c, op, pc)
         IN /\ x \in Requests /\ x.op = op /\ x.pc = pc
            /\ x.v = None /\ x.other = None /\ x.others = {}
BY NoCallFields, ZenonT(60) DEF Begin, Requests, NoCall

LEMMA ThenFields ==
  ASSUME IInv, NEW c \in Callers,
         NEW pc \in {"number", "create", "lookup", "drop", "raise", "restore", "close"}
  PROVE  LET x == Then(c, pc)
         IN /\ x \in Requests /\ x.op = call[c].op /\ x.pc = pc
            /\ x.v = call[c].v /\ x.other = call[c].other /\ x.others = call[c].others
            /\ x.num = call[c].num
<1>1. call[c] \in Requests
  BY DEF IInv, TypeOK
<1> QED
  BY <1>1 DEF Then, Requests

LEMMA CallKnown ==
  ASSUME IInv, NEW c \in Callers
  PROVE  call[c] \in Requests /\ Known(call[c], ver)
BY DEF IInv, TypeOK, RequestsKnown

(* The working version that a request finds.                               *)
LEMMA ActiveVersionFound ==
  ASSUME IInv, NEW other \in ActiveVersion
  PROVE  /\ other \in Exists \cup {None}
         /\ other = None => Working = {}
         /\ doubled = {} => Working \subseteq {other}
<1>1. Working \subseteq ActiveIn(ver) /\ Working \subseteq Versions
  BY DEF Working, WorkingIn, ActiveIn
<1>2. Working \subseteq Exists
  BY <1>1, SoundNow DEF ActiveIn
<1>3. doubled = {} => AtMostOne(ActiveIn(ver))
  BY DEF IInv, NotDoubled
<1>4. None \notin Working
  BY <1>1, VersionsAreNumbers
<1>5. CASE Working = {}
  BY <1>5 DEF ActiveVersion
<1>6. CASE Working # {}
  <2>1. other \in Working
    BY <1>6 DEF ActiveVersion
  <2> QED
    BY <1>1, <1>2, <1>3, <1>4, <2>1 DEF AtMostOne
<1> QED
  BY <1>5, <1>6

-----------------------------------------------------------------------------
(* Manual edit and generation.                                             *)

LEMMA StepStartEdit ==
  ASSUME IInv, NEW c \in Callers, StartEdit(c)
  PROVE  IInv'
<1>1. PICK other \in ActiveVersion :
        Read(c, [Begin(c, "edit", IF other = None THEN "number" ELSE "drop") EXCEPT !.other = other])
  BY DEF StartEdit
<1>2. /\ other \in Exists \cup {None}
      /\ other = None => Working = {}
      /\ doubled = {} => Working \subseteq {other}
  BY ActiveVersionFound
<1> DEFINE pc == IF other = None THEN "number" ELSE "drop"
           next == [Begin(c, "edit", pc) EXCEPT !.other = other]
<1>3. next \in Requests /\ next.op = "edit" /\ next.pc = pc /\ next.other = other /\ next.v = None /\ next.others = {}
  <2>1. other \in Versions \cup {None}
    BY <1>2 DEF Exists, ExistIn
  <2>2. pc \in {"drop", "number"}
    OBVIOUS
  <2> DEFINE x == Begin(c, "edit", pc)
  <2>3. x \in Requests /\ x.op = "edit" /\ x.pc = pc /\ x.v = None /\ x.others = {}
    BY <2>2, BeginFields
  <2> HIDE DEF x, pc
  <2> QED
    BY <2>1, <2>3 DEF Requests, x
<1>4. Read(c, next)
  BY <1>1
<1> HIDE DEF next
<1>5. Known(next, ver)
  BY <1>2, <1>3 DEF Known, Exists
<1>6. SeenPublished(next, ver) /\ (doubled = {} => SeenWorking(next, ver))
  BY <1>2, <1>3 DEF SeenPublished, SeenWorking, Working
<1> QED
  BY <1>3, <1>4, <1>5, <1>6, ReadStep

(* Dropping the working version that a request has found.                  *)
LEMMA DropOk ==
  ASSUME IInv, NEW c \in Callers, call[c].other \in Exists
  PROVE  LET rows == Drop(c)
         IN /\ Updated(rows)
            /\ ActiveIn(rows) \subseteq ActiveIn(ver) /\ PublishedIn(rows) \subseteq Published
            /\ WorkingIn(rows) \subseteq Working \ {call[c].other}
<1> DEFINE o == call[c].other
           y == Deactivate(ver[o], TRUE)
           rows == [ver EXCEPT ![o] = y]
<1>1. o \in Versions /\ Good(ver[o])
  BY SoundNow
<1>2. Rewritten(ver[o], y) /\ ~y.active /\ y.published = ver[o].published
  BY <1>1, DeactivateFields
<1> HIDE DEF y
<1>3. Updated(rows) /\ \A w \in Versions : rows[w] = IF w = o THEN y ELSE ver[w]
  BY <1>2, OneRow
<1>4. rows = Drop(c)
  BY DEF Drop, y
<1> HIDE DEF rows
<1>5. /\ ActiveIn(rows) \subseteq ActiveIn(ver) /\ PublishedIn(rows) \subseteq Published
      /\ WorkingIn(rows) \subseteq Working \ {o}
  BY <1>2, <1>3 DEF ActiveIn, PublishedIn, Published, WorkingIn, Working, Rewritten
<1> QED
  BY <1>3, <1>4, <1>5

(* An edit or an activation drops the working version it has found.        *)
LEMMA StepDrop ==
  ASSUME IInv, NEW c \in Callers, At(c, "drop"), NEW pc \in {"number", "raise"},
         call[c].op = "edit" <=> pc = "number", call[c].op = "activate" <=> pc = "raise",
         Commit(c, Then(c, pc), Drop(c), {})
  PROVE  IInv'
<1> DEFINE o == call[c].other
           next == Then(c, pc)
           rows == Drop(c)
<1>1. Known(call[c], ver) /\ call[c].pc = "drop" /\ call[c] \in Requests
  BY CallKnown DEF At
<1>2. o \in Exists
  BY <1>1 DEF Known, Exists
<1>3. /\ Updated(rows)
      /\ ActiveIn(rows) \subseteq ActiveIn(ver) /\ PublishedIn(rows) \subseteq Published
      /\ WorkingIn(rows) \subseteq Working \ {o}
  BY <1>2, DropOk
<1>4. /\ next \in Requests /\ next.op = call[c].op /\ next.pc = pc
      /\ next.v = call[c].v /\ next.other = o /\ next.others = call[c].others
  BY ThenFields
<1> HIDE DEF next, rows
<1>5. Known(next, ver)
  BY <1>1, <1>4 DEF Known
<1>6. doubled = {} => SeenWorking(next, rows)
  <2>1. doubled = {} => Working \subseteq {o}
    BY <1>1 DEF IInv, NotDoubled, SeenWorking, Working
  <2> QED
    BY <1>3, <1>4, <2>1 DEF SeenWorking
<1>7. Commit(c, next, rows, {}) /\ next.op \notin {"publish", "generate"}
  BY <1>4 DEF next, rows
<1> QED
  BY <1>3, <1>4, <1>5, <1>6, <1>7, LoweringStep

LEMMA StepEditNumbers ==
  ASSUME IInv, NEW c \in Callers, EditNumbers(c)
  PROVE  IInv'
<1> DEFINE x == Then(c, "create")
           next == [x EXCEPT !.num = NextNumber]
<1>1. Known(call[c], ver) /\ call[c].pc = "number" /\ call[c].op = "edit"
  BY CallKnown DEF At, EditNumbers
<1>2. /\ NextNumber \in 1..(MaxVersions + 1) /\ \A v \in Unused : NextNumber <= v
  BY NextNumberFits
<1>3. /\ x \in Requests /\ x.op = "edit" /\ x.pc = "create"
      /\ x.v = call[c].v /\ x.other = call[c].other /\ x.others = call[c].others
  BY <1>1, ThenFields
<1>4. Read(c, next)
  BY DEF EditNumbers
<1> HIDE DEF x
<1>5. /\ next \in Requests /\ next.op = "edit" /\ next.pc = "create" /\ next.num = NextNumber
      /\ next.v = call[c].v /\ next.other = call[c].other /\ next.others = call[c].others
  BY <1>2, <1>3, MaterialAssumption DEF Requests
<1> HIDE DEF next
<1>6. Known(next, ver)
  BY <1>1, <1>2, <1>5 DEF Known, Exists, Unused
<1>7. SeenPublished(next, ver) /\ (doubled = {} => SeenWorking(next, ver))
  BY <1>1, <1>5 DEF IInv, NotDoubled, SeenPublished, SeenWorking, Working
<1> QED
  BY <1>4, <1>5, <1>6, <1>7, ReadStep

LEMMA StepStartGeneration ==
  ASSUME IInv, NEW c \in Callers, StartGeneration(c)
  PROVE  IInv'
<1>1. PICK base \in Working \cup {None} :
        Read(c, [Begin(c, "generate", "number") EXCEPT !.v = base])
  BY DEF StartGeneration
<1> DEFINE x == Begin(c, "generate", "number")
           next == [x EXCEPT !.v = base]
<1>2. base \in Versions \cup {None} /\ base \in Exists \cup {None}
  BY SoundNow DEF Working, WorkingIn
<1>3. x \in Requests /\ x.op = "generate" /\ x.pc = "number" /\ x.other = None /\ x.others = {}
  BY BeginFields
<1>4. Read(c, next) /\ TopicFree(c)
  BY <1>1 DEF StartGeneration
<1> HIDE DEF x
<1>5. /\ next \in Requests /\ next.op = "generate" /\ next.pc = "number"
      /\ next.v = base /\ next.other = None /\ next.others = {}
  BY <1>2, <1>3 DEF Requests
<1> HIDE DEF next
<1>6. Known(next, ver)
  BY <1>2, <1>5 DEF Known, Exists
<1>7. SeenPublished(next, ver) /\ SeenWorking(next, ver)
  BY <1>5 DEF SeenPublished, SeenWorking
<1> QED
  BY <1>4, <1>5, <1>6, <1>7, ReadStep

LEMMA StepGenerationNumbers ==
  ASSUME IInv, NEW c \in Callers, GenerationNumbers(c)
  PROVE  IInv'
<1> DEFINE x == Then(c, "create")
<1>1. PICK other \in ActiveVersion : Read(c, [x EXCEPT !.num = NextNumber, !.other = other])
  BY DEF GenerationNumbers
<1> DEFINE next == [x EXCEPT !.num = NextNumber, !.other = other]
<1>2. Known(call[c], ver) /\ call[c].pc = "number" /\ call[c].op = "generate"
  BY CallKnown DEF At, GenerationNumbers
<1>3. /\ NextNumber \in 1..(MaxVersions + 1) /\ \A v \in Unused : NextNumber <= v
      /\ \A v \in Versions : ver[v].num < NextNumber
  BY NextNumberFits
<1>4. /\ x \in Requests /\ x.op = "generate" /\ x.pc = "create"
      /\ x.v = call[c].v /\ x.others = call[c].others
  BY <1>2, ThenFields
<1>5. /\ other \in Exists \cup {None}
      /\ other \in Versions \cup {None}
      /\ doubled = {} => Working \subseteq {other}
  <2>1. /\ other \in Exists \cup {None}
        /\ doubled = {} => Working \subseteq {other}
    BY ActiveVersionFound
  <2> QED
    BY <2>1 DEF Exists, ExistIn
<1>6. Read(c, next)
  BY <1>1
<1> HIDE DEF x
<1>7. /\ next \in Requests /\ next.op = "generate" /\ next.pc = "create" /\ next.num = NextNumber
      /\ next.v = call[c].v /\ next.other = other /\ next.others = call[c].others
  <2>1. NextNumber \in 0..(MaxVersions + 1)
    BY <1>3, MaterialAssumption
  <2> QED
    BY <1>4, <1>5, <2>1 DEF Requests
<1> HIDE DEF next
<1>8. Known(next, ver)
  BY <1>2, <1>3, <1>5, <1>7 DEF Known, Exists, Unused
<1>9. SeenPublished(next, ver) /\ (doubled = {} => SeenWorking(next, ver))
  BY <1>5, <1>7 DEF SeenPublished, SeenWorking, Working
<1> QED
  BY <1>2, <1>6, <1>7, <1>8, <1>9, ReadStep

(* A new row in the first unused place, with the number of its request.    *)
LEMMA NewRow ==
  ASSUME IInv, NEW c \in Callers, call[c].pc = "create", Unused # {},
         NEW rows, Updated(rows), NEW y \in Rows,
         y.life = "draft", ~y.published, y.num = call[c].num, y.base \in Exists \cup {None},
         y.run # "none" => call[c].op = "generate"
  PROVE  LET new == [rows EXCEPT ![FirstUnused] = y]
         IN /\ Sound(new)
            /\ \A d \in Callers \ {c} : Known(call[d], new)
            /\ \A w \in Versions : new[w] = IF w = FirstUnused THEN y ELSE rows[w]
<1> DEFINE f == FirstUnused
           new == [rows EXCEPT ![f] = y]
<1>1. f \in Versions /\ f \notin Exists /\ \A w \in Versions : w \notin Exists => f <= w
  BY FirstUnusedIsFirst DEF Unused
<1>2. /\ Sound(rows) /\ ExistIn(rows) = Exists
      /\ \A x \in Requests : Known(x, ver) => Known(x, rows)
  BY UpdatedSound
<1> HIDE DEF f
<1>3. new \in [Versions -> Rows] /\ \A w \in Versions : new[w] = IF w = f THEN y ELSE rows[w]
  BY <1>2 DEF Sound
<1> HIDE DEF new
<1>4. ExistIn(new) = Exists \cup {f}
  BY <1>1, <1>2, <1>3 DEF ExistIn
<1>5. Known(call[c], ver) /\ Known(call[c], rows)
  BY <1>2, CallKnown
<1>6. y.num <= f
  BY <1>1, <1>5 DEF Known, Exists
<1>7. InOrder(new)
  <2> SUFFICES ASSUME NEW v \in Versions
               PROVE  /\ new[v].life = "none" => new[v] = NoRow
                      /\ new[v].life # "none" => \A w \in Versions : w < v => new[w].life # "none"
                      /\ new[v].num <= v
                      /\ new[v].base \in ExistIn(new) \cup {None}
    BY DEF InOrder
  <2>1. CASE v = f
    <3>1. \A w \in Versions : w < v => w \in Exists
      BY <1>1, <2>1, VersionsAreNumbers
    <3>2. \A w \in Versions : w < v => new[w].life # "none"
      BY <1>2, <1>3, <3>1 DEF ExistIn
    <3> QED
      BY <1>3, <1>4, <1>6, <2>1, <3>2
  <2>2. CASE v # f
    <3>1. new[v] = rows[v]
      BY <1>3, <2>2
    <3>2. \A w \in Versions : rows[w].life # "none" => new[w].life # "none"
      BY <1>3
    <3> QED
      BY <1>2, <1>4, <3>1, <3>2 DEF Sound, InOrder
  <2> QED
    BY <2>1, <2>2
<1>8. \A v \in Versions : new[v].published <=> new[v].life = "active"
  BY <1>2, <1>3 DEF Sound
<1>9. ASSUME NEW v \in Versions, NEW w \in Versions, v < w, new[v].run # "none", new[w].run # "none"
      PROVE  new[v].num < new[w].num
  <2>1. CASE w = f
    <3>1. v # f
      BY <1>9, <2>1, VersionsAreNumbers
    <3>2. rows[v].run # "none" /\ call[c].op = "generate"
      BY <1>3, <1>9, <2>1, <3>1
    <3> QED
      BY <1>3, <1>5, <2>1, <3>1, <3>2 DEF Known
  <2>2. CASE v = f
    <3>1. w # f
      BY <1>9, <2>2, VersionsAreNumbers
    <3>2. rows[w].run # "none"
      BY <1>3, <1>9, <3>1
    <3>3. w \in Exists
      BY <1>2, <3>2, NoRowFields DEF Sound, InOrder, ExistIn
    <3>4. v \in Exists
      BY <1>2, <1>9, <3>3 DEF Sound, InOrder, ExistIn
    <3> QED
      BY <1>1, <2>2, <3>4
  <2>3. CASE v # f /\ w # f
    BY <1>2, <1>3, <1>9, <2>3 DEF Sound
  <2> QED
    BY <2>1, <2>2, <2>3
<1>10. ASSUME NEW d \in Callers \ {c}
       PROVE  Known(call[d], new)
  <2>1. call[d] \in Requests /\ Known(call[d], rows)
    BY <1>2, CallKnown
  <2>2. call[d].op = "abandon" => new[call[d].v].run # "none"
    <3>1. call[d].op = "abandon" => call[d].v \in Exists /\ call[d].v # f /\ call[d].v \in Versions
      BY <1>1, <1>2, <2>1 DEF Known, ExistIn, Exists
    <3> QED
      BY <1>3, <2>1, <3>1 DEF Known
  <2>3. call[d].op = "generate" => \A v \in Versions : new[v].run # "none" => v # f /\ rows[v].run # "none"
    <3>1. call[d].op = "generate" => y.run = "none"
      BY DEF IInv, OneGeneration
    <3> QED
      BY <1>3, <3>1
  <2>4. \A v \in Versions : v # f => new[v] = rows[v]
    BY <1>3
  <2> QED
    BY <1>2, <1>4, <2>1, <2>2, <2>3, <2>4 DEF Known
<1>11. Sound(new)
  BY <1>3, <1>7, <1>8, <1>9 DEF Sound
<1> QED
  BY <1>3, <1>10, <1>11 DEF f, new

LEMMA Unchanged ==
  ASSUME IInv
  PROVE  Updated(ver)
BY SoundNow, Same DEF Updated, Sound

LEMMA StepCreate ==
  ASSUME IInv, NEW c \in Callers, Create(c)
  PROVE  IInv'
<1> DEFINE base == IF call[c].op = "edit" THEN call[c].other ELSE call[c].v
           rows == IF call[c].op = "edit" \/ call[c].other = None THEN ver ELSE Drop(c)
<1>1. PICK run \in IF call[c].op = "edit" THEN {"none"} ELSE {"open", "closed"} :
        Commit(c, NoCall,
               [rows EXCEPT ![FirstUnused] =
                  [NoRow EXCEPT !.life = "draft", !.active = TRUE, !.num = call[c].num,
                                !.base = base, !.run = run]], {})
  BY DEF Create
<1> DEFINE y == [NoRow EXCEPT !.life = "draft", !.active = TRUE, !.num = call[c].num,
                              !.base = base, !.run = run]
           new == [rows EXCEPT ![FirstUnused] = y]
<1>2. /\ Known(call[c], ver) /\ call[c] \in Requests /\ call[c].pc = "create" /\ Unused # {}
      /\ call[c].op \in {"edit", "generate"}
  BY CallKnown DEF At, Create, Known
<1>3. {call[c].v, call[c].other} \subseteq Exists \cup {None}
  BY <1>2 DEF Known, Exists
<1>4. /\ Updated(rows) /\ PublishedIn(rows) \subseteq Published
      /\ doubled = {} => WorkingIn(rows) = {}
  <2>1. doubled = {} => IF call[c].op = "edit" THEN Working = {} ELSE Working \subseteq {call[c].other}
    BY <1>2 DEF IInv, NotDoubled, SeenWorking, Working
  <2>2. None \notin Working
    BY VersionsAreNumbers DEF Working, WorkingIn
  <2>3. CASE call[c].op = "edit" \/ call[c].other = None
    BY <2>1, <2>2, <2>3, Unchanged DEF Published, Working
  <2>4. CASE ~(call[c].op = "edit" \/ call[c].other = None)
    <3>1. call[c].other \in Exists
      BY <1>3, <2>4
    <3>2. /\ Updated(Drop(c)) /\ PublishedIn(Drop(c)) \subseteq Published
          /\ WorkingIn(Drop(c)) \subseteq Working \ {call[c].other}
      BY <3>1, DropOk
    <3> QED
      BY <2>1, <2>4, <3>2
  <2> QED
    BY <2>3, <2>4
<1>5. FirstUnused \in Versions /\ \A v \in Unused : FirstUnused <= v
  BY <1>2, FirstUnusedIsFirst DEF Unused
<1>6. call[c].num \in 0..MaxVersions
  <2>1. call[c].num \in 0..(MaxVersions + 1)
    BY <1>2 DEF Requests
  <2>2. call[c].num <= FirstUnused
    BY <1>2, FirstUnusedIsFirst DEF Known, Unused, Exists
  <2>3. FirstUnused \in 1..MaxVersions
    BY <1>5 DEF Versions
  <2> QED
    BY <2>1, <2>2, <2>3, MaterialAssumption
<1>7. base \in Exists \cup {None} /\ base \in Versions \cup {None}
  BY <1>3 DEF Exists, ExistIn
<1> HIDE DEF base, rows
<1>8. run \in {"none", "open", "closed"} /\ (run # "none" => call[c].op = "generate")
  BY <1>2
<1>9. /\ y \in Rows /\ y.life = "draft" /\ ~y.published /\ y.num = call[c].num
      /\ y.base = base /\ y.run = run /\ y.active /\ ~y.shelved
  BY <1>6, <1>7, <1>8, NoRowFields DEF Rows, Lives
<1> HIDE DEF y
<1>10. /\ Sound(new)
       /\ \A d \in Callers \ {c} : Known(call[d], new)
       /\ \A w \in Versions : new[w] = IF w = FirstUnused THEN y ELSE rows[w]
  <2> HIDE DEF new
  <2>1. /\ call[c].pc = "create" /\ Unused # {} /\ Updated(rows) /\ y \in Rows
        /\ y.life = "draft" /\ ~y.published /\ y.num = call[c].num /\ y.base \in Exists \cup {None}
        /\ y.run # "none" => call[c].op = "generate"
    BY <1>2, <1>4, <1>7, <1>8, <1>9
  <2>2. LET r == [rows EXCEPT ![FirstUnused] = y]
        IN /\ Sound(r)
           /\ \A d \in Callers \ {c} : Known(call[d], r)
           /\ \A w \in Versions : r[w] = IF w = FirstUnused THEN y ELSE rows[w]
    BY <2>1, NewRow, ZenonT(60)
  <2> QED
    BY <2>2 DEF new
<1>11. Commit(c, NoCall, new, {})
  BY <1>1 DEF y
<1> HIDE DEF new
<1>12. "overlap" \notin doubled => AtMostOne(PublishedIn(new))
  <2>1. PublishedIn(new) \subseteq Published
    BY <1>4, <1>9, <1>10 DEF PublishedIn
  <2> QED
    BY <2>1 DEF IInv, NoOverlap, AtMostOne
<1>13. doubled = {} /\ (\A v \in Versions : ~Hidden(new[v])) => AtMostOne(ActiveIn(new))
  <2>1. SUFFICES ASSUME doubled = {}, \A v \in Versions : ~Hidden(new[v]),
                        NEW v \in ActiveIn(new), v # FirstUnused
                 PROVE  FALSE
    BY DEF AtMostOne
  <2>2. v \in Versions /\ new[v] = rows[v] /\ rows[v].active
    BY <1>10, <2>1 DEF ActiveIn
  <2>3. v \in WorkingIn(rows)
    BY <2>1, <2>2 DEF WorkingIn, Hidden
  <2> QED
    BY <1>4, <2>1, <2>3
<1>14. /\ NoCall \in Requests /\ Known(NoCall, new) /\ NoCall.op = "idle"
       /\ SeenWorking(NoCall, new)
  BY NoCallFields, IdleHasSeen
<1>15. {} \in SUBSET {"restore"}
  OBVIOUS
<1> QED
  BY <1>10, <1>11, <1>12, <1>13, <1>14, <1>15, CommitStep

-----------------------------------------------------------------------------
(* Publish, unpublish, reconcile.                                          *)

(* The last commit of a request that rewrites rows.                        *)
LEMMA LastCommit ==
  ASSUME IInv, NEW c \in Callers, NEW rows, Commit(c, NoCall, rows, {}), Updated(rows),
         "overlap" \notin doubled => AtMostOne(PublishedIn(rows)),
         doubled = {} /\ (\A v \in Versions : ~Hidden(rows[v])) => AtMostOne(ActiveIn(rows))
  PROVE  IInv'
<1>1. Sound(rows) /\ \A d \in Callers \ {c} : Known(call[d], rows)
  BY UpdatedSound, CallKnown
<1>2. /\ NoCall \in Requests /\ Known(NoCall, rows) /\ NoCall.op = "idle"
      /\ SeenWorking(NoCall, rows) /\ {} \in SUBSET {"restore"}
  BY NoCallFields, IdleHasSeen
<1> QED
  BY <1>1, <1>2, CommitStep

(* A commit that rewrites the row of one version and raises no flag.       *)
LEMMA OneRowStep ==
  ASSUME IInv, NEW c \in Callers, NEW next \in Requests, NEW v \in Exists, NEW y,
         Commit(c, next, [ver EXCEPT ![v] = y], {}), Rewritten(ver[v], y),
         y.active => ver[v].active, y.published => ver[v].published,
         Known(next, ver), next.op \notin {"publish", "generate"}, \A rows : SeenWorking(next, rows)
  PROVE  IInv'
<1> DEFINE rows == [ver EXCEPT ![v] = y]
<1>1. Updated(rows) /\ \A w \in Versions : rows[w] = IF w = v THEN y ELSE ver[w]
  BY OneRow
<1>2. Commit(c, next, rows, {})
  OBVIOUS
<1> HIDE DEF rows
<1>3. ActiveIn(rows) \subseteq ActiveIn(ver) /\ PublishedIn(rows) \subseteq Published
  BY <1>1 DEF ActiveIn, PublishedIn, Published
<1> QED
  BY <1>1, <1>2, <1>3, LoweringStep

(* The rows that a request retires are not published afterwards.           *)
LEMMA RetireOthersOk ==
  ASSUME IInv, NEW c \in Callers, NEW mode \in Modes
  PROVE  LET rows == RetireOthers(c, mode)
         IN /\ Updated(rows) /\ ActiveIn(rows) \subseteq ActiveIn(ver)
            /\ PublishedIn(rows) \subseteq Published \ call[c].others
<1> DEFINE rows == RetireOthers(c, mode)
<1>1. call[c].others \subseteq Exists
  BY CallKnown DEF Known, Exists
<1>2. \A v \in Exists : v \in Versions /\ Good(ver[v])
  BY SoundNow
<1>3. \A w \in Versions : rows[w] = IF w \in call[c].others
                                      THEN Retired(ver[w], w \in call[c].held, mode) ELSE ver[w]
  BY DEF RetireOthers
<1>4. \A w \in call[c].others : /\ Rewritten(ver[w], rows[w]) /\ ~rows[w].published
                                /\ rows[w].active => ver[w].active
  BY <1>1, <1>2, <1>3, RetiredFields
<1>5. rows \in [Versions -> Rows]
  <2>1. \A w \in Versions : rows[w] \in Rows
    BY <1>3, <1>4, SoundNow DEF Sound, Rewritten
  <2>2. rows = [w \in Versions |-> rows[w]]
    BY DEF RetireOthers
  <2> HIDE DEF rows
  <2> QED
    BY <2>1, <2>2
<1> HIDE DEF rows
<1>6. Updated(rows)
  <2>1. \A w \in Versions \ call[c].others : rows[w] = ver[w]
    BY <1>3
  <2>2. \A w \in Exists : Rewritten(ver[w], ver[w])
    BY <1>2, Same
  <2>3. \A w \in Exists : Rewritten(ver[w], rows[w])
    BY <1>2, <1>4, <2>1, <2>2
  <2> QED
    BY <1>1, <1>5, <2>1, <2>3 DEF Updated
<1>7. ActiveIn(rows) \subseteq ActiveIn(ver) /\ PublishedIn(rows) \subseteq Published \ call[c].others
  BY <1>3, <1>4 DEF ActiveIn, PublishedIn, Published
<1> QED
  BY <1>6, <1>7 DEF rows

LEMMA StepStartPublish ==
  ASSUME IInv, NEW c \in Callers, NEW v \in Versions, StartPublish(c, v)
  PROVE  IInv'
<1> DEFINE x == Begin(c, "publish", "swap")
           next == [x EXCEPT !.v = v, !.others = Others(v), !.held = HeldIn(Others(v))]
<1>1. v \in Exists /\ Others(v) \subseteq Exists /\ Others(v) \subseteq Versions /\ HeldIn(Others(v)) \subseteq Versions
  BY SoundNow DEF StartPublish, Others, HeldIn, Published, PublishedIn
<1>2. x \in Requests /\ x.op = "publish" /\ x.pc = "swap" /\ x.other = None
  BY BeginFields
<1>3. Read(c, next)
  BY DEF StartPublish
<1> HIDE DEF x
<1>4. /\ next \in Requests /\ next.op = "publish" /\ next.pc = "swap" /\ next.v = v
      /\ next.other = None /\ next.others = Others(v)
  BY <1>1, <1>2 DEF Requests
<1> HIDE DEF next
<1>5. Known(next, ver)
  BY <1>1, <1>4, VersionsAreNumbers DEF Known, Exists
<1>6. SeenPublished(next, ver) /\ SeenWorking(next, ver)
  BY <1>4 DEF SeenPublished, SeenWorking, Others, Published
<1> QED
  BY <1>3, <1>4, <1>5, <1>6, ReadStep

LEMMA StepPublish ==
  ASSUME IInv, NEW c \in Callers, Publish(c)
  PROVE  IInv'
<1> DEFINE v == call[c].v
<1>1. PICK mode \in Modes : Commit(c, NoCall, [RetireOthers(c, mode) EXCEPT ![v] = WentLive(@)], {})
  BY DEF Publish
<1> DEFINE rows == RetireOthers(c, mode)
           y == WentLive(rows[v])
           new == [rows EXCEPT ![v] = y]
<1>2. v \in Exists /\ v \in Versions /\ Good(ver[v])
  <2>1. v \in Exists
    BY CallKnown DEF Publish, Known, Exists
  <2> QED
    BY <2>1, SoundNow
<1>3. /\ Updated(rows) /\ ActiveIn(rows) \subseteq ActiveIn(ver)
      /\ PublishedIn(rows) \subseteq Published \ call[c].others
  BY RetireOthersOk
<1>4. Commit(c, NoCall, new, {})
  BY <1>1
<1> HIDE DEF rows
<1>5. Rewritten(ver[v], rows[v]) /\ Good(rows[v])
  BY <1>2, <1>3 DEF Updated, Rewritten, Good
<1>6. Rewritten(ver[v], y) /\ y.published /\ y.active = rows[v].active
  BY <1>5, WentLiveFields DEF Rewritten
<1> HIDE DEF y
<1>7. /\ new \in [Versions -> Rows] /\ \A w \in Versions : new[w] = IF w = v THEN y ELSE rows[w]
  BY <1>2, <1>3, <1>6 DEF Updated, Rewritten
<1> HIDE DEF new
<1>8. Updated(new)
  BY <1>2, <1>3, <1>6, <1>7 DEF Updated
<1>9. ActiveIn(new) \subseteq ActiveIn(ver) /\ PublishedIn(new) \subseteq (Published \ call[c].others) \cup {v}
  BY <1>3, <1>6, <1>7 DEF ActiveIn, PublishedIn
<1>10. "overlap" \notin doubled => AtMostOne(PublishedIn(new))
  <2>1. "overlap" \notin doubled => Published \subseteq call[c].others \cup {v}
    BY DEF IInv, NoOverlap, SeenPublished, Publish, Published
  <2> QED
    BY <1>9, <2>1 DEF AtMostOne
<1>11. doubled = {} => AtMostOne(ActiveIn(new))
  BY <1>9 DEF IInv, NotDoubled, AtMostOne
<1> QED
  BY <1>4, <1>8, <1>10, <1>11, LastCommit

LEMMA StepStartUnpublish ==
  ASSUME IInv, NEW c \in Callers, NEW v \in Versions, StartUnpublish(c, v)
  PROVE  IInv'
<1> DEFINE x == Begin(c, "unpublish", "retire")
           next == [x EXCEPT !.v = v, !.held = HeldIn({v})]
<1>1. v \in Exists /\ HeldIn({v}) \subseteq Versions
  BY SoundNow DEF StartUnpublish, HeldIn
<1>2. x \in Requests /\ x.op = "unpublish" /\ x.pc = "retire" /\ x.other = None /\ x.others = {}
  BY BeginFields
<1>3. Read(c, next)
  BY DEF StartUnpublish
<1> HIDE DEF x
<1>4. /\ next \in Requests /\ next.op = "unpublish" /\ next.pc = "retire" /\ next.v = v
      /\ next.other = None /\ next.others = {}
  BY <1>1, <1>2 DEF Requests
<1> HIDE DEF next
<1>5. Known(next, ver)
  BY <1>1, <1>4, VersionsAreNumbers DEF Known, Exists
<1>6. SeenPublished(next, ver) /\ SeenWorking(next, ver)
  BY <1>4 DEF SeenPublished, SeenWorking
<1> QED
  BY <1>3, <1>4, <1>5, <1>6, ReadStep

LEMMA StepUnpublish ==
  ASSUME IInv, NEW c \in Callers, Unpublish(c)
  PROVE  IInv'
<1> DEFINE v == call[c].v
<1>1. PICK mode \in Modes :
        Commit(c, NoCall, [ver EXCEPT ![v] = Retired(@, call[c].held # {}, mode)], {})
  BY DEF Unpublish
<1> DEFINE held == call[c].held # {}
           y == Retired(ver[v], held, mode)
<1>2. v \in Exists /\ Good(ver[v])
  <2>1. v \in Exists
    BY CallKnown DEF Unpublish, At, Known, Exists
  <2> QED
    BY <2>1, SoundNow
<1>3. Commit(c, NoCall, [ver EXCEPT ![v] = y], {})
  BY <1>1
<1> HIDE DEF held
<1>4. Rewritten(ver[v], y) /\ ~y.published /\ (y.active => ver[v].active)
  BY <1>2, RetiredFields
<1> HIDE DEF y
<1>5. NoCall \in Requests /\ NoCall.op = "idle" /\ Known(NoCall, ver) /\ \A rows : SeenWorking(NoCall, rows)
  BY NoCallFields, IdleHasSeen
<1> QED
  BY <1>2, <1>3, <1>4, <1>5, OneRowStep

LEMMA StepStartReconcile ==
  ASSUME IInv, NEW c \in Callers, StartReconcile(c)
  PROVE  IInv'
<1>1. PICK v \in Published :
        Read(c, [Begin(c, "reconcile", "swap") EXCEPT
                   !.v = v, !.others = Others(v), !.held = HeldIn(Others(v))])
  BY DEF StartReconcile
<1> DEFINE x == Begin(c, "reconcile", "swap")
           next == [x EXCEPT !.v = v, !.others = Others(v), !.held = HeldIn(Others(v))]
<1>2. /\ v \in Exists /\ v \in Versions /\ Others(v) \subseteq Exists /\ Others(v) \subseteq Versions
      /\ HeldIn(Others(v)) \subseteq Versions
  BY SoundNow DEF Others, HeldIn, Published, PublishedIn
<1>3. x \in Requests /\ x.op = "reconcile" /\ x.pc = "swap" /\ x.other = None
  BY BeginFields
<1>4. Read(c, next)
  BY <1>1
<1> HIDE DEF x
<1>5. /\ next \in Requests /\ next.op = "reconcile" /\ next.pc = "swap" /\ next.v = v
      /\ next.other = None /\ next.others = Others(v)
  BY <1>2, <1>3 DEF Requests
<1> HIDE DEF next
<1>6. Known(next, ver)
  BY <1>2, <1>5, VersionsAreNumbers DEF Known, Exists
<1>7. SeenPublished(next, ver) /\ SeenWorking(next, ver)
  BY <1>5 DEF SeenPublished, SeenWorking
<1> QED
  BY <1>4, <1>5, <1>6, <1>7, ReadStep

LEMMA StepReconcile ==
  ASSUME IInv, NEW c \in Callers, Reconcile(c)
  PROVE  IInv'
<1> DEFINE rows == RetireOthers(c, "archived")
<1>1. /\ Updated(rows) /\ ActiveIn(rows) \subseteq ActiveIn(ver)
      /\ PublishedIn(rows) \subseteq Published \ call[c].others
  BY RetireOthersOk DEF Modes
<1>2. Commit(c, NoCall, rows, {})
  BY DEF Reconcile
<1>3. NoCall \in Requests /\ NoCall.op = "idle" /\ Known(NoCall, ver) /\ SeenWorking(NoCall, rows)
  BY NoCallFields, IdleHasSeen
<1> HIDE DEF rows
<1> QED
  BY <1>1, <1>2, <1>3, LoweringStep

-----------------------------------------------------------------------------
(* Activate, archive to the shelf, unarchive.                              *)

\* A request that has read the version v, and has nothing else to remember.
Holds(x, op, pc, v) ==
  x \in Requests /\ x.op = op /\ x.pc = pc /\ x.v = v /\ x.other = None /\ x.others = {}

LEMMA BeginHolds ==
  ASSUME NEW c, NEW v \in Versions, NEW op \in {"activate", "archive"},
         NEW pc \in {"unshelve", "lookup", "shelve"}
  PROVE  Holds([Begin(c, op, pc) EXCEPT !.v = v], op, pc, v)
<1> DEFINE x == Begin(c, op, pc)
<1>1. x \in Requests /\ x.op = op /\ x.pc = pc /\ x.other = None /\ x.others = {}
  BY BeginFields
<1> HIDE DEF x
<1>2. Holds([x EXCEPT !.v = v], op, pc, v)
  BY <1>1 DEF Holds, Requests
<1> QED
  BY <1>2 DEF x

LEMMA StepStartActivate ==
  ASSUME IInv, NEW c \in Callers, NEW v \in Versions, StartActivate(c, v)
  PROVE  IInv'
<1> DEFINE pc == IF ver[v].shelved THEN "unshelve" ELSE "lookup"
           next == [Begin(c, "activate", pc) EXCEPT !.v = v]
<1>1. v \in Exists /\ Read(c, next)
  BY DEF StartActivate
<1>2. pc \in {"unshelve", "lookup"}
  OBVIOUS
<1> HIDE DEF pc
<1>3. Holds(next, "activate", pc, v)
  BY <1>2, BeginHolds
<1> HIDE DEF next
<1>4. Known(next, ver)
  BY <1>1, <1>2, <1>3, VersionsAreNumbers DEF Holds, Known, Exists
<1>5. SeenPublished(next, ver) /\ SeenWorking(next, ver)
  BY <1>2, <1>3 DEF Holds, SeenPublished, SeenWorking
<1> QED
  BY <1>1, <1>3, <1>4, <1>5, ReadStep DEF Holds

LEMMA StepStartUnarchive ==
  ASSUME IInv, NEW c \in Callers, NEW v \in Versions, StartUnarchive(c, v)
  PROVE  IInv'
<1> DEFINE next == [Begin(c, "activate", "unshelve") EXCEPT !.v = v]
<1>1. v \in Exists /\ Read(c, next)
  <2>1. ver[v].shelved
    BY DEF StartUnarchive
  <2>2. v \in Exists
    BY <2>1, SoundNow, NoRowFields DEF Sound, InOrder, Exists, ExistIn
  <2> QED
    BY <2>2 DEF StartUnarchive
<1>2. Holds(next, "activate", "unshelve", v)
  BY BeginHolds
<1> HIDE DEF next
<1>3. Known(next, ver)
  BY <1>1, <1>2, VersionsAreNumbers DEF Holds, Known, Exists
<1>4. SeenPublished(next, ver) /\ SeenWorking(next, ver)
  BY <1>2 DEF Holds, SeenPublished, SeenWorking
<1> QED
  BY <1>1, <1>2, <1>3, <1>4, ReadStep DEF Holds

LEMMA StepUnshelve ==
  ASSUME IInv, NEW c \in Callers, Unshelve(c)
  PROVE  IInv'
<1> DEFINE v == call[c].v
           y == [ver[v] EXCEPT !.shelved = FALSE]
           next == Then(c, "lookup")
<1>1. Known(call[c], ver) /\ call[c].pc = "unshelve" /\ call[c].op = "activate"
  BY CallKnown DEF Unshelve, At, Known
<1>2. v \in Exists /\ v \in Versions /\ Good(ver[v])
  <2>1. v \in Exists
    BY <1>1 DEF Known, Exists
  <2> QED
    BY <2>1, SoundNow
<1>3. Commit(c, next, [ver EXCEPT ![v] = y], {})
  <2>1. Commit(c, next, [ver EXCEPT ![v].shelved = FALSE], {})
    BY DEF Unshelve
  <2>2. [ver EXCEPT ![v].shelved = FALSE] = [ver EXCEPT ![v] = y]
    OBVIOUS
  <2> QED
    BY <2>1, <2>2
<1>4. Rewritten(ver[v], y) /\ y.published = ver[v].published /\ y.active = ver[v].active
  BY <1>2, ShelvedFields
<1> HIDE DEF y
<1>5. /\ next \in Requests /\ next.op = "activate" /\ next.pc = "lookup"
      /\ next.v = v /\ next.other = call[c].other /\ next.others = call[c].others
  BY <1>1, ThenFields
<1> HIDE DEF next
<1>6. Known(next, ver)
  BY <1>1, <1>5 DEF Known
<1>7. \A rows : SeenWorking(next, rows)
  BY <1>5 DEF SeenWorking
<1> QED
  BY <1>2, <1>3, <1>4, <1>5, <1>6, <1>7, OneRowStep

LEMMA StepLookup ==
  ASSUME IInv, NEW c \in Callers, Lookup(c)
  PROVE  IInv'
<1>1. PICK other \in ActiveVersion :
        Read(c, [Then(c, IF other \in {None, call[c].v} THEN "raise" ELSE "drop") EXCEPT !.other = other])
  BY DEF Lookup
<1> DEFINE pc == IF other \in {None, call[c].v} THEN "raise" ELSE "drop"
           x == Then(c, pc)
           next == [x EXCEPT !.other = other]
<1>2. Known(call[c], ver) /\ call[c].op = "activate"
  BY CallKnown DEF Lookup, At, Known
<1>3. pc \in {"raise", "drop"}
  OBVIOUS
<1>4. /\ other \in Exists \cup {None} /\ other \in Versions \cup {None}
      /\ other = None => Working = {}
      /\ doubled = {} => Working \subseteq {other}
  <2>1. /\ other \in Exists \cup {None}
        /\ other = None => Working = {}
        /\ doubled = {} => Working \subseteq {other}
    BY ActiveVersionFound
  <2> QED
    BY <2>1 DEF Exists, ExistIn
<1>5. Read(c, next)
  BY <1>1
<1>6. pc = "raise" <=> other = None \/ other = call[c].v
  OBVIOUS
<1> HIDE DEF pc
<1>7. /\ x \in Requests /\ x.op = "activate" /\ x.pc = pc
      /\ x.v = call[c].v /\ x.others = call[c].others
  BY <1>2, <1>3, ThenFields
<1> HIDE DEF x
<1>8. /\ next \in Requests /\ next.op = "activate" /\ next.pc = pc
      /\ next.v = call[c].v /\ next.other = other /\ next.others = call[c].others
  BY <1>4, <1>7 DEF Requests
<1> HIDE DEF next
<1>9. Known(next, ver)
  BY <1>2, <1>3, <1>4, <1>6, <1>8 DEF Known, Exists
<1>10. SeenPublished(next, ver) /\ (doubled = {} => SeenWorking(next, ver))
  BY <1>3, <1>4, <1>6, <1>8 DEF SeenPublished, SeenWorking, Working
<1> QED
  BY <1>5, <1>8, <1>9, <1>10, ReadStep

LEMMA StepRaiseTarget ==
  ASSUME IInv, NEW c \in Callers, RaiseTarget(c)
  PROVE  IInv'
<1> DEFINE v == call[c].v
           y == Activated(ver[v])
           rows == [ver EXCEPT ![v] = y]
<1>1. Known(call[c], ver) /\ call[c].pc = "raise" /\ call[c].op = "activate"
  BY CallKnown DEF RaiseTarget, At, Known
<1>2. v \in Exists /\ v \in Versions /\ Good(ver[v])
  <2>1. v \in Exists
    BY <1>1 DEF Known, Exists
  <2> QED
    BY <2>1, SoundNow
<1>3. Commit(c, NoCall, rows, {})
  BY DEF RaiseTarget
<1>4. Rewritten(ver[v], y) /\ y.published = ver[v].published
  BY <1>2, ActivatedFields
<1> HIDE DEF y
<1>5. Updated(rows) /\ \A w \in Versions : rows[w] = IF w = v THEN y ELSE ver[w]
  BY <1>2, <1>4, OneRow
<1> HIDE DEF rows
<1>6. PublishedIn(rows) \subseteq Published
  BY <1>4, <1>5 DEF PublishedIn, Published
<1>7. "overlap" \notin doubled => AtMostOne(PublishedIn(rows))
  BY <1>6 DEF IInv, NoOverlap, AtMostOne
<1>8. doubled = {} /\ (\A w \in Versions : ~Hidden(rows[w])) => AtMostOne(ActiveIn(rows))
  <2>1. doubled = {} => Working \subseteq {v}
    BY <1>1 DEF IInv, NotDoubled, SeenWorking, Working
  <2>2. (\A w \in Versions : ~Hidden(rows[w])) => ActiveIn(rows) \subseteq Working \cup {v}
    BY <1>5 DEF ActiveIn, Hidden, Working, WorkingIn
  <2> QED
    BY <2>1, <2>2 DEF AtMostOne
<1> QED
  BY <1>3, <1>5, <1>7, <1>8, LastCommit

LEMMA StepStartArchive ==
  ASSUME IInv, NEW c \in Callers, NEW v \in Versions, StartArchive(c, v)
  PROVE  IInv'
<1> DEFINE x == [Begin(c, "archive", "shelve") EXCEPT !.v = v]
           next == [Begin(c, "archive", "shelve") EXCEPT !.v = v, !.held = HeldIn({v})]
<1>1. v \in Exists /\ HeldIn({v}) \subseteq Versions
  BY DEF StartArchive, Exists, ExistIn, HeldIn
<1>2. Holds(x, "archive", "shelve", v)
  BY BeginHolds
<1>3. next = [x EXCEPT !.held = HeldIn({v})]
  BY BeginFields DEF Requests
<1>4. Read(c, next)
  BY DEF StartArchive
<1> HIDE DEF x, next
<1>5. Holds(next, "archive", "shelve", v)
  BY <1>1, <1>2, <1>3 DEF Holds, Requests
<1>6. Known(next, ver)
  BY <1>1, <1>5, VersionsAreNumbers DEF Holds, Known, Exists
<1>7. SeenPublished(next, ver) /\ SeenWorking(next, ver)
  BY <1>5 DEF Holds, SeenPublished, SeenWorking
<1> QED
  BY <1>4, <1>5, <1>6, <1>7, ReadStep DEF Holds

LEMMA StepShelve ==
  ASSUME IInv, NEW c \in Callers, Shelve(c)
  PROVE  IInv'
<1> DEFINE v == call[c].v
           x == [ver[v] EXCEPT !.shelved = TRUE]
           held == call[c].held # {}
           y == Deactivate(x, held)
<1>1. v \in Exists /\ Good(ver[v])
  <2>1. v \in Exists
    BY CallKnown DEF Shelve, At, Known, Exists
  <2> QED
    BY <2>1, SoundNow
<1>2. Commit(c, NoCall, [ver EXCEPT ![v] = y], {})
  BY DEF Shelve
<1> HIDE DEF held
<1>3. Rewritten(ver[v], x) /\ Good(x) /\ x.published = ver[v].published /\ x.active = ver[v].active
  BY <1>1, ShelvedFields
<1> HIDE DEF x
<1>4. Rewritten(x, y) /\ y.published = x.published /\ (y.active => x.active)
  BY <1>3, DeactivateFields
<1> HIDE DEF y
<1>5. Rewritten(ver[v], y)
  BY <1>3, <1>4 DEF Rewritten
<1>6. NoCall \in Requests /\ NoCall.op = "idle" /\ Known(NoCall, ver) /\ \A rows : SeenWorking(NoCall, rows)
  BY NoCallFields, IdleHasSeen
<1> QED
  BY <1>1, <1>2, <1>3, <1>4, <1>5, <1>6, OneRowStep

-----------------------------------------------------------------------------
(* Clear all drafts, abandon a run, delete the topic.                      *)

(* Rows of which some are rewritten without raising a flag.                *)
LEMMA Lowered ==
  ASSUME IInv, NEW rows \in [Versions -> Rows],
         \A w \in Versions :
           \/ rows[w] = ver[w]
           \/ /\ w \in Exists /\ Rewritten(ver[w], rows[w])
              /\ rows[w].active => ver[w].active
              /\ rows[w].published => ver[w].published
  PROVE  /\ Updated(rows) /\ ActiveIn(rows) \subseteq ActiveIn(ver)
         /\ PublishedIn(rows) \subseteq Published
<1>1. \A w \in Exists : Rewritten(ver[w], ver[w])
  BY SoundNow, Same
<1>2. Updated(rows)
  BY <1>1 DEF Updated
<1> QED
  BY <1>2 DEF ActiveIn, PublishedIn, Published

LEMMA LastLowering ==
  ASSUME IInv, NEW c \in Callers, NEW rows \in [Versions -> Rows], Commit(c, NoCall, rows, {}),
         \A w \in Versions :
           \/ rows[w] = ver[w]
           \/ /\ w \in Exists /\ Rewritten(ver[w], rows[w])
              /\ rows[w].active => ver[w].active
              /\ rows[w].published => ver[w].published
  PROVE  IInv'
<1>1. /\ Updated(rows) /\ ActiveIn(rows) \subseteq ActiveIn(ver)
      /\ PublishedIn(rows) \subseteq Published
  BY Lowered
<1>2. NoCall \in Requests /\ NoCall.op = "idle" /\ Known(NoCall, ver) /\ SeenWorking(NoCall, rows)
  BY NoCallFields, IdleHasSeen
<1> QED
  BY <1>1, <1>2, LoweringStep

LEMMA StepStartClear ==
  ASSUME IInv, NEW c \in Callers, StartClear(c)
  PROVE  IInv'
<1> DEFINE next == Begin(c, "clear", "discard")
<1>1. Read(c, next)
  BY DEF StartClear
<1>2. /\ next \in Requests /\ next.op = "clear" /\ next.pc = "discard"
      /\ next.v = None /\ next.other = None /\ next.others = {}
  BY BeginFields
<1> HIDE DEF next
<1>3. Known(next, ver) /\ SeenPublished(next, ver) /\ SeenWorking(next, ver)
  BY <1>2 DEF Known, SeenPublished, SeenWorking
<1> QED
  BY <1>1, <1>2, <1>3, ReadStep

LEMMA StepClear ==
  ASSUME IInv, NEW c \in Callers, Clear(c)
  PROVE  IInv'
<1> DEFINE rows == [v \in Versions |-> IF Discardable(v) THEN Discarded(ver[v]) ELSE ver[v]]
<1>1. \A w \in Versions : Discardable(w) => w \in Exists
  BY DEF Discardable, Exists, ExistIn
<1>2. \A w \in Exists : /\ Rewritten(ver[w], Discarded(ver[w]))
                        /\ ~Discarded(ver[w]).active /\ ~Discarded(ver[w]).published
  BY SoundNow, DiscardedFields
<1>3. \A w \in Versions :
        \/ rows[w] = ver[w]
        \/ /\ w \in Exists /\ Rewritten(ver[w], rows[w])
           /\ ~rows[w].active /\ ~rows[w].published
  BY <1>1, <1>2
<1>4. rows \in [Versions -> Rows]
  <2>1. \A w \in Versions : IF Discardable(w) THEN Discarded(ver[w]) \in Rows ELSE ver[w] \in Rows
    BY <1>1, <1>2, SoundNow DEF Sound, Rewritten
  <2> QED
    BY <2>1
<1>5. Commit(c, NoCall, rows, {})
  BY DEF Clear
<1> HIDE DEF rows
<1> QED
  BY <1>3, <1>4, <1>5, LastLowering

LEMMA StepStartAbandon ==
  ASSUME IInv, NEW c \in Callers, NEW v \in Versions, StartAbandon(c, v)
  PROVE  IInv'
<1>1. PICK other \in ActiveVersion :
        Read(c, [Begin(c, "abandon", "discard") EXCEPT
                   !.v = v, !.other = IF other = v THEN ver[v].base ELSE None])
  BY DEF StartAbandon
<1> DEFINE x == Begin(c, "abandon", "discard")
           base == IF other = v THEN ver[v].base ELSE None
           next == [x EXCEPT !.v = v, !.other = base]
<1>2. v \in Exists /\ ver[v].run # "none"
  <2>1. ver[v].run = "open"
    BY DEF StartAbandon
  <2> QED
    BY <2>1, SoundNow, NoRowFields DEF Sound, InOrder, Exists, ExistIn
<1>3. base \in Exists \cup {None} /\ base \in Versions \cup {None}
  <2>1. ver[v].base \in Exists \cup {None}
    BY SoundNow DEF Sound, InOrder, Exists
  <2> QED
    BY <2>1 DEF Exists, ExistIn
<1>4. x \in Requests /\ x.op = "abandon" /\ x.pc = "discard" /\ x.others = {}
  BY BeginFields
<1>5. Read(c, next)
  BY <1>1
<1> HIDE DEF x, base
<1>6. /\ next \in Requests /\ next.op = "abandon" /\ next.pc = "discard" /\ next.v = v
      /\ next.other = base /\ next.others = {}
  BY <1>3, <1>4 DEF Requests
<1> HIDE DEF next
<1>7. Known(next, ver)
  BY <1>2, <1>3, <1>6, VersionsAreNumbers DEF Known, Exists
<1>8. SeenPublished(next, ver) /\ SeenWorking(next, ver)
  BY <1>6 DEF SeenPublished, SeenWorking
<1> QED
  BY <1>5, <1>6, <1>7, <1>8, ReadStep

LEMMA StepAbandonDiscards ==
  ASSUME IInv, NEW c \in Callers, AbandonDiscards(c)
  PROVE  IInv'
<1> DEFINE v == call[c].v
           y == Discarded(ver[v])
           next == Then(c, "restore")
<1>1. Known(call[c], ver) /\ call[c].op = "abandon" /\ call[c].pc = "discard"
  BY CallKnown DEF AbandonDiscards, At
<1>2. v \in Exists /\ v \in Versions /\ Good(ver[v])
  <2>1. v \in Exists
    BY <1>1 DEF Known, Exists
  <2> QED
    BY <2>1, SoundNow
<1>3. /\ next \in Requests /\ next.op = "abandon" /\ next.pc = "restore"
      /\ next.v = v /\ next.other = call[c].other /\ next.others = call[c].others
  BY <1>1, ThenFields
<1>4. Rewritten(ver[v], y) /\ ~y.published /\ ~y.active
  BY <1>2, DiscardedFields
<1>5. Commit(c, next, IF ver[v].shelved THEN ver ELSE [ver EXCEPT ![v] = y], {})
  BY DEF AbandonDiscards
<1> HIDE DEF next, y
<1>6. Known(next, ver) /\ \A rows : SeenWorking(next, rows)
  BY <1>1, <1>3 DEF Known, SeenWorking
<1>7. CASE ver[v].shelved
  <2>1. Commit(c, next, ver, {})
    BY <1>5, <1>7
  <2>2. Updated(ver) /\ ActiveIn(ver) \subseteq ActiveIn(ver) /\ PublishedIn(ver) \subseteq Published
    BY Unchanged DEF Published
  <2> QED
    BY <1>3, <1>6, <2>1, <2>2, LoweringStep
<1>8. CASE ~ver[v].shelved
  <2>1. Commit(c, next, [ver EXCEPT ![v] = y], {})
    BY <1>5, <1>8
  <2> QED
    BY <1>2, <1>3, <1>4, <1>6, <2>1, OneRowStep
<1> QED
  BY <1>7, <1>8

LEMMA StepRestore ==
  ASSUME IInv, NEW c \in Callers, Restore(c)
  PROVE  IInv'
<1> DEFINE next == Then(c, "close")
<1>1. Known(call[c], ver) /\ call[c].op = "abandon" /\ call[c].pc = "restore"
  BY CallKnown DEF Restore, At, Known
<1>2. /\ next \in Requests /\ next.op = "abandon" /\ next.pc = "close"
      /\ next.v = call[c].v /\ next.other = call[c].other /\ next.others = call[c].others
  BY <1>1, ThenFields
<1>3. Read(c, next) \/ \E w \in RestoreTargets(c) : Commit(c, next, [ver EXCEPT ![w] = Activated(@)], {"restore"})
  BY DEF Restore
<1> HIDE DEF next
<1>4. Known(next, ver)
  BY <1>1, <1>2 DEF Known
<1>5. CASE Read(c, next)
  <2>1. SeenPublished(next, ver) /\ SeenWorking(next, ver)
    BY <1>2 DEF SeenPublished, SeenWorking
  <2> QED
    BY <1>2, <1>4, <1>5, <2>1, ReadStep
<1>6. CASE \E w \in RestoreTargets(c) : Commit(c, next, [ver EXCEPT ![w] = Activated(@)], {"restore"})
  <2>1. PICK w \in RestoreTargets(c) : Commit(c, next, [ver EXCEPT ![w] = Activated(@)], {"restore"})
    BY <1>6
  <2> DEFINE y == Activated(ver[w])
             rows == [ver EXCEPT ![w] = y]
  <2>2. Commit(c, next, rows, {"restore"})
    BY <2>1
  <2>3. w \in Exists /\ w \in Versions /\ Good(ver[w])
    <3>1. w \in Exists
      BY <1>1 DEF RestoreTargets, Latest, WorkspaceDrafts, Known, Exists
    <3> QED
      BY <3>1, SoundNow
  <2>4. Rewritten(ver[w], y) /\ y.published = ver[w].published
    BY <2>3, ActivatedFields
  <2> HIDE DEF y
  <2>5. Updated(rows) /\ \A v \in Versions : rows[v] = IF v = w THEN y ELSE ver[v]
    BY <2>3, <2>4, OneRow
  <2> HIDE DEF rows
  <2>6. PublishedIn(rows) \subseteq Published
    BY <2>4, <2>5 DEF PublishedIn, Published
  <2>7. "overlap" \notin doubled => AtMostOne(PublishedIn(rows))
    BY <2>6 DEF IInv, NoOverlap, AtMostOne
  <2>8. /\ Sound(rows) /\ Known(next, rows) /\ \A d \in Callers \ {c} : Known(call[d], rows)
    BY <1>2, <1>4, <2>5, UpdatedSound, CallKnown
  <2>9. {"restore"} \in SUBSET {"restore"} /\ {"restore"} # {}
    OBVIOUS
  <2> QED
    BY <1>2, <2>2, <2>7, <2>8, <2>9, CommitStep
<1> QED
  BY <1>3, <1>5, <1>6

LEMMA StepCloseRun ==
  ASSUME IInv, NEW c \in Callers, CloseRun(c)
  PROVE  IInv'
<1> DEFINE v == call[c].v
           y == [ver[v] EXCEPT !.run = "closed"]
<1>1. Known(call[c], ver) /\ call[c].op = "abandon"
  BY CallKnown DEF CloseRun, At, Known
<1>2. v \in Exists /\ v \in Versions /\ Good(ver[v]) /\ ver[v].run # "none"
  <2>1. v \in Exists /\ ver[v].run # "none"
    BY <1>1 DEF Known, Exists
  <2> QED
    BY <2>1, SoundNow
<1>3. Commit(c, NoCall, [ver EXCEPT ![v] = y], {})
  <2>1. [ver EXCEPT ![v].run = "closed"] = [ver EXCEPT ![v] = y]
    OBVIOUS
  <2> QED
    BY <2>1 DEF CloseRun
<1>4. Rewritten(ver[v], y) /\ y.published = ver[v].published /\ y.active = ver[v].active
  BY <1>2, ClosedFields
<1> HIDE DEF y
<1>5. NoCall \in Requests /\ NoCall.op = "idle" /\ Known(NoCall, ver) /\ \A rows : SeenWorking(NoCall, rows)
  BY NoCallFields, IdleHasSeen
<1> QED
  BY <1>2, <1>3, <1>4, <1>5, OneRowStep

LEMMA StepDeleteTopic ==
  ASSUME IInv, NEW c \in Callers, DeleteTopic(c)
  PROVE  IInv'
<1> DEFINE rows == [v \in Versions |->
                      IF Live(v) THEN Retired(ver[v], ver[v].active, "archived")
                      ELSE IF ver[v].life = "draft" THEN Discarded(ver[v]) ELSE ver[v]]
<1>1. \A w \in Versions : Live(w) \/ ver[w].life = "draft" => w \in Exists
  BY DEF Live, Exists, ExistIn
<1>2. \A w \in Exists : /\ Rewritten(ver[w], Discarded(ver[w]))
                        /\ ~Discarded(ver[w]).active /\ ~Discarded(ver[w]).published
  BY SoundNow, DiscardedFields
<1>3. \A w \in Exists : LET y == Retired(ver[w], ver[w].active, "archived")
                        IN Rewritten(ver[w], y) /\ ~y.published /\ (y.active => ver[w].active)
  <2>1. "archived" \in Modes
    BY DEF Modes
  <2> QED
    BY <2>1, SoundNow, RetiredFields
<1>4. \A w \in Versions :
        \/ rows[w] = ver[w]
        \/ /\ w \in Exists /\ Rewritten(ver[w], rows[w])
           /\ rows[w].active => ver[w].active
           /\ ~rows[w].published
  BY <1>1, <1>2, <1>3
<1>5. \A w \in Versions : rows[w] \in Rows
  BY <1>4, SoundNow DEF Sound, Rewritten
<1>6. rows \in [Versions -> Rows]
  <2>1. rows = [w \in Versions |-> rows[w]]
    OBVIOUS
  <2> HIDE DEF rows
  <2> QED
    BY <1>5, <2>1
<1>7. Commit(c, NoCall, rows, {})
  BY DEF DeleteTopic
<1> HIDE DEF rows
<1> QED
  BY <1>4, <1>6, <1>7, LastLowering

LEMMA StepDies ==
  ASSUME IInv, NEW c \in Callers, Dies(c)
  PROVE  IInv'
<1>1. Read(c, NoCall)
  BY DEF Dies
<1>2. /\ NoCall \in Requests /\ NoCall.op = "idle" /\ Known(NoCall, ver)
      /\ SeenPublished(NoCall, ver) /\ SeenWorking(NoCall, ver)
  BY NoCallFields, IdleHasSeen
<1> QED
  BY <1>1, <1>2, ReadStep

-----------------------------------------------------------------------------
(* The invariant.                                                          *)

LEMMA InitInvariant == Init => IInv
<1> SUFFICES ASSUME Init
             PROVE  IInv
  OBVIOUS
<1>1. ver = [v \in Versions |-> NoRow] /\ call = [c \in Callers |-> NoCall] /\ doubled = {}
  BY DEF Init
<1>2. \A v \in Versions : ver[v] = NoRow
  BY <1>1
<1>3. \A c \in Callers : call[c] = NoCall
  BY <1>1
<1>4. TypeOK
  BY <1>1, NoRowFields, NoCallFields DEF TypeOK
<1>5. InOrder(ver)
  <2>1. \A v \in Versions : 0 <= v
    BY VersionsAreNumbers
  <2> QED
    BY <1>2, <2>1, NoRowFields DEF InOrder
<1>6. PublishedIsActive /\ GeneratedInOrder
  BY <1>2, NoRowFields DEF PublishedIsActive, GeneratedInOrder
<1>7. RequestsKnown /\ OneGeneration
  BY <1>3, NoCallFields DEF RequestsKnown, OneGeneration
<1>8. NoOverlap
  BY <1>2, <1>3, NoRowFields, NoCallFields, IdleHasSeen DEF NoOverlap, AtMostOne, Published, PublishedIn
<1>9. NotDoubled
  BY <1>2, <1>3, NoRowFields, NoCallFields, IdleHasSeen DEF NotDoubled, AtMostOne, ActiveIn
<1> QED
  BY <1>4, <1>5, <1>6, <1>7, <1>8, <1>9 DEF IInv

LEMMA StepInvariant == IInv /\ [Next]_vars => IInv'
<1> SUFFICES ASSUME IInv, [Next]_vars
             PROVE  IInv'
  OBVIOUS
<1>1. CASE UNCHANGED vars
  BY <1>1 DEF vars, IInv, TypeOK, PublishedIsActive, GeneratedInOrder, RequestsKnown, OneGeneration,
              NoOverlap, NotDoubled, Published
<1>2. ASSUME NEW c \in Callers, Writing(c)
      PROVE  IInv'
  <2>1. CASE EditDeactivates(c)
    <3>1. At(c, "drop") /\ call[c].op = "edit" /\ Commit(c, Then(c, "number"), Drop(c), {})
      BY <2>1 DEF EditDeactivates
    <3> QED
      BY <3>1, StepDrop
  <2> QED
    BY <1>2, <2>1, StepStartEdit, StepEditNumbers, StepStartGeneration, StepGenerationNumbers, StepCreate
       DEF Writing
<1>3. ASSUME NEW c \in Callers, Publishing(c)
      PROVE  IInv'
  BY <1>3, StepStartPublish, StepStartUnpublish, StepPublish, StepUnpublish, StepStartReconcile,
     StepReconcile DEF Publishing
<1>4. ASSUME NEW c \in Callers, Shelving(c)
      PROVE  IInv'
  <2>1. CASE DropOther(c)
    <3>1. At(c, "drop") /\ call[c].op = "activate" /\ Commit(c, Then(c, "raise"), Drop(c), {})
      BY <2>1 DEF DropOther
    <3> QED
      BY <3>1, StepDrop
  <2> QED
    BY <1>4, <2>1, StepStartActivate, StepStartUnarchive, StepStartArchive, StepUnshelve, StepLookup,
       StepRaiseTarget, StepShelve DEF Shelving
<1>5. ASSUME NEW c \in Callers, Discarding(c)
      PROVE  IInv'
  BY <1>5, StepStartClear, StepClear, StepStartAbandon, StepAbandonDiscards, StepRestore, StepCloseRun,
     StepDeleteTopic DEF Discarding
<1>6. ASSUME NEW c \in Callers, Dies(c)
      PROVE  IInv'
  BY <1>6, StepDies
<1> QED
  BY <1>1, <1>2, <1>3, <1>4, <1>5, <1>6 DEF Next

(* The invariant holds in every state: what the rows, the requests and the *)
(* history of doubled versions keep of each other.                         *)
THEOREM Invariance == Spec => []IInv
<1>1. Init => IInv
  BY InitInvariant
<1>2. IInv /\ [Next]_vars => IInv'
  BY StepInvariant
<1> QED
  BY <1>1, <1>2, PTL DEF Spec

(* Every row, request and tag stays in its domain, and no number exceeds   *)
(* the rows created.                                                       *)
THEOREM TypeCorrect == Spec => []TypeOK
<1>1. IInv => TypeOK
  BY DEF IInv
<1> QED
  BY <1>1, Invariance, PTL

(* Trainees see at most one edition, unless publications overlapped.       *)
THEOREM OnePublishedEdition == Spec => []OnePublished
<1>1. IInv => OnePublished
  <2> SUFFICES ASSUME IInv, "overlap" \notin doubled
               PROVE  ~(Cardinality(Published) > 1)
    BY DEF OnePublished
  <2>1. AtMostOne(Published)
    BY DEF IInv, NoOverlap
  <2>2. Published \in SUBSET Versions
    BY DEF Published, PublishedIn
  <2>3. IsFiniteSet(Published) /\ Cardinality(Published) \in Nat
    BY <2>2, FiniteVersions
  <2>4. Cardinality(Published) <= 1
    BY <2>1, <2>2, Counted
  <2> QED
    BY <2>3, <2>4
<1> QED
  BY <1>1, Invariance, PTL

(* The workspace has one working version, unless the history says why not. *)
THEOREM OneWorkingVersion == Spec => []OneWorking
<1>1. IInv => OneWorking
  <2> SUFFICES ASSUME IInv, doubled = {}
               PROVE  ~(Cardinality(Working) > 1)
    BY DEF OneWorking
  <2>1. AtMostOne(Working)
    BY DEF IInv, NotDoubled, AtMostOne, ActiveIn, Working, WorkingIn
  <2>2. Working \in SUBSET Versions
    BY DEF Working, WorkingIn
  <2>3. IsFiniteSet(Working) /\ Cardinality(Working) \in Nat
    BY <2>2, FiniteVersions
  <2>4. Cardinality(Working) <= 1
    BY <2>1, <2>2, Counted
  <2> QED
    BY <2>3, <2>4
<1> QED
  BY <1>1, Invariance, PTL

(* The columns is_published and lifecycle agree, whatever requests write   *)
(* back of what they have read.                                            *)
THEOREM LiveColumnsAgree == Spec => []PublishedIsActive
<1>1. IInv => PublishedIsActive
  BY DEF IInv
<1> QED
  BY <1>1, Invariance, PTL

(* Generated versions are numbered in the order they were written.         *)
THEOREM GeneratedNumbersInOrder == Spec => []GeneratedInOrder
<1>1. IInv => GeneratedInOrder
  BY DEF IInv
<1> QED
  BY <1>1, Invariance, PTL

(* Of all steps, only the abandonment of its run discards a live version.  *)
LEMMA OnlyAbandonDiscards ==
  ASSUME IInv, NEW c \in Callers, Writing(c) \/ Publishing(c) \/ Shelving(c) \/ Discarding(c) \/ Dies(c),
         NEW v \in Versions, Live(v), ver'[v].life = "discarded"
  PROVE  call[c].op = "abandon" /\ call[c].v = v
<1>1. ver[v].life = "active" /\ ver[v] \in Rows /\ ver \in [Versions -> Rows] /\ ~Discardable(v)
  BY SoundNow DEF Live, Sound, Discardable
<1>2. ASSUME NEW next, Read(c, next)
      PROVE  FALSE
  BY <1>1, <1>2 DEF Read
<1>3. ASSUME NEW next, NEW rows, NEW tag, Commit(c, next, rows, tag), rows[v].life # "discarded"
      PROVE  FALSE
  BY <1>3 DEF Commit
<1>4. ASSUME NEW w, NEW y, y.life # "discarded"
      PROVE  [ver EXCEPT ![w] = y][v].life # "discarded"
  BY <1>1, <1>4
<1>5. \A x : x.life # "discarded" /\ x \in Rows => \A held : Deactivate(x, held).life # "discarded"
  BY DEF Deactivate, Rows
<1>6. Drop(c)[v].life # "discarded"
  <2>1. Deactivate(ver[v], TRUE).life # "discarded"
    BY <1>1, <1>5
  <2> QED
    BY <1>1, <2>1 DEF Drop
<1>7. ASSUME Create(c)
      PROVE  FALSE
  <2> DEFINE base == IF call[c].op = "edit" THEN call[c].other ELSE call[c].v
             rows == IF call[c].op = "edit" \/ call[c].other = None THEN ver ELSE Drop(c)
  <2>1. PICK run \in IF call[c].op = "edit" THEN {"none"} ELSE {"open", "closed"} :
          Commit(c, NoCall,
                 [rows EXCEPT ![FirstUnused] =
                    [NoRow EXCEPT !.life = "draft", !.active = TRUE, !.num = call[c].num,
                                  !.base = base, !.run = run]], {})
    BY <1>7 DEF Create
  <2> DEFINE y == [NoRow EXCEPT !.life = "draft", !.active = TRUE, !.num = call[c].num,
                                !.base = base, !.run = run]
             new == [rows EXCEPT ![FirstUnused] = y]
  <2>2. y.life = "draft"
    BY DEF NoRow
  <2>3. rows[v].life # "discarded" /\ DOMAIN rows = Versions
    BY <1>1, <1>6 DEF Drop
  <2>4. Commit(c, NoCall, new, {})
    BY <2>1
  <2> HIDE DEF y, rows
  <2>5. new[v].life # "discarded"
    BY <2>2, <2>3
  <2> QED
    BY <1>3, <2>4, <2>5
<1>8. ASSUME NEW mode \in Modes, NEW held
      PROVE  Retired(ver[v], held, mode).life # "discarded"
  <2>1. Good(ver[v])
    BY <1>1, SoundNow DEF Exists, ExistIn
  <2>2. Retired(ver[v], held, mode).life = mode
    BY <2>1, RetiredFields
  <2> QED
    BY <2>2 DEF Modes
<1>9. ASSUME NEW mode \in Modes
      PROVE  RetireOthers(c, mode)[v].life # "discarded"
  BY <1>1, <1>8 DEF RetireOthers
<1>10. ASSUME Writing(c)
       PROVE  FALSE
  <2>1. CASE EditDeactivates(c)
    BY <1>3, <1>6, <2>1 DEF EditDeactivates
  <2> QED
    BY <1>2, <1>7, <1>10, <2>1 DEF Writing, StartEdit, EditNumbers, StartGeneration, GenerationNumbers
<1>11. ASSUME Publishing(c)
       PROVE  FALSE
  <2>1. CASE Publish(c)
    <3>1. PICK mode \in Modes :
            Commit(c, NoCall, [RetireOthers(c, mode) EXCEPT ![call[c].v] = WentLive(@)], {})
      BY <2>1 DEF Publish
    <3> DEFINE rows == RetireOthers(c, mode)
               new == [rows EXCEPT ![call[c].v] = WentLive(rows[call[c].v])]
    <3>2. rows[v].life # "discarded" /\ DOMAIN rows = Versions
      BY <1>9 DEF RetireOthers
    <3>3. Commit(c, NoCall, new, {})
      BY <3>1
    <3>4. v # call[c].v => new[v] = rows[v]
      OBVIOUS
    <3>5. v = call[c].v => new[v] = WentLive(rows[v])
      BY <3>2
    <3>6. v = call[c].v => new[v].life = "active"
      <4>1. Updated(rows)
        BY RetireOthersOk
      <4>2. rows[v] \in Rows
        BY <4>1 DEF Updated
      <4> HIDE DEF rows
      <4> QED
        BY <3>5, <4>2, ZenonT(60) DEF WentLive, Rows
    <3> HIDE DEF new
    <3> QED
      BY <1>3, <3>2, <3>3, <3>4, <3>6
  <2>2. CASE Unpublish(c)
    <3>1. PICK mode \in Modes :
            Commit(c, NoCall, [ver EXCEPT ![call[c].v] = Retired(@, call[c].held # {}, mode)], {})
      BY <2>2 DEF Unpublish
    <3>2. [ver EXCEPT ![call[c].v] = Retired(@, call[c].held # {}, mode)][v].life # "discarded"
      BY <1>1, <1>8
    <3> QED
      BY <1>3, <3>1, <3>2
  <2>3. CASE Reconcile(c)
    BY <1>3, <1>9, <2>3 DEF Reconcile, Modes
  <2> QED
    BY <1>2, <1>11, <2>1, <2>2, <2>3 DEF Publishing, StartPublish, StartUnpublish, StartReconcile
<1>12. ASSUME Shelving(c)
       PROVE  FALSE
  <2>1. CASE DropOther(c)
    BY <1>3, <1>6, <2>1 DEF DropOther
  <2>2. CASE Unshelve(c)
    <3>1. [ver EXCEPT ![call[c].v].shelved = FALSE][v].life # "discarded"
      BY <1>1 DEF Rows
    <3> QED
      BY <1>3, <2>2, <3>1 DEF Unshelve
  <2>3. CASE RaiseTarget(c)
    <3>1. [ver EXCEPT ![call[c].v] = Activated(@)][v].life # "discarded"
      BY <1>1 DEF Activated, Rows
    <3> QED
      BY <1>3, <2>3, <3>1 DEF RaiseTarget
  <2>4. CASE Shelve(c)
    <3> DEFINE held == call[c].held # {}
               x == [ver[v] EXCEPT !.shelved = TRUE]
    <3>1. x \in Rows /\ x.life # "discarded"
      BY <1>1 DEF Rows
    <3>2. Deactivate(x, held).life # "discarded"
      BY <1>5, <3>1
    <3>3. [ver EXCEPT ![call[c].v] = Deactivate([@ EXCEPT !.shelved = TRUE], held)][v].life # "discarded"
      BY <1>1, <3>2
    <3> QED
      BY <1>3, <2>4, <3>3 DEF Shelve
  <2> QED
    BY <1>2, <1>12, <2>1, <2>2, <2>3, <2>4 DEF Shelving, StartActivate, StartUnarchive, StartArchive, Lookup
<1>13. ASSUME Discarding(c)
       PROVE  call[c].op = "abandon" /\ call[c].v = v
  <2>1. CASE Clear(c)
    <3>1. [w \in Versions |-> IF Discardable(w) THEN Discarded(ver[w]) ELSE ver[w]][v] = ver[v]
      BY <1>1
    <3> QED
      BY <1>1, <1>3, <2>1, <3>1 DEF Clear
  <2>2. CASE AbandonDiscards(c)
    <3>1. call[c].op = "abandon"
      BY <2>2 DEF AbandonDiscards
    <3>2. ASSUME call[c].v # v
          PROVE  FALSE
      <4>1. [ver EXCEPT ![call[c].v] = Discarded(@)][v] = ver[v]
        BY <3>2
      <4>2. (IF ver[call[c].v].shelved THEN ver ELSE [ver EXCEPT ![call[c].v] = Discarded(@)])[v] = ver[v]
        BY <4>1
      <4> QED
        BY <1>1, <1>3, <2>2, <4>2 DEF AbandonDiscards
    <3> QED
      BY <3>1, <3>2
  <2>3. CASE Restore(c)
    <3>1. ASSUME NEW w, Commit(c, Then(c, "close"), [ver EXCEPT ![w] = Activated(@)], {"restore"})
          PROVE  FALSE
      <4>1. [ver EXCEPT ![w] = Activated(@)][v].life # "discarded"
        BY <1>1 DEF Activated, Rows
      <4> QED
        BY <1>3, <3>1, <4>1
    <3> QED
      BY <1>2, <2>3, <3>1 DEF Restore
  <2>4. CASE CloseRun(c)
    <3>1. [ver EXCEPT ![call[c].v].run = "closed"][v].life # "discarded"
      BY <1>1 DEF Rows
    <3> QED
      BY <1>3, <2>4, <3>1 DEF CloseRun
  <2>5. CASE DeleteTopic(c)
    <3> DEFINE rows == [w \in Versions |->
                          IF Live(w) THEN Retired(ver[w], ver[w].active, "archived")
                          ELSE IF ver[w].life = "draft" THEN Discarded(ver[w]) ELSE ver[w]]
    <3>1. rows[v] = Retired(ver[v], ver[v].active, "archived")
      OBVIOUS
    <3>2. rows[v].life # "discarded"
      BY <1>8, <3>1 DEF Modes
    <3> HIDE DEF rows
    <3>3. Commit(c, NoCall, rows, {})
      BY <2>5 DEF DeleteTopic, rows
    <3> QED
      BY <1>3, <3>2, <3>3
  <2> QED
    BY <1>2, <1>13, <2>1, <2>2, <2>3, <2>4, <2>5 DEF Discarding, StartClear, StartAbandon
<1> QED
  BY <1>2, <1>10, <1>11, <1>12, <1>13 DEF Dies

(* Clearing drafts never takes what trainees see: a live version is only   *)
(* discarded by abandoning the run that wrote it.                          *)
THEOREM ClearingSparesLive == Spec => LiveNeverCleared
<1>1. IInv /\ [Next]_vars =>
        [\A v \in Versions : Live(v) /\ ver'[v].life = "discarded"
            => \E c \in Callers : call[c].op = "abandon" /\ call[c].v = v]_vars
  <2> SUFFICES ASSUME IInv, Next, NEW v \in Versions, Live(v), ver'[v].life = "discarded"
               PROVE  \E c \in Callers : call[c].op = "abandon" /\ call[c].v = v
    OBVIOUS
  <2> QED
    BY OnlyAbandonDiscards DEF Next
<1> QED
  BY <1>1, Invariance, PTL DEF Spec, LiveNeverCleared

=============================================================================
