-------------------------- MODULE MigrationsProof ---------------------------
(***************************************************************************)
(* Proofs about Migrations, for any number of commands and starting APIs   *)
(* at once and of cases. The statements of a command are concatenated from *)
(* its revisions, so a command is described by the leg it is on, from one  *)
(* revision to the next, and how far it has come on it.                    *)
(***************************************************************************)
EXTENDS Migrations, SequenceTheorems, TLAPS

-----------------------------------------------------------------------------
(* FlattenSeq, as far as it is used here: of up to six sequences. What it  *)
(* chooses is a function that satisfies its recursion; the one written out *)
(* is such a function, so there is one, and all agree with it.             *)

Joined(s, t) == s \o t
Flattens(f, seqs) ==
    f = [i \in 1 .. Len(seqs) |->
           IF i = 1 THEN seqs[i] ELSE Joined(f[i - 1], seqs[i])]

LEMMA FlattenUnfolds ==
    ASSUME NEW seqs, Len(seqs) # 0, NEW g, Flattens(g, seqs)
    PROVE  \E f : Flattens(f, seqs) /\ FlattenSeq(seqs) = f[Len(seqs)]
<1> DEFINE f == CHOOSE h : Flattens(h, seqs)
<1>1. Flattens(f, seqs)
  OBVIOUS
<1>2. FlattenSeq(seqs) = f[Len(seqs)]
  BY DEF FlattenSeq, Flattens, Joined
<1> QED
  BY <1>1, <1>2

LEMMA FlattenSteps ==
    ASSUME NEW s, NEW n \in Nat \ {0}, n = Len(s), NEW f
    PROVE  Flattens(f, s) <=>
             /\ f = [i \in 1 .. n |-> f[i]]
             /\ f[1] = s[1]
             /\ \A i \in 2 .. n : f[i] = Joined(f[i - 1], s[i])
<1> DEFINE rhs == [i \in 1 .. n |-> IF i = 1 THEN s[i] ELSE Joined(f[i - 1], s[i])]
<1>1. Flattens(f, s) <=> f = rhs
  BY DEF Flattens
<1>2. ASSUME f = rhs PROVE f = [i \in 1 .. n |-> f[i]] /\ f[1] = s[1]
  BY <1>2
<1>3. ASSUME f = rhs, NEW i \in 2 .. n PROVE f[i] = Joined(f[i - 1], s[i])
  <2>1. i \in 1 .. n /\ i # 1
    OBVIOUS
  <2> QED
    BY <1>3, <2>1
<1>4. ASSUME f = [i \in 1 .. n |-> f[i]], f[1] = s[1],
             \A i \in 2 .. n : f[i] = Joined(f[i - 1], s[i])
      PROVE  f = rhs
  <2>1. ASSUME NEW i \in 1 .. n PROVE f[i] = rhs[i]
    <3>1. i = 1 \/ i \in 2 .. n
      OBVIOUS
    <3> QED
      BY <1>4, <3>1
  <2> QED
    BY <1>4, <2>1
<1> QED
  BY <1>1, <1>2, <1>3, <1>4

LEMMA FlattenIs ==
    ASSUME NEW s, NEW n \in 1 .. 6, n = Len(s), NEW c,
           c = [i \in 1 .. n |-> c[i]], c[1] = s[1],
           \A i \in 2 .. n : c[i] = Joined(c[i - 1], s[i])
    PROVE  FlattenSeq(s) = c[n]
<1>1. n \in Nat \ {0}
  OBVIOUS
<1>2. Flattens(c, s)
  BY <1>1, FlattenSteps
<1>3. PICK f : Flattens(f, s) /\ FlattenSeq(s) = f[n]
  BY <1>2, FlattenUnfolds
<1>4. f[1] = c[1] /\ \A i \in 2 .. n : f[i] = Joined(f[i - 1], s[i])
  BY <1>3, FlattenSteps
<1>5. ASSUME NEW i \in 1 .. n, NEW j \in 1 .. n, i = j - 1, f[i] = c[i]
      PROVE  f[j] = c[j]
  <2>1. j \in 2 .. n
    BY <1>5
  <2>2. f[j] = Joined(f[j - 1], s[j]) /\ c[j] = Joined(c[j - 1], s[j])
    BY <2>1, <1>4
  <2> QED
    BY <1>5, <2>2
<1>6. n >= 2 => f[2] = c[2]
  BY <1>4, <1>5, 1 = 2 - 1
<1>7. n >= 3 => f[3] = c[3]
  BY <1>6, <1>5, 2 = 3 - 1
<1>8. n >= 4 => f[4] = c[4]
  BY <1>7, <1>5, 3 = 4 - 1
<1>9. n >= 5 => f[5] = c[5]
  BY <1>8, <1>5, 4 = 5 - 1
<1>10. n >= 6 => f[6] = c[6]
  BY <1>9, <1>5, 5 = 6 - 1
<1>11. n = 1 \/ n = 2 \/ n = 3 \/ n = 4 \/ n = 5 \/ n = 6
  OBVIOUS
<1> QED
  BY <1>3, <1>4, <1>6, <1>7, <1>8, <1>9, <1>10, <1>11

LEMMA FlattenOne ==
    ASSUME NEW s, Len(s) = 1 PROVE FlattenSeq(s) = s[1]
<1> DEFINE c == <<s[1]>>
<1>1. c = [i \in 1 .. 1 |-> c[i]] /\ c[1] = s[1]
  OBVIOUS
<1> HIDE DEF c
<1>2. \A i \in 2 .. 1 : c[i] = Joined(c[i - 1], s[i])
  OBVIOUS
<1> QED
  BY <1>1, <1>2, FlattenIs

LEMMA FlattenTwo ==
    ASSUME NEW s, Len(s) = 2 PROVE FlattenSeq(s) = Joined(s[1], s[2])
<1> DEFINE c == <<s[1], Joined(s[1], s[2])>>
<1>1. c = [i \in 1 .. 2 |-> c[i]] /\ c[1] = s[1] /\ c[2] = Joined(c[1], s[2])
  OBVIOUS
<1> HIDE DEF c
<1>2. \A i \in 2 .. 2 : c[i] = Joined(c[i - 1], s[i])
  BY <1>1
<1>3. FlattenSeq(s) = c[2]
  BY <1>1, <1>2, FlattenIs
<1> QED
  BY <1>1, <1>3

LEMMA FlattenThree ==
    ASSUME NEW s, Len(s) = 3
    PROVE  FlattenSeq(s) = Joined(Joined(s[1], s[2]), s[3])
<1> DEFINE c == <<s[1], Joined(s[1], s[2]), Joined(Joined(s[1], s[2]), s[3])>>
<1>1. /\ c = [i \in 1 .. 3 |-> c[i]] /\ c[1] = s[1] /\ c[2] = Joined(c[1], s[2])
      /\ c[3] = Joined(c[2], s[3])
      /\ c[3] = Joined(Joined(s[1], s[2]), s[3])
  OBVIOUS
<1> HIDE DEF c
<1>2. \A i \in 2 .. 3 : c[i] = Joined(c[i - 1], s[i])
  <2>1. \A i \in 2 .. 3 : i = 2 \/ i = 3
    OBVIOUS
  <2> QED
    BY <1>1, <2>1
<1>3. FlattenSeq(s) = c[3]
  BY <1>1, <1>2, FlattenIs
<1> QED
  BY <1>1, <1>3

LEMMA FlattenSix ==
    ASSUME NEW s, Len(s) = 6
    PROVE  FlattenSeq(s) =
             Joined(Joined(Joined(Joined(Joined(s[1], s[2]), s[3]), s[4]), s[5]), s[6])
<1> DEFINE c2 == Joined(s[1], s[2])
           c3 == Joined(c2, s[3])
           c4 == Joined(c3, s[4])
           c5 == Joined(c4, s[5])
           c6 == Joined(c5, s[6])
           c == <<s[1], c2, c3, c4, c5, c6>>
<1>1. /\ c = [i \in 1 .. 6 |-> c[i]] /\ c[1] = s[1] /\ c[2] = Joined(c[1], s[2])
      /\ c[3] = Joined(c[2], s[3]) /\ c[4] = Joined(c[3], s[4])
      /\ c[5] = Joined(c[4], s[5]) /\ c[6] = Joined(c[5], s[6])
  OBVIOUS
<1>2. c[6] = c6
  OBVIOUS
<1> HIDE DEF c
<1>3. \A i \in 2 .. 6 : c[i] = Joined(c[i - 1], s[i])
  <2>1. \A i \in 2 .. 6 : i = 2 \/ i = 3 \/ i = 4 \/ i = 5 \/ i = 6
    OBVIOUS
  <2> QED
    BY <1>1, <2>1
<1>4. FlattenSeq(s) = c[6]
  BY <1>1, <1>3, FlattenIs
<1> QED
  BY <1>2, <1>4

LEMMA JoinedType ==
    ASSUME NEW S, NEW s \in Seq(S), NEW t \in Seq(S) PROVE Joined(s, t) \in Seq(S)
BY ConcatProperties DEF Joined

-----------------------------------------------------------------------------
(* A command on its way: the rest of the revision it is at, and the        *)
(* revisions that follow.                                                  *)

Left(block, k, rest) == SubSeq(block, k + 1, Len(block)) \o rest

LEMMA HeadTailOfConcat ==
    ASSUME NEW S, NEW s \in Seq(S), NEW t \in Seq(S), s # <<>>
    PROVE  /\ s \o t # <<>>
           /\ Head(s \o t) = Head(s)
           /\ Tail(s \o t) = Tail(s) \o t
<1> PICK m \in Nat, n \in Nat : m = Len(s) /\ n = Len(t)
  BY LenProperties
<1>1. m > 0
  BY EmptySeq, LenProperties
<1> DEFINE u == s \o t
           v == Tail(s)
<1>2. /\ u \in Seq(S) /\ Len(u) = m + n
      /\ \A i \in 1 .. m + n : u[i] = IF i <= m THEN s[i] ELSE t[i - m]
  BY ConcatProperties
<1>3. /\ v \in Seq(S) /\ Len(v) = m - 1
      /\ \A i \in 1 .. m - 1 : v[i] = s[i + 1]
  BY HeadTailProperties
<1>4. Head(s) = s[1]
  BY <1>1
<1> HIDE DEF u, v
<1>5. u # <<>>
  <2>1. Len(u) # 0
    BY <1>1, <1>2
  <2> QED
    BY <2>1, EmptySeq
<1>6. Head(u) = u[1]
  BY <1>2, <1>5
<1>7. u[1] = s[1]
  BY <1>1, <1>2
<1>8. /\ Tail(u) \in Seq(S) /\ Len(Tail(u)) = m + n - 1
      /\ \A i \in 1 .. m + n - 1 : Tail(u)[i] = u[i + 1]
  BY <1>2, <1>5, HeadTailProperties
<1>9. /\ v \o t \in Seq(S) /\ Len(v \o t) = m - 1 + n
      /\ \A i \in 1 .. m - 1 + n : (v \o t)[i] = IF i <= m - 1 THEN v[i] ELSE t[i - (m - 1)]
  <2>1. PICK p \in Nat : p = m - 1
    BY <1>1
  <2>2. p = Len(v)
    BY <1>3, <2>1
  <2>3. /\ v \o t \in Seq(S) /\ Len(v \o t) = p + n
        /\ \A i \in 1 .. p + n : (v \o t)[i] = IF i <= p THEN v[i] ELSE t[i - p]
    BY <1>3, <2>2, ConcatProperties
  <2> QED
    BY <2>1, <2>3
<1> DEFINE x == Tail(u)
           y == v \o t
<1> HIDE DEF x, y
<1>10. ASSUME NEW i \in 1 .. m + n - 1 PROVE x[i] = y[i]
  <2>1. x[i] = u[i + 1]
    BY <1>8 DEF x
  <2>2. i + 1 \in 1 .. m + n
    OBVIOUS
  <2>3. CASE i <= m - 1
    <3>1. i + 1 <= m /\ i \in 1 .. m - 1
      BY <2>3
    <3>2. u[i + 1] = s[i + 1]
      BY <1>2, <2>2, <3>1
    <3>3. y[i] = v[i]
      BY <1>9, <2>3 DEF y
    <3> QED
      BY <2>1, <3>1, <3>2, <3>3, <1>3
  <2>4. CASE ~(i <= m - 1)
    <3>1. u[i + 1] = t[i + 1 - m]
      BY <1>2, <2>2, <2>4
    <3>2. y[i] = t[i - (m - 1)]
      BY <1>9, <2>4 DEF y
    <3>3. i + 1 - m = i - (m - 1)
      OBVIOUS
    <3> QED
      BY <2>1, <3>1, <3>2, <3>3
  <2> QED
    BY <2>3, <2>4
<1>11. Len(x) = m + n - 1 /\ Len(y) = m + n - 1 /\ x \in Seq(S) /\ y \in Seq(S)
  BY <1>8, <1>9 DEF x, y
<1>12. x = y
  BY <1>10, <1>11, SeqEqual
<1> QED
  BY <1>4, <1>5, <1>6, <1>7, <1>12 DEF u, v, x, y

LEMMA LeftFacts ==
    ASSUME NEW S, NEW block \in Seq(S), NEW rest \in Seq(S),
           NEW n \in Nat, n = Len(block), NEW k \in 0 .. n - 1
    PROVE  /\ Left(block, k, rest) # <<>>
           /\ Head(Left(block, k, rest)) = block[k + 1]
           /\ Tail(Left(block, k, rest)) = Left(block, k + 1, rest)
           /\ Left(block, 0, rest) = block \o rest
           /\ Left(block, n, rest) = rest
<1> DEFINE tail == SubSeq(block, k + 1, n)
           next == SubSeq(block, k + 1 + 1, n)
<1>1. k + 1 \in 1 .. n /\ n \in k + 1 .. n
  OBVIOUS
<1>2. tail \in Seq(S) /\ next \in Seq(S)
  BY <1>1, SubSeqProperties
<1>3. Len(tail) = n - k /\ tail # <<>>
  <2>1. Len(tail) = n - k
    BY <1>1, SubSeqProperties
  <2>2. Len(tail) # 0
    BY <2>1
  <2> QED
    BY <1>2, <2>1, <2>2, EmptySeq
<1>4. Head(tail) = block[k + 1] /\ Tail(tail) = next
  BY <1>1, HeadTailOfSubSeq
<1>5. Left(block, k, rest) = tail \o rest
  BY DEF Left
<1>6. Left(block, k + 1, rest) = next \o rest
  BY DEF Left
<1>7. Left(block, 0, rest) = block \o rest
  <2>1. SubSeq(block, 0 + 1, n) = block
    BY SubSeqFull
  <2> QED
    BY <2>1 DEF Left
<1>8. Left(block, n, rest) = rest
  <2>1. SubSeq(block, n + 1, n) = <<>>
    BY SubSeqEmpty
  <2> QED
    BY <2>1, ConcatEmptySeq DEF Left
<1> HIDE DEF tail, next
<1>9. /\ tail \o rest # <<>>
      /\ Head(tail \o rest) = Head(tail)
      /\ Tail(tail \o rest) = Tail(tail) \o rest
  BY <1>2, <1>3, ConcatProperties, HeadTailOfConcat
<1> QED
  BY <1>4, <1>5, <1>6, <1>7, <1>8, <1>9

-----------------------------------------------------------------------------
(* What the revisions say, written out.                                    *)

Baseline == {"exception_cases", "audit_events", "ai_records", "approval_decisions"}
Alignment == {Column, "execution_records"}
Evidence == {"evidence_records"}

LEMMA UpIs ==
    /\ Up[1] = Phase4Baseline /\ Len(Up[1]) = 4
    /\ Up[1][1] = "exception_cases" /\ Up[1][2] = "audit_events"
    /\ Up[1][3] = "ai_records" /\ Up[1][4] = "approval_decisions"
    /\ Up[2] = Phase5Alignment /\ Len(Up[2]) = 2
    /\ Up[2][1] = Column /\ Up[2][2] = "execution_records"
    /\ Up[3] = Phase7Evidence /\ Len(Up[3]) = 1 /\ Up[3][1] = "evidence_records"
BY DEF Up, Phase4Baseline, Phase5Alignment, Phase7Evidence

LEMMA DownIs ==
    /\ Down[1] = DropPhase4 /\ Len(Down[1]) = 4
    /\ Down[1][1] = "approval_decisions" /\ Down[1][2] = "ai_records"
    /\ Down[1][3] = "audit_events" /\ Down[1][4] = "exception_cases"
    /\ Down[2] = DropPhase5 /\ Len(Down[2]) = 2
    /\ Down[2][1] = "execution_records" /\ Down[2][2] = Column
    /\ Down[3] = DropPhase7 /\ Len(Down[3]) = 1 /\ Down[3][1] = "evidence_records"
BY DEF Down, DropPhase4, DropPhase5, DropPhase7

LEMMA UpSets ==
    ToSet(Up[1]) = Baseline /\ ToSet(Up[2]) = Alignment /\ ToSet(Up[3]) = Evidence
<1>1. ToSet(Up[1]) = Baseline
  BY UpIs DEF ToSet, Baseline, Phase4Baseline
<1>2. ToSet(Up[2]) = Alignment
  BY UpIs DEF ToSet, Alignment, Phase5Alignment
<1>3. ToSet(Up[3]) = Evidence
  BY UpIs DEF ToSet, Evidence, Phase7Evidence
<1> QED
  BY <1>1, <1>2, <1>3

LEMMA Schemas ==
    /\ SchemaOf(0) = {}
    /\ SchemaOf(1) = Baseline
    /\ SchemaOf(2) = Baseline \cup Alignment
    /\ SchemaOf(3) = Baseline \cup Alignment \cup Evidence
    /\ Object = SchemaOf(3)
<1> DEFINE set(v) == ToSet(Up[v])
<1>1. /\ SchemaOf(0) = UNION {set(v) : v \in 1 .. 0}
      /\ SchemaOf(1) = UNION {set(v) : v \in 1 .. 1}
      /\ SchemaOf(2) = UNION {set(v) : v \in 1 .. 2}
      /\ SchemaOf(3) = UNION {set(v) : v \in 1 .. 3}
      /\ Object = UNION {set(v) : v \in 1 .. 3}
  BY DEF SchemaOf, Object
<1>2. set(1) = Baseline /\ set(2) = Alignment /\ set(3) = Evidence
  BY UpSets
<1> HIDE DEF set
<1>3. 1 .. 0 = {} /\ 1 .. 1 = {1} /\ 1 .. 2 = {1, 2} /\ 1 .. 3 = {1, 2, 3}
  OBVIOUS
<1>4. UNION {set(v) : v \in {}} = {}
  OBVIOUS
<1>5. UNION {set(v) : v \in {1}} = set(1)
  OBVIOUS
<1>6. UNION {set(v) : v \in {1, 2}} = set(1) \cup set(2)
  OBVIOUS
<1>7. UNION {set(v) : v \in {1, 2, 3}} = set(1) \cup set(2) \cup set(3)
  OBVIOUS
<1> QED
  BY <1>1, <1>2, <1>3, <1>4, <1>5, <1>6, <1>7

(* The statements of a revision in one direction, and the schema after k   *)
(* of them.                                                                *)
Leg(from, to) ==
    from \in Revision /\ to \in Revision /\ (to = from + 1 \/ from = to + 1)
Objects(from, to) == IF from < to THEN Up[to] ELSE Down[from]
Make(from, to, o) == IF from < to THEN Create(o) ELSE Drop(o)
Block(from, to) ==
    IF from < to THEN Append(Statements(Create, Up[to]), Stamp(from, to))
                 ELSE Append(Statements(Drop, Down[from]), Stamp(from, to))
SchemaAt(from, to, k) ==
    LET done == {Objects(from, to)[i] : i \in 1 .. k}
    IN  IF from < to THEN SchemaOf(from) \cup done ELSE SchemaOf(from) \ done

LEMMA SixLegs ==
    ASSUME NEW from, NEW to, Leg(from, to)
    PROVE  \/ (from = 0 /\ to = 1) \/ (from = 1 /\ to = 2) \/ (from = 2 /\ to = 3)
           \/ (from = 1 /\ to = 0) \/ (from = 2 /\ to = 1) \/ (from = 3 /\ to = 2)
<1>1. ASSUME NEW v \in 0 .. 3, NEW w \in 0 .. 3, w = v + 1
      PROVE  (v = 0 /\ w = 1) \/ (v = 1 /\ w = 2) \/ (v = 2 /\ w = 3)
  <2>1. v = 0 \/ v = 1 \/ v = 2
    BY <1>1
  <2>2. (v = 0 => w = 1) /\ (v = 1 => w = 2) /\ (v = 2 => w = 3)
    BY <1>1
  <2> QED
    BY <2>1, <2>2
<1>2. from \in 0 .. 3 /\ to \in 0 .. 3 /\ (to = from + 1 \/ from = to + 1)
  BY DEF Leg, Revision
<1>3. CASE to = from + 1
  BY <1>1, <1>2, <1>3
<1>4. CASE from = to + 1
  BY <1>1, <1>2, <1>4
<1> QED
  BY <1>2, <1>3, <1>4

LEMMA ObjectsType ==
    ASSUME NEW from, NEW to, Leg(from, to)
    PROVE  Objects(from, to) \in Seq(Object) /\ Len(Objects(from, to)) \in 1 .. 4
<1>1. \A o \in Baseline \cup Alignment \cup Evidence : o \in Object
  BY Schemas
<1>2. Up[1] \in Seq(Object) /\ Up[2] \in Seq(Object) /\ Up[3] \in Seq(Object)
  BY UpIs, <1>1 DEF Phase4Baseline, Phase5Alignment, Phase7Evidence, Baseline,
     Alignment, Evidence
<1>3. Down[1] \in Seq(Object) /\ Down[2] \in Seq(Object) /\ Down[3] \in Seq(Object)
  BY DownIs, <1>1 DEF DropPhase4, DropPhase5, DropPhase7, Baseline, Alignment,
     Evidence
<1> QED
  BY <1>2, <1>3, SixLegs, UpIs, DownIs DEF Objects

LEMMA StatementTypes ==
    /\ \A o \in Object : Create(o) \in Statement /\ Drop(o) \in Statement
    /\ \A from, to \in Revision : Stamp(from, to) \in Statement
<1>1. \A o \in Object : Create(o) \in [op : {"create", "drop"}, object : Object]
  BY DEF Create
<1>2. \A o \in Object : Drop(o) \in [op : {"create", "drop"}, object : Object]
  BY DEF Drop
<1>3. \A from, to \in Revision :
        Stamp(from, to) \in [op : {"stamp"}, from : Revision, to : Revision]
  BY DEF Stamp
<1> QED
  BY <1>1, <1>2, <1>3 DEF Statement

LEMMA BlockFacts ==
    ASSUME NEW from, NEW to, Leg(from, to),
           NEW n \in Nat, n = Len(Objects(from, to))
    PROVE  /\ Block(from, to) \in Seq(Statement)
           /\ Len(Block(from, to)) = n + 1
           /\ \A i \in 1 .. n :
                Block(from, to)[i] = Make(from, to, Objects(from, to)[i])
           /\ Block(from, to)[n + 1] = Stamp(from, to)
<1> DEFINE objects == Objects(from, to)
           s == [i \in 1 .. n |-> Make(from, to, objects[i])]
<1>1. objects \in Seq(Object)
  BY ObjectsType
<1>2. \A i \in 1 .. n : objects[i] \in Object
  BY <1>1
<1>3. DOMAIN objects = 1 .. n
  BY <1>1, LenProperties
<1>4. Stamp(from, to) \in Statement
  BY StatementTypes DEF Leg
<1>5. Block(from, to) = Append(s, Stamp(from, to))
  BY <1>3 DEF Block, Statements, Make, Objects
<1>6. \A i \in 1 .. n : Make(from, to, objects[i]) \in Statement
  BY <1>2, StatementTypes DEF Make
<1> HIDE DEF objects
<1>7. s \in Seq(Statement) /\ Len(s) = n
  BY <1>6
<1>8. \A i \in 1 .. n : s[i] = Make(from, to, objects[i])
  OBVIOUS
<1> HIDE DEF s
<1> QED
  BY <1>4, <1>5, <1>7, <1>8, AppendProperties DEF objects

LEMMA LegObjects ==
    /\ Objects(0, 1) = Up[1] /\ Objects(1, 2) = Up[2] /\ Objects(2, 3) = Up[3]
    /\ Objects(1, 0) = Down[1] /\ Objects(2, 1) = Down[2] /\ Objects(3, 2) = Down[3]
BY DEF Objects

(* A leg begins with the schema of its revision and changes one object at  *)
(* a time.                                                                 *)
LEMMA SchemaStarts ==
    ASSUME NEW from, NEW to PROVE SchemaAt(from, to, 0) = SchemaOf(from)
<1>1. {Objects(from, to)[i] : i \in 1 .. 0} = {}
  OBVIOUS
<1> QED
  BY <1>1 DEF SchemaAt

LEMMA SchemaChanges ==
    ASSUME NEW from, NEW to, NEW k \in Nat, NEW next, next = k + 1,
           NEW o, o = Objects(from, to)[next]
    PROVE  SchemaAt(from, to, next) =
             IF from < to THEN SchemaAt(from, to, k) \cup {o}
                          ELSE SchemaAt(from, to, k) \ {o}
<1> DEFINE objects == Objects(from, to)
           done == {objects[i] : i \in 1 .. k}
           more == {objects[i] : i \in 1 .. k + 1}
<1>1. more = done \cup {o}
  <2>1. \A i \in 1 .. k + 1 : i \in 1 .. k \/ i = k + 1
    OBVIOUS
  <2>2. \A i \in 1 .. k : i \in 1 .. k + 1
    OBVIOUS
  <2>3. k + 1 \in 1 .. k + 1
    OBVIOUS
  <2> QED
    BY <2>1, <2>2, <2>3
<1> HIDE DEF done, more
<1>2. SchemaAt(from, to, k) =
        IF from < to THEN SchemaOf(from) \cup done ELSE SchemaOf(from) \ done
  BY DEF SchemaAt, done
<1>3. SchemaAt(from, to, next) =
        IF from < to THEN SchemaOf(from) \cup more ELSE SchemaOf(from) \ more
  BY DEF SchemaAt, more
<1> QED
  BY <1>1, <1>2, <1>3

LEMMA SchemaNext ==
    ASSUME NEW from, NEW to, NEW k \in Nat, NEW next, next = k + 1,
           NEW now, now = SchemaAt(from, to, k),
           NEW then, then = SchemaAt(from, to, next),
           NEW o, o = Objects(from, to)[next]
    PROVE  (from < to => then = now \cup {o}) /\ (~(from < to) => then = now \ {o})
BY SchemaChanges

(* The twenty schemas a command may leave between two statements.          *)
LEMMA SchemasUp ==
    /\ SchemaAt(0, 1, 0) = {}
    /\ SchemaAt(0, 1, 1) = {"exception_cases"}
    /\ SchemaAt(0, 1, 2) = {"exception_cases", "audit_events"}
    /\ SchemaAt(0, 1, 3) = {"exception_cases", "audit_events", "ai_records"}
    /\ SchemaAt(0, 1, 4) = Baseline
    /\ SchemaAt(1, 2, 0) = Baseline
    /\ SchemaAt(1, 2, 1) = Baseline \cup {Column}
    /\ SchemaAt(1, 2, 2) = Baseline \cup Alignment
    /\ SchemaAt(2, 3, 0) = Baseline \cup Alignment
    /\ SchemaAt(2, 3, 1) = Baseline \cup Alignment \cup Evidence
<1>1. ASSUME NEW from \in Nat, NEW to \in Nat, from < to, NEW k \in Nat,
             NEW next, next = k + 1
      PROVE  SchemaAt(from, to, next) =
               SchemaAt(from, to, k) \cup {Objects(from, to)[next]}
  BY <1>1, SchemaChanges
<1>2. SchemaAt(0, 1, 0) = {}
  BY SchemaStarts, Schemas
<1>3. SchemaAt(0, 1, 1) = {"exception_cases"}
  BY <1>1, <1>2, 1 = 0 + 1, LegObjects, UpIs
<1>4. SchemaAt(0, 1, 2) = {"exception_cases", "audit_events"}
  BY <1>1, <1>3, 2 = 1 + 1, LegObjects, UpIs
<1>5. SchemaAt(0, 1, 3) = {"exception_cases", "audit_events", "ai_records"}
  BY <1>1, <1>4, 3 = 2 + 1, LegObjects, UpIs
<1>6. SchemaAt(0, 1, 4) = Baseline
  BY <1>1, <1>5, 4 = 3 + 1, LegObjects, UpIs DEF Baseline
<1>7. SchemaAt(1, 2, 0) = Baseline
  BY SchemaStarts, Schemas
<1>8. SchemaAt(1, 2, 1) = Baseline \cup {Column}
  BY <1>1, <1>7, 1 = 0 + 1, LegObjects, UpIs
<1>9. SchemaAt(1, 2, 2) = Baseline \cup Alignment
  <2>1. SchemaAt(1, 2, 2) = SchemaAt(1, 2, 1) \cup {"execution_records"}
    BY <1>1, 2 = 1 + 1, LegObjects, UpIs
  <2> QED
    BY <2>1, <1>8 DEF Alignment
<1>10. SchemaAt(2, 3, 0) = Baseline \cup Alignment
  BY SchemaStarts, Schemas
<1>11. SchemaAt(2, 3, 1) = Baseline \cup Alignment \cup Evidence
  BY <1>1, <1>10, 1 = 0 + 1, LegObjects, UpIs DEF Evidence
<1> QED
  BY <1>2, <1>3, <1>4, <1>5, <1>6, <1>7, <1>8, <1>9, <1>10, <1>11

LEMMA SchemasDown ==
    /\ SchemaAt(1, 0, 0) = Baseline
    /\ SchemaAt(1, 0, 1) = {"exception_cases", "audit_events", "ai_records"}
    /\ SchemaAt(1, 0, 2) = {"exception_cases", "audit_events"}
    /\ SchemaAt(1, 0, 3) = {"exception_cases"}
    /\ SchemaAt(1, 0, 4) = {}
    /\ SchemaAt(2, 1, 0) = Baseline \cup Alignment
    /\ SchemaAt(2, 1, 1) = Baseline \cup {Column}
    /\ SchemaAt(2, 1, 2) = Baseline
    /\ SchemaAt(3, 2, 0) = Baseline \cup Alignment \cup Evidence
    /\ SchemaAt(3, 2, 1) = Baseline \cup Alignment
<1>1. ASSUME NEW from \in Nat, NEW to \in Nat, ~(from < to), NEW k \in Nat,
             NEW next, next = k + 1
      PROVE  SchemaAt(from, to, next) =
               SchemaAt(from, to, k) \ {Objects(from, to)[next]}
  BY <1>1, SchemaChanges
<1>2. SchemaAt(1, 0, 0) = Baseline
  BY SchemaStarts, Schemas
<1>3. SchemaAt(1, 0, 1) = {"exception_cases", "audit_events", "ai_records"}
  <2>1. SchemaAt(1, 0, 1) = SchemaAt(1, 0, 0) \ {"approval_decisions"}
    BY <1>1, 1 = 0 + 1, LegObjects, DownIs
  <2> QED
    BY <2>1, <1>2 DEF Baseline
<1>4. SchemaAt(1, 0, 2) = {"exception_cases", "audit_events"}
  <2>1. SchemaAt(1, 0, 2) = SchemaAt(1, 0, 1) \ {"ai_records"}
    BY <1>1, 2 = 1 + 1, LegObjects, DownIs
  <2> QED
    BY <2>1, <1>3
<1>5. SchemaAt(1, 0, 3) = {"exception_cases"}
  <2>1. SchemaAt(1, 0, 3) = SchemaAt(1, 0, 2) \ {"audit_events"}
    BY <1>1, 3 = 2 + 1, LegObjects, DownIs
  <2> QED
    BY <2>1, <1>4
<1>6. SchemaAt(1, 0, 4) = {}
  <2>1. SchemaAt(1, 0, 4) = SchemaAt(1, 0, 3) \ {"exception_cases"}
    BY <1>1, 4 = 3 + 1, LegObjects, DownIs
  <2> QED
    BY <2>1, <1>5
<1>7. SchemaAt(2, 1, 0) = Baseline \cup Alignment
  BY SchemaStarts, Schemas
<1>8. SchemaAt(2, 1, 1) = Baseline \cup {Column}
  <2>1. SchemaAt(2, 1, 1) = SchemaAt(2, 1, 0) \ {"execution_records"}
    BY <1>1, 1 = 0 + 1, LegObjects, DownIs
  <2> QED
    BY <2>1, <1>7 DEF Baseline, Alignment, Column
<1>9. SchemaAt(2, 1, 2) = Baseline
  <2>1. SchemaAt(2, 1, 2) = SchemaAt(2, 1, 1) \ {Column}
    BY <1>1, 2 = 1 + 1, LegObjects, DownIs
  <2> QED
    BY <2>1, <1>8 DEF Baseline, Column
<1>10. SchemaAt(3, 2, 0) = Baseline \cup Alignment \cup Evidence
  BY SchemaStarts, Schemas
<1>11. SchemaAt(3, 2, 1) = Baseline \cup Alignment
  <2>1. SchemaAt(3, 2, 1) = SchemaAt(3, 2, 0) \ {"evidence_records"}
    BY <1>1, 1 = 0 + 1, LegObjects, DownIs
  <2> QED
    BY <2>1, <1>10 DEF Baseline, Alignment, Evidence, Column
<1> QED
  BY <1>2, <1>3, <1>4, <1>5, <1>6, <1>7, <1>8, <1>9, <1>10, <1>11

LEMMA SchemaEnds ==
    ASSUME NEW from, NEW to, Leg(from, to), NEW n, n = Len(Objects(from, to))
    PROVE  SchemaAt(from, to, n) = SchemaOf(to)
<1>1. /\ SchemaAt(0, 1, 4) = SchemaOf(1) /\ SchemaAt(1, 0, 4) = SchemaOf(0)
      /\ SchemaAt(1, 2, 2) = SchemaOf(2) /\ SchemaAt(2, 1, 2) = SchemaOf(1)
      /\ SchemaAt(2, 3, 1) = SchemaOf(3) /\ SchemaAt(3, 2, 1) = SchemaOf(2)
  BY SchemasUp, SchemasDown, Schemas
<1>2. /\ Len(Objects(0, 1)) = 4 /\ Len(Objects(1, 0)) = 4
      /\ Len(Objects(1, 2)) = 2 /\ Len(Objects(2, 1)) = 2
      /\ Len(Objects(2, 3)) = 1 /\ Len(Objects(3, 2)) = 1
  BY LegObjects, UpIs, DownIs
<1> QED
  BY <1>1, <1>2, SixLegs

(* Nothing in the revisions is in the way of a statement of a leg: no      *)
(* object is made twice or before what it refers to, and none is dropped   *)
(* that is not there or under those that refer to it.                      *)
Clear(from, to, k, o) ==
    LET schema == SchemaAt(from, to, k) IN
      IF from < to THEN o \notin schema /\ RefersTo(o) \subseteq schema
                   ELSE o \in schema /\ \A p \in schema : o \notin RefersTo(p)

LEMMA ClearUp ==
    /\ Clear(0, 1, 0, "exception_cases") /\ Clear(0, 1, 1, "audit_events")
    /\ Clear(0, 1, 2, "ai_records") /\ Clear(0, 1, 3, "approval_decisions")
    /\ Clear(1, 2, 0, Column) /\ Clear(1, 2, 1, "execution_records")
    /\ Clear(2, 3, 0, "evidence_records")
<1>1. Clear(0, 1, 0, "exception_cases")
  BY SchemasUp DEF Clear, RefersTo
<1>2. Clear(0, 1, 1, "audit_events")
  BY SchemasUp DEF Clear, RefersTo
<1>3. Clear(0, 1, 2, "ai_records")
  BY SchemasUp DEF Clear, RefersTo
<1>4. Clear(0, 1, 3, "approval_decisions")
  BY SchemasUp DEF Clear, RefersTo
<1>5. Clear(1, 2, 0, Column)
  BY SchemasUp DEF Clear, RefersTo, Baseline, Column
<1>6. Clear(1, 2, 1, "execution_records")
  BY SchemasUp DEF Clear, RefersTo, Baseline, Column
<1>7. Clear(2, 3, 0, "evidence_records")
  BY SchemasUp DEF Clear, RefersTo, Baseline, Alignment, Column
<1> QED
  BY <1>1, <1>2, <1>3, <1>4, <1>5, <1>6, <1>7

LEMMA ClearDown ==
    /\ Clear(1, 0, 0, "approval_decisions") /\ Clear(1, 0, 1, "ai_records")
    /\ Clear(1, 0, 2, "audit_events") /\ Clear(1, 0, 3, "exception_cases")
    /\ Clear(2, 1, 0, "execution_records") /\ Clear(2, 1, 1, Column)
    /\ Clear(3, 2, 0, "evidence_records")
<1>1. Clear(1, 0, 0, "approval_decisions")
  BY SchemasDown DEF Clear, RefersTo, Baseline
<1>2. Clear(1, 0, 1, "ai_records")
  BY SchemasDown DEF Clear, RefersTo
<1>3. Clear(1, 0, 2, "audit_events")
  BY SchemasDown DEF Clear, RefersTo
<1>4. Clear(1, 0, 3, "exception_cases")
  BY SchemasDown DEF Clear, RefersTo
<1>5. Clear(2, 1, 0, "execution_records")
  BY SchemasDown DEF Clear, RefersTo, Baseline, Alignment, Column
<1>6. Clear(2, 1, 1, Column)
  BY SchemasDown DEF Clear, RefersTo, Baseline, Column
<1>7. Clear(3, 2, 0, "evidence_records")
  BY SchemasDown DEF Clear, RefersTo, Baseline, Alignment, Evidence, Column
<1> QED
  BY <1>1, <1>2, <1>3, <1>4, <1>5, <1>6, <1>7

LEMMA UpToFour ==
    ASSUME NEW n \in Nat, NEW k \in 0 .. n - 1, NEW j, j = k + 1
    PROVE  /\ n = 4 => \/ (k = 0 /\ j = 1) \/ (k = 1 /\ j = 2)
                      \/ (k = 2 /\ j = 3) \/ (k = 3 /\ j = 4)
           /\ n = 2 => (k = 0 /\ j = 1) \/ (k = 1 /\ j = 2)
<1>1. /\ n = 4 => k = 0 \/ k = 1 \/ k = 2 \/ k = 3
      /\ n = 2 => k = 0 \/ k = 1
  OBVIOUS
<1>2. (k = 0 => j = 1) /\ (k = 1 => j = 2) /\ (k = 2 => j = 3) /\ (k = 3 => j = 4)
  OBVIOUS
<1> QED
  BY <1>1, <1>2

(* The exceptional statement, which takes the cases away, is the last one  *)
(* of the downgrade to the empty database.                                 *)
LEMMA LegIsClear ==
    ASSUME NEW from, NEW to, Leg(from, to), NEW n \in Nat,
           n = Len(Objects(from, to)), NEW k \in 0 .. n - 1,
           NEW o, o = Objects(from, to)[k + 1]
    PROVE  /\ Clear(from, to, k, o)
           /\ from > to /\ o = "exception_cases" => from = 1 /\ to = 0 /\ k = 3
<1> PICK j \in Nat : j = k + 1
  OBVIOUS
<1>2. CASE from = 0 /\ to = 1
  <2>1. n = 4 /\ o = Up[1][j]
    BY <1>2, LegObjects, UpIs
  <2>2. (k = 0 /\ j = 1) \/ (k = 1 /\ j = 2) \/ (k = 2 /\ j = 3) \/ (k = 3 /\ j = 4)
    BY <2>1, UpToFour
  <2>3. (k = 0 /\ o = "exception_cases") \/ (k = 1 /\ o = "audit_events")
          \/ (k = 2 /\ o = "ai_records") \/ (k = 3 /\ o = "approval_decisions")
    BY <2>1, <2>2, UpIs
  <2> QED
    BY <1>2, <2>3, ClearUp
<1>3. CASE from = 1 /\ to = 0
  <2>1. n = 4 /\ o = Down[1][j]
    BY <1>3, LegObjects, DownIs
  <2>2. (k = 0 /\ j = 1) \/ (k = 1 /\ j = 2) \/ (k = 2 /\ j = 3) \/ (k = 3 /\ j = 4)
    BY <2>1, UpToFour
  <2>3. (k = 0 /\ o = "approval_decisions") \/ (k = 1 /\ o = "ai_records")
          \/ (k = 2 /\ o = "audit_events") \/ (k = 3 /\ o = "exception_cases")
    BY <2>1, <2>2, DownIs
  <2> QED
    BY <1>3, <2>3, ClearDown
<1>4. CASE from = 1 /\ to = 2
  <2>1. n = 2 /\ o = Up[2][j]
    BY <1>4, LegObjects, UpIs
  <2>2. (k = 0 /\ j = 1) \/ (k = 1 /\ j = 2)
    BY <2>1, UpToFour
  <2>3. (k = 0 /\ o = Column) \/ (k = 1 /\ o = "execution_records")
    BY <2>1, <2>2, UpIs
  <2> QED
    BY <1>4, <2>3, ClearUp
<1>5. CASE from = 2 /\ to = 1
  <2>1. n = 2 /\ o = Down[2][j]
    BY <1>5, LegObjects, DownIs
  <2>2. (k = 0 /\ j = 1) \/ (k = 1 /\ j = 2)
    BY <2>1, UpToFour
  <2>3. (k = 0 /\ o = "execution_records") \/ (k = 1 /\ o = Column)
    BY <2>1, <2>2, DownIs
  <2> QED
    BY <1>5, <2>3, ClearDown DEF Column
<1>6. CASE from = 2 /\ to = 3
  <2>1. n = 1 /\ o = Up[3][j]
    BY <1>6, LegObjects, UpIs
  <2>2. k = 0 /\ j = 1
    BY <2>1
  <2>3. o = "evidence_records"
    BY <2>1, <2>2, UpIs
  <2> QED
    BY <1>6, <2>2, <2>3, ClearUp
<1>7. CASE from = 3 /\ to = 2
  <2>1. n = 1 /\ o = Down[3][j]
    BY <1>7, LegObjects, DownIs
  <2>2. k = 0 /\ j = 1
    BY <2>1
  <2>3. o = "evidence_records"
    BY <2>1, <2>2, DownIs
  <2> QED
    BY <1>7, <2>2, <2>3, ClearDown
<1> QED
  BY <1>2, <1>3, <1>4, <1>5, <1>6, <1>7, SixLegs

-----------------------------------------------------------------------------
(* A command is the first of its revisions and the command for the rest.   *)

LEMMA BlockTypes ==
    /\ Block(0, 1) \in Seq(Statement) /\ Block(1, 2) \in Seq(Statement)
    /\ Block(2, 3) \in Seq(Statement) /\ Block(1, 0) \in Seq(Statement)
    /\ Block(2, 1) \in Seq(Statement) /\ Block(3, 2) \in Seq(Statement)
<1>1. \A from, to : Leg(from, to) => Block(from, to) \in Seq(Statement)
  <2>1. SUFFICES ASSUME NEW from, NEW to, Leg(from, to)
                 PROVE  Block(from, to) \in Seq(Statement)
    OBVIOUS
  <2>2. PICK n \in Nat : n = Len(Objects(from, to))
    BY ObjectsType
  <2> QED
    BY <2>1, <2>2, BlockFacts
<1>2. /\ Leg(0, 1) /\ Leg(1, 2) /\ Leg(2, 3) /\ Leg(1, 0) /\ Leg(2, 1) /\ Leg(3, 2)
  BY DEF Leg, Revision
<1> QED
  BY <1>1, <1>2

UpBlock(i) == Append(Statements(Create, Up[i]), Stamp(i - 1, i))
DownBlock(i) == Append(Statements(Drop, Down[i]), Stamp(i, i - 1))

LEMMA BlocksAre ==
    /\ UpBlock(1) = Block(0, 1) /\ UpBlock(2) = Block(1, 2) /\ UpBlock(3) = Block(2, 3)
    /\ DownBlock(1) = Block(1, 0) /\ DownBlock(2) = Block(2, 1)
    /\ DownBlock(3) = Block(3, 2)
BY DEF UpBlock, DownBlock, Block

LEMMA UpgradingIs ==
    /\ Upgrading(0) = Joined(Joined(Block(0, 1), Block(1, 2)), Block(2, 3))
    /\ Upgrading(1) = Joined(Block(1, 2), Block(2, 3))
    /\ Upgrading(2) = Block(2, 3)
    /\ Upgrading(3) = <<>>
<1> DEFINE s(v) == [i \in 1 .. (3 - v) |->
                      Append(Statements(Create, Up[v + i]), Stamp(v + i - 1, v + i))]
<1>1. \A v : Upgrading(v) = FlattenSeq(s(v))
  BY DEF Upgrading
<1>2. /\ Len(s(0)) = 3 /\ s(0)[1] = UpBlock(1) /\ s(0)[2] = UpBlock(2)
      /\ s(0)[3] = UpBlock(3)
  BY DEF UpBlock
<1>3. Len(s(1)) = 2 /\ s(1)[1] = UpBlock(2) /\ s(1)[2] = UpBlock(3)
  BY DEF UpBlock
<1>4. Len(s(2)) = 1 /\ s(2)[1] = UpBlock(3)
  BY DEF UpBlock
<1>5. Len(s(3)) = 0 /\ s(3) = <<>>
  OBVIOUS
<1> HIDE DEF s
<1>6. FlattenSeq(s(3)) = <<>>
  BY <1>5 DEF FlattenSeq
<1> QED
  BY <1>1, <1>2, <1>3, <1>4, <1>6, BlocksAre, FlattenOne, FlattenTwo, FlattenThree

LEMMA DowngradingIs ==
    /\ Downgrading(3, 0) = Joined(Joined(Block(3, 2), Block(2, 1)), Block(1, 0))
    /\ Downgrading(3, 1) = Joined(Block(3, 2), Block(2, 1))
    /\ Downgrading(2, 0) = Joined(Block(2, 1), Block(1, 0))
    /\ Downgrading(3, 2) = Block(3, 2) /\ Downgrading(2, 1) = Block(2, 1)
    /\ Downgrading(1, 0) = Block(1, 0)
    /\ \A v \in Nat : Downgrading(v, v) = <<>>
<1> DEFINE s(v, w) == [i \in 1 .. (v - w) |->
                         Append(Statements(Drop, Down[v + 1 - i]),
                                Stamp(v + 1 - i, v - i))]
<1>1. \A v, w : Downgrading(v, w) = FlattenSeq(s(v, w))
  BY DEF Downgrading
<1>2. /\ Len(s(3, 0)) = 3 /\ s(3, 0)[1] = DownBlock(3)
      /\ s(3, 0)[2] = DownBlock(2) /\ s(3, 0)[3] = DownBlock(1)
  BY DEF DownBlock
<1>3. Len(s(3, 1)) = 2 /\ s(3, 1)[1] = DownBlock(3) /\ s(3, 1)[2] = DownBlock(2)
  BY DEF DownBlock
<1>4. Len(s(2, 0)) = 2 /\ s(2, 0)[1] = DownBlock(2) /\ s(2, 0)[2] = DownBlock(1)
  BY DEF DownBlock
<1>5. /\ Len(s(3, 2)) = 1 /\ s(3, 2)[1] = DownBlock(3)
      /\ Len(s(2, 1)) = 1 /\ s(2, 1)[1] = DownBlock(2)
      /\ Len(s(1, 0)) = 1 /\ s(1, 0)[1] = DownBlock(1)
  BY DEF DownBlock
<1>6. \A v \in Nat : Len(s(v, v)) = 0 /\ s(v, v) = <<>>
  OBVIOUS
<1> HIDE DEF s
<1>7. \A v \in Nat : FlattenSeq(s(v, v)) = <<>>
  BY <1>6 DEF FlattenSeq
<1> QED
  BY <1>1, <1>2, <1>3, <1>4, <1>5, <1>7, BlocksAre, FlattenOne, FlattenTwo,
     FlattenThree

Rest(from, to, goal) == IF from < to THEN Upgrading(to) ELSE Downgrading(to, goal)

LEMMA UpgradingUnfolds ==
    /\ \A v \in Revision : Upgrading(v) \in Seq(Statement)
    /\ Upgrading(0) = Block(0, 1) \o Upgrading(1)
    /\ Upgrading(1) = Block(1, 2) \o Upgrading(2)
    /\ Upgrading(2) = Block(2, 3) \o Upgrading(3)
<1>1. Upgrading(3) \in Seq(Statement)
  BY UpgradingIs, EmptySeq
<1>2. Upgrading(2) \in Seq(Statement)
  BY UpgradingIs, BlockTypes
<1>3. Upgrading(1) \in Seq(Statement)
  BY UpgradingIs, BlockTypes, JoinedType
<1>4. Upgrading(0) \in Seq(Statement)
  BY UpgradingIs, BlockTypes, JoinedType
<1>5. Upgrading(2) = Block(2, 3) \o Upgrading(3)
  BY UpgradingIs, BlockTypes, ConcatEmptySeq
<1>6. Upgrading(1) = Block(1, 2) \o Upgrading(2)
  BY UpgradingIs DEF Joined
<1>7. Upgrading(0) = Block(0, 1) \o Upgrading(1)
  <2>1. (Block(0, 1) \o Block(1, 2)) \o Block(2, 3)
          = Block(0, 1) \o (Block(1, 2) \o Block(2, 3))
    BY BlockTypes, ConcatAssociative
  <2> QED
    BY <2>1, UpgradingIs DEF Joined
<1>8. \A v \in Revision : v = 0 \/ v = 1 \/ v = 2 \/ v = 3
  BY DEF Revision
<1> QED
  BY <1>1, <1>2, <1>3, <1>4, <1>5, <1>6, <1>7, <1>8

LEMMA DowngradingUnfolds ==
    /\ \A v \in Revision : \A goal \in 0 .. v :
         Downgrading(v, goal) \in Seq(Statement)
    /\ \A goal \in 0 .. 2 : Downgrading(3, goal) = Block(3, 2) \o Downgrading(2, goal)
    /\ \A goal \in 0 .. 1 : Downgrading(2, goal) = Block(2, 1) \o Downgrading(1, goal)
    /\ \A goal \in 0 .. 0 : Downgrading(1, goal) = Block(1, 0) \o Downgrading(0, goal)
<1>1. /\ Downgrading(0, 0) = <<>> /\ Downgrading(1, 1) = <<>>
      /\ Downgrading(2, 2) = <<>> /\ Downgrading(3, 3) = <<>>
  BY DowngradingIs
<1>2. /\ Downgrading(0, 0) \in Seq(Statement) /\ Downgrading(1, 1) \in Seq(Statement)
      /\ Downgrading(2, 2) \in Seq(Statement) /\ Downgrading(3, 3) \in Seq(Statement)
  BY <1>1, EmptySeq
<1>3. /\ Downgrading(3, 2) \in Seq(Statement) /\ Downgrading(2, 1) \in Seq(Statement)
      /\ Downgrading(1, 0) \in Seq(Statement)
  BY DowngradingIs, BlockTypes
<1>4. Downgrading(3, 1) \in Seq(Statement) /\ Downgrading(2, 0) \in Seq(Statement)
  BY DowngradingIs, BlockTypes, JoinedType
<1>5. Downgrading(3, 0) \in Seq(Statement)
  BY DowngradingIs, BlockTypes, JoinedType
<1>6. /\ Downgrading(3, 2) = Block(3, 2) \o Downgrading(2, 2)
      /\ Downgrading(2, 1) = Block(2, 1) \o Downgrading(1, 1)
      /\ Downgrading(1, 0) = Block(1, 0) \o Downgrading(0, 0)
  BY <1>1, DowngradingIs, BlockTypes, ConcatEmptySeq
<1>7. /\ Downgrading(3, 1) = Block(3, 2) \o Downgrading(2, 1)
      /\ Downgrading(2, 0) = Block(2, 1) \o Downgrading(1, 0)
  BY DowngradingIs DEF Joined
<1>8. Downgrading(3, 0) = Block(3, 2) \o Downgrading(2, 0)
  <2>1. (Block(3, 2) \o Block(2, 1)) \o Block(1, 0)
          = Block(3, 2) \o (Block(2, 1) \o Block(1, 0))
    BY BlockTypes, ConcatAssociative
  <2> QED
    BY <2>1, DowngradingIs DEF Joined
<1>9. ASSUME NEW v \in Revision, NEW goal \in 0 .. v
      PROVE  Downgrading(v, goal) \in Seq(Statement)
  <2>1. v \in 0 .. 3 /\ goal \in 0 .. v
    BY DEF Revision
  <2>2. /\ v = 0 \/ v = 1 \/ v = 2 \/ v = 3
        /\ v = 0 => goal = 0
        /\ v = 1 => goal = 0 \/ goal = 1
        /\ v = 2 => goal = 0 \/ goal = 1 \/ goal = 2
        /\ v = 3 => goal = 0 \/ goal = 1 \/ goal = 2 \/ goal = 3
    BY <2>1
  <2> QED
    BY <2>2, <1>2, <1>3, <1>4, <1>5
<1>10. \A goal \in 0 .. 2 : goal = 0 \/ goal = 1 \/ goal = 2
  OBVIOUS
<1>11. (\A goal \in 0 .. 1 : goal = 0 \/ goal = 1) /\ (\A goal \in 0 .. 0 : goal = 0)
  OBVIOUS
<1> QED
  BY <1>6, <1>7, <1>8, <1>9, <1>10, <1>11

-----------------------------------------------------------------------------
(* The invariant. A command that is inside its transaction is somewhere on *)
(* a leg, and what it finds is the schema of that place if the database is *)
(* still at the revision the leg begins with; if it is not, the stamp that *)
(* ends the leg will refuse. With create_all the schema may hold more. A   *)
(* transaction that has lost a case is about to stamp the empty database.  *)

Fits(expected, schema) ==
    expected \subseteq schema /\ (~db_auto_create => schema = expected)
Lost(c) == \E x \in Cases : db.rows[x] # "absent" /\ c.db.rows[x] = "absent"
Creation == {Create(o) : o \in Object}

OnTheWay(todo, from, to, goal, k) ==
    /\ Leg(from, to)
    /\ k \in 0 .. Len(Objects(from, to))
    /\ goal \in Revision
    /\ ~(from < to) => goal <= to
    /\ todo = Left(Block(from, to), k, Rest(from, to, goal))
Starts(todo, read) ==
    \/ \E to, goal \in Revision : OnTheWay(todo, read, to, goal, 0)
    \/ db_auto_create /\ todo \in Seq(Creation)

Way(c, from, to, goal, k) ==
    /\ OnTheWay(c.todo, from, to, goal, k)
    /\ c.db.version = from => Fits(SchemaAt(from, to, k), c.db.schema)
    /\ db.version = c.read => c.db.version = from
    /\ ~(from < to) => c.db.version <= db.version
    /\ Lost(c) => from = 1 /\ to = 0 /\ k = 4
Done(c) ==
    /\ c.todo = <<>>
    /\ Fits(SchemaOf(c.db.version), c.db.schema)
    /\ Lost(c) => c.db.version = 0 /\ db.version > 0
Creating(c) ==
    /\ db_auto_create
    /\ c.todo \in Seq(Creation)
    /\ SchemaOf(c.db.version) \subseteq c.db.schema
    /\ ~Lost(c)
Underway(c) ==
    Done(c) \/ Creating(c)
      \/ \E from, to, goal \in Revision, k \in 0 .. 4 : Way(c, from, to, goal, k)

Command ==
    [pc : {"idle", "planned"}, read : Revision, todo : Seq(Statement)]
      \cup [pc : {"inside"}, read : Revision, todo : Seq(Statement), db : Database]
Inside(r) == runner[r].pc = "inside"
TypeInv ==
    /\ db_auto_create \in BOOLEAN
    /\ db \in Database
    /\ runner \in [Runners -> Command]
MigrationInv ==
    /\ TypeInv
    /\ Fits(SchemaOf(db.version), db.schema)
    /\ \A r, s \in Runners : Inside(r) /\ Inside(s) => r = s
    /\ \A r \in Runners :
         runner[r].pc = "planned" => Starts(runner[r].todo, runner[r].read)
    /\ \A r \in Runners : Inside(r) => Underway(runner[r])

-----------------------------------------------------------------------------
(* Where a command is after its next statement.                            *)

LEMMA RestType ==
    ASSUME NEW from, NEW to, Leg(from, to), NEW goal \in Revision,
           ~(from < to) => goal <= to
    PROVE  Rest(from, to, goal) \in Seq(Statement)
<1>1. to \in Revision /\ to \in Nat /\ goal \in Nat
  BY DEF Leg, Revision
<1>2. CASE from < to
  BY <1>1, <1>2, UpgradingUnfolds DEF Rest
<1>3. CASE ~(from < to)
  <2>1. goal \in 0 .. to
    BY <1>1, <1>3
  <2> QED
    BY <1>1, <1>3, <2>1, DowngradingUnfolds DEF Rest
<1> QED
  BY <1>2, <1>3

LEMMA NextStatement ==
    ASSUME NEW todo, NEW from, NEW to, NEW goal, NEW k,
           OnTheWay(todo, from, to, goal, k),
           NEW n \in Nat, n = Len(Objects(from, to))
    PROVE  /\ todo # <<>>
           /\ k < n =>
                /\ Head(todo) = Make(from, to, Objects(from, to)[k + 1])
                /\ OnTheWay(Tail(todo), from, to, goal, k + 1)
           /\ k = n =>
                Head(todo) = Stamp(from, to) /\ Tail(todo) = Rest(from, to, goal)
<1> DEFINE block == Block(from, to)
           rest == Rest(from, to, goal)
<1>1. /\ Leg(from, to) /\ k \in 0 .. n /\ todo = Left(block, k, rest)
  BY DEF OnTheWay
<1>9. goal \in Revision /\ (~(from < to) => goal <= to)
  BY DEF OnTheWay
<1>2. /\ block \in Seq(Statement) /\ Len(block) = n + 1
      /\ \A i \in 1 .. n : block[i] = Make(from, to, Objects(from, to)[i])
      /\ block[n + 1] = Stamp(from, to)
  BY <1>1, BlockFacts
<1>3. rest \in Seq(Statement)
  BY <1>1, <1>9, RestType
<1> HIDE DEF block, rest
<1>4. PICK m \in Nat : m = n + 1
  OBVIOUS
<1>5. k \in 0 .. m - 1 /\ m = Len(block)
  BY <1>1, <1>2, <1>4
<1>10. block \in Seq(Statement)
  BY <1>2
<1>11. /\ Left(block, k, rest) # <<>>
       /\ Head(Left(block, k, rest)) = block[k + 1]
       /\ Tail(Left(block, k, rest)) = Left(block, k + 1, rest)
       /\ Left(block, m, rest) = rest
  BY <1>3, <1>5, <1>10, LeftFacts
<1>6. /\ todo # <<>> /\ Head(todo) = block[k + 1]
      /\ Tail(todo) = Left(block, k + 1, rest)
      /\ Left(block, m, rest) = rest
  BY <1>1, <1>11
<1>7. ASSUME k < n
      PROVE  /\ Head(todo) = Make(from, to, Objects(from, to)[k + 1])
             /\ OnTheWay(Tail(todo), from, to, goal, k + 1)
  <2>1. k + 1 \in 1 .. n /\ k + 1 \in 0 .. n
    BY <1>1, <1>7
  <2>2. Head(todo) = Make(from, to, Objects(from, to)[k + 1])
    BY <1>2, <1>6, <2>1
  <2> QED
    BY <1>1, <1>6, <1>9, <2>1, <2>2 DEF OnTheWay, block, rest
<1>8. ASSUME k = n
      PROVE  Head(todo) = Stamp(from, to) /\ Tail(todo) = rest
  BY <1>2, <1>4, <1>6, <1>8
<1> QED
  BY <1>6, <1>7, <1>8 DEF rest

(* A plan begins with a leg, and after each leg the next one begins.       *)
LEMMA LegBegins ==
    ASSUME NEW from, NEW to, Leg(from, to), NEW goal \in Revision,
           ~(from < to) => goal <= to,
           NEW todo, todo = Block(from, to) \o Rest(from, to, goal)
    PROVE  OnTheWay(todo, from, to, goal, 0)
<1>1. PICK n \in Nat : n = Len(Objects(from, to))
  BY ObjectsType
<1>2. Block(from, to) \in Seq(Statement) /\ Len(Block(from, to)) = n + 1
  BY <1>1, BlockFacts
<1>3. Rest(from, to, goal) \in Seq(Statement)
  BY RestType
<1>4. PICK m \in Nat : m = n + 1
  BY <1>1
<1>5. 0 \in 0 .. m - 1 /\ 0 \in 0 .. n /\ m = Len(Block(from, to))
  BY <1>2, <1>4
<1> DEFINE block == Block(from, to)
           rest == Rest(from, to, goal)
<1>6. todo = block \o rest /\ block \in Seq(Statement) /\ rest \in Seq(Statement)
  BY <1>2, <1>3
<1>7. m = Len(block)
  BY <1>5
<1> HIDE DEF block, rest
<1>8. 0 \in 0 .. m - 1
  BY <1>5
<1>9. Left(block, 0, rest) = block \o rest
  BY <1>6, <1>7, <1>8, LeftFacts
<1> QED
  BY <1>1, <1>5, <1>6, <1>9 DEF OnTheWay, block, rest

LEMMA UpgradeStarts ==
    ASSUME NEW v \in Revision
    PROVE  \/ v = 3 /\ Upgrading(v) = <<>>
           \/ \E to \in Revision : v < to /\ OnTheWay(Upgrading(v), v, to, 0, 0)
<1>1. v = 0 \/ v = 1 \/ v = 2 \/ v = 3
  BY DEF Revision
<1>2. Leg(0, 1) /\ Leg(1, 2) /\ Leg(2, 3) /\ 0 \in Revision
  BY DEF Leg, Revision
<1> /\ Rest(0, 1, 0) = Upgrading(1) /\ Rest(1, 2, 0) = Upgrading(2)
    /\ Rest(2, 3, 0) = Upgrading(3)
  BY DEF Rest
<1> 0 < 1 /\ 1 < 2 /\ 2 < 3
  OBVIOUS
<1>3. OnTheWay(Upgrading(0), 0, 1, 0, 0)
  BY <1>2, LegBegins, UpgradingUnfolds
<1>4. OnTheWay(Upgrading(1), 1, 2, 0, 0)
  BY <1>2, LegBegins, UpgradingUnfolds
<1>5. OnTheWay(Upgrading(2), 2, 3, 0, 0)
  BY <1>2, LegBegins, UpgradingUnfolds
<1>6. 1 \in Revision /\ 2 \in Revision /\ 3 \in Revision
  BY DEF Revision
<1> QED
  BY <1>1, <1>3, <1>4, <1>5, <1>6, UpgradingIs

LEMMA DowngradeStarts ==
    ASSUME NEW v \in Revision, NEW goal \in 0 .. v
    PROVE  \/ v = goal /\ Downgrading(v, goal) = <<>>
           \/ \E to \in Revision :
                ~(v < to) /\ OnTheWay(Downgrading(v, goal), v, to, goal, 0)
<1>1. v \in 0 .. 3 /\ goal \in Revision
  BY DEF Revision
<1>2. Leg(1, 0) /\ Leg(2, 1) /\ Leg(3, 2)
  BY DEF Leg, Revision
<1>3. 0 \in Revision /\ 1 \in Revision /\ 2 \in Revision
  BY DEF Revision
<1>4. CASE v = goal
  BY <1>4, DowngradingIs
<1>5. CASE v = 1 /\ goal # 1
  <2>1. goal \in 0 .. 0 /\ goal <= 0
    BY <1>5
  <2>2. Downgrading(1, goal) = Block(1, 0) \o Rest(1, 0, goal)
    <3>1. Rest(1, 0, goal) = Downgrading(0, goal)
      BY DEF Rest
    <3> QED
      BY <2>1, <3>1, DowngradingUnfolds
  <2>3. OnTheWay(Downgrading(1, goal), 1, 0, goal, 0)
    BY <1>1, <1>2, <2>1, <2>2, LegBegins
  <2> QED
    BY <1>3, <1>5, <2>3
<1>6. CASE v = 2 /\ goal # 2
  <2>1. goal \in 0 .. 1 /\ goal <= 1
    BY <1>6
  <2>2. Downgrading(2, goal) = Block(2, 1) \o Rest(2, 1, goal)
    <3>1. Rest(2, 1, goal) = Downgrading(1, goal)
      BY DEF Rest
    <3> QED
      BY <2>1, <3>1, DowngradingUnfolds
  <2>3. OnTheWay(Downgrading(2, goal), 2, 1, goal, 0)
    BY <1>1, <1>2, <2>1, <2>2, LegBegins
  <2> QED
    BY <1>3, <1>6, <2>3
<1>7. CASE v = 3 /\ goal # 3
  <2>1. goal \in 0 .. 2 /\ goal <= 2
    BY <1>7
  <2>2. Downgrading(3, goal) = Block(3, 2) \o Rest(3, 2, goal)
    <3>1. Rest(3, 2, goal) = Downgrading(2, goal)
      BY DEF Rest
    <3> QED
      BY <2>1, <3>1, DowngradingUnfolds
  <2>3. OnTheWay(Downgrading(3, goal), 3, 2, goal, 0)
    BY <1>1, <1>2, <2>1, <2>2, LegBegins
  <2> QED
    BY <1>3, <1>7, <2>3
<1>8. CASE v = 0
  <2>1. goal = 0
    BY <1>8
  <2> QED
    BY <1>4, <1>8, <2>1
<1>9. v = 0 \/ v = 1 \/ v = 2 \/ v = 3
  BY <1>1
<1> QED
  BY <1>4, <1>5, <1>6, <1>7, <1>8, <1>9

LEMMA RestGoesOn ==
    ASSUME NEW from, NEW to, Leg(from, to), NEW goal \in Revision,
           ~(from < to) => goal <= to
    PROVE  \/ Rest(from, to, goal) = <<>>
           \/ \E further, aim \in Revision :
                /\ (from < to) <=> (to < further)
                /\ OnTheWay(Rest(from, to, goal), to, further, aim, 0)
<1>1. to \in Revision /\ to \in Nat /\ goal \in Nat
  BY DEF Leg, Revision
<1>2. CASE from < to
  <2>1. Rest(from, to, goal) = Upgrading(to)
    BY <1>2 DEF Rest
  <2>2. 0 \in Revision
    BY DEF Revision
  <2> QED
    BY <1>1, <1>2, <2>1, <2>2, UpgradeStarts
<1>3. CASE ~(from < to)
  <2>1. Rest(from, to, goal) = Downgrading(to, goal)
    BY <1>3 DEF Rest
  <2>2. goal \in 0 .. to
    BY <1>1, <1>3
  <2> QED
    BY <1>1, <1>3, <2>1, <2>2, DowngradeStarts
<1> QED
  BY <1>2, <1>3

-----------------------------------------------------------------------------
(* What a statement does to the database it runs on, and when it can run.  *)

LEMMA StatementsAre ==
    /\ \A o : Create(o).op = "create" /\ Create(o).object = o
    /\ \A o : Drop(o).op = "drop" /\ Drop(o).object = o
    /\ \A o, p : Create(o) # Drop(p)
    /\ \A o, p : Drop(o) = Drop(p) => o = p
    /\ \A from, to : /\ Stamp(from, to).op = "stamp"
                     /\ Stamp(from, to).from = from /\ Stamp(from, to).to = to
<1>1. \A o : Create(o).op = "create" /\ Create(o).object = o
  BY DEF Create
<1>2. \A o : Drop(o).op = "drop" /\ Drop(o).object = o
  BY DEF Drop
<1>3. \A from, to : /\ Stamp(from, to).op = "stamp"
                    /\ Stamp(from, to).from = from /\ Stamp(from, to).to = to
  BY DEF Stamp
<1>4. \A o, p : Create(o) # Drop(p)
  <2>1. SUFFICES ASSUME NEW o, NEW p, Create(o) = Drop(p) PROVE FALSE
    OBVIOUS
  <2> QED
    BY <1>1, <1>2, <2>1
<1>5. \A o, p : Drop(o) = Drop(p) => o = p
  <2>1. SUFFICES ASSUME NEW o, NEW p, Drop(o) = Drop(p) PROVE o = p
    OBVIOUS
  <2> QED
    BY <1>2, <2>1
<1> QED
  BY <1>1, <1>2, <1>3, <1>4, <1>5

(* A row comes and goes with the table of the cases and with nothing else. *)
LEMMA RowsStay ==
    ASSUME NEW rows \in [Cases -> Row], NEW statement
    PROVE  /\ RowsAfter(statement, rows) \in [Cases -> Row]
           /\ statement # Drop("exception_cases") =>
                \A x \in Cases :
                  (RowsAfter(statement, rows)[x] = "absent") <=> (rows[x] = "absent")
<1> DEFINE after(x) == IF rows[x] = "absent" THEN "absent"
                       ELSE CASE statement = Create(Column) -> "value"
                              [] statement = Drop(Column) -> "new"
                              [] statement = Drop("exception_cases") -> "absent"
                              [] OTHER -> rows[x]
<1>1. Create(Column) # Drop(Column) /\ Create(Column) # Drop("exception_cases")
      /\ Drop(Column) # Drop("exception_cases")
  <2>1. Column # "exception_cases"
    BY DEF Column
  <2> QED
    BY <2>1, StatementsAre
<1>2. ASSUME NEW x \in Cases
      PROVE  /\ after(x) \in Row
             /\ statement # Drop("exception_cases") =>
                  (after(x) = "absent" <=> rows[x] = "absent")
  <2>1. CASE rows[x] = "absent"
    <3>1. after(x) = "absent"
      BY <2>1, <1>1
    <3> QED
      BY <2>1, <3>1 DEF Row
  <2>2. CASE rows[x] # "absent" /\ statement = Create(Column)
    <3>1. after(x) = "value"
      BY <2>2, <1>1
    <3> QED
      BY <2>2, <3>1 DEF Row
  <2>3. CASE rows[x] # "absent" /\ statement = Drop(Column)
    <3>1. after(x) = "new"
      BY <2>3, <1>1
    <3> QED
      BY <2>3, <3>1 DEF Row
  <2>4. CASE rows[x] # "absent" /\ statement = Drop("exception_cases")
    <3>1. after(x) = "absent"
      BY <2>4, <1>1
    <3> QED
      BY <2>4, <3>1 DEF Row
  <2>5. CASE /\ rows[x] # "absent" /\ statement # Create(Column)
             /\ statement # Drop(Column) /\ statement # Drop("exception_cases")
    <3>1. after(x) = rows[x]
      BY <2>5
    <3> QED
      BY <2>5, <3>1
  <2> QED
    BY <2>1, <2>2, <2>3, <2>4, <2>5
<1>3. RowsAfter(statement, rows) = [x \in Cases |-> after(x)]
  BY DEF RowsAfter
<1> HIDE DEF after
<1> QED
  BY <1>2, <1>3

(* Two databases hold the same cases when the same rows are absent.        *)
SameCases(rows, others) ==
    \A x \in Cases : (rows[x] = "absent") <=> (others[x] = "absent")

LEMMA AfterCreate ==
    ASSUME NEW base \in Database, NEW o \in Object,
           NEW after, after = After(Create(o), base)
    PROVE  /\ after \in Database /\ after.schema = base.schema \cup {o}
           /\ after.version = base.version /\ SameCases(after.rows, base.rows)
<1> DEFINE rows == RowsAfter(Create(o), base.rows)
<1>1. base.schema \in SUBSET Object /\ base.version \in Revision
      /\ base.rows \in [Cases -> Row]
  BY DEF Database
<1>2. Create(o) # Drop("exception_cases")
  BY StatementsAre
<1>3. rows \in [Cases -> Row] /\ SameCases(rows, base.rows)
  BY <1>1, <1>2, RowsStay DEF SameCases
<1>4. Create(o).op = "create" /\ Create(o).object = o
  BY StatementsAre
<1>5. after = [base EXCEPT !.schema = @ \cup {Create(o).object},
                           !.rows = RowsAfter(Create(o), @)]
  BY <1>4 DEF After
<1>6. after = [base EXCEPT !.schema = base.schema \cup {o}, !.rows = rows]
  BY <1>4, <1>5
<1> HIDE DEF rows
<1>7. /\ after = [schema |-> base.schema \cup {o}, version |-> base.version,
                  rows |-> rows]
  BY <1>6 DEF Database
<1> QED
  BY <1>1, <1>3, <1>7 DEF Database

LEMMA AfterDrop ==
    ASSUME NEW base \in Database, NEW o \in Object,
           NEW after, after = After(Drop(o), base)
    PROVE  /\ after \in Database /\ after.schema = base.schema \ {o}
           /\ after.version = base.version
           /\ o # "exception_cases" => SameCases(after.rows, base.rows)
<1> DEFINE rows == RowsAfter(Drop(o), base.rows)
<1>1. base.schema \in SUBSET Object /\ base.version \in Revision
      /\ base.rows \in [Cases -> Row]
  BY DEF Database
<1>2. o # "exception_cases" => Drop(o) # Drop("exception_cases")
  BY StatementsAre
<1>3. rows \in [Cases -> Row]
      /\ (o # "exception_cases" => SameCases(rows, base.rows))
  BY <1>1, <1>2, RowsStay DEF SameCases
<1>4. Drop(o).op = "drop" /\ Drop(o).object = o
  BY StatementsAre
<1>5. after = [base EXCEPT !.schema = @ \ {Drop(o).object},
                           !.rows = RowsAfter(Drop(o), @)]
  BY <1>4 DEF After
<1>6. after = [base EXCEPT !.schema = base.schema \ {o}, !.rows = rows]
  BY <1>4, <1>5
<1> HIDE DEF rows
<1>7. /\ after = [schema |-> base.schema \ {o}, version |-> base.version,
                  rows |-> rows]
  BY <1>6 DEF Database
<1> QED
  BY <1>1, <1>3, <1>7 DEF Database

LEMMA AfterStamp ==
    ASSUME NEW base \in Database, NEW from \in Revision, NEW to \in Revision,
           NEW after, after = After(Stamp(from, to), base)
    PROVE  /\ after \in Database /\ after.schema = base.schema
           /\ after.version = to /\ SameCases(after.rows, base.rows)
<1>1. Stamp(from, to).op = "stamp" /\ Stamp(from, to).to = to
  BY StatementsAre
<1>2. after = [base EXCEPT !.version = Stamp(from, to).to]
  BY <1>1 DEF After
<1>3. after = [base EXCEPT !.version = to]
  BY <1>1, <1>2
<1>4. after = [schema |-> base.schema, version |-> to, rows |-> base.rows]
  BY <1>3 DEF Database
<1>5. base.schema \in SUBSET Object /\ base.rows \in [Cases -> Row]
  BY DEF Database
<1> QED
  BY <1>4, <1>5 DEF Database, SameCases

LEMMA PossibleIs ==
    ASSUME NEW base
    PROVE  /\ \A o : Possible(Create(o), base) <=>
                       o \notin base.schema /\ RefersTo(o) \subseteq base.schema
           /\ \A o : Possible(Drop(o), base) <=>
                       /\ o \in base.schema
                       /\ \A p \in base.schema : o \notin RefersTo(p)
           /\ \A from, to :
                Possible(Stamp(from, to), base) <=> base.version = from
<1>1. \A o : Possible(Create(o), base) <=>
               o \notin base.schema /\ RefersTo(o) \subseteq base.schema
  BY StatementsAre DEF Possible
<1>2. ASSUME NEW o
      PROVE  Possible(Drop(o), base) <=>
               /\ o \in base.schema
               /\ \A p \in base.schema : o \notin RefersTo(p)
  <2> DEFINE d == Drop(o)
  <2>1. d.op = "drop" /\ d.object = o
    BY StatementsAre
  <2> HIDE DEF d
  <2>2. Possible(d, base) <=> /\ d.object \in base.schema
                             /\ \A p \in base.schema : d.object \notin RefersTo(p)
    BY <2>1 DEF Possible
  <2> QED
    BY <2>1, <2>2 DEF d
<1>3. \A from, to : Possible(Stamp(from, to), base) <=> base.version = from
  BY StatementsAre DEF Possible
<1> QED
  BY <1>1, <1>2, <1>3

-----------------------------------------------------------------------------
(* A command inside its transaction executes its next statement.           *)

(* What it does to the command: c becomes d.                               *)
Advances(c, d) ==
    /\ c \in Command /\ d \in Command
    /\ c.pc = "inside" /\ d.pc = "inside" /\ d.read = c.read
    /\ c.todo # <<>> /\ d.todo = Tail(c.todo)
    /\ Possible(Head(c.todo), c.db)
    /\ d.db = After(Head(c.todo), c.db)

LEMMA InsideIs ==
    ASSUME NEW c \in Command, c.pc = "inside"
    PROVE  c.read \in Revision /\ c.todo \in Seq(Statement) /\ c.db \in Database
<1>1. c \in [pc : {"inside"}, read : Revision, todo : Seq(Statement), db : Database]
  BY DEF Command
<1> QED
  BY <1>1

LEMMA SameCasesLost ==
    ASSUME NEW c, NEW d, SameCases(d.db.rows, c.db.rows) PROVE Lost(d) <=> Lost(c)
BY DEF SameCases, Lost

LEMMA LegLength ==
    ASSUME NEW from, NEW to, Leg(from, to)
    PROVE  \E n \in Nat : n = Len(Objects(from, to)) /\ n \in 1 .. 4
<1> DEFINE l == Len(Objects(from, to))
<1>1. l \in 1 .. 4
  BY ObjectsType
<1> HIDE DEF l
<1>2. l \in Nat
  BY <1>1
<1> QED
  BY <1>1, <1>2 DEF l

LEMMA LegObject ==
    ASSUME NEW from, NEW to, Leg(from, to), NEW n \in Nat,
           n = Len(Objects(from, to)), NEW k \in 0 .. n - 1
    PROVE  Objects(from, to)[k + 1] \in Object
<1>1. k + 1 \in 1 .. n
  OBVIOUS
<1>2. Objects(from, to) \in Seq(Object)
  BY ObjectsType
<1> QED
  BY <1>1, <1>2

LEMMA CreatingAdvances ==
    ASSUME NEW c, NEW d, Advances(c, d), Creating(c) PROVE Creating(d)
<1>1. c.todo \in Seq(Creation) /\ c.todo # <<>>
  BY DEF Creating, Advances
<1>2. Head(c.todo) \in Creation /\ d.todo \in Seq(Creation)
  BY <1>1, HeadTailProperties DEF Advances
<1>3. PICK o \in Object : Head(c.todo) = Create(o)
  BY <1>2 DEF Creation
<1>4. c.db \in Database /\ d.db = After(Create(o), c.db)
  BY <1>3, InsideIs DEF Advances
<1>5. /\ d.db.schema = c.db.schema \cup {o} /\ d.db.version = c.db.version
      /\ SameCases(d.db.rows, c.db.rows)
  BY <1>4, AfterCreate
<1>6. Lost(d) <=> Lost(c)
  BY <1>5, SameCasesLost
<1> QED
  BY <1>2, <1>5, <1>6 DEF Creating

(* On a leg the next object is made or dropped, and the cases are lost     *)
(* only with the last one of the first revision.                           *)
LEMMA ObjectAdvances ==
    ASSUME NEW c, NEW d, Advances(c, d), NEW from, NEW to, NEW goal,
           NEW n \in Nat, n = Len(Objects(from, to)), NEW k \in 0 .. n - 1,
           Way(c, from, to, goal, k)
    PROVE  Way(d, from, to, goal, k + 1)
<1>1. /\ OnTheWay(c.todo, from, to, goal, k) /\ Leg(from, to)
  BY DEF Way, OnTheWay
<1> DEFINE o == Objects(from, to)[k + 1]
<1>2. o \in Object
  BY <1>1, LegObject
<1>3. k < n
  OBVIOUS
<1>4. /\ Head(c.todo) = Make(from, to, o)
      /\ OnTheWay(d.todo, from, to, goal, k + 1)
  BY <1>1, <1>3, NextStatement DEF Advances
<1>5. c.db \in Database /\ d.db = After(Make(from, to, o), c.db) /\ d.read = c.read
  BY <1>4, InsideIs DEF Advances
<1>6. PICK j \in Nat, next \in Nat : j = k /\ next = j + 1
  OBVIOUS
<1>7. SchemaAt(from, to, next) =
        IF from < to THEN SchemaAt(from, to, k) \cup {o} ELSE SchemaAt(from, to, k) \ {o}
  <2>1. o = Objects(from, to)[next]
    BY <1>6
  <2> HIDE DEF o
  <2>2. PICK before, after : before = SchemaAt(from, to, j)
                             /\ after = SchemaAt(from, to, next)
    OBVIOUS
  <2>3. (from < to => after = before \cup {o}) /\ (~(from < to) => after = before \ {o})
    <3>1. before = SchemaAt(from, to, j) /\ after = SchemaAt(from, to, next)
      BY <2>2
    <3>2. next = j + 1
      BY <1>6
    <3> QED
      BY <2>1, <3>1, <3>2, SchemaNext
  <2> QED
    BY <1>6, <2>2, <2>3
<1>8. from \in Nat /\ to \in Nat
  BY <1>1 DEF Leg, Revision
<1>9. from > to /\ o = "exception_cases" => from = 1 /\ to = 0 /\ k = 3
  BY <1>1, LegIsClear
<1>10. Lost(c) => from = 1 /\ to = 0 /\ n = 4 /\ k = 4
  <2>1. Lost(c) => from = 1 /\ to = 0 /\ k = 4
    BY DEF Way
  <2>2. from = 1 /\ to = 0 => n = 4
    BY LegObjects, DownIs
  <2> QED
    BY <2>1, <2>2
<1>11. ~Lost(c)
  BY <1>3, <1>10
<1>12. /\ c.db.version = from => Fits(SchemaAt(from, to, k), c.db.schema)
       /\ db.version = c.read => c.db.version = from
       /\ ~(from < to) => c.db.version <= db.version
  BY DEF Way
<1> HIDE DEF o
<1>13. CASE from < to
  <2>1. d.db = After(Create(o), c.db)
    BY <1>5, <1>13 DEF Make
  <2>2. /\ d.db.schema = c.db.schema \cup {o} /\ d.db.version = c.db.version
        /\ SameCases(d.db.rows, c.db.rows)
    BY <1>2, <1>5, <2>1, AfterCreate
  <2>3. ~Lost(d)
    BY <1>11, <2>2, SameCasesLost
  <2>4. c.db.version = from => Fits(SchemaAt(from, to, next), d.db.schema)
    BY <1>7, <1>12, <1>13, <2>2 DEF Fits
  <2> QED
    BY <1>4, <1>5, <1>6, <1>12, <1>13, <2>2, <2>3, <2>4 DEF Way
<1>14. CASE ~(from < to)
  <2>1. d.db = After(Drop(o), c.db)
    BY <1>5, <1>14 DEF Make
  <2>2. /\ d.db.schema = c.db.schema \ {o} /\ d.db.version = c.db.version
        /\ o # "exception_cases" => SameCases(d.db.rows, c.db.rows)
    BY <1>2, <1>5, <2>1, AfterDrop
  <2>3. Lost(d) => o = "exception_cases"
    BY <1>11, <2>2, SameCasesLost
  <2>4. from > to
    <3>1. from = to + 1 \/ to = from + 1
      BY <1>1 DEF Leg
    <3> QED
      BY <1>8, <1>14, <3>1
  <2>5. Lost(d) => from = 1 /\ to = 0 /\ k = 3
    BY <1>9, <2>3, <2>4
  <2>6. c.db.version = from => Fits(SchemaAt(from, to, next), d.db.schema)
    BY <1>7, <1>12, <1>14, <2>2 DEF Fits
  <2>7. k = 3 => next = 4
    BY <1>6
  <2> QED
    BY <1>4, <1>5, <1>6, <1>12, <1>14, <2>2, <2>5, <2>6, <2>7 DEF Way
<1> QED
  BY <1>13, <1>14

(* The stamp ends a leg: the command is done, or the next leg begins.      *)
LEMMA StampAdvances ==
    ASSUME TypeInv, NEW c, NEW d, Advances(c, d), NEW from, NEW to, NEW goal, NEW n,
           Way(c, from, to, goal, n), n \in Nat, n = Len(Objects(from, to))
    PROVE  \/ Done(d)
           \/ \E further, aim \in Revision : Way(d, to, further, aim, 0)
<1>1. /\ OnTheWay(c.todo, from, to, goal, n) /\ Leg(from, to)
      /\ goal \in Revision /\ (~(from < to) => goal <= to)
  BY DEF Way, OnTheWay
<1>2. Head(c.todo) = Stamp(from, to) /\ d.todo = Rest(from, to, goal)
  <2>1. PICK k : k = n
    OBVIOUS
  <2>2. OnTheWay(c.todo, from, to, goal, k)
    BY <1>1, <2>1
  <2>3. Head(c.todo) = Stamp(from, to) /\ Tail(c.todo) = Rest(from, to, goal)
    BY <2>1, <2>2, NextStatement
  <2> QED
    BY <2>3 DEF Advances
<1>3. /\ c.db \in Database /\ d.db = After(Stamp(from, to), c.db)
      /\ d.read = c.read /\ Possible(Stamp(from, to), c.db)
  BY <1>2, InsideIs DEF Advances
<1>4. c.db.version = from
  BY <1>3, PossibleIs
<1>5. from \in Revision /\ to \in Revision /\ from \in Nat /\ to \in Nat
      /\ (to = from + 1 \/ from = to + 1)
  BY <1>1 DEF Leg, Revision
<1>6. /\ d.db.schema = c.db.schema /\ d.db.version = to
      /\ SameCases(d.db.rows, c.db.rows)
  BY <1>3, <1>5, AfterStamp
<1>7. Fits(SchemaOf(to), d.db.schema)
  <2>1. Fits(SchemaAt(from, to, n), c.db.schema)
    BY <1>4 DEF Way
  <2>2. SchemaAt(from, to, n) = SchemaOf(to)
    BY <1>1, SchemaEnds
  <2> QED
    BY <1>6, <2>1, <2>2
<1>8. Lost(d) => from = 1 /\ to = 0
  BY <1>6, SameCasesLost DEF Way
<1>9. ~(from < to) => from <= db.version
  BY <1>4 DEF Way
<1>10. db.version \in Nat
  BY DEF TypeInv, Database, Revision
<1>11. CASE d.todo = <<>>
  <2>1. Lost(d) => d.db.version = 0 /\ db.version > 0
    BY <1>6, <1>8, <1>9, <1>10
  <2> QED
    BY <1>6, <1>7, <1>11, <2>1 DEF Done
<1>12. CASE d.todo # <<>>
  <2>1. PICK further \in Revision, aim \in Revision :
          /\ ((from < to) <=> (to < further))
          /\ OnTheWay(d.todo, to, further, aim, 0)
    BY <1>1, <1>2, <1>12, RestGoesOn
  <2>2. Fits(SchemaAt(to, further, 0), d.db.schema)
    BY <1>7, SchemaStarts
  <2>3. ~(to < further) => d.db.version <= db.version
    <3>1. from > to => to <= from
      BY <1>5
    <3>2. ~(from < to) => from > to
      BY <1>5
    <3> QED
      BY <1>5, <1>6, <1>9, <1>10, <2>1, <3>1, <3>2
  <2>4. ~Lost(d)
    <3>1. Leg(to, further)
      BY <2>1 DEF OnTheWay
    <3>2. further \in Nat /\ (further = to + 1 \/ to = further + 1)
      BY <3>1 DEF Leg, Revision
    <3>3. SUFFICES ASSUME from = 1, to = 0 PROVE FALSE
      BY <1>8
    <3>4. ~(0 < further)
      BY <2>1, <3>3
    <3>5. further = 0 + 1 \/ 0 = further + 1
      BY <3>2, <3>3
    <3> QED
      BY <3>2, <3>4, <3>5
  <2>5. Way(d, to, further, aim, 0)
    BY <1>6, <2>1, <2>2, <2>3, <2>4 DEF Way
  <2> QED
    BY <2>5
<1> QED
  BY <1>11, <1>12

LEMMA CommandAdvances ==
    ASSUME TypeInv, NEW c, NEW d, Advances(c, d), Underway(c) PROVE Underway(d)
<1>1. CASE Done(c)
  BY <1>1 DEF Done, Advances
<1>2. CASE Creating(c)
  BY <1>2, CreatingAdvances DEF Underway
<1>3. CASE \E from, to, goal \in Revision, k \in 0 .. 4 : Way(c, from, to, goal, k)
  <2>1. PICK from \in Revision, to \in Revision, goal \in Revision, k \in 0 .. 4 :
          Way(c, from, to, goal, k)
    BY <1>3
  <2>2. Leg(from, to) /\ k \in 0 .. Len(Objects(from, to))
    BY <2>1 DEF Way, OnTheWay
  <2>3. PICK n \in Nat : n = Len(Objects(from, to)) /\ n \in 1 .. 4
    BY <2>2, LegLength
  <2>4. CASE k = n
    <3>1. Done(d) \/ \E further, aim \in Revision : Way(d, to, further, aim, 0)
      BY <2>1, <2>3, <2>4, StampAdvances
    <3>2. 0 \in 0 .. 4
      OBVIOUS
    <3> QED
      BY <3>1, <3>2 DEF Underway
  <2>5. CASE k # n
    <3>1. k \in 0 .. n - 1 /\ k + 1 \in 0 .. 4
      BY <2>2, <2>3, <2>5
    <3>2. Way(d, from, to, goal, k + 1)
      BY <2>1, <2>3, <3>1, ObjectAdvances
    <3> QED
      BY <3>1, <3>2 DEF Underway
  <2> QED
    BY <2>4, <2>5
<1> QED
  BY <1>1, <1>2, <1>3 DEF Underway

-----------------------------------------------------------------------------
(* The invariant is kept. A step of a runner that leaves the database as   *)
(* it is gives that runner a command c; the other runners keep theirs.     *)

LEMMA StatementsOfCreation == Seq(Creation) \subseteq Seq(Statement)
<1>1. Creation \subseteq Statement
  BY StatementTypes DEF Creation
<1> QED
  BY <1>1

LEMMA CommandTypes ==
    /\ Idle \in Command /\ Idle.pc = "idle"
    /\ \A v \in Revision, s \in Seq(Statement) :
         [pc |-> "planned", read |-> v, todo |-> s] \in Command
    /\ \A v \in Revision, s \in Seq(Statement), base \in Database :
         [pc |-> "inside", read |-> v, todo |-> s, db |-> base] \in Command
<1>1. Idle \in Command /\ Idle.pc = "idle"
  <2>1. 0 \in Revision /\ <<>> \in Seq(Statement)
    BY EmptySeq DEF Revision
  <2>2. Idle \in [pc : {"idle", "planned"}, read : Revision, todo : Seq(Statement)]
    BY <2>1 DEF Idle
  <2> QED
    BY <2>2 DEF Command, Idle
<1>2. \A v \in Revision, s \in Seq(Statement) :
        [pc |-> "planned", read |-> v, todo |-> s]
          \in [pc : {"idle", "planned"}, read : Revision, todo : Seq(Statement)]
  OBVIOUS
<1>3. \A v \in Revision, s \in Seq(Statement), base \in Database :
        [pc |-> "inside", read |-> v, todo |-> s, db |-> base]
          \in [pc : {"inside"}, read : Revision, todo : Seq(Statement), db : Database]
  OBVIOUS
<1> QED
  BY <1>1, <1>2, <1>3 DEF Command

LEMMA CommandChanges ==
    ASSUME MigrationInv, UNCHANGED <<db_auto_create, db>>,
           NEW r \in Runners, NEW c \in Command,
           runner' = [runner EXCEPT ![r] = c],
           c.pc = "planned" => Starts(c.todo, c.read),
           c.pc = "inside" => /\ Underway(c)
                              /\ \A s \in Runners : Inside(s) => s = r
    PROVE  MigrationInv'
<1>1. TypeInv'
  BY DEF MigrationInv, TypeInv
<1>2. runner'[r] = c /\ \A s \in Runners : s # r => runner'[s] = runner[s]
  BY DEF MigrationInv, TypeInv
<1>3. Fits(SchemaOf(db.version), db.schema)'
  BY DEF MigrationInv, Fits, SchemaOf, Up, Phase4Baseline, Phase5Alignment,
     Phase7Evidence
<1>4. ASSUME NEW s \in Runners, NEW t \in Runners, Inside(s)', Inside(t)' PROVE s = t
  <2>1. (s # r => Inside(s)) /\ (t # r => Inside(t))
    BY <1>2, <1>4 DEF Inside
  <2>2. s = r => c.pc = "inside"
    BY <1>2, <1>4 DEF Inside
  <2>3. t = r => c.pc = "inside"
    BY <1>2, <1>4 DEF Inside
  <2> QED
    BY <2>1, <2>2, <2>3 DEF MigrationInv
<1>5. \A todo, read : Starts(todo, read)' <=> Starts(todo, read)
  BY DEF Starts
<1>6. \A x : Underway(x)' <=> Underway(x)
  BY DEF Underway, Done, Creating, Way, Fits, Lost
<1>7. ASSUME NEW s \in Runners, runner'[s].pc = "planned"
      PROVE  Starts(runner[s].todo, runner[s].read)'
  <2>1. CASE s = r
    BY <1>2, <1>5, <1>7, <2>1
  <2>2. CASE s # r
    BY <1>2, <1>5, <1>7, <2>2 DEF MigrationInv
  <2> QED
    BY <2>1, <2>2
<1>8. ASSUME NEW s \in Runners, Inside(s)' PROVE Underway(runner[s])'
  <2>1. CASE s = r
    BY <1>2, <1>6, <1>8, <2>1 DEF Inside
  <2>2. CASE s # r
    BY <1>2, <1>6, <1>8, <2>2 DEF MigrationInv, Inside
  <2> QED
    BY <2>1, <2>2
<1> QED
  BY <1>1, <1>3, <1>4, <1>7, <1>8 DEF MigrationInv

LEMMA PlanKeeps ==
    ASSUME MigrationInv, NEW r \in Runners, NEW statements \in Seq(Statement),
           Plan(r, statements), Starts(statements, db.version),
           UNCHANGED db_auto_create
    PROVE  MigrationInv'
<1> DEFINE c == [pc |-> "planned", read |-> db.version, todo |-> statements]
<1>1. db.version \in Revision
  BY DEF MigrationInv, TypeInv, Database
<1>2. c \in Command /\ c.pc = "planned" /\ c.todo = statements /\ c.read = db.version
  BY <1>1, CommandTypes
<1>3. runner' = [runner EXCEPT ![r] = c] /\ UNCHANGED db
  BY DEF Plan
<1> HIDE DEF c
<1> QED
  BY <1>2, <1>3, CommandChanges

LEMMA UpgradeHeadKeeps ==
    ASSUME MigrationInv, NEW r \in Runners, UpgradeHead(r), UNCHANGED db_auto_create
    PROVE  MigrationInv'
<1>1. db.version \in Revision /\ 0 \in Revision
  BY DEF MigrationInv, TypeInv, Database, Revision
<1>2. Plan(r, Upgrading(db.version)) /\ Upgrading(db.version) # <<>>
  BY DEF UpgradeHead, Plan
<1>3. Starts(Upgrading(db.version), db.version)
  BY <1>1, <1>2, UpgradeStarts DEF Starts
<1> QED
  BY <1>1, <1>2, <1>3, UpgradingUnfolds, PlanKeeps

LEMMA DowngradeKeeps ==
    ASSUME MigrationInv, NEW r \in Runners, Downgrade(r), UNCHANGED db_auto_create
    PROVE  MigrationInv'
<1>1. db.version \in Revision /\ db.version \in Nat /\ db.version \in 0 .. 3
  BY DEF MigrationInv, TypeInv, Database, Revision
<1>2. PICK to \in 0 .. db.version : Plan(r, Downgrading(db.version, to))
  BY DEF Downgrade
<1>3. to \in Revision
  BY <1>1 DEF Revision
<1>4. Downgrading(db.version, to) # <<>>
  BY <1>2 DEF Plan
<1>5. Starts(Downgrading(db.version, to), db.version)
  BY <1>1, <1>3, <1>4, DowngradeStarts DEF Starts
<1>6. Downgrading(db.version, to) \in Seq(Statement)
  BY <1>1, DowngradingUnfolds
<1> QED
  BY <1>2, <1>5, <1>6, PlanKeeps

(* What create_all finds missing it creates.                               *)
LEMMA MissingType == ASSUME NEW schema PROVE Missing(schema) \in Seq(Creation)
<1> DEFINE part(o) == IF o \in schema THEN <<>> ELSE <<Create(o)>>
           parts == [i \in DOMAIN Models |-> part(Models[i])]
<1>1. ASSUME NEW o \in Object PROVE part(o) \in Seq(Creation)
  <2>1. Create(o) \in Creation
    BY DEF Creation
  <2>2. <<>> \in Seq(Creation)
    BY EmptySeq
  <2> QED
    BY <2>1, <2>2
<1>2. Column \in Object /\ \A i \in 1 .. 6 : Models[i] \in Object
  <2>1. Object = Baseline \cup Alignment \cup Evidence
    BY Schemas
  <2> QED
    BY <2>1 DEF Models, Baseline, Alignment, Evidence
<1>3. DOMAIN Models = 1 .. 6
  BY DEF Models
<1>4. parts \in Seq(Seq(Creation)) /\ Len(parts) = 6
      /\ \A i \in 1 .. 6 : parts[i] \in Seq(Creation)
  BY <1>1, <1>2, <1>3
<1>5. FlattenSeq(parts) \in Seq(Creation)
  <2> HIDE DEF parts
  <2> QED
    BY <1>4, FlattenSix, JoinedType
<1>6. <<Create(Column)>> \in Seq(Creation) /\ <<>> \in Seq(Creation)
  <2>1. Create(Column) \in Creation
    BY <1>2 DEF Creation
  <2> QED
    BY <2>1, EmptySeq
<1>7. Missing(schema) = FlattenSeq(parts)
        \o (IF "exception_cases" \in schema THEN <<>> ELSE <<Create(Column)>>)
  BY DEF Missing
<1> HIDE DEF parts
<1> QED
  BY <1>5, <1>6, <1>7, ConcatProperties

LEMMA InitDbKeeps ==
    ASSUME MigrationInv, NEW r \in Runners, InitDb(r), UNCHANGED db_auto_create
    PROVE  MigrationInv'
<1>1. Missing(db.schema) \in Seq(Creation)
  BY MissingType
<1>2. db_auto_create /\ Plan(r, Missing(db.schema))
  BY DEF InitDb
<1>3. Starts(Missing(db.schema), db.version)
  BY <1>1, <1>2 DEF Starts
<1>4. Missing(db.schema) \in Seq(Statement)
  BY <1>1, StatementsOfCreation
<1> QED
  BY <1>2, <1>3, <1>4, PlanKeeps

LEMMA IdleKeeps ==
    ASSUME MigrationInv, NEW r \in Runners, runner' = [runner EXCEPT ![r] = Idle],
           UNCHANGED <<db_auto_create, db>>
    PROVE  MigrationInv'
BY CommandTypes, CommandChanges

(* The lock is got: the plan meets the database as it is now.              *)
LEMMA EnterKeeps ==
    ASSUME MigrationInv, NEW r \in Runners, Enter(r), UNCHANGED db_auto_create
    PROVE  MigrationInv'
<1> DEFINE old == runner[r]
           c == [pc |-> "inside", read |-> old.read, todo |-> old.todo, db |-> db]
<1>1. old \in Command /\ old.pc = "planned" /\ Starts(old.todo, old.read)
  BY DEF MigrationInv, TypeInv, Enter
<1>2. old.read \in Revision /\ old.todo \in Seq(Statement)
  <2> HIDE DEF old
  <2> QED
    BY <1>1 DEF Command
<1>3. db \in Database /\ db.version \in Revision /\ db.version <= db.version
  BY DEF MigrationInv, TypeInv, Database, Revision
<1>4. c \in Command
  BY <1>2, <1>3, CommandTypes
<1>5. runner' = [runner EXCEPT ![r] = c] /\ UNCHANGED db
  BY DEF Enter
<1>6. \A s \in Runners : Inside(s) => s = r
  BY DEF Enter, Locked, Inside
<1> HIDE DEF old
<1>7. /\ c.pc = "inside" /\ c.db = db /\ c.todo = old.todo /\ c.read = old.read
  OBVIOUS
<1> HIDE DEF c
<1>8. ~Lost(c)
  BY <1>7 DEF Lost
<1>9. Fits(SchemaOf(db.version), db.schema)
  BY DEF MigrationInv
<1>10. Underway(c)
  <2>1. CASE \E to, goal \in Revision : OnTheWay(old.todo, old.read, to, goal, 0)
    <3>1. PICK to \in Revision, goal \in Revision :
            OnTheWay(c.todo, c.read, to, goal, 0)
      BY <2>1, <1>7
    <3>2. c.db.version = c.read => Fits(SchemaAt(c.read, to, 0), c.db.schema)
      BY <1>7, <1>9, SchemaStarts
    <3>3. Way(c, c.read, to, goal, 0)
      BY <1>3, <1>7, <1>8, <3>1, <3>2 DEF Way
    <3>4. c.read \in Revision /\ 0 \in 0 .. 4
      BY <1>2, <1>7
    <3> QED
      BY <3>3, <3>4 DEF Underway
  <2>2. CASE db_auto_create /\ old.todo \in Seq(Creation)
    <3>1. Creating(c)
      BY <1>7, <1>8, <1>9, <2>2 DEF Creating, Fits
    <3> QED
      BY <3>1 DEF Underway
  <2> QED
    BY <1>1, <2>1, <2>2 DEF Starts
<1> QED
  BY <1>4, <1>5, <1>6, <1>7, <1>10, CommandChanges

LEMMA InsideType ==
    ASSUME MigrationInv, NEW r \in Runners, Inside(r)
    PROVE  /\ runner[r] \in Command /\ Underway(runner[r])
           /\ runner[r].read \in Revision /\ runner[r].todo \in Seq(Statement)
           /\ runner[r].db \in Database
<1>1. runner[r] \in Command /\ runner[r].pc = "inside"
  BY DEF MigrationInv, TypeInv, Inside
<1> QED
  BY <1>1, InsideIs DEF MigrationInv

LEMMA AfterType ==
    ASSUME NEW base \in Database, NEW statement \in Statement
    PROVE  After(statement, base) \in Database
<1>1. CASE statement \in [op : {"create", "drop"}, object : Object]
  <2>1. PICK o \in Object : o = statement.object
    BY <1>1
  <2>2. statement = Create(o) \/ statement = Drop(o)
    BY <1>1, <2>1 DEF Create, Drop
  <2> QED
    BY <2>2, AfterCreate, AfterDrop
<1>2. CASE statement \in [op : {"stamp"}, from : Revision, to : Revision]
  <2>1. PICK from \in Revision, to \in Revision :
          from = statement.from /\ to = statement.to
    BY <1>2
  <2>2. statement = Stamp(from, to)
    BY <1>2, <2>1 DEF Stamp
  <2> QED
    BY <2>2, AfterStamp
<1> QED
  BY <1>1, <1>2 DEF Statement

LEMMA RecordAdvances ==
    ASSUME NEW c \in Command, c.pc = "inside", NEW base, NEW rest
    PROVE  [c EXCEPT !.db = base, !.todo = rest]
             = [pc |-> c.pc, read |-> c.read, todo |-> rest, db |-> base]
<1>8. c \in [pc : {"inside"}, read : Revision, todo : Seq(Statement), db : Database]
  BY DEF Command
<1>1. PICK e : e = [c EXCEPT !.db = base]
  OBVIOUS
<1>2. e = [pc |-> c.pc, read |-> c.read, todo |-> c.todo, db |-> base]
  BY <1>1, <1>8
<1>4. [e EXCEPT !.todo = rest]
        = [pc |-> e.pc, read |-> e.read, todo |-> rest, db |-> e.db]
  BY <1>2
<1>5. [c EXCEPT !.db = base, !.todo = rest]
        = [[c EXCEPT !.db = base] EXCEPT !.todo = rest]
  OBVIOUS
<1>6. [c EXCEPT !.db = base, !.todo = rest] = [e EXCEPT !.todo = rest]
  BY <1>1, <1>5
<1>7. e.pc = c.pc /\ e.read = c.read /\ e.db = base
  BY <1>2
<1> QED
  BY <1>4, <1>6, <1>7

LEMMA ExecuteKeeps ==
    ASSUME MigrationInv, NEW r \in Runners, Execute(r), UNCHANGED db_auto_create
    PROVE  MigrationInv'
<1> DEFINE c == runner[r]
           d == [pc |-> "inside", read |-> c.read, todo |-> Tail(c.todo),
                 db |-> After(Head(c.todo), c.db)]
<1>1. Inside(r) /\ c.todo # <<>> /\ Possible(Head(c.todo), c.db)
  BY DEF Execute, Inside
<1>2. /\ c \in Command /\ c.pc = "inside" /\ Underway(c)
      /\ c.read \in Revision /\ c.todo \in Seq(Statement) /\ c.db \in Database
  BY <1>1, InsideType DEF Inside
<1>3. Head(c.todo) \in Statement /\ Tail(c.todo) \in Seq(Statement)
  BY <1>1, <1>2, HeadTailProperties
<1>4. d \in Command
  BY <1>2, <1>3, AfterType, CommandTypes
<1>5. runner' = [runner EXCEPT ![r] = d] /\ UNCHANGED db
  <2>1. runner' = [runner EXCEPT ![r].db = After(Head(c.todo), @), ![r].todo = Tail(@)]
    BY DEF Execute
  <2>2. runner \in [Runners -> Command]
    BY DEF MigrationInv, TypeInv
  <2>3. c \in [pc : {"inside"}, read : Revision, todo : Seq(Statement), db : Database]
    BY <1>2 DEF Command
  <2>4. [c EXCEPT !.db = After(Head(c.todo), c.db), !.todo = Tail(c.todo)] = d
    <3> DEFINE base == After(Head(c.todo), c.db)
               rest == Tail(c.todo)
    <3>2. base \in Database /\ rest \in Seq(Statement) /\ c.pc = "inside"
      BY <1>2, <1>3, AfterType
    <3> HIDE DEF c, base, rest
    <3>1. [c EXCEPT !.db = base, !.todo = rest]
            = [pc |-> c.pc, read |-> c.read, todo |-> rest, db |-> base]
      BY <1>2, <3>2, RecordAdvances
    <3> QED
      BY <3>1, <3>2 DEF base, rest
  <2>5. runner' = [runner EXCEPT ![r] = [c EXCEPT !.db = After(Head(c.todo), c.db),
                                                  !.todo = Tail(c.todo)]]
    BY <2>1, <2>2
  <2> QED
    BY <2>4, <2>5 DEF Execute
<1>6. \A s \in Runners : Inside(s) => s = r
  BY <1>1 DEF MigrationInv
<1> HIDE DEF c
<1>7. /\ d.pc = "inside" /\ d.read = c.read /\ d.todo = Tail(c.todo)
      /\ d.db = After(Head(c.todo), c.db)
  OBVIOUS
<1> HIDE DEF d
<1>8. Advances(c, d)
  BY <1>1, <1>2, <1>4, <1>7 DEF Advances
<1>9. Underway(d)
  BY <1>2, <1>8, CommandAdvances DEF MigrationInv
<1> QED
  BY <1>4, <1>5, <1>6, <1>7, <1>9, CommandChanges

(* A command with nothing left to do is done, or was create_all.           *)
LEMMA NothingLeft ==
    ASSUME NEW c, Underway(c), c.todo = <<>> PROVE Done(c) \/ Creating(c)
<1>1. ASSUME NEW from, NEW to, NEW goal, NEW k, Way(c, from, to, goal, k)
      PROVE  FALSE
  <2>1. OnTheWay(c.todo, from, to, goal, k) /\ Leg(from, to)
    BY <1>1 DEF Way, OnTheWay
  <2>2. PICK n \in Nat : n = Len(Objects(from, to))
    BY <2>1, LegLength
  <2> QED
    BY <2>1, <2>2, NextStatement
<1> QED
  BY <1>1 DEF Underway

LEMMA CommitAllKeeps ==
    ASSUME MigrationInv, NEW r \in Runners, CommitAll(r), UNCHANGED db_auto_create
    PROVE  MigrationInv'
<1> DEFINE c == runner[r]
<1>1. Inside(r) /\ c.todo = <<>> /\ db' = c.db
  BY DEF CommitAll, Inside
<1>2. Underway(c) /\ c.db \in Database
  BY <1>1, InsideType
<1>3. Done(c) \/ Creating(c)
  BY <1>1, <1>2, NothingLeft
<1>4. Fits(SchemaOf(c.db.version), c.db.schema)
  BY <1>3 DEF Done, Creating, Fits
<1>5. Fits(SchemaOf(db.version), db.schema)'
  BY <1>1, <1>4 DEF Fits, SchemaOf, Up, Phase4Baseline, Phase5Alignment,
     Phase7Evidence
<1>6. /\ runner' = [runner EXCEPT ![r] = Idle]
      /\ runner \in [Runners -> Command]
  BY DEF CommitAll, MigrationInv, TypeInv
<1>7. TypeInv'
  BY <1>1, <1>2, <1>6, CommandTypes DEF MigrationInv, TypeInv
<1>8. runner'[r] = Idle /\ \A s \in Runners : s # r => runner'[s] = runner[s]
  BY <1>6
<1>9. \A s \in Runners : ~Inside(s)'
  BY <1>1, <1>8, CommandTypes DEF Inside, MigrationInv
<1>10. ASSUME NEW s \in Runners, runner'[s].pc = "planned"
       PROVE  Starts(runner[s].todo, runner[s].read)'
  <2>1. s # r
    BY <1>8, <1>10, CommandTypes
  <2>2. Starts(runner[s].todo, runner[s].read)
    BY <1>8, <1>10, <2>1 DEF MigrationInv
  <2> QED
    BY <1>8, <2>1, <2>2 DEF Starts
<1> QED
  BY <1>5, <1>7, <1>9, <1>10 DEF MigrationInv

(* A case is stored while no command is inside.                            *)
LEMMA InsertKeeps ==
    ASSUME MigrationInv, NEW x \in Cases, NEW row \in Row, ~Locked,
           db' = [db EXCEPT !.rows[x] = row], UNCHANGED <<db_auto_create, runner>>
    PROVE  MigrationInv'
<1>1. db \in Database
  BY DEF MigrationInv, TypeInv
<1>2. db \in [schema : SUBSET Object, version : Revision, rows : [Cases -> Row]]
  BY <1>1 DEF Database
<1>3. /\ db' \in Database /\ db'.schema = db.schema /\ db'.version = db.version
  BY <1>2 DEF Database
<1>4. TypeInv'
  BY <1>3 DEF MigrationInv, TypeInv
<1>5. Fits(SchemaOf(db.version), db.schema)'
  BY <1>3 DEF MigrationInv, Fits, SchemaOf, Up, Phase4Baseline, Phase5Alignment,
     Phase7Evidence
<1>6. \A s \in Runners : ~Inside(s)'
  BY DEF Locked, Inside
<1>7. \A todo, read : Starts(todo, read) => Starts(todo, read)'
  BY DEF Starts
<1>8. ASSUME NEW s \in Runners, runner'[s].pc = "planned"
      PROVE  Starts(runner[s].todo, runner[s].read)'
  BY <1>7, <1>8 DEF MigrationInv
<1> QED
  BY <1>4, <1>5, <1>6, <1>8 DEF MigrationInv

-----------------------------------------------------------------------------
LEMMA InitMigrations == Init => MigrationInv
<1>1. SUFFICES ASSUME Init PROVE MigrationInv
  OBVIOUS
<1>2. 0 \in Revision /\ {} \in SUBSET Object
      /\ [x \in Cases |-> "absent"] \in [Cases -> Row]
  BY DEF Revision, Row
<1>3. db \in Database /\ db.schema = {} /\ db.version = 0
  BY <1>1, <1>2 DEF Init, Database
<1>4. /\ TypeInv
      /\ \A r \in Runners : runner[r].pc = "idle"
  BY <1>1, <1>3, CommandTypes DEF Init, TypeInv
<1>5. Fits(SchemaOf(db.version), db.schema)
  BY <1>3, Schemas DEF Fits
<1> QED
  BY <1>4, <1>5 DEF MigrationInv, Inside

LEMMA NextMigrations == MigrationInv /\ [Next]_vars => MigrationInv'
<1> SUFFICES ASSUME MigrationInv, [Next]_vars PROVE MigrationInv'
  OBVIOUS
<1>1. CASE UNCHANGED vars
  <2>1. UNCHANGED <<db_auto_create, db, runner>>
    BY <1>1 DEF vars
  <2>2. TypeInv'
    BY <2>1 DEF MigrationInv, TypeInv
  <2>3. Fits(SchemaOf(db.version), db.schema)'
    BY <2>1 DEF MigrationInv, Fits, SchemaOf, Up, Phase4Baseline, Phase5Alignment,
       Phase7Evidence
  <2>4. \A todo, read : Starts(todo, read) => Starts(todo, read)'
    BY <2>1 DEF Starts
  <2>5. \A x : Underway(x) => Underway(x)'
    BY <2>1 DEF Underway, Done, Creating, Way, Fits, Lost
  <2>6. \A r \in Runners :
          runner'[r].pc = "planned" => Starts(runner[r].todo, runner[r].read)'
    BY <2>1, <2>4 DEF MigrationInv
  <2>7. \A r \in Runners : Inside(r)' => Underway(runner[r])'
    BY <2>1, <2>5 DEF MigrationInv, Inside
  <2>8. \A r, s \in Runners : Inside(r)' /\ Inside(s)' => r = s
    BY <2>1 DEF MigrationInv, Inside
  <2> QED
    BY <2>2, <2>3, <2>6, <2>7, <2>8 DEF MigrationInv
<1>2. ASSUME NEW r \in Runners, UpgradeHead(r), UNCHANGED db_auto_create
      PROVE  MigrationInv'
  BY <1>2, UpgradeHeadKeeps
<1>3. ASSUME NEW r \in Runners, Downgrade(r), UNCHANGED db_auto_create
      PROVE  MigrationInv'
  BY <1>3, DowngradeKeeps
<1>4. ASSUME NEW r \in Runners, InitDb(r), UNCHANGED db_auto_create
      PROVE  MigrationInv'
  BY <1>4, InitDbKeeps
<1>5. ASSUME NEW r \in Runners, Enter(r), UNCHANGED db_auto_create
      PROVE  MigrationInv'
  BY <1>5, EnterKeeps
<1>6. ASSUME NEW r \in Runners, Execute(r), UNCHANGED db_auto_create
      PROVE  MigrationInv'
  BY <1>6, ExecuteKeeps
<1>7. ASSUME NEW r \in Runners, CommitAll(r), UNCHANGED db_auto_create
      PROVE  MigrationInv'
  BY <1>7, CommitAllKeeps
<1>8. ASSUME NEW r \in Runners, Raise(r) \/ Crash(r), UNCHANGED db_auto_create
      PROVE  MigrationInv'
  BY <1>8, IdleKeeps DEF Raise, Crash
<1>9. ASSUME NEW x \in Cases, InsertCase(x), UNCHANGED db_auto_create
      PROVE  MigrationInv'
  <2>1. "name" \in Row
    BY DEF Row
  <2> QED
    BY <1>9, <2>1, InsertKeeps DEF InsertCase
<1>10. ASSUME NEW x \in Cases, InsertByPhase4(x), UNCHANGED db_auto_create
       PROVE  MigrationInv'
  <2>1. "new" \in Row
    BY DEF Row
  <2> QED
    BY <1>10, <2>1, InsertKeeps DEF InsertByPhase4
<1> QED
  BY <1>1, <1>2, <1>3, <1>4, <1>5, <1>6, <1>7, <1>8, <1>9, <1>10 DEF Next

LEMMA MigrationsKeep == Spec => []MigrationInv
  BY InitMigrations, NextMigrations, PTL DEF Spec

(* Every state of the database and of the commands is of its type: what a  *)
(* command holds is a list of statements of the revisions or of create_all.*)
THEOREM MigrationsAreTyped == Spec => []MigrationsTypeOK
<1>1. MigrationInv => MigrationsTypeOK
  <2>1. SUFFICES ASSUME MigrationInv PROVE MigrationsTypeOK
    OBVIOUS
  <2>2. ASSUME NEW c \in Command
        PROVE  /\ c.pc \in {"idle", "planned", "inside"}
               /\ c.todo \in Seq(Statement)
               /\ c.pc = "inside" => c.db \in Database
    <3>1. CASE c \in [pc : {"idle", "planned"}, read : Revision, todo : Seq(Statement)]
      BY <3>1
    <3>2. CASE c \in [pc : {"inside"}, read : Revision, todo : Seq(Statement),
                      db : Database]
      BY <3>2
    <3> QED
      BY <3>1, <3>2 DEF Command
  <2> QED
    BY <2>1, <2>2 DEF MigrationInv, TypeInv, MigrationsTypeOK
<1> QED
  BY <1>1, MigrationsKeep, PTL

LEMMA ModelsAre == ToSet(Models) \cup {Column} = SchemaOf(3)
<1>1. ToSet(Models) = {"exception_cases", "audit_events", "ai_records",
                       "approval_decisions", "evidence_records", "execution_records"}
  BY DEF ToSet, Models
<1> QED
  BY <1>1, Schemas DEF Baseline, Alignment, Evidence

(* Without create_all the committed schema is the one that the committed   *)
(* revision stands for, however many commands run at once, are interrupted *)
(* or raise; at the last revision it is what models.py maps.               *)
THEOREM SchemaIsItsRevision == Spec => []SchemaMatchesRevision
<1>1. MigrationInv => SchemaMatchesRevision
  BY ModelsAre DEF MigrationInv, Fits, SchemaMatchesRevision
<1> QED
  BY <1>1, MigrationsKeep, PTL

(* With create_all too, the tables of the committed revision are there.    *)
THEOREM RevisionIsThere == Spec => []AtLeastItsRevision
<1>1. MigrationInv => AtLeastItsRevision
  BY DEF MigrationInv, Fits, AtLeastItsRevision
<1> QED
  BY <1>1, MigrationsKeep, PTL

(* The next statement of a leg is possible on the schema the leg expects.  *)
LEMMA NothingInTheWay ==
    ASSUME NEW todo, NEW base, NEW from, NEW to, NEW goal,
           NEW n \in Nat, n = Len(Objects(from, to)), NEW k \in 0 .. n,
           OnTheWay(todo, from, to, goal, k),
           base.schema = SchemaAt(from, to, k), base.version = from
    PROVE  Possible(Head(todo), base)
<1>1. Leg(from, to) /\ OnTheWay(todo, from, to, goal, k)
  BY DEF OnTheWay
<1>2. CASE k = n
  <2>1. Head(todo) = Stamp(from, to)
    BY <1>1, <1>2, NextStatement
  <2> QED
    BY <2>1, PossibleIs
<1>3. CASE k # n
  <2>1. k \in 0 .. n - 1 /\ k < n
    BY <1>3
  <2> DEFINE o == Objects(from, to)[k + 1]
  <2>2. Head(todo) = Make(from, to, o)
    BY <1>1, <2>1, NextStatement
  <2>3. Clear(from, to, k, o)
    BY <1>1, <2>1, LegIsClear
  <2> HIDE DEF o
  <2>4. CASE from < to
    BY <2>2, <2>3, <2>4, PossibleIs DEF Clear, Make
  <2>5. CASE ~(from < to)
    <3>1. o \in base.schema /\ \A p \in base.schema : o \notin RefersTo(p)
      BY <2>3, <2>5 DEF Clear
    <3>2. Head(todo) = Drop(o)
      BY <2>2, <2>5 DEF Make
    <3> QED
      BY <3>1, <3>2, PossibleIs
  <2> QED
    BY <2>4, <2>5
<1> QED
  BY <1>2, <1>3

(* Without create_all a command raises only if another one has committed   *)
(* since it read the revision: no revision is in its own way, up or down.  *)
THEOREM RaisesWhenOvertaken == Spec => RaisesOnlyWhenOvertaken
<1>1. MigrationInv =>
        \A r \in Runners :
          Raise(r) /\ ~db_auto_create => db.version # runner[r].read
  <2>1. SUFFICES ASSUME MigrationInv, NEW r \in Runners, Raise(r), ~db_auto_create,
                        db.version = runner[r].read
                 PROVE  FALSE
    OBVIOUS
  <2> DEFINE c == runner[r]
  <2>2. c.todo # <<>> /\ ~Possible(Head(c.todo), c.db) /\ Inside(r)
    BY <2>1 DEF Raise, Inside
  <2>3. Underway(c)
    BY <2>1, <2>2, InsideType
  <2>4. PICK from \in Revision, to \in Revision, goal \in Revision, k \in 0 .. 4 :
          Way(c, from, to, goal, k)
    BY <2>1, <2>2, <2>3 DEF Underway, Done, Creating
  <2>5. c.db.version = from /\ OnTheWay(c.todo, from, to, goal, k)
    BY <2>1, <2>4 DEF Way
  <2>6. c.db.schema = SchemaAt(from, to, k)
    BY <2>1, <2>4, <2>5 DEF Way, Fits
  <2>7. Leg(from, to) /\ k \in 0 .. Len(Objects(from, to))
    BY <2>5 DEF OnTheWay
  <2>8. PICK n \in Nat : n = Len(Objects(from, to))
    BY <2>7, LegLength
  <2> HIDE DEF c
  <2> QED
    BY <2>2, <2>5, <2>6, <2>7, <2>8, NothingInTheWay
<1>2. MigrationInv =>
        [\A r \in Runners :
           Raise(r) /\ ~db_auto_create => db.version # runner[r].read]_vars
  BY <1>1
<1> QED
  BY <1>2, MigrationsKeep, PTL DEF RaisesOnlyWhenOvertaken

(* No command loses a stored case except the downgrade that goes all the   *)
(* way to the empty database.                                              *)
THEOREM CasesAreKept == Spec => CasesSurvive
<1> DEFINE Kept == \A c \in Cases :
                     db.rows[c] # "absent" /\ db'.rows[c] = "absent"
                       => db.version > 0 /\ db'.version = 0
<1>1. MigrationInv /\ [Next]_vars => Kept
  <2>1. SUFFICES ASSUME MigrationInv, [Next]_vars, NEW c \in Cases,
                        db.rows[c] # "absent", db'.rows[c] = "absent"
                 PROVE  db.version > 0 /\ db'.version = 0
    OBVIOUS
  <2>2. CASE UNCHANGED db
    BY <2>1, <2>2
  <2>3. ASSUME NEW r \in Runners, CommitAll(r) PROVE db.version > 0 /\ db'.version = 0
    <3>1. Inside(r) /\ runner[r].todo = <<>> /\ db' = runner[r].db
      BY <2>3 DEF CommitAll, Inside
    <3>2. Lost(runner[r])
      BY <2>1, <3>1 DEF Lost
    <3>3. Underway(runner[r])
      BY <2>1, <3>1, InsideType
    <3> QED
      BY <3>1, <3>2, <3>3, NothingLeft DEF Done, Creating
  <2>4. ASSUME NEW x \in Cases, NEW row, row # "absent", db' = [db EXCEPT !.rows[x] = row]
        PROVE  FALSE
    <3>1. db \in Database
      BY <2>1 DEF MigrationInv, TypeInv
    <3>2. db'.rows = [db.rows EXCEPT ![x] = row] /\ db.rows \in [Cases -> Row]
      BY <2>4, <3>1 DEF Database
    <3> QED
      BY <2>1, <2>4, <3>2
  <2>5. \A x \in Cases : ~InsertCase(x) /\ ~InsertByPhase4(x)
    BY <2>4 DEF InsertCase, InsertByPhase4
  <2>6. \/ UNCHANGED db
        \/ \E r \in Runners : CommitAll(r)
        \/ \E x \in Cases : InsertCase(x) \/ InsertByPhase4(x)
    BY <2>1 DEF Next, vars, UpgradeHead, Downgrade, InitDb, Plan, Enter, Execute, Raise,
       Crash
  <2> QED
    BY <2>2, <2>3, <2>5, <2>6
<1>2. MigrationInv /\ [Next]_vars => [Kept]_vars
  BY <1>1
<1> QED
  BY <1>2, MigrationsKeep, PTL DEF Spec, CasesSurvive
=============================================================================
