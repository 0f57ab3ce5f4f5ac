------------------------- MODULE SensorStackProofs -------------------------
(***************************************************************************)
(* The stacks of steps that the communicator's two threads have left, of    *)
(* any size.  Nothing is said of the shape of a whole stack: a sound one    *)
(* relates each step only to the two behind it and to those that may come   *)
(* later, and every call, return and exception keeps it sound.             *)
(***************************************************************************)
EXTENDS SensorLink, FiniteSetTheorems, FunctionTheorems, SequenceTheorems, TLAPS

(* Steps of a transfer, which is tried only after the test of the handle. *)
Transfers == DeviceWait

Fetching == {"handleIncomingMessages", "handleIncomingRawData", "run", "testHandle",
             "strategy.fetchMessages", "strategy.fetchRawDataCycles"} \cup DeviceWait

(* The steps from which raw data are asked for. *)
RawSteps == {"handleIncomingRawData", "strategy.fetchRawDataCycles", "requestRawData"}

(* What runs in the strategy, inside a try block of the communicator. *)
StrategySteps ==
  {"strategy.openConnection", "openDevice", "claimInterface", "setupCleanConnection",
   "receiveTrash", "strategy.closeConnection", "forgetHandle", "strategy.fetchMessages",
   "strategy.fetchRawDataCycles", "testHandle"} \cup DeviceWait

Connecting ==
  {"openConnection", "strategy.openConnection", "openDevice", "claimInterface",
   "setupCleanConnection", "receiveTrash", "closeConnection", "strategy.closeConnection", "forgetHandle",
   "produceError"} \cup Marks

Work(t) == Connecting \cup (IF t = "main" THEN {"launch", "order", "exitSafely"} ELSE Fetching)

Step == Work("main") \cup Work("communicator")

Opening == {"openConnection", "strategy.openConnection"}

Closing == {"closeConnection", "strategy.closeConnection", "forgetHandle", "order",
            "exitSafely", "catch"}

(* What may stand directly behind a step. *)
MayFollow(step, next) ==
  /\ step \notin {"run", "launch", "exitSafely"}
  /\ step = "order" => next = "exitSafely"
  /\ next \notin {"produceError", "receiveTrash"}
  /\ next \in Transfers => step = "testHandle"
  /\ next = "claimInterface" => step = "openDevice"
  /\ step \in StrategySteps => next \in StrategySteps \cup {"catch"}
  /\ step = "openConnection" => next \in {"return", "launch"}
  /\ step = "produceError" => next \in {"closeConnection", "return"}

(* What may stand anywhere behind a step. *)
MayComeAfter(step, later) ==
  /\ step \in RawSteps => later \notin RawSteps
  /\ step \in Fetching => later # "return"

(* The element i of a thread's stack is one of its steps, and what is      *)
(* behind it is as the code has it.                                        *)
Fits(t, s, i) ==
  /\ s[i] \in Work(t)
  /\ s[i] \in StrategySteps \cup {"openConnection", "produceError"} => i + 1 \in DOMAIN s
  /\ i + 1 \in DOMAIN s => MayFollow(s[i], s[i + 1])
  /\ s[i] = "strategy.openConnection" =>
       i + 2 \in DOMAIN s /\ s[i + 1] = "catch" /\ s[i + 2] \in {"return", "launch"}
  /\ \A j \in DOMAIN s : j > i => MayComeAfter(s[i], s[j])

Sound(t, s) == s \in Seq(Step) /\ \A i \in DOMAIN s : Fits(t, s, i)

(* A close is directly followed by an open. *)
ReopensAt(s, i) ==
  /\ s[i] = "closeConnection" => i + 1 \in DOMAIN s /\ s[i + 1] = "openConnection"
  /\ s[i] \in {"strategy.closeConnection", "forgetHandle"} =>
       i + 2 \in DOMAIN s /\ s[i + 1] = "catch" /\ s[i + 2] = "openConnection"

Reopens(s) == \A i \in DOMAIN s : ReopensAt(s, i)

LacksRaw(s) == \A i \in DOMAIN s : s[i] \notin RawSteps

OnlyCloses(s) == \A i \in DOMAIN s : s[i] \in Closing

-----------------------------------------------------------------------------
(* Stacks that end alike: v is what is left of u behind its first d steps. *)

Ends(u, v, d) ==
  d \in Nat /\ Len(u) = Len(v) + d /\ \A i \in DOMAIN v : u[i + d] = v[i]

(* The rest of a stack from a step on is its end. *)
LEMMA SuffixEnds ==
  ASSUME NEW S, NEW s \in Seq(S), NEW k \in 1..Len(s) + 1
  PROVE  /\ SubSeq(s, k, Len(s)) \in Seq(S)
         /\ Ends(s, SubSeq(s, k, Len(s)), k - 1)
<1>1. /\ SubSeq(s, k, Len(s)) \in Seq(S)
      /\ Len(SubSeq(s, k, Len(s))) = Len(s) + 1 - k
      /\ \A i \in 1..(Len(s) + 1 - k) : SubSeq(s, k, Len(s))[i] = s[k + i - 1]
  OBVIOUS
<1>2. DOMAIN SubSeq(s, k, Len(s)) = 1..(Len(s) + 1 - k)
  BY <1>1
<1>3. QED
  BY <1>1, <1>2 DEF Ends

(* The caller's rest is the end of a stack with a body in front of it. *)
LEMMA JoinEnds ==
  ASSUME NEW S, NEW b \in Seq(S), NEW r \in Seq(S)
  PROVE  /\ b \o r \in Seq(S)
         /\ Ends(b \o r, r, Len(b))
         /\ \A i \in 1..Len(b) : (b \o r)[i] = b[i]
<1>1. /\ b \o r \in Seq(S) /\ Len(b \o r) = Len(b) + Len(r)
      /\ \A i \in 1..Len(b) + Len(r) :
           (b \o r)[i] = IF i <= Len(b) THEN b[i] ELSE r[i - Len(b)]
  BY ConcatProperties
<1>2. Len(b) \in Nat /\ Len(r) \in Nat /\ DOMAIN r = 1..Len(r)
  OBVIOUS
<1>3. QED
  BY <1>1, <1>2 DEF Ends

LEMMA TailEnds ==
  ASSUME NEW S, NEW s \in Seq(S), s # <<>>
  PROVE  /\ Tail(s) \in Seq(S) /\ Ends(s, Tail(s), 1)
         /\ 1 \in DOMAIN s /\ Head(s) = s[1]
<1>1. /\ Tail(s) \in Seq(S) /\ Len(Tail(s)) = Len(s) - 1
      /\ \A i \in 1..Len(Tail(s)) : Tail(s)[i] = s[i + 1]
  BY HeadTailProperties
<1>2. Len(s) \in Nat \ {0} /\ DOMAIN s = 1..Len(s) /\ Head(s) = s[1]
  BY EmptySeq
<1>3. QED
  BY <1>1, <1>2 DEF Ends

LEMMA NotEmpty ==
  ASSUME NEW S, NEW s \in Seq(S)
  PROVE  s # <<>> <=> 1 \in DOMAIN s
<1>1. DOMAIN s = 1..Len(s) /\ Len(s) \in Nat
  OBVIOUS
<1>2. s # <<>> <=> Len(s) # 0
  BY EmptySeq
<1>3. QED
  BY <1>1, <1>2

LEMMA EndsTransitive ==
  ASSUME NEW S, NEW u \in Seq(S), NEW v \in Seq(S), NEW w \in Seq(S),
         NEW d, NEW e, Ends(u, v, d), Ends(v, w, e)
  PROVE  Ends(u, w, d + e)
<1>1. /\ Len(u) \in Nat /\ Len(v) \in Nat /\ Len(w) \in Nat
      /\ DOMAIN v = 1..Len(v) /\ DOMAIN w = 1..Len(w)
  OBVIOUS
<1>2. d \in Nat /\ e \in Nat /\ Len(u) = Len(v) + d /\ Len(v) = Len(w) + e
  BY DEF Ends
<1>3. \A i \in DOMAIN w : u[i + (d + e)] = w[i]
  <2> SUFFICES ASSUME NEW i \in DOMAIN w PROVE u[i + (d + e)] = w[i]
    OBVIOUS
  <2>1. i + e \in DOMAIN v /\ (i + e) + d = i + (d + e)
    BY <1>1, <1>2
  <2>2. QED
    BY <2>1 DEF Ends
<1>4. QED
  BY <1>1, <1>2, <1>3 DEF Ends

(* A set of numbers that is not empty has a least one. *)
LEMMA LeastNumber ==
  ASSUME NEW T, T \subseteq Nat, T # {}
  PROVE  \E n \in T : \A m \in T : n <= m
<1>1. \E n \in T : \A m \in T : ~(<<m, n>> \in OpToRel(<, Nat))
  BY NatLessThanWellFounded, WFMin
<1>2. \A m, n \in Nat : ~(<<m, n>> \in OpToRel(<, Nat)) => n <= m
  BY DEF OpToRel
<1>3. QED
  BY <1>1, <1>2

(* Control passes the marks in front, and nothing else. *)
Passed(s, r, d) ==
  /\ Ends(s, r, d) /\ d \in 0..Len(s)
  /\ \A j \in 1..d : s[j] \in Marks
  /\ r # <<>> => Head(r) \notin Marks /\ d + 1 \in DOMAIN s /\ Head(r) = s[d + 1]

LEMMA ResumePasses ==
  ASSUME NEW S, NEW s \in Seq(S)
  PROVE  Resume(s) \in Seq(S) /\ \E d \in Nat : Passed(s, Resume(s), d)
<1> DEFINE Stops(i) == i \in DOMAIN s => s[i] \notin Marks
           stops == {i \in 1..Len(s) + 1 : Stops(i)}
           First(i) == /\ i \in DOMAIN s => s[i] \notin Marks
                       /\ \A j \in 1..(i - 1) : s[j] \in Marks
<1>1. Len(s) \in Nat /\ DOMAIN s = 1..Len(s)
  OBVIOUS
<1>2. Len(s) + 1 \in stops /\ stops \subseteq Nat
  BY <1>1
<1>3. PICK n \in stops : \A m \in stops : n <= m
  BY <1>2, LeastNumber
<1>4. n \in 1..Len(s) + 1 /\ First(n)
  <2>1. ASSUME NEW j \in 1..(n - 1) PROVE s[j] \in Marks
    <3>1. j \in 1..Len(s) + 1 /\ ~(n <= j)
      BY <1>1
    <3>2. QED
      BY <1>3, <3>1
  <2>2. QED
    BY <2>1, <1>1
<1>5. PICK k \in 1..Len(s) + 1 : First(k) /\ Resume(s) = SubSeq(s, k, Len(s))
  BY <1>4 DEF Resume
<1> HIDE DEF Stops, stops
<1>6. Resume(s) \in Seq(S) /\ Ends(s, Resume(s), k - 1)
  BY <1>5, SuffixEnds
<1>7. k - 1 \in 0..Len(s) /\ k - 1 \in Nat /\ (k - 1) + 1 = k
  BY <1>1
<1>8. ASSUME Resume(s) # <<>>
      PROVE  Head(Resume(s)) \notin Marks /\ k \in DOMAIN s /\ Head(Resume(s)) = s[k]
  <2>1. 1 \in DOMAIN Resume(s) /\ Head(Resume(s)) = Resume(s)[1] /\ Len(Resume(s)) >= 1
    BY <1>6, <1>8, TailEnds
  <2>2. Len(s) = Len(Resume(s)) + (k - 1) /\ Resume(s)[1] = s[1 + (k - 1)]
    BY <1>6, <2>1 DEF Ends
  <2>3. k \in DOMAIN s /\ 1 + (k - 1) = k
    BY <1>1, <2>1, <2>2
  <2>4. QED
    BY <1>5, <2>1, <2>2, <2>3
<1>9. QED
  BY <1>5, <1>6, <1>7, <1>8 DEF Passed

(* A stack whose first step is no mark is resumed as it is. *)
LEMMA ResumeKeeps ==
  ASSUME NEW S, NEW s \in Seq(S), s # <<>>, s[1] \notin Marks
  PROVE  Resume(s) = s
<1>1. PICK d \in Nat : Passed(s, Resume(s), d)
  BY ResumePasses
<1>2. Resume(s) \in Seq(S)
  BY ResumePasses
<1>3. d = 0
  <2>1. d # 0 => 1 \in 1..d
    OBVIOUS
  <2>2. QED
    BY <1>1, <2>1 DEF Passed
<1>4. Len(Resume(s)) = Len(s) /\ \A i \in 1..Len(s) : Resume(s)[i] = s[i]
  BY <1>1, <1>2, <1>3 DEF Passed, Ends
<1>5. QED
  BY <1>2, <1>4, SeqEqual

-----------------------------------------------------------------------------
(* The depth of stacks that end alike. *)

Returns(s) == {i \in DOMAIN s : s[i] = "return"}

LEMMA DepthType ==
  ASSUME NEW S, NEW s \in Seq(S)
  PROVE  /\ IsFiniteSet(Returns(s)) /\ Returns(s) \subseteq DOMAIN s
         /\ Depth(s) \in Nat /\ Depth(s) = Cardinality(Returns(s))
<1>1. DOMAIN s = 1..Len(s) /\ Len(s) \in Nat
  OBVIOUS
<1>2. IsFiniteSet(1..Len(s))
  BY <1>1, FS_Interval
<1>3. Returns(s) \in SUBSET (1..Len(s))
  BY <1>1 DEF Returns
<1>4. IsFiniteSet(Returns(s))
  BY <1>2, <1>3, FS_Subset
<1>5. Depth(s) = Cardinality(Returns(s))
  BY DEF Depth, Returns
<1>6. QED
  BY <1>1, <1>3, <1>4, <1>5, FS_CardinalityType

(* The handlers of the end are those behind the first d steps. *)
LEMMA DepthOfEnd ==
  ASSUME NEW S, NEW u \in Seq(S), NEW v \in Seq(S), NEW d, Ends(u, v, d)
  PROVE  LET behind == {i \in Returns(u) : i > d}
         IN  IsFiniteSet(behind) /\ Cardinality(behind) = Depth(v)
<1> DEFINE behind == {i \in Returns(u) : i > d}
           f == [i \in Returns(v) |-> i + d]
<1>1. /\ DOMAIN u = 1..Len(u) /\ DOMAIN v = 1..Len(v) /\ Len(u) \in Nat /\ Len(v) \in Nat
      /\ d \in Nat /\ Len(u) = Len(v) + d /\ \A i \in DOMAIN v : u[i + d] = v[i]
  BY DEF Ends
<1>2. \A i \in Returns(v) : i \in Nat /\ i + d \in behind
  BY <1>1 DEF Returns
<1>3. \A j \in behind : j - d \in Returns(v) /\ (j - d) + d = j
  <2> SUFFICES ASSUME NEW j \in behind PROVE j - d \in Returns(v) /\ (j - d) + d = j
    OBVIOUS
  <2>1. j \in 1..Len(u) /\ j > d /\ u[j] = "return"
    BY <1>1 DEF Returns
  <2>2. j - d \in 1..Len(v) /\ (j - d) + d = j
    BY <1>1, <2>1
  <2>3. v[j - d] = "return"
    BY <1>1, <2>1, <2>2
  <2>4. QED
    BY <1>1, <2>2, <2>3 DEF Returns
<1>4. f \in Bijection(Returns(v), behind)
  <2>1. f \in [Returns(v) -> behind]
    BY <1>2
  <2>2. \A a, b \in Returns(v) : f[a] = f[b] => a = b
    BY <1>1, <1>2
  <2>3. \A j \in behind : \E i \in Returns(v) : f[i] = j
    BY <1>3
  <2>4. f \in Surjection(Returns(v), behind)
    BY <2>1, <2>3, Fun_IsSurj
  <2>5. f \in Injection(Returns(v), behind)
    BY <2>1, <2>2, Fun_IsInj
  <2>6. QED
    BY <2>4, <2>5 DEF Bijection
<1>5. ExistsBijection(Returns(v), behind)
  BY <1>4 DEF ExistsBijection
<1>6. QED
  BY <1>5, FS_Bijection, DepthType

(* A stack is as deep as its end and the handlers before it: no less, as   *)
(* deep if there is none, one deeper for one, and deeper for any.          *)
LEMMA DepthAdds ==
  ASSUME NEW S, NEW u \in Seq(S), NEW v \in Seq(S), NEW d, Ends(u, v, d)
  PROVE  /\ Depth(u) \in Nat /\ Depth(v) \in Nat
         /\ Depth(v) <= Depth(u)
         /\ (\A i \in 1..d : u[i] # "return") => Depth(u) = Depth(v)
         /\ (\E i \in 1..d : u[i] = "return") => Depth(v) < Depth(u)
         /\ (d \in DOMAIN u /\ u[d] = "return" /\ \A i \in 1..(d - 1) : u[i] # "return")
              => Depth(u) = Depth(v) + 1
<1> DEFINE behind == {i \in Returns(u) : i > d}
<1>1. IsFiniteSet(behind) /\ Cardinality(behind) = Depth(v)
  BY DepthOfEnd
<1>2. /\ IsFiniteSet(Returns(u)) /\ Depth(u) \in Nat /\ Depth(v) \in Nat
      /\ Depth(u) = Cardinality(Returns(u))
  BY DepthType
<1>3. /\ behind \in SUBSET Returns(u)
      /\ DOMAIN u = 1..Len(u) /\ Len(u) \in Nat /\ d \in Nat /\ d <= Len(u)
  <2>1. Len(v) \in Nat /\ Len(u) \in Nat /\ DOMAIN u = 1..Len(u)
    OBVIOUS
  <2>2. QED
    BY <2>1 DEF Ends
<1>4. /\ Cardinality(behind) <= Cardinality(Returns(u))
      /\ Cardinality(Returns(u)) = Cardinality(behind) => Returns(u) = behind
  BY <1>2, <1>3, FS_Subset
<1>5. ASSUME \A i \in 1..d : u[i] # "return" PROVE Depth(u) = Depth(v)
  <2>1. Returns(u) = behind
    BY <1>3, <1>5 DEF Returns
  <2>2. QED
    BY <1>1, <1>2, <2>1
<1>6. ASSUME NEW i \in 1..d, u[i] = "return" PROVE Depth(v) < Depth(u)
  <2>1. i \in Returns(u) /\ i \notin behind
    BY <1>3, <1>6 DEF Returns
  <2>2. Cardinality(behind) # Cardinality(Returns(u))
    BY <1>4, <2>1
  <2>3. QED
    BY <1>1, <1>2, <1>4, <2>2
<1>7. ASSUME d \in DOMAIN u, u[d] = "return", \A i \in 1..(d - 1) : u[i] # "return"
      PROVE  Depth(u) = Depth(v) + 1
  <2>1. Returns(u) = behind \cup {d}
    BY <1>3, <1>7 DEF Returns
  <2>2. d \notin behind
    BY <1>3
  <2>3. Cardinality(behind \cup {d}) = Cardinality(behind) + 1
    BY <1>1, <2>2, FS_AddElement
  <2>4. QED
    BY <1>1, <1>2, <2>1, <2>3
<1>8. QED
  BY <1>1, <1>2, <1>4, <1>5, <1>6, <1>7

LEMMA DepthOfNothing == Depth(<<>>) = 0
<1>1. Returns(<<>>) = {}
  BY DEF Returns
<1>2. <<>> \in Seq(Step)
  OBVIOUS
<1>3. QED
  BY <1>1, <1>2, DepthType, FS_EmptySet

(* A stack that holds no handler is not deep. *)
LEMMA DepthIsZero ==
  ASSUME NEW S, NEW s \in Seq(S), \A i \in DOMAIN s : s[i] # "return"
  PROVE  Depth(s) = 0
<1>1. Returns(s) = {}
  BY DEF Returns
<1>2. QED
  BY <1>1, DepthType, FS_EmptySet

-----------------------------------------------------------------------------
(* Stacks that end alike: what holds behind a step depends on the end.     *)

LEMMA ShiftedRange ==
  ASSUME NEW n \in Nat, NEW d \in Nat, NEW i \in 1..n
  PROVE  /\ i \in Nat /\ i + d \in 1..(n + d)
         /\ (i + d) + 1 \in 1..(n + d) <=> i + 1 \in 1..n
         /\ (i + d) + 2 \in 1..(n + d) <=> i + 2 \in 1..n
         /\ (i + d) + 1 = (i + 1) + d /\ (i + d) + 2 = (i + 2) + d
<1>1. i \in Nat /\ 1 <= i /\ i <= n
  OBVIOUS
<1>2. QED
  BY <1>1

LEMMA EndElements ==
  ASSUME NEW S, NEW u \in Seq(S), NEW v \in Seq(S), NEW d, Ends(u, v, d)
  PROVE  /\ \A i \in DOMAIN v : /\ i \in Nat /\ i + d \in DOMAIN u /\ u[i + d] = v[i]
                                /\ (i + d) + 1 \in DOMAIN u <=> i + 1 \in DOMAIN v
                                /\ (i + d) + 2 \in DOMAIN u <=> i + 2 \in DOMAIN v
                                /\ i + 1 \in DOMAIN v => u[(i + d) + 1] = v[i + 1]
                                /\ i + 2 \in DOMAIN v => u[(i + d) + 2] = v[i + 2]
         /\ \A j \in DOMAIN u : j > d => j - d \in DOMAIN v /\ v[j - d] = u[j]
<1>1. /\ DOMAIN u = 1..Len(u) /\ DOMAIN v = 1..Len(v) /\ Len(u) \in Nat /\ Len(v) \in Nat
      /\ d \in Nat /\ Len(u) = Len(v) + d
  BY DEF Ends
<1>2. \A i \in DOMAIN v : u[i + d] = v[i]
  BY DEF Ends
<1>3. ASSUME NEW i \in DOMAIN v
      PROVE  /\ i \in Nat /\ i + d \in DOMAIN u
             /\ (i + d) + 1 \in DOMAIN u <=> i + 1 \in DOMAIN v
             /\ (i + d) + 2 \in DOMAIN u <=> i + 2 \in DOMAIN v
             /\ (i + d) + 1 = (i + 1) + d /\ (i + d) + 2 = (i + 2) + d
  <2>1. i \in 1..Len(v)
    BY <1>1
  <2>2. /\ i \in Nat /\ i + d \in 1..Len(u)
        /\ (i + d) + 1 \in 1..Len(u) <=> i + 1 \in 1..Len(v)
        /\ (i + d) + 2 \in 1..Len(u) <=> i + 2 \in 1..Len(v)
        /\ (i + d) + 1 = (i + 1) + d /\ (i + d) + 2 = (i + 2) + d
    <3> DEFINE n == Len(v)
    <3>1. n \in Nat /\ d \in Nat /\ i \in 1..n /\ Len(u) = n + d
      BY <1>1, <2>1
    <3> HIDE DEF n
    <3>2. QED
      BY <3>1, ShiftedRange DEF n
  <2>3. QED
    BY <1>1, <2>2, Zenon
<1>4. ASSUME NEW j \in DOMAIN u, j > d PROVE j - d \in DOMAIN v /\ (j - d) + d = j
  <2>1. j \in 1..Len(u)
    BY <1>1
  <2>2. j - d \in 1..Len(v) /\ (j - d) + d = j
    BY <1>1, <1>4, <2>1
  <2>3. QED
    BY <1>1, <2>2
<1>5. QED
  BY <1>2, <1>3, <1>4

LEMMA EndFits ==
  ASSUME NEW t, NEW S, NEW u \in Seq(S), NEW v \in Seq(S), NEW d, Ends(u, v, d),
         NEW i \in DOMAIN v
  PROVE  Fits(t, u, i + d) <=> Fits(t, v, i)
<1>1. /\ i + d \in DOMAIN u /\ u[i + d] = v[i]
      /\ (i + d) + 1 \in DOMAIN u <=> i + 1 \in DOMAIN v
      /\ (i + d) + 2 \in DOMAIN u <=> i + 2 \in DOMAIN v
      /\ i + 1 \in DOMAIN v => u[(i + d) + 1] = v[i + 1]
      /\ i + 2 \in DOMAIN v => u[(i + d) + 2] = v[i + 2]
  BY EndElements
<1> DEFINE All(w, k) == \A j \in DOMAIN w : j > k => MayComeAfter(w[k], w[j])
<1>2. All(u, i + d) <=> All(v, i)
  <2>1. i \in Nat /\ d \in Nat /\ DOMAIN u = 1..Len(u) /\ DOMAIN v = 1..Len(v)
    BY EndElements DEF Ends
  <2>2. ASSUME All(u, i + d), NEW j \in DOMAIN v, j > i PROVE MayComeAfter(v[i], v[j])
    <3>1. j + d \in DOMAIN u /\ u[j + d] = v[j] /\ j + d > i + d
      BY <2>1, <2>2, EndElements
    <3>2. QED
      BY <1>1, <2>2, <3>1
  <2>3. ASSUME All(v, i), NEW j \in DOMAIN u, j > i + d PROVE MayComeAfter(u[i + d], u[j])
    <3>1. j > d /\ j - d > i
      BY <2>1, <2>3
    <3>2. j - d \in DOMAIN v /\ v[j - d] = u[j]
      BY <3>1, EndElements
    <3>3. QED
      BY <1>1, <2>3, <3>1, <3>2
  <2>4. QED
    BY <2>2, <2>3
<1>3. QED
  BY <1>1, <1>2 DEF Fits

(* The end of a sound stack is sound, and so is a stack with a sound end    *)
(* whose other steps fit.                                                  *)
LEMMA EndIsSound ==
  ASSUME NEW t, NEW u, NEW v \in Seq(Step), NEW d, Ends(u, v, d), Sound(t, u)
  PROVE  Sound(t, v)
<1>1. u \in Seq(Step) /\ \A i \in DOMAIN u : Fits(t, u, i)
  BY DEF Sound
<1>2. ASSUME NEW i \in DOMAIN v PROVE Fits(t, v, i)
  BY <1>1, EndElements, EndFits
<1>3. QED
  BY <1>2 DEF Sound

LEMMA SoundFront ==
  ASSUME NEW t, NEW u \in Seq(Step), NEW v, NEW d, Ends(u, v, d), Sound(t, v),
         \A i \in 1..d : Fits(t, u, i)
  PROVE  Sound(t, u)
<1>1. v \in Seq(Step) /\ \A i \in DOMAIN v : Fits(t, v, i)
  BY DEF Sound
<1>2. ASSUME NEW i \in DOMAIN u PROVE Fits(t, u, i)
  <2>1. d \in Nat /\ i \in Nat
    BY DEF Ends
  <2>2. CASE i <= d
    BY <2>1, <2>2
  <2>3. CASE i > d
    <3>1. i - d \in DOMAIN v
      BY <1>1, <2>3, EndElements
    <3>2. Fits(t, u, (i - d) + d)
      BY <1>1, <3>1, EndFits
    <3>3. QED
      BY <2>1, <3>2
  <2>4. QED
    BY <2>1, <2>2, <2>3
<1>3. QED
  BY <1>2 DEF Sound

LEMMA EndReopens ==
  ASSUME NEW S, NEW u \in Seq(S), NEW v \in Seq(S), NEW d, Ends(u, v, d)
  PROVE  /\ Reopens(u) => Reopens(v)
         /\ Reopens(v) /\ (\A i \in 1..d : ReopensAt(u, i)) => Reopens(u)
<1>1. ASSUME NEW i \in DOMAIN v PROVE ReopensAt(u, i + d) <=> ReopensAt(v, i)
  BY EndElements DEF ReopensAt
<1>2. Reopens(u) => Reopens(v)
  BY <1>1, EndElements DEF Reopens
<1>3. ASSUME Reopens(v), \A i \in 1..d : ReopensAt(u, i), NEW i \in DOMAIN u
      PROVE  ReopensAt(u, i)
  <2>1. d \in Nat /\ i \in Nat
    BY DEF Ends
  <2>2. CASE i <= d
    BY <1>3, <2>1, <2>2
  <2>3. CASE i > d
    <3>1. i - d \in DOMAIN v
      BY <2>3, EndElements
    <3>2. ReopensAt(u, (i - d) + d)
      BY <1>1, <1>3, <3>1 DEF Reopens
    <3>3. QED
      BY <2>1, <3>2
  <2>4. QED
    BY <2>1, <2>2, <2>3
<1>4. QED
  BY <1>2, <1>3 DEF Reopens

LEMMA EndLacksRaw ==
  ASSUME NEW S, NEW u \in Seq(S), NEW v \in Seq(S), NEW d, Ends(u, v, d)
  PROVE  /\ LacksRaw(u) => LacksRaw(v)
         /\ LacksRaw(v) /\ (\A i \in 1..d : u[i] \notin RawSteps) => LacksRaw(u)
<1>1. LacksRaw(u) => LacksRaw(v)
  <2>1. \A i \in DOMAIN v : i + d \in DOMAIN u /\ u[i + d] = v[i]
    BY EndElements
  <2>2. QED
    BY <2>1 DEF LacksRaw
<1>2. ASSUME LacksRaw(v), \A i \in 1..d : u[i] \notin RawSteps, NEW i \in DOMAIN u
      PROVE  u[i] \notin RawSteps
  <2>1. d \in Nat /\ i \in Nat /\ i >= 1
    BY DEF Ends
  <2>2. CASE i <= d
    BY <1>2, <2>1, <2>2
  <2>3. CASE i > d
    BY <1>2, <2>3, EndElements DEF LacksRaw
  <2>4. QED
    BY <2>1, <2>2, <2>3
<1>3. QED
  BY <1>1, <1>2 DEF LacksRaw

-----------------------------------------------------------------------------
(* A body that fits the rest it is put in front of keeps a stack sound.    *)

BodyFits(t, b, v) ==
  /\ \A i \in 1..Len(b) : b[i] \in Work(t)
  /\ \A i \in 1..Len(b) : i < Len(b) => MayFollow(b[i], b[i + 1])
  /\ v # <<>> => MayFollow(b[Len(b)], v[1])
  /\ b[Len(b)] \in StrategySteps \cup {"openConnection", "produceError"} => v # <<>>
  /\ \A i \in 1..Len(b) : b[i] = "strategy.openConnection" =>
       i = 1 /\ Len(b) = 2 /\ b[2] = "catch" /\ v # <<>> /\ v[1] \in {"return", "launch"}
  /\ \A i, j \in 1..Len(b) : i < j => MayComeAfter(b[i], b[j])
  /\ \A i \in 1..Len(b), k \in DOMAIN v : MayComeAfter(b[i], v[k])

LEMMA BodyIsSound ==
  ASSUME NEW t, NEW b \in Seq(Step), NEW v, b # <<>>, Sound(t, v), BodyFits(t, b, v)
  PROVE  Sound(t, b \o v)
<1> DEFINE n == Len(b)
           r == b \o v
<1>1. v \in Seq(Step) /\ DOMAIN v = 1..Len(v) /\ Len(v) \in Nat /\ n \in Nat \ {0}
  BY EmptySeq DEF Sound
<1>2. r \in Seq(Step) /\ Ends(r, v, n) /\ \A i \in 1..n : r[i] = b[i]
  BY <1>1, JoinEnds
<1>3. Len(r) = n + Len(v) /\ DOMAIN r = 1..(n + Len(v)) /\ \A i \in 1..Len(v) : r[i + n] = v[i]
  BY <1>1, <1>2 DEF Ends
<1>4. v # <<>> => 1 \in 1..Len(v) /\ n + 1 \in DOMAIN r /\ r[n + 1] = v[1]
  BY <1>1, <1>3, EmptySeq
<1>5. v = <<>> => Len(v) = 0 /\ n + 1 \notin DOMAIN r
  BY <1>1, <1>3
<1> HIDE DEF r
<1>6. ASSUME NEW i \in 1..n PROVE Fits(t, r, i)
  <2>1. r[i] = b[i] /\ i \in DOMAIN r /\ r[i] \in Work(t)
    BY <1>1, <1>2, <1>3, <1>6 DEF BodyFits
  <2>2. ASSUME i < n PROVE i + 1 \in DOMAIN r /\ MayFollow(r[i], r[i + 1])
    <3>1. i + 1 \in 1..n /\ i + 1 \in DOMAIN r /\ r[i + 1] = b[i + 1]
      BY <1>1, <1>2, <1>3, <1>6, <2>2
    <3>2. QED
      BY <1>6, <2>1, <2>2, <3>1 DEF BodyFits
  <2>3. ASSUME i = n
        PROVE  /\ i + 1 \in DOMAIN r => MayFollow(r[i], r[i + 1])
               /\ r[i] \in StrategySteps \cup {"openConnection", "produceError"}
                    => i + 1 \in DOMAIN r
    <3>1. i + 1 \in DOMAIN r => MayFollow(r[i], r[i + 1])
      BY <1>4, <1>5, <2>1, <2>3 DEF BodyFits
    <3>2. r[i] \in StrategySteps \cup {"openConnection", "produceError"} => i + 1 \in DOMAIN r
      BY <1>4, <2>1, <2>3 DEF BodyFits
    <3>3. QED
      BY <3>1, <3>2
  <2>4. /\ r[i] \in StrategySteps \cup {"openConnection", "produceError"} => i + 1 \in DOMAIN r
        /\ i + 1 \in DOMAIN r => MayFollow(r[i], r[i + 1])
    <3>1. i < n \/ i = n
      BY <1>1, <1>6
    <3>2. QED
      BY <2>2, <2>3, <3>1
  <2>5. r[i] = "strategy.openConnection" =>
          i + 2 \in DOMAIN r /\ r[i + 1] = "catch" /\ r[i + 2] \in {"return", "launch"}
    <3>1. SUFFICES ASSUME b[i] = "strategy.openConnection"
                   PROVE  /\ i + 2 \in DOMAIN r
                          /\ r[i + 1] = "catch" /\ r[i + 2] \in {"return", "launch"}
      BY <2>1
    <3>2. i = 1 /\ n = 2 /\ b[2] = "catch" /\ v # <<>> /\ v[1] \in {"return", "launch"}
      BY <3>1, <1>6 DEF BodyFits
    <3>3. i + 1 = 2 /\ i + 2 = n + 1 /\ 2 \in 1..n
      BY <3>2
    <3>4. QED
      BY <1>2, <1>4, <3>2, <3>3
  <2>6. ASSUME NEW j \in DOMAIN r, j > i PROVE MayComeAfter(r[i], r[j])
    <3>1. CASE j <= n
      <4>1. j \in 1..n /\ i < j
        BY <1>1, <1>3, <1>6, <2>6, <3>1
      <4>2. QED
        BY <1>2, <2>1, <4>1 DEF BodyFits
    <3>2. CASE j > n
      <4>1. j - n \in DOMAIN v /\ v[j - n] = r[j]
        BY <1>1, <1>2, <3>2, EndElements
      <4>2. QED
        BY <1>6, <2>1, <4>1 DEF BodyFits
    <3>3. QED
      BY <1>1, <1>3, <3>1, <3>2
  <2>7. QED
    BY <2>1, <2>4, <2>5, <2>6 DEF Fits
<1>7. Sound(t, r)
  BY <1>1, <1>2, <1>6, SoundFront
<1>8. QED
  BY <1>7 DEF r

-----------------------------------------------------------------------------
(* The calls: what a step puts in front of the rest.                       *)

IsBodyOf(body, step) ==
  \/ step = "openConnection" /\ body = <<"strategy.openConnection", "catch">>
  \/ step = "closeConnection" /\ body = <<"strategy.closeConnection", "catch">>
  \/ step = "handleIncomingMessages" /\ body = <<"strategy.fetchMessages", "catch">>
  \/ step = "handleIncomingRawData" /\ body = <<"strategy.fetchRawDataCycles", "catch">>
  \/ step = "run" /\ body = <<"handleIncomingMessages", "handleIncomingRawData", "run">>
  \/ step = "strategy.openConnection"
       /\ body = <<"openDevice", "claimInterface", "setupCleanConnection">>
  \/ step = "setupCleanConnection" /\ body = <<"receiveTrash">>
  \/ step = "receiveTrash" /\ body = <<"setupCleanConnection">>
  \/ step = "strategy.closeConnection" /\ body = <<"forgetHandle">>
  \/ step = "strategy.fetchMessages"
       /\ body = <<"testHandle", "sendQuery", "testHandle", "receiveQuantity">>
  \/ step = "receiveQuantity" /\ body = FetchMessagesOnSensor
  \/ step = "strategy.fetchRawDataCycles"
       /\ body = <<"testHandle", "requestRawData", "testHandle", "receiveRawData">>

Follower(step) == step \in StrategySteps \cup {"openConnection", "produceError"}

(* What the steps of a body have in common with the step they replace. *)
StepReplaces(b, step, i) ==
  /\ b[i] \in Step /\ b[i] # "return"
  /\ b[i] \in Fetching => step \in Fetching
  /\ b[i] \notin Fetching => b[i] \in Connecting
  /\ b[i] \in RawSteps => step \in RawSteps \cup {"run"}
  /\ step \in Closing => b[i] \in Closing
  /\ b[i] = "strategy.openConnection" =>
       i = 1 /\ Len(b) = 2 /\ b[2] = "catch" /\ step = "openConnection"
  /\ b[i] # "closeConnection"
  /\ b[i] = "strategy.closeConnection" =>
       i = 1 /\ Len(b) = 2 /\ b[2] = "catch" /\ step = "closeConnection"
  /\ b[i] = "forgetHandle" => i = 1 /\ Len(b) = 1 /\ step = "strategy.closeConnection"
  /\ i < Len(b) => MayFollow(b[i], b[i + 1])
  /\ \A j \in 1..Len(b) : i < j => MayComeAfter(b[i], b[j])

Replaces(b, step) ==
  /\ b \in Seq(Step) /\ b # <<>> /\ b[1] \notin Marks /\ step \notin Marks
  /\ \A i \in 1..Len(b) : StepReplaces(b, step, i)
  /\ Follower(b[Len(b)]) => Follower(step)
  /\ \A next \in Step : MayFollow(step, next) => MayFollow(b[Len(b)], next)

LEMMA BodyReplaces ==
  ASSUME NEW b, NEW step, IsBodyOf(b, step)
  PROVE  Replaces(b, step)
<1> USE DEF StepReplaces, MayFollow, MayComeAfter, Follower, Step, Work, Connecting, Fetching,
            RawSteps, Closing, StrategySteps, Transfers, DeviceWait, Marks
<1>1. CASE step = "openConnection" /\ b = <<"strategy.openConnection", "catch">>
  <2>1. /\ Len(b) = 2 /\ b[1] = "strategy.openConnection" /\ b[2] = "catch"
        /\ b # <<>>
    BY <1>1
  <2>2. b \in Seq(Step)
    BY <1>1
  <2>3. \A i \in 1..2 : i = 1 \/ i = 2
    OBVIOUS
  <2>4. StepReplaces(b, step, 1) /\ StepReplaces(b, step, 2)
    BY <1>1, <2>1, <2>3
  <2>5. \A i \in 1..Len(b) : StepReplaces(b, step, i)
    BY <2>1, <2>3, <2>4
  <2>6. /\ Follower(b[Len(b)]) => Follower(step)
        /\ \A next \in Step : MayFollow(step, next) => MayFollow(b[Len(b)], next)
    BY <1>1, <2>1
  <2>7. QED
    BY <1>1, <2>1, <2>2, <2>5, <2>6 DEF Replaces
<1>2. CASE step = "closeConnection" /\ b = <<"strategy.closeConnection", "catch">>
  <2>1. /\ Len(b) = 2 /\ b[1] = "strategy.closeConnection" /\ b[2] = "catch"
        /\ b # <<>>
    BY <1>2
  <2>2. b \in Seq(Step)
    BY <1>2
  <2>3. \A i \in 1..2 : i = 1 \/ i = 2
    OBVIOUS
  <2>4. StepReplaces(b, step, 1) /\ StepReplaces(b, step, 2)
    BY <1>2, <2>1, <2>3
  <2>5. \A i \in 1..Len(b) : StepReplaces(b, step, i)
    BY <2>1, <2>3, <2>4
  <2>6. /\ Follower(b[Len(b)]) => Follower(step)
        /\ \A next \in Step : MayFollow(step, next) => MayFollow(b[Len(b)], next)
    BY <1>2, <2>1
  <2>7. QED
    BY <1>2, <2>1, <2>2, <2>5, <2>6 DEF Replaces
<1>3. CASE step = "handleIncomingMessages" /\ b = <<"strategy.fetchMessages", "catch">>
  <2>1. /\ Len(b) = 2 /\ b[1] = "strategy.fetchMessages" /\ b[2] = "catch"
        /\ b # <<>>
    BY <1>3
  <2>2. b \in Seq(Step)
    BY <1>3
  <2>3. \A i \in 1..2 : i = 1 \/ i = 2
    OBVIOUS
  <2>4. StepReplaces(b, step, 1) /\ StepReplaces(b, step, 2)
    BY <1>3, <2>1, <2>3
  <2>5. \A i \in 1..Len(b) : StepReplaces(b, step, i)
    BY <2>1, <2>3, <2>4
  <2>6. /\ Follower(b[Len(b)]) => Follower(step)
        /\ \A next \in Step : MayFollow(step, next) => MayFollow(b[Len(b)], next)
    BY <1>3, <2>1
  <2>7. QED
    BY <1>3, <2>1, <2>2, <2>5, <2>6 DEF Replaces
<1>4. CASE step = "handleIncomingRawData" /\ b = <<"strategy.fetchRawDataCycles", "catch">>
  <2>1. /\ Len(b) = 2 /\ b[1] = "strategy.fetchRawDataCycles" /\ b[2] = "catch"
        /\ b # <<>>
    BY <1>4
  <2>2. b \in Seq(Step)
    BY <1>4
  <2>3. \A i \in 1..2 : i = 1 \/ i = 2
    OBVIOUS
  <2>4. StepReplaces(b, step, 1) /\ StepReplaces(b, step, 2)
    BY <1>4, <2>1, <2>3
  <2>5. \A i \in 1..Len(b) : StepReplaces(b, step, i)
    BY <2>1, <2>3, <2>4
  <2>6. /\ Follower(b[Len(b)]) => Follower(step)
        /\ \A next \in Step : MayFollow(step, next) => MayFollow(b[Len(b)], next)
    BY <1>4, <2>1
  <2>7. QED
    BY <1>4, <2>1, <2>2, <2>5, <2>6 DEF Replaces
<1>5. CASE step = "run" /\ b = <<"handleIncomingMessages", "handleIncomingRawData", "run">>
  <2>1. /\ Len(b) = 3 /\ b[1] = "handleIncomingMessages" /\ b[2] = "handleIncomingRawData"
        /\ b[3] = "run" /\ b # <<>>
    BY <1>5
  <2>2. b \in Seq(Step)
    BY <1>5
  <2>3. \A i \in 1..3 : i = 1 \/ i = 2 \/ i = 3
    OBVIOUS
  <2>4. StepReplaces(b, step, 1) /\ StepReplaces(b, step, 2)
    BY <1>5, <2>1, <2>3
  <2>5. StepReplaces(b, step, 3)
    BY <1>5, <2>1, <2>3
  <2>6. \A i \in 1..Len(b) : StepReplaces(b, step, i)
    BY <2>1, <2>3, <2>4, <2>5
  <2>7. /\ Follower(b[Len(b)]) => Follower(step)
        /\ \A next \in Step : MayFollow(step, next) => MayFollow(b[Len(b)], next)
    BY <1>5, <2>1
  <2>8. QED
    BY <1>5, <2>1, <2>2, <2>6, <2>7 DEF Replaces
<1>6. CASE step = "strategy.openConnection"
            /\ b = <<"openDevice", "claimInterface", "setupCleanConnection">>
  <2>1. /\ Len(b) = 3 /\ b[1] = "openDevice" /\ b[2] = "claimInterface"
        /\ b[3] = "setupCleanConnection" /\ b # <<>>
    BY <1>6
  <2>2. b \in Seq(Step)
    BY <1>6
  <2>3. \A i \in 1..3 : i = 1 \/ i = 2 \/ i = 3
    OBVIOUS
  <2>4. StepReplaces(b, step, 1) /\ StepReplaces(b, step, 2)
    BY <1>6, <2>1, <2>3
  <2>5. StepReplaces(b, step, 3)
    BY <1>6, <2>1, <2>3
  <2>6. \A i \in 1..Len(b) : StepReplaces(b, step, i)
    BY <2>1, <2>3, <2>4, <2>5
  <2>7. /\ Follower(b[Len(b)]) => Follower(step)
        /\ \A next \in Step : MayFollow(step, next) => MayFollow(b[Len(b)], next)
    BY <1>6, <2>1
  <2>8. QED
    BY <1>6, <2>1, <2>2, <2>6, <2>7 DEF Replaces
<1>7. CASE step = "strategy.closeConnection" /\ b = <<"forgetHandle">>
  <2>1. /\ Len(b) = 1 /\ b[1] = "forgetHandle" /\ b # <<>>
    BY <1>7
  <2>2. b \in Seq(Step)
    BY <1>7
  <2>3. \A i \in 1..1 : i = 1
    OBVIOUS
  <2>4. StepReplaces(b, step, 1)
    BY <1>7, <2>1, <2>3
  <2>5. \A i \in 1..Len(b) : StepReplaces(b, step, i)
    BY <2>1, <2>3, <2>4
  <2>6. /\ Follower(b[Len(b)]) => Follower(step)
        /\ \A next \in Step : MayFollow(step, next) => MayFollow(b[Len(b)], next)
    BY <1>7, <2>1
  <2>7. QED
    BY <1>7, <2>1, <2>2, <2>5, <2>6 DEF Replaces
<1>8. CASE step = "strategy.fetchMessages"
            /\ b = <<"testHandle", "sendQuery", "testHandle", "receiveQuantity">>
  <2>1. /\ Len(b) = 4 /\ b[1] = "testHandle" /\ b[2] = "sendQuery"
        /\ b[3] = "testHandle" /\ b[4] = "receiveQuantity" /\ b # <<>>
    BY <1>8
  <2>2. b \in Seq(Step)
    BY <1>8
  <2>3. \A i \in 1..4 : i = 1 \/ i = 2 \/ i = 3 \/ i = 4
    OBVIOUS
  <2>4. StepReplaces(b, step, 1) /\ StepReplaces(b, step, 2)
    BY <1>8, <2>1, <2>3
  <2>5. StepReplaces(b, step, 3) /\ StepReplaces(b, step, 4)
    BY <1>8, <2>1, <2>3
  <2>6. \A i \in 1..Len(b) : StepReplaces(b, step, i)
    BY <2>1, <2>3, <2>4, <2>5
  <2>7. /\ Follower(b[Len(b)]) => Follower(step)
        /\ \A next \in Step : MayFollow(step, next) => MayFollow(b[Len(b)], next)
    BY <1>8, <2>1
  <2>8. QED
    BY <1>8, <2>1, <2>2, <2>6, <2>7 DEF Replaces
<1>9. CASE step = "receiveQuantity" /\ b = FetchMessagesOnSensor
  <2>1. /\ Len(b) = 4 /\ b[1] = "testHandle" /\ b[2] = "sendPoll"
        /\ b[3] = "testHandle" /\ b[4] = "receiveMessages" /\ b # <<>>
    BY <1>9 DEF FetchMessagesOnSensor
  <2>2. b \in Seq(Step)
    BY <1>9 DEF FetchMessagesOnSensor
  <2>3. \A i \in 1..4 : i = 1 \/ i = 2 \/ i = 3 \/ i = 4
    OBVIOUS
  <2>4. StepReplaces(b, step, 1) /\ StepReplaces(b, step, 2)
    BY <1>9, <2>1, <2>3
  <2>5. StepReplaces(b, step, 3) /\ StepReplaces(b, step, 4)
    BY <1>9, <2>1, <2>3
  <2>6. \A i \in 1..Len(b) : StepReplaces(b, step, i)
    BY <2>1, <2>3, <2>4, <2>5
  <2>7. /\ Follower(b[Len(b)]) => Follower(step)
        /\ \A next \in Step : MayFollow(step, next) => MayFollow(b[Len(b)], next)
    BY <1>9, <2>1
  <2>8. QED
    BY <1>9, <2>1, <2>2, <2>6, <2>7 DEF Replaces
<1>10. CASE step = "strategy.fetchRawDataCycles"
            /\ b = <<"testHandle", "requestRawData", "testHandle", "receiveRawData">>
  <2>1. /\ Len(b) = 4 /\ b[1] = "testHandle" /\ b[2] = "requestRawData"
        /\ b[3] = "testHandle" /\ b[4] = "receiveRawData" /\ b # <<>>
    BY <1>10
  <2>2. b \in Seq(Step)
    BY <1>10
  <2>3. \A i \in 1..4 : i = 1 \/ i = 2 \/ i = 3 \/ i = 4
    OBVIOUS
  <2>4. StepReplaces(b, step, 1) /\ StepReplaces(b, step, 2)
    BY <1>10, <2>1, <2>3
  <2>5. StepReplaces(b, step, 3) /\ StepReplaces(b, step, 4)
    BY <1>10, <2>1, <2>3
  <2>6. \A i \in 1..Len(b) : StepReplaces(b, step, i)
    BY <2>1, <2>3, <2>4, <2>5
  <2>7. /\ Follower(b[Len(b)]) => Follower(step)
        /\ \A next \in Step : MayFollow(step, next) => MayFollow(b[Len(b)], next)
    BY <1>10, <2>1
  <2>8. QED
    BY <1>10, <2>1, <2>2, <2>6, <2>7 DEF Replaces
<1>11. CASE step = "setupCleanConnection" /\ b = <<"receiveTrash">>
  <2>1. /\ Len(b) = 1 /\ b[1] = "receiveTrash" /\ b # <<>>
    BY <1>11
  <2>2. b \in Seq(Step)
    BY <1>11
  <2>3. \A i \in 1..1 : i = 1
    OBVIOUS
  <2>4. StepReplaces(b, step, 1)
    BY <1>11, <2>1, <2>3
  <2>5. \A i \in 1..Len(b) : StepReplaces(b, step, i)
    BY <2>1, <2>3, <2>4
  <2>6. /\ Follower(b[Len(b)]) => Follower(step)
        /\ \A next \in Step : MayFollow(step, next) => MayFollow(b[Len(b)], next)
    BY <1>11, <2>1
  <2>7. QED
    BY <1>11, <2>1, <2>2, <2>5, <2>6 DEF Replaces
<1>12. CASE step = "receiveTrash" /\ b = <<"setupCleanConnection">>
  <2>1. /\ Len(b) = 1 /\ b[1] = "setupCleanConnection" /\ b # <<>>
    BY <1>12
  <2>2. b \in Seq(Step)
    BY <1>12
  <2>3. \A i \in 1..1 : i = 1
    OBVIOUS
  <2>4. StepReplaces(b, step, 1)
    BY <1>12, <2>1, <2>3
  <2>5. \A i \in 1..Len(b) : StepReplaces(b, step, i)
    BY <2>1, <2>3, <2>4
  <2>6. /\ Follower(b[Len(b)]) => Follower(step)
        /\ \A next \in Step : MayFollow(step, next) => MayFollow(b[Len(b)], next)
    BY <1>12, <2>1
  <2>7. QED
    BY <1>12, <2>1, <2>2, <2>5, <2>6 DEF Replaces
<1>13. QED
  BY <1>1, <1>2, <1>3, <1>4, <1>5, <1>6, <1>7, <1>8, <1>9, <1>10, <1>11, <1>12 DEF IsBodyOf

-----------------------------------------------------------------------------
(* What a call, a return and an exception do to a sound stack.             *)

LEMMA SoundTail ==
  ASSUME NEW t, NEW s, Sound(t, s), s # <<>>
  PROVE  /\ s \in Seq(Step) /\ Tail(s) \in Seq(Step) /\ Sound(t, Tail(s))
         /\ Ends(s, Tail(s), 1) /\ 1 \in DOMAIN s /\ Head(s) = s[1] /\ Head(s) \in Work(t)
         /\ Tail(s) # <<>> <=> 2 \in DOMAIN s
         /\ Tail(s) # <<>> => Tail(s)[1] = s[2] /\ MayFollow(Head(s), s[2]) /\ s[2] \in Step
         /\ Follower(Head(s)) => Tail(s) # <<>>
         /\ Head(s) = "strategy.openConnection" =>
              3 \in DOMAIN s /\ s[2] = "catch" /\ s[3] \in {"return", "launch"}
         /\ \A k \in DOMAIN Tail(s) : MayComeAfter(Head(s), Tail(s)[k])
<1>1. s \in Seq(Step) /\ \A i \in DOMAIN s : Fits(t, s, i)
  BY DEF Sound
<1>2. /\ Tail(s) \in Seq(Step) /\ Ends(s, Tail(s), 1) /\ 1 \in DOMAIN s /\ Head(s) = s[1]
  BY <1>1, TailEnds
<1>3. Sound(t, Tail(s))
  BY <1>2, EndIsSound
<1>4. /\ DOMAIN s = 1..Len(s) /\ DOMAIN Tail(s) = 1..Len(Tail(s)) /\ Len(Tail(s)) \in Nat
      /\ Len(s) = Len(Tail(s)) + 1 /\ \A k \in DOMAIN Tail(s) : s[k + 1] = Tail(s)[k]
  BY <1>1, <1>2 DEF Ends
<1>5. Tail(s) # <<>> <=> 1 \in DOMAIN Tail(s)
  BY <1>2, NotEmpty
<1>6. 2 \in DOMAIN s <=> 1 \in DOMAIN Tail(s)
  BY <1>4
<1>7. 1 \in DOMAIN Tail(s) => s[2] = Tail(s)[1] /\ s[2] \in Step
  BY <1>2, <1>4
<1>8. /\ s[1] \in Work(t)
      /\ Follower(s[1]) => 2 \in DOMAIN s
      /\ 2 \in DOMAIN s => MayFollow(s[1], s[2])
      /\ s[1] = "strategy.openConnection" =>
           3 \in DOMAIN s /\ s[2] = "catch" /\ s[3] \in {"return", "launch"}
      /\ \A j \in DOMAIN s : j > 1 => MayComeAfter(s[1], s[j])
  BY <1>1, <1>2 DEF Fits, Follower
<1>9. \A k \in DOMAIN Tail(s) : MayComeAfter(s[1], Tail(s)[k])
  <2>1. \A k \in DOMAIN Tail(s) : k + 1 \in DOMAIN s /\ k + 1 > 1
    BY <1>4
  <2>2. QED
    BY <1>4, <1>8, <2>1
<1>10. QED
  BY <1>1, <1>2, <1>3, <1>5, <1>6, <1>7, <1>8, <1>9

LEMMA CallIsSound ==
  ASSUME NEW t, NEW s, NEW b, Sound(t, s), s # <<>>, IsBodyOf(b, Head(s))
  PROVE  Sound(t, b \o Tail(s))
<1>1. Replaces(b, Head(s))
  BY BodyReplaces
<1>2. b \in Seq(Step) /\ b # <<>> /\ Len(b) \in Nat \ {0}
  BY <1>1, EmptySeq DEF Replaces
<1>3. Len(b) \in 1..Len(b)
  BY <1>2
<1> DEFINE h == Head(s)
           v == Tail(s)
<1>4. /\ Sound(t, v) /\ h \in Work(t)
      /\ v # <<>> => v[1] = s[2] /\ MayFollow(h, v[1]) /\ v[1] \in Step
      /\ Follower(h) => v # <<>>
      /\ \A k \in DOMAIN v : MayComeAfter(h, v[k])
  BY SoundTail
<1>5. \A i \in 1..Len(b) : StepReplaces(b, h, i)
  BY <1>1 DEF Replaces
<1>6. ASSUME NEW i \in 1..Len(b) PROVE b[i] \in Work(t)
  <2>1. h \in Fetching => t # "main"
    BY <1>4 DEF Work, Fetching, Connecting, DeviceWait, Marks
  <2>2. b[i] \in Fetching => h \in Fetching
    BY <1>5 DEF StepReplaces
  <2>3. b[i] \notin Fetching => b[i] \in Connecting
    BY <1>5 DEF StepReplaces
  <2>4. QED
    BY <2>1, <2>2, <2>3 DEF Work
<1>7. v # <<>> => MayFollow(b[Len(b)], v[1])
  BY <1>1, <1>4 DEF Replaces
<1>8. Follower(b[Len(b)]) => v # <<>>
  BY <1>1, <1>4 DEF Replaces
<1>9. ASSUME NEW i \in 1..Len(b), b[i] = "strategy.openConnection"
      PROVE  i = 1 /\ Len(b) = 2 /\ b[2] = "catch" /\ v # <<>> /\ v[1] \in {"return", "launch"}
  <2>1. i = 1 /\ Len(b) = 2 /\ b[2] = "catch" /\ h = "openConnection"
    BY <1>5, <1>9 DEF StepReplaces
  <2>2. v # <<>>
    BY <1>4, <2>1 DEF Follower
  <2>3. QED
    BY <1>4, <2>1, <2>2 DEF MayFollow
<1>10. ASSUME NEW i \in 1..Len(b), NEW k \in DOMAIN v PROVE MayComeAfter(b[i], v[k])
  <2>1. /\ b[i] \in Fetching => h \in Fetching
        /\ b[i] \in RawSteps => h \in RawSteps \cup {"run"}
    BY <1>5 DEF StepReplaces
  <2>2. h # "run"
    <3>1. v # <<>>
      BY <1>10
    <3>2. QED
      BY <1>4, <3>1 DEF MayFollow
  <2>3. QED
    BY <1>4, <2>1, <2>2 DEF MayComeAfter
<1>11. /\ \A i \in 1..Len(b) : i < Len(b) => MayFollow(b[i], b[i + 1])
       /\ \A i, j \in 1..Len(b) : i < j => MayComeAfter(b[i], b[j])
  BY <1>5 DEF StepReplaces
<1>12. BodyFits(t, b, v)
  BY <1>6, <1>7, <1>8, <1>9, <1>10, <1>11 DEF BodyFits, Follower
<1>13. QED
  BY <1>2, <1>4, <1>12, BodyIsSound

(* A call keeps what the invariant says of a whole stack. *)
LEMMA CallKeeps ==
  ASSUME NEW t, NEW s, NEW b, Sound(t, s), s # <<>>, IsBodyOf(b, Head(s))
  PROVE  LET r == b \o Tail(s)
         IN  /\ Resume(r) = r /\ r # <<>> /\ Head(r) = b[1]
             /\ Depth(r) = Depth(s)
             /\ Reopens(s) => Reopens(r)
             /\ LacksRaw(s) /\ Head(s) # "run" => LacksRaw(r)
             /\ OnlyCloses(s) => OnlyCloses(r)
<1> DEFINE h == Head(s)
           v == Tail(s)
           r == b \o v
           n == Len(b)
<1>1. /\ b \in Seq(Step) /\ b # <<>> /\ b[1] \notin Marks /\ h \notin Marks
      /\ \A i \in 1..n : StepReplaces(b, h, i)
  BY BodyReplaces DEF Replaces
<1>2. /\ s \in Seq(Step) /\ v \in Seq(Step) /\ Ends(s, v, 1) /\ 1 \in DOMAIN s /\ h = s[1]
      /\ v # <<>> <=> 2 \in DOMAIN s
  BY SoundTail
<1>3. n \in Nat \ {0} /\ 1 \in 1..n
  BY <1>1, EmptySeq
<1>4. r \in Seq(Step) /\ Ends(r, v, n) /\ \A i \in 1..n : r[i] = b[i]
  BY <1>1, <1>2, JoinEnds
<1>5. /\ DOMAIN r = 1..Len(r) /\ Len(r) = Len(v) + n /\ DOMAIN v = 1..Len(v) /\ Len(v) \in Nat
      /\ 1 \in DOMAIN r /\ r # <<>> /\ Head(r) = b[1]
  <2>1. Len(r) = Len(v) + n /\ Len(v) \in Nat /\ DOMAIN r = 1..Len(r) /\ DOMAIN v = 1..Len(v)
    BY <1>2, <1>4 DEF Ends
  <2>2. 1 \in DOMAIN r /\ r # <<>>
    BY <1>3, <2>1
  <2>3. Head(r) = r[1]
    BY <1>4, <2>2, TailEnds
  <2>4. QED
    BY <1>3, <1>4, <2>1, <2>2, <2>3
<1> HIDE DEF h, v, r, n
<1>6. Resume(r) = r
  BY <1>1, <1>3, <1>4, <1>5, ResumeKeeps
<1>7. Depth(r) = Depth(s)
  <2>1. Depth(r) = Depth(v)
    <3>1. \A i \in 1..n : r[i] # "return"
      BY <1>1, <1>4 DEF StepReplaces
    <3>2. QED
      BY <1>2, <1>4, <3>1, DepthAdds
  <2>2. Depth(s) = Depth(v)
    <3>1. \A i \in 1..1 : s[i] # "return"
      BY <1>1, <1>2 DEF Marks
    <3>2. QED
      BY <1>2, <3>1, DepthAdds
  <2>3. QED
    BY <2>1, <2>2
<1>8. ASSUME Reopens(s) PROVE Reopens(r)
  <2>1. Reopens(v)
    BY <1>2, <1>8, EndReopens
  <2>2. ReopensAt(s, 1)
    BY <1>2, <1>8 DEF Reopens
  <2>3. /\ 2 \in DOMAIN s => 1 \in DOMAIN v /\ v[1] = s[2]
        /\ 3 \in DOMAIN s => 2 \in DOMAIN v /\ v[2] = s[3]
    <3>1. Len(s) = Len(v) + 1 /\ DOMAIN s = 1..Len(s) /\ \A i \in DOMAIN v : s[i + 1] = v[i]
      BY <1>2 DEF Ends
    <3>2. QED
      BY <1>5, <3>1
  <2>4. /\ 1 \in DOMAIN v => n + 1 \in DOMAIN r /\ r[n + 1] = v[1]
        /\ 2 \in DOMAIN v => n + 2 \in DOMAIN r /\ r[n + 2] = v[2]
    <3>1. \A i \in DOMAIN v : r[i + n] = v[i]
      BY <1>4 DEF Ends
    <3>2. 1 + n = n + 1 /\ 2 + n = n + 2
      BY <1>3
    <3>3. 1 \in DOMAIN v => n + 1 \in DOMAIN r
      BY <1>3, <1>5
    <3>4. 2 \in DOMAIN v => n + 2 \in DOMAIN r
      BY <1>3, <1>5
    <3>5. QED
      BY <3>1, <3>2, <3>3, <3>4
  <2>5. ASSUME NEW i \in 1..n PROVE ReopensAt(r, i)
    <3>1. r[i] = b[i] /\ StepReplaces(b, h, i)
      BY <1>1, <1>4
    <3>2. b[i] # "closeConnection"
      BY <3>1 DEF StepReplaces
    <3>3. ASSUME b[i] = "strategy.closeConnection"
          PROVE  i + 2 \in DOMAIN r /\ r[i + 1] = "catch" /\ r[i + 2] = "openConnection"
      <4>1. i = 1 /\ n = 2 /\ b[2] = "catch" /\ h = "closeConnection"
        BY <3>1, <3>3 DEF StepReplaces, n
      <4>2. 2 \in DOMAIN s /\ s[2] = "openConnection"
        BY <1>2, <2>2, <4>1 DEF ReopensAt
      <4>3. n + 1 \in DOMAIN r /\ r[n + 1] = "openConnection"
        BY <2>3, <2>4, <4>2
      <4>4. 2 \in 1..n /\ i + 1 = 2 /\ i + 2 = n + 1
        BY <4>1
      <4>5. QED
        BY <1>4, <4>1, <4>3, <4>4
    <3>4. ASSUME b[i] = "forgetHandle"
          PROVE  i + 2 \in DOMAIN r /\ r[i + 1] = "catch" /\ r[i + 2] = "openConnection"
      <4>1. i = 1 /\ n = 1 /\ h = "strategy.closeConnection"
        BY <3>1, <3>4 DEF StepReplaces, n
      <4>2. 3 \in DOMAIN s /\ s[2] = "catch" /\ s[3] = "openConnection"
        BY <1>2, <2>2, <4>1 DEF ReopensAt
      <4>3. 2 \in DOMAIN s
        <5>1. DOMAIN s = 1..Len(s) /\ Len(s) \in Nat
          BY <1>2
        <5>2. QED
          BY <4>2, <5>1
      <4>4. n + 2 \in DOMAIN r /\ r[n + 1] = "catch" /\ r[n + 2] = "openConnection"
        BY <2>3, <2>4, <4>2, <4>3
      <4>5. i + 1 = n + 1 /\ i + 2 = n + 2
        BY <4>1
      <4>6. QED
        BY <4>4, <4>5
    <3>5. QED
      BY <3>1, <3>2, <3>3, <3>4 DEF ReopensAt
  <2>6. QED
    BY <1>2, <1>4, <2>1, <2>5, EndReopens
<1>9. ASSUME LacksRaw(s), h # "run" PROVE LacksRaw(r)
  <2>1. LacksRaw(v) /\ h \notin RawSteps
    BY <1>2, <1>9, EndLacksRaw DEF LacksRaw
  <2>2. \A i \in 1..n : r[i] \notin RawSteps
    BY <1>1, <1>4, <1>9, <2>1 DEF StepReplaces
  <2>3. QED
    BY <1>2, <1>4, <2>1, <2>2, EndLacksRaw
<1>10. ASSUME OnlyCloses(s), NEW i \in DOMAIN r PROVE r[i] \in Closing
  <2>1. CASE i <= n
    <3>1. h \in Closing /\ i \in 1..n
      BY <1>2, <1>3, <1>5, <1>10, <2>1 DEF OnlyCloses
    <3>2. QED
      BY <1>1, <1>4, <3>1 DEF StepReplaces
  <2>2. CASE i > n
    <3>1. i - n \in DOMAIN v /\ v[i - n] = r[i]
      BY <1>2, <1>4, <2>2, EndElements
    <3>2. (i - n) + 1 \in DOMAIN s /\ s[(i - n) + 1] = v[i - n]
      BY <1>2, <3>1, EndElements
    <3>3. QED
      BY <1>10, <3>1, <3>2 DEF OnlyCloses
  <2>3. QED
    BY <1>3, <1>5, <2>1, <2>2
<1>11. QED
  BY <1>5, <1>6, <1>7, <1>8, <1>9, <1>10 DEF OnlyCloses, h, v, r

(* A return: r is what is behind the first d steps of s, which are the one *)
(* that returns and the marks that follow it.                              *)
Behind(s, r, d) ==
  /\ Ends(s, r, d) /\ d \in 1..Len(s)
  /\ \A j \in 2..d : s[j] \in Marks
  /\ r # <<>> <=> d + 1 \in DOMAIN s
  /\ r # <<>> => Head(r) = s[d + 1] /\ Head(r) \notin Marks

LEMMA ReturnPasses ==
  ASSUME NEW S, NEW s \in Seq(S), s # <<>>
  PROVE  Resume(Tail(s)) \in Seq(S) /\ \E d \in Nat : Behind(s, Resume(Tail(s)), d)
<1> DEFINE v == Tail(s)
           r == Resume(v)
<1>1. v \in Seq(S) /\ Ends(s, v, 1)
  BY TailEnds
<1>2. r \in Seq(S)
  BY <1>1, ResumePasses
<1>3. PICK d \in Nat : Passed(v, r, d)
  BY <1>1, ResumePasses
<1> HIDE DEF v, r
<1>4. Ends(v, r, d) /\ d \in 0..Len(v)
  BY <1>3 DEF Passed
<1>5. Ends(s, r, 1 + d)
  BY <1>1, <1>2, <1>4, EndsTransitive
<1>6. /\ DOMAIN s = 1..Len(s) /\ DOMAIN v = 1..Len(v) /\ DOMAIN r = 1..Len(r)
      /\ Len(s) = Len(v) + 1 /\ Len(s) = Len(r) + (1 + d) /\ Len(r) \in Nat /\ Len(v) \in Nat
      /\ \A i \in DOMAIN v : s[i + 1] = v[i]
  BY <1>1, <1>2, <1>5 DEF Ends
<1>7. ASSUME NEW j \in 2..(1 + d) PROVE s[j] \in Marks
  <2>1. j - 1 \in 1..d /\ (j - 1) + 1 = j /\ j - 1 \in DOMAIN v
    BY <1>4, <1>6
  <2>2. v[j - 1] \in Marks /\ s[j] = v[j - 1]
    <3>1. s[(j - 1) + 1] = v[j - 1]
      BY <1>6, <2>1
    <3>2. QED
      BY <1>3, <2>1, <3>1 DEF Passed
  <2>3. QED
    BY <2>2
<1>8. r # <<>> <=> (1 + d) + 1 \in DOMAIN s
  <2>1. r # <<>> <=> 1 \in DOMAIN r
    BY <1>2, NotEmpty
  <2>2. QED
    BY <1>6, <2>1
<1>9. ASSUME r # <<>> PROVE Head(r) = s[(1 + d) + 1] /\ Head(r) \notin Marks
  <2>1. Head(r) \notin Marks /\ d + 1 \in DOMAIN v /\ Head(r) = v[d + 1]
    BY <1>3, <1>9 DEF Passed
  <2>2. s[(d + 1) + 1] = v[d + 1] /\ (d + 1) + 1 = (1 + d) + 1
    BY <1>6, <2>1
  <2>3. QED
    BY <2>1, <2>2
<1>10. 1 + d \in 1..Len(s) /\ 1 + d \in Nat
  BY <1>4, <1>6
<1>11. Behind(s, r, 1 + d)
  BY <1>5, <1>7, <1>8, <1>9, <1>10 DEF Behind
<1>12. QED
  BY <1>2, <1>10, <1>11 DEF r, v

(* A return keeps what the invariant says of a whole stack. *)
LEMMA ReturnKeeps ==
  ASSUME NEW t, NEW s, Sound(t, s), s # <<>>
  PROVE  LET r == Resume(Tail(s))
         IN  /\ Sound(t, r)
             /\ Depth(r) \in Nat /\ Depth(s) \in Nat /\ Depth(r) <= Depth(s)
             /\ Reopens(s) => Reopens(r)
             /\ LacksRaw(s) \/ Head(s) \in RawSteps => LacksRaw(r)
             /\ OnlyCloses(s) => OnlyCloses(r)
<1> DEFINE r == Resume(Tail(s))
<1>1. s \in Seq(Step) /\ \A i \in DOMAIN s : Fits(t, s, i)
  BY DEF Sound
<1>2. r \in Seq(Step) /\ \E d \in Nat : Behind(s, r, d)
  BY <1>1, ReturnPasses
<1>3. PICK d \in Nat : Behind(s, r, d)
  BY <1>2
<1> HIDE DEF r
<1>4. Ends(s, r, d) /\ d \in 1..Len(s)
  BY <1>3 DEF Behind
<1>5. Sound(t, r)
  BY <1>2, <1>4, EndIsSound
<1>6. Depth(r) \in Nat /\ Depth(s) \in Nat /\ Depth(r) <= Depth(s)
  BY <1>1, <1>2, <1>4, DepthAdds
<1>7. Reopens(s) => Reopens(r)
  BY <1>1, <1>2, <1>4, EndReopens
<1>8. LacksRaw(s) => LacksRaw(r)
  BY <1>1, <1>2, <1>4, EndLacksRaw
<1>9. ASSUME NEW i \in DOMAIN r PROVE i + d \in DOMAIN s /\ s[i + d] = r[i] /\ i + d > 1
  <2>1. i \in Nat /\ i >= 1
    BY <1>2
  <2>2. i + d > 1
    BY <1>4, <2>1
  <2>3. QED
    BY <1>1, <1>2, <1>4, <2>2, EndElements
<1>10. ASSUME Head(s) \in RawSteps PROVE LacksRaw(r)
  <2>1. Head(s) = s[1] /\ 1 \in DOMAIN s
    BY <1>1, TailEnds
  <2>2. \A j \in DOMAIN s : j > 1 => s[j] \notin RawSteps
    BY <1>1, <1>10, <2>1 DEF Fits, MayComeAfter
  <2>3. QED
    BY <1>9, <2>2 DEF LacksRaw
<1>11. OnlyCloses(s) => OnlyCloses(r)
  BY <1>9 DEF OnlyCloses
<1>12. QED
  BY <1>5, <1>6, <1>7, <1>8, <1>10, <1>11 DEF r

(* What a thread returns to. *)
LEMMA ReturnsTo ==
  ASSUME NEW t, NEW s, Sound(t, s), s # <<>>
  PROVE  LET r == Resume(Tail(s))
         IN  /\ r # <<>> => Head(r) \notin Marks \cup {"produceError", "receiveTrash"}
             /\ r # <<>> /\ Head(r) \in Transfers => Head(s) = "testHandle"
             /\ r # <<>> /\ Head(r) = "claimInterface" => Head(s) = "openDevice"
             /\ Head(s) \in {"run", "launch", "exitSafely"} => r = <<>>
             /\ r # <<>> /\ Head(s) = "order" => Head(r) = "exitSafely"
             /\ Head(s) = "strategy.openConnection" =>
                  Depth(r) < Depth(s) \/ (r # <<>> /\ Head(r) = "launch")
             /\ Head(s) = "produceError" =>
                  Depth(r) < Depth(s) \/ (r # <<>> /\ Head(r) = "closeConnection")
             /\ Head(s) = "produceError" /\ s[2] = "closeConnection" =>
                  r # <<>> /\ Head(r) = "closeConnection"
             /\ Head(s) = "forgetHandle" /\ Reopens(s) => r # <<>> /\ Head(r) = "openConnection"
<1> DEFINE r == Resume(Tail(s))
<1>1. s \in Seq(Step) /\ \A i \in DOMAIN s : Fits(t, s, i)
  BY DEF Sound
<1>2. r \in Seq(Step) /\ \E d \in Nat : Behind(s, r, d)
  BY <1>1, ReturnPasses
<1>3. PICK d \in Nat : Behind(s, r, d)
  BY <1>2
<1> HIDE DEF r
<1>4. Ends(s, r, d) /\ d \in 1..Len(s) /\ DOMAIN s = 1..Len(s) /\ Len(s) \in Nat
  BY <1>1, <1>3 DEF Behind
<1>5. Head(s) = s[1] /\ 1 \in DOMAIN s
  BY <1>1, TailEnds
<1>6. Fits(t, s, 1) /\ (1 + 1 = 2 /\ 1 + 2 = 3)
  BY <1>1, <1>5
<1>7. ASSUME r # <<>>
      PROVE  /\ Head(r) = s[d + 1] /\ Head(r) \notin Marks /\ MayFollow(s[d], s[d + 1])
             /\ d = 1 \/ s[d] \in Marks
  <2>1. d \in DOMAIN s /\ d + 1 \in DOMAIN s /\ (d = 1 \/ d \in 2..d)
    BY <1>3, <1>4, <1>7 DEF Behind
  <2>2. MayFollow(s[d], s[d + 1])
    BY <1>1, <2>1 DEF Fits
  <2>3. QED
    BY <1>3, <1>7, <2>1, <2>2 DEF Behind
<1>8. r # <<>> /\ Head(r) \in Transfers => Head(s) = "testHandle"
  BY <1>5, <1>7 DEF MayFollow, Marks
<1>9. r # <<>> /\ Head(r) = "claimInterface" => Head(s) = "openDevice"
  BY <1>5, <1>7 DEF MayFollow, Marks
<1>10. r # <<>> => Head(r) \notin {"produceError", "receiveTrash"}
  BY <1>7 DEF MayFollow
<1>11. ASSUME Head(s) \in {"run", "launch", "exitSafely"} PROVE r = <<>>
  <2>1. 2 \notin DOMAIN s
    BY <1>5, <1>6, <1>11 DEF Fits, MayFollow
  <2>2. d + 1 \notin DOMAIN s
    BY <1>4, <2>1
  <2>3. QED
    BY <1>3, <2>2 DEF Behind
<1>12. r # <<>> /\ Head(s) = "order" => Head(r) = "exitSafely"
  <2>1. ASSUME Head(s) = "order", r # <<>> PROVE Head(r) = "exitSafely"
    <3>1. 2 \in DOMAIN s => s[2] = "exitSafely"
      BY <1>5, <1>6, <2>1 DEF Fits, MayFollow
    <3>2. d + 1 \in DOMAIN s
      BY <1>3, <2>1 DEF Behind
    <3>3. 2 \in DOMAIN s /\ (d = 1 \/ 2 \in 2..d)
      BY <1>4, <3>2
    <3>4. d = 1
      BY <1>3, <3>1, <3>3 DEF Behind, Marks
    <3>5. QED
      BY <1>7, <2>1, <3>1, <3>3, <3>4
  <2>2. QED
    BY <2>1
<1>13. ASSUME NEW k \in DOMAIN s, k > 1, \A j \in 2..(k - 1) : s[j] \in Marks
       PROVE  /\ s[k] \in Marks => k <= d
              /\ s[k] \notin Marks => k = d + 1 /\ r # <<>> /\ Head(r) = s[k]
  <2>1. d + 1 \in DOMAIN s => s[d + 1] \notin Marks
    BY <1>3 DEF Behind
  <2>2. k <= d + 1
    <3>1. k > d + 1 => d + 1 \in 2..(k - 1) /\ d + 1 \in DOMAIN s
      BY <1>4
    <3>2. QED
      BY <1>13, <2>1, <3>1, <1>4
  <2>3. s[k] \in Marks => k # d + 1
    BY <2>1
  <2>4. s[k] \notin Marks => ~(k <= d)
    <3>1. k <= d => k \in 2..d
      BY <1>4, <1>13
    <3>2. QED
      BY <1>3, <3>1 DEF Behind
  <2>5. k \in Nat
    BY <1>4
  <2>6. k = d + 1 => r # <<>> /\ Head(r) = s[k]
    BY <1>3 DEF Behind
  <2>7. QED
    BY <1>4, <2>2, <2>3, <2>4, <2>5, <2>6
<1>14. ASSUME NEW k \in DOMAIN s, k <= d, s[k] = "return" PROVE Depth(r) < Depth(s)
  <2>1. k \in 1..d
    BY <1>4, <1>14
  <2>2. QED
    BY <1>1, <1>2, <1>4, <1>14, <2>1, DepthAdds
<1>15. ASSUME Head(s) = "strategy.openConnection"
       PROVE  Depth(r) < Depth(s) \/ (r # <<>> /\ Head(r) = "launch")
  <2>1. 3 \in DOMAIN s /\ s[2] = "catch" /\ s[3] \in {"return", "launch"}
    BY <1>5, <1>6, <1>15 DEF Fits
  <2>2. \A j \in 2..(3 - 1) : s[j] \in Marks
    BY <2>1 DEF Marks
  <2>3. CASE s[3] = "return"
    <3>1. 3 <= d
      BY <1>13, <2>1, <2>2, <2>3 DEF Marks
    <3>2. QED
      BY <1>14, <2>1, <2>3, <3>1
  <2>4. CASE s[3] = "launch"
    BY <1>13, <2>1, <2>2, <2>4 DEF Marks
  <2>5. QED
    BY <2>1, <2>3, <2>4
<1>16. ASSUME Head(s) = "produceError"
       PROVE  Depth(r) < Depth(s) \/ (r # <<>> /\ Head(r) = "closeConnection")
  <2>1. 2 \in DOMAIN s /\ s[2] \in {"closeConnection", "return"}
    BY <1>5, <1>6, <1>16 DEF Fits, MayFollow
  <2>2. \A j \in 2..(2 - 1) : s[j] \in Marks
    OBVIOUS
  <2>3. CASE s[2] = "return"
    <3>1. 2 <= d
      BY <1>13, <2>1, <2>2, <2>3 DEF Marks
    <3>2. QED
      BY <1>14, <2>1, <2>3, <3>1
  <2>4. CASE s[2] = "closeConnection"
    BY <1>13, <2>1, <2>2, <2>4 DEF Marks
  <2>5. QED
    BY <2>1, <2>3, <2>4
<1>17. ASSUME Head(s) = "forgetHandle", Reopens(s)
       PROVE  r # <<>> /\ Head(r) = "openConnection"
  <2>1. 3 \in DOMAIN s /\ s[2] = "catch" /\ s[3] = "openConnection"
    BY <1>5, <1>6, <1>17 DEF Reopens, ReopensAt
  <2>2. \A j \in 2..(3 - 1) : s[j] \in Marks
    BY <2>1 DEF Marks
  <2>3. QED
    BY <1>13, <2>1, <2>2 DEF Marks
<1>18. ASSUME Head(s) = "produceError", s[2] = "closeConnection"
       PROVE  r # <<>> /\ Head(r) = "closeConnection"
  <2>1. 2 \in DOMAIN s
    BY <1>5, <1>6, <1>18 DEF Fits
  <2>2. \A j \in 2..(2 - 1) : s[j] \in Marks
    OBVIOUS
  <2>3. QED
    BY <1>13, <1>18, <2>1, <2>2 DEF Marks
<1>19. QED
  BY <1>7, <1>8, <1>9, <1>10, <1>11, <1>15, <1>16, <1>17, <1>18, <1>12 DEF r

(* While it fetches, a thread is in no handler. *)
LEMMA FetchingIsNotDeep ==
  ASSUME NEW t, NEW s, Sound(t, s), s # <<>>, Head(s) \in Fetching
  PROVE  Depth(s) = 0
<1>1. s \in Seq(Step) /\ 1 \in DOMAIN s /\ Head(s) = s[1] /\ Fits(t, s, 1)
  BY TailEnds DEF Sound
<1>2. ASSUME NEW i \in DOMAIN s PROVE s[i] # "return"
  <2>1. i = 1 \/ i > 1
    BY <1>1
  <2>2. "return" \notin Fetching
    BY DEF Fetching, DeviceWait
  <2>3. QED
    BY <1>1, <2>1, <2>2 DEF Fits, MayComeAfter
<1>3. QED
  BY <1>1, <1>2, DepthIsZero

(* A strategy always throws into a try block. *)
LEMMA ExceptionIsCaught ==
  ASSUME NEW t, NEW s, Sound(t, s), s # <<>>, Head(s) \in StrategySteps
  PROVE  /\ AfterCatch(s) \in Seq(Step)
         /\ \E c \in DOMAIN s : s[c] = "catch" /\ Ends(s, AfterCatch(s), c)
<1>1. /\ s \in Seq(Step) /\ DOMAIN s = 1..Len(s) /\ Len(s) \in Nat
      /\ \A i \in DOMAIN s : Fits(t, s, i)
  BY DEF Sound
<1>2. 1 \in DOMAIN s /\ Head(s) = s[1]
  BY <1>1, TailEnds
<1>3. \E c \in DOMAIN s : s[c] = "catch"
  <2> DEFINE others == {i \in DOMAIN s : s[i] \notin StrategySteps}
  <2>1. Len(s) \in others
    <3>1. Len(s) \in DOMAIN s /\ Len(s) + 1 \notin DOMAIN s
      BY <1>1, <1>2
    <3>2. QED
      BY <1>1, <3>1 DEF Fits
  <2>2. others \subseteq Nat /\ others # {}
    BY <1>1, <2>1
  <2>3. PICK m \in others : \A j \in others : m <= j
    BY <2>2, LeastNumber
  <2>4. m # 1
    BY <1>2, <2>3
  <2>5. m - 1 \in DOMAIN s /\ (m - 1) + 1 = m /\ m \in DOMAIN s
    BY <1>1, <2>3, <2>4
  <2>6. s[m - 1] \in StrategySteps
    <3>1. ~(m <= m - 1)
      BY <1>1, <2>3
    <3>2. QED
      BY <2>3, <2>5, <3>1
  <2>7. MayFollow(s[m - 1], s[m])
    <3>1. (m - 1) + 1 \in DOMAIN s => MayFollow(s[m - 1], s[(m - 1) + 1])
      BY <1>1, <2>5 DEF Fits
    <3>2. QED
      BY <2>5, <3>1
  <2>8. s[m] = "catch"
    BY <2>3, <2>6, <2>7 DEF MayFollow
  <2>9. QED
    BY <2>5, <2>8
<1> DEFINE stops == {i \in DOMAIN s : s[i] = "catch"}
<1>4. stops \subseteq Nat /\ stops # {}
  BY <1>1, <1>3
<1>5. \E i \in stops : \A j \in stops : i <= j
  BY <1>4, LeastNumber
<1>6. Catcher(s) \in stops
  BY <1>4, <1>5 DEF Catcher
<1>7. /\ Catcher(s) + 1 \in 1..Len(s) + 1 /\ (Catcher(s) + 1) - 1 = Catcher(s)
      /\ Catcher(s) \in DOMAIN s /\ s[Catcher(s)] = "catch"
  BY <1>1, <1>6
<1>8. /\ AfterCatch(s) \in Seq(Step)
      /\ Ends(s, AfterCatch(s), (Catcher(s) + 1) - 1)
  BY <1>1, <1>7, SuffixEnds DEF AfterCatch
<1>9. QED
  BY <1>7, <1>8

(* The errors: a connection is opened only after it was closed, and is      *)
(* left closed only for a fatal error; a closed channel is closed again.   *)
LEMMA ErrorsHandled ==
  /\ \A e : IsOpenConnectionRequired(e) => IsCloseConnectionRequired(e)
  /\ \A e : IsCloseConnectionRequired(e) /\ ~IsFatalForSensorAccess(e)
              => IsOpenConnectionRequired(e)
BY DEF IsOpenConnectionRequired, IsCloseConnectionRequired, IsFatalForSensorAccess

LEMMA OneMore ==
  ASSUME NEW S, NEW u \in Seq(S), NEW v \in Seq(S), NEW x \in S,
         Len(v) = Len(u) + 1, v[Len(v)] = x, \A i \in 1..Len(u) : u[i] = v[i]
  PROVE  u \o <<x>> = v
<1>1. <<x>> \in Seq(S) /\ Len(<<x>>) = 1 /\ <<x>>[1] = x
  OBVIOUS
<1>2. /\ u \o <<x>> \in Seq(S) /\ Len(u \o <<x>>) = Len(u) + 1
      /\ \A i \in 1..Len(u) + 1 :
           (u \o <<x>>)[i] = IF i <= Len(u) THEN u[i] ELSE <<x>>[i - Len(u)]
  BY <1>1, ConcatProperties
<1>3. \A i \in 1..Len(v) : (u \o <<x>>)[i] = v[i]
  <2>1. Len(u) \in Nat /\ (Len(u) + 1) - Len(u) = 1
    OBVIOUS
  <2>2. QED
    BY <1>1, <1>2, <2>1
<1>4. QED
  BY <1>2, <1>3, SeqEqual

LEMMA OneAndOne ==
  ASSUME NEW a, NEW b
  PROVE  <<a>> \o <<b>> = <<a, b>>
<1> DEFINE u == <<a>>
           v == <<a, b>>
<1>1. /\ u \in Seq({a, b}) /\ Len(u) = 1 /\ u[1] = a
      /\ v \in Seq({a, b}) /\ Len(v) = 2 /\ v[1] = a /\ v[2] = b
  OBVIOUS
<1> HIDE DEF u, v
<1>2. \A i \in 1..1 : i = 1
  OBVIOUS
<1>3. /\ Len(v) = Len(u) + 1 /\ v[Len(v)] = b /\ b \in {a, b}
      /\ \A i \in 1..Len(u) : u[i] = v[i]
  BY <1>1, <1>2
<1>4. u \o <<b>> = v
  BY <1>1, <1>3, OneMore
<1>5. QED
  BY <1>4 DEF u, v

LEMMA TwoAndOne ==
  ASSUME NEW a, NEW b, NEW c
  PROVE  <<a, b>> \o <<c>> = <<a, b, c>>
<1> DEFINE u == <<a, b>>
           v == <<a, b, c>>
<1>1. /\ u \in Seq({a, b, c}) /\ Len(u) = 2 /\ u[1] = a /\ u[2] = b
      /\ v \in Seq({a, b, c}) /\ Len(v) = 3 /\ v[1] = a /\ v[2] = b /\ v[3] = c
  OBVIOUS
<1> HIDE DEF u, v
<1>2. \A i \in 1..2 : i = 1 \/ i = 2
  OBVIOUS
<1>3. /\ Len(v) = Len(u) + 1 /\ v[Len(v)] = c /\ c \in {a, b, c}
      /\ \A i \in 1..Len(u) : u[i] = v[i]
  BY <1>1, <1>2
<1>4. u \o <<c>> = v
  BY <1>1, <1>3, OneMore
<1>5. QED
  BY <1>4 DEF u, v

LEMMA ThreeAndOne ==
  ASSUME NEW a, NEW b, NEW c, NEW d
  PROVE  <<a, b, c>> \o <<d>> = <<a, b, c, d>>
<1> DEFINE u == <<a, b, c>>
           v == <<a, b, c, d>>
<1>1. /\ u \in Seq({a, b, c, d}) /\ Len(u) = 3 /\ u[1] = a /\ u[2] = b /\ u[3] = c
      /\ v \in Seq({a, b, c, d}) /\ Len(v) = 4
      /\ v[1] = a /\ v[2] = b /\ v[3] = c /\ v[4] = d
  OBVIOUS
<1> HIDE DEF u, v
<1>2. \A i \in 1..3 : i = 1 \/ i = 2 \/ i = 3
  OBVIOUS
<1>3. /\ Len(v) = Len(u) + 1 /\ v[Len(v)] = d /\ d \in {a, b, c, d}
      /\ \A i \in 1..Len(u) : u[i] = v[i]
  BY <1>1, <1>2
<1>4. u \o <<d>> = v
  BY <1>1, <1>3, OneMore
<1>5. QED
  BY <1>4 DEF u, v

LEMMA HandlerIs ==
  ASSUME NEW e
  PROVE  HandleCaughtError(e) =
           IF IsOpenConnectionRequired(e)
           THEN <<"produceError", "closeConnection", "openConnection", "return">>
           ELSE IF IsCloseConnectionRequired(e)
                THEN <<"produceError", "closeConnection", "return">>
                ELSE <<"produceError", "return">>
<1>1. /\ <<"produceError">> \o <<>> = <<"produceError">>
      /\ <<"produceError", "closeConnection">> \o <<>> = <<"produceError", "closeConnection">>
  OBVIOUS
<1>2. /\ <<"produceError">> \o <<"return">> = <<"produceError", "return">>
      /\ <<"produceError">> \o <<"closeConnection">> = <<"produceError", "closeConnection">>
      /\ <<"produceError", "closeConnection">> \o <<"return">>
           = <<"produceError", "closeConnection", "return">>
      /\ <<"produceError", "closeConnection">> \o <<"openConnection">>
           = <<"produceError", "closeConnection", "openConnection">>
      /\ <<"produceError", "closeConnection", "openConnection">> \o <<"return">>
           = <<"produceError", "closeConnection", "openConnection", "return">>
  BY OneAndOne, TwoAndOne, ThreeAndOne
<1>3. CASE IsOpenConnectionRequired(e)
  BY <1>2, <1>3, ErrorsHandled DEF HandleCaughtError
<1>4. CASE ~IsOpenConnectionRequired(e) /\ IsCloseConnectionRequired(e)
  BY <1>1, <1>2, <1>4 DEF HandleCaughtError
<1>5. CASE ~IsOpenConnectionRequired(e) /\ ~IsCloseConnectionRequired(e)
  BY <1>1, <1>2, <1>5 DEF HandleCaughtError
<1>6. QED
  BY <1>3, <1>4, <1>5

LEMMA InvalidHandleCloses == IsCloseConnectionRequired(InvalidHandle)
<1> DEFINE table == CanlibTable \cup CanlibDriverTable
<1>1. ASSUME NEW row \in table, "INVHANDLE" \in row.codes
      PROVE  row.error.category = "UNHANDLED_ERROR"
  <2>1. CASE row \in CanlibTable
    BY <1>1, <2>1 DEF CanlibTable, Row, NewError
  <2>2. CASE row \in CanlibDriverTable
    BY <1>1, <2>2 DEF CanlibDriverTable, Row, NewError
  <2>3. QED
    BY <1>1, <2>1, <2>2
<1> HIDE DEF table
<1>2. CASE \E row \in table : "INVHANDLE" \in row.codes
  <2>1. PICK row \in table : "INVHANDLE" \in row.codes
                             /\ ErrorFromTable(table, "INVHANDLE") = row.error
    BY <1>2 DEF ErrorFromTable
  <2>2. ErrorFromTable(table, "INVHANDLE").category = "UNHANDLED_ERROR"
    BY <1>1, <2>1
  <2>3. QED
    BY <2>2 DEF InvalidHandle, KvaserCommunicationError, IsCloseConnectionRequired, table
<1>3. CASE ~\E row \in table : "INVHANDLE" \in row.codes
  <2>1. ErrorFromTable(table, "INVHANDLE") = NewError("UNRECOGNIZED_ERROR", "CRITICAL")
    BY <1>3 DEF ErrorFromTable
  <2>2. QED
    BY <2>1 DEF InvalidHandle, KvaserCommunicationError, IsCloseConnectionRequired, table,
                NewError
<1>4. QED
  BY <1>2, <1>3

(* What a handler is: no call of a strategy, and one mark at its end. *)
HandlerStep(b, i, fatal) ==
  /\ b[i] \in Connecting \ StrategySteps
  /\ b[i] = "return" <=> i = Len(b)
  /\ i < Len(b) => MayFollow(b[i], b[i + 1])
  /\ b[i] = "closeConnection" /\ ~fatal => i < Len(b) /\ b[i + 1] = "openConnection"

IsHandler(b, closes, fatal) ==
  /\ b \in Seq(Step) /\ Len(b) >= 2 /\ b[1] = "produceError"
  /\ closes => b[2] = "closeConnection"
  /\ \A i \in 1..Len(b) : HandlerStep(b, i, fatal)

LEMMA HandlersAre ==
  ASSUME NEW e
  PROVE  IsHandler(HandleCaughtError(e), IsCloseConnectionRequired(e), IsFatalForSensorAccess(e))
<1> DEFINE b == HandleCaughtError(e)
           closes == IsCloseConnectionRequired(e)
           fatal == IsFatalForSensorAccess(e)
<1> USE DEF HandlerStep, MayFollow, Step, Work, Connecting, Fetching, StrategySteps, Transfers,
            DeviceWait, Marks
<1>1. CASE IsOpenConnectionRequired(e)
  <2>1. b = <<"produceError", "closeConnection", "openConnection", "return">>
    BY <1>1, HandlerIs
  <2>2. b \in Seq(Step)
    BY <2>1
  <2>3. /\ Len(b) = 4 /\ b[1] = "produceError" /\ b[2] = "closeConnection"
        /\ b[3] = "openConnection" /\ b[4] = "return"
    BY <2>1
  <2>4. \A i \in 1..4 : i = 1 \/ i = 2 \/ i = 3 \/ i = 4
    OBVIOUS
  <2>5. closes => b[2] = "closeConnection"
    BY <1>1, <2>3, ErrorsHandled
  <2> HIDE DEF b, closes, fatal
  <2>6. \A i \in 1..Len(b) : HandlerStep(b, i, fatal)
    BY <2>3, <2>4, <2>5
  <2>7. QED
    BY <2>2, <2>3, <2>5, <2>6 DEF IsHandler, b, closes, fatal
<1>2. CASE ~IsOpenConnectionRequired(e) /\ IsCloseConnectionRequired(e)
  <2>1. b = <<"produceError", "closeConnection", "return">>
    BY <1>2, HandlerIs
  <2>2. b \in Seq(Step)
    BY <2>1
  <2>3. /\ Len(b) = 3 /\ b[1] = "produceError" /\ b[2] = "closeConnection"
        /\ b[3] = "return"
    BY <2>1
  <2>4. \A i \in 1..3 : i = 1 \/ i = 2 \/ i = 3
    OBVIOUS
  <2>5. fatal
    BY <1>2, <2>3, ErrorsHandled
  <2> HIDE DEF b, closes, fatal
  <2>6. \A i \in 1..Len(b) : HandlerStep(b, i, fatal)
    BY <2>3, <2>4, <2>5
  <2>7. QED
    BY <2>2, <2>3, <2>5, <2>6 DEF IsHandler, b, closes, fatal
<1>3. CASE ~IsOpenConnectionRequired(e) /\ ~IsCloseConnectionRequired(e)
  <2>1. b = <<"produceError", "return">>
    BY <1>3, HandlerIs
  <2>2. b \in Seq(Step)
    BY <2>1
  <2>3. /\ Len(b) = 2 /\ b[1] = "produceError" /\ b[2] = "return"
    BY <2>1
  <2>4. \A i \in 1..2 : i = 1 \/ i = 2
    OBVIOUS
  <2>5. closes => b[2] = "closeConnection"
    BY <1>3, <2>3, ErrorsHandled
  <2> HIDE DEF b, closes, fatal
  <2>6. \A i \in 1..Len(b) : HandlerStep(b, i, fatal)
    BY <2>3, <2>4, <2>5
  <2>7. QED
    BY <2>2, <2>3, <2>5, <2>6 DEF IsHandler, b, closes, fatal
<1>4. QED
  BY <1>1, <1>2, <1>3, ErrorsHandled

(* The handler of an error produces it, and closes what it has to. *)
Handles(r, e) ==
  /\ r # <<>> /\ Head(r) = "produceError"
  /\ IsCloseConnectionRequired(e) => 2 \in DOMAIN r /\ r[2] = "closeConnection"

(* An exception keeps what the invariant says of a whole stack. *)
LEMMA ExceptionKeeps ==
  ASSUME NEW t, NEW s, NEW e, Sound(t, s), s # <<>>, Head(s) \in StrategySteps,
         NEW r, r = HandleCaughtError(e) \o AfterCatch(s)
  PROVE  /\ Sound(t, r) /\ Handles(r, e)
         /\ Depth(r) \in Nat /\ Depth(s) \in Nat /\ Depth(r) <= Depth(s) + 1
         /\ Reopens(s) /\ ~IsFatalForSensorAccess(e) => Reopens(r)
         /\ LacksRaw(s) \/ Head(s) \in RawSteps => LacksRaw(r)
<1> DEFINE b == HandleCaughtError(e)
           v == AfterCatch(s)
           n == Len(b)
           closes == IsCloseConnectionRequired(e)
           fatal == IsFatalForSensorAccess(e)
<1>0. r = b \o v
  OBVIOUS
<1>1. IsHandler(b, closes, fatal)
  BY HandlersAre
<1>2. v \in Seq(Step) /\ \E c \in DOMAIN s : s[c] = "catch" /\ Ends(s, v, c)
  BY ExceptionIsCaught
<1>3. PICK c \in DOMAIN s : s[c] = "catch" /\ Ends(s, v, c)
  BY <1>2
<1> HIDE DEF b, v, closes, fatal
<1>4. /\ b \in Seq(Step) /\ n \in Nat /\ n >= 2 /\ b # <<>> /\ n \in 1..n
      /\ b[1] = "produceError"
      /\ closes => b[2] = "closeConnection"
      /\ \A i \in 1..n : HandlerStep(b, i, fatal)
  <2>1. b \in Seq(Step) /\ n >= 2 /\ n \in Nat
    BY <1>1 DEF IsHandler
  <2>2. b # <<>> /\ n \in 1..n
    BY <2>1
  <2>3. QED
    BY <1>1, <2>1, <2>2 DEF IsHandler
<1>5. r \in Seq(Step) /\ Ends(r, v, n) /\ \A i \in 1..n : r[i] = b[i]
  BY <1>0, <1>2, <1>4, JoinEnds
<1>6. /\ DOMAIN r = 1..Len(r) /\ Len(r) = Len(v) + n /\ Len(v) \in Nat /\ 1..n \subseteq DOMAIN r
      /\ 1 \in 1..n /\ 2 \in 1..n
  <2>1. Len(r) = Len(v) + n /\ Len(v) \in Nat /\ DOMAIN r = 1..Len(r)
    BY <1>2, <1>5 DEF Ends
  <2>2. QED
    BY <1>4, <2>1
<1> HIDE DEF n
<1>7. r # <<>> /\ r[1] = "produceError"
  <2>1. r # <<>>
    BY <1>5, <1>6, NotEmpty
  <2>2. QED
    BY <1>4, <1>5, <1>6, <2>1
<1>8. /\ s \in Seq(Step) /\ 1 \in DOMAIN s /\ Head(s) = s[1]
      /\ \A i \in DOMAIN s : Fits(t, s, i) /\ i \in Nat
  <2>1. s \in Seq(Step) /\ \A i \in DOMAIN s : Fits(t, s, i)
    BY DEF Sound
  <2>2. QED
    BY <2>1, TailEnds
<1>9. Sound(t, r)
  <2>1. Sound(t, v)
    BY <1>2, <1>3, EndIsSound
  <2>2. ASSUME v # <<>> PROVE MayFollow(b[n], v[1])
    <3>1. 1 \in DOMAIN v
      BY <1>2, <2>2, NotEmpty
    <3>2. 1 + c \in DOMAIN s /\ s[1 + c] = v[1]
      BY <1>2, <1>3, <1>8, <3>1, EndElements
    <3>3. 1 + c = c + 1
      BY <1>8
    <3>4. MayFollow("catch", v[1])
      BY <1>3, <1>8, <3>2, <3>3 DEF Fits
    <3>5. b[n] = "return"
      BY <1>4 DEF HandlerStep, n
    <3>6. QED
      BY <3>4, <3>5 DEF MayFollow, StrategySteps, DeviceWait
  <2>3. \A i \in 1..n : b[i] \in Work(t) /\ b[i] # "strategy.openConnection"
    BY <1>4 DEF HandlerStep, Work, StrategySteps
  <2>4. b[n] \notin StrategySteps \cup {"openConnection", "produceError"}
    <3>1. b[n] = "return"
      BY <1>4 DEF HandlerStep, n
    <3>2. QED
      BY <3>1 DEF StrategySteps, DeviceWait
  <2>5. ASSUME NEW i \in 1..n, NEW x PROVE MayComeAfter(b[i], x)
    <3>1. b[i] \in Connecting
      BY <1>4 DEF HandlerStep
    <3>2. QED
      BY <3>1 DEF MayComeAfter, Connecting, RawSteps, Fetching, DeviceWait, Marks
  <2>6. \A i \in 1..n : i < n => MayFollow(b[i], b[i + 1])
    BY <1>4 DEF HandlerStep, n
  <2>7. BodyFits(t, b, v)
    BY <2>2, <2>3, <2>4, <2>5, <2>6 DEF BodyFits, n
  <2>8. QED
    BY <1>0, <1>4, <2>1, <2>7, BodyIsSound
<1>10. Depth(r) \in Nat /\ Depth(s) \in Nat /\ Depth(r) <= Depth(s) + 1
  <2>1. Depth(v) \in Nat /\ Depth(s) \in Nat /\ Depth(v) <= Depth(s)
    BY <1>2, <1>3, <1>8, DepthAdds
  <2>2. n \in DOMAIN r /\ r[n] = "return" /\ \A i \in 1..(n - 1) : r[i] # "return"
    <3>1. \A i \in 1..n : r[i] = "return" <=> i = n
      <4>1. \A i \in 1..n : b[i] = "return" <=> i = n
        BY <1>4 DEF HandlerStep, n
      <4>2. QED
        BY <1>5, <4>1
    <3>2. n \in 1..n /\ \A i \in 1..(n - 1) : i \in 1..n /\ i # n
      BY <1>4 DEF n
    <3>3. QED
      BY <1>6, <3>1, <3>2
  <2>3. Depth(r) = Depth(v) + 1
    BY <1>2, <1>5, <2>2, DepthAdds
  <2>4. QED
    BY <2>1, <2>3
<1>11. closes => 2 \in DOMAIN r /\ r[2] = "closeConnection"
  BY <1>4, <1>5, <1>6
<1>12. ASSUME Reopens(s), ~fatal PROVE Reopens(r)
  <2>1. Reopens(v)
    BY <1>2, <1>3, <1>8, <1>12, EndReopens
  <2>2. ASSUME NEW i \in 1..n PROVE ReopensAt(r, i)
    <3>1. r[i] = b[i] /\ HandlerStep(b, i, fatal)
      BY <1>4, <1>5
    <3>2. b[i] = "closeConnection" => i + 1 \in 1..n /\ b[i + 1] = "openConnection"
      BY <1>4, <1>12, <3>1 DEF HandlerStep, n
    <3>3. b[i] \notin {"strategy.closeConnection", "forgetHandle"}
      BY <3>1 DEF HandlerStep, StrategySteps
    <3>4. QED
      BY <1>5, <1>6, <3>1, <3>2, <3>3 DEF ReopensAt
  <2>3. QED
    BY <1>2, <1>5, <2>1, <2>2, EndReopens
<1>13. ASSUME LacksRaw(s) \/ Head(s) \in RawSteps PROVE LacksRaw(r)
  <2>1. \A j \in DOMAIN s : j > 1 => s[j] \notin RawSteps
    BY <1>8, <1>13 DEF Fits, MayComeAfter, LacksRaw
  <2>2. ASSUME NEW i \in DOMAIN v PROVE v[i] \notin RawSteps
    <3>1. i + c \in DOMAIN s /\ s[i + c] = v[i]
      BY <1>2, <1>3, <1>8, EndElements
    <3>2. i + c > 1
      BY <1>2, <1>8
    <3>3. QED
      BY <2>1, <3>1, <3>2
  <2>3. \A i \in 1..n : r[i] \notin RawSteps
    <3>1. \A i \in 1..n : b[i] \in Connecting
      BY <1>4 DEF HandlerStep
    <3>2. QED
      BY <1>5, <3>1 DEF Connecting, RawSteps, Marks
  <2>4. LacksRaw(v)
    BY <2>2 DEF LacksRaw
  <2>5. QED
    BY <1>2, <1>5, <2>3, <2>4, EndLacksRaw
<1>14. Handles(r, e)
  <2>1. Head(r) = r[1]
    BY <1>5, <1>7, TailEnds
  <2>2. QED
    BY <1>7, <1>11, <2>1 DEF Handles, closes
<1>15. QED
  BY <1>9, <1>10, <1>12, <1>13, <1>14 DEF fatal
=============================================================================
