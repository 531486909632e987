----------------------------- MODULE ServiceProofs -----------------------------
(***************************************************************************)
(* Theorems about modules that do not meet at run time: the uploads of     *)
(* s3fs (S3Upload), for every number of inputs and of workers; the log     *)
(* queue (LogQueue), for all goroutines and every capacity; sort orders    *)
(* (SortOrder), for any number of rows; the worker (Worker), for any       *)
(* callers; interrupted jobs (Interrupt), for any jobs and users; versions *)
(* of any length, client addresses behind any chain and working days over  *)
(* any range (Values); pages of any size (Paging); and permutations of any *)
(* length (PermCounter).                                                   *)
(***************************************************************************)
EXTENDS S3Upload, LogQueue, SortOrder, Worker, Interrupt, Values, Paging,
        PermCounter, SequenceTheorems, FiniteSetTheorems, WellFoundedInduction, TLAPS

-----------------------------------------------------------------------------
(* Uploads.                                                                *)

S3TypeOK ==
  /\ Count \in Nat /\ DOMAIN s3Input = 1..Count
  /\ s3Pc \in {"opening", "sending", "waiting", "returned"}
  /\ s3Next \in 1..(Count + 1)
  /\ s3Files \subseteq 1..Count
  /\ s3Worker \in [1..S3Limit -> 0..Count]
  /\ s3Failed \subseteq S3Workers /\ s3Ended \subseteq S3Workers
  /\ s3Seen \in Nat /\ s3Seen <= Cardinality(s3Ended)
  /\ s3Closed \in BOOLEAN
  /\ s3Ctx \in {"live", "cancelled", "stopped"}
  /\ s3Stored \subseteq 1..Count /\ s3Lost \subseteq 1..Count
  /\ s3Result \in {"none", "invalid", "config", "nil", "error", "cancelled"}

\* Where Upload is, and what that says of the workers and of workerC.
S3Phases ==
  /\ s3Pc = "opening" \/ s3Result \in {"invalid", "config"} =>
       /\ \A w \in S3Workers : s3Worker[w] = 0
       /\ s3Failed = {} /\ s3Ended = {} /\ s3Stored = {} /\ s3Lost = {}
       /\ s3Seen = 0 /\ s3Ctx = "live"
  /\ s3Closed => s3Pc \in {"waiting", "returned"}
  /\ s3Pc = "waiting" => s3Closed /\ s3Next = Count + 1
  /\ s3Pc \in {"sending", "waiting"} => s3Ctx \in {"live", "cancelled"}
  /\ s3Pc = "returned" <=> s3Result # "none"

\* An input is stored, or with one worker, or neither.
Held ==
  /\ \A w \in S3Workers :
       /\ w \in s3Failed => s3Worker[w] # 0
       /\ w \in s3Ended => s3Worker[w] = 0 /\ w \notin s3Failed
       /\ s3Worker[w] \notin s3Stored
       /\ s3Pc \in {"sending", "waiting"} => s3Worker[w] < s3Next
       /\ \A v \in S3Workers : s3Worker[v] = s3Worker[w] /\ v # w => s3Worker[v] = 0
  /\ s3Pc \in {"sending", "waiting"} => \A i \in s3Stored : i < s3Next

\* While Run lives, an input it has handed on is stored, with a worker, or lost, and
\* lost only after a cancellation.
NothingLost ==
  s3Pc \in {"sending", "waiting"} =>
    /\ \A i \in 1..(s3Next - 1) :
         i \in s3Stored \/ i \in s3Lost \/ \E w \in S3Workers : s3Worker[w] = i
    /\ s3Lost # {} => s3Ctx = "cancelled"

\* What was reported stays true, whatever the workers left behind still do.
Reported ==
  /\ s3Result = "nil" =>
       /\ s3Stored \cup s3Lost = 1..Count /\ s3Ended = S3Workers
       /\ s3Lost # {} => s3Ctx = "cancelled"
  /\ s3Result = "error" =>
       \E i \in 1..Count : i \notin s3Stored /\ \A w \in S3Workers : s3Worker[w] # i
  /\ s3Pc = "returned" /\ ~ s3Closed => s3Result \in {"invalid", "config", "cancelled"}
  /\ s3Pc = "returned" /\ s3Files # {} => s3Result = "invalid"

S3Inv == S3TypeOK /\ S3Phases /\ Held /\ NothingLost /\ Reported

LEMMA WorkersFinite ==
  ASSUME Count \in Nat
  PROVE  /\ S3Workers \subseteq 1..S3Limit
         /\ IsFiniteSet(S3Workers) /\ Cardinality(S3Workers) \in Nat
         /\ \A s \in SUBSET S3Workers :
              /\ IsFiniteSet(s) /\ Cardinality(s) \in Nat
              /\ Cardinality(s) <= Cardinality(S3Workers)
              /\ Cardinality(s) = Cardinality(S3Workers) => s = S3Workers
<1>1. S3Workers \subseteq 1..S3Limit
  BY S3Assumption DEF S3Workers
<1>2. IsFiniteSet(S3Workers)
  BY S3Assumption, FS_Interval DEF S3Workers
<1> QED
  BY <1>1, <1>2, FS_Subset, FS_CardinalityType

LEMMA CountKept == s3Input' = s3Input => Count' = Count /\ S3Workers' = S3Workers
BY DEF Count, S3Workers

LEMMA S3InitInv == S3Init => S3Inv
<1> SUFFICES ASSUME S3Init PROVE S3Inv
  OBVIOUS
<1>1. PICK n \in 0..MaxInputs : s3Input \in [1..n -> {"body", "file", "bad"}]
  BY DEF S3Init
<1>2. n \in Nat /\ Count = n /\ DOMAIN s3Input = 1..Count
  <2>1. n \in Nat /\ DOMAIN s3Input = 1..n
    BY <1>1, S3Assumption
  <2>2. Cardinality(1..n) = n
    BY <2>1, FS_Interval
  <2> QED
    BY <2>1, <2>2 DEF Count
<1>3. Cardinality({}) = 0
  BY FS_EmptySet
<1>4. /\ s3Pc = "opening" /\ s3Next = 1 /\ s3Files = {} /\ s3Failed = {} /\ s3Ended = {}
      /\ s3Worker = [w \in 1..S3Limit |-> 0]
      /\ s3Seen = 0 /\ s3Closed = FALSE /\ s3Ctx = "live" /\ s3Stored = {} /\ s3Lost = {}
      /\ s3Result = "none"
  BY DEF S3Init
<1>5. \A w \in S3Workers : s3Worker[w] = 0
  BY <1>2, <1>4, WorkersFinite
<1>6. S3TypeOK
  <2>1. s3Worker \in [1..S3Limit -> 0..Count]
    BY <1>2, <1>4
  <2>2. s3Seen \in Nat /\ s3Seen <= Cardinality(s3Ended) /\ s3Next \in 1..(Count + 1)
    BY <1>2, <1>3, <1>4
  <2> QED
    BY <1>2, <1>4, <2>1, <2>2 DEF S3TypeOK
<1>7. S3Phases
  BY <1>4, <1>5 DEF S3Phases
<1>8. Held
  <2>1. \A x : x \notin s3Failed /\ x \notin s3Ended /\ x \notin s3Stored
    BY <1>4
  <2>2. s3Pc \notin {"sending", "waiting"}
    BY <1>4
  <2> QED
    BY <1>5, <2>1, <2>2 DEF Held
<1>9. NothingLost /\ Reported
  BY <1>4 DEF NothingLost, Reported
<1> QED
  BY <1>6, <1>7, <1>8, <1>9 DEF S3Inv

LEMMA OpenKeeps == S3Inv /\ (OpenFile \/ OpenFails \/ NoSession \/ StartRun) => S3Inv'
<1> SUFFICES ASSUME S3Inv, OpenFile \/ OpenFails \/ NoSession \/ StartRun PROVE S3Inv'
  OBVIOUS
<1>1. /\ Count' = Count /\ S3Workers' = S3Workers /\ s3Input' = s3Input /\ Count \in Nat
      /\ s3Worker' = s3Worker /\ s3Failed' = s3Failed /\ s3Ended' = s3Ended /\ s3Seen' = s3Seen
      /\ s3Closed' = s3Closed /\ s3Ctx' = s3Ctx /\ s3Stored' = s3Stored
      /\ s3Lost' = s3Lost
  BY CountKept DEF OpenFile, OpenFails, NoSession, StartRun, S3Inv, S3TypeOK
<1>2. /\ \A w \in S3Workers : s3Worker[w] = 0
      /\ s3Failed = {} /\ s3Ended = {} /\ s3Stored = {} /\ s3Seen = 0 /\ s3Ctx = "live"
      /\ s3Lost = {} /\ ~ s3Closed /\ s3Pc = "opening" /\ s3Result = "none"
  BY DEF OpenFile, OpenFails, NoSession, StartRun, S3Inv, S3Phases
<1>3. /\ s3Next' \in 1..(Count + 1) /\ s3Files' \subseteq 1..Count
      /\ \/ s3Pc' = "opening" /\ s3Result' = "none"
         \/ s3Pc' = "sending" /\ s3Result' = "none" /\ s3Next' = 1
         \/ s3Pc' = "returned" /\ s3Result' = "invalid"
         \/ s3Pc' = "returned" /\ s3Result' = "config" /\ s3Files' = {}
  <2>1. s3Next \in 1..(Count + 1) /\ s3Files \subseteq 1..Count /\ Count \in Nat
    BY DEF S3Inv, S3TypeOK
  <2>2. CASE OpenFile
    BY <1>2, <2>1, <2>2 DEF OpenFile
  <2>3. CASE OpenFails
    BY <2>1, <2>3 DEF OpenFails
  <2>4. CASE StartRun
    BY <1>2, <2>1, <2>4 DEF StartRun
  <2>5. CASE NoSession
    BY <2>1, <2>5 DEF NoSession
  <2> QED
    BY <2>2, <2>3, <2>4, <2>5
<1>4. S3TypeOK'
  BY <1>1, <1>3 DEF S3Inv, S3TypeOK
<1>5. S3Phases'
  BY <1>1, <1>2, <1>3 DEF S3Phases
<1>6. Held'
  BY <1>1, <1>2, <1>3 DEF Held
<1>7. NothingLost'
  <2>1. s3Pc' \in {"sending", "waiting"} => s3Next' = 1
    BY <1>3
  <2>2. \A i \in 1..(1 - 1) : FALSE
    OBVIOUS
  <2> QED
    BY <1>1, <1>2, <2>1, <2>2 DEF NothingLost
<1>8. Reported'
  BY <1>1, <1>2, <1>3 DEF Reported
<1> QED
  BY <1>4, <1>5, <1>6, <1>7, <1>8 DEF S3Inv

LEMMA HandOverKeeps ==
  ASSUME S3Inv, NEW w \in S3Workers, HandOver(w)
  PROVE  S3Inv'
<1>1. Count' = Count /\ S3Workers' = S3Workers /\ s3Input' = s3Input /\ w \in 1..S3Limit
      /\ Count \in Nat /\ s3Next \in 1..Count /\ S3Workers \subseteq 1..S3Limit
  BY CountKept, WorkersFinite DEF HandOver, S3Inv, S3TypeOK
<1>2. /\ s3Worker' \in [1..S3Limit -> 0..Count] /\ s3Worker'[w] = s3Next /\ s3Worker[w] = 0
      /\ \A v \in S3Workers \ {w} : s3Worker'[v] = s3Worker[v]
  BY <1>1 DEF HandOver, S3Inv, S3TypeOK
<1>3. S3TypeOK'
  BY <1>1, <1>2 DEF S3Inv, S3TypeOK, HandOver
<1>4. S3Phases'
  BY <1>1 DEF S3Inv, S3Phases, HandOver
<1>5. Held'
  BY <1>1, <1>2 DEF S3Inv, S3TypeOK, Held, HandOver
<1>6. NothingLost'
  <2>1. ASSUME NEW i \in 1..s3Next
        PROVE  i \in s3Stored \/ i \in s3Lost \/ \E v \in S3Workers : s3Worker'[v] = i
    <3>1. CASE i = s3Next
      BY <1>2, <3>1
    <3>2. CASE i # s3Next
      <4>1. i \in 1..(s3Next - 1)
        BY <1>1, <3>2
      <4>2. i \in s3Stored \/ i \in s3Lost \/ \E v \in S3Workers : s3Worker[v] = i
        BY <2>1, <4>1 DEF S3Inv, NothingLost, HandOver
      <4> QED
        BY <1>1, <1>2, <4>1, <4>2
    <3> QED
      BY <3>1, <3>2
  <2> QED
    BY <1>1, <2>1 DEF S3Inv, NothingLost, HandOver
<1>7. Reported'
  BY <1>1 DEF S3Inv, S3Phases, Reported, HandOver
<1> QED
  BY <1>3, <1>4, <1>5, <1>6, <1>7 DEF S3Inv

LEMMA StoreKeeps ==
  ASSUME S3Inv, NEW w \in S3Workers, Store(w)
  PROVE  S3Inv'
<1>1. Count' = Count /\ S3Workers' = S3Workers /\ s3Input' = s3Input /\ w \in 1..S3Limit
      /\ Count \in Nat /\ S3Workers \subseteq 1..S3Limit
  BY CountKept, WorkersFinite DEF Store, S3Inv, S3TypeOK
<1>2. /\ s3Worker' \in [1..S3Limit -> 0..Count] /\ s3Worker'[w] = 0 /\ s3Worker[w] \in 1..Count
      /\ \A v \in S3Workers \ {w} : s3Worker'[v] = s3Worker[v]
      /\ s3Stored' = s3Stored \cup {s3Worker[w]}
  BY <1>1 DEF Store, S3Inv, S3TypeOK
<1>3. S3TypeOK'
  BY <1>1, <1>2 DEF S3Inv, S3TypeOK, Store
<1>4. S3Phases'
  BY <1>1, <1>2 DEF S3Inv, S3Phases, Store
<1>5. Held'
  BY <1>1, <1>2 DEF S3Inv, S3TypeOK, Held, Store
<1>6. NothingLost'
  <2>1. ASSUME NEW i \in 1..(s3Next - 1),
               i \in s3Stored \/ i \in s3Lost \/ \E v \in S3Workers : s3Worker[v] = i
        PROVE  i \in s3Stored' \/ i \in s3Lost \/ \E v \in S3Workers : s3Worker'[v] = i
    <3>1. CASE s3Worker[w] = i \/ i \in s3Stored \/ i \in s3Lost
      BY <1>2, <3>1
    <3>2. CASE s3Worker[w] # i /\ \E v \in S3Workers : s3Worker[v] = i
      BY <1>2, <3>2
    <3> QED
      BY <2>1, <3>1, <3>2
  <2> QED
    BY <1>1, <2>1 DEF S3Inv, NothingLost, Store
<1>7. Reported'
  <2>1. s3Result = "nil" => w \notin s3Ended /\ s3Worker[w] # 0
    BY <1>2 DEF S3Inv, Held
  <2>2. s3Result # "nil"
    BY <2>1 DEF S3Inv, Reported
  <2>3. s3Result = "error" =>
          \E i \in 1..Count : i \notin s3Stored' /\ \A v \in S3Workers : s3Worker'[v] # i
    BY <1>2 DEF S3Inv, Reported
  <2> QED
    BY <1>1, <2>2, <2>3 DEF S3Inv, Reported, Store
<1> QED
  BY <1>3, <1>4, <1>5, <1>6, <1>7 DEF S3Inv

LEMMA StoreFailsKeeps ==
  ASSUME S3Inv, NEW w \in S3Workers, StoreFails(w)
  PROVE  S3Inv'
<1>1. Count' = Count /\ S3Workers' = S3Workers /\ s3Input' = s3Input
  BY CountKept DEF StoreFails
<1>2. S3TypeOK'
  BY <1>1 DEF S3Inv, S3TypeOK, StoreFails
<1>3. S3Phases'
  BY <1>1 DEF S3Inv, S3Phases, StoreFails
<1>4. Held'
  BY <1>1 DEF S3Inv, Held, StoreFails
<1>5. NothingLost' /\ Reported'
  BY <1>1 DEF S3Inv, NothingLost, Reported, StoreFails
<1> QED
  BY <1>2, <1>3, <1>4, <1>5 DEF S3Inv

\* A worker returns, its error unheard or delivered to Run.
LEMMA EndedTyped ==
  ASSUME S3TypeOK, NEW w \in S3Workers,
         s3Ended' = s3Ended \cup {w}, s3Failed' = s3Failed \ {w},
         s3Worker' = [s3Worker EXCEPT ![w] = 0]
  PROVE  /\ s3Worker' \in [1..S3Limit -> 0..Count] /\ s3Worker'[w] = 0
         /\ \A v \in S3Workers \ {w} : s3Worker'[v] = s3Worker[v]
         /\ s3Failed' \subseteq S3Workers /\ s3Ended' \subseteq S3Workers
         /\ s3Seen <= Cardinality(s3Ended')
<1>1. S3Workers \subseteq 1..S3Limit
  BY WorkersFinite DEF S3TypeOK
<1>2. /\ IsFiniteSet(s3Ended') /\ Cardinality(s3Ended') \in Nat
      /\ Cardinality(s3Ended) \in Nat /\ Cardinality(s3Ended) <= Cardinality(s3Ended')
  <2>1. IsFiniteSet(s3Ended') /\ s3Ended \subseteq s3Ended'
    BY WorkersFinite DEF S3TypeOK
  <2> QED
    BY <2>1, FS_Subset, FS_CardinalityType
<1> QED
  BY <1>1, <1>2 DEF S3TypeOK

LEMMA WorkerEndsKeeps ==
  ASSUME S3Inv, NEW w \in S3Workers, WorkerEnds(w)
  PROVE  S3Inv'
<1>1. Count' = Count /\ S3Workers' = S3Workers /\ s3Input' = s3Input /\ Count \in Nat
  BY CountKept DEF WorkerEnds, S3Inv, S3TypeOK
<1>2. /\ s3Worker' \in [1..S3Limit -> 0..Count] /\ s3Worker'[w] = 0
      /\ \A v \in S3Workers \ {w} : s3Worker'[v] = s3Worker[v]
      /\ s3Failed' \subseteq S3Workers /\ s3Ended' \subseteq S3Workers
      /\ s3Seen <= Cardinality(s3Ended')
  BY EndedTyped DEF WorkerEnds, S3Inv
<1>3. S3TypeOK'
  <2>1. w \in s3Failed => s3Worker[w] \in 1..Count
    BY <1>1, WorkersFinite DEF S3Inv, S3TypeOK, Held
  <2>2. s3Lost' \subseteq 1..Count
    BY <2>1 DEF S3Inv, S3TypeOK, WorkerEnds
  <2> QED
    BY <1>1, <1>2, <2>2 DEF S3Inv, S3TypeOK, WorkerEnds
<1>4. S3Phases'
  BY <1>1, <1>2 DEF S3Inv, S3Phases, WorkerEnds, Running
<1>5. Held'
  BY <1>1, <1>2 DEF S3Inv, S3TypeOK, Held, WorkerEnds
<1>6. NothingLost'
  <2> SUFFICES ASSUME s3Pc \in {"sending", "waiting"} PROVE NothingLost'
    BY DEF NothingLost, WorkerEnds
  <2>1. s3Lost' # s3Lost => w \in s3Failed /\ s3Ctx = "cancelled"
    <3>1. w \in s3Failed => s3Worker[w] # 0
      BY DEF S3Inv, Held
    <3> QED
      BY <3>1 DEF S3Inv, S3Phases, WorkerEnds
  <2>2. s3Worker[w] = 0 \/ s3Worker[w] \in s3Lost'
    BY DEF WorkerEnds
  <2>3. /\ s3Next \in Nat /\ s3Next' = s3Next /\ s3Stored' = s3Stored /\ s3Pc' = s3Pc
        /\ s3Ctx' = s3Ctx /\ s3Lost \subseteq s3Lost'
    BY DEF S3Inv, S3TypeOK, WorkerEnds
  <2>4. ASSUME NEW i \in 1..(s3Next - 1)
        PROVE  i \in s3Stored \/ i \in s3Lost' \/ \E v \in S3Workers : s3Worker'[v] = i
    <3>1. i \in s3Stored \/ i \in s3Lost \/ \E v \in S3Workers : s3Worker[v] = i
      BY DEF S3Inv, NothingLost
    <3>2. CASE s3Worker[w] = i
      BY <2>2, <2>3, <2>4, <3>2
    <3>3. CASE s3Worker[w] # i
      BY <1>2, <2>3, <3>1, <3>3
    <3> QED
      BY <3>2, <3>3
  <2> QED
    BY <1>1, <2>1, <2>3, <2>4 DEF S3Inv, NothingLost
<1>7. Reported'
  BY <1>1, <1>2 DEF S3Inv, Reported, WorkerEnds
<1> QED
  BY <1>3, <1>4, <1>5, <1>6, <1>7 DEF S3Inv

LEMMA ReceiveErrorKeeps ==
  ASSUME S3Inv, NEW w \in S3Workers, ReceiveError(w)
  PROVE  S3Inv'
<1>1. Count' = Count /\ S3Workers' = S3Workers /\ s3Input' = s3Input /\ Count \in Nat
  BY CountKept DEF ReceiveError, S3Inv, S3TypeOK
<1>2. /\ s3Worker' \in [1..S3Limit -> 0..Count] /\ s3Worker'[w] = 0
      /\ \A v \in S3Workers \ {w} : s3Worker'[v] = s3Worker[v]
      /\ s3Failed' \subseteq S3Workers /\ s3Ended' \subseteq S3Workers
      /\ s3Seen <= Cardinality(s3Ended')
  BY EndedTyped DEF ReceiveError, S3Inv
<1>3. S3TypeOK'
  BY <1>1, <1>2 DEF S3Inv, S3TypeOK, ReceiveError, Finish
<1>4. S3Phases'
  BY <1>1 DEF S3Inv, S3Phases, ReceiveError, Finish
<1>5. Held'
  BY <1>1, <1>2 DEF S3Inv, S3TypeOK, Held, ReceiveError, Finish
<1>6. NothingLost'
  BY DEF NothingLost, ReceiveError, Finish
<1>7. Reported'
  <2> DEFINE i == s3Worker[w]
  <2>1. i \in 1..Count /\ i \notin s3Stored /\ \A v \in S3Workers \ {w} : s3Worker[v] # i
    <3>1. i # 0 /\ i \notin s3Stored
      BY DEF S3Inv, Held, ReceiveError
    <3>2. i \in 0..Count
      BY WorkersFinite DEF S3Inv, S3TypeOK
    <3>3. \A v \in S3Workers \ {w} : s3Worker[v] # i
      BY <3>1 DEF S3Inv, Held
    <3> QED
      BY <1>1, <3>1, <3>2, <3>3
  <2>2. i \notin s3Stored' /\ \A v \in S3Workers : s3Worker'[v] # i
    BY <1>1, <1>2, <2>1 DEF ReceiveError
  <2>3. s3Closed' /\ s3Result' = "error" /\ s3Files' = {}
    BY DEF ReceiveError, Finish
  <2> HIDE DEF i
  <2> QED
    BY <1>1, <2>1, <2>2, <2>3 DEF Reported
<1> QED
  BY <1>3, <1>4, <1>5, <1>6, <1>7 DEF S3Inv

LEMMA CloseWorkKeeps == S3Inv /\ CloseWork => S3Inv'
<1> SUFFICES ASSUME S3Inv, CloseWork PROVE S3Inv'
  OBVIOUS
<1>1. Count' = Count /\ S3Workers' = S3Workers /\ s3Input' = s3Input
  BY CountKept DEF CloseWork
<1> QED
  BY <1>1 DEF S3Inv, S3TypeOK, S3Phases, Held, NothingLost, Reported, CloseWork

\* Run returns without an error: all its workers have ended, or there are none.
LEMMA ReturnsNil ==
  ASSUME S3Inv, s3Pc = "waiting", s3Ended = S3Workers, Finish("nil"), s3Seen' \in Nat,
         s3Seen' <= Cardinality(s3Ended),
         UNCHANGED <<s3Input, s3Next, s3Worker, s3Failed, s3Ended, s3Closed, s3Stored, s3Lost>>
  PROVE  S3Inv'
<1>1. Count' = Count /\ S3Workers' = S3Workers /\ s3Input' = s3Input /\ Count \in Nat
  BY CountKept DEF S3Inv, S3TypeOK
<1>2. \A w \in S3Workers : s3Worker[w] = 0
  BY DEF S3Inv, Held
<1>3. s3Stored \cup s3Lost = 1..Count /\ (s3Lost # {} => s3Ctx = "cancelled")
  <2>1. SUFFICES ASSUME NEW i \in 1..Count PROVE i \in s3Stored \/ i \in s3Lost
    BY DEF S3Inv, S3TypeOK, NothingLost
  <2>2. s3Next = Count + 1
    BY DEF S3Inv, S3Phases
  <2> QED
    BY <1>1, <1>2, <2>1, <2>2 DEF S3Inv, NothingLost
<1>4. S3TypeOK'
  BY <1>1 DEF S3Inv, S3TypeOK, Finish
<1>5. S3Phases' /\ Held' /\ NothingLost'
  BY <1>1 DEF S3Inv, S3Phases, Held, NothingLost, Finish
<1>6. Reported'
  BY <1>1, <1>3 DEF S3Inv, S3Phases, Reported, Finish
<1> QED
  BY <1>4, <1>5, <1>6 DEF S3Inv

LEMMA ReceiveDoneKeeps == S3Inv /\ ReceiveDone => S3Inv'
<1> SUFFICES ASSUME S3Inv, ReceiveDone PROVE S3Inv'
  OBVIOUS
<1>1. Count' = Count /\ S3Workers' = S3Workers /\ s3Input' = s3Input
  BY CountKept DEF ReceiveDone
<1>2. /\ Cardinality(s3Ended) \in Nat /\ Cardinality(s3Ended) <= Cardinality(S3Workers)
      /\ Cardinality(s3Ended) = Cardinality(S3Workers) => s3Ended = S3Workers
      /\ s3Seen \in Nat /\ Cardinality(S3Workers) \in Nat
  BY WorkersFinite DEF S3Inv, S3TypeOK
<1>3. s3Seen' \in Nat /\ s3Seen' <= Cardinality(s3Ended)
  BY <1>2 DEF ReceiveDone
<1>4. CASE s3Seen' = Cardinality(S3Workers)
  <2>1. s3Ended = S3Workers
    BY <1>2, <1>3, <1>4
  <2> QED
    BY <1>3, <1>4, <2>1, ReturnsNil DEF ReceiveDone
<1>5. CASE s3Seen' # Cardinality(S3Workers)
  BY <1>1, <1>3, <1>5 DEF ReceiveDone, S3Inv, S3TypeOK, S3Phases, Held, NothingLost, Reported
<1> QED
  BY <1>4, <1>5

LEMMA NothingToDoKeeps == S3Inv /\ NothingToDo => S3Inv'
<1> SUFFICES ASSUME S3Inv, NothingToDo PROVE S3Inv'
  OBVIOUS
<1>1. S3Workers = {}
  BY S3Assumption DEF NothingToDo, S3Workers
<1>2. s3Ended = S3Workers /\ s3Seen' \in Nat /\ s3Seen' <= Cardinality(s3Ended)
  BY <1>1 DEF S3Inv, S3TypeOK, NothingToDo
<1> QED
  BY <1>2, ReturnsNil DEF NothingToDo

LEMMA CancelledKeeps == S3Inv /\ (SeeCancelled \/ CallerCancels) => S3Inv'
<1> SUFFICES ASSUME S3Inv, SeeCancelled \/ CallerCancels PROVE S3Inv'
  OBVIOUS
<1>1. Count' = Count /\ S3Workers' = S3Workers /\ s3Input' = s3Input
  BY CountKept DEF SeeCancelled, CallerCancels
<1>2. S3TypeOK'
  BY <1>1 DEF S3Inv, S3TypeOK, SeeCancelled, CallerCancels, Finish
<1>3. S3Phases' /\ NothingLost'
  BY <1>1 DEF S3Inv, S3Phases, NothingLost, SeeCancelled, CallerCancels, Finish, Running
<1>4. Held'
  BY <1>1 DEF S3Inv, Held, SeeCancelled, CallerCancels, Finish
<1>5. Reported'
  BY <1>1 DEF S3Inv, S3Phases, Reported, SeeCancelled, CallerCancels, Finish
<1> QED
  BY <1>2, <1>3, <1>4, <1>5 DEF S3Inv

LEMMA S3StepInv == S3Inv /\ [S3Next]_s3Vars => S3Inv'
<1> SUFFICES ASSUME S3Inv, [S3Next]_s3Vars PROVE S3Inv'
  OBVIOUS
<1>1. CASE UNCHANGED s3Vars
  <2>1. Count' = Count /\ S3Workers' = S3Workers
    BY <1>1, CountKept DEF s3Vars
  <2> QED
    BY <1>1, <2>1 DEF s3Vars, S3Inv, S3TypeOK, S3Phases, Held, NothingLost, Reported
<1>2. CASE S3Next
  BY <1>2, OpenKeeps, HandOverKeeps, StoreKeeps, StoreFailsKeeps, WorkerEndsKeeps,
     ReceiveErrorKeeps, CloseWorkKeeps, ReceiveDoneKeeps, NothingToDoKeeps, CancelledKeeps
     DEF S3Next
<1> QED
  BY <1>1, <1>2

\* Success means that every worker is gone and every input stored, or dropped by
\* its worker after the caller's cancellation; an error of a worker means that an
\* input was not stored; and one that came before there was a worker, of initialize
\* or of sessOpt, left nothing begun (uploadIterator.Run and Upload).
THEOREM S3ReportCorrect == S3Spec => []S3ReportsTruth
<1>1. S3Init => S3Inv
  BY S3InitInv
<1>2. S3Inv /\ [S3Next]_s3Vars => S3Inv'
  BY S3StepInv
<1>3. S3Inv => S3ReportsTruth
  BY DEF S3Inv, S3TypeOK, S3Phases, Reported, S3ReportsTruth
<1> QED
  BY <1>1, <1>2, <1>3, PTL DEF S3Spec

-----------------------------------------------------------------------------
(* The log queue.                                                          *)

Line == [by : Printers, line : Nat]

LogTypeOK ==
  /\ lgLogged \in BOOLEAN /\ lgByKey \in BOOLEAN
  /\ lgPc \in [Printers -> {"idle", "origin", "line"}]
  /\ lgLines \in [Printers -> Nat]
  /\ lgDone \in [Printers -> BOOLEAN]
  /\ lgQueue \in Seq(Line) /\ lgWritten \in Seq(Line)

\* The lines p has got rid of: all it has begun but the one it is at.
Behind(p) == IF lgPc[p] = "idle" THEN lgLines[p] ELSE lgLines[p] - 1

\* Lines are in order, and no line is ahead of its goroutine.
LinesInOrder ==
  /\ \A i, j \in 1..Len(Logged) :
       i < j /\ Logged[i].by = Logged[j].by => Logged[i].line < Logged[j].line
  /\ \A i \in 1..Len(Logged) : Logged[i].line <= Behind(Logged[i].by)
  /\ \A p \in Printers :
       /\ lgPc[p] # "idle" => lgLines[p] > 0
       /\ lgPc[p] = "origin" => \A i \in 1..Len(Logged) : Logged[i].by # p

\* None is missing.
LinesComplete ==
  \A p \in Printers : ~ lgDone[p] =>
    \A n \in 1..Behind(p) : \E i \in 1..Len(Logged) : Logged[i] = [by |-> p, line |-> n]

\* The origin is logged, or being sent, or lost, and only once.
OneOrigin ==
  /\ ~ lgLogged => Logged = <<>> /\ ~ lgByKey /\ \A p \in Printers : lgPc[p] = "idle"
  /\ \A i, j \in Origins : i = j
  /\ \A p \in Printers : lgPc[p] = "origin" =>
       Origins = {} /\ ~ lgByKey /\ \A q \in Printers : lgPc[q] = "origin" => q = p
  /\ lgByKey => Origins = {}
  /\ lgLogged /\ ~ lgByKey =>
       Origins # {} \/ \E p \in Printers : lgPc[p] = "origin" \/ lgDone[p]

LogInv == LogTypeOK /\ LinesInOrder /\ LinesComplete /\ OneOrigin

LEMMA LoggedTyped ==
  ASSUME LogTypeOK
  PROVE  /\ Logged \in Seq(Line) /\ Len(Logged) \in Nat
         /\ \A i \in 1..Len(Logged) : Logged[i] \in Line /\ Logged[i].by \in Printers
                                      /\ Logged[i].line \in Nat
<1>1. Logged \in Seq(Line)
  BY DEF Logged, LogTypeOK
<1>2. \A i \in 1..Len(Logged) : Logged[i] \in Line
  BY <1>1, ElementOfSeq
<1> QED
  BY <1>1, <1>2 DEF Line

\* Writing a line leaves the log as a whole alone.
LEMMA WriteLogged ==
  ASSUME LogTypeOK, WriteLine
  PROVE  LogTypeOK' /\ Logged' = Logged
<1> DEFINE h == Head(lgQueue)
           t == Tail(lgQueue)
<1>1. /\ lgQueue \in Seq(Line) /\ lgWritten \in Seq(Line) /\ lgQueue # <<>>
      /\ lgWritten' = Append(lgWritten, h) /\ lgQueue' = t
  BY DEF LogTypeOK, WriteLine
<1>2. h \in Line /\ t \in Seq(Line)
  BY <1>1
<1>3. LogTypeOK'
  BY <1>1, <1>2 DEF LogTypeOK, WriteLine
<1>4. Append(lgWritten, h) \o t = lgWritten \o lgQueue
  <2> DEFINE a == Append(lgWritten, h) \o t
             b == lgWritten \o lgQueue
  <2>1. a \in Seq(Line) /\ b \in Seq(Line) /\ Len(a) = Len(b)
    BY <1>1, <1>2
  <2>2. \A i \in 1..Len(a) : a[i] = b[i]
    BY <1>1, <1>2
  <2> HIDE DEF a, b
  <2>3. a = b
    BY <2>1, <2>2, SeqEqual
  <2> QED
    BY <2>3 DEF a, b
<1> QED
  BY <1>1, <1>3, <1>4 DEF Logged

\* Sending a line appends it.
LEMMA EnqueueLogged ==
  ASSUME LogTypeOK, NEW p \in Printers, Enqueue(p)
  PROVE  LET e == [by |-> p, line |-> IF lgPc[p] = "origin" THEN 0 ELSE lgLines[p]] IN
         /\ LogTypeOK' /\ e \in Line
         /\ Len(Logged') = Len(Logged) + 1
         /\ \A i \in 1..Len(Logged) : Logged'[i] = Logged[i]
         /\ Logged'[Len(Logged) + 1] = e
<1> DEFINE e == [by |-> p, line |-> IF lgPc[p] = "origin" THEN 0 ELSE lgLines[p]]
<1>1. e \in Line
  BY DEF LogTypeOK, Line
<1>2. lgQueue \in Seq(Line) /\ lgWritten \in Seq(Line)
      /\ lgQueue' = Append(lgQueue, e) /\ lgWritten' = lgWritten
  BY DEF LogTypeOK, Enqueue
<1> HIDE DEF e
<1>3. LogTypeOK'
  BY <1>1, <1>2 DEF LogTypeOK, Enqueue, Follows
<1>4. /\ Len(lgWritten \o Append(lgQueue, e)) = Len(lgWritten \o lgQueue) + 1
      /\ \A i \in 1..Len(lgWritten \o lgQueue) :
           (lgWritten \o Append(lgQueue, e))[i] = (lgWritten \o lgQueue)[i]
      /\ (lgWritten \o Append(lgQueue, e))[Len(lgWritten \o lgQueue) + 1] = e
  BY <1>1, <1>2
<1>5. /\ Len(Logged') = Len(Logged) + 1
      /\ \A i \in 1..Len(Logged) : Logged'[i] = Logged[i]
      /\ Logged'[Len(Logged) + 1] = e
  BY <1>2, <1>4 DEF Logged
<1> QED
  BY <1>1, <1>3, <1>5 DEF e

LEMMA LogInitInv == LogInit => LogInv
<1> SUFFICES ASSUME LogInit PROVE LogInv
  OBVIOUS
<1>1. LogTypeOK
  <2>1. \A S : <<>> \in Seq(S)
    OBVIOUS
  <2> QED
    BY <2>1 DEF LogInit, LogTypeOK
<1>2. Logged = <<>> /\ Len(Logged) = 0 /\ Origins = {}
  BY DEF LogInit, Logged, Origins
<1>3. \A p \in Printers : lgPc[p] = "idle" /\ Behind(p) = 0
  BY DEF LogInit, Behind
<1>4. LinesInOrder
  BY <1>2, <1>3 DEF LinesInOrder
<1>5. LinesComplete
  BY <1>3 DEF LinesComplete
<1>6. OneOrigin
  BY <1>2, <1>3 DEF OneOrigin, LogInit
<1> QED
  BY <1>1, <1>4, <1>5, <1>6 DEF LogInv

\* A line begins.
LEMMA BeginLineKeeps ==
  ASSUME LogInv, NEW p \in Printers, StartPrint(p) \/ TraceKey(p)
  PROVE  LogInv'
<1>1. PICK pc \in {"origin", "line"} :
        /\ BeginLine(p, pc) /\ lgLogged'
        /\ pc = "origin" => ~ lgLogged
        /\ \/ lgByKey' = lgByKey /\ (pc = "line" => lgLogged)
           \/ ~ lgLogged /\ pc = "line" /\ lgByKey'
        /\ lgByKey' \in BOOLEAN
  BY DEF StartPrint, TraceKey, LogInv, LogTypeOK
<1>2. /\ Logged' = Logged /\ Origins' = Origins /\ lgDone' = lgDone
      /\ lgPc' = [lgPc EXCEPT ![p] = pc] /\ lgLines' = [lgLines EXCEPT ![p] = @ + 1]
      /\ lgPc[p] = "idle"
  BY <1>1 DEF BeginLine, Logged, Origins
<1>3. LogTypeOK' /\ LogTypeOK
  BY <1>1 DEF LogInv, LogTypeOK, BeginLine
<1>4. /\ \A q \in Printers : Behind(q)' = Behind(q) /\ Behind(q) \in Nat
      /\ lgLines'[p] > 0 /\ lgPc'[p] = pc
      /\ \A q \in Printers \ {p} : lgPc'[q] = lgPc[q] /\ lgLines'[q] = lgLines[q]
  BY <1>2, <1>3 DEF Behind, LogTypeOK, LogInv, LinesInOrder
<1>5. pc = "origin" => Logged = <<>> /\ ~ lgByKey' /\ \A q \in Printers : lgPc[q] = "idle"
  BY <1>1 DEF LogInv, OneOrigin
<1>6. LinesInOrder'
  <2>1. \A i, j \in 1..Len(Logged') :
          i < j /\ Logged'[i].by = Logged'[j].by => Logged'[i].line < Logged'[j].line
    BY <1>2 DEF LogInv, LinesInOrder
  <2>2. \A i \in 1..Len(Logged') : (Logged[i].line <= Behind(Logged[i].by))'
    <3>1. ASSUME NEW i \in 1..Len(Logged)
          PROVE  Logged[i].by \in Printers /\ Logged[i].line <= Behind(Logged[i].by)
      BY <1>3, LoggedTyped DEF LogInv, LinesInOrder
    <3> QED
      BY <3>1, <1>2, <1>4, Zenon
  <2>3. ASSUME NEW q \in Printers
        PROVE  /\ lgPc'[q] # "idle" => lgLines'[q] > 0
               /\ lgPc'[q] = "origin" => \A i \in 1..Len(Logged') : Logged'[i].by # q
    <3>1. CASE q = p /\ pc = "origin"
      BY <3>1, <1>2, <1>4, <1>5
    <3>2. CASE q = p /\ pc = "line"
      BY <3>2, <1>4
    <3>3. CASE q # p
      BY <3>3, <1>2, <1>4 DEF LogInv, LinesInOrder
    <3> QED
      BY <3>1, <3>2, <3>3
  <2> QED
    BY <2>1, <2>2, <2>3 DEF LinesInOrder
<1>7. LinesComplete'
  BY <1>2, <1>4 DEF LogInv, LinesComplete
<1>8. OneOrigin'
  <2>1. ~ lgLogged => Origins = {} /\ \A q \in Printers : lgPc[q] = "idle"
    BY DEF LogInv, OneOrigin, Origins
  <2>2. CASE pc = "origin"
    BY <1>1, <1>2, <1>4, <1>5, <2>1, <2>2 DEF OneOrigin
  <2>3. CASE pc = "line"
    BY <1>1, <1>2, <1>4, <2>1, <2>3 DEF LogInv, OneOrigin
  <2> QED
    BY <2>2, <2>3
<1> QED
  BY <1>3, <1>6, <1>7, <1>8 DEF LogInv

\* What becomes of a goroutine that has sent or lost what it was at.
LEMMA FollowsOn ==
  ASSUME LogInv, NEW p \in Printers, lgPc[p] # "idle", lgPc' = Follows(p), lgLines' = lgLines
  PROVE  /\ lgPc'[p] = IF lgPc[p] = "origin" THEN "line" ELSE "idle"
         /\ \A q \in Printers \ {p} : lgPc'[q] = lgPc[q] /\ Behind(q)' = Behind(q)
         /\ Behind(p)' = IF lgPc[p] = "origin" THEN Behind(p) ELSE Behind(p) + 1
         /\ \A q \in Printers : Behind(q) \in Nat
         /\ lgLines[p] = Behind(p) + 1
BY DEF Follows, Behind, LogInv, LogTypeOK, LinesInOrder

LEMMA EnqueueKeeps ==
  ASSUME LogInv, NEW p \in Printers, Enqueue(p)
  PROVE  LogInv'
<1> DEFINE e == [by |-> p, line |-> IF lgPc[p] = "origin" THEN 0 ELSE lgLines[p]]
           n == Len(Logged) + 1
<1>1. /\ lgPc[p] \in {"origin", "line"} /\ lgPc' = Follows(p) /\ lgLines' = lgLines
      /\ lgDone' = lgDone /\ lgLogged' = lgLogged /\ lgByKey' = lgByKey
      /\ LogTypeOK /\ lgPc \in [Printers -> {"idle", "origin", "line"}]
  BY DEF Enqueue, LogInv, LogTypeOK
<1>2. /\ LogTypeOK' /\ Len(Logged') = n /\ Logged'[n] = e
      /\ \A i \in 1..Len(Logged) : Logged'[i] = Logged[i]
  BY <1>1, EnqueueLogged
<1>3. /\ n \in Nat /\ Len(Logged) = n - 1
      /\ \A i \in 1..Len(Logged) : Logged[i].by \in Printers /\ Logged[i].line \in Nat
  BY <1>1, LoggedTyped
<1>4. /\ lgPc'[p] = IF lgPc[p] = "origin" THEN "line" ELSE "idle"
      /\ \A q \in Printers \ {p} : lgPc'[q] = lgPc[q] /\ Behind(q)' = Behind(q)
      /\ Behind(p)' = IF lgPc[p] = "origin" THEN Behind(p) ELSE Behind(p) + 1
      /\ \A q \in Printers : Behind(q) \in Nat
      /\ lgLines[p] = Behind(p) + 1
  BY <1>1, FollowsOn
<1>5. e.by = p /\ e.line = IF lgPc[p] = "origin" THEN 0 ELSE Behind(p) + 1
  BY <1>4
<1>6. \A i \in 1..n : i = n \/ i \in 1..Len(Logged)
  BY <1>3
<1>7. \A i \in 1..Len(Logged) : Logged[i].by = p => Logged[i].line < e.line
  BY <1>1, <1>3, <1>4, <1>5 DEF LogInv, LinesInOrder
<1>8. LinesInOrder'
  <2>1. ASSUME NEW i \in 1..n, NEW j \in 1..n, i < j, Logged'[i].by = Logged'[j].by
        PROVE  Logged'[i].line < Logged'[j].line
    <3>1. i \in 1..Len(Logged)
      BY <1>3, <2>1
    <3>2. CASE j = n
      BY <1>2, <1>5, <1>7, <2>1, <3>1, <3>2
    <3>3. CASE j \in 1..Len(Logged)
      BY <1>2, <2>1, <3>1, <3>3 DEF LogInv, LinesInOrder
    <3> QED
      BY <1>6, <3>2, <3>3
  <2>2. ASSUME NEW i \in 1..n PROVE \E q \in Printers : Logged'[i].by = q /\ Logged'[i].line <= Behind(q)'
    <3>1. CASE i = n
      BY <1>2, <1>4, <1>5, <3>1
    <3>2. CASE i \in 1..Len(Logged)
      <4>1. PICK q \in Printers :
              Logged[i].by = q /\ Logged[i].line <= Behind(q) /\ Logged[i].line \in Nat
        BY <1>3, <3>2 DEF LogInv, LinesInOrder
      <4>2. Behind(q) <= Behind(q)'
        BY <1>4, <4>1
      <4>3. Behind(q) \in Nat /\ Behind(q)' \in Nat
        BY <1>4, <4>1
      <4>4. Logged[i].line <= Behind(q)'
        BY <4>1, <4>2, <4>3
      <4> QED
        BY <1>2, <3>2, <4>1, <4>4
    <3> QED
      BY <1>6, <3>1, <3>2
  <2>3. \A q \in Printers : lgPc'[q] # "idle" => lgLines'[q] > 0
    BY <1>1, <1>4 DEF LogInv, LinesInOrder
  <2>4. ASSUME NEW q \in Printers, lgPc'[q] = "origin", NEW i \in 1..n PROVE Logged'[i].by # q
    <3>1. q # p /\ lgPc[q] = "origin"
      BY <1>1, <1>4, <2>4
    <3>2. CASE i = n
      BY <1>2, <1>5, <3>1, <3>2
    <3>3. CASE i \in 1..Len(Logged)
      BY <1>2, <3>1, <3>3 DEF LogInv, LinesInOrder
    <3> QED
      BY <1>6, <3>2, <3>3
  <2> QED
    BY <1>2, <2>1, <2>2, <2>3, <2>4 DEF LinesInOrder
<1>9. LinesComplete'
  <2>1. ASSUME NEW q \in Printers, ~ lgDone[q], NEW m \in 1..Behind(q)'
        PROVE  \E i \in 1..n : Logged'[i] = [by |-> q, line |-> m]
    <3>1. CASE m \in 1..Behind(q)
      <4>1. PICK i \in 1..Len(Logged) : Logged[i] = [by |-> q, line |-> m]
        BY <2>1, <3>1 DEF LogInv, LinesComplete
      <4> QED
        BY <1>2, <1>3, <4>1
    <3>2. CASE m \notin 1..Behind(q)
      <4>1. q = p /\ lgPc[p] # "origin" /\ m = Behind(p) + 1
        BY <1>4, <2>1, <3>2
      <4>2. Logged'[n] = [by |-> q, line |-> m]
        BY <1>2, <1>4, <4>1
      <4> QED
        BY <1>3, <4>2
    <3> QED
      BY <3>1, <3>2
  <2> QED
    BY <1>1, <1>2, <2>1 DEF LinesComplete
<1>10. OneOrigin'
  <2>1. lgLogged
    BY <1>1 DEF LogInv, OneOrigin
  <2>2. CASE lgPc[p] = "origin"
    <3>1. e.line = 0 /\ Origins = {} /\ ~ lgByKey /\ \A q \in Printers : lgPc[q] = "origin" => q = p
      BY <1>5, <2>2 DEF LogInv, OneOrigin
    <3>2. Origins' = {n}
      BY <1>2, <1>3, <1>6, <3>1 DEF Origins
    <3>3. \A q \in Printers : lgPc'[q] # "origin"
      BY <1>4, <2>2, <3>1
    <3> QED
      BY <1>1, <2>1, <3>1, <3>2, <3>3 DEF OneOrigin
  <2>3. CASE lgPc[p] = "line"
    <3>1. e.line # 0
      BY <1>4, <1>5, <2>3
    <3>2. Origins' = Origins
      BY <1>2, <1>3, <1>6, <3>1 DEF Origins
    <3>3. \A q \in Printers : lgPc'[q] = "origin" <=> lgPc[q] = "origin"
      BY <1>4, <2>3
    <3> QED
      BY <1>1, <2>1, <3>2, <3>3 DEF LogInv, OneOrigin
  <2> QED
    BY <1>1, <2>2, <2>3
<1> QED
  BY <1>2, <1>8, <1>9, <1>10 DEF LogInv

LEMMA LoseLineKeeps ==
  ASSUME LogInv, NEW p \in Printers, LoseLine(p)
  PROVE  LogInv'
<1>1. /\ lgPc[p] \in {"origin", "line"} /\ lgPc' = Follows(p) /\ lgLines' = lgLines
      /\ lgDone' = lgDone /\ lgLogged' = lgLogged /\ lgByKey' = lgByKey /\ lgDone[p]
      /\ Logged' = Logged /\ Origins' = Origins /\ LogTypeOK
  BY DEF LoseLine, LogInv, LogTypeOK, Logged, Origins
<1>2. /\ lgPc'[p] = IF lgPc[p] = "origin" THEN "line" ELSE "idle"
      /\ \A q \in Printers \ {p} : lgPc'[q] = lgPc[q] /\ Behind(q)' = Behind(q)
      /\ Behind(p)' = IF lgPc[p] = "origin" THEN Behind(p) ELSE Behind(p) + 1
      /\ \A q \in Printers : Behind(q) \in Nat
      /\ lgLines[p] = Behind(p) + 1
  BY <1>1, FollowsOn
<1>3. LogTypeOK'
  BY DEF LogInv, LogTypeOK, LoseLine, Follows
<1>4. LinesInOrder'
  <2>1. ASSUME NEW i \in 1..Len(Logged)
        PROVE \E q \in Printers : Logged'[i].by = q /\ Logged'[i].line <= Behind(q)'
    <3>1. PICK q \in Printers :
            Logged[i].by = q /\ Logged[i].line <= Behind(q) /\ Logged[i].line \in Nat
      BY <1>1, LoggedTyped DEF LogInv, LinesInOrder
    <3>2. Behind(q) \in Nat /\ Behind(q)' \in Nat /\ Behind(q) <= Behind(q)'
      BY <1>2, <3>1
    <3>3. Logged[i].line <= Behind(q)'
      BY <3>1, <3>2
    <3> QED
      BY <1>1, <3>1, <3>3
  <2>3. \A q \in Printers :
          /\ lgPc'[q] # "idle" => lgLines'[q] > 0
          /\ lgPc'[q] = "origin" => lgPc[q] = "origin"
    BY <1>1, <1>2 DEF LogInv, LinesInOrder
  <2> QED
    BY <1>1, <2>1, <2>3 DEF LogInv, LinesInOrder
<1>5. LinesComplete'
  BY <1>1, <1>2 DEF LogInv, LinesComplete
<1>6. OneOrigin'
  <2>1. \A q \in Printers : lgPc'[q] = "origin" => lgPc[q] = "origin"
    BY <1>2
  <2> QED
    BY <1>1, <2>1 DEF LogInv, OneOrigin
<1> QED
  BY <1>3, <1>4, <1>5, <1>6 DEF LogInv

LEMMA LogStepInv == LogInv /\ [LogNext]_logVars => LogInv'
<1> SUFFICES ASSUME LogInv, [LogNext]_logVars PROVE LogInv'
  OBVIOUS
<1>1. CASE UNCHANGED logVars
  <2>1. Logged' = Logged /\ Origins' = Origins /\ \A p : Behind(p)' = Behind(p)
    BY <1>1 DEF logVars, Logged, Origins, Behind
  <2> QED
    BY <1>1, <2>1 DEF logVars, LogInv, LogTypeOK, LinesInOrder, LinesComplete, OneOrigin
<1>2. CASE WriteLine
  <2>1. LogTypeOK' /\ Logged' = Logged
    BY <1>2, WriteLogged DEF LogInv
  <2>2. Origins' = Origins /\ \A p : Behind(p)' = Behind(p)
    BY <1>2, <2>1 DEF WriteLine, Origins, Behind
  <2> QED
    BY <1>2, <2>1, <2>2 DEF WriteLine, LogInv, LinesInOrder, LinesComplete, OneOrigin
<1>3. CASE \E p \in Printers : RequestEnds(p)
  <2>1. PICK p \in Printers : RequestEnds(p)
    BY <1>3
  <2>2. Logged' = Logged /\ Origins' = Origins /\ \A q : Behind(q)' = Behind(q)
    BY <2>1 DEF RequestEnds, Logged, Origins, Behind
  <2>3. LogTypeOK' /\ \A q \in Printers : lgDone[q] => lgDone'[q]
    BY <2>1 DEF RequestEnds, LogInv, LogTypeOK
  <2> QED
    BY <2>1, <2>2, <2>3 DEF RequestEnds, LogInv, LinesInOrder, LinesComplete, OneOrigin
<1> QED
  BY <1>1, <1>2, <1>3, BeginLineKeeps, EnqueueKeeps, LoseLineKeeps DEF LogNext

\* The lines of a goroutine come in order and completely, behind a single
\* origin (checkSenderInit, Println and the writer).
THEOREM LogOrderCorrect == LogSpec => []LogKeepsOrder
<1>1. LogInit => LogInv
  BY LogInitInv
<1>2. LogInv /\ [LogNext]_logVars => LogInv'
  BY LogStepInv
<1>3. LogInv => LogKeepsOrder
  <2> SUFFICES ASSUME LogInv PROVE LogKeepsOrder
    OBVIOUS
  <2>1. Cardinality(Origins) <= IF lgByKey THEN 0 ELSE 1
    <3>1. CASE Origins = {}
      BY <3>1, FS_EmptySet
    <3>2. CASE Origins # {}
      <4>1. PICK o \in Origins : Origins = {o}
        BY <3>2 DEF LogInv, OneOrigin
      <4>2. Cardinality({o}) = 1
        BY FS_Singleton
      <4>3. ~ lgByKey
        BY <3>2 DEF LogInv, OneOrigin
      <4> QED
        BY <4>1, <4>2, <4>3
    <3> QED
      BY <3>1, <3>2
  <2> QED
    BY <2>1 DEF LogInv, LinesInOrder, LinesComplete, OneOrigin, Behind, LogKeepsOrder
<1> QED
  BY <1>1, <1>2, <1>3, PTL DEF LogSpec

-----------------------------------------------------------------------------
(* Sort orders.                                                            *)

FieldValues == Nat \cup Groups
Row == {r \in [Columns -> FieldValues] : r.Place \in Nat /\ r.Hidden \in Nat}

LEMMA BeforeOrders ==
  ASSUME NEW x \in Nat \X Nat \X Nat, NEW y \in Nat \X Nat \X Nat, NEW z \in Nat \X Nat \X Nat
  PROVE  /\ Before(x, y) => ~ Before(y, x)
         /\ Before(x, y) /\ Before(y, z) => Before(x, z)
         /\ x[3] # y[3] => Before(x, y) \/ Before(y, x)
BY DEF Before

\* The rows of table by what UpsertModel ranks them by.
KeyIn(table, id, i) == <<table[i].Hidden, table[i].Place, IF i = id THEN 0 ELSE i>>
Ahead(table, id, i) == {j \in Peers(table, i) : Before(KeyIn(table, id, j), KeyIn(table, id, i))}

LEMMA RankIs ==
  ASSUME NEW table, NEW id, NEW i \in DOMAIN table
  PROVE  Ranks(table, id)[i] = 1 + Cardinality(Ahead(table, id, i))
<1>1. Ahead(table, id, i) = {j \in DOMAIN table : /\ table[j].Group = table[i].Group
                                 /\ Before(KeyIn(table, id, j), KeyIn(table, id, i))}
  BY DEF Ahead, Peers
<1> QED
  BY <1>1 DEF Ranks, KeyIn

LEMMA RowFields ==
  ASSUME NEW r \in Row, NEW n \in Nat
  PROVE  /\ r.Place \in Nat /\ r.Hidden \in Nat
         /\ [r EXCEPT !.Place = n] \in Row
         /\ [r EXCEPT !.Place = n].Place = n
         /\ [r EXCEPT !.Place = n].Hidden = r.Hidden
         /\ [r EXCEPT !.Place = n].Group = r.Group
         /\ [r EXCEPT !.Place = n].Code = r.Code
BY DEF Row, Columns, FieldValues

LEMMA KeyTyped ==
  ASSUME NEW table, NEW i \in Nat, table[i] \in Row, NEW id
  PROVE  KeyIn(table, id, i) \in Nat \X Nat \X Nat
<1>1. table[i].Hidden \in Nat /\ table[i].Place \in Nat
  BY DEF Row
<1>2. (IF i = id THEN 0 ELSE i) \in Nat
  OBVIOUS
<1> QED
  BY <1>1, <1>2 DEF KeyIn

\* Ranks are 1..n in each partition, in the order the rows are ranked by.
LEMMA RanksOrder ==
  ASSUME NEW table, NEW n \in Nat, DOMAIN table = 1..n,
         \A i \in 1..n : table[i] \in Row, NEW id, NEW i \in 1..n
  PROVE  /\ IsFiniteSet(Peers(table, i))
         /\ Ranks(table, id)[i] \in 1..Cardinality(Peers(table, i))
         /\ \A j \in Peers(table, i) :
              Before(KeyIn(table, id, j), KeyIn(table, id, i))
                => Ranks(table, id)[j] < Ranks(table, id)[i]
<1>1. \A k \in 1..n : KeyIn(table, id, k) \in Nat \X Nat \X Nat
  BY KeyTyped
<1>2. \A k \in 1..n : IsFiniteSet(Peers(table, k)) /\ Peers(table, k) \subseteq 1..n
  <2>1. IsFiniteSet(1..n)
    BY FS_Interval
  <2>2. \A k \in 1..n : Peers(table, k) \subseteq 1..n
    BY DEF Peers
  <2> QED
    BY <2>1, <2>2, FS_Subset
<1>3. ASSUME NEW k \in 1..n
      PROVE  /\ IsFiniteSet(Ahead(table, id, k)) /\ Cardinality(Ahead(table, id, k)) \in Nat
             /\ k \notin Ahead(table, id, k) /\ Ahead(table, id, k) \subseteq Peers(table, k)
  <2>1. Ahead(table, id, k) \subseteq Peers(table, k) /\ k \notin Ahead(table, id, k)
    BY <1>1, BeforeOrders DEF Ahead
  <2> QED
    BY <2>1, <1>2, FS_Subset, FS_CardinalityType
<1>4. ASSUME NEW j \in Peers(table, i), Before(KeyIn(table, id, j), KeyIn(table, id, i))
      PROVE  Cardinality(Ahead(table, id, j)) < Cardinality(Ahead(table, id, i))
  <2> DEFINE A == Ahead(table, id, j) \cup {j}
  <2>1. j \in 1..n /\ Peers(table, j) = Peers(table, i)
    BY DEF Peers
  <2>2. A \subseteq Ahead(table, id, i)
    <3>1. ASSUME NEW k \in Ahead(table, id, j)
          PROVE  k \in Ahead(table, id, i)
      <4>1. k \in Peers(table, i) /\ k \in 1..n
            /\ Before(KeyIn(table, id, k), KeyIn(table, id, j))
        BY <2>1, <3>1, <1>2 DEF Ahead
      <4>2. Before(KeyIn(table, id, k), KeyIn(table, id, i))
        BY <4>1, <2>1, <1>1, <1>4, BeforeOrders
      <4> QED
        BY <4>1, <4>2 DEF Ahead
    <3>2. j \in Ahead(table, id, i)
      BY <1>4 DEF Ahead
    <3> QED
      BY <3>1, <3>2
  <2>3. IsFiniteSet(A) /\ Cardinality(A) = Cardinality(Ahead(table, id, j)) + 1
    BY <2>1, <1>3, FS_AddElement
  <2>4. Cardinality(A) <= Cardinality(Ahead(table, id, i))
    BY <2>2, <1>3, FS_Subset
  <2> QED
    BY <2>1, <2>3, <2>4, <1>3
<1>5. Cardinality(Ahead(table, id, i)) + 1 <= Cardinality(Peers(table, i))
  <2>1. /\ IsFiniteSet(Ahead(table, id, i) \cup {i})
        /\ Cardinality(Ahead(table, id, i) \cup {i}) = Cardinality(Ahead(table, id, i)) + 1
    BY <1>3, FS_AddElement
  <2>2. Ahead(table, id, i) \cup {i} \subseteq Peers(table, i)
    BY <1>3 DEF Peers
  <2> QED
    BY <1>2, <2>1, <2>2, FS_Subset
<1>6. Cardinality(Peers(table, i)) \in Nat
  BY <1>2, FS_CardinalityType
<1>7. \A k \in 1..n : Ranks(table, id)[k] = 1 + Cardinality(Ahead(table, id, k))
  BY RankIs
<1> QED
  BY <1>2, <1>3, <1>4, <1>5, <1>6, <1>7

LEMMA HandledRows ==
  ASSUME NEW table, NEW n \in Nat, DOMAIN table = 1..n,
         \A i \in 1..n : table[i] \in Row, NEW id
  PROVE  /\ DOMAIN HandleSortOrder(table, id) = 1..n
         /\ \A i \in 1..n :
              LET r == HandleSortOrder(table, id)[i]
              IN /\ r \in Row /\ r.Place = Ranks(table, id)[i]
                 /\ r.Hidden = table[i].Hidden /\ r.Group = table[i].Group
                 /\ r.Code = table[i].Code
         /\ \A i \in 1..n : Peers(HandleSortOrder(table, id), i) = Peers(table, i)
<1> DEFINE h == HandleSortOrder(table, id)
<1>1. DOMAIN h = 1..n /\ \A i \in 1..n : h[i] = [table[i] EXCEPT !.Place = Ranks(table, id)[i]]
  BY DEF HandleSortOrder
<1>2. \A i \in 1..n : Ranks(table, id)[i] \in Nat
  BY RanksOrder, FS_CardinalityType
<1>3. \A i \in 1..n : /\ h[i] \in Row /\ h[i].Place = Ranks(table, id)[i]
                      /\ h[i].Hidden = table[i].Hidden /\ h[i].Group = table[i].Group
                      /\ h[i].Code = table[i].Code
  <2> TAKE i \in 1..n
  <2> DEFINE k == Ranks(table, id)[i]
             r == table[i]
  <2>1. k \in Nat /\ r \in Row /\ h[i] = [r EXCEPT !.Place = k]
    BY <1>1, <1>2
  <2> HIDE DEF h, k, r
  <2>2. /\ [r EXCEPT !.Place = k] \in Row /\ [r EXCEPT !.Place = k].Place = k
        /\ [r EXCEPT !.Place = k].Hidden = r.Hidden
        /\ [r EXCEPT !.Place = k].Group = r.Group
        /\ [r EXCEPT !.Place = k].Code = r.Code
    BY <2>1, RowFields
  <2> QED
    BY <2>1, <2>2 DEF k, r
<1>4. \A i \in 1..n : Peers(h, i) = Peers(table, i)
  BY <1>1, <1>3 DEF Peers
<1> QED
  BY <1>1, <1>3, <1>4

\* A ranking numbers every partition from one, omitted rows last.
LEMMA HandledIsDense ==
  ASSUME NEW table, NEW n \in Nat, DOMAIN table = 1..n,
         \A i \in 1..n : table[i] \in Row, NEW id
  PROVE  Dense(HandleSortOrder(table, id))
<1> DEFINE h == HandleSortOrder(table, id)
           rank == Ranks(table, id)
<1>1. /\ DOMAIN h = 1..n
      /\ \A i \in 1..n : /\ h[i].Place = rank[i] /\ h[i].Hidden = table[i].Hidden
                         /\ Peers(h, i) = Peers(table, i) /\ Peers(table, i) \subseteq 1..n
  BY HandledRows DEF Peers
<1> SUFFICES ASSUME NEW i \in 1..n
             PROVE  /\ {h[j].Place : j \in Peers(h, i)} = 1..Cardinality(Peers(h, i))
                    /\ \A j \in Peers(h, i) : h[j].Hidden < h[i].Hidden
                                                => h[j].Place < h[i].Place
  BY <1>1 DEF Dense
<1> DEFINE P == Peers(table, i)
           m == Cardinality(P)
<1>2. /\ P \subseteq 1..n /\ IsFiniteSet(P) /\ m \in Nat
      /\ \A j \in P : Peers(table, j) = P
  <2>1. P \subseteq 1..n /\ \A j \in P : Peers(table, j) = P
    BY DEF Peers
  <2>2. IsFiniteSet(P)
    BY RanksOrder
  <2> QED
    BY <2>1, <2>2, FS_CardinalityType
<1>3. /\ \A j \in P : rank[j] \in 1..m
      /\ \A j, k \in P : Before(KeyIn(table, id, j), KeyIn(table, id, k)) => rank[j] < rank[k]
  <2>1. ASSUME NEW k \in P
        PROVE  /\ rank[k] \in 1..m
               /\ \A j \in P : Before(KeyIn(table, id, j), KeyIn(table, id, k))
                                 => rank[j] < rank[k]
    BY <1>2, RanksOrder
  <2> QED
    BY <2>1
<1>4. \A j \in P : KeyIn(table, id, j) \in Nat \X Nat \X Nat
  BY <1>2, KeyTyped
<1>5. \A j, k \in P : j # k => rank[j] # rank[k]
  <2> SUFFICES ASSUME NEW j \in P, NEW k \in P, j # k PROVE rank[j] # rank[k]
    OBVIOUS
  <2>1. KeyIn(table, id, j)[3] # KeyIn(table, id, k)[3]
    BY <1>2 DEF KeyIn
  <2>2. \/ Before(KeyIn(table, id, j), KeyIn(table, id, k))
        \/ Before(KeyIn(table, id, k), KeyIn(table, id, j))
    BY <2>1, <1>4, BeforeOrders
  <2>3. rank[j] \in Nat /\ rank[k] \in Nat
    BY <1>3
  <2> QED
    BY <2>2, <2>3, <1>3
<1>6. {rank[j] : j \in P} = 1..m
  <2> DEFINE f == [j \in P |-> rank[j]]
  <2>1. f \in Injection(P, 1..m)
    BY <1>3, <1>5 DEF Injection, IsInjective
  <2>2. IsFiniteSet(1..m) /\ Cardinality(1..m) = m
    BY <1>2, FS_Interval
  <2>3. f \in Surjection(P, 1..m)
    BY <2>1, <2>2, FS_Injection
  <2>4. \A t \in 1..m : \E j \in P : f[j] = t
    BY <2>3 DEF Surjection
  <2> QED
    BY <2>4, <1>3
<1>7. ASSUME NEW j \in P, table[j].Hidden < table[i].Hidden PROVE rank[j] < rank[i]
  <2>1. i \in P
    BY DEF Peers
  <2>2. Before(KeyIn(table, id, j), KeyIn(table, id, i))
    BY <1>7 DEF Before, KeyIn
  <2> QED
    BY <2>1, <2>2, <1>3
<1>8. {h[j].Place : j \in P} = {rank[j] : j \in P}
  BY <1>1, <1>2
<1> QED
  BY <1>1, <1>2, <1>6, <1>7, <1>8

SortTyped == rows \in Seq(Row)

\* What UpsertModel writes before it ranks: every other row stays as it was, and
\* the written one keeps its no_update column.
Table(id, obj) == IF id = 0 THEN Inserted(obj) ELSE Updated(id, obj)
Target(id, obj) == IF id = 0 THEN Len(Table(id, obj)) ELSE id

LEMMA WrittenRow ==
  ASSUME NEW r \in [Columns -> FieldValues], r.Place \in Nat, r.Hidden \in Nat,
         NEW obj \in [Columns -> FieldValues], obj["Place"] \in Nat, obj["Hidden"] \in Nat,
         NEW F \in SUBSET Columns
  PROVE  /\ [f \in Columns |-> IF f \in F THEN obj[f] ELSE r[f]] \in Row
         /\ "Code" \notin F
            => [f \in Columns |-> IF f \in F THEN obj[f] ELSE r[f]].Code = r.Code
BY DEF Row, Columns

LEMMA TableIs ==
  ASSUME SortTyped, NEW id \in Nat, NEW obj \in [Columns -> FieldValues],
         obj["Place"] \in Nat, obj["Hidden"] \in Nat
  PROVE  /\ Table(id, obj) \in Seq(Row)
         /\ 1..Len(rows) \subseteq 1..Len(Table(id, obj))
         /\ \A i \in 1..Len(rows) :
              /\ i # Target(id, obj) => Table(id, obj)[i] = rows[i]
              /\ Table(id, obj)[i].Code = rows[i].Code
<1> DEFINE n == Len(rows)
<1>1. n \in Nat /\ DOMAIN rows = 1..n /\ \A i \in 1..n : rows[i] \in Row
  BY DEF SortTyped
<1>2. CASE id = 0
  <2> DEFINE new == [f \in Columns |-> IF f \in UpsertFields(obj) THEN obj[f] ELSE 0]
  <2>1. new \in Row
    BY DEF Row, Columns, UpsertFields, OmitEmpty, FieldValues
  <2>2. Table(id, obj) = Append(rows, new)
    BY <1>2 DEF Table, Inserted
  <2> HIDE DEF new
  <2>3. /\ Append(rows, new) \in Seq(Row) /\ Len(Append(rows, new)) = n + 1
        /\ \A i \in 1..n : Append(rows, new)[i] = rows[i]
    BY <2>1 DEF SortTyped
  <2> QED
    BY <1>1, <2>2, <2>3
<1>3. CASE id # 0
  <2> DEFINE F == UpsertFields(obj) \ NoUpdate
             t == Updated(id, obj)
  <2>1. F \subseteq Columns /\ "Code" \notin F
    BY DEF UpsertFields, NoUpdate
  <2>2. /\ DOMAIN t = 1..n
        /\ \A i \in 1..n :
             t[i] = [f \in Columns |-> IF i = id /\ f \in F THEN obj[f] ELSE rows[i][f]]
    BY <1>1 DEF Updated
  <2>3. ASSUME NEW i \in 1..n, i # id PROVE t[i] = rows[i]
    <3>1. rows[i] \in [Columns -> FieldValues]
      BY <1>1 DEF Row
    <3> QED
      BY <2>2, <2>3, <3>1
  <2>4. ASSUME NEW i \in 1..n, i = id PROVE t[i] \in Row /\ t[i].Code = rows[i].Code
    <3> DEFINE r == rows[i]
    <3>1. r \in [Columns -> FieldValues] /\ r.Place \in Nat /\ r.Hidden \in Nat
      BY <1>1 DEF Row
    <3>2. t[i] = [f \in Columns |-> IF f \in F THEN obj[f] ELSE r[f]]
      BY <2>2, <2>4
    <3> HIDE DEF F, r, t
    <3>3. t[i] \in Row /\ t[i].Code = r.Code
      BY <2>1, <3>1, <3>2, WrittenRow
    <3> QED
      BY <3>3 DEF r
  <2> HIDE DEF F
  <2>5. t = [i \in 1..n |-> t[i]] /\ \A i \in 1..n : t[i] \in Row
    BY <1>1, <2>3, <2>4 DEF Updated
  <2> HIDE DEF t
  <2>6. t \in Seq(Row) /\ Len(t) = n
    BY <1>1, <2>5, <2>2
  <2>7. Table(id, obj) = t /\ Target(id, obj) = id
    BY <1>3 DEF Table, Target, t
  <2> QED
    BY <1>1, <2>3, <2>4, <2>6, <2>7
<1> QED
  BY <1>2, <1>3

LEMMA UpsertSettles ==
  ASSUME SortTyped, NEW id \in Nat, NEW obj \in [Columns -> FieldValues],
         obj["Place"] \in Nat, obj["Hidden"] \in Nat, NEW sort \in BOOLEAN,
         UpsertModel(id, obj, sort)
  PROVE  /\ SortTyped'
         /\ ranked' => Dense(rows')
         /\ \A i, j \in DOMAIN rows \ {written'} :
              rows[i].Group = rows[j].Group /\ Precedes(rows, i, j) => Precedes(rows', i, j)
         /\ \A i \in DOMAIN rows : rows'[i].Code = rows[i].Code
<1> DEFINE t == Table(id, obj)
           k == Target(id, obj)
           n == Len(t)
<1>1. rows' = (IF sort THEN HandleSortOrder(t, k) ELSE t) /\ written' = k /\ ranked' = sort
  BY DEF UpsertModel, Table, Target
<1>2. /\ t \in Seq(Row) /\ 1..Len(rows) \subseteq 1..n
      /\ \A i \in 1..Len(rows) : /\ i # k => t[i] = rows[i]
                                 /\ t[i].Code = rows[i].Code
  BY TableIs
<1> HIDE DEF t, k
<1>3. n \in Nat /\ DOMAIN t = 1..n /\ \A i \in 1..n : t[i] \in Row
  BY <1>2
<1>4. DOMAIN rows = 1..Len(rows) /\ DOMAIN rows \subseteq 1..n
  BY <1>2 DEF SortTyped
<1> HIDE DEF n
<1>5. CASE ~ sort
  <2>1. rows' = t
    BY <1>1, <1>5
  <2>2. \A i, j \in DOMAIN rows \ {k} :
          rows[i].Group = rows[j].Group /\ Precedes(rows, i, j) => Precedes(t, i, j)
    BY <1>2, <1>4 DEF Precedes
  <2> QED
    BY <2>1, <2>2, <1>1, <1>2, <1>4, <1>5 DEF SortTyped
<1>6. CASE sort
  <2> DEFINE h == HandleSortOrder(t, k)
  <2>1. /\ DOMAIN h = 1..n /\ Dense(h)
        /\ \A i \in 1..n : /\ h[i] \in Row /\ h[i].Place = Ranks(t, k)[i]
                           /\ h[i].Hidden = t[i].Hidden /\ h[i].Code = t[i].Code
    BY <1>3, HandledRows, HandledIsDense
  <2>2. h \in Seq(Row)
    <3>1. h = [i \in 1..n |-> h[i]]
      BY <1>3 DEF HandleSortOrder
    <3> HIDE DEF h
    <3> QED
      BY <3>1, <2>1, <1>3
  <2>3. ASSUME NEW i \in DOMAIN rows \ {k}, NEW j \in DOMAIN rows \ {k},
               rows[i].Group = rows[j].Group, Precedes(rows, i, j)
        PROVE  Precedes(h, i, j)
    <3>1. i \in 1..n /\ j \in 1..n /\ t[i] = rows[i] /\ t[j] = rows[j]
      BY <1>2, <1>4
    <3>2. Before(KeyIn(t, k, i), KeyIn(t, k, j)) /\ i \in Peers(t, j)
      BY <2>3, <3>1, <1>3 DEF Precedes, KeyIn, Peers
    <3>3. Ranks(t, k)[i] < Ranks(t, k)[j]
      BY <3>1, <3>2, <1>3, RanksOrder
    <3>4. t[i].Hidden <= t[j].Hidden /\ t[i].Hidden \in Nat /\ t[j].Hidden \in Nat
      BY <3>1, <3>2, <1>3 DEF Before, KeyIn, Row
    <3>5. /\ h[i].Hidden <= h[j].Hidden /\ h[i].Place < h[j].Place
          /\ h[i].Hidden \in Nat /\ h[j].Hidden \in Nat
      BY <3>1, <3>3, <3>4, <2>1
    <3> HIDE DEF h
    <3> QED
      BY <3>5 DEF Precedes, Before
  <2>4. rows' = h
    BY <1>1, <1>6
  <2>5. \A i \in DOMAIN rows : h[i].Code = rows[i].Code
    BY <1>2, <1>4, <2>1
  <2> HIDE DEF h
  <2> QED
    BY <2>1, <2>2, <2>3, <2>4, <2>5, <1>1 DEF SortTyped
<1> QED
  BY <1>5, <1>6

LEMMA SortStep ==
  ASSUME SortTyped, SortNext
  PROVE  /\ SortTyped'
         /\ ranked' => Dense(rows')
         /\ \A i, j \in DOMAIN rows \ {written'} :
              rows[i].Group = rows[j].Group /\ Precedes(rows, i, j) => Precedes(rows', i, j)
         /\ \A i \in DOMAIN rows : rows'[i].Code = rows[i].Code
<1>1. PICK id \in 0..MaxRows, place \in Places, group \in Groups, hidden \in 0..1,
           sort \in BOOLEAN :
        UpsertModel(id, [Place |-> place, Group |-> group, Hidden |-> hidden,
                         Code |-> IF id = 0 THEN 1 ELSE 2], sort)
  BY DEF SortNext
<1> DEFINE obj == [Place |-> place, Group |-> group, Hidden |-> hidden,
                   Code |-> IF id = 0 THEN 1 ELSE 2]
<1>2. id \in Nat /\ place \in Nat /\ hidden \in Nat
  BY SortAssumption
<1>3. obj \in [Columns -> FieldValues] /\ obj["Place"] \in Nat /\ obj["Hidden"] \in Nat
  BY <1>2 DEF Columns, FieldValues
<1>4. UpsertModel(id, obj, sort)
  BY <1>1
<1> HIDE DEF obj
<1> QED
  BY <1>2, <1>3, <1>4, UpsertSettles

\* handleSortOrder after every kind of upsert, for any number of rows and any
\* places: a ranked partition is 1..n with the omitted rows last, the rows that
\* were not written keep their order, and no_update columns their values.
THEOREM SortCorrect == SortSpec => PlacesSettle
<1>1. SortInit => SortTyped
  <2>1. \A S : <<>> \in Seq(S)
    OBVIOUS
  <2> QED
    BY <2>1 DEF SortInit, SortTyped
<1>2. SortTyped /\ [SortNext]_sortVars => SortTyped'
  BY SortStep DEF SortTyped, sortVars
<1>3. SortTyped /\ [SortNext]_sortVars =>
        [/\ ranked' => Dense(rows')
         /\ \A i, j \in DOMAIN rows \ {written'} :
              rows[i].Group = rows[j].Group /\ Precedes(rows, i, j) => Precedes(rows', i, j)
         /\ \A i \in DOMAIN rows : rows'[i].Code = rows[i].Code]_sortVars
  BY SortStep
<1> QED
  BY <1>1, <1>2, <1>3, PTL DEF SortSpec, PlacesSettle

-----------------------------------------------------------------------------
(* Workers.                                                                *)

Inputs == Triggers \cup {0}
WorkerTyped == wkQueue \in Seq(Inputs) /\ wkRan \in Seq(Inputs) /\ wkTaken \in Seq(Inputs)
WorkerInv == WorkerTyped /\ WorkerKeepsOrder

\* The accepted inputs, one by one.
Accounts(taken, ran, queue) ==
  /\ Len(taken) = Len(ran) + Len(queue)
  /\ \A i \in 1..Len(ran) : taken[i] = ran[i]
  /\ \A i \in 1..Len(queue) : taken[Len(ran) + i] = queue[i]

LEMMA AccountsIs ==
  ASSUME NEW S, NEW taken \in Seq(S), NEW ran \in Seq(S), NEW queue \in Seq(S)
  PROVE  Accounts(taken, ran, queue) <=> taken = ran \o queue
<1>1. ASSUME taken = ran \o queue PROVE Accounts(taken, ran, queue)
  BY <1>1 DEF Accounts
<1>2. ASSUME Accounts(taken, ran, queue) PROVE taken = ran \o queue
  <2>1. ran \o queue \in Seq(S) /\ Len(ran \o queue) = Len(ran) + Len(queue)
    OBVIOUS
  <2>2. \A i \in 1..Len(taken) : taken[i] = (ran \o queue)[i]
    <3>1. ASSUME NEW i \in 1..(Len(ran) + Len(queue)), i > Len(ran)
          PROVE  i - Len(ran) \in 1..Len(queue) /\ i = Len(ran) + (i - Len(ran))
      BY <3>1
    <3> QED
      BY <1>2, <3>1 DEF Accounts
  <2> QED
    BY <2>1, <2>2, <1>2, SeqEqual DEF Accounts
<1> QED
  BY <1>1, <1>2

LEMMA QueueTakes ==
  ASSUME NEW S, NEW taken \in Seq(S), NEW ran \in Seq(S), NEW queue \in Seq(S), NEW x \in S,
         Accounts(taken, ran, queue)
  PROVE  Accounts(Append(taken, x), ran, Append(queue, x))
<1> DEFINE t == Append(taken, x)
           q == Append(queue, x)
<1>1. /\ Len(t) = Len(taken) + 1 /\ t[Len(taken) + 1] = x
      /\ \A i \in 1..Len(taken) : t[i] = taken[i]
      /\ Len(q) = Len(queue) + 1 /\ q[Len(queue) + 1] = x
      /\ \A i \in 1..Len(queue) : q[i] = queue[i]
  OBVIOUS
<1>2. Len(taken) \in Nat /\ Len(ran) \in Nat /\ Len(queue) \in Nat
  OBVIOUS
<1> HIDE DEF t, q
<1>3. Len(t) = Len(ran) + Len(q) /\ \A i \in 1..Len(ran) : t[i] = ran[i]
  BY <1>1, <1>2 DEF Accounts
<1>4. ASSUME NEW i \in 1..Len(q) PROVE t[Len(ran) + i] = q[i]
  <2>1. CASE i = Len(queue) + 1
    BY <2>1, <1>1, <1>2 DEF Accounts
  <2>2. CASE i \in 1..Len(queue)
    BY <2>2, <1>1, <1>2 DEF Accounts
  <2> QED
    BY <2>1, <2>2, <1>1, <1>2
<1> QED
  BY <1>3, <1>4 DEF Accounts, t, q

LEMMA QueueGivesHead ==
  ASSUME NEW S, NEW ran \in Seq(S), NEW queue \in Seq(S),
         queue # <<>>
  PROVE  /\ ran \o queue = Append(ran, Head(queue)) \o Tail(queue)
         /\ Head(queue) \in S /\ Tail(queue) \in Seq(S)
         /\ Len(Tail(queue)) = Len(queue) - 1
<1>1. Head(queue) \in S /\ Tail(queue) \in Seq(S) /\ Len(Tail(queue)) = Len(queue) - 1
  OBVIOUS
<1>2. ran \o queue = Append(ran, Head(queue)) \o Tail(queue)
  OBVIOUS
<1> QED
  BY <1>1, <1>2

LEMMA AcceptKeeps ==
  ASSUME WorkerInv, NEW x \in Inputs, Len(wkQueue) < QueueSize,
         wkQueue' = Append(wkQueue, x), wkTaken' = Append(wkTaken, x), wkRan' = wkRan
  PROVE  WorkerInv'
<1>1. /\ wkTaken \in Seq(Inputs) /\ wkRan \in Seq(Inputs) /\ wkQueue \in Seq(Inputs)
      /\ Accounts(wkTaken, wkRan, wkQueue)
  BY AccountsIs DEF WorkerInv, WorkerTyped, WorkerKeepsOrder
<1>2. Accounts(wkTaken', wkRan', wkQueue')
  BY <1>1, QueueTakes
<1>3. Len(wkQueue') <= QueueSize
  BY <1>1, WorkerAssumption
<1>4. /\ wkTaken' \in Seq(Inputs) /\ wkRan' \in Seq(Inputs) /\ wkQueue' \in Seq(Inputs)
  BY <1>1
<1>5. wkTaken' = wkRan' \o wkQueue'
  <2>1. \A taken, ran, queue \in Seq(Inputs) :
          Accounts(taken, ran, queue) => taken = ran \o queue
    BY AccountsIs
  <2> QED
    BY <2>1, <1>2, <1>4, Zenon
<1> QED
  BY <1>3, <1>4, <1>5 DEF WorkerInv, WorkerTyped, WorkerKeepsOrder

LEMMA TakeKeeps == WorkerInv /\ TakeSignal => WorkerInv'
<1> SUFFICES ASSUME WorkerInv, TakeSignal PROVE WorkerInv'
  OBVIOUS
<1>1. /\ wkQueue # <<>> /\ wkQueue' = Tail(wkQueue)
      /\ wkRan' = Append(wkRan, Head(wkQueue)) /\ wkTaken' = wkTaken
  BY DEF TakeSignal, Run
<1>2. /\ wkRan \o wkQueue = wkRan' \o wkQueue'
      /\ Head(wkQueue) \in Inputs /\ wkQueue' \in Seq(Inputs)
      /\ Len(wkQueue') = Len(wkQueue) - 1
  BY <1>1, QueueGivesHead DEF WorkerInv, WorkerTyped
<1>3. wkRan' \in Seq(Inputs)
  BY <1>1, <1>2 DEF WorkerInv, WorkerTyped
<1>4. Len(wkQueue') <= QueueSize
  BY <1>2, WorkerAssumption DEF WorkerInv, WorkerTyped, WorkerKeepsOrder
<1> QED
  BY <1>1, <1>2, <1>3, <1>4 DEF WorkerInv, WorkerTyped, WorkerKeepsOrder

LEMMA WorkerStepInv == WorkerInv /\ [WorkerNext]_workerVars => WorkerInv'
<1> SUFFICES ASSUME WorkerInv, [WorkerNext]_workerVars PROVE WorkerInv'
  OBVIOUS
<1>1. CASE TakeSignal
  BY <1>1, TakeKeeps
<1>2. CASE Trigger
  BY <1>2, AcceptKeeps DEF Trigger, Inputs
<1>3. ASSUME NEW t \in Triggers, Send(t) PROVE WorkerInv'
  BY <1>3, AcceptKeeps DEF Send, Inputs
<1>4. ASSUME UNCHANGED <<wkQueue, wkTaken, wkRan>> PROVE WorkerInv'
  BY <1>4 DEF WorkerInv, WorkerTyped, WorkerKeepsOrder
<1>5. CASE NewWorker \/ TakeTick \/ SeeDone \/ JobReturns \/ BackoffOver \/ Stop
  BY <1>4, <1>5 DEF NewWorker, TakeTick, SeeDone, JobReturns, BackoffOver, Stop
<1>6. ASSUME NEW t \in Triggers, Refuse(t) PROVE WorkerInv'
  BY <1>4, <1>6 DEF Refuse
<1>7. CASE UNCHANGED workerVars
  BY <1>4, <1>7 DEF workerVars
<1> QED
  BY <1>1, <1>2, <1>3, <1>5, <1>6, <1>7 DEF WorkerNext, Loop

\* NewWorker's loop, Trigger, TriggerWithInput and Stop: for any callers and any
\* capacity, the worker runs what it accepted in the order it accepted it, and
\* what it has not run yet is in its queue.
THEOREM WorkerOrderCorrect == WorkerSpec => []WorkerKeepsOrder
<1>1. WorkerInit => WorkerInv
  <2>1. \A S : <<>> \in Seq(S)
    OBVIOUS
  <2>2. <<>> \o <<>> = <<>> /\ Len(<<>>) = 0
    OBVIOUS
  <2> QED
    BY <2>1, <2>2, WorkerAssumption DEF WorkerInit, WorkerInv, WorkerTyped, WorkerKeepsOrder
<1>2. WorkerInv /\ [WorkerNext]_workerVars => WorkerInv'
  BY WorkerStepInv
<1>3. WorkerInv => WorkerKeepsOrder
  BY DEF WorkerInv
<1> QED
  BY <1>1, <1>2, <1>3, PTL DEF WorkerSpec

-----------------------------------------------------------------------------
(* Versions.                                                               *)

Differ(v, other) == {i \in DOMAIN v \cap DOMAIN other : v[i] # other[i]}

\* The parts before i are the same, and the one at i differs.
FirstAt(v, other, i) ==
  /\ i \in Differ(v, other)
  /\ \A j \in Differ(v, other) : i <= j

LEMMA LtIs ==
  ASSUME NEW v \in Seq(Nat), NEW other \in Seq(Nat)
  PROVE  Lt(v, other) <=> \/ \E i \in Nat : FirstAt(v, other, i) /\ v[i] < other[i]
                          \/ v = <<>> /\ other # <<>>
<1> DEFINE D == Differ(v, other)
           first == CHOOSE i \in D : \A j \in D : i <= j
<1>1. GtOrEq(v, other) = IF D # {} THEN v[first] > other[first] ELSE v # <<>> \/ other = <<>>
  BY DEF GtOrEq, Differ
<1>2. D \subseteq Nat /\ \A i \in D : v[i] \in Nat /\ other[i] \in Nat /\ v[i] # other[i]
  BY DEF Differ
<1>3. v = <<>> => D = {}
  BY DEF Differ
<1>4. CASE D = {}
  BY <1>1, <1>4 DEF Lt, FirstAt
<1>5. CASE D # {}
  <2>1. \E i \in D : \A j \in D : i <= j
    <3>1. PICK i \in D : \A j \in D : <<j, i>> \notin OpToRel(<, Nat)
      BY <1>2, <1>5, NatLessThanWellFounded, WFMin, Zenon
    <3>2. \A j \in D : ~ j < i
      BY <1>2, <3>1, Zenon DEF OpToRel
    <3>3. \A j \in D : i <= j
      BY <1>2, <3>2
    <3> QED
      BY <3>3
  <2>2. first \in D /\ \A j \in D : first <= j
    BY <2>1
  <2> HIDE DEF first
  <2>3. \A i \in Nat : FirstAt(v, other, i) => i = first
    BY <2>2, <1>2 DEF FirstAt
  <2>4. FirstAt(v, other, first) /\ first \in Nat
    BY <2>2, <1>2 DEF FirstAt
  <2>5. v[first] > other[first] <=> ~ v[first] < other[first]
    BY <2>2, <1>2
  <2> HIDE DEF D
  <2>6. Lt(v, other) <=> v[first] < other[first]
    BY <1>1, <1>5, <2>5 DEF Lt
  <2> QED
    BY <2>3, <2>4, <2>6, <1>3, <1>5
<1> QED
  BY <1>4, <1>5

LEMMA FirstAtIs ==
  ASSUME NEW v \in Seq(Nat), NEW other \in Seq(Nat), NEW i, FirstAt(v, other, i)
  PROVE  /\ i \in 1..Len(v) /\ i \in 1..Len(other)
         /\ \A m \in 1..Len(v) : m <= Len(other) /\ m < i => v[m] = other[m]
<1>1. DOMAIN v = 1..Len(v) /\ DOMAIN other = 1..Len(other) /\ Len(v) \in Nat /\ Len(other) \in Nat
  OBVIOUS
<1>2. i \in 1..Len(v) /\ i \in 1..Len(other)
  BY <1>1 DEF FirstAt, Differ
<1>3. ASSUME NEW m \in 1..Len(v), m <= Len(other), m < i, v[m] # other[m] PROVE FALSE
  <2>1. m \in 1..Len(other)
    BY <1>1, <1>3
  <2>2. m \in Differ(v, other)
    BY <1>1, <1>3, <2>1 DEF Differ
  <2>3. i <= m
    BY <2>2 DEF FirstAt
  <2> QED
    BY <1>1, <1>2, <1>3, <2>3
<1> QED
  BY <1>2, <1>3

\* GtOrEq and Lt: versions of any length and parts are strictly ordered by the
\* first part that differs, and a prefix is neither before nor after.
THEOREM VersionsCorrect ==
  ASSUME NEW u \in Seq(Nat), NEW v \in Seq(Nat), NEW w \in Seq(Nat)
  PROVE  VersionsOrdered(u, v, w)
<1>1. ~ Lt(u, u)
  BY LtIs DEF FirstAt, Differ
<1>2. ASSUME Lt(u, v), Lt(v, u) PROVE FALSE
  BY <1>2, LtIs DEF FirstAt, Differ
<1>3. ASSUME Lt(u, v), Lt(v, w) PROVE Lt(u, w)
  <2>1. v # <<>> /\ w # <<>>
    <3>1. Lt(u, v) => v # <<>>
      BY LtIs DEF FirstAt, Differ
    <3>2. Lt(v, w) => w # <<>>
      BY LtIs DEF FirstAt, Differ
    <3> QED
      BY <1>3, <3>1, <3>2
  <2>2. CASE u = <<>>
    BY <2>1, <2>2, LtIs
  <2>3. CASE u # <<>>
    <3>1. PICK i \in Nat : FirstAt(u, v, i) /\ u[i] < v[i]
      BY <1>3, <2>3, LtIs
    <3>2. PICK j \in Nat : FirstAt(v, w, j) /\ v[j] < w[j]
      BY <1>3, <2>1, LtIs
    <3> DEFINE a == Len(u)
               b == Len(v)
               c == Len(w)
               k == IF i < j THEN i ELSE j
    <3>3. /\ DOMAIN u = 1..a /\ DOMAIN v = 1..b /\ DOMAIN w = 1..c
          /\ a \in Nat /\ b \in Nat /\ c \in Nat
          /\ \A m \in 1..a : u[m] \in Nat
          /\ \A m \in 1..b : v[m] \in Nat
          /\ \A m \in 1..c : w[m] \in Nat
      OBVIOUS
    <3> HIDE DEF a, b, c
    <3>4. /\ i \in 1..a /\ i \in 1..b
          /\ \A m \in 1..a : m <= b /\ m < i => u[m] = v[m]
      BY <3>1, FirstAtIs DEF a, b
    <3>5. /\ j \in 1..b /\ j \in 1..c
          /\ \A m \in 1..b : m <= c /\ m < j => v[m] = w[m]
      BY <3>2, FirstAtIs DEF b, c
    <3>6. k \in 1..a /\ k \in 1..b /\ k \in 1..c
      BY <3>3, <3>4, <3>5
    <3>7. u[k] < w[k]
      <4>1. CASE i < j
        <5>1. k = i /\ v[i] = w[i]
          BY <4>1, <3>3, <3>4, <3>5
        <5> QED
          BY <5>1, <3>1
      <4>2. CASE i = j
        <5>1. /\ k = i /\ u[i] < v[i] /\ v[i] < w[i]
              /\ u[i] \in Nat /\ v[i] \in Nat /\ w[i] \in Nat
          BY <4>2, <3>1, <3>2, <3>3, <3>4, <3>5
        <5> QED
          BY <5>1
      <4>3. CASE j < i
        <5>1. k = j /\ u[j] = v[j]
          BY <4>3, <3>3, <3>4, <3>5
        <5> QED
          BY <5>1, <3>2
      <4> QED
        BY <4>1, <4>2, <4>3
    <3>8. \A m \in 1..a : m <= c /\ m < k => u[m] = w[m]
      <4> SUFFICES ASSUME NEW m \in 1..a, m <= c, m < k PROVE u[m] = w[m]
        OBVIOUS
      <4>1. m < i /\ m < j /\ m \in 1..b /\ m <= b
        BY <3>3, <3>4, <3>5
      <4>2. u[m] = v[m]
        BY <4>1, <3>4
      <4>3. v[m] = w[m]
        BY <4>1, <3>5
      <4> QED
        BY <4>2, <4>3
    <3>9. FirstAt(u, w, k)
      BY <3>3, <3>6, <3>7, <3>8 DEF FirstAt, Differ
    <3> QED
      BY <3>6, <3>7, <3>9, LtIs
  <2> QED
    BY <2>2, <2>3
<1>4. ASSUME NEW n \in 1..Len(v)
      PROVE  ~ Lt(v, SubSeq(v, 1, n)) /\ ~ Lt(SubSeq(v, 1, n), v)
  <2> DEFINE p == SubSeq(v, 1, n)
  <2>1. p \in Seq(Nat) /\ Len(p) = n /\ \A i \in 1..n : p[i] = v[i]
    OBVIOUS
  <2> HIDE DEF p
  <2>2. Differ(v, p) = {} /\ Differ(p, v) = {} /\ v # <<>> /\ p # <<>>
    BY <2>1 DEF Differ
  <2>3. ~ Lt(v, p) /\ ~ Lt(p, v)
    BY <2>1, <2>2, LtIs DEF FirstAt
  <2> QED
    BY <2>3 DEF p
<1> QED
  BY <1>1, <1>2, <1>3, <1>4 DEF VersionsOrdered

-----------------------------------------------------------------------------
(* The address a request came from.                                        *)

Outside(config, chain) == {i \in 1..Len(chain) : ~ isTrusted(config, chain[i])}
IsLast(i, S) == i \in S /\ \A j \in S : j <= i

LEMMA HasLeast ==
  ASSUME NEW S \in SUBSET Nat, S # {}
  PROVE  \E m \in S : \A x \in S : m <= x
<1>1. PICK m \in S : \A x \in S : ~ (<<x, m>> \in OpToRel(<, Nat))
  BY WFMin, NatLessThanWellFounded, Zenon
<1>2. \A x \in S : ~ x < m
  BY <1>1, Zenon DEF OpToRel
<1>3. \A x \in S : m <= x
  BY <1>2
<1> QED
  BY <1>3

LEMMA HasLast ==
  ASSUME NEW n \in Nat, NEW S \in SUBSET (1..n), S # {}
  PROVE  \E i \in S : IsLast(i, S)
<1> DEFINE Gaps == {m \in Nat : n - m \in S}
<1>1. PICK k \in S : TRUE
  OBVIOUS
<1>2. n - k \in Nat /\ n - (n - k) = k
  BY <1>1
<1>3. Gaps # {} /\ Gaps \subseteq Nat
  BY <1>1, <1>2
<1> HIDE DEF Gaps
<1>4. PICK m \in Gaps : \A x \in Gaps : m <= x
  BY <1>3, HasLeast
<1>5. m \in Nat /\ n - m \in S
  BY DEF Gaps
<1>6. ASSUME NEW j \in S PROVE j <= n - m
  <2>1. n - j \in Nat /\ n - (n - j) = j /\ j \in Int
    OBVIOUS
  <2>2. n - j \in Gaps
    BY <2>1 DEF Gaps
  <2>3. m <= n - j
    BY <1>4, <2>2
  <2> QED
    BY <1>5, <2>1, <2>3
<1> QED
  BY <1>5, <1>6 DEF IsLast

\* Without hops the answer is the last address that is no proxy, if there is one.
LEMMA ClientIs ==
  ASSUME NEW S, NEW chain \in Seq(S), chain # <<>>, NEW config, ~ config.useHops
  PROVE  LET ip == clientOf(config, chain, chain[Len(chain)])
         IN  IF Outside(config, chain) = {} THEN ip = chain[1]
             ELSE \E i \in 1..Len(chain) : IsLast(i, Outside(config, chain)) /\ ip = chain[i]
<1> DEFINE n == Len(chain)
           O == Outside(config, chain)
           out == {i \in DOMAIN chain : ~ isTrusted(config, chain[i])}
<1>1. n \in Nat /\ n >= 1 /\ DOMAIN chain = 1..n
  OBVIOUS
<1>2. out = O /\ O \in SUBSET (1..n)
  BY <1>1 DEF Outside
<1>3. clientOf(config, chain, chain[n]) =
        IF ~ isTrusted(config, chain[n]) THEN chain[n]
        ELSE IF O = {} THEN chain[1] ELSE chain[CHOOSE i \in O : \A j \in O : j <= i]
  <2>1. clientOf(config, chain, chain[n]) =
          IF ~ isTrusted(config, chain[n]) THEN chain[n]
          ELSE IF out = {} THEN chain[1] ELSE chain[CHOOSE i \in out : \A j \in out : j <= i]
    BY Zenon DEF clientOf
  <2> HIDE DEF out, O
  <2> QED
    BY <1>2, <2>1, Zenon
<1> HIDE DEF n, O, out
<1>4. ~ isTrusted(config, chain[n]) <=> n \in O
  BY <1>1 DEF O, Outside, n
<1>5. CASE O = {}
  BY <1>3, <1>4, <1>5 DEF O, n
<1>6. CASE n \in O
  <2>1. IsLast(n, O) /\ n \in 1..n
    BY <1>1, <1>2, <1>6 DEF IsLast
  <2> QED
    BY <1>3, <1>4, <1>6, <2>1 DEF O, n
<1>7. CASE O # {} /\ n \notin O
  <2>1. PICK i \in O : IsLast(i, O)
    BY <1>1, <1>2, <1>7, HasLast
  <2>2. \E k \in O : \A j \in O : j <= k
    BY <2>1 DEF IsLast
  <2> DEFINE k == CHOOSE k \in O : \A j \in O : j <= k
  <2>3. k \in O /\ \A j \in O : j <= k
    BY <2>2
  <2>4. clientOf(config, chain, chain[n]) = chain[k]
    BY <1>3, <1>4, <1>7
  <2> HIDE DEF k
  <2>5. k \in 1..n /\ IsLast(k, O)
    BY <1>2, <2>3 DEF IsLast
  <2> QED
    BY <1>7, <2>4, <2>5 DEF O, n
<1> QED
  BY <1>5, <1>6, <1>7

\* What a client writes in front of the addresses its peers added, of any length,
\* does not change the answer, and the answer is a proxy only if all peers are.
THEOREM ClientCorrect ==
  ASSUME NEW S, NEW chain \in Seq(S), chain # <<>>, NEW front \in Seq(S), NEW config,
         config.useHops \in BOOLEAN, config.trustHops \in Int
  PROVE  LET remote == chain[Len(chain)]
             ip     == clientOf(config, chain, remote)
             longer == clientOf(config, front \o chain, remote)
         IN  /\ \E i \in 1..Len(chain) : ip = chain[i]
             /\ config.useHops /\ config.trustHops < Len(chain) => longer = ip
             /\ ~ config.useHops /\ ~ isTrusted(config, ip) => longer = ip
             /\ ~ config.useHops /\ isTrusted(config, ip) =>
                  \A i \in 1..Len(chain) : isTrusted(config, chain[i])
<1> DEFINE n == Len(chain)
           m == Len(front)
           both == front \o chain
           remote == chain[n]
           ip == clientOf(config, chain, remote)
           longer == clientOf(config, both, remote)
<1>1. /\ n \in Nat /\ n >= 1 /\ m \in Nat /\ DOMAIN chain = 1..n
      /\ both \in Seq(S) /\ Len(both) = m + n /\ both # <<>> /\ both[m + n] = chain[n]
      /\ \A i \in 1..n : both[m + i] = chain[i]
  OBVIOUS
<1>2. \A i \in 1..(m + n) : i > m => both[i] = chain[i - m] /\ i - m \in 1..n
  <2> SUFFICES ASSUME NEW i \in 1..(m + n), i > m PROVE both[i] = chain[i - m] /\ i - m \in 1..n
    OBVIOUS
  <2>1. i - m \in 1..n /\ m + (i - m) = i
    BY <1>1
  <2> QED
    BY <1>1, <2>1
<1> HIDE DEF n, m, both
<1>3. CASE config.useHops
  <2> DEFINE h == config.trustHops
  <2>1. /\ ip = IF h <= 0 THEN remote ELSE chain[IF n - h < 1 THEN 1 ELSE n - h]
        /\ longer = IF h <= 0 THEN remote ELSE both[IF m + n - h < 1 THEN 1 ELSE m + n - h]
    <3>1. ip = IF h <= 0 THEN remote ELSE chain[IF n - h < 1 THEN 1 ELSE n - h]
      BY <1>3, Zenon DEF clientOf, n
    <3>2. longer = IF h <= 0 THEN remote
                   ELSE both[IF Len(both) - h < 1 THEN 1 ELSE Len(both) - h]
      BY <1>3, Zenon DEF clientOf
    <3> QED
      BY <1>1, <3>1, <3>2
  <2>2. h \in Int
    OBVIOUS
  <2> HIDE DEF h, ip, longer
  <2>3. \E i \in 1..n : ip = chain[i]
    <3>1. CASE h <= 0
      BY <1>1, <2>1, <3>1
    <3>2. CASE h > 0 /\ n - h < 1
      BY <1>1, <2>1, <2>2, <3>2
    <3>3. CASE h > 0 /\ n - h >= 1
      <4>1. n - h \in 1..n /\ ip = chain[n - h]
        BY <1>1, <2>1, <2>2, <3>3
      <4> QED
        BY <4>1
    <3> QED
      BY <1>1, <2>2, <3>1, <3>2, <3>3
  <2>4. ASSUME h < n PROVE longer = ip
    <3>1. CASE h <= 0
      BY <2>1, <3>1
    <3>2. CASE h > 0
      <4>1. n - h \in 1..n /\ m + n - h = m + (n - h) /\ ~ n - h < 1 /\ ~ m + n - h < 1 /\ ~ h <= 0
        BY <1>1, <2>2, <2>4, <3>2
      <4>2. both[m + n - h] = chain[n - h]
        BY <1>1, <4>1
      <4>3. ip = chain[n - h] /\ longer = both[m + n - h]
        BY <2>1, <4>1
      <4> QED
        BY <4>2, <4>3
    <3> QED
      BY <2>2, <3>1, <3>2
  <2> QED
    BY <1>3, <2>3, <2>4 DEF n, both, h, ip, longer
<1>4. CASE ~ config.useHops
  <2> DEFINE O == Outside(config, chain)
             P == Outside(config, both)
  <2>1. IF O = {} THEN ip = chain[1] ELSE \E i \in 1..n : IsLast(i, O) /\ ip = chain[i]
    BY <1>1, <1>4, ClientIs DEF n
  <2>2. IF P = {} THEN longer = both[1] ELSE \E i \in 1..(m + n) : IsLast(i, P) /\ longer = both[i]
    <3>1. remote = both[Len(both)]
      BY <1>1
    <3> QED
      BY <1>1, <1>4, <3>1, ClientIs
  <2>3. /\ \A i \in 1..n : i \in O <=> ~ isTrusted(config, chain[i])
        /\ \A i \in 1..n : m + i \in P <=> i \in O
        /\ \A i \in P : i \in 1..(m + n) /\ (i > m => i - m \in O)
        /\ O \in SUBSET (1..n)
    <3>1. \A i \in 1..n : m + i \in 1..(m + n)
      BY <1>1
    <3> QED
      BY <1>1, <1>2, <3>1 DEF Outside, n
  <2> HIDE DEF O, P
  <2>4. CASE O = {}
    <3>1. ip = chain[1] /\ 1 \in 1..n
      BY <1>1, <2>1, <2>4
    <3>2. \A i \in 1..n : isTrusted(config, chain[i])
      BY <2>3, <2>4
    <3> HIDE DEF ip, longer
    <3>3. isTrusted(config, ip) /\ \E i \in 1..n : ip = chain[i]
      BY <3>1, <3>2
    <3> QED
      BY <1>4, <3>2, <3>3 DEF n, ip, longer
  <2>5. CASE O # {}
    <3>1. PICK i \in 1..n : IsLast(i, O) /\ ip = chain[i]
      BY <2>1, <2>5
    <3>2. ~ isTrusted(config, ip)
      BY <2>3, <3>1 DEF IsLast
    <3>3. m + i \in P
      BY <2>3, <3>1 DEF IsLast
    <3>4. PICK k \in 1..(m + n) : IsLast(k, P) /\ longer = both[k]
      BY <2>2, <3>3
    <3>5. m + i <= k /\ k \in P
      BY <3>3, <3>4 DEF IsLast
    <3>6. k > m
      BY <1>1, <3>5
    <3>7. k - m \in O /\ both[k] = chain[k - m]
      BY <1>2, <2>3, <3>5, <3>6
    <3>8. k - m <= i
      BY <3>1, <3>7 DEF IsLast
    <3>9. k - m = i
      BY <1>1, <3>5, <3>8
    <3>10. longer = ip
      BY <3>1, <3>4, <3>7, <3>9
    <3> HIDE DEF ip, longer
    <3> QED
      BY <1>4, <3>1, <3>2, <3>10 DEF n, both, ip, longer
  <2> QED
    BY <2>4, <2>5
<1> QED
  BY <1>3, <1>4

-----------------------------------------------------------------------------
(* Pages.                                                                  *)

PageSizes == MaxPageSize \in Nat \ {0} /\ DefaultPageSize \in Nat \ {0}
AtPage(n, pageSize) == [page |-> n, pageSize |-> pageSize]

LEMMA LimitedIs ==
  ASSUME NEW S, NEW s \in Seq(S), NEW offset \in Nat, NEW limit \in Nat
  PROVE  /\ Limited(s, offset, limit) \in Seq(S) /\ Len(Limited(s, offset, limit)) <= limit
         /\ \A i \in Nat : i \in 1..Len(Limited(s, offset, limit)) <=>
                             i \in 1..limit /\ offset + i <= Len(s)
         /\ \A i \in 1..Len(Limited(s, offset, limit)) :
              Limited(s, offset, limit)[i] = s[offset + i]
<1> DEFINE upto == IF offset + limit < Len(s) THEN offset + limit ELSE Len(s)
           cut == SubSeq(s, offset + 1, upto)
<1>1. Len(s) \in Nat /\ upto \in Nat /\ upto <= Len(s)
  OBVIOUS
<1>2. /\ cut \in Seq(S)
      /\ Len(cut) = IF offset + 1 <= upto THEN upto - offset ELSE 0
      /\ \A i \in 1..Len(cut) : cut[i] = s[offset + i]
  <2> HIDE DEF upto
  <2>1. CASE offset + 1 <= upto
    <3>1. /\ offset + 1 \in 1..(Len(s) + 1) /\ upto \in (offset + 1) - 1..Len(s)
      BY <1>1, <2>1
    <3>2. cut \in Seq(S) /\ Len(cut) = upto - (offset + 1) + 1
      BY <1>1, <2>1, <3>1
    <3>3. \A i \in 1..Len(cut) : cut[i] = s[offset + i]
      BY <1>1, <2>1, <3>1, <3>2
    <3> QED
      BY <1>1, <2>1, <3>2, <3>3
  <2>2. CASE ~ (offset + 1 <= upto)
    <3>1. cut = <<>>
      BY <1>1, <2>2
    <3>2. <<>> \in Seq(S) /\ Len(<<>>) = 0
      OBVIOUS
    <3> HIDE DEF cut
    <3>3. cut \in Seq(S) /\ Len(cut) = 0
      BY <3>1, <3>2, Zenon
    <3> QED
      BY <2>2, <3>3
  <2> QED
    BY <2>1, <2>2
<1>3. Limited(s, offset, limit) = cut
  BY DEF Limited
<1> HIDE DEF cut
<1> QED
  BY <1>1, <1>2, <1>3

\* Whatever size is asked for, the pages 0, 1, ... of a list hold each of its rows
\* once, in order, none has more than MaxPageSize rows, and one is empty only past
\* the end; a page before the first is the first (applyPager).
THEOREM PagingCorrect ==
  ASSUME PageSizes, NEW S, NEW s \in Seq(S), NEW pageSize \in Int
  PROVE  LET Page(n) == applyPager(s, AtPage(n, pageSize))
             size    == sizeOf(AtPage(0, pageSize))
         IN  /\ \A n \in Int : Len(Page(n)) <= MaxPageSize
             /\ \A n \in Int : n < 0 => Page(n) = Page(0)
             /\ \A n \in Nat : \A i \in 1..Len(Page(n)) : Page(n)[i] = s[n * size + i]
             /\ \A j \in 1..Len(s) : \E n \in Nat : \E i \in 1..Len(Page(n)) :
                  /\ j = n * size + i
                  /\ \A m \in Nat : \A k \in 1..Len(Page(m)) :
                       j = m * size + k => m = n /\ k = i
             /\ \A n \in Nat : Page(n) = <<>> <=> n * size >= Len(s)
<1> DEFINE Page(n) == applyPager(s, AtPage(n, pageSize))
           size == sizeOf(AtPage(0, pageSize))
           most == Len(s)
<1>1. /\ size \in Nat /\ size > 0 /\ size <= MaxPageSize /\ MaxPageSize \in Nat
      /\ \A n : sizeOf(AtPage(n, pageSize)) = size
  BY DEF sizeOf, AtPage, PageSizes
<1>2. /\ \A n \in Nat : pageOf(AtPage(n, pageSize)) = n
      /\ \A n \in Int : n < 0 => pageOf(AtPage(n, pageSize)) = 0
  BY DEF pageOf, AtPage
<1> HIDE DEF size
<1>3. /\ \A n \in Nat : Page(n) = Limited(s, n * size, size)
      /\ \A n \in Int : n < 0 => Page(n) = Page(0)
  BY <1>1, <1>2 DEF applyPager
<1> HIDE DEF Page
<1>4. most \in Nat
  OBVIOUS
<1>5. ASSUME NEW n \in Nat
      PROVE  /\ Page(n) \in Seq(S) /\ Len(Page(n)) \in Nat /\ Len(Page(n)) <= size
             /\ \A i \in Nat : i \in 1..Len(Page(n)) <=> i \in 1..size /\ n * size + i <= most
             /\ \A i \in 1..Len(Page(n)) : Page(n)[i] = s[n * size + i]
  <2> DEFINE offset == n * size
  <2>1. offset \in Nat /\ Page(n) = Limited(s, offset, size)
    BY <1>1, <1>3
  <2> HIDE DEF offset
  <2>2. /\ Page(n) \in Seq(S) /\ Len(Page(n)) <= size
        /\ \A i \in Nat : i \in 1..Len(Page(n)) <=> i \in 1..size /\ offset + i <= Len(s)
        /\ \A i \in 1..Len(Page(n)) : Page(n)[i] = s[offset + i]
    <3>1. ASSUME NEW cut, cut = Limited(s, offset, size)
          PROVE  /\ cut \in Seq(S) /\ Len(cut) <= size
                 /\ \A i \in Nat : i \in 1..Len(cut) <=> i \in 1..size /\ offset + i <= Len(s)
                 /\ \A i \in 1..Len(cut) : cut[i] = s[offset + i]
      BY <1>1, <2>1, <3>1, LimitedIs
    <3> QED
      BY <2>1, <3>1, Zenon
  <2>3. Len(Page(n)) \in Nat
    BY <2>2
  <2> QED
    BY <2>2, <2>3 DEF offset
<1> HIDE DEF most
<1>6. \A n \in Int : Len(Page(n)) <= MaxPageSize
  <2> SUFFICES ASSUME NEW n \in Int PROVE Len(Page(n)) <= MaxPageSize
    OBVIOUS
  <2>1. ASSUME NEW m \in Nat PROVE Len(Page(m)) <= MaxPageSize
    BY <1>1, <1>5
  <2>2. n \in Nat \/ Page(n) = Page(0)
    BY <1>3
  <2> QED
    BY <2>1, <2>2
<1>7. ASSUME NEW j \in 1..most
      PROVE  \E n \in Nat : \E i \in 1..Len(Page(n)) :
               /\ j = n * size + i
               /\ \A m \in Nat : \A k \in 1..Len(Page(m)) : j = m * size + k => m = n /\ k = i
  <2> DEFINE n == (j - 1) \div size
             i == ((j - 1) % size) + 1
  <2>1. n \in Nat /\ i \in 1..size /\ j = n * size + i /\ i \in Nat
    <3>1. j - 1 \in Nat
      OBVIOUS
    <3>2. ASSUME NEW x \in Nat, NEW y \in Nat, y > 0
          PROVE  x = y * (x \div y) + (x % y) /\ x % y \in 0..(y - 1) /\ x \div y \in Nat
      BY <3>2
    <3> QED
      BY <1>1, <3>1, <3>2
  <2> HIDE DEF n, i
  <2>2. i \in 1..Len(Page(n))
    BY <1>4, <1>5, <2>1
  <2>3. ASSUME NEW m \in Nat, NEW k \in 1..Len(Page(m)), j = m * size + k PROVE m = n /\ k = i
    <3>1. k \in 1..size
      BY <1>5
    <3>2. \A x, y \in Nat : x > y => x * size >= y * size + size
      BY <1>1
    <3>3. m * size \in Nat /\ n * size \in Nat
      BY <1>1, <2>1
    <3>4. ~ m > n /\ ~ n > m
      BY <1>1, <2>1, <2>3, <3>1, <3>2, <3>3
    <3>5. m = n
      BY <2>1, <3>4
    <3> QED
      BY <2>1, <2>3, <3>1, <3>3, <3>5
  <2> QED
    BY <2>1, <2>2, <2>3
<1>8. \A n \in Nat : Page(n) = <<>> <=> n * size >= most
  <2> SUFFICES ASSUME NEW n \in Nat PROVE Page(n) = <<>> <=> n * size >= most
    OBVIOUS
  <2>1. n * size \in Nat
    BY <1>1
  <2>2. Page(n) = <<>> <=> Len(Page(n)) = 0
    BY <1>5
  <2> DEFINE offset == n * size
             length == Len(Page(n))
  <2>3. length \in Nat /\ (1 \in 1..length <=> 1 \in 1..size /\ offset + 1 <= most)
    BY <1>5
  <2> HIDE DEF offset, length
  <2>4. length = 0 <=> offset >= most
    BY <1>1, <1>4, <2>1, <2>3 DEF offset
  <2> QED
    BY <2>2, <2>4 DEF offset, length
<1> QED
  BY <1>3, <1>5, <1>6, <1>7, <1>8 DEF Page, size, most

-----------------------------------------------------------------------------
(* Permutations.                                                           *)

\* What the counter may show, and which of two comes first.
Counts(n, most) == {d \in [1..n -> Nat] : \A i \in 1..n : d[i] <= most[i] \/ d[i] = 0}
ComesBefore(n, d, e) == \E i \in 1..n : d[i] < e[i] /\ \A j \in 1..(i - 1) : d[j] = e[j]

LEMMA IncrIs ==
  ASSUME NEW n \in Nat, NEW most \in [1..n -> Int], NEW d \in Counts(n, most)
  PROVE  LET below == {i \in 1..n : d[i] < most[i]} IN
         IF below = {} THEN Incr(d, most) = <<>>
         ELSE \E last \in 1..n :
                /\ IsLast(last, below)
                /\ Incr(d, most) = [i \in 1..n |-> IF i = last THEN d[i] + 1
                                                   ELSE IF i > last THEN 0 ELSE d[i]]
<1> DEFINE below == {i \in 1..n : d[i] < most[i]}
<1>1. DOMAIN d = 1..n /\ below \in SUBSET (1..n)
  BY DEF Counts
<1>2. CASE below = {}
  BY <1>1, <1>2, Zenon DEF Incr
<1>3. CASE below # {}
  <2> DEFINE last == CHOOSE i \in below : \A j \in below : j <= i
             next == [i \in 1..n |-> IF i = last THEN d[i] + 1
                                     ELSE IF i > last THEN 0 ELSE d[i]]
             lower == {i \in DOMAIN d : d[i] < most[i]}
             l == CHOOSE i \in lower : \A j \in lower : j <= i
             At(D) == [i \in D |-> IF i = last THEN d[i] + 1
                                     ELSE IF i > last THEN 0 ELSE d[i]]
  <2>1. Incr(d, most) = next
    <3>1. lower = below
      BY <1>1
    <3>2. l = last
      <4> HIDE DEF lower, below
      <4> QED
        BY <3>1, Zenon
    <3>3. Incr(d, most) = IF lower = {} THEN <<>>
                          ELSE [i \in DOMAIN d |-> IF i = l THEN d[i] + 1
                                                   ELSE IF i > l THEN 0 ELSE d[i]]
      BY Zenon DEF Incr
    <3> HIDE DEF lower, below, last, l
    <3>4. Incr(d, most) = At(DOMAIN d)
      BY <1>3, <3>1, <3>2, <3>3, Zenon
    <3> HIDE DEF At
    <3>5. Incr(d, most) = At(1..n)
      BY <1>1, <3>4, Zenon
    <3> QED
      BY <3>5, Zenon DEF At
  <2>2. \E i \in below : IsLast(i, below)
    BY <1>1, <1>3, HasLast
  <2>3. last \in below /\ \A j \in below : j <= last
    BY <2>2, Zenon DEF IsLast
  <2>4. last \in 1..n /\ IsLast(last, below)
    BY <1>1, <2>3 DEF IsLast
  <2> HIDE DEF last
  <2>5. \E k \in 1..n :
          /\ IsLast(k, below)
          /\ Incr(d, most) = [i \in 1..n |-> IF i = k THEN d[i] + 1 ELSE IF i > k THEN 0 ELSE d[i]]
    <3> HIDE DEF below
    <3> QED
      BY <2>1, <2>4, Zenon
  <2> QED
    BY <1>3, <2>5, Zenon
<1> QED
  BY <1>2, <1>3

\* permCounter visits every combination of the columns once, in order: Incr goes
\* to the next one and skips none, and stops after the last one.
THEOREM PermutationsCorrect ==
  ASSUME NEW n \in Nat \ {0}, NEW most \in [1..n -> Int], NEW d \in Counts(n, most)
  PROVE  /\ Incr(d, most) = <<>> => \A e \in Counts(n, most) : ~ ComesBefore(n, d, e)
         /\ Incr(d, most) # <<>> =>
              /\ Incr(d, most) \in Counts(n, most)
              /\ ComesBefore(n, d, Incr(d, most))
              /\ \A e \in Counts(n, most) :
                   ComesBefore(n, d, e) => e = Incr(d, most) \/ ComesBefore(n, Incr(d, most), e)
<1> DEFINE below == {i \in 1..n : d[i] < most[i]}
<1>1. /\ d \in [1..n -> Nat] /\ n \in Nat
      /\ \A i \in 1..n : d[i] \in Nat /\ most[i] \in Int /\ (d[i] <= most[i] \/ d[i] = 0)
  BY DEF Counts
<1>2. ASSUME NEW e \in Counts(n, most)
      PROVE  /\ e \in [1..n -> Nat]
             /\ \A i \in 1..n : e[i] \in Nat /\ (e[i] <= most[i] \/ e[i] = 0)
  BY DEF Counts
\* Where a later combination is first larger, the counter is below its limit.
<1>3. ASSUME NEW e \in Counts(n, most), NEW i \in 1..n, d[i] < e[i] PROVE i \in below
  <2>1. d[i] \in Nat /\ most[i] \in Int /\ e[i] \in Nat /\ (e[i] <= most[i] \/ e[i] = 0)
    BY <1>1, <1>2
  <2>2. d[i] < most[i]
    BY <1>3, <2>1
  <2> QED
    BY <2>2
<1>4. CASE below = {}
  <2>1. Incr(d, most) = <<>>
    BY <1>1, <1>4, IncrIs
  <2>2. \A e \in Counts(n, most) : ~ ComesBefore(n, d, e)
    BY <1>3, <1>4 DEF ComesBefore
  <2> QED
    BY <2>1, <2>2
<1>5. CASE below # {}
  <2>1. PICK last \in 1..n :
          /\ IsLast(last, below)
          /\ Incr(d, most) = [i \in 1..n |-> IF i = last THEN d[i] + 1
                                             ELSE IF i > last THEN 0 ELSE d[i]]
    BY <1>1, <1>5, IncrIs
  <2> DEFINE f == Incr(d, most)
  <2>2. d[last] < most[last] /\ \A j \in below : j <= last
    BY <2>1 DEF IsLast
  <2>3. /\ f \in [1..n -> Nat]
        /\ f[last] = d[last] + 1 /\ \A i \in 1..(last - 1) : f[i] = d[i]
        /\ \A i \in 1..n : i > last => f[i] = 0
    BY <1>1, <2>1
  <2> HIDE DEF f, below
  <2>4. \A i \in 1..n : f[i] <= most[i] \/ f[i] = 0
    <3> SUFFICES ASSUME NEW i \in 1..n PROVE f[i] <= most[i] \/ f[i] = 0
      OBVIOUS
    <3>1. CASE i < last
      BY <1>1, <2>3, <3>1
    <3>2. CASE i = last
      BY <1>1, <2>2, <2>3, <3>2
    <3>3. CASE i > last
      BY <2>3, <3>3
    <3> QED
      BY <3>1, <3>2, <3>3
  <2>5. f \in Counts(n, most)
    BY <2>3, <2>4 DEF Counts
  <2>6. ComesBefore(n, d, f)
    BY <1>1, <2>3 DEF ComesBefore
  <2>7. ASSUME NEW e \in Counts(n, most), ComesBefore(n, d, e), e # f PROVE ComesBefore(n, f, e)
    <3>1. PICK i \in 1..n : d[i] < e[i] /\ \A j \in 1..(i - 1) : d[j] = e[j]
      BY <2>7 DEF ComesBefore
    <3>2. i <= last
      BY <1>3, <2>2, <3>1
    <3>3. e \in [1..n -> Nat] /\ \A j \in 1..n : e[j] \in Nat /\ f[j] \in Nat /\ d[j] \in Nat
      BY <1>1, <1>2, <2>3
    <3>4. CASE i < last
      <4>1. f[i] = d[i] /\ \A j \in 1..(i - 1) : f[j] = d[j]
        BY <2>3, <3>4
      <4> QED
        BY <3>1, <4>1 DEF ComesBefore
    <3>5. CASE i = last
      <4>1. f[last] <= e[last] /\ \A j \in 1..(last - 1) : f[j] = e[j]
        BY <2>3, <3>1, <3>3, <3>5
      <4>2. CASE f[last] < e[last]
        BY <4>1, <4>2 DEF ComesBefore
      <4>3. CASE f[last] = e[last]
        <5> DEFINE differ == {j \in 1..n : n + 1 - j \in 1..n /\ f[n + 1 - j] # e[n + 1 - j]}
        <5>1. PICK k \in 1..n : f[k] # e[k]
          BY <2>3, <2>7, <3>3
        <5>2. n + 1 - k \in differ /\ differ \in SUBSET (1..n)
          BY <1>1, <5>1
        <5>3. PICK m \in differ : IsLast(m, differ)
          BY <1>1, <5>2, HasLast
        <5> DEFINE first == n + 1 - m
        <5>4. first \in 1..n /\ f[first] # e[first]
          BY <5>3
        <5>5. \A j \in 1..(first - 1) : f[j] = e[j]
          <6> SUFFICES ASSUME NEW j \in 1..(first - 1), f[j] # e[j] PROVE FALSE
            OBVIOUS
          <6>1. n + 1 - j \in 1..n /\ n + 1 - (n + 1 - j) = j /\ j \in 1..n
            BY <1>1, <5>4
          <6>2. n + 1 - j \in differ
            BY <6>1
          <6>3. n + 1 - j <= m
            BY <5>3, <6>2 DEF IsLast
          <6> QED
            BY <1>1, <5>2, <5>4, <6>3
        <5> HIDE DEF first, differ
        <5>6. first > last
          BY <4>1, <4>3, <5>4
        <5>7. f[first] = 0 /\ f[first] < e[first]
          BY <2>3, <3>3, <5>4, <5>6
        <5> QED
          BY <5>4, <5>5, <5>7 DEF ComesBefore
      <4> QED
        BY <3>3, <4>1, <4>2, <4>3
    <3> QED
      BY <3>2, <3>4, <3>5
  <2>8. f # <<>>
    BY <2>3
  <2> QED
    BY <2>5, <2>6, <2>7, <2>8 DEF f
<1> QED
  BY <1>4, <1>5

-----------------------------------------------------------------------------
(* Working days.                                                           *)

DayPast(dir, a, x) == IF dir = 1 THEN a < x ELSE x < a
WorkDays(H, dir, day, e) ==
  {x \in Int : Contains(x, H) /\ DayPast(dir, day, x) /\ ~ DayPast(dir, e, x)}

\* e is left working days past day.
Reaches(H, dir, day, left, e) ==
  IF left = 0 THEN e = day
  ELSE /\ Contains(e, H) /\ DayPast(dir, day, e)
       /\ Cardinality(WorkDays(H, dir, day, e)) = left

\* H is a traveler.  Without a bound on the holidays AddDays need not return.
Bounded(H) == \E b \in Nat : \A h \in H.holidays : -b <= h /\ h <= b
Ways == {1, -1}

LEMMA WorkDaysFinite ==
  ASSUME NEW H, NEW dir \in Ways, NEW day \in Int, NEW e \in Int
  PROVE  /\ IsFiniteSet(WorkDays(H, dir, day, e))
         /\ Cardinality(WorkDays(H, dir, day, e)) \in Nat
<1> DEFINE all == IF dir = 1 THEN day..e ELSE e..day
<1>1. IsFiniteSet(all)
  <2>1. IsFiniteSet(day..e) /\ IsFiniteSet(e..day)
    BY FS_Interval
  <2> QED
    BY <2>1
<1>2. WorkDays(H, dir, day, e) \in SUBSET all
  BY DEF WorkDays, DayPast, Ways
<1> QED
  BY <1>1, <1>2, FS_Subset, FS_CardinalityType

LEMMA NextWorkDay ==
  ASSUME NEW H, Bounded(H), NEW dir \in Ways, NEW day \in Int
  PROVE  \E e \in Int : Reaches(H, dir, day, 1, e)
<1>1. \E k \in Nat : k > 0 /\ Contains(day + dir * k, H)
  <2>1. PICK b \in Nat : \A h \in H.holidays : -b <= h /\ h <= b
    BY DEF Bounded
  <2>2. CASE dir = 1
    <3> DEFINE s == IF day > b THEN day + 1 ELSE b + 1
    <3>1. s \in Int /\ s > b /\ s > day
      OBVIOUS
    <3> HIDE DEF s
    <3>2. \E i \in 0..2 : (s + i) % 7 \notin {0, 6}
      BY <3>1
    <3>3. PICK i \in 0..2 : (s + i) % 7 \notin {0, 6}
      BY <3>2
    <3>4. s + i \notin H.holidays
      BY <2>1, <3>1
    <3>5. (s + i) - day \in Nat /\ (s + i) - day > 0 /\ day + 1 * ((s + i) - day) = s + i
      BY <3>1
    <3> QED
      BY <2>2, <3>3, <3>4, <3>5 DEF Contains
  <2>3. CASE dir = -1
    <3> DEFINE s == IF day < -b THEN day - 1 ELSE (-b) - 1
    <3>1. s \in Int /\ s < -b /\ s < day
      OBVIOUS
    <3> HIDE DEF s
    <3>2. \E i \in 0..2 : (s - i) % 7 \notin {0, 6}
      BY <3>1
    <3>3. PICK i \in 0..2 : (s - i) % 7 \notin {0, 6}
      BY <3>2
    <3>4. s - i \notin H.holidays
      BY <2>1, <3>1
    <3>5. /\ day - (s - i) \in Nat /\ day - (s - i) > 0
          /\ day + (-1) * (day - (s - i)) = s - i
      BY <3>1
    <3> QED
      BY <2>3, <3>3, <3>4, <3>5 DEF Contains
  <2> QED
    BY <2>2, <2>3 DEF Ways
<1> DEFINE Found == {k \in Nat : k > 0 /\ Contains(day + dir * k, H)}
<1>2. PICK k \in Found : \A x \in Found : k <= x
  <2>1. Found \in SUBSET Nat /\ Found # {}
    BY <1>1
  <2> HIDE DEF Found
  <2> QED
    BY <2>1, HasLeast
<1> DEFINE e == day + dir * k
<1>3. k \in Nat /\ k > 0 /\ Contains(e, H) /\ e \in Int /\ DayPast(dir, day, e)
  BY DEF Ways, DayPast
<1>4. ASSUME NEW x \in WorkDays(H, dir, day, e) PROVE x = e
  <2>1. x \in Int /\ Contains(x, H) /\ DayPast(dir, day, x) /\ ~ DayPast(dir, e, x)
    BY <1>4 DEF WorkDays
  <2>2. PICK m \in Nat : m > 0 /\ x = day + dir * m /\ m <= k
    <3>1. CASE dir = 1
      <4>1. x - day \in Nat /\ x - day > 0 /\ x = day + 1 * (x - day) /\ x - day <= k
        BY <1>3, <2>1, <3>1 DEF DayPast
      <4> QED
        BY <3>1, <4>1
    <3>2. CASE dir = -1
      <4>1. day - x \in Nat /\ day - x > 0 /\ x = day + (-1) * (day - x) /\ day - x <= k
        BY <1>3, <2>1, <3>2 DEF DayPast
      <4> QED
        BY <3>2, <4>1
    <3> QED
      BY <3>1, <3>2 DEF Ways
  <2>3. m \in Found
    BY <2>1, <2>2
  <2>4. k <= m
    BY <1>2, <2>3
  <2>5. m = k
    BY <1>3, <2>2, <2>4
  <2> QED
    BY <2>2, <2>5
<1>5. e \in WorkDays(H, dir, day, e)
  BY <1>3 DEF WorkDays, DayPast
<1> HIDE DEF e
<1>6. WorkDays(H, dir, day, e) = {e}
  BY <1>4, <1>5
<1>7. Cardinality(WorkDays(H, dir, day, e)) = 1
  BY <1>6, FS_Singleton
<1> QED
  BY <1>3, <1>7 DEF Reaches

LEMMA ReachesUnique ==
  ASSUME NEW H, NEW dir \in Ways, NEW day \in Int, NEW left \in Nat,
         NEW e \in Int, NEW f \in Int,
         Reaches(H, dir, day, left, e), Reaches(H, dir, day, left, f)
  PROVE  e = f
<1>1. ASSUME NEW a \in Int, NEW b \in Int, left # 0, DayPast(dir, a, b),
             Reaches(H, dir, day, left, a), Reaches(H, dir, day, left, b)
      PROVE  FALSE
  <2> DEFINE near == WorkDays(H, dir, day, a)
             far  == WorkDays(H, dir, day, b)
  <2>1. b \notin near /\ near \cup {b} \in SUBSET far
    BY <1>1 DEF Reaches, WorkDays, DayPast, Ways
  <2>2. Cardinality(near) = left /\ Cardinality(far) = left
    BY <1>1 DEF Reaches
  <2>3. IsFiniteSet(near) /\ IsFiniteSet(far)
    BY WorkDaysFinite
  <2> HIDE DEF near, far
  <2>4. Cardinality(near \cup {b}) = left + 1
    BY <2>1, <2>2, <2>3, FS_AddElement
  <2>5. Cardinality(near \cup {b}) <= left
    BY <2>1, <2>2, <2>3, FS_Subset
  <2> QED
    BY <2>4, <2>5
<1>2. CASE left = 0
  BY <1>2 DEF Reaches
<1>3. CASE left # 0
  <2>1. e = f \/ DayPast(dir, e, f) \/ DayPast(dir, f, e)
    BY DEF DayPast, Ways
  <2> QED
    BY <2>1, <1>1, <1>3
<1> QED
  BY <1>2, <1>3

\* The first day of the way is counted if it is a working day.
LEMMA ReachesBack ==
  ASSUME NEW H, NEW dir \in Ways, NEW day \in Int, NEW left \in Nat, left # 0, NEW e \in Int,
         Reaches(H, dir, day + dir, IF Contains(day + dir, H) THEN left - 1 ELSE left, e)
  PROVE  Reaches(H, dir, day, left, e)
<1> DEFINE d == day + dir
           all  == WorkDays(H, dir, day, e)
           rest == WorkDays(H, dir, d, e)
<1>1. d \in Int /\ DayPast(dir, day, d)
  BY DEF Ways, DayPast
<1>2. IsFiniteSet(rest) /\ Cardinality(rest) \in Nat
  BY <1>1, WorkDaysFinite
<1>3. ASSUME DayPast(dir, d, e)
      PROVE  /\ DayPast(dir, day, e) /\ d \notin rest
             /\ all = IF Contains(d, H) THEN rest \cup {d} ELSE rest
  <2>1. DayPast(dir, day, e) /\ d \notin rest /\ ~ DayPast(dir, e, d)
    BY <1>1, <1>3 DEF DayPast, Ways, WorkDays
  <2>2. ASSUME NEW x \in Int
        PROVE  DayPast(dir, day, x) <=> x = d \/ DayPast(dir, d, x)
    BY DEF DayPast, Ways
  <2>3. \A x \in Int : x \in all <=> (x = d /\ Contains(d, H)) \/ x \in rest
    BY <2>1, <2>2 DEF WorkDays
  <2>4. all \subseteq Int /\ rest \subseteq Int
    BY DEF WorkDays
  <2> HIDE DEF all, rest, d
  <2> QED
    BY <1>1, <2>1, <2>3, <2>4
<1>4. CASE Contains(d, H) /\ left = 1
  <2>1. e = d /\ Contains(e, H) /\ DayPast(dir, day, e)
    BY <1>1, <1>4 DEF Reaches
  <2>2. \A x : x \in all <=> x = d
    BY <1>1, <1>4, <2>1 DEF WorkDays, DayPast, Ways
  <2> HIDE DEF all
  <2>3. all = {d}
    BY <2>2
  <2>4. Cardinality(all) = 1
    BY <2>3, FS_Singleton
  <2> QED
    BY <1>4, <2>1, <2>4 DEF Reaches, all
<1>5. CASE Contains(d, H) /\ left # 1
  <2>1. left - 1 # 0
    BY <1>5
  <2>2. Contains(e, H) /\ DayPast(dir, d, e) /\ Cardinality(rest) = left - 1
    BY <1>5, <2>1 DEF Reaches
  <2>3. DayPast(dir, day, e) /\ d \notin rest /\ all = rest \cup {d}
    BY <1>3, <1>5, <2>2
  <2> HIDE DEF all, rest
  <2>4. Cardinality(all) = left
    BY <1>2, <2>2, <2>3, FS_AddElement
  <2> QED
    BY <2>2, <2>3, <2>4 DEF Reaches, all
<1>6. CASE ~ Contains(d, H)
  <2>1. Contains(e, H) /\ DayPast(dir, d, e) /\ Cardinality(rest) = left
    BY <1>6 DEF Reaches
  <2>2. DayPast(dir, day, e) /\ all = rest
    BY <1>3, <1>6, <2>1
  <2> HIDE DEF all, rest
  <2> QED
    BY <2>1, <2>2 DEF Reaches, all
<1> QED
  BY <1>4, <1>5, <1>6

\* The working days up to e are the next one and those after it.
LEMMA WorkDaysSplit ==
  ASSUME NEW H, NEW dir \in Ways, NEW day \in Int, NEW d \in Int, NEW e \in Int,
         Reaches(H, dir, day, 1, d), ~ DayPast(dir, e, d)
  PROVE  Cardinality(WorkDays(H, dir, day, e)) = Cardinality(WorkDays(H, dir, d, e)) + 1
<1> DEFINE next == WorkDays(H, dir, day, d)
           all  == WorkDays(H, dir, day, e)
           rest == WorkDays(H, dir, d, e)
<1>1. Contains(d, H) /\ DayPast(dir, day, d) /\ Cardinality(next) = 1
  BY DEF Reaches
<1>2. IsFiniteSet(next) /\ IsFiniteSet(rest) /\ Cardinality(rest) \in Nat
  BY WorkDaysFinite
<1>3. d \in next /\ d \notin rest
  BY <1>1 DEF WorkDays, DayPast, Ways
<1>4. \A x \in Int : x \in all <=> x \in next \/ x \in rest
  BY <1>1 DEF WorkDays, DayPast, Ways
<1>5. next \subseteq Int /\ all \subseteq Int /\ rest \subseteq Int
  BY DEF WorkDays
<1> HIDE DEF next, all, rest
<1>6. next = {d}
  BY <1>1, <1>2, <1>3, FS_Singleton
<1>7. all = rest \cup {d}
  BY <1>4, <1>5, <1>6
<1>8. Cardinality(all) = Cardinality(rest) + 1
  BY <1>2, <1>3, <1>7, FS_AddElement
<1> QED
  BY <1>8 DEF all, rest

LEMMA ReachesExists ==
  ASSUME NEW H, Bounded(H), NEW dir \in Ways, NEW day \in Int, NEW left \in Nat
  PROVE  \E e \in Int : Reaches(H, dir, day, left, e)
<1> DEFINE Lost == {k \in Nat : \E a \in Int : \A e \in Int : ~ Reaches(H, dir, a, k, e)}
<1>1. ASSUME Lost # {} PROVE FALSE
  <2>1. Lost \in SUBSET Nat
    OBVIOUS
  <2> HIDE DEF Lost
  <2>2. PICK k \in Lost : \A x \in Lost : k <= x
    BY <1>1, <2>1, HasLeast
  <2>3. k \in Nat
    BY <2>1, <2>2
  <2>4. PICK a \in Int : \A e \in Int : ~ Reaches(H, dir, a, k, e)
    BY DEF Lost
  <2>5. k # 0
    BY <2>4 DEF Reaches
  <2>6. PICK d \in Int : Reaches(H, dir, a, 1, d)
    BY NextWorkDay
  <2>7. k - 1 \in Nat /\ k - 1 \notin Lost
    BY <2>2, <2>3, <2>5
  <2>8. PICK e \in Int : Reaches(H, dir, d, k - 1, e)
    BY <2>7 DEF Lost
  <2>9. CASE k = 1
    BY <2>4, <2>6, <2>9
  <2>10. CASE k # 1
    <3>1. k - 1 # 0
      BY <2>3, <2>10
    <3>2. /\ Contains(e, H) /\ DayPast(dir, d, e)
          /\ Cardinality(WorkDays(H, dir, d, e)) = k - 1
      BY <2>8, <3>1 DEF Reaches
    <3>3. DayPast(dir, a, d)
      BY <2>6 DEF Reaches
    <3>4. ~ DayPast(dir, e, d) /\ DayPast(dir, a, e)
      BY <3>2, <3>3 DEF DayPast, Ways
    <3>5. Cardinality(WorkDays(H, dir, a, e)) = k
      BY <2>3, <2>6, <3>2, <3>4, WorkDaysSplit
    <3> QED
      BY <2>4, <2>5, <3>2, <3>4, <3>5 DEF Reaches
  <2> QED
    BY <2>9, <2>10
<1>2. left \notin Lost
  BY <1>1
<1> QED
  BY <1>2

\* Where left working days past day are, and the function AddDays looks it up in.
Reached(H, dir, day, left) == CHOOSE e \in Int : Reaches(H, dir, day, left, e)

LEMMA ReachedIs ==
  ASSUME NEW H, Bounded(H), NEW dir \in Ways, NEW day \in Int, NEW left \in Nat
  PROVE  /\ Reached(H, dir, day, left) \in Int
         /\ Reaches(H, dir, day, left, Reached(H, dir, day, left))
         /\ \A e \in Int : Reaches(H, dir, day, left, e) => e = Reached(H, dir, day, left)
<1>1. \E e \in Int : Reaches(H, dir, day, left, e)
  BY ReachesExists
<1>2. /\ Reached(H, dir, day, left) \in Int
      /\ Reaches(H, dir, day, left, Reached(H, dir, day, left))
  BY <1>1, Zenon DEF Reached
<1>3. \A e \in Int : Reaches(H, dir, day, left, e) => e = Reached(H, dir, day, left)
  BY <1>2, ReachesUnique, Zenon
<1> QED
  BY <1>2, <1>3

\* One unfolding of walk.
LeftAfter(H, d, left) == IF Contains(d, H) THEN left - 1 ELSE left
WalkOf(w, H, dir) ==
  [at \in Int \X Nat |->
     IF at[2] = 0 THEN at[1]
     ELSE w[<<at[1] + dir, IF Contains(at[1] + dir, H) THEN at[2] - 1 ELSE at[2]>>]]

LEMMA ReachedStep ==
  ASSUME NEW H, Bounded(H), NEW dir \in Ways, NEW day \in Int, NEW left \in Nat
  PROVE  Reached(H, dir, day, left) =
           IF left = 0 THEN day ELSE Reached(H, dir, day + dir, LeftAfter(H, day + dir, left))
<1>1. CASE left = 0
  <2>1. Reaches(H, dir, day, left, day)
    BY <1>1 DEF Reaches
  <2> QED
    BY <1>1, <2>1, ReachedIs
<1>2. CASE left # 0
  <2> DEFINE d == day + dir
             k == LeftAfter(H, d, left)
             e == Reached(H, dir, d, k)
  <2>1. d \in Int /\ k \in Nat
    BY <1>2 DEF Ways, LeftAfter
  <2>2. e \in Int /\ Reaches(H, dir, d, k, e)
    BY <2>1, ReachedIs
  <2>3. Reaches(H, dir, day, left, e)
    BY <1>2, <2>2, ReachesBack DEF LeftAfter
  <2>4. e = Reached(H, dir, day, left)
    BY <2>2, <2>3, ReachedIs
  <2> QED
    BY <1>2, <2>4
<1> QED
  BY <1>1, <1>2

IsWalk(w, H, dir) == w = WalkOf(w, H, dir)
EndOf(w, day, left) == w[<<day, left>>]

LEMMA WalkAt ==
  ASSUME NEW H, NEW dir \in Ways, NEW w, IsWalk(w, H, dir)
  PROVE  \A day \in Int, left \in Nat :
           EndOf(w, day, left) =
             IF left = 0 THEN day ELSE EndOf(w, day + dir, LeftAfter(H, day + dir, left))
<1> TAKE day \in Int, left \in Nat
<1>1. WalkOf(w, H, dir)[<<day, left>>] =
        IF left = 0 THEN day ELSE w[<<day + dir, LeftAfter(H, day + dir, left)>>]
  BY DEF WalkOf, LeftAfter
<1> QED
  BY <1>1, Zenon DEF IsWalk, EndOf

\* There is such a function, and only one, where it matters.
LEMMA WalkExists ==
  ASSUME NEW H, Bounded(H), NEW dir \in Ways
  PROVE  \E w : IsWalk(w, H, dir)
<1> DEFINE w == [at \in Int \X Nat |-> Reached(H, dir, at[1], at[2])]
<1>1. ASSUME NEW at \in Int \X Nat
      PROVE  Reached(H, dir, at[1], at[2]) = WalkOf(w, H, dir)[at]
  <2>1. PICK day \in Int, left \in Nat : at = <<day, left>>
    OBVIOUS
  <2> DEFINE next == <<day + dir, LeftAfter(H, day + dir, left)>>
  <2>2. at[1] = day /\ at[2] = left
    BY <2>1
  <2>3. left # 0 => /\ next \in Int \X Nat
                    /\ w[next] = Reached(H, dir, day + dir, LeftAfter(H, day + dir, left))
    BY DEF Ways, LeftAfter
  <2>4. WalkOf(w, H, dir)[at] = IF left = 0 THEN day ELSE w[next]
    <3> HIDE DEF w
    <3> QED
      BY <2>1 DEF WalkOf, LeftAfter
  <2>5. Reached(H, dir, day, left) = IF left = 0 THEN day ELSE w[next]
    <3> HIDE DEF w, next
    <3> QED
      BY <2>3, ReachedStep
  <2> QED
    BY <2>2, <2>4, <2>5, Zenon
<1>2. /\ DOMAIN w = Int \X Nat /\ DOMAIN WalkOf(w, H, dir) = Int \X Nat
      /\ \A at \in Int \X Nat : w[at] = Reached(H, dir, at[1], at[2])
  BY DEF WalkOf
<1>3. \A at \in Int \X Nat : w[at] = WalkOf(w, H, dir)[at]
  BY <1>1, <1>2, Zenon
<1>4. w = [at \in DOMAIN w |-> w[at]]
  OBVIOUS
<1> HIDE DEF w
<1>5. WalkOf(w, H, dir) = [at \in DOMAIN WalkOf(w, H, dir) |-> WalkOf(w, H, dir)[at]]
  BY DEF WalkOf
<1>6. w = WalkOf(w, H, dir)
  BY <1>2, <1>3, <1>4, <1>5
<1> QED
  BY <1>6 DEF IsWalk

LEMMA WalkUnique ==
  ASSUME NEW H, Bounded(H), NEW dir \in Ways, NEW w, IsWalk(w, H, dir),
         NEW day \in Int, NEW left \in Nat
  PROVE  EndOf(w, day, left) = Reached(H, dir, day, left)
<1>0. \A a \in Int, k \in Nat :
        EndOf(w, a, k) = IF k = 0 THEN a ELSE EndOf(w, a + dir, LeftAfter(H, a + dir, k))
  BY WalkAt
<1> DEFINE Far(a, k) == LET e == Reached(H, dir, a, k) IN IF dir = 1 THEN e - a ELSE a - e
           Wrong == {m \in Nat : \E a \in Int, k \in Nat :
                       Far(a, k) = m /\ EndOf(w, a, k) # Reached(H, dir, a, k)}
<1>1. ASSUME NEW a \in Int, NEW k \in Nat PROVE Far(a, k) \in Nat /\ (k # 0 => Far(a, k) # 0)
  <2>1. Reached(H, dir, a, k) \in Int /\ Reaches(H, dir, a, k, Reached(H, dir, a, k))
    BY ReachedIs
  <2> QED
    BY <2>1 DEF Reaches, DayPast, Ways
<1>2. ASSUME Wrong # {} PROVE FALSE
  <2>1. Wrong \in SUBSET Nat
    OBVIOUS
  <2>2. PICK m \in Wrong : \A x \in Wrong : m <= x
    <3> HIDE DEF Wrong
    <3> QED
      BY <1>2, <2>1, HasLeast
  <2>3. PICK a \in Int, k \in Nat : Far(a, k) = m /\ EndOf(w, a, k) # Reached(H, dir, a, k)
    OBVIOUS
  <2>4. k # 0
    <3>1. k = 0 => EndOf(w, a, k) = a /\ Reached(H, dir, a, k) = a
      BY <1>0, ReachedStep
    <3> QED
      BY <2>3, <3>1
  <2> DEFINE b == a + dir
             j == LeftAfter(H, b, k)
  <2>5. b \in Int /\ j \in Nat
    BY <2>4 DEF Ways, LeftAfter
  <2>6. EndOf(w, a, k) = EndOf(w, b, j) /\ Reached(H, dir, a, k) = Reached(H, dir, b, j)
    BY <1>0, <2>4, ReachedStep
  <2>7. EndOf(w, b, j) # Reached(H, dir, b, j)
    BY <2>3, <2>6
  <2>8. Far(b, j) = m - 1 /\ Far(b, j) \in Nat /\ m \in Nat
    <3>1. Reached(H, dir, a, k) \in Int
      BY ReachedIs
    <3>2. Far(b, j) \in Nat
      BY <1>1, <2>5
    <3>3. Far(b, j) = Far(a, k) - 1
      <4>1. IF dir = 1 THEN b = a + 1 ELSE b = a - 1
        BY DEF Ways
      <4> HIDE DEF b, j
      <4> QED
        BY <2>5, <2>6, <3>1, <4>1
    <3> QED
      BY <2>1, <2>2, <2>3, <3>2, <3>3
  <2>9. Far(b, j) \in Wrong
    <3> HIDE DEF b, j, Far
    <3> QED
      BY <2>5, <2>7, <2>8
  <2>10. m <= Far(b, j)
    BY <2>2, <2>9
  <2> HIDE DEF Far
  <2> QED
    BY <2>8, <2>10
<1>3. Far(day, left) \in Nat
  BY <1>1
<1> HIDE DEF Far
<1>4. Far(day, left) \notin Wrong
  BY <1>2
<1> QED
  BY <1>3, <1>4

LEMMA AddDaysIs ==
  ASSUME NEW H, Bounded(H), NEW day \in Int, NEW n \in Int
  PROVE  LET dir == IF n < 0 THEN -1 ELSE 1
             e   == AddDays(day, n, H)
         IN  e \in Int /\ Reaches(H, dir, day, n * dir, e)
<1> DEFINE dir == IF n < 0 THEN -1 ELSE 1
           w == CHOOSE w : w = WalkOf(w, H, dir)
<1>1. dir \in Ways /\ n * dir \in Nat
  BY DEF Ways
<1>2. AddDays(day, n, H) = EndOf(w, day, n * dir)
  BY Zenon DEF AddDays, WalkOf, EndOf
<1>3. IsWalk(w, H, dir)
  <2> HIDE DEF dir
  <2> QED
    BY <1>1, WalkExists, Zenon DEF IsWalk
<1> HIDE DEF w, dir
<1>4. EndOf(w, day, n * dir) = Reached(H, dir, day, n * dir)
  BY <1>1, <1>3, WalkUnique
<1>5. AddDays(day, n, H) \in Int /\ Reaches(H, dir, day, n * dir, AddDays(day, n, H))
  BY <1>1, <1>2, <1>4, ReachedIs
<1> QED
  BY <1>5 DEF dir

LEMMA ReachesReversed ==
  ASSUME NEW H, NEW dir \in Ways, NEW day \in Int, NEW left \in Nat, NEW e \in Int,
         Contains(day, H), Reaches(H, dir, day, left, e)
  PROVE  Reaches(H, -dir, e, left, day)
<1>1. CASE left = 0
  BY <1>1 DEF Reaches
<1>2. CASE left # 0
  <2> DEFINE there == WorkDays(H, dir, day, e)
             back  == WorkDays(H, -dir, e, day)
             inner == there \ {e}
  <2>1. -dir \in Ways
    BY DEF Ways
  <2>2. Contains(e, H) /\ DayPast(dir, day, e) /\ Cardinality(there) = left
    BY <1>2 DEF Reaches
  <2>3. DayPast(-dir, e, day)
    BY <2>2 DEF DayPast, Ways
  <2>4. e \in there /\ day \notin there
    BY <2>2 DEF WorkDays, DayPast, Ways
  <2>5. \A x \in Int : x \in back <=> x = day \/ (x \in there /\ x # e)
    BY <2>2 DEF WorkDays, DayPast, Ways
  <2>6. IsFiniteSet(there) /\ there \subseteq Int /\ back \subseteq Int
    BY WorkDaysFinite DEF WorkDays
  <2> HIDE DEF there, back
  <2>7. IsFiniteSet(inner) /\ Cardinality(inner) = left - 1 /\ day \notin inner
    BY <2>2, <2>4, <2>6, FS_RemoveElement
  <2>8. back = inner \cup {day}
    BY <2>5, <2>6
  <2> HIDE DEF inner
  <2>9. Cardinality(back) = left
    BY <2>7, <2>8, FS_AddElement
  <2> QED
    BY <1>2, <2>3, <2>9 DEF Reaches, back
<1> QED
  BY <1>1, <1>2

\* One unfolding of count, and what is left to count before a working day.
CountOf(c, now, H) ==
  [at \in Int \X Int |->
     IF at[1] < now THEN c[<<AddDays(at[1], 1, H), at[2] + 1>>] ELSE at[2]]
IsCount(c, now, H) == c = CountOf(c, now, H)
CountFrom(c, day, ct) == c[<<day, ct>>]
ToCount(H, day, now) == Cardinality(WorkDays(H, 1, day, now))

LEMMA ToCountStep ==
  ASSUME NEW H, Bounded(H), NEW now \in Int, Contains(now, H), NEW day \in Int
  PROVE  /\ ToCount(H, day, now) \in Nat
         /\ day >= now => ToCount(H, day, now) = 0
         /\ AddDays(day, 1, H) \in Int
         /\ day < now => ToCount(H, day, now) = ToCount(H, AddDays(day, 1, H), now) + 1
<1>1. ToCount(H, day, now) \in Nat
  BY WorkDaysFinite DEF ToCount, Ways
<1>2. ASSUME day >= now PROVE ToCount(H, day, now) = 0
  <2>1. WorkDays(H, 1, day, now) = {}
    BY <1>2 DEF WorkDays, DayPast
  <2> QED
    BY <2>1, FS_EmptySet DEF ToCount
<1> DEFINE d == AddDays(day, 1, H)
<1>3. d \in Int /\ Reaches(H, 1, day, 1, d)
  BY AddDaysIs
<1> HIDE DEF d
<1>4. ASSUME day < now PROVE ToCount(H, day, now) = ToCount(H, d, now) + 1
  <2>1. ~ DayPast(1, now, d)
    <3>1. SUFFICES ASSUME now < d PROVE FALSE
      BY DEF DayPast
    <3>2. now \in WorkDays(H, 1, day, d) /\ d \in WorkDays(H, 1, day, d)
      BY <1>3, <1>4, <3>1 DEF Reaches, WorkDays, DayPast
    <3>3. /\ IsFiniteSet(WorkDays(H, 1, day, d))
          /\ Cardinality(WorkDays(H, 1, day, d)) = 1
      BY <1>3, WorkDaysFinite DEF Reaches, Ways
    <3>4. PICK x : WorkDays(H, 1, day, d) = {x}
      BY <3>3, FS_Singleton
    <3> QED
      BY <1>3, <3>1, <3>2, <3>4
  <2> QED
    BY <1>3, <2>1, WorkDaysSplit DEF ToCount, Ways
<1> QED
  BY <1>1, <1>2, <1>3, <1>4 DEF d

LEMMA CountExists ==
  ASSUME NEW H, Bounded(H), NEW now \in Int, Contains(now, H)
  PROVE  \E c : IsCount(c, now, H)
<1> DEFINE c == [at \in Int \X Int |-> at[2] + ToCount(H, at[1], now)]
<1>1. ASSUME NEW at \in Int \X Int
      PROVE  at[2] + ToCount(H, at[1], now) = CountOf(c, now, H)[at]
  <2>1. PICK day \in Int, ct \in Int : at = <<day, ct>>
    OBVIOUS
  <2> DEFINE d == AddDays(day, 1, H)
             next == <<d, ct + 1>>
  <2>2. d \in Int
    BY ToCountStep
  <2>3. c[next] = ct + 1 + ToCount(H, d, now)
    <3> HIDE DEF d
    <3> QED
      BY <2>2
  <2>4. CountOf(c, now, H)[at] = IF day < now THEN c[next] ELSE ct
    <3> HIDE DEF c
    <3> QED
      BY <2>1 DEF CountOf
  <2>5. ct + ToCount(H, day, now) = IF day < now THEN c[next] ELSE ct
    <3>1. ToCount(H, d, now) \in Nat /\ ToCount(H, day, now) \in Nat
      BY <2>2, ToCountStep
    <3>2. IF day < now THEN ToCount(H, day, now) = ToCount(H, d, now) + 1
          ELSE ToCount(H, day, now) = 0
      BY ToCountStep
    <3> HIDE DEF c, next, d
    <3> QED
      BY <2>3, <3>1, <3>2
  <2>6. at[1] = day /\ at[2] = ct
    BY <2>1
  <2> QED
    BY <2>4, <2>5, <2>6, Zenon
<1>2. /\ DOMAIN c = Int \X Int /\ DOMAIN CountOf(c, now, H) = Int \X Int
      /\ \A at \in Int \X Int : c[at] = at[2] + ToCount(H, at[1], now)
  BY DEF CountOf
<1>3. \A at \in Int \X Int : c[at] = CountOf(c, now, H)[at]
  BY <1>1, <1>2, Zenon
<1>4. c = [at \in DOMAIN c |-> c[at]]
  OBVIOUS
<1> HIDE DEF c
<1>5. CountOf(c, now, H) = [at \in DOMAIN CountOf(c, now, H) |-> CountOf(c, now, H)[at]]
  BY DEF CountOf
<1>6. c = CountOf(c, now, H)
  BY <1>2, <1>3, <1>4, <1>5
<1> QED
  BY <1>6 DEF IsCount

LEMMA CountAt ==
  ASSUME NEW H, NEW now \in Int, NEW c, IsCount(c, now, H)
  PROVE  \A day \in Int, ct \in Int :
           CountFrom(c, day, ct) =
             IF day < now THEN CountFrom(c, AddDays(day, 1, H), ct + 1) ELSE ct
<1> TAKE day \in Int, ct \in Int
<1>1. CountOf(c, now, H)[<<day, ct>>] =
        IF day < now THEN c[<<AddDays(day, 1, H), ct + 1>>] ELSE ct
  BY DEF CountOf
<1> QED
  BY <1>1, Zenon DEF IsCount, CountFrom

LEMMA CountUnique ==
  ASSUME NEW H, Bounded(H), NEW now \in Int, Contains(now, H), NEW c, IsCount(c, now, H),
         NEW day \in Int, NEW ct \in Int
  PROVE  CountFrom(c, day, ct) = ct + ToCount(H, day, now)
<1> DEFINE Wrong == {m \in Nat : \E a \in Int, k \in Int :
                       ToCount(H, a, now) = m /\ CountFrom(c, a, k) # k + m}
<1>1. \A a \in Int, k \in Int :
        CountFrom(c, a, k) =
          IF a < now THEN CountFrom(c, AddDays(a, 1, H), k + 1) ELSE k
  BY CountAt
<1>2. ASSUME Wrong # {} PROVE FALSE
  <2>1. Wrong \in SUBSET Nat
    OBVIOUS
  <2>2. PICK m \in Wrong : \A x \in Wrong : m <= x
    <3> HIDE DEF Wrong
    <3> QED
      BY <1>2, <2>1, HasLeast
  <2>3. PICK a \in Int, k \in Int : ToCount(H, a, now) = m /\ CountFrom(c, a, k) # k + m
    OBVIOUS
  <2> DEFINE d == AddDays(a, 1, H)
             r == ToCount(H, d, now)
  <2>4. a < now
    BY <1>1, <2>3, ToCountStep
  <2>5. d \in Int /\ r \in Nat /\ m = r + 1
    BY <2>3, <2>4, ToCountStep
  <2>6. CountFrom(c, a, k) = CountFrom(c, d, k + 1)
    BY <1>1, <2>4
  <2> HIDE DEF d
  <2>7. CountFrom(c, d, k + 1) # (k + 1) + r
    <3> HIDE DEF r
    <3> QED
      BY <2>3, <2>5, <2>6
  <2>8. r \in Wrong
    BY <2>5, <2>7
  <2>9. m <= r
    BY <2>2, <2>8
  <2> HIDE DEF r
  <2> QED
    BY <2>5, <2>9
<1>3. ToCount(H, day, now) \in Nat
  BY ToCountStep
<1>4. ToCount(H, day, now) \notin Wrong
  BY <1>2
<1> QED
  BY <1>3, <1>4

\* Between counts one business day less than were gone.
LEMMA BetweenCounts ==
  ASSUME NEW holidays, Bounded(Business(holidays)), NEW day \in Int, NEW n \in Nat, n > 0
  PROVE  BusinessDaysBetween(day, AddBusinessDays(day, n, holidays), holidays) = n - 1
<1> DEFINE H == Business(holidays)
           then == AddDays(day, n, H)
           c == CHOOSE c : c = CountOf(c, then, H)
<1>1. ~ n < 0 /\ n * 1 = n
  OBVIOUS
<1>2. then \in Int /\ Reaches(H, 1, day, n, then)
  <2> HIDE DEF H
  <2> QED
    BY <1>1, AddDaysIs DEF H
<1>3. BusinessDaysBetween(day, then, holidays) =
        IF CountFrom(c, day, -1) = -1 THEN 0 ELSE CountFrom(c, day, -1)
  BY Zenon DEF BusinessDaysBetween, CountOf, CountFrom
<1>4. AddBusinessDays(day, n, holidays) = then /\ Bounded(H)
  BY DEF AddBusinessDays
<1> HIDE DEF H, then
<1>5. Contains(then, H)
  BY <1>1, <1>2 DEF Reaches
<1>6. ToCount(H, day, then) = n
  BY <1>2 DEF Reaches, ToCount
<1>7. IsCount(c, then, H)
  BY <1>2, <1>4, <1>5, CountExists, Zenon DEF IsCount
<1> HIDE DEF c
<1>8. CountFrom(c, day, -1) = (-1) + ToCount(H, day, then)
  BY <1>2, <1>4, <1>5, <1>7, CountUnique
<1> QED
  BY <1>3, <1>4, <1>6, <1>8

\* AddDays, AddBusinessDays and BusinessDaysBetween of timeutil, for any bounded
\* holidays, with weekends or without, and any number of days: going n of a traveler's
\* days leads to such a day, coming back leads to where such a day set out, and
\* between counts one business day less than were gone.  NextWeekday is the next such
\* day, within a week.
THEOREM DatesCorrect ==
  ASSUME NEW H \in Travelers, Bounded(H), NEW day \in Int, NEW n \in Int
  PROVE  DatesAgree(day, n, H)
<1> DEFINE then == AddDays(day, n, H)
           dir  == IF n < 0 THEN -1 ELSE 1
           left == n * dir
<1>1. /\ dir \in Ways /\ left \in Nat /\ (left = 0 <=> n = 0) /\ (n > 0 => dir = 1 /\ left = n)
      /\ n # 0 => left = (-n) * (-dir) /\ -dir = IF -n < 0 THEN -1 ELSE 1
      /\ -n \in Int
  BY DEF Ways
<1>2. then \in Int /\ Reaches(H, dir, day, left, then)
  BY AddDaysIs
<1> HIDE DEF then, dir, left
<1>3. n # 0 => Contains(then, H)
  BY <1>1, <1>2 DEF Reaches
<1>4. ASSUME Contains(day, H) PROVE AddDays(then, -n, H) = day
  <2> DEFINE b == AddDays(then, -n, H)
             way == IF -n < 0 THEN -1 ELSE 1
  <2>1. b \in Int /\ Reaches(H, way, then, (-n) * way, b)
    BY <1>1, <1>2, AddDaysIs
  <2> HIDE DEF b
  <2>2. CASE n = 0
    <3>1. (-n) * way = 0
      BY <2>2
    <3> QED
      BY <1>1, <1>2, <2>1, <2>2, <3>1 DEF Reaches, b
  <2>3. CASE n # 0
    <3>1. Reaches(H, -dir, then, left, day)
      BY <1>1, <1>2, <1>4, ReachesReversed
    <3>2. way = -dir /\ (-n) * way = left /\ -dir \in Ways
      BY <1>1, <2>3 DEF Ways
    <3>3. Reaches(H, -dir, then, left, b)
      BY <2>1, <3>2
    <3>4. b = day
      BY <1>1, <1>2, <2>1, <3>1, <3>2, <3>3, ReachesUnique
    <3> QED
      BY <3>4 DEF b
  <2> QED
    BY <2>2, <2>3
<1>5. ASSUME n > 0
      PROVE  BusinessDaysBetween(day, AddBusinessDays(day, n, H.holidays), H.holidays) = n - 1
  <2>1. Bounded(Business(H.holidays))
    BY DEF Bounded, Business
  <2> QED
    BY <1>5, <2>1, BetweenCounts
<1>6. NextWeekday(day, n % 7) - day \in 0..6 /\ NextWeekday(day, n % 7) % 7 = n % 7
  <2> DEFINE w == n % 7
             v == day % 7
  <2>1. w \in 0..6 /\ v \in 0..6
    OBVIOUS
  <2>2. PICK q \in Int : day = (7 * q) + v
    <3>1. day = (7 * (day \div 7)) + v /\ day \div 7 \in Int
      OBVIOUS
    <3> QED
      BY <3>1
  <2>3. NextWeekday(day, w) = IF w - v < 0 THEN (7 * (q + 1)) + w ELSE (7 * q) + w
    <3> HIDE DEF w
    <3> QED
      BY <2>1, <2>2 DEF NextWeekday
  <2> HIDE DEF w, v
  <2> QED
    BY <2>1, <2>2, <2>3 DEF w
<1> QED
  BY <1>3, <1>4, <1>5, <1>6 DEF DatesAgree, then

-----------------------------------------------------------------------------
(* Interrupted jobs.                                                       *)

UiTyped ==
  /\ uiJobs \in Seq(Jobs)
  /\ uiJob \in [Jobs -> {"new", "running", "cancelled", "removed", "closed"}]
  /\ uiUser \in [Users -> {"new", "sending", "told", "returned", "panicked"}]
  /\ uiTarget \in [Users -> Jobs \cup {NoJob}]

\* The list holds the jobs that have not ended, each once.
JobsListed ==
  /\ \A n \in 1..Len(uiJobs) : uiJob[uiJobs[n]] \in {"running", "cancelled"}
  /\ \A m, n \in 1..Len(uiJobs) : uiJobs[m] = uiJobs[n] => m = n
  /\ \A j \in Jobs : uiJob[j] \in {"running", "cancelled"}
       => \E n \in 1..Len(uiJobs) : uiJobs[n] = j

Awaited ==
  \A u \in Users :
    /\ uiUser[u] \in {"sending", "told"} => uiTarget[u] \in Jobs
    /\ uiUser[u] = "returned" /\ uiTarget[u] # NoJob => uiJob[uiTarget[u]] = "closed"
    /\ uiUser[u] = "new" => uiTarget[u] = NoJob

UiInv == UiTyped /\ JobsListed /\ Awaited

LEMMA StartKeeps ==
  ASSUME UiInv, NEW j \in Jobs, StartJob(j)
  PROVE  UiInv'
<1>1. /\ uiJobs \in Seq(Jobs) /\ Len(uiJobs) \in Nat /\ uiJob[j] = "new"
      /\ uiJobs' = Append(uiJobs, j) /\ uiJob' = [uiJob EXCEPT ![j] = "running"]
      /\ uiUser' = uiUser /\ uiTarget' = uiTarget
  BY DEF UiInv, UiTyped, StartJob
<1>2. /\ uiJobs' \in Seq(Jobs) /\ Len(uiJobs') = Len(uiJobs) + 1
      /\ \A n \in 1..Len(uiJobs) : uiJobs'[n] = uiJobs[n] /\ uiJobs[n] \in Jobs
      /\ uiJobs'[Len(uiJobs) + 1] = j
  BY <1>1
<1>3. /\ uiJob'[j] = "running" /\ \A k \in Jobs \ {j} : uiJob'[k] = uiJob[k]
      /\ \A n \in 1..Len(uiJobs) : uiJobs[n] # j
  BY <1>1 DEF UiInv, UiTyped, JobsListed
<1>4. UiTyped'
  BY <1>1, <1>2 DEF UiInv, UiTyped
<1>5. JobsListed'
  <2>1. \A n \in 1..Len(uiJobs') : n = Len(uiJobs) + 1 \/ n \in 1..Len(uiJobs)
    BY <1>1, <1>2
  <2>2. \A n \in 1..Len(uiJobs') : uiJob'[uiJobs'[n]] \in {"running", "cancelled"}
    BY <1>2, <1>3, <2>1 DEF UiInv, JobsListed
  <2>3. \A m, n \in 1..Len(uiJobs') : uiJobs'[m] = uiJobs'[n] => m = n
    BY <1>2, <1>3, <2>1 DEF UiInv, JobsListed
  <2>4. ASSUME NEW k \in Jobs, uiJob'[k] \in {"running", "cancelled"}
        PROVE  \E n \in 1..Len(uiJobs') : uiJobs'[n] = k
    <3>1. CASE k = j
      BY <3>1, <1>1, <1>2
    <3>2. CASE k # j
      <4>1. PICK n \in 1..Len(uiJobs) : uiJobs[n] = k
        BY <3>2, <2>4, <1>3 DEF UiInv, JobsListed
      <4>2. n \in 1..Len(uiJobs') /\ uiJobs'[n] = k
        BY <4>1, <1>1, <1>2
      <4> QED
        BY <4>2
    <3> QED
      BY <3>1, <3>2
  <2> QED
    BY <2>2, <2>3, <2>4 DEF JobsListed
<1>6. Awaited'
  BY <1>1, <1>3 DEF UiInv, UiTyped, Awaited
<1> QED
  BY <1>4, <1>5, <1>6 DEF UiInv

\* What removeJob leaves of a list without repetitions.
LEMMA RemoveIs ==
  ASSUME NEW S, NEW s \in Seq(S), NEW n \in 1..Len(s), NEW t,
         t = SubSeq(s, 1, n - 1) \o SubSeq(s, n + 1, Len(s))
  PROVE  /\ t \in Seq(S) /\ Len(t) = Len(s) - 1
         /\ \A i \in 1..Len(t) : t[i] = s[IF i < n THEN i ELSE i + 1]
<1> DEFINE a == SubSeq(s, 1, n - 1)
           b == SubSeq(s, n + 1, Len(s))
           z == Len(s)
<1>1. z \in Nat /\ n \in 1..z
  OBVIOUS
<1>2. /\ a \in Seq(S) /\ Len(a) = n - 1 /\ \A i \in 1..n-1 : a[i] = s[i]
  BY <1>1
<1>3. /\ b \in Seq(S) /\ Len(b) = z - n /\ \A i \in 1..z-n : b[i] = s[n + i]
  BY <1>1
<1>4. t = a \o b
  OBVIOUS
<1> HIDE DEF a, b, z
<1>5. /\ a \o b \in Seq(S) /\ Len(a \o b) = Len(a) + Len(b)
      /\ \A i \in 1..(Len(a) + Len(b)) :
           (a \o b)[i] = IF i <= Len(a) THEN a[i] ELSE b[i - Len(a)]
  BY <1>2, <1>3, ConcatProperties
<1>6. t \in Seq(S) /\ Len(t) = z - 1 /\ Len(a) + Len(b) = z - 1
  <2>1. Len(a) + Len(b) = z - 1
    BY <1>1, <1>2, <1>3
  <2>2. t \in Seq(S) /\ Len(t) = Len(a) + Len(b)
    BY <1>4, <1>5, Zenon
  <2> QED
    BY <2>1, <2>2
<1>7. ASSUME NEW i \in 1..z-1 PROVE t[i] = s[IF i < n THEN i ELSE i + 1]
  <2>1. t[i] = IF i <= n - 1 THEN a[i] ELSE b[i - (n - 1)]
    BY <1>2, <1>4, <1>5, <1>6
  <2>2. CASE i < n
    <3>1. i <= n - 1 /\ i \in 1..n-1
      BY <2>2, <1>1
    <3> QED
      BY <2>1, <2>2, <3>1, <1>2
  <2>3. CASE ~ i < n
    <3>1. i - (n - 1) \in 1..z-n /\ n + (i - (n - 1)) = i + 1 /\ ~ i <= n - 1
      BY <2>3, <1>1
    <3> QED
      BY <2>1, <2>3, <3>1, <1>3
  <2> QED
    BY <2>2, <2>3
<1> QED
  BY <1>6, <1>7 DEF z

LEMMA RemoveKeeps ==
  ASSUME UiInv, NEW j \in Jobs, RemoveJob(j)
  PROVE  UiInv'
<1>1. PICK n \in 1..Len(uiJobs) :
        /\ uiJobs[n] = j
        /\ uiJobs' = SubSeq(uiJobs, 1, n - 1) \o SubSeq(uiJobs, n + 1, Len(uiJobs))
  BY DEF RemoveJob
<1>2. /\ uiJob[j] \in {"running", "cancelled"} /\ uiJob' = [uiJob EXCEPT ![j] = "removed"]
      /\ uiUser' = uiUser /\ uiTarget' = uiTarget
  BY DEF RemoveJob
<1> DEFINE z == Len(uiJobs)
           At(i) == IF i < n THEN i ELSE i + 1
<1>3. uiJobs \in Seq(Jobs) /\ z \in Nat /\ n \in 1..z
  BY DEF UiInv, UiTyped
<1>4. /\ uiJobs' \in Seq(Jobs) /\ Len(uiJobs') = z - 1
      /\ \A i \in 1..Len(uiJobs') : uiJobs'[i] = uiJobs[At(i)]
  BY <1>1, <1>3, RemoveIs
<1>5. /\ uiJob'[j] = "removed" /\ \A k \in Jobs \ {j} : uiJob'[k] = uiJob[k]
      /\ \A i \in 1..z : uiJobs[i] \in Jobs /\ (uiJobs[i] = j => i = n)
  BY <1>1, <1>2, <1>3 DEF UiInv, UiTyped, JobsListed
<1> HIDE DEF z
<1>6. \A i \in 1..z-1 : At(i) \in 1..z /\ At(i) # n
  BY <1>3
<1>7. \A i, k \in 1..z-1 : At(i) = At(k) => i = k
  BY <1>3
<1>8. UiTyped'
  BY <1>2, <1>4 DEF UiInv, UiTyped
<1>9. JobsListed'
  <2>1. \A i \in 1..Len(uiJobs') : uiJob'[uiJobs'[i]] \in {"running", "cancelled"}
    BY <1>4, <1>5, <1>6 DEF UiInv, JobsListed, z
  <2>2. \A i, k \in 1..Len(uiJobs') : uiJobs'[i] = uiJobs'[k] => i = k
    BY <1>4, <1>6, <1>7 DEF UiInv, JobsListed, z
  <2>3. ASSUME NEW k \in Jobs, uiJob'[k] \in {"running", "cancelled"}
        PROVE  \E i \in 1..Len(uiJobs') : uiJobs'[i] = k
    <3>1. k # j /\ uiJob[k] \in {"running", "cancelled"}
      BY <2>3, <1>5
    <3>2. PICK m \in 1..z : uiJobs[m] = k
      BY <3>1 DEF UiInv, JobsListed, z
    <3>3. m # n
      BY <3>1, <3>2, <1>1
    <3> DEFINE i == IF m < n THEN m ELSE m - 1
    <3>4. i \in 1..z-1 /\ At(i) = m
      BY <3>3, <1>3
    <3> QED
      BY <3>2, <3>4, <1>4
  <2> QED
    BY <2>1, <2>2, <2>3 DEF JobsListed
<1>10. Awaited'
  BY <1>2, <1>5 DEF UiInv, UiTyped, Awaited
<1> QED
  BY <1>8, <1>9, <1>10 DEF UiInv

LEMMA CloseKeeps ==
  ASSUME UiInv, NEW j \in Jobs, CloseJob(j)
  PROVE  UiInv'
<1>1. /\ uiJob[j] = "removed" /\ uiJob' = [uiJob EXCEPT ![j] = "closed"]
      /\ uiJobs' = uiJobs /\ uiUser' = uiUser /\ uiTarget' = uiTarget
  BY DEF CloseJob
<1>2. UiTyped'
  BY <1>1 DEF UiInv, UiTyped
<1>3. \A n \in 1..Len(uiJobs) : uiJobs[n] \in Jobs /\ uiJobs[n] # j
  BY <1>1 DEF UiInv, UiTyped, JobsListed
<1>4. JobsListed'
  BY <1>1, <1>3 DEF UiInv, UiTyped, JobsListed
<1>5. Awaited'
  BY <1>1 DEF UiInv, UiTyped, Awaited
<1> QED
  BY <1>2, <1>4, <1>5 DEF UiInv

LEMMA ContextEndKeeps ==
  ASSUME UiInv, NEW j \in Jobs, ContextEnds(j)
  PROVE  UiInv'
<1>1. /\ uiJob[j] = "running" /\ uiJob' = [uiJob EXCEPT ![j] = "cancelled"]
      /\ uiJobs' = uiJobs /\ uiUser' = uiUser /\ uiTarget' = uiTarget
  BY DEF ContextEnds
<1>2. \A k \in Jobs : /\ uiJob'[k] \in {"running", "cancelled"} <=> uiJob[k] \in {"running", "cancelled"}
                      /\ uiJob[k] = "closed" => uiJob'[k] = "closed"
  BY <1>1 DEF UiInv, UiTyped
<1>3. UiTyped'
  BY <1>1 DEF UiInv, UiTyped
<1>4. \A n \in 1..Len(uiJobs) : uiJobs[n] \in Jobs
  BY DEF UiInv, UiTyped
<1>5. JobsListed'
  BY <1>1, <1>2, <1>4 DEF UiInv, JobsListed
<1>6. Awaited'
  BY <1>1, <1>2 DEF UiInv, UiTyped, Awaited
<1> QED
  BY <1>3, <1>5, <1>6 DEF UiInv

LEMMA UserStepKeeps ==
  ASSUME UiInv, NEW u \in Users, Find(u) \/ Tell(u) \/ Return(u) \/ UserGivesUp(u)
  PROVE  UiInv'
<1>1. CASE Find(u)
  <2>1. uiJobs # <<>> => Head(uiJobs) \in Jobs
    BY DEF UiInv, UiTyped
  <2>2. UiTyped'
    BY <1>1, <2>1 DEF UiInv, UiTyped, Find
  <2>3. JobsListed'
    BY <1>1 DEF UiInv, JobsListed, Find
  <2>4. Awaited'
    BY <1>1, <2>1 DEF UiInv, UiTyped, Awaited, Find
  <2> QED
    BY <2>2, <2>3, <2>4 DEF UiInv
<1>2. CASE Tell(u)
  <2> DEFINE j == uiTarget[u]
  <2>1. /\ j \in Jobs /\ uiUser' = [uiUser EXCEPT ![u] = "told"]
        /\ uiJob' = [uiJob EXCEPT ![j] = IF @ = "running" THEN "cancelled" ELSE @]
        /\ uiJobs' = uiJobs /\ uiTarget' = uiTarget
    BY <1>2 DEF Tell, UiInv, Awaited
  <2>2. \A k \in Jobs : /\ uiJob'[k] \in {"running", "cancelled"} <=> uiJob[k] \in {"running", "cancelled"}
                        /\ uiJob[k] = "closed" => uiJob'[k] = "closed"
    BY <2>1 DEF UiInv, UiTyped
  <2>3. UiTyped'
    BY <2>1 DEF UiInv, UiTyped
  <2>4. \A n \in 1..Len(uiJobs) : uiJobs[n] \in Jobs
    BY DEF UiInv, UiTyped
  <2>5. JobsListed'
    BY <2>1, <2>2, <2>4 DEF UiInv, JobsListed
  <2>6. Awaited'
    BY <2>1, <2>2 DEF UiInv, UiTyped, Awaited
  <2> QED
    BY <2>3, <2>5, <2>6 DEF UiInv
<1>3. CASE Return(u)
  BY <1>3 DEF UiInv, UiTyped, JobsListed, Awaited, Return
<1>4. CASE UserGivesUp(u)
  BY <1>4 DEF UiInv, UiTyped, JobsListed, Awaited, UserGivesUp
<1> QED
  BY <1>1, <1>2, <1>3, <1>4

LEMMA UiStepInv == UiInv /\ [UiNext \/ LockNext]_interruptVars => UiInv'
<1> SUFFICES ASSUME UiInv, [UiNext \/ LockNext]_interruptVars PROVE UiInv'
  OBVIOUS
<1>1. ASSUME NEW j \in Jobs, StartJob(j) \/ ContextEnds(j) \/ JobStep(j) PROVE UiInv'
  BY <1>1, StartKeeps, ContextEndKeeps, RemoveKeeps, CloseKeeps DEF JobStep
<1>2. ASSUME NEW u \in Users, Find(u) \/ Tell(u) \/ Return(u) \/ UserGivesUp(u) PROVE UiInv'
  BY <1>2, UserStepKeeps
<1>3. ASSUME UNCHANGED <<uiJobs, uiJob, uiUser, uiTarget>> PROVE UiInv'
  BY <1>3 DEF UiInv, UiTyped, JobsListed, Awaited
<1>4. ASSUME NEW j \in Jobs, ListenerEnds(j) PROVE UiInv'
  BY <1>3, <1>4 DEF ListenerEnds
<1>5. CASE LockNext
  BY <1>3, <1>5 DEF LockNext, LockError, LockErrorMissed, LockTick, uiVars
<1>6. CASE UNCHANGED interruptVars
  BY <1>3, <1>6 DEF interruptVars, uiVars
<1> QED
  BY <1>1, <1>2, <1>4, <1>5, <1>6 DEF UiNext

\* UserInterrupt, removeJob and the CancelFunc of MakeWorkerContext, for any jobs and
\* users, and wherever a job's context ends before the job does: who
\* returns has seen its job end, and an ended job is not found again.
THEOREM InterruptCorrect == InterruptSpec => []ReturnsAfterEnd
<1>1. InterruptInit => UiInv
  <2>1. \A S : <<>> \in Seq(S)
    OBVIOUS
  <2> QED
    BY <2>1 DEF InterruptInit, UiInv, UiTyped, JobsListed, Awaited
<1>2. UiInv /\ [UiNext \/ LockNext]_interruptVars => UiInv'
  BY UiStepInv
<1>3. UiInv => ReturnsAfterEnd
  BY DEF UiInv, UiTyped, JobsListed, Awaited, ReturnsAfterEnd
<1> QED
  BY <1>1, <1>2, <1>3, PTL DEF InterruptSpec
=============================================================================
