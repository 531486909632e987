---------------------------- MODULE RemoteZipProofs ----------------------------
(***************************************************************************)
(* Theorems about RemoteZip, for all workers, files, sizes and limits and  *)
(* whatever fails.                                                         *)
(***************************************************************************)
EXTENDS RemoteZip, SequenceTheorems, FiniteSetTheorems, TLAPS

-----------------------------------------------------------------------------
(* The invariant.                                                          *)

InQueue(f) == \E i \in 1..Len(queue) : queue[i] = f

\* A file that was handed out is in one place: the queue, one worker, or the zip.
OnePlace ==
  /\ \A i, j \in 1..Len(queue) : queue[i] = queue[j] => i = j
  /\ \A i \in 1..Len(queue) : queue[i] < next
  /\ \A w \in Workers :
       /\ wpc[w] \in Working <=> item[w] # None
       /\ item[w] # None =>
            item[w] < next /\ ~ InQueue(item[w]) /\ \A v \in Workers : item[v] = item[w] => v = w
  /\ ~ zerr => \A k \in 1..Len(entries) : entries[k].file \in Files =>
       /\ entries[k].file < next /\ ~ InQueue(entries[k].file)
       /\ \A w \in Workers : item[w] # entries[k].file

EntriesDiffer ==
  \A k, m \in 1..Len(entries) : entries[m].file = entries[k].file => m = k

\* Without an error all that was written is whole and within the limits.
WholeUnlessError ==
  ~ zerr =>
    /\ \A k \in 1..Len(entries) :
         entries[k].complete /\ (MaxFileSize > 0 => Size[entries[k].file] <= MaxFileSize)
    /\ MaxTotalSize > 0 => total <= MaxTotalSize

\* When Run returns, no worker is left to write to the zip or its directory.
NoneLeftBehind ==
  pc \in {"ok", "failed"} => \A w \in Workers : wpc[w] \in Returned \cup {"off"}

\* Where Run is, and what that says of the workers.
Phases ==
  /\ pc = "new" => errC = None /\ next = 1 /\ queue = <<>> /\ \A w \in Workers : wpc[w] = "off"
  /\ pc \in {"feed", "wait"} => \A w \in Workers : wpc[w] # "off"
  /\ NoneLeftBehind
  /\ pc = "wait" /\ ~ loopErr => next > taken
  /\ pc = "ok" => ~ zerr

\* Why a worker has returned.
WhyReturned ==
  /\ \A w \in Workers :
       IF wpc[w] \in Returned
         THEN ret[w] = "err" \/ cancelled \/ (pc \in {"wait", "ok", "failed"} /\ queue = <<>>)
         ELSE ret[w] = None
  /\ errC = "err" => \E w \in Workers : ret[w] = "err"
  /\ errC = "nil" /\ pc = "feed" => cancelled

Explained(f) ==
  f \in Written \/ f \in GivenUp \/ cancelled \/ \E w \in Workers : ret[w] = "err"

\* A file that was handed out is on its way, or accounted for.
Accounted ==
  \A f \in 1..(next - 1) :
    Explained(f) \/ InQueue(f) \/ \E w \in Workers : item[w] = f

\* A worker's counter is the count of the attempts that failed at its file.
AttemptsCounted ==
  /\ \A w \in Workers : tries[w] = IF item[w] = None THEN 0 ELSE failures[item[w]]
  /\ \A f \in Files : f >= next \/ InQueue(f) => failures[f] = 0

ZipCore ==
  /\ TypeOK /\ OnePlace /\ EntriesDiffer /\ WholeUnlessError
  /\ Phases /\ WhyReturned /\ Accounted /\ MissingIsExplained

ZipInv == ZipCore /\ AttemptsCounted

LEMMA ZipInitInv == Init => ZipInv
<1> SUFFICES ASSUME Init PROVE ZipInv
  OBVIOUS
<1> USE DEF Init
<1>1. \A S : <<>> \in Seq(S)
  OBVIOUS
<1>2. TypeOK
  <2>1. /\ wpc \in [Workers -> {"off", "start", "idle"} \cup Working \cup Returned]
        /\ item \in [Workers -> Files \cup {None}]
        /\ ret \in [Workers -> {None, "nil", "err"}]
    OBVIOUS
  <2>2. tries \in [Workers -> 0 .. MaxAttempts - 1]
    BY DEF MaxAttempts
  <2>3. /\ queued \in 0 .. NFiles /\ taken \in 0 .. queued /\ next \in 1 .. NFiles + 1
        /\ Len(queue) <= QueueCap
    BY FilesAssumption, QueueAssumption
  <2>4. failures \in [Files -> 0 .. MaxAttempts]
    BY DEF MaxAttempts
  <2> QED
    BY <1>1, <2>1, <2>2, <2>3, <2>4 DEF TypeOK
<1>3. OnePlace
  BY DEF OnePlace, Working
<1>4. EntriesDiffer /\ WholeUnlessError
  BY SizeAssumption DEF EntriesDiffer, WholeUnlessError
<1>5. Phases /\ WhyReturned
  BY NoneAssumption DEF Phases, WhyReturned, NoneLeftBehind, Returned
<1>6. Accounted /\ MissingIsExplained
  BY DEF Accounted, MissingIsExplained
<1>7. AttemptsCounted
  BY DEF AttemptsCounted
<1> QED
  BY <1>2, <1>3, <1>4, <1>5, <1>6, <1>7 DEF ZipCore, ZipInv

-----------------------------------------------------------------------------
(* Writing to the zip.                                                     *)

Entry == [file : Files \cup Memory, complete : BOOLEAN]

LEMMA LeastLimit ==
  ASSUME total \in Nat
  PROVE  Limits \subseteq Nat /\ (Limits # {} => Min(Limits) \in Nat)
<1>1. Limits \subseteq Nat
  BY SizeAssumption DEF Limits
<1>2. ASSUME Limits # {} PROVE \E x \in Limits : \A y \in Limits : x <= y
  <2> DEFINE rest == IF total < MaxTotalSize THEN MaxTotalSize - total ELSE 0
  <2>1. rest \in Nat /\ MaxFileSize \in Nat
    BY SizeAssumption
  <2>2. \/ Limits = {MaxFileSize} \/ Limits = {rest} \/ Limits = {MaxFileSize, rest}
    BY <1>2 DEF Limits
  <2> HIDE DEF rest
  <2>3. CASE Limits = {MaxFileSize, rest} /\ MaxFileSize <= rest
    BY <2>1, <2>3
  <2>4. CASE Limits = {MaxFileSize, rest} /\ rest <= MaxFileSize
    BY <2>1, <2>4
  <2>5. CASE Limits = {MaxFileSize} \/ Limits = {rest}
    BY <2>1, <2>5
  <2> QED
    BY <2>1, <2>2, <2>3, <2>4, <2>5
<1> QED
  BY <1>1, <1>2 DEF Min

\* addFileUnsafe appends one entry, or nothing after an error.
LEMMA AddFileFacts ==
  ASSUME TypeOK, NEW f \in Files \cup Memory, NEW fails \in BOOLEAN, AddFile(f, fails)
  PROVE  /\ entries' \in Seq(Entry) /\ total' \in Nat /\ zerr' \in BOOLEAN
         /\ zerr => zerr' /\ entries' = entries /\ total' = total
         /\ ~ zerr => /\ Len(entries') = Len(entries) + 1
                      /\ entries'[Len(entries) + 1].file = f
                      /\ \A k \in 1..Len(entries) : entries'[k] = entries[k]
<1>1. /\ entries \in Seq(Entry) /\ total \in Nat /\ zerr \in BOOLEAN /\ Size[f] \in Nat
  BY SizeAssumption DEF TypeOK, Entry
<1>2. CASE zerr
  BY <1>1, <1>2 DEF AddFile, zipVars
<1>3. CASE ~ zerr
  <2> DEFINE e == [file |-> f, complete |-> ~ IsOver(f) /\ ~ fails]
  <2>1. e \in Entry /\ e.file = f
    BY DEF Entry, IsOver
  <2>2. entries' = Append(entries, e)
    BY <1>3 DEF AddFile, WriteEntry
  <2> HIDE DEF e
  <2>3. IsOver(f) => Min(Limits) \in Nat
    BY <1>1, LeastLimit DEF IsOver
  <2>4. total' \in Nat /\ zerr' \in BOOLEAN
    BY <1>1, <1>3, <2>3 DEF AddFile, WriteEntry, IsOver
  <2> QED
    BY <1>1, <1>3, <2>1, <2>2, <2>4
<1> QED
  BY <1>2, <1>3

LEMMA AddFileIsSound ==
  ASSUME TypeOK, EntriesDiffer, WholeUnlessError,
         NEW f \in Files \cup Memory, NEW fails \in BOOLEAN, AddFile(f, fails),
         ~ zerr => f \notin Written
  PROVE  /\ EntriesDiffer' /\ WholeUnlessError' /\ Written \subseteq Written'
         /\ ~ zerr' => f \in Written'
<1>1. /\ entries \in Seq(Entry) /\ total \in Nat /\ zerr \in BOOLEAN /\ Size[f] \in Nat
      /\ DOMAIN entries = 1..Len(entries) /\ Len(entries) \in Nat
  BY SizeAssumption DEF TypeOK, Entry
<1>2. CASE zerr
  BY <1>1, <1>2, AddFileFacts DEF EntriesDiffer, WholeUnlessError, Written
<1>3. CASE ~ zerr
  <2> DEFINE n == Len(entries) + 1
  <2>1. /\ Len(entries') = n /\ entries'[n].file = f /\ entries' \in Seq(Entry)
        /\ \A k \in 1..Len(entries) : entries'[k] = entries[k]
        /\ n \in Nat /\ DOMAIN entries' = 1..n
        /\ \A k \in 1..n : k = n \/ k \in 1..Len(entries)
    BY <1>1, <1>3, AddFileFacts
  <2>2. \A k \in 1..Len(entries) : entries[k].file # f
    BY <1>1, <1>3 DEF Written
  <2>3. EntriesDiffer'
    BY <2>1, <2>2 DEF EntriesDiffer
  <2>4. Written \subseteq Written' /\ f \in Written'
    BY <1>1, <2>1 DEF Written
  <2>5. WholeUnlessError'
    <3>1. SUFFICES ASSUME ~ zerr' PROVE WholeUnlessError'
      BY DEF WholeUnlessError
    <3>2. ~ IsOver(f) /\ ~ fails /\ entries'[n].complete /\ total' = total + Size[f]
      <4>1. /\ zerr' = (IsOver(f) \/ fails)
            /\ entries' = Append(entries, [file |-> f, complete |-> ~ IsOver(f) /\ ~ fails])
            /\ total' = total + (IF IsOver(f) THEN Min(Limits) + 1 ELSE Size[f])
        BY <1>3 DEF AddFile, WriteEntry
      <4>2. ~ IsOver(f) /\ ~ fails
        BY <3>1, <4>1
      <4>3. entries' = Append(entries, [file |-> f, complete |-> TRUE])
        BY <4>1, <4>2
      <4>4. entries'[n] = [file |-> f, complete |-> TRUE]
        BY <1>1, <4>3
      <4>5. entries'[n].complete
        <5>1. entries'[n].complete = TRUE
          BY <4>4
        <5> QED
          BY <5>1
      <4> QED
        BY <4>1, <4>2, <4>5
    <3>3. MaxFileSize > 0 => Size[f] <= MaxFileSize
      BY <1>1, <3>2, SizeAssumption DEF IsOver, Limits
    <3>4. MaxTotalSize > 0 => total' <= MaxTotalSize
      <4>1. SUFFICES ASSUME MaxTotalSize > 0 PROVE total' <= MaxTotalSize
        OBVIOUS
      <4>2. total <= MaxTotalSize
        BY <1>3, <4>1 DEF WholeUnlessError
      <4>3. (IF total < MaxTotalSize THEN MaxTotalSize - total ELSE 0) \in Limits
        BY <4>1, SizeAssumption DEF Limits
      <4>4. ~ (Size[f] > (IF total < MaxTotalSize THEN MaxTotalSize - total ELSE 0))
        BY <3>2, <4>3 DEF IsOver
      <4> QED
        BY <1>1, <3>2, <4>2, <4>4, SizeAssumption
    <3>5. ASSUME NEW k \in 1..n
          PROVE entries'[k].complete /\ (MaxFileSize > 0 => Size[entries'[k].file] <= MaxFileSize)
      <4>1. CASE k = n
        BY <2>1, <3>2, <3>3, <4>1
      <4>2. CASE k \in 1..Len(entries)
        BY <1>3, <2>1, <4>2 DEF WholeUnlessError
      <4> QED
        BY <2>1, <4>1, <4>2
    <3> QED
      BY <2>1, <3>4, <3>5 DEF WholeUnlessError
  <2> QED
    BY <2>3, <2>4, <2>5
<1> QED
  BY <1>2, <1>3

\* A step that leaves the zip alone.
LEMMA ZipKept ==
  ASSUME EntriesDiffer, WholeUnlessError, UNCHANGED zipVars
  PROVE  EntriesDiffer' /\ WholeUnlessError' /\ Written' = Written
BY DEF EntriesDiffer, WholeUnlessError, Written, zipVars

\* An explanation holds for good.
LEMMA ExplainedStays ==
  ASSUME TypeOK, Written \subseteq Written', GivenUp \subseteq GivenUp', cancelled => cancelled',
         \A w \in Workers : ret[w] = "err" => ret'[w] = "err"
  PROVE  /\ \A f : Explained(f) => Explained(f)'
         /\ MissingIsExplained
            /\ (pc' = "ok" => pc = "ok" /\ taken' = taken /\ queued' \in {queued, queued + 1})
              => MissingIsExplained'
<1>1. ASSUME NEW f, Explained(f) PROVE Explained(f)'
  BY <1>1 DEF Explained
<1>2. ASSUME MissingIsExplained,
             pc' = "ok" => pc = "ok" /\ taken' = taken /\ queued' \in {queued, queued + 1}
      PROVE  MissingIsExplained'
  <2> SUFFICES ASSUME pc' = "ok", NEW f \in 1..queued' PROVE f > taken \/ Explained(f)'
    BY <1>2 DEF MissingIsExplained, Explained
  <2>1. f \in 1..queued \/ f > taken
    BY <1>2 DEF TypeOK
  <2> QED
    BY <1>1, <1>2, <2>1 DEF MissingIsExplained, Explained
<1> QED
  BY <1>1, <1>2

\* So does one that rests on the attempts, which most steps leave alone.
LEMMA GivenUpKept == failures' = failures => GivenUp' = GivenUp
BY DEF GivenUp

-----------------------------------------------------------------------------
(* The caller and Run.                                                     *)

LEMMA AddMemoryFileKeeps ==
  ASSUME ZipCore, NEW f \in Memory, AddMemoryFile(f)
  PROVE  ZipCore'
<1>1. PICK fails \in BOOLEAN : AddFile(f, fails)
  BY DEF AddMemoryFile, MayFail
<1>2. UNCHANGED <<runVars, queue, errC, workVars, cancelled>> /\ pc \in {"new", "feed", "wait"}
  BY DEF AddMemoryFile
<1>3. f \in Files \cup Memory /\ f \notin Files /\ f \notin Written /\ TypeOK
  BY FilesAssumption DEF AddMemoryFile, Written, ZipCore
<1>4. /\ entries' \in Seq(Entry) /\ total' \in Nat /\ zerr' \in BOOLEAN
      /\ zerr => zerr' /\ entries' = entries /\ total' = total
      /\ ~ zerr => /\ Len(entries') = Len(entries) + 1
                   /\ entries'[Len(entries) + 1].file = f
                   /\ \A k \in 1..Len(entries) : entries'[k] = entries[k]
  BY <1>1, <1>3, AddFileFacts
<1>5. EntriesDiffer' /\ WholeUnlessError' /\ Written \subseteq Written'
  BY <1>1, <1>3, AddFileIsSound DEF ZipCore
<1>6. TypeOK'
  BY <1>2, <1>3, <1>4 DEF TypeOK, Entry, runVars, workVars
<1>7. OnePlace'
  <2>1. ASSUME ~ zerr', NEW k \in 1..Len(entries'), entries'[k].file \in Files
        PROVE  /\ entries'[k].file < next /\ ~ InQueue(entries'[k].file)
               /\ \A w \in Workers : item[w] # entries'[k].file
    <3>1. k \in 1..Len(entries) /\ ~ zerr /\ entries'[k] = entries[k]
      BY <1>3, <1>4, <2>1 DEF TypeOK
    <3> QED
      BY <2>1, <3>1 DEF ZipCore, OnePlace
  <2> QED
    BY <1>2, <2>1 DEF ZipCore, OnePlace, InQueue, runVars, workVars
<1>8. Phases'
  BY <1>2 DEF ZipCore, Phases, NoneLeftBehind, runVars, workVars
<1>9. WhyReturned'
  BY <1>2 DEF ZipCore, WhyReturned, runVars, workVars
<1>10. Accounted' /\ MissingIsExplained'
  BY <1>2, <1>5, ExplainedStays, GivenUpKept DEF ZipCore, Accounted, InQueue, runVars, workVars
<1> QED
  BY <1>5, <1>6, <1>7, <1>8, <1>9, <1>10 DEF ZipCore

LEMMA CallerKeeps == ZipCore /\ (AddRemoteFile \/ Cancel) => ZipCore'
<1> SUFFICES ASSUME ZipCore, AddRemoteFile \/ Cancel PROVE ZipCore'
  OBVIOUS
<1>1. /\ UNCHANGED <<pc, next, loopErr, zipVars, queue, errC, workVars>>
      /\ cancelled => cancelled'
      /\ taken' = taken /\ taken \in 0..queued' /\ queued' \in 0..NFiles
      /\ queued' \in {queued, queued + 1} /\ cancelled' \in BOOLEAN
  <2>0. queued \in 0..NFiles /\ taken \in 0..queued /\ cancelled \in BOOLEAN /\ NFiles \in Nat
    BY FilesAssumption DEF ZipCore, TypeOK
  <2>1. CASE AddRemoteFile
    BY <2>0, <2>1 DEF AddRemoteFile
  <2>2. CASE Cancel
    BY <2>0, <2>2 DEF Cancel, runVars
  <2> QED
    BY <2>1, <2>2
<1>2. TypeOK'
  BY <1>1 DEF ZipCore, TypeOK, zipVars, workVars
<1>3. EntriesDiffer' /\ WholeUnlessError' /\ Written' = Written
  BY <1>1, ZipKept DEF ZipCore
<1>4. OnePlace' /\ Phases' /\ WhyReturned'
  BY <1>1 DEF ZipCore, OnePlace, Phases, WhyReturned, NoneLeftBehind, InQueue, zipVars, workVars
<1>5. Accounted' /\ MissingIsExplained'
  BY <1>1, <1>3, ExplainedStays, GivenUpKept DEF ZipCore, Accounted, InQueue, workVars
<1> QED
  BY <1>2, <1>3, <1>4, <1>5 DEF ZipCore

LEMMA SetupKeeps == ZipCore /\ Setup => ZipCore'
<1> SUFFICES ASSUME ZipCore, Setup PROVE ZipCore'
  OBVIOUS
<1>1. /\ UNCHANGED <<queued, next, loopErr, entries, total, queue, errC, item, tries, ret,
                     failures, cancelled>>
      /\ taken' = queued
      /\ pc = "new" /\ zerr' \in BOOLEAN /\ (zerr => zerr')
      /\ \/ pc' = "failed" /\ wpc' = wpc
         \/ pc' = "feed" /\ wpc' = [w \in Workers |-> "start"]
  BY DEF Setup, MayFail, ZipCore, TypeOK
<1>2. /\ errC = None /\ next = 1 /\ queue = <<>>
      /\ \A w \in Workers : wpc[w] = "off" /\ item[w] = None /\ ret[w] = None
  BY <1>1 DEF ZipCore, Phases, OnePlace, WhyReturned, Working, Returned
<1>3. wpc' = wpc \/ \A w \in Workers : wpc'[w] = "start"
  BY <1>1
<1>4. TypeOK'
  <2>1. wpc' \in [Workers -> {"off", "start", "idle"} \cup Working \cup Returned]
    BY <1>1 DEF ZipCore, TypeOK
  <2> QED
    BY <1>1, <2>1 DEF ZipCore, TypeOK
<1>5. EntriesDiffer' /\ WholeUnlessError' /\ Written' = Written
  BY <1>1 DEF ZipCore, EntriesDiffer, WholeUnlessError, Written
<1>6. OnePlace'
  BY <1>1, <1>2, <1>3 DEF ZipCore, OnePlace, InQueue, Working
<1>7. Phases' /\ WhyReturned'
  BY <1>1, <1>2, <1>3, NoneAssumption DEF Phases, WhyReturned, NoneLeftBehind, Returned
<1>8. Accounted' /\ MissingIsExplained'
  BY <1>1, <1>2 DEF Accounted, MissingIsExplained
<1> QED
  BY <1>4, <1>5, <1>6, <1>7, <1>8 DEF ZipCore

LEMMA SendKeeps == ZipCore /\ Send => ZipCore'
<1> SUFFICES ASSUME ZipCore, Send PROVE ZipCore'
  OBVIOUS
<1>1. /\ UNCHANGED <<pc, queued, taken, zipVars, errC, workVars, cancelled>>
      /\ pc = "feed" /\ queue' = Append(queue, next) /\ next' = next + 1
      /\ loopErr' \in BOOLEAN /\ Len(queue) < QueueCap
  BY DEF Send, DiskCheck, MayFail
<1>2. /\ next \in Files /\ next' \in 1..NFiles + 1 /\ queue \in Seq(Files) /\ Len(queue) \in Nat
      /\ Files \subseteq Nat /\ item \in [Workers -> Files \cup {None}] /\ None \notin Files
  BY <1>1, FilesAssumption, NoneAssumption DEF Send, ZipCore, TypeOK, Files
<1>3. /\ queue' \in Seq(Files) /\ Len(queue') = Len(queue) + 1 /\ queue'[Len(queue) + 1] = next
      /\ \A i \in 1..Len(queue) : queue'[i] = queue[i] /\ queue[i] \in Files
      /\ \A i \in 1..Len(queue') : i = Len(queue) + 1 \/ i \in 1..Len(queue)
  BY <1>1, <1>2
<1>4. \A f : InQueue(f)' <=> InQueue(f) \/ f = next
  BY <1>2, <1>3 DEF InQueue
<1>5. TypeOK'
  BY <1>1, <1>2, <1>3, QueueAssumption DEF ZipCore, TypeOK, zipVars, workVars
<1>6. EntriesDiffer' /\ WholeUnlessError' /\ Written' = Written
  BY <1>1, ZipKept DEF ZipCore
<1>7. OnePlace'
  <2>1. ASSUME NEW i \in 1..Len(queue'), NEW j \in 1..Len(queue'), queue'[i] = queue'[j]
        PROVE  i = j
    BY <1>2, <1>3, <2>1 DEF ZipCore, OnePlace
  <2>2. ASSUME NEW i \in 1..Len(queue') PROVE queue'[i] < next'
    <3>1. next \in Nat /\ next' = next + 1
      BY <1>1, <1>2
    <3>2. CASE i = Len(queue) + 1
      BY <1>3, <3>1, <3>2
    <3>3. CASE i \in 1..Len(queue)
      <4>1. queue'[i] \in Nat /\ queue'[i] < next
        BY <1>2, <1>3, <3>3 DEF ZipCore, OnePlace
      <4> QED
        BY <3>1, <4>1
    <3> QED
      BY <1>3, <3>2, <3>3
  <2>3. ASSUME NEW w \in Workers, item[w] # None
        PROVE  /\ item[w] < next' /\ ~ InQueue(item[w])'
               /\ \A v \in Workers : item[v] = item[w] => v = w
    <3>1. item[w] \in Nat /\ item[w] < next /\ ~ InQueue(item[w])
      BY <1>2, <2>3 DEF ZipCore, OnePlace
    <3>2. item[w] < next' /\ item[w] # next
      BY <1>1, <1>2, <3>1
    <3>3. ~ InQueue(item[w])'
      BY <1>1, <1>4, <3>1, <3>2 DEF workVars
    <3> QED
      BY <2>3, <3>2, <3>3 DEF ZipCore, OnePlace
  <2>4. ASSUME NEW k \in 1..Len(entries), ~ zerr, entries[k].file \in Files
        PROVE  /\ entries[k].file < next' /\ ~ InQueue(entries[k].file)'
               /\ \A w \in Workers : item[w] # entries[k].file
    <3>1. /\ entries[k].file < next /\ ~ InQueue(entries[k].file)
          /\ \A w \in Workers : item[w] # entries[k].file
      BY <2>4 DEF ZipCore, OnePlace
    <3>2. entries[k].file < next' /\ entries[k].file # next
      <4>1. entries[k].file \in Nat /\ next \in Nat /\ next' = next + 1
        BY <1>1, <1>2, <2>4
      <4> QED
        BY <3>1, <4>1
    <3>3. ~ InQueue(entries[k].file)'
      BY <1>1, <1>4, <3>1, <3>2 DEF zipVars
    <3> QED
      BY <3>1, <3>2, <3>3
  <2>5. UNCHANGED <<item, wpc, entries, zerr>>
    BY <1>1 DEF workVars, zipVars
  <2>6. \A w \in Workers : wpc[w] \in Working <=> item[w] # None
    BY DEF ZipCore, OnePlace
  <2> QED
    BY <2>1, <2>2, <2>3, <2>4, <2>5, <2>6 DEF OnePlace, InQueue
<1>8. Phases' /\ WhyReturned'
  BY <1>1 DEF ZipCore, Phases, WhyReturned, NoneLeftBehind, zipVars, workVars
<1>9. Accounted' /\ MissingIsExplained'
  <2>1. /\ \A f : Explained(f) => Explained(f)'
        /\ MissingIsExplained'
    BY <1>1, <1>6, ExplainedStays, GivenUpKept DEF ZipCore, workVars
  <2>2. ASSUME NEW f \in 1..(next' - 1)
        PROVE  Explained(f)' \/ InQueue(f)' \/ \E w \in Workers : item[w] = f
    <3>1. f = next \/ f \in 1..(next - 1)
      BY <1>1, <1>2
    <3> QED
      BY <1>4, <2>1, <3>1 DEF ZipCore, Accounted
  <2>3. item' = item
    BY <1>1 DEF workVars
  <2> QED
    BY <2>1, <2>2, <2>3 DEF Accounted
<1> QED
  BY <1>5, <1>6, <1>7, <1>8, <1>9 DEF ZipCore

\* The file that is not handed out is accounted for by the error that was
\* taken, or by the cancellation that let a worker return without one.
LEMMA TakeErrKeeps == ZipCore /\ TakeErr => ZipCore'
<1> SUFFICES ASSUME ZipCore, TakeErr PROVE ZipCore'
  OBVIOUS
<1>1. /\ UNCHANGED <<pc, queued, taken, zipVars, queue, workVars, cancelled>>
      /\ pc = "feed" /\ errC # None /\ errC' = None /\ next' = next + 1
      /\ loopErr' \in BOOLEAN
  BY DEF TakeErr, DiskCheck, MayFail
<1>2. /\ next \in Nat /\ next' \in 1..NFiles + 1 /\ errC \in {"nil", "err"}
      /\ queue \in Seq(Files) /\ item \in [Workers -> Files \cup {None}]
      /\ entries \in Seq(Entry) /\ Files \subseteq Nat
  BY <1>1, FilesAssumption DEF TakeErr, ZipCore, TypeOK, Files, Entry
<1>3. cancelled \/ \E w \in Workers : ret[w] = "err"
  BY <1>1, <1>2 DEF ZipCore, WhyReturned
<1>4. TypeOK'
  BY <1>1, <1>2 DEF ZipCore, TypeOK, zipVars, workVars
<1>5. EntriesDiffer' /\ WholeUnlessError' /\ Written' = Written
  BY <1>1, ZipKept DEF ZipCore
<1>6. OnePlace'
  <2>1. \A n \in Nat : n < next => n < next'
    BY <1>1, <1>2
  <2>2. \A i \in 1..Len(queue) : queue[i] \in Nat
    BY <1>2, ElementOfSeq
  <2>3. \A w \in Workers : item[w] # None => item[w] \in Nat
    BY <1>2
  <2>4. UNCHANGED <<queue, item, wpc, entries, zerr>>
    BY <1>1 DEF workVars, zipVars
  <2>5. \A f : InQueue(f)' <=> InQueue(f)
    BY <2>4 DEF InQueue
  <2> QED
    BY <1>2, <2>1, <2>2, <2>3, <2>4, <2>5 DEF ZipCore, OnePlace
<1>7. Phases' /\ WhyReturned'
  BY <1>1, NoneAssumption DEF ZipCore, Phases, WhyReturned, NoneLeftBehind, zipVars, workVars
<1>8. Accounted' /\ MissingIsExplained'
  BY <1>1, <1>3, <1>5, ExplainedStays, GivenUpKept DEF ZipCore, Accounted, Explained, workVars
<1> QED
  BY <1>4, <1>5, <1>6, <1>7, <1>8 DEF ZipCore

LEMMA CloseQueueKeeps == ZipCore /\ CloseQueue => ZipCore'
<1> SUFFICES ASSUME ZipCore, CloseQueue PROVE ZipCore'
  OBVIOUS
<1>1. /\ UNCHANGED <<queued, taken, next, loopErr, zipVars, queue, errC, workVars, cancelled>>
      /\ pc = "feed" /\ pc' = "wait" /\ (next > taken \/ loopErr)
  BY DEF CloseQueue
<1>2. TypeOK'
  BY <1>1 DEF ZipCore, TypeOK, zipVars, workVars
<1>3. EntriesDiffer' /\ WholeUnlessError' /\ Written' = Written
  BY <1>1, ZipKept DEF ZipCore
<1>4. OnePlace' /\ Phases' /\ WhyReturned'
  BY <1>1 DEF ZipCore, OnePlace, Phases, WhyReturned, NoneLeftBehind, InQueue, zipVars, workVars
<1>5. Accounted' /\ MissingIsExplained'
  BY <1>1, <1>3, ExplainedStays, GivenUpKept DEF ZipCore, Accounted, InQueue, workVars
<1> QED
  BY <1>2, <1>3, <1>4, <1>5 DEF ZipCore

\* Run returns when all workers have: then no file is on its way any more.
LEMMA FinishKeeps == ZipCore /\ Finish => ZipCore'
<1> SUFFICES ASSUME ZipCore, Finish PROVE ZipCore'
  OBVIOUS
<1>1. /\ UNCHANGED <<queued, taken, next, loopErr, entries, total, queue, workVars, cancelled>>
      /\ pc = "wait" /\ \A w \in Workers : wpc[w] \in Returned
      /\ pc' = IF zerr' THEN "failed" ELSE "ok"
      /\ errC' \in {errC, None} /\ zerr' \in BOOLEAN
      /\ ~ zerr' => ~ zerr /\ ~ loopErr
  BY DEF Finish, MayFail, ZipCore, TypeOK
<1>2. TypeOK'
  BY <1>1 DEF ZipCore, TypeOK, workVars
<1>3. EntriesDiffer' /\ WholeUnlessError' /\ Written' = Written
  BY <1>1 DEF ZipCore, EntriesDiffer, WholeUnlessError, Written
<1>4. OnePlace'
  BY <1>1 DEF ZipCore, OnePlace, InQueue, workVars
<1>5. Phases' /\ WhyReturned'
  BY <1>1, NoneAssumption DEF ZipCore, Phases, WhyReturned, NoneLeftBehind, workVars
<1>6. Accounted'
  BY <1>1, <1>3, ExplainedStays, GivenUpKept DEF ZipCore, Accounted, InQueue, workVars
<1>7. MissingIsExplained'
  <2>1. SUFFICES ASSUME ~ zerr', NEW f \in 1..taken PROVE Explained(f)'
    BY <1>1 DEF MissingIsExplained, Explained, ZipCore, TypeOK
  <2>2. f \in 1..(next - 1)
    BY <1>1, <2>1, FilesAssumption DEF ZipCore, Phases, TypeOK
  <2>3. \A w \in Workers : item[w] = None
    BY <1>1 DEF ZipCore, OnePlace, Working, Returned
  <2>4. f # None
    BY <2>1, NoneAssumption, FilesAssumption DEF ZipCore, TypeOK, Files
  <2>5. InQueue(f) => Explained(f)
    <3>1. PICK w \in Workers : TRUE
      BY WorkersAssumption
    <3>2. ret[w] = "err" \/ cancelled \/ queue = <<>>
      BY <1>1 DEF ZipCore, WhyReturned
    <3> QED
      BY <3>2 DEF InQueue, Explained
  <2>6. Explained(f)
    BY <2>2, <2>3, <2>4, <2>5 DEF ZipCore, Accounted
  <2> QED
    BY <1>1, <1>3, <2>6, ExplainedStays, GivenUpKept DEF ZipCore, workVars
<1> QED
  BY <1>2, <1>3, <1>4, <1>5, <1>6, <1>7 DEF ZipCore

-----------------------------------------------------------------------------
(* The workers.                                                            *)

\* What every step of a worker but Receive does: it keeps its file or puts it
\* down, explained, and adds nothing to the zip but that file.
LEMMA WorkerMoves ==
  ASSUME ZipCore, TypeOK', NEW w \in Workers, UNCHANGED <<runVars, queue, cancelled>>,
         \A v \in Workers \ {w} : wpc'[v] = wpc[v] /\ item'[v] = item[v] /\ ret'[v] = ret[v],
         item'[w] \in {None, item[w]}, wpc'[w] \in Working <=> item'[w] # None,
         \A f \in Files : item[w] = f /\ item'[w] = None => Explained(f)',
         GivenUp \subseteq GivenUp',
         EntriesDiffer', WholeUnlessError', Written \subseteq Written', pc = "ok" => ~ zerr',
         ~ zerr' => ~ zerr /\ \A k \in 1..Len(entries') :
           \/ \E m \in 1..Len(entries) : entries'[k].file = entries[m].file
           \/ entries'[k].file = item[w] /\ item'[w] = None,
         wpc[w] # "off", wpc'[w] # "off", pc \in {"ok", "failed"} => wpc'[w] \in Returned,
         IF wpc'[w] \in Returned
           THEN ret'[w] = "err" \/ cancelled \/ (pc \in {"wait", "ok", "failed"} /\ queue = <<>>)
           ELSE ret'[w] = None,
         ret[w] = "err" => ret'[w] = "err",
         errC' = "err" => errC = "err" \/ ret'[w] = "err",
         errC' = "nil" /\ pc = "feed" => cancelled
  PROVE  ZipCore'
<1>1. /\ pc' = pc /\ queued' = queued /\ taken' = taken /\ next' = next /\ loopErr' = loopErr
      /\ queue' = queue /\ cancelled' = cancelled
      /\ \A f : InQueue(f)' <=> InQueue(f)
  BY DEF runVars, InQueue
<1>2. \A v \in Workers : item'[v] # None => item'[v] = item[v]
  OBVIOUS
<1>3. OnePlace'
  <2>1. ASSUME NEW v \in Workers
        PROVE  /\ wpc'[v] \in Working <=> item'[v] # None
               /\ item'[v] # None =>
                    item'[v] < next /\ ~ InQueue(item'[v])
                    /\ \A u \in Workers : item'[u] = item'[v] => u = v
    BY <1>2 DEF ZipCore, OnePlace
  <2>2. ASSUME ~ zerr', NEW k \in 1..Len(entries'), entries'[k].file \in Files
        PROVE  /\ entries'[k].file < next /\ ~ InQueue(entries'[k].file)
               /\ \A v \in Workers : item'[v] # entries'[k].file
    <3>1. entries'[k].file # None
      BY <2>2, NoneAssumption
    <3>2. CASE \E m \in 1..Len(entries) : entries'[k].file = entries[m].file
      BY <1>2, <2>2, <3>1, <3>2 DEF ZipCore, OnePlace
    <3>3. CASE entries'[k].file = item[w] /\ item'[w] = None
      BY <1>2, <3>1, <3>3 DEF ZipCore, OnePlace
    <3> QED
      BY <2>2, <3>2, <3>3
  <2>3. /\ \A i, j \in 1..Len(queue') : queue'[i] = queue'[j] => i = j
        /\ \A i \in 1..Len(queue') : queue'[i] < next'
    BY <1>1 DEF ZipCore, OnePlace
  <2>4. /\ \A v \in Workers : InQueue(item[v])' <=> \E i \in 1..Len(queue) : queue[i] = item'[v]
        /\ \A k : InQueue(entries[k].file)' <=> \E i \in 1..Len(queue) : queue[i] = entries'[k].file
    BY <1>1 DEF InQueue
  <2> QED
    BY <1>1, <2>1, <2>2, <2>3, <2>4 DEF OnePlace, InQueue
<1>4. \A v \in Workers : ret[v] = "err" => ret'[v] = "err"
  OBVIOUS
<1>5. Phases'
  BY <1>1 DEF ZipCore, Phases, NoneLeftBehind
<1>6. WhyReturned'
  <2>1. ASSUME NEW v \in Workers
        PROVE  IF wpc'[v] \in Returned
                 THEN ret'[v] = "err" \/ cancelled
                      \/ (pc \in {"wait", "ok", "failed"} /\ queue = <<>>)
                 ELSE ret'[v] = None
    BY DEF ZipCore, WhyReturned
  <2>2. errC' = "err" => \E v \in Workers : ret'[v] = "err"
    BY <1>4 DEF ZipCore, WhyReturned
  <2> QED
    BY <1>1, <2>1, <2>2 DEF WhyReturned
<1>7. (\A f : Explained(f) => Explained(f)') /\ MissingIsExplained'
  BY <1>1, <1>4, ExplainedStays, GivenUpKept DEF ZipCore
<1>8. Accounted'
  <2>1. ASSUME NEW f \in 1..(next - 1)
        PROVE  Explained(f)' \/ InQueue(f)' \/ \E v \in Workers : item'[v] = f
    <3>1. CASE \E v \in Workers \ {w} : item[v] = f
      BY <3>1
    <3>2. CASE item[w] = f
      <4>1. f \in Files
        BY FilesAssumption DEF ZipCore, TypeOK, Files
      <4> QED
        BY <3>2, <4>1
    <3> QED
      BY <1>1, <1>7, <3>1, <3>2 DEF ZipCore, Accounted
  <2> QED
    BY <1>1, <2>1 DEF Accounted
<1> QED
  BY <1>3, <1>5, <1>6, <1>7, <1>8 DEF ZipCore

\* The same when the zip stays as it is.
LEMMA ZipUntouched ==
  ASSUME ZipCore, UNCHANGED zipVars
  PROVE  /\ EntriesDiffer' /\ WholeUnlessError' /\ Written \subseteq Written'
         /\ pc = "ok" => ~ zerr'
         /\ ~ zerr' => ~ zerr /\ \A k \in 1..Len(entries') :
              \E m \in 1..Len(entries) : entries'[k].file = entries[m].file
BY ZipKept DEF ZipCore, zipVars, Phases

\* A worker at work is not one of a Run that has returned.
LEMMA RunIsThere ==
  ASSUME ZipCore, NEW w \in Workers, wpc[w] \in {"start", "idle"} \cup Working
  PROVE  pc \in {"feed", "wait"} /\ ret[w] = None /\ ret[w] # "err" /\ wpc[w] # "off"
<1>1. wpc[w] # "off" /\ wpc[w] \notin Returned
  BY DEF Working, Returned
<1>2. pc \notin {"new", "ok", "failed"}
  BY <1>1 DEF ZipCore, Phases, NoneLeftBehind
<1> QED
  BY <1>1, <1>2, NoneAssumption DEF ZipCore, TypeOK, WhyReturned

LEMMA BeginKeeps ==
  ASSUME ZipCore, NEW w \in Workers, Begin(w) \/ Download(w)
  PROVE  ZipCore'
<1>1. /\ UNCHANGED <<runVars, zipVars, queue, errC, item, tries, ret, failures, cancelled>>
      /\ \/ wpc[w] = "start" /\ wpc' = [wpc EXCEPT ![w] = "idle"]
         \/ wpc[w] = "download" /\ wpc' = [wpc EXCEPT ![w] = "add"]
  BY DEF Begin, Download, Goto
<1>2. pc \in {"feed", "wait"} /\ ret[w] = None /\ ret[w] # "err" /\ wpc[w] # "off"
  BY <1>1, RunIsThere DEF Working
<1>3. TypeOK'
  BY <1>1 DEF ZipCore, TypeOK, Working, runVars, zipVars
<1>4. /\ wpc'[w] \in {"idle", "add"} /\ wpc'[w] \notin Returned /\ wpc'[w] # "off"
      /\ wpc'[w] \in Working <=> wpc[w] \in Working
      /\ \A v \in Workers \ {w} : wpc'[v] = wpc[v]
  BY <1>1 DEF ZipCore, TypeOK, Working, Returned
<1>5. wpc'[w] \in Working <=> item'[w] # None
  BY <1>1, <1>4 DEF ZipCore, OnePlace
<1>6. \A f \in Files : ~ (item[w] = f /\ item'[w] = None)
  BY <1>1, NoneAssumption
<1> QED
  BY <1>1, <1>2, <1>3, <1>4, <1>5, <1>6, ZipUntouched, GivenUpKept, WorkerMoves DEF ZipCore, WhyReturned

LEMMA ReturnKeeps ==
  ASSUME ZipCore, NEW w \in Workers, TempFails(w) \/ Leave(w)
  PROVE  ZipCore'
<1>1. PICK err \in {"nil", "err"} :
        /\ Return(w, err)
        /\ wpc[w] \in {"start", "download", "idle"}
        /\ err = "err" \/ cancelled \/ (pc = "wait" /\ queue = <<>>)
        /\ err = "nil" => wpc[w] = "idle"
  BY DEF TempFails, Leave
<1>2. pc \in {"feed", "wait"} /\ ret[w] = None /\ ret[w] # "err" /\ wpc[w] # "off"
  BY <1>1, RunIsThere DEF Working
<1>3. /\ UNCHANGED <<runVars, zipVars, queue, errC, cancelled, failures>>
      /\ wpc'[w] = "leaving" /\ item'[w] = None /\ ret'[w] = err
      /\ \A v \in Workers \ {w} : wpc'[v] = wpc[v] /\ item'[v] = item[v] /\ ret'[v] = ret[v]
  BY <1>1 DEF Return, Goto, ZipCore, TypeOK
<1>4. TypeOK'
  BY <1>1 DEF Return, Goto, ZipCore, TypeOK, Returned, MaxAttempts, runVars, zipVars
<1>5. \A f \in Files : item[w] = f => Explained(f)'
  <2>1. item[w] # None => err = "err"
    BY <1>1 DEF ZipCore, OnePlace, Working
  <2> QED
    BY <1>3, <2>1, NoneAssumption DEF Explained
<1> QED
  BY <1>1, <1>2, <1>3, <1>4, <1>5, ZipUntouched, GivenUpKept, WorkerMoves
     DEF ZipCore, WhyReturned, Working, Returned

LEMMA ReportKeeps ==
  ASSUME ZipCore, NEW w \in Workers, Report(w)
  PROVE  ZipCore'
<1>1. /\ UNCHANGED <<runVars, zipVars, queue, item, tries, ret, failures, cancelled>>
      /\ wpc[w] = "leaving" /\ wpc'[w] = "gone"
      /\ \A v \in Workers \ {w} : wpc'[v] = wpc[v]
      /\ errC' = IF errC = None THEN ret[w] ELSE errC
  BY DEF Report, Goto, ZipCore, TypeOK
<1>2. TypeOK'
  BY <1>1 DEF Report, Goto, ZipCore, TypeOK, Returned, runVars, zipVars
<1>3. /\ item[w] = None /\ wpc'[w] \notin Working /\ wpc'[w] \in Returned /\ wpc[w] \in Returned
  BY <1>1 DEF ZipCore, OnePlace, Working, Returned
<1>4. ret[w] = "err" \/ cancelled \/ (pc \in {"wait", "ok", "failed"} /\ queue = <<>>)
  BY <1>3 DEF ZipCore, WhyReturned
<1>5. /\ errC' = "err" => errC = "err" \/ ret'[w] = "err"
      /\ errC' = "nil" /\ pc = "feed" => cancelled
  BY <1>1, <1>4 DEF ZipCore, WhyReturned
<1>6. \A f \in Files : ~ (item[w] = f /\ item'[w] = None)
  BY <1>1, NoneAssumption
<1> QED
  BY <1>1, <1>2, <1>3, <1>4, <1>5, <1>6, ZipUntouched, GivenUpKept, WorkerMoves

\* What AttemptFails does with the file.
LEMMA AttemptFailsFacts ==
  ASSUME TypeOK, AttemptsCounted, NEW w \in Workers, AttemptFails(w), item[w] \in Files
  PROVE  /\ wpc' \in [Workers -> {"off", "start", "idle"} \cup Working \cup Returned]
         /\ item' \in [Workers -> Files \cup {None}]
         /\ tries' \in [Workers -> 0 .. MaxAttempts - 1]
         /\ failures' \in [Files -> 0 .. MaxAttempts] /\ GivenUp \subseteq GivenUp'
         /\ \A v \in Workers \ {w} : wpc'[v] = wpc[v] /\ item'[v] = item[v]
         /\ \/ wpc'[w] = "download" /\ item'[w] = item[w]
            \/ wpc'[w] = "idle" /\ item'[w] = None /\ item[w] \in GivenUp'
<1>1. tries[w] = failures[item[w]] /\ tries[w] \in 0 .. MaxAttempts - 1
  BY NoneAssumption DEF AttemptsCounted, TypeOK
<1>2. /\ failures' = [failures EXCEPT ![item[w]] = tries[w] + 1]
      /\ failures'[item[w]] = tries[w] + 1
      /\ \A f \in Files \ {item[w]} : failures'[f] = failures[f]
  BY <1>1 DEF AttemptFails, TypeOK
<1>3. failures' \in [Files -> 0 .. MaxAttempts] /\ GivenUp \subseteq GivenUp'
  BY <1>1, <1>2 DEF TypeOK, GivenUp, MaxAttempts
<1>4. CASE tries[w] + 1 < MaxAttempts
  BY <1>3, <1>4 DEF AttemptFails, Goto, TypeOK, Working, MaxAttempts
<1>5. CASE ~ (tries[w] + 1 < MaxAttempts)
  <2>1. /\ wpc' = [wpc EXCEPT ![w] = "idle"] /\ tries' = [tries EXCEPT ![w] = 0]
        /\ item' = [item EXCEPT ![w] = None]
    BY <1>5 DEF AttemptFails, Goto
  <2>2. tries' \in [Workers -> 0 .. MaxAttempts - 1]
    BY <2>1 DEF TypeOK, MaxAttempts
  <2>3. item[w] \in GivenUp'
    BY <1>1, <1>2, <1>5 DEF GivenUp, MaxAttempts
  <2> QED
    BY <1>3, <2>1, <2>2, <2>3 DEF TypeOK
<1> QED
  BY <1>4, <1>5

LEMMA DownloadFailsKeeps ==
  ASSUME ZipCore, AttemptsCounted, NEW w \in Workers, DownloadFails(w)
  PROVE  ZipCore'
<1>1. /\ UNCHANGED <<runVars, zipVars, queue, errC, ret, cancelled>>
      /\ wpc[w] = "download" /\ AttemptFails(w)
  BY DEF DownloadFails
<1>2. pc \in {"feed", "wait"} /\ ret[w] = None /\ ret[w] # "err" /\ wpc[w] # "off"
  BY <1>1, RunIsThere DEF Working
<1>3. item[w] # None /\ item[w] \in Files /\ TypeOK
  BY <1>1 DEF ZipCore, OnePlace, Working, TypeOK
<1>4. /\ wpc' \in [Workers -> {"off", "start", "idle"} \cup Working \cup Returned]
      /\ item' \in [Workers -> Files \cup {None}]
      /\ tries' \in [Workers -> 0 .. MaxAttempts - 1]
      /\ failures' \in [Files -> 0 .. MaxAttempts] /\ GivenUp \subseteq GivenUp'
      /\ \A v \in Workers \ {w} : wpc'[v] = wpc[v] /\ item'[v] = item[v]
      /\ \/ wpc'[w] = "download" /\ item'[w] = item[w]
         \/ wpc'[w] = "idle" /\ item'[w] = None /\ item[w] \in GivenUp'
  BY <1>1, <1>3, AttemptFailsFacts
<1>5. TypeOK'
  BY <1>1, <1>3, <1>4 DEF TypeOK, runVars, zipVars
<1>6. /\ \A f \in Files : item[w] = f /\ item'[w] = None => Explained(f)'
      /\ wpc'[w] \in Working <=> item'[w] # None
      /\ wpc'[w] \notin Returned /\ wpc'[w] # "off"
  BY <1>3, <1>4 DEF Explained, Working, Returned
<1> QED
  BY <1>1, <1>2, <1>4, <1>5, <1>6, ZipUntouched, GivenUpKept, WorkerMoves DEF ZipCore, WhyReturned

LEMMA AddDownloadKeeps ==
  ASSUME ZipCore, AttemptsCounted, NEW w \in Workers, AddDownload(w)
  PROVE  ZipCore'
<1>1. PICK fails \in BOOLEAN : AddFile(item[w], fails)
  BY DEF AddDownload, MayFail
<1>2. UNCHANGED <<runVars, queue, errC, ret, cancelled>> /\ wpc[w] = "add"
  BY DEF AddDownload
<1>3. pc \in {"feed", "wait"} /\ ret[w] = None /\ ret[w] # "err" /\ wpc[w] # "off"
  BY <1>2, RunIsThere DEF Working
<1>4. item[w] # None /\ item[w] \in Files /\ TypeOK
  BY <1>2 DEF ZipCore, OnePlace, Working, TypeOK
<1>5. ~ zerr => item[w] \notin Written
  <2>1. DOMAIN entries = 1..Len(entries)
    BY <1>4 DEF TypeOK
  <2>2. ~ zerr => \A k \in 1..Len(entries) : entries[k].file # item[w]
    BY <1>4 DEF ZipCore, OnePlace
  <2> QED
    BY <2>1, <2>2 DEF Written
<1>6. /\ entries' \in Seq(Entry) /\ total' \in Nat /\ zerr' \in BOOLEAN
      /\ zerr => zerr' /\ entries' = entries /\ total' = total
      /\ ~ zerr => /\ Len(entries') = Len(entries) + 1
                   /\ entries'[Len(entries) + 1].file = item[w]
                   /\ \A k \in 1..Len(entries) : entries'[k] = entries[k]
  BY <1>1, <1>4, AddFileFacts
<1>7. /\ EntriesDiffer' /\ WholeUnlessError' /\ Written \subseteq Written'
      /\ ~ zerr' => item[w] \in Written'
  BY <1>1, <1>4, <1>5, AddFileIsSound DEF ZipCore
<1>8. /\ wpc' \in [Workers -> {"off", "start", "idle"} \cup Working \cup Returned]
      /\ item' \in [Workers -> Files \cup {None}]
      /\ tries' \in [Workers -> 0 .. MaxAttempts - 1]
      /\ failures' \in [Files -> 0 .. MaxAttempts] /\ GivenUp \subseteq GivenUp'
      /\ \A v \in Workers \ {w} : wpc'[v] = wpc[v] /\ item'[v] = item[v]
      /\ \/ wpc'[w] = "download" /\ item'[w] = item[w] /\ zerr'
         \/ wpc'[w] = "idle" /\ item'[w] = None /\ (zerr' => item[w] \in GivenUp')
  <2>1. CASE zerr'
    <3>1. AttemptFails(w)
      BY <2>1 DEF AddDownload
    <3> QED
      BY <1>4, <2>1, <3>1, AttemptFailsFacts
  <2>2. CASE ~ zerr'
    <3>1. /\ wpc' = [wpc EXCEPT ![w] = "idle"] /\ item' = [item EXCEPT ![w] = None]
          /\ tries' = [tries EXCEPT ![w] = 0] /\ failures' = failures
      BY <2>2 DEF AddDownload, Goto
    <3> QED
      BY <1>4, <2>2, <3>1, GivenUpKept DEF TypeOK, MaxAttempts
  <2> QED
    BY <2>1, <2>2
<1>9. TypeOK'
  BY <1>2, <1>4, <1>6, <1>8 DEF TypeOK, Entry, runVars
<1>10. /\ \A f \in Files : item[w] = f /\ item'[w] = None => Explained(f)'
       /\ wpc'[w] \in Working <=> item'[w] # None
       /\ wpc'[w] \notin Returned /\ wpc'[w] # "off"
  BY <1>4, <1>7, <1>8 DEF Explained, Working, Returned
<1>11. ~ zerr' => ~ zerr /\ \A k \in 1..Len(entries') :
         \/ \E m \in 1..Len(entries) : entries'[k].file = entries[m].file
         \/ entries'[k].file = item[w] /\ item'[w] = None
  <2>1. SUFFICES ASSUME ~ zerr', NEW k \in 1..Len(entries')
                 PROVE  /\ ~ zerr
                        /\ \/ \E m \in 1..Len(entries) : entries'[k].file = entries[m].file
                           \/ entries'[k].file = item[w] /\ item'[w] = None
    BY <1>6
  <2>2. ~ zerr /\ item'[w] = None /\ (k = Len(entries) + 1 \/ k \in 1..Len(entries))
    BY <1>4, <1>6, <1>8, <2>1 DEF TypeOK
  <2> QED
    BY <1>6, <2>2
<1> QED
  BY <1>2, <1>3, <1>7, <1>8, <1>9, <1>10, <1>11, WorkerMoves DEF ZipCore, WhyReturned

LEMMA ReceiveKeeps ==
  ASSUME ZipCore, NEW w \in Workers, Receive(w)
  PROVE  ZipCore'
<1> DEFINE h == Head(queue)
<1>1. /\ UNCHANGED <<runVars, zipVars, errC, tries, ret, failures, cancelled>>
      /\ wpc[w] = "idle" /\ queue # <<>> /\ queue' = Tail(queue)
      /\ wpc' = [wpc EXCEPT ![w] = "download"] /\ item' = [item EXCEPT ![w] = h]
  BY DEF Receive, Goto
<1>2. pc \in {"feed", "wait"} /\ ret[w] = None /\ ret[w] # "err" /\ wpc[w] # "off"
  BY <1>1, RunIsThere
<1>3. item[w] = None /\ TypeOK /\ queue \in Seq(Files) /\ Len(queue) \in Nat /\ Len(queue) <= QueueCap
  <2>1. item[w] = None
    BY <1>1 DEF ZipCore, OnePlace, Working
  <2> QED
    BY <2>1 DEF ZipCore, TypeOK
<1>4. /\ Len(queue) >= 1 /\ h = queue[1] /\ h \in Files /\ h # None
      /\ queue' \in Seq(Files) /\ Len(queue') = Len(queue) - 1 /\ Len(queue') <= QueueCap
      /\ \A i \in 1..Len(queue') : queue'[i] = queue[i + 1] /\ i + 1 \in 1..Len(queue)
  BY <1>1, <1>3, NoneAssumption, QueueAssumption
<1>5. /\ wpc'[w] = "download" /\ item'[w] = h
      /\ \A v \in Workers \ {w} : wpc'[v] = wpc[v] /\ item'[v] = item[v]
  BY <1>1, <1>3 DEF TypeOK
<1>6. /\ InQueue(h)
      /\ \A f : (\E i \in 1..Len(queue') : queue'[i] = f) <=> InQueue(f) /\ f # h
  <2>1. InQueue(h)
    BY <1>4 DEF InQueue
  <2>2. ASSUME NEW f, NEW i \in 1..Len(queue'), queue'[i] = f PROVE InQueue(f) /\ f # h
    <3>1. i + 1 \in 1..Len(queue) /\ queue[i + 1] = f /\ 1 \in 1..Len(queue) /\ i + 1 # 1
      BY <1>3, <1>4, <2>2
    <3> QED
      BY <1>4, <3>1 DEF InQueue, ZipCore, OnePlace
  <2>3. ASSUME NEW f, InQueue(f), f # h PROVE \E i \in 1..Len(queue') : queue'[i] = f
    <3>1. PICK j \in 1..Len(queue) : queue[j] = f
      BY <2>3 DEF InQueue
    <3>2. j # 1 /\ j - 1 \in 1..Len(queue') /\ (j - 1) + 1 = j
      BY <1>3, <1>4, <2>3, <3>1
    <3> QED
      BY <1>4, <3>1, <3>2
  <2> QED
    BY <2>1, <2>2, <2>3
<1>7. TypeOK'
  BY <1>1, <1>3, <1>4 DEF TypeOK, Working, runVars, zipVars
<1>8. EntriesDiffer' /\ WholeUnlessError' /\ Written' = Written
  BY <1>1, ZipKept DEF ZipCore
<1>9. h < next
  BY <1>4 DEF ZipCore, OnePlace
<1>10. \A v \in Workers : item[v] # h
  BY <1>4, <1>6 DEF ZipCore, OnePlace
<1> HIDE DEF h
<1>11. OnePlace'
  <2>1. \A i, j \in 1..Len(queue') : queue'[i] = queue'[j] => i = j
    <3> SUFFICES ASSUME NEW i \in 1..Len(queue'), NEW j \in 1..Len(queue'), queue'[i] = queue'[j]
                 PROVE  i = j
      OBVIOUS
    <3>1. i + 1 = j + 1
      BY <1>4 DEF ZipCore, OnePlace
    <3> QED
      BY <1>3, <1>4, <3>1
  <2>2. \A i \in 1..Len(queue') : queue'[i] < next
    BY <1>4 DEF ZipCore, OnePlace
  <2>3. ASSUME NEW v \in Workers
        PROVE  /\ wpc'[v] \in Working <=> item'[v] # None
               /\ item'[v] # None =>
                    /\ item'[v] < next /\ ~ \E i \in 1..Len(queue') : queue'[i] = item'[v]
                    /\ \A u \in Workers : item'[u] = item'[v] => u = v
    <3>1. CASE v = w
      BY <1>4, <1>5, <1>6, <1>9, <1>10, <3>1 DEF Working
    <3>2. CASE v # w
      <4>1. wpc'[v] = wpc[v] /\ item'[v] = item[v] /\ item[v] # h
        BY <1>5, <1>10, <3>2
      <4> QED
        BY <1>5, <1>6, <4>1 DEF ZipCore, OnePlace
    <3> QED
      BY <3>1, <3>2
  <2>4. ASSUME ~ zerr, NEW k \in 1..Len(entries), entries[k].file \in Files
        PROVE  /\ entries[k].file < next
               /\ ~ \E i \in 1..Len(queue') : queue'[i] = entries[k].file
               /\ \A v \in Workers : item'[v] # entries[k].file
    <3>1. /\ entries[k].file < next /\ ~ InQueue(entries[k].file)
          /\ \A v \in Workers : item[v] # entries[k].file
      BY <2>4 DEF ZipCore, OnePlace
    <3> QED
      BY <1>5, <1>6, <3>1
  <2>5. next' = next /\ entries' = entries /\ zerr' = zerr
    BY <1>1 DEF runVars, zipVars
  <2> QED
    BY <2>1, <2>2, <2>3, <2>4, <2>5 DEF OnePlace, InQueue
<1>12. Phases'
  BY <1>1, <1>2, <1>5 DEF ZipCore, Phases, runVars, zipVars, NoneLeftBehind
<1>13. WhyReturned'
  BY <1>1, <1>2, <1>5 DEF ZipCore, WhyReturned, Returned, runVars
<1>14. Accounted' /\ MissingIsExplained'
  <2>1. (\A f : Explained(f) => Explained(f)') /\ MissingIsExplained' /\ next' = next
    BY <1>1, <1>8, ExplainedStays, GivenUpKept DEF ZipCore, runVars
  <2>2. ASSUME NEW f \in 1..(next - 1)
        PROVE  \/ Explained(f)' \/ \E i \in 1..Len(queue') : queue'[i] = f
               \/ \E v \in Workers : item'[v] = f
    <3>1. f # None
      BY NoneAssumption, FilesAssumption DEF ZipCore, TypeOK, Files
    <3>2. CASE f = h
      BY <1>5, <3>2
    <3>3. CASE f # h
      <4>1. \A v \in Workers : item[v] = f => item'[v] = f
        BY <1>3, <1>5, <3>1
      <4> QED
        BY <1>6, <2>1, <3>3, <4>1 DEF ZipCore, Accounted
    <3> QED
      BY <3>2, <3>3
  <2> QED
    BY <2>1, <2>2 DEF Accounted, InQueue
<1> QED
  BY <1>7, <1>8, <1>11, <1>12, <1>13, <1>14 DEF ZipCore

-----------------------------------------------------------------------------
(* Theorems.                                                               *)

LEMMA ZipStepCore == ZipInv /\ [Next]_vars => ZipCore'
<1> SUFFICES ASSUME ZipCore, AttemptsCounted, [Next]_vars PROVE ZipCore'
  BY DEF ZipInv
<1>1. CASE UNCHANGED vars
  <2>1. UNCHANGED <<pc, queued, taken, next, loopErr, zipVars, queue, errC, workVars, cancelled>>
    BY <1>1 DEF vars, runVars
  <2>2. TypeOK'
    BY <2>1 DEF ZipCore, TypeOK, zipVars, workVars
  <2>3. EntriesDiffer' /\ WholeUnlessError' /\ Written' = Written
    BY <2>1, ZipKept DEF ZipCore
  <2>4. OnePlace' /\ Phases' /\ WhyReturned'
    BY <2>1 DEF ZipCore, OnePlace, Phases, WhyReturned, NoneLeftBehind, InQueue, zipVars, workVars
  <2>5. Accounted' /\ MissingIsExplained'
    BY <2>1, <2>3, ExplainedStays, GivenUpKept DEF ZipCore, Accounted, InQueue, workVars
  <2> QED
    BY <2>2, <2>3, <2>4, <2>5 DEF ZipCore
<1>2. CASE Next
  BY <1>2, AddMemoryFileKeeps, CallerKeeps, SetupKeeps, SendKeeps, TakeErrKeeps,
     CloseQueueKeeps, FinishKeeps, BeginKeeps, ReturnKeeps, ReceiveKeeps,
     DownloadFailsKeeps, AddDownloadKeeps, ReportKeeps DEF Next, Run, Worker
<1> QED
  BY <1>1, <1>2

\* Only an attempt that fails changes the counts, its file's and its worker's.
LEMMA AttemptsStep == ZipInv /\ [Next]_vars => AttemptsCounted'
<1> SUFFICES ASSUME ZipCore, AttemptsCounted, [Next]_vars PROVE AttemptsCounted'
  BY DEF ZipInv
<1>0. /\ TypeOK /\ Files \subseteq Nat /\ None \notin Files /\ next \in Nat
      /\ \A w \in Workers : item[w] # None =>
           /\ item[w] \in Files /\ item[w] < next /\ ~ InQueue(item[w])
           /\ \A v \in Workers : item[v] = item[w] => v = w
  BY NoneAssumption DEF ZipCore, TypeOK, OnePlace, Files
<1>1. ASSUME UNCHANGED <<item, tries, failures>>, next' >= next,
             \A f \in Files : InQueue(f)' => InQueue(f) \/ f >= next
      PROVE  AttemptsCounted'
  <2>1. next' \in Nat
    BY ZipStepCore DEF ZipInv, ZipCore, TypeOK
  <2> QED
    BY <1>0, <1>1, <2>1 DEF AttemptsCounted
<1>2. CASE Send \/ TakeErr
  <2>1. /\ UNCHANGED <<item, tries, failures>> /\ next' >= next
        /\ queue' = queue \/ queue' = Append(queue, next)
    <3>1. CASE Send
      BY <1>0, <3>1 DEF Send, workVars
    <3>2. CASE TakeErr
      BY <1>0, <3>2 DEF TakeErr, workVars
    <3> QED
      BY <1>2, <3>1, <3>2
  <2>2. ASSUME NEW f, NEW i \in 1..Len(queue'), queue'[i] = f PROVE InQueue(f) \/ f = next
    <3>1. queue \in Seq(Files) /\ Len(queue) \in Nat
      BY <1>0 DEF TypeOK
    <3>2. CASE queue' = queue
      BY <2>2, <3>2 DEF InQueue
    <3>3. CASE queue' = Append(queue, next)
      <4>1. (i \in 1..Len(queue) /\ queue'[i] = queue[i]) \/ queue'[i] = next
        BY <2>2, <3>1, <3>3
      <4> QED
        BY <2>2, <4>1 DEF InQueue
    <3> QED
      BY <2>1, <3>2, <3>3
  <2>3. \A f \in Files : InQueue(f)' => InQueue(f) \/ f >= next
    BY <1>0, <2>2 DEF InQueue
  <2> QED
    BY <1>1, <2>1, <2>3
<1>3. CASE Setup \/ CloseQueue \/ Finish \/ AddRemoteFile \/ Cancel \/ UNCHANGED vars
           \/ \E f \in Memory : AddMemoryFile(f)
  <2>1. UNCHANGED <<item, tries, failures, next, queue>>
    BY <1>3 DEF Setup, CloseQueue, Finish, AddRemoteFile, Cancel, AddMemoryFile, vars,
                runVars, workVars
  <2>2. \A f \in Files : InQueue(f)' => InQueue(f)
    BY <2>1 DEF InQueue
  <2> QED
    BY <1>0, <1>1, <2>1, <2>2
<1>4. ASSUME NEW w \in Workers, Begin(w) \/ Download(w) \/ Report(w)
      PROVE  AttemptsCounted'
  <2>1. UNCHANGED <<item, tries, failures, next, queue>>
    BY <1>4 DEF Begin, Download, Report, runVars
  <2>2. \A f \in Files : InQueue(f)' => InQueue(f)
    BY <2>1 DEF InQueue
  <2> QED
    BY <1>0, <1>1, <2>1, <2>2
<1>5. ASSUME NEW w \in Workers, item' = [item EXCEPT ![w] = None],
             tries' = [tries EXCEPT ![w] = 0], UNCHANGED <<next, queue>>,
             \A f \in Files : failures'[f] = failures[f] \/ f = item[w]
      PROVE  AttemptsCounted'
  <2>1. \A f : InQueue(f)' <=> InQueue(f)
    BY <1>5 DEF InQueue
  <2>2. ASSUME NEW v \in Workers
        PROVE  tries'[v] = IF item'[v] = None THEN 0 ELSE failures'[item'[v]]
    <3>1. CASE v = w
      BY <1>0, <1>5, <3>1 DEF TypeOK
    <3>2. CASE v # w
      <4>1. tries'[v] = tries[v] /\ item'[v] = item[v]
        BY <1>0, <1>5, <3>2 DEF TypeOK
      <4>2. item[v] # None => item[v] \in Files /\ item[v] # item[w]
        BY <1>0, <3>2
      <4> QED
        BY <1>5, <4>1, <4>2 DEF AttemptsCounted
    <3> QED
      BY <3>1, <3>2
  <2>3. ASSUME NEW f \in Files, f >= next' \/ InQueue(f)' PROVE failures'[f] = 0
    <3>1. f # item[w] /\ (f >= next \/ InQueue(f))
      BY <1>0, <1>5, <2>1, <2>3
    <3> QED
      BY <1>5, <3>1 DEF AttemptsCounted
  <2> QED
    BY <2>2, <2>3 DEF AttemptsCounted
<1>6. ASSUME NEW w \in Workers, TempFails(w) \/ Leave(w)
      PROVE  AttemptsCounted'
  BY <1>5, <1>6 DEF TempFails, Leave, Return, runVars
<1>7. ASSUME NEW w \in Workers, AttemptFails(w), item[w] \in Files, UNCHANGED <<next, queue>>
      PROVE  AttemptsCounted'
  <2>0. failures[item[w]] = tries[w] /\ tries[w] \in Nat
    BY <1>0, <1>7 DEF AttemptsCounted, TypeOK, MaxAttempts
  <2>1. failures' = [failures EXCEPT ![item[w]] = tries[w] + 1]
    BY <1>7, <2>0 DEF AttemptFails
  <2>2. /\ failures'[item[w]] = tries[w] + 1
        /\ \A f \in Files \ {item[w]} : failures'[f] = failures[f]
    BY <1>0, <1>7, <2>1 DEF TypeOK
  <2>3. CASE ~ (tries[w] + 1 < MaxAttempts)
    BY <1>5, <1>7, <2>2, <2>3 DEF AttemptFails
  <2>4. CASE tries[w] + 1 < MaxAttempts
    <3>1. /\ item' = item /\ tries'[w] = tries[w] + 1
          /\ \A v \in Workers \ {w} : tries'[v] = tries[v]
      BY <1>0, <1>7, <2>4 DEF AttemptFails, TypeOK
    <3>2. \A f : InQueue(f)' <=> InQueue(f)
      BY <1>7 DEF InQueue
    <3>3. ASSUME NEW v \in Workers
          PROVE  tries'[v] = IF item'[v] = None THEN 0 ELSE failures'[item'[v]]
      <4>1. CASE v = w
        BY <1>0, <1>7, <2>2, <3>1, <4>1
      <4>2. CASE v # w
        <5>1. item[v] # None => item[v] \in Files /\ item[v] # item[w]
          BY <1>0, <4>2
        <5> QED
          BY <2>2, <3>1, <4>2, <5>1 DEF AttemptsCounted
      <4> QED
        BY <4>1, <4>2
    <3>4. ASSUME NEW f \in Files, f >= next' \/ InQueue(f)' PROVE failures'[f] = 0
      <4>1. f # item[w] /\ (f >= next \/ InQueue(f))
        BY <1>0, <1>7, <3>2, <3>4
      <4> QED
        BY <2>2, <4>1 DEF AttemptsCounted
    <3> QED
      BY <3>3, <3>4 DEF AttemptsCounted
  <2> QED
    BY <2>3, <2>4
<1>8. ASSUME NEW w \in Workers, DownloadFails(w) \/ AddDownload(w)
      PROVE  AttemptsCounted'
  <2>1. item[w] \in Files /\ UNCHANGED <<next, queue>>
    BY <1>8 DEF DownloadFails, AddDownload, ZipCore, OnePlace, Working, TypeOK, runVars
  <2>2. \/ AttemptFails(w)
        \/ /\ item' = [item EXCEPT ![w] = None] /\ tries' = [tries EXCEPT ![w] = 0]
           /\ failures' = failures
    BY <1>8 DEF DownloadFails, AddDownload
  <2> QED
    BY <1>5, <1>7, <2>1, <2>2
<1>9. ASSUME NEW w \in Workers, Receive(w)
      PROVE  AttemptsCounted'
  <2>1. /\ UNCHANGED <<next, tries, failures>> /\ wpc[w] = "idle"
        /\ queue # <<>> /\ queue' = Tail(queue) /\ item' = [item EXCEPT ![w] = Head(queue)]
    BY <1>9 DEF Receive, runVars
  <2>2. queue \in Seq(Files) /\ Len(queue) \in Nat /\ item[w] = None
    <3>1. queue \in Seq(Files)
      BY <1>0 DEF TypeOK
    <3>2. item[w] = None
      BY <2>1 DEF ZipCore, OnePlace, Working
    <3> QED
      BY <3>1, <3>2
  <2>3. /\ Head(queue) = queue[1] /\ queue[1] \in Files /\ 1 \in 1..Len(queue)
        /\ \A i \in 1..Len(queue') : queue'[i] = queue[i + 1] /\ i + 1 \in 1..Len(queue)
    BY <2>1, <2>2
  <2>4. /\ \A f : InQueue(f)' => InQueue(f)
        /\ failures[queue[1]] = 0 /\ tries[w] = 0
    BY <2>2, <2>3 DEF InQueue, AttemptsCounted
  <2>5. item'[w] = queue[1] /\ \A v \in Workers \ {w} : item'[v] = item[v]
    BY <1>0, <2>1, <2>3 DEF TypeOK
  <2>6. ASSUME NEW v \in Workers
        PROVE  tries'[v] = IF item'[v] = None THEN 0 ELSE failures'[item'[v]]
    <3>1. CASE v = w
      BY <1>0, <2>1, <2>3, <2>4, <2>5, <3>1
    <3>2. CASE v # w
      BY <2>1, <2>5, <3>2 DEF AttemptsCounted
    <3> QED
      BY <3>1, <3>2
  <2> QED
    BY <2>1, <2>4, <2>6 DEF AttemptsCounted
<1> QED
  BY <1>2, <1>3, <1>4, <1>6, <1>8, <1>9 DEF Next, Run, Worker

LEMMA ZipStepInv == ZipInv /\ [Next]_vars => ZipInv'
BY ZipStepCore, AttemptsStep DEF ZipInv

\* The variables keep their types: files queue in order, no worker makes an
\* attempt too many, and the size written stays a size (Run and worker).
THEOREM ZipTypeCorrect == Spec => []TypeOK
<1>1. Init => ZipInv
  BY ZipInitInv
<1>2. ZipInv /\ [Next]_vars => ZipInv'
  BY ZipStepInv
<1>3. ZipInv => TypeOK
  BY DEF ZipInv, ZipCore
<1> QED
  BY <1>1, <1>2, <1>3, PTL DEF Spec

\* A zip that is returned holds no file twice and none cut short, and keeps to
\* the limits (copyWithLimitUnsafe, addFileUnsafe).
THEOREM ZipIsSound == Spec => []ReturnedZipIsSound
<1>1. Init => ZipInv
  BY ZipInitInv
<1>2. ZipInv /\ [Next]_vars => ZipInv'
  BY ZipStepInv
<1>3. ZipInv => ReturnedZipIsSound
  <2> SUFFICES ASSUME ZipInv, pc = "ok" PROVE ReturnedZipIsSound
    BY DEF ReturnedZipIsSound
  <2>1. ~ zerr /\ DOMAIN entries = 1..Len(entries)
    BY DEF ZipInv, ZipCore, Phases, TypeOK
  <2> QED
    BY <2>1 DEF ZipInv, ZipCore, EntriesDiffer, WholeUnlessError, ReturnedZipIsSound
<1> QED
  BY <1>1, <1>2, <1>3, PTL DEF Spec

\* No file is missing from a returned zip without a reason: the queue, the
\* workers and the two uses of errC lose none silently (Run and worker).
THEOREM ZipMissingExplained == Spec => []MissingIsExplained
<1>1. Init => ZipInv
  BY ZipInitInv
<1>2. ZipInv /\ [Next]_vars => ZipInv'
  BY ZipStepInv
<1>3. ZipInv => MissingIsExplained
  BY DEF ZipInv, ZipCore
<1> QED
  BY <1>1, <1>2, <1>3, PTL DEF Spec

-----------------------------------------------------------------------------
(* Run comes to its end: something can always go on, and every step uses   *)
(* up a part of what is left to do.                                        *)

\* A guard of Run or of a worker holds.
CanGoOn ==
  \/ pc = "feed" /\ (next > taken \/ loopErr \/ Len(queue) < QueueCap \/ errC # None)
  \/ pc = "wait" /\ \A w \in Workers : wpc[w] \in Returned
  \/ \E w \in Workers :
       \/ wpc[w] \in {"start", "leaving"} \cup Working
       \/ wpc[w] = "idle" /\ (queue # <<>> \/ cancelled \/ pc = "wait")

\* The one state in which Run waits for ever: cancelled, with a full queue.
Abandoned ==
  /\ pc = "feed" /\ cancelled /\ Len(queue) = QueueCap
  /\ \A w \in Workers : wpc[w] = "gone"

NeverStuck == pc \in {"feed", "wait"} => CanGoOn \/ Abandoned

\* While files are handed out, a worker that has gone has left its word.
GoneReported ==
  pc = "feed" =>
    \A w \in Workers : wpc[w] = "gone" => errC # None \/ loopErr \/ cancelled

LEMMA GoneReportedStep == ZipInv /\ GoneReported /\ [Next]_vars => GoneReported'
<1> SUFFICES ASSUME ZipInv, GoneReported, [Next]_vars, pc' = "feed"
             PROVE  \A w \in Workers :
                      wpc'[w] = "gone" => errC' # None \/ loopErr' \/ cancelled'
  BY DEF GoneReported
<1>1. CASE Setup
  BY <1>1 DEF Setup, ZipInv, ZipCore, Phases
<1>2. CASE Send
  BY <1>2 DEF Send, workVars, GoneReported
<1>3. CASE TakeErr
  <2>1. errC = "err" \/ cancelled
    BY <1>3 DEF TakeErr, ZipInv, ZipCore, TypeOK, WhyReturned
  <2> QED
    BY <1>3, <2>1 DEF TakeErr, DiskCheck
<1>4. ASSUME NEW w \in Workers, Report(w)
      PROVE  errC' # None \/ cancelled'
  <2>1. wpc[w] \in Returned /\ pc = "feed" /\ cancelled' = cancelled
    BY <1>4 DEF Report, Returned, runVars
  <2>2. ret[w] = "err" \/ cancelled
    BY <2>1 DEF ZipInv, ZipCore, WhyReturned
  <2> QED
    BY <1>4, <2>1, <2>2, NoneAssumption DEF Report
<1>5. ASSUME NEW w \in Workers, Worker(w), ~ Report(w)
      PROVE  /\ \A v \in Workers : wpc'[v] = "gone" => wpc[v] = "gone"
             /\ UNCHANGED <<runVars, errC, cancelled>>
  <2>1. CASE Begin(w) \/ TempFails(w) \/ Receive(w) \/ Leave(w) \/ Download(w)
    BY <2>1 DEF Begin, TempFails, Receive, Leave, Return, Download, Goto, ZipInv, ZipCore, TypeOK
  <2>2. CASE DownloadFails(w) \/ AddDownload(w)
    <3>1. \E label : label # "gone" /\ wpc' = [wpc EXCEPT ![w] = label]
      BY <2>2 DEF DownloadFails, AddDownload, AttemptFails, Goto
    <3> QED
      BY <2>2, <3>1 DEF DownloadFails, AddDownload, ZipInv, ZipCore, TypeOK
  <2> QED
    BY <1>5, <2>1, <2>2 DEF Worker
<1>6. CASE AddRemoteFile \/ Cancel \/ (\E f \in Memory : AddMemoryFile(f)) \/ UNCHANGED vars
  BY <1>6 DEF AddRemoteFile, Cancel, AddMemoryFile, vars, runVars, workVars, GoneReported
<1>7. CASE CloseQueue \/ Finish
  BY <1>7 DEF CloseQueue, Finish
<1> QED
  BY <1>1, <1>2, <1>3, <1>4, <1>5, <1>6, <1>7 DEF Next, Run, runVars, GoneReported

\* Run, its workers, their channels and their errors block one another in one
\* state only, which needs a context that is cancelled while the queue is full:
\* the safety half of RunReturns.
THEOREM ZipNeverStuck == Spec => []NeverStuck
<1>1. Init => ZipInv /\ GoneReported
  BY ZipInitInv DEF Init, GoneReported
<1>2. ZipInv /\ GoneReported /\ [Next]_vars => ZipInv' /\ GoneReported'
  BY ZipStepInv, GoneReportedStep
<1>3. ZipInv /\ GoneReported => NeverStuck
  <2> SUFFICES ASSUME ZipInv, GoneReported, pc \in {"feed", "wait"}, ~ CanGoOn
               PROVE  Abandoned
    BY DEF NeverStuck
  <2>1. \A w \in Workers :
          wpc[w] \in {"idle", "gone"} /\ (wpc[w] = "idle" => queue = <<>> /\ ~ cancelled)
    BY DEF CanGoOn, ZipInv, ZipCore, Phases, TypeOK, Returned
  <2>2. pc = "feed" /\ Len(queue) = QueueCap /\ errC = None /\ ~ loopErr
    BY <2>1, QueueAssumption DEF CanGoOn, ZipInv, ZipCore, TypeOK, Returned
  <2>3. queue # <<>>
    BY <2>2, QueueAssumption
  <2>4. \A w \in Workers : wpc[w] = "gone"
    BY <2>1, <2>3
  <2> QED
    BY <2>2, <2>4, WorkersAssumption DEF Abandoned, GoneReported
<1> QED
  BY <1>1, <1>2, <1>3, PTL DEF Spec

\* The stages a file has still to go through: to be handed out, to be received,
\* and two attempts of a download and an addition each.
Rank(w) == 2 * (1 - tries[w]) + (IF wpc[w] = "download" THEN 1 ELSE 0)
Holds(w, t) == item[w] = t[1] /\ t[2] <= Rank(w)
IsLeft(t) ==
  \/ t[1] >= next
  \/ t[2] <= 4 /\ InQueue(t[1])
  \/ \E w \in Workers : Holds(w, t)
FileLeft == {t \in Files \X (0 .. 5) : IsLeft(t)}

\* Those of a worker: to begin, to return and to report.
StagesOf(w) ==
  IF wpc[w] = "start" THEN 3
  ELSE IF wpc[w] = "leaving" THEN 1
  ELSE IF wpc[w] = "gone" THEN 0
  ELSE 2
WorkerLeft == {t \in Workers \X (1 .. 3) : t[2] <= StagesOf(t[1])}

\* Those of Run: to close the queue and to finish.
RunLeft ==
  IF pc = "feed" THEN {"close", "finish"} ELSE IF pc = "wait" THEN {"finish"} ELSE {}

LeftToDo == Cardinality(FileLeft) + Cardinality(WorkerLeft) + Cardinality(RunLeft)

StepsOn == Run \/ \E w \in Workers : Worker(w)

\* A step of Run or of a worker leaves less to do; no other step adds to it.
Proceeds ==
  /\ LeftToDo \in Nat
  /\ pc \in {"feed", "wait"} =>
       IF StepsOn THEN LeftToDo' < LeftToDo ELSE LeftToDo' = LeftToDo

LEMMA LeftIsFinite ==
  ASSUME IsFiniteSet(Workers)
  PROVE  /\ IsFiniteSet(FileLeft) /\ IsFiniteSet(WorkerLeft) /\ IsFiniteSet(RunLeft)
         /\ Cardinality(FileLeft) \in Nat /\ Cardinality(WorkerLeft) \in Nat
         /\ Cardinality(RunLeft) \in Nat
<1>1. IsFiniteSet(Files) /\ IsFiniteSet(0 .. 5) /\ IsFiniteSet(1 .. 3)
  <2>1. \A n \in Int : IsFiniteSet(0 .. n) /\ IsFiniteSet(1 .. n)
    BY FS_Interval
  <2>2. NFiles \in Int /\ 3 \in Int /\ 5 \in Int
    BY FilesAssumption
  <2> QED
    BY <2>1, <2>2, Zenon DEF Files
<1>2. IsFiniteSet(Files \X (0 .. 5)) /\ IsFiniteSet(Workers \X (1 .. 3))
  BY <1>1, FS_Product
<1>3. FileLeft \in SUBSET (Files \X (0 .. 5)) /\ WorkerLeft \in SUBSET (Workers \X (1 .. 3))
  BY DEF FileLeft, WorkerLeft
<1>4. IsFiniteSet(FileLeft) /\ IsFiniteSet(WorkerLeft)
  BY <1>2, <1>3, FS_Subset
<1>5. IsFiniteSet({"close", "finish"})
  <2>1. IsFiniteSet({"close"}) /\ {"close", "finish"} = {"close"} \cup {"finish"}
    BY FS_Singleton
  <2> QED
    BY <2>1, FS_AddElement
<1>6. RunLeft \in SUBSET {"close", "finish"}
  BY DEF RunLeft
<1>7. IsFiniteSet(RunLeft)
  BY <1>5, <1>6, FS_Subset
<1> QED
  BY <1>4, <1>7, FS_CardinalityType

NoMore == FileLeft' \subseteq FileLeft /\ WorkerLeft' \subseteq WorkerLeft /\ RunLeft' \subseteq RunLeft
Less == NoMore /\ (FileLeft' # FileLeft \/ WorkerLeft' # WorkerLeft \/ RunLeft' # RunLeft)

LEMMA SmallerSet ==
  ASSUME NEW S, IsFiniteSet(S), NEW T \in SUBSET S
  PROVE  /\ Cardinality(T) \in Nat /\ Cardinality(S) \in Nat /\ Cardinality(T) <= Cardinality(S)
         /\ T # S => Cardinality(T) < Cardinality(S)
<1>1. IsFiniteSet(T) /\ Cardinality(T) <= Cardinality(S) /\ (Cardinality(S) = Cardinality(T) => S = T)
  BY FS_Subset
<1>2. Cardinality(T) \in Nat /\ Cardinality(S) \in Nat
  BY <1>1, FS_CardinalityType
<1> QED
  BY <1>1, <1>2

LEMMA LessIsLess == IsFiniteSet(Workers) /\ Less => LeftToDo' < LeftToDo
<1> SUFFICES ASSUME IsFiniteSet(Workers), Less PROVE LeftToDo' < LeftToDo
  OBVIOUS
<1>1. IsFiniteSet(FileLeft) /\ IsFiniteSet(WorkerLeft) /\ IsFiniteSet(RunLeft)
  BY LeftIsFinite
<1>2. /\ Cardinality(FileLeft') \in Nat /\ Cardinality(FileLeft) \in Nat
      /\ Cardinality(FileLeft') <= Cardinality(FileLeft)
      /\ FileLeft' # FileLeft => Cardinality(FileLeft') < Cardinality(FileLeft)
  BY <1>1, SmallerSet DEF Less, NoMore
<1>3. /\ Cardinality(WorkerLeft') \in Nat /\ Cardinality(WorkerLeft) \in Nat
      /\ Cardinality(WorkerLeft') <= Cardinality(WorkerLeft)
      /\ WorkerLeft' # WorkerLeft => Cardinality(WorkerLeft') < Cardinality(WorkerLeft)
  BY <1>1, SmallerSet DEF Less, NoMore
<1>4. /\ Cardinality(RunLeft') \in Nat /\ Cardinality(RunLeft) \in Nat
      /\ Cardinality(RunLeft') <= Cardinality(RunLeft)
      /\ RunLeft' # RunLeft => Cardinality(RunLeft') < Cardinality(RunLeft)
  BY <1>1, SmallerSet DEF Less, NoMore
<1>5. FileLeft' # FileLeft \/ WorkerLeft' # WorkerLeft \/ RunLeft' # RunLeft
  BY DEF Less
<1> QED
  BY <1>2, <1>3, <1>4, <1>5 DEF LeftToDo

\* A worker that has moved, and the file it has or had.
LEMMA WorkerLess ==
  ASSUME TypeOK, TypeOK', NEW w \in Workers, \A v \in Workers \ {w} : wpc'[v] = wpc[v],
         StagesOf(w)' <= StagesOf(w)
  PROVE  /\ WorkerLeft' \subseteq WorkerLeft
         /\ StagesOf(w)' < StagesOf(w) => WorkerLeft' # WorkerLeft
<1>1. \A v \in Workers \ {w} : StagesOf(v)' = StagesOf(v)
  BY DEF StagesOf
<1>2. StagesOf(w) \in 0 .. 3 /\ StagesOf(w)' \in 0 .. 3
  BY DEF StagesOf
<1>3. ASSUME NEW t \in WorkerLeft' PROVE t \in WorkerLeft
  <2>1. t \in Workers \X (1 .. 3) /\ t[1] \in Workers /\ t[2] \in 1 .. 3 /\ t[2] <= StagesOf(t[1])'
    BY <1>3 DEF WorkerLeft
  <2>2. StagesOf(t[1])' <= StagesOf(t[1])
    <3>1. CASE t[1] = w
      BY <3>1
    <3>2. CASE t[1] # w
      <4>1. StagesOf(t[1])' = StagesOf(t[1])
        BY <1>1, <2>1, <3>2
      <4>2. StagesOf(t[1]) \in Int
        BY DEF StagesOf
      <4> QED
        BY <4>1, <4>2
    <3> QED
      BY <3>1, <3>2
  <2>3. StagesOf(t[1])' \in Int /\ StagesOf(t[1]) \in Int
    BY DEF StagesOf
  <2> QED
    BY <2>1, <2>2, <2>3 DEF WorkerLeft
<1>4. ASSUME StagesOf(w)' < StagesOf(w) PROVE WorkerLeft' # WorkerLeft
  <2> DEFINE t == <<w, StagesOf(w)>>
  <2>1. t \in Workers \X (1 .. 3) /\ t[1] = w /\ t[2] = StagesOf(w)
    BY <1>2, <1>4
  <2>2. t \in WorkerLeft
    BY <1>2, <2>1 DEF WorkerLeft
  <2>3. t \notin WorkerLeft'
    BY <1>2, <1>4, <2>1 DEF WorkerLeft
  <2> QED
    BY <2>2, <2>3
<1> QED
  BY <1>3, <1>4

LEMMA FileLess ==
  ASSUME ZipInv, TypeOK', NEW w \in Workers, UNCHANGED <<next, queue>>,
         \A v \in Workers \ {w} : item'[v] = item[v] /\ Rank(v)' = Rank(v),
         item'[w] # None => item'[w] = item[w] /\ Rank(w)' <= Rank(w)
  PROVE  /\ FileLeft' \subseteq FileLeft
         /\ item[w] # None /\ (item'[w] # None => Rank(w)' < Rank(w)) => FileLeft' # FileLeft
<1>1. \A v \in Workers : Rank(v) \in 0 .. 3 /\ Rank(v)' \in 0 .. 3
  BY DEF Rank, ZipInv, ZipCore, TypeOK, MaxAttempts
<1>2. \A f : InQueue(f)' <=> InQueue(f)
  BY DEF InQueue
<1>3. ASSUME NEW t \in Files \X (0 .. 5), IsLeft(t)' PROVE IsLeft(t)
  <2>0. t[1] # None /\ t[2] \in 0 .. 5
    BY NoneAssumption
  <2>1. CASE t[1] >= next' \/ (t[2] <= 4 /\ InQueue(t[1])')
    BY <1>2, <2>1 DEF IsLeft
  <2>2. ASSUME NEW v \in Workers, Holds(v, t)' PROVE Holds(v, t)
    BY <1>1, <2>0, <2>2 DEF Holds
  <2> QED
    BY <1>3, <2>1, <2>2 DEF IsLeft
<1>4. ASSUME item[w] # None, item'[w] # None => Rank(w)' < Rank(w) PROVE FileLeft' # FileLeft
  <2> PICK t : t = <<item[w], Rank(w)>>
    OBVIOUS
  <2>1. item[w] \in Files
    BY <1>4 DEF ZipInv, ZipCore, TypeOK
  <2>2. t \in Files \X (0 .. 5) /\ t[1] = item[w] /\ t[2] = Rank(w)
    BY <1>1, <2>1
  <2>3. t \in FileLeft
    BY <1>1, <2>2 DEF FileLeft, IsLeft, Holds
  <2>4. /\ item[w] < next /\ ~ InQueue(item[w])
        /\ \A v \in Workers : item[v] = item[w] => v = w
    BY <1>4 DEF ZipInv, ZipCore, OnePlace
  <2>5. ~ (t[1] >= next') /\ ~ InQueue(t[1])'
    BY <1>2, <2>1, <2>2, <2>4 DEF ZipInv, ZipCore, TypeOK, Files
  <2>6. ASSUME NEW v \in Workers PROVE ~ Holds(v, t)'
    <3>1. CASE v = w
      BY <1>1, <1>4, <2>2, <3>1 DEF Holds
    <3>2. CASE v # w
      BY <2>2, <2>4, <3>2 DEF Holds
    <3> QED
      BY <3>1, <3>2
  <2>7. t \notin FileLeft'
    BY <2>5, <2>6 DEF FileLeft, IsLeft
  <2> QED
    BY <2>3, <2>7
<1> QED
  BY <1>3, <1>4 DEF FileLeft

LEMMA FileSame ==
  ASSUME UNCHANGED <<next, queue, item, tries, wpc>>
  PROVE  FileLeft' = FileLeft /\ WorkerLeft' = WorkerLeft
<1>1. \A f : InQueue(f)' <=> InQueue(f)
  BY DEF InQueue
<1>2. \A v, t : Holds(v, t)' <=> Holds(v, t)
  BY DEF Holds, Rank
<1>3. \A t : IsLeft(t)' <=> IsLeft(t)
  BY <1>1, <1>2 DEF IsLeft
<1> QED
  BY <1>3 DEF FileLeft, WorkerLeft, StagesOf

\* Handing out a file takes its first stage from it, and a turn that takes a
\* worker's word takes all of them.
LEMMA SendLess == ZipInv /\ TypeOK' /\ (Send \/ TakeErr) => Less
<1> SUFFICES ASSUME ZipInv, TypeOK', Send \/ TakeErr PROVE Less
  OBVIOUS
<1>1. /\ pc = "feed" /\ pc' = pc /\ next <= taken /\ next' = next + 1
      /\ UNCHANGED <<item, tries, wpc>>
      /\ queue' = Append(queue, next) \/ queue' = queue
  BY DEF Send, TakeErr, workVars
<1>2. next \in Files /\ next \in Nat /\ queue \in Seq(Files) /\ Len(queue) \in Nat
  BY <1>1, FilesAssumption DEF ZipInv, ZipCore, TypeOK, Files
<1>3. \A f : InQueue(f)' => InQueue(f) \/ f = next
  <2>1. ASSUME NEW f, NEW i \in 1..Len(queue'), queue'[i] = f PROVE InQueue(f) \/ f = next
    <3>1. CASE queue' = queue
      BY <2>1, <3>1 DEF InQueue
    <3>2. CASE queue' = Append(queue, next)
      <4>1. (i \in 1..Len(queue) /\ queue'[i] = queue[i]) \/ queue'[i] = next
        BY <1>2, <2>1, <3>2
      <4> QED
        BY <2>1, <4>1 DEF InQueue
    <3> QED
      BY <1>1, <3>1, <3>2
  <2> QED
    BY <2>1 DEF InQueue
<1>4. \A v, t : Holds(v, t)' <=> Holds(v, t)
  BY <1>1 DEF Holds, Rank
<1>5. ASSUME NEW t \in Files \X (0 .. 5), IsLeft(t)' PROVE IsLeft(t)
  <2>1. t[1] \in Nat /\ t[1] \in Files
    BY DEF Files
  <2> QED
    BY <1>1, <1>2, <1>3, <1>4, <1>5, <2>1 DEF IsLeft
<1> DEFINE t == <<next, 5>>
<1>6. t \in FileLeft
  <2>1. t \in Files \X (0 .. 5) /\ t[1] = next /\ t[2] = 5
    BY <1>2
  <2> QED
    BY <1>2, <2>1 DEF FileLeft, IsLeft
<1>7. t \notin FileLeft'
  <2> SUFFICES ASSUME NEW s, s = <<next, 5>> PROVE ~ IsLeft(s)'
    BY DEF FileLeft
  <2>1. s[1] = next /\ s[2] = 5
    OBVIOUS
  <2>2. \A v \in Workers : ~ Holds(v, s)
    <3>1. \A v \in Workers : item[v] # None => item[v] < next
      BY DEF ZipInv, ZipCore, OnePlace
    <3> QED
      BY <1>2, <2>1, <3>1, NoneAssumption DEF Holds
  <2> QED
    BY <1>1, <1>2, <1>4, <2>1, <2>2 DEF IsLeft
<1>8. WorkerLeft' = WorkerLeft /\ RunLeft' = RunLeft
  BY <1>1 DEF WorkerLeft, StagesOf, RunLeft
<1> QED
  BY <1>5, <1>6, <1>7, <1>8 DEF Less, NoMore, FileLeft

LEMMA ReceiveLess ==
  ASSUME ZipInv, TypeOK', NEW w \in Workers, Receive(w), pc \in {"feed", "wait"}
  PROVE  Less
<1>1. /\ wpc[w] = "idle" /\ queue # <<>> /\ queue' = Tail(queue) /\ TypeOK
      /\ UNCHANGED <<pc, next, tries>>
      /\ wpc' = [wpc EXCEPT ![w] = "download"] /\ item' = [item EXCEPT ![w] = Head(queue)]
  BY DEF Receive, Goto, runVars, ZipInv, ZipCore
<1>2. /\ wpc'[w] = "download" /\ item'[w] = Head(queue)
      /\ \A v \in Workers \ {w} : wpc'[v] = wpc[v] /\ item'[v] = item[v]
  BY <1>1 DEF TypeOK
<1>3. /\ queue \in Seq(Files) /\ Len(queue) \in Nat /\ Len(queue) >= 1 /\ Head(queue) = queue[1]
      /\ 1 \in 1..Len(queue) /\ queue[1] \in Files
      /\ Len(queue') = Len(queue) - 1
      /\ \A i \in 1..Len(queue') : queue'[i] = queue[i + 1] /\ i + 1 \in 1..Len(queue) /\ i + 1 # 1
  <2>1. queue \in Seq(Files)
    BY <1>1 DEF TypeOK
  <2> QED
    BY <1>1, <2>1
<1>4. /\ InQueue(queue[1]) /\ queue[1] < next
      /\ \A v \in Workers : item[v] # queue[1]
  <2>1. InQueue(queue[1])
    BY <1>3 DEF InQueue
  <2> QED
    BY <1>3, <2>1, NoneAssumption DEF ZipInv, ZipCore, OnePlace
<1>5. \A f : InQueue(f)' => InQueue(f) /\ f # queue[1]
  <2>1. ASSUME NEW f, NEW i \in 1..Len(queue'), queue'[i] = f PROVE InQueue(f) /\ f # queue[1]
    <3>1. i + 1 \in 1..Len(queue) /\ queue[i + 1] = f /\ i + 1 # 1
      BY <1>3, <2>1
    <3> QED
      BY <1>3, <3>1 DEF InQueue, ZipInv, ZipCore, OnePlace
  <2> QED
    BY <2>1 DEF InQueue
<1>6. \A v \in Workers : Rank(v)' \in 0 .. 3
  BY DEF Rank, TypeOK, MaxAttempts
<1>7. \A v \in Workers \ {w} : \A t : Holds(v, t)' <=> Holds(v, t)
  BY <1>1, <1>2 DEF Holds, Rank
<1>8. ASSUME NEW t \in Files \X (0 .. 5), IsLeft(t)' PROVE IsLeft(t)
  <2>1. CASE Holds(w, t)'
    <3>1. t[1] = queue[1] /\ t[2] <= Rank(w)' /\ t[2] \in 0 .. 5
      BY <1>2, <1>3, <2>1 DEF Holds
    <3>2. t[2] <= 4
      BY <1>6, <3>1
    <3> QED
      BY <1>4, <3>1, <3>2 DEF IsLeft
  <2>2. CASE ~ Holds(w, t)'
    <3>1. CASE \E v \in Workers \ {w} : Holds(v, t)'
      BY <1>7, <3>1 DEF IsLeft
    <3>2. CASE t[1] >= next' \/ (t[2] <= 4 /\ InQueue(t[1])')
      BY <1>1, <1>5, <3>2 DEF IsLeft
    <3> QED
      BY <1>8, <2>2, <3>1, <3>2 DEF IsLeft
  <2> QED
    BY <2>1, <2>2
<1> PICK s : s = <<queue[1], 4>>
  OBVIOUS
<1>9. s \in Files \X (0 .. 5) /\ s[1] = queue[1] /\ s[2] = 4
  BY <1>3
<1>10. s \in FileLeft
  BY <1>4, <1>9 DEF FileLeft, IsLeft
<1>11. s \notin FileLeft'
  <2>1. ~ (s[1] >= next')
    BY <1>1, <1>3, <1>4, <1>9 DEF TypeOK, Files
  <2>2. \A v \in Workers : ~ Holds(v, s)'
    <3>1. ~ Holds(w, s)'
      BY <1>6, <1>9 DEF Holds
    <3>2. \A v \in Workers : ~ Holds(v, s)
      BY <1>4, <1>9 DEF Holds
    <3> QED
      BY <1>7, <3>1, <3>2
  <2> QED
    BY <1>5, <1>9, <2>1, <2>2 DEF FileLeft, IsLeft
<1>12. WorkerLeft' \subseteq WorkerLeft
  <2>1. StagesOf(w)' <= StagesOf(w)
    BY <1>1, <1>2 DEF StagesOf
  <2> QED
    BY <1>1, <1>2, <2>1, WorkerLess
<1> QED
  BY <1>1, <1>8, <1>10, <1>11, <1>12 DEF Less, NoMore, FileLeft, RunLeft

\* A worker that begins, returns or reports has one stage less; a file it had is dropped.
LEMMA StageLess ==
  ASSUME ZipInv, TypeOK', NEW w \in Workers, Begin(w) \/ TempFails(w) \/ Leave(w) \/ Report(w)
  PROVE  Less
<1>1. /\ UNCHANGED <<pc, next, queue>> /\ TypeOK
      /\ item' = [item EXCEPT ![w] = item'[w]] /\ tries' = [tries EXCEPT ![w] = tries'[w]]
      /\ item'[w] # None => item'[w] = item[w] /\ tries'[w] = tries[w]
      /\ \/ wpc[w] = "start" /\ wpc' = [wpc EXCEPT ![w] = "idle"]
         \/ wpc[w] \in {"start", "idle", "download"} /\ wpc' = [wpc EXCEPT ![w] = "leaving"]
         \/ wpc[w] = "leaving" /\ wpc' = [wpc EXCEPT ![w] = "gone"]
  BY DEF Begin, TempFails, Leave, Report, Return, Goto, runVars, ZipInv, ZipCore, TypeOK
<1>2. /\ \A v \in Workers \ {w} : wpc'[v] = wpc[v] /\ item'[v] = item[v] /\ tries'[v] = tries[v]
      /\ StagesOf(w)' < StagesOf(w) /\ StagesOf(w)' <= StagesOf(w)
      /\ wpc[w] # "download" => wpc'[w] # "download"
  BY <1>1 DEF TypeOK, StagesOf
<1>3. \A v \in Workers \ {w} : item'[v] = item[v] /\ Rank(v)' = Rank(v)
  BY <1>2 DEF Rank
<1>4. item'[w] # None => item'[w] = item[w] /\ Rank(w)' <= Rank(w)
  BY <1>1, <1>2 DEF Rank, TypeOK, MaxAttempts
<1>5. WorkerLeft' \subseteq WorkerLeft /\ WorkerLeft' # WorkerLeft
  BY <1>1, <1>2, WorkerLess
<1>6. FileLeft' \subseteq FileLeft
  BY <1>1, <1>3, <1>4, FileLess
<1> QED
  BY <1>1, <1>5, <1>6 DEF Less, NoMore, RunLeft

\* An attempt, whether it succeeds or fails, takes a stage of the worker's file.
LEMMA AttemptLess ==
  ASSUME ZipInv, TypeOK', NEW w \in Workers, Download(w) \/ DownloadFails(w) \/ AddDownload(w)
  PROVE  Less
<1>1. /\ UNCHANGED <<pc, next, queue>> /\ TypeOK /\ wpc[w] \in Working
      /\ \/ /\ wpc[w] = "download" /\ wpc' = [wpc EXCEPT ![w] = "add"]
            /\ UNCHANGED <<item, tries>>
         \/ /\ wpc' = [wpc EXCEPT ![w] = "idle"]
            /\ item' = [item EXCEPT ![w] = None] /\ tries' = [tries EXCEPT ![w] = 0]
         \/ /\ wpc' = [wpc EXCEPT ![w] = "download"] /\ item' = item
            /\ tries' = [tries EXCEPT ![w] = tries[w] + 1] /\ tries[w] + 1 < MaxAttempts
  BY DEF Download, DownloadFails, AddDownload, AttemptFails, Goto, runVars, ZipInv, ZipCore, Working
<1>2. item[w] # None
  BY <1>1 DEF ZipInv, ZipCore, OnePlace
<1>3. \A v \in Workers \ {w} : wpc'[v] = wpc[v] /\ item'[v] = item[v] /\ tries'[v] = tries[v]
  BY <1>1 DEF TypeOK
<1>4. \/ wpc[w] = "download" /\ wpc'[w] = "add" /\ item'[w] = item[w] /\ tries'[w] = tries[w]
      \/ wpc'[w] = "idle" /\ item'[w] = None
      \/ wpc'[w] = "download" /\ item'[w] = item[w] /\ tries'[w] = tries[w] + 1
  BY <1>1 DEF TypeOK
<1>5. tries[w] \in 0 .. 1 /\ tries'[w] \in 0 .. 1
  BY <1>1 DEF TypeOK, MaxAttempts
<1>6. item'[w] # None => item'[w] = item[w] /\ Rank(w)' < Rank(w) /\ Rank(w)' <= Rank(w)
  BY <1>4, <1>5 DEF Rank
<1>7. \A v \in Workers \ {w} : item'[v] = item[v] /\ Rank(v)' = Rank(v)
  BY <1>3 DEF Rank
<1>8. FileLeft' \subseteq FileLeft /\ FileLeft' # FileLeft
  BY <1>1, <1>2, <1>6, <1>7, FileLess
<1>9. StagesOf(w)' <= StagesOf(w)
  BY <1>1, <1>4 DEF StagesOf, Working
<1>10. WorkerLeft' \subseteq WorkerLeft
  BY <1>1, <1>3, <1>9, WorkerLess
<1> QED
  BY <1>1, <1>8, <1>10 DEF Less, NoMore, RunLeft

LEMMA EndLess == CloseQueue \/ Finish => Less
<1> SUFFICES ASSUME CloseQueue \/ Finish PROVE Less
  OBVIOUS
<1>1. UNCHANGED <<next, queue, item, tries, wpc>>
  BY DEF CloseQueue, Finish, workVars
<1>2. FileLeft' = FileLeft /\ WorkerLeft' = WorkerLeft
  BY <1>1, FileSame
<1>3. (pc = "feed" /\ pc' = "wait") \/ (pc = "wait" /\ pc' \in {"ok", "failed"})
  BY DEF CloseQueue, Finish
<1>4. RunLeft' \subseteq RunLeft /\ RunLeft' # RunLeft
  BY <1>3 DEF RunLeft
<1> QED
  BY <1>2, <1>4 DEF Less, NoMore

\* Run and its workers take finitely many steps: each leaves less to do of a finite
\* whole, retries included, and no other step adds to it.  With NeverStuck, all that
\* RunReturns still needs is that a goroutine that can go on does.
THEOREM ZipProceeds ==
  ASSUME IsFiniteSet(Workers)
  PROVE  Spec => [][Proceeds]_vars
<1>1. Spec => []ZipInv
  BY ZipInitInv, ZipStepInv, PTL DEF Spec
<1>2. ZipInv /\ ZipInv' /\ [Next]_vars => [Proceeds]_vars
  <2> SUFFICES ASSUME ZipInv, ZipInv', Next, pc \in {"feed", "wait"}
               PROVE  IF StepsOn THEN LeftToDo' < LeftToDo ELSE LeftToDo' = LeftToDo
    <3>1. LeftToDo \in Nat
      BY LeftIsFinite DEF LeftToDo
    <3> QED
      BY <3>1 DEF Proceeds
  <2>1. TypeOK'
    BY DEF ZipInv, ZipCore
  <2>2. CASE StepsOn
    <3>1. ~ Setup
      BY DEF Setup
    <3>2. Less
      <4>1. CASE Run
        BY <2>1, <3>1, <4>1, SendLess, EndLess DEF Run
      <4>2. ASSUME NEW w \in Workers, Worker(w) PROVE Less
        BY <2>1, <4>2, StageLess, AttemptLess, ReceiveLess DEF Worker
      <4> QED
        BY <2>2, <4>1, <4>2 DEF StepsOn
    <3> QED
      BY <2>2, <3>2, LessIsLess
  <2>3. CASE ~ StepsOn
    <3>1. UNCHANGED <<pc, next, queue, item, tries, wpc>>
      BY <2>3 DEF Next, StepsOn, AddMemoryFile, AddRemoteFile, Cancel, runVars, workVars
    <3>2. FileLeft' = FileLeft /\ WorkerLeft' = WorkerLeft
      BY <3>1, FileSame
    <3>3. RunLeft' = RunLeft
      BY <3>1 DEF RunLeft
    <3> QED
      BY <2>3, <3>2, <3>3 DEF LeftToDo
  <2> QED
    BY <2>2, <2>3
<1> QED
  BY <1>1, <1>2, PTL DEF Spec
=============================================================================
