---------------------------- MODULE DebounceProofs ----------------------------
(* Theorems about Debounce, for every number of calls and transactions.    *)
EXTENDS Debounce, SequenceTheorems, TLAPS

-----------------------------------------------------------------------------
(* The inductive invariant.                                                *)

\* Rows that are in the queue, in the hands of a worker, or about to be added.
Live(i) == state[i] \in {"pending", "running"} \/ \E t \in Txs : Holds(t, i)

Typed ==
  /\ state \in [Calls -> {"absent", "pending", "running", "done"}]
  /\ row \in [Calls -> Contents]
  /\ draft \in [Txs -> [Calls -> Contents]]
  /\ tx \in [Txs -> {"open", "committed", "rolledBack"}]
  /\ pc \in [Calls -> {"todo", "merging", "done", "failed"}]
  /\ mode \in [Calls -> AllModes]
  /\ result \in [Calls -> Calls \cup {NoCall}]
  /\ found \in [Calls -> Contents]
  /\ overlap \in [Calls -> SUBSET Calls]

\* A committed row has contents.
RowsFilled == \A i \in Calls : state[i] # "absent" => row[i] # Blank

\* A row exists from the moment the call that inserts it returns, not before.
LiveDone == \A i \in Calls : Live(i) => pc[i] = "done"

\* Between its statements a call's transaction is open, and the row is locked.
MergingOpen ==
  \A c \in Calls : pc[c] = "merging" => result[c] \in Calls /\ tx[TxOf[c]] = "open"

\* The row of an id is locked until the transaction of its call ends.
IdsHeld ==
  \A c \in Calls :
    result[c] # NoCall /\ tx[TxOf[c]] = "open" => Holds(TxOf[c], result[c])

\* DuplicatesOverlap for every row that is, or may get, pending.
LiveOverlap ==
  \A i, k \in Calls :
    i # k /\ Keyed(i) /\ Keyed(k) /\ Live(i) /\ Live(k)
    => i \in overlap[k] \/ k \in overlap[i]

Inv == /\ Typed /\ RowsFilled /\ LiveDone /\ MergingOpen
       /\ IdsHeld /\ IdsFindRows /\ LiveOverlap

-----------------------------------------------------------------------------
(* What the queries return.                                                *)

LEMMA NewContents ==
  ASSUME NEW c \in Calls
  PROVE  New(c) \in Contents /\ New(c) # Blank
BY NoCallAssumption DEF New, Contents, Blank

LEMMA ExistingLive ==
  ASSUME Inv, NEW t \in Txs, NEW i \in Existing(t)
  PROVE  /\ i \in Calls /\ Live(i)
         /\ Current(t, i) \in Contents /\ Current(t, i) # Blank
<1>1. i \in Calls
  BY DEF Existing
<1>2. Live(i)
  BY DEF Existing, Live
<1>3. Current(t, i) \in Contents /\ Current(t, i) # Blank
  BY <1>1 DEF Inv, Typed, RowsFilled, Existing, Current, Holds
<1> QED
  BY <1>1, <1>2, <1>3

\* When the query finds no row, each live keyed one was out of its sight.
LEMMA NothingFound ==
  ASSUME NEW t \in Txs, Existing(t) = {},
         NEW i \in Calls, Keyed(i), Live(i)
  PROVE  i \in Unavailable(t)
BY DEF Existing, Live, Unavailable

LEMMA InitInv == Init => Inv
<1> SUFFICES ASSUME Init PROVE Inv
  OBVIOUS
<1>1. Typed
  BY DEF Init, Typed, AllModes, Contents, Blank
<1>2. \A i \in Calls : ~ Live(i)
  BY DEF Init, Live, Holds
<1> QED
  BY <1>1, <1>2, TxAssumption
     DEF Init, Inv, RowsFilled, LiveDone, MergingOpen, IdsHeld, IdsFindRows, LiveOverlap

-----------------------------------------------------------------------------
(* A call writes a row that was live, or inserts its own.                  *)

\* A write by the transaction of call c leaves what the invariant says of the
\* other rows: its premises are what each kind of call establishes.
LEMMA WriteKeeps ==
  ASSUME Inv, NEW c \in Calls, NEW i \in Calls, NEW x \in Contents, x # Blank,
         Write(TxOf[c], i, x), tx[TxOf[c]] = "open",
         pc[c] \in {"todo", "merging"},
         NEW p \in {"merging", "done"}, pc' = [pc EXCEPT ![c] = p],
         result' = [result EXCEPT ![c] = i],
         NEW m \in AllModes, mode' = [mode EXCEPT ![c] = m],
         found' \in [Calls -> Contents],
         Live(i) \/ (i = c /\ p = "done"),
         UNCHANGED <<jobVars, tx>>
  PROVE  /\ (overlap' \in [Calls -> SUBSET Calls] => Typed')
         /\ RowsFilled' /\ LiveDone' /\ MergingOpen' /\ IdsHeld' /\ IdsFindRows'
         /\ \A k \in Calls : Live(k)' => Live(k) \/ k = i
         /\ ~ Live(c)
<1>t. TxOf[c] \in Txs
  BY TxAssumption
<1>a. draft' = [draft EXCEPT ![TxOf[c]][i] = x]
  BY DEF Write
<1>b. /\ draft' \in [Txs -> [Calls -> Contents]]
      /\ Holds(TxOf[c], i)'
      /\ \A u \in Txs, k \in Calls : Holds(u, k) => Holds(u, k)'
      /\ \A u \in Txs, k \in Calls : Holds(u, k)' => Holds(u, k) \/ k = i
  BY <1>a, <1>t DEF Inv, Typed, Holds
<1>1. (overlap' \in [Calls -> SUBSET Calls] => Typed')
  BY <1>b DEF Inv, Typed, jobVars
<1>2. RowsFilled'
  BY DEF Inv, RowsFilled, jobVars
<1>3. \A k \in Calls : Live(k)' => Live(k) \/ k = i
  BY <1>b DEF Live, jobVars
<1>4. ~ Live(c)
  BY DEF Inv, LiveDone
<1>5. LiveDone'
  BY <1>3, <1>4 DEF Inv, LiveDone, Typed
<1>6. MergingOpen'
  BY DEF Inv, MergingOpen, Typed
<1>7. IdsHeld'
  <2> SUFFICES ASSUME NEW d \in Calls, result'[d] # NoCall, tx[TxOf[d]] = "open"
               PROVE  Holds(TxOf[d], result[d])'
    BY DEF IdsHeld
  <2>1. CASE d = c
    BY <2>1, <1>b DEF Inv, Typed, Holds
  <2>2. CASE d # c
    <3>1. result'[d] = result[d] /\ result[d] \in Calls
      BY <2>2 DEF Inv, Typed
    <3>2. Holds(TxOf[d], result[d]) /\ TxOf[d] \in Txs
      BY <3>1, TxAssumption DEF Inv, IdsHeld
    <3> QED
      BY <3>1, <3>2, <1>b DEF Holds
  <2> QED
    BY <2>1, <2>2
<1>8. IdsFindRows'
  <2> SUFFICES ASSUME NEW d \in Calls, tx[TxOf[d]] = "committed", result'[d] # NoCall
               PROVE  state[result'[d]] # "absent"
    BY DEF IdsFindRows, jobVars
  <2>1. d # c
    OBVIOUS
  <2>2. result'[d] = result[d]
    BY <2>1 DEF Inv, Typed
  <2> QED
    BY <2>2 DEF Inv, IdsFindRows
<1> QED
  BY <1>1, <1>2, <1>3, <1>4, <1>5, <1>6, <1>7, <1>8

LEMMA InsertKeeps ==
  ASSUME Inv, NEW c \in Calls, NEW m \in ModesOf[c], Insert(c, m)
  PROVE  Inv'
<1>1. /\ MayCall(c) /\ Write(TxOf[c], c, New(c)) /\ Done(c, c)
      /\ m = "plain" \/ Existing(TxOf[c]) = {}
      /\ mode' = [mode EXCEPT ![c] = m]
      /\ overlap' = [overlap EXCEPT ![c] = Unavailable(TxOf[c])]
      /\ UNCHANGED <<jobVars, tx, found>>
  BY DEF Insert
<1>t. TxOf[c] \in Txs /\ m \in AllModes
  BY TxAssumption, ModesAssumption
<1>2. /\ tx[TxOf[c]] = "open" /\ pc[c] = "todo"
      /\ pc' = [pc EXCEPT ![c] = "done"] /\ result' = [result EXCEPT ![c] = c]
      /\ found' \in [Calls -> Contents]
  BY <1>1 DEF MayCall, Done, Inv, Typed
<1>3. /\ (overlap' \in [Calls -> SUBSET Calls] => Typed')
      /\ RowsFilled' /\ LiveDone' /\ MergingOpen' /\ IdsHeld' /\ IdsFindRows'
      /\ \A k \in Calls : Live(k)' => Live(k) \/ k = c
      /\ ~ Live(c)
  BY <1>1, <1>2, <1>t, NewContents, WriteKeeps
<1>4. overlap' \in [Calls -> SUBSET Calls]
  BY <1>1 DEF Inv, Typed, Unavailable
<1>5. ASSUME NEW k \in Calls, k # c, Keyed(k)', Live(k)', Keyed(c)'
      PROVE  k \in overlap'[c]
  <2>1. Keyed(k) /\ Live(k) /\ m # "plain"
    BY <1>1, <1>3, <1>5 DEF Keyed, Inv, Typed
  <2>2. k \in Unavailable(TxOf[c])
    BY <2>1, <1>1, <1>t, NothingFound
  <2> QED
    BY <2>2, <1>1 DEF Inv, Typed
<1>6. ASSUME NEW i \in Calls, NEW k \in Calls, i # k, i # c, k # c,
             Keyed(i)', Keyed(k)', Live(i)', Live(k)'
      PROVE  i \in overlap'[k] \/ k \in overlap'[i]
  <2>1. Keyed(i) /\ Keyed(k) /\ Live(i) /\ Live(k)
    BY <1>1, <1>3, <1>6 DEF Keyed, Inv, Typed
  <2> QED
    BY <2>1, <1>1, <1>6 DEF Inv, Typed, LiveOverlap
<1>7. LiveOverlap'
  BY <1>5, <1>6 DEF LiveOverlap
<1> QED
  BY <1>3, <1>4, <1>7 DEF Inv

\* The other writes make no row live.
LEMMA OverlapKept ==
  ASSUME Inv, UNCHANGED overlap,
         \A k \in Calls : Live(k)' => Live(k) /\ mode'[k] = mode[k]
  PROVE  LiveOverlap'
BY DEF Inv, LiveOverlap, Keyed

LEMMA WriteLiveKeeps ==
  ASSUME Inv, NEW c \in Calls, NEW i \in Calls, Live(i), NEW x \in Contents, x # Blank,
         Write(TxOf[c], i, x), tx[TxOf[c]] = "open",
         pc[c] \in {"todo", "merging"},
         NEW p \in {"merging", "done"}, pc' = [pc EXCEPT ![c] = p],
         result' = [result EXCEPT ![c] = i],
         NEW m \in AllModes, mode' = [mode EXCEPT ![c] = m],
         found' \in [Calls -> Contents],
         UNCHANGED <<jobVars, tx, overlap>>
  PROVE  Inv'
<1>0. UNCHANGED <<jobVars, tx>>
  OBVIOUS
<1>1. /\ (overlap' \in [Calls -> SUBSET Calls] => Typed')
      /\ RowsFilled' /\ LiveDone' /\ MergingOpen' /\ IdsHeld' /\ IdsFindRows'
      /\ \A k \in Calls : Live(k)' => Live(k) \/ k = i
      /\ ~ Live(c)
  BY <1>0, WriteKeeps
<1>2. \A k \in Calls : Live(k)' => Live(k) /\ mode'[k] = mode[k]
  BY <1>1 DEF Inv, Typed
<1>3. LiveOverlap'
  BY <1>2, OverlapKept
<1>4. overlap' \in [Calls -> SUBSET Calls]
  BY DEF Inv, Typed
<1> QED
  BY <1>1, <1>3, <1>4 DEF Inv

LEMMA AbsorbKeeps ==
  ASSUME Inv, NEW c \in Calls, NEW m \in ModesOf[c], Absorb(c, m)
  PROVE  Inv'
<1>t. TxOf[c] \in Txs /\ m \in AllModes
  BY TxAssumption, ModesAssumption
<1>1. PICK i \in Existing(TxOf[c]) :
        /\ Write(TxOf[c], i, IF m = "keep" THEN Current(TxOf[c], i) ELSE New(c))
        /\ Done(c, i)
  BY DEF Absorb
<1>2. PICK x \in Contents : x # Blank /\ Write(TxOf[c], i, x)
  BY <1>1, <1>t, ExistingLive, NewContents
<1>3. i \in Calls /\ Live(i)
  BY <1>t, ExistingLive
<1> QED
  BY <1>1, <1>2, <1>3, <1>t, WriteLiveKeeps DEF Absorb, MayCall, Done, Inv, Typed

LEMMA StartMergeKeeps ==
  ASSUME Inv, NEW c \in Calls, NEW m \in ModesOf[c], StartMerge(c, m)
  PROVE  Inv'
<1>t. TxOf[c] \in Txs /\ m \in AllModes
  BY TxAssumption, ModesAssumption
<1>1. PICK i \in Existing(TxOf[c]) :
        /\ Write(TxOf[c], i, Current(TxOf[c], i))
        /\ found' = [found EXCEPT ![c] = Current(TxOf[c], i)]
        /\ result' = [result EXCEPT ![c] = i]
  BY DEF StartMerge
<1>2. i \in Calls /\ Live(i)
  BY <1>t, ExistingLive
<1>3. Current(TxOf[c], i) \in Contents /\ Current(TxOf[c], i) # Blank
  BY <1>t, ExistingLive
<1>4. found' \in [Calls -> Contents]
  BY <1>1, <1>3 DEF Inv, Typed
<1> QED
  BY <1>1, <1>2, <1>3, <1>4, <1>t, WriteLiveKeeps DEF StartMerge, MayCall

LEMMA MergeKeeps ==
  ASSUME Inv, NEW c \in Calls, Merge(c)
  PROVE  Inv'
<1>1. /\ pc[c] = "merging" /\ result[c] \in Calls /\ tx[TxOf[c]] = "open"
      /\ TxOf[c] \in Txs
  BY TxAssumption DEF Merge, Inv, MergingOpen
<1>2. Live(result[c])
  BY <1>1, NoCallAssumption DEF Inv, IdsHeld, Live
<1>3. PICK x \in Contents : x # Blank /\ Write(TxOf[c], result[c], x)
  <2> DEFINE s == IF mode[c] = "mergeKeep" THEN found[c].start ELSE c
  <2>1. found[c] \in Contents
    BY DEF Inv, Typed
  <2>2. [arg |-> found[c].arg \cup {c}, start |-> s] \in Contents
    BY <2>1 DEF Contents
  <2>3. [arg |-> found[c].arg \cup {c}, start |-> s] # Blank
    BY DEF Blank
  <2> QED
    BY <2>2, <2>3 DEF Merge
<1>4. /\ pc' = [pc EXCEPT ![c] = "done"]
      /\ result' = [result EXCEPT ![c] = result[c]]
      /\ mode' = [mode EXCEPT ![c] = mode[c]] /\ mode[c] \in AllModes
      /\ found' \in [Calls -> Contents]
      /\ UNCHANGED <<jobVars, tx, overlap>>
  BY DEF Merge, Done, Inv, Typed
<1> QED
  BY <1>1, <1>2, <1>3, <1>4, WriteLiveKeeps

LEMMA MergeFailsKeeps ==
  ASSUME Inv, NEW c \in Calls, MergeFails(c)
  PROVE  Inv'
<1>1. Typed'
  BY DEF Inv, Typed, MergeFails, jobVars
<1>2. \A k \in Calls : Live(k)' <=> Live(k)
  BY DEF MergeFails, jobVars, Live, Holds
<1>3. RowsFilled'
  BY DEF Inv, RowsFilled, MergeFails, jobVars
<1>4. LiveDone'
  BY <1>2 DEF Inv, Typed, LiveDone, MergeFails
<1>5. MergingOpen'
  BY DEF Inv, Typed, MergingOpen, MergeFails
<1>6. IdsHeld'
  BY DEF Inv, Typed, IdsHeld, MergeFails, Holds
<1>7. IdsFindRows'
  BY DEF Inv, Typed, IdsFindRows, MergeFails, jobVars
<1>8. LiveOverlap'
  BY <1>2, OverlapKept DEF MergeFails
<1> QED
  BY <1>1, <1>3, <1>4, <1>5, <1>6, <1>7, <1>8 DEF Inv

-----------------------------------------------------------------------------
(* The end of a transaction publishes its rows or drops them.              *)

LEMMA CommitKeeps ==
  ASSUME Inv, NEW t \in Txs, Commit(t)
  PROVE  Inv'
<1>1. /\ tx' = [tx EXCEPT ![t] = "committed"]
      /\ draft' = [draft EXCEPT ![t] = [c \in Calls |-> Blank]]
      /\ row' = [i \in Calls |-> Current(t, i)]
      /\ state' = [i \in Calls |-> IF Holds(t, i) /\ state[i] = "absent" THEN "pending"
                                                                   ELSE state[i]]
      /\ UNCHANGED <<callVars, overlap>>
      /\ tx[t] = "open"
      /\ \A c \in Calls : TxOf[c] = t => pc[c] # "merging"
  BY DEF Commit, Ended, MayEnd
<1>2. Typed'
  <2>1. Blank \in Contents
    BY DEF Blank, Contents
  <2>2. \A i \in Calls : Current(t, i) \in Contents
    BY DEF Current, Inv, Typed
  <2> QED
    BY <1>1, <2>1, <2>2 DEF Inv, Typed, callVars
<1>3. /\ \A u \in Txs, k \in Calls : Holds(u, k)' <=> Holds(u, k) /\ u # t
      /\ \A k \in Calls : Live(k)' => Live(k)
  BY <1>1 DEF Inv, Typed, Holds, Live
<1>4. RowsFilled'
  BY <1>1 DEF Inv, RowsFilled, Current, Holds
<1>5. LiveDone'
  BY <1>1, <1>3 DEF Inv, LiveDone, callVars
<1>6. MergingOpen'
  BY <1>1 DEF Inv, Typed, MergingOpen, callVars
<1>7. IdsHeld'
  <2> SUFFICES ASSUME NEW d \in Calls, result[d] # NoCall, tx'[TxOf[d]] = "open"
               PROVE  Holds(TxOf[d], result[d])'
    BY <1>1 DEF IdsHeld, callVars
  <2>1. TxOf[d] \in Txs /\ result[d] \in Calls
    BY TxAssumption DEF Inv, Typed
  <2>2. TxOf[d] # t /\ tx[TxOf[d]] = "open"
    BY <1>1, <2>1 DEF Inv, Typed
  <2>3. Holds(TxOf[d], result[d])
    BY <2>2 DEF Inv, IdsHeld
  <2> QED
    BY <2>1, <2>2, <2>3, <1>1 DEF Holds, callVars, Inv, Typed
<1>8. IdsFindRows'
  <2> SUFFICES ASSUME NEW d \in Calls, tx'[TxOf[d]] = "committed", result[d] # NoCall
               PROVE  state'[result[d]] # "absent"
    BY <1>1 DEF IdsFindRows, callVars
  <2>1. TxOf[d] \in Txs /\ result[d] \in Calls
    BY TxAssumption DEF Inv, Typed
  <2>2. CASE TxOf[d] = t
    <3>1. Holds(t, result[d])
      BY <2>2, <1>1 DEF Inv, IdsHeld
    <3> QED
      BY <3>1, <2>1, <1>1
  <2>3. CASE TxOf[d] # t
    BY <2>1, <2>3, <1>1 DEF Inv, Typed, IdsFindRows
  <2> QED
    BY <2>2, <2>3
<1>9. LiveOverlap'
  BY <1>1, <1>3, OverlapKept DEF callVars
<1> QED
  BY <1>2, <1>4, <1>5, <1>6, <1>7, <1>8, <1>9 DEF Inv

LEMMA RollbackKeeps ==
  ASSUME Inv, NEW t \in Txs, Rollback(t)
  PROVE  Inv'
<1>1. /\ tx' = [tx EXCEPT ![t] = "rolledBack"]
      /\ draft' = [draft EXCEPT ![t] = [c \in Calls |-> Blank]]
      /\ pc' = [c \in Calls |-> IF TxOf[c] = t /\ pc[c] = "merging" THEN "failed"
                                                                    ELSE pc[c]]
      /\ UNCHANGED <<state, row, mode, result, found, overlap>>
  BY DEF Rollback, Ended, jobVars
<1>2. Typed'
  <2>1. Blank \in Contents
    BY DEF Blank, Contents
  <2> QED
    BY <1>1, <2>1 DEF Inv, Typed
<1>3. /\ \A u \in Txs, k \in Calls : Holds(u, k)' <=> Holds(u, k) /\ u # t
      /\ \A k \in Calls : Live(k)' => Live(k)
  BY <1>1 DEF Inv, Typed, Holds, Live
<1>4. RowsFilled'
  BY <1>1 DEF Inv, RowsFilled
<1>5. LiveDone'
  BY <1>1, <1>3 DEF Inv, LiveDone
<1>6. MergingOpen'
  BY <1>1, TxAssumption DEF Inv, Typed, MergingOpen
<1>7. IdsHeld'
  <2> SUFFICES ASSUME NEW d \in Calls, result[d] # NoCall, tx'[TxOf[d]] = "open"
               PROVE  Holds(TxOf[d], result[d])'
    BY <1>1 DEF IdsHeld
  <2>1. TxOf[d] \in Txs /\ result[d] \in Calls
    BY TxAssumption DEF Inv, Typed
  <2>2. TxOf[d] # t /\ tx[TxOf[d]] = "open"
    BY <1>1, <2>1 DEF Inv, Typed
  <2>3. Holds(TxOf[d], result[d])
    BY <2>2 DEF Inv, IdsHeld
  <2> QED
    BY <2>1, <2>2, <2>3, <1>1 DEF Holds, Inv, Typed
<1>8. IdsFindRows'
  BY <1>1, TxAssumption DEF Inv, Typed, IdsFindRows
<1>9. LiveOverlap'
  BY <1>1, <1>3, OverlapKept
<1> QED
  BY <1>2, <1>4, <1>5, <1>6, <1>7, <1>8, <1>9 DEF Inv

-----------------------------------------------------------------------------
(* Workers only move rows that are live.                                   *)

LEMMA WorkerKeeps ==
  ASSUME Inv, NEW i \in Calls,
         Claim(i) \/ \E how \in {"done", "pending"} : Finish(i, how)
  PROVE  Inv'
<1>1. PICK to \in {"pending", "running", "done"} :
        /\ state[i] \in {"pending", "running"}
        /\ state' = [state EXCEPT ![i] = to]
        /\ UNCHANGED <<row, draft, tx, callVars, did, log, overlap>>
  BY DEF Claim, Finish
<1>2. Typed'
  BY <1>1 DEF Inv, Typed, callVars
<1>3. \A k \in Calls : Live(k)' => Live(k)
  BY <1>1 DEF Inv, Typed, Live, Holds
<1>4. RowsFilled'
  BY <1>1 DEF Inv, Typed, RowsFilled
<1>5. LiveDone'
  BY <1>1, <1>3 DEF Inv, LiveDone, callVars
<1>6. MergingOpen'
  BY <1>1 DEF Inv, MergingOpen, callVars
<1>7. IdsHeld'
  BY <1>1 DEF Inv, IdsHeld, Holds, callVars
<1>8. IdsFindRows'
  BY <1>1 DEF Inv, Typed, IdsFindRows, callVars
<1>9. LiveOverlap'
  BY <1>1, <1>3, OverlapKept DEF callVars
<1> QED
  BY <1>2, <1>4, <1>5, <1>6, <1>7, <1>8, <1>9 DEF Inv

LEMMA StutterKeeps == Inv /\ UNCHANGED addVars => Inv'
BY DEF Inv, Typed, RowsFilled, LiveDone, MergingOpen, IdsHeld, IdsFindRows,
       LiveOverlap, Live, Holds, Keyed, addVars

LEMMA NextKeeps == Inv /\ [Next]_addVars => Inv'
<1> SUFFICES ASSUME Inv, [Next]_addVars PROVE Inv'
  OBVIOUS
<1>1. ASSUME NEW c \in Calls, Call(c) PROVE Inv'
  BY <1>1, InsertKeeps, AbsorbKeeps, StartMergeKeeps, MergeKeeps, MergeFailsKeeps
     DEF Call
<1>2. ASSUME NEW t \in Txs, Commit(t) \/ Rollback(t) PROVE Inv'
  BY <1>2, CommitKeeps, RollbackKeeps
<1>3. ASSUME NEW i \in Calls,
             Claim(i) \/ \E how \in {"done", "pending"} : Finish(i, how)
      PROVE  Inv'
  BY <1>3, WorkerKeeps
<1>4. CASE UNCHANGED addVars
  BY <1>4, StutterKeeps
<1> QED
  BY <1>1, <1>2, <1>3, <1>4 DEF Next

\* The inductive invariant holds.
LEMMA InvHolds == Spec => []Inv
BY InitInv, NextKeeps, PTL DEF Spec

-----------------------------------------------------------------------------

\* AddOption.DebounceKey (main.go:848-850): however many transactions add under
\* one key, two rows wait only if one was out of the other's sight.
THEOREM DuplicatesCorrect == Spec => []DuplicatesOverlap
<1>1. Inv => DuplicatesOverlap
  BY DEF Inv, LiveOverlap, DuplicatesOverlap, Live
<1> QED
  BY <1>1, InvHolds, PTL

\* The ids add returns (main.go:966-968) find rows once they are committed.
THEOREM IdsCorrect == Spec => []IdsFindRows
<1>1. Inv => IdsFindRows
  BY DEF Inv
<1> QED
  BY <1>1, InvHolds, PTL

-----------------------------------------------------------------------------
(* What a row holds after a sequence of calls, as a function of their modes.  *)

InArgBy(md, s, k) ==
  /\ k = 1 \/ md[s[k]] # "keep"
  /\ \A l \in k + 1..Len(s) : md[s[l]] # "replace"
GivesStartBy(md, s, k) == k = 1 \/ md[s[k]] \in {"replace", "merge"}
ArgBy(md, s) == {s[k] : k \in {l \in 1..Len(s) : InArgBy(md, s, l)}}
StartBy(md, s, x) ==
  \E k \in 1..Len(s) :
    /\ x.start = s[k] /\ GivesStartBy(md, s, k)
    /\ \A l \in k + 1..Len(s) : ~ GivesStartBy(md, s, l)
AfterBy(md, s, x) ==
  /\ x.arg = ArgBy(md, s)
  /\ IF s = <<>> THEN x.start = NoCall ELSE StartBy(md, s, x)

LEMMA ModesNow ==
  /\ RowsAreSerial <=> \A i \in Calls : AfterBy(mode, log[i], row[i])
  /\ RowsAreSerial' <=> \A i \in Calls : AfterBy(mode', log'[i], row'[i])
  /\ RunHasAllCalls <=> \A i \in Calls : state[i] \in {"running", "done"}
                                           => ran[i] = ArgBy(mode, log[i])
  /\ RunHasAllCalls' <=> \A i \in Calls : state'[i] \in {"running", "done"}
                                            => ran'[i] = ArgBy(mode', log'[i])
BY DEF RowsAreSerial, RunHasAllCalls, AfterBy, ArgBy, StartBy, InArgBy, GivesStartBy,
       IsAfter, ArgAfter, HasStart, InArg, GivesStart

\* Only the modes of its calls matter.
LEMMA SameModes ==
  ASSUME NEW S, NEW s \in Seq(S), NEW md, NEW me, \A c \in S : me[c] = md[c], NEW x
  PROVE  ArgBy(me, s) = ArgBy(md, s) /\ (AfterBy(md, s, x) => AfterBy(me, s, x))
<1>1. \A k \in 1..Len(s) : me[s[k]] = md[s[k]]
  OBVIOUS
<1>2. Len(s) \in Nat
  OBVIOUS
<1>3. \A k \in 1..Len(s) : /\ k + 1..Len(s) \subseteq 1..Len(s)
                           /\ InArgBy(me, s, k) <=> InArgBy(md, s, k)
                           /\ GivesStartBy(me, s, k) <=> GivesStartBy(md, s, k)
  <2> SUFFICES ASSUME NEW k \in 1..Len(s)
               PROVE  /\ k + 1..Len(s) \subseteq 1..Len(s)
                      /\ InArgBy(me, s, k) <=> InArgBy(md, s, k)
                      /\ GivesStartBy(me, s, k) <=> GivesStartBy(md, s, k)
    OBVIOUS
  <2>1. k + 1..Len(s) \subseteq 1..Len(s)
    BY <1>2
  <2> QED
    BY <1>1, <2>1 DEF InArgBy, GivesStartBy
<1>4. ArgBy(me, s) = ArgBy(md, s)
  BY <1>3 DEF ArgBy
<1>5. StartBy(md, s, x) => StartBy(me, s, x)
  BY <1>3 DEF StartBy
<1> QED
  BY <1>4, <1>5 DEF AfterBy

\* A row that calls have written is not blank, and the other way round.
LEMMA BlankAfter ==
  /\ \A md : AfterBy(md, <<>>, Blank)
  /\ \A md : \A x \in Contents : AfterBy(md, <<>>, x) => x = Blank
<1>1. \A md : ArgBy(md, <<>>) = {}
  BY DEF ArgBy
<1>2. \A md : AfterBy(md, <<>>, Blank)
  BY <1>1 DEF AfterBy, Blank
<1>3. ASSUME NEW md, NEW x \in Contents, AfterBy(md, <<>>, x) PROVE x = Blank
  <2>1. x.arg = {} /\ x.start = NoCall
    BY <1>1, <1>3 DEF AfterBy
  <2> QED
    BY <2>1 DEF Contents, Blank
<1> QED
  BY <1>2, <1>3

\* What call c of mode m makes of row x, on which the calls of s were made.
Effect(m, c, s, x, y) ==
  \/ (s = <<>> \/ m = "replace") /\ y = New(c)
  \/ s # <<>> /\ m = "keep" /\ y = x
  \/ s # <<>> /\ m = "merge" /\ y = [arg |-> x.arg \cup {c}, start |-> c]
  \/ s # <<>> /\ m = "mergeKeep" /\ y = [arg |-> x.arg \cup {c}, start |-> x.start]

LEMMA CallAfter ==
  ASSUME NEW s \in Seq(Calls), NEW c \in Calls, NEW md, NEW x \in Contents, NEW y,
         AfterBy(md, s, x), Effect(md[c], c, s, x, y)
  PROVE  AfterBy(md, Append(s, c), y)
<1> USE DEF Effect
<1> DEFINE r == Append(s, c)
           n == Len(s)
<1>1. /\ n \in Nat /\ Len(r) = n + 1 /\ r # <<>> /\ r[n + 1] = c
      /\ \A k \in 1..n : r[k] = s[k]
      /\ s = <<>> <=> n = 0
  OBVIOUS
<1> HIDE DEF r, n
<1>2. \A k \in 1..n : /\ k \in 1..n + 1 /\ k + 1..n + 1 = (k + 1..n) \cup {n + 1}
                      /\ k + 1..n \subseteq 1..n
  BY <1>1
<1>3. n + 1 + 1..n + 1 = {} /\ 1..n + 1 = 1..n \cup {n + 1} /\ n + 1 \notin 1..n
  BY <1>1
<1>4. /\ InArgBy(md, r, n + 1) <=> n = 0 \/ md[c] # "keep"
      /\ GivesStartBy(md, r, n + 1) <=> n = 0 \/ md[c] \in {"replace", "merge"}
  BY <1>1, <1>3 DEF InArgBy, GivesStartBy
<1>5. ASSUME NEW k \in 1..n
      PROVE  /\ InArgBy(md, r, k) <=> InArgBy(md, s, k) /\ md[c] # "replace"
             /\ GivesStartBy(md, r, k) <=> GivesStartBy(md, s, k)
  <2>1. \A l \in k + 1..n : r[l] = s[l]
    BY <1>1, <1>2
  <2>2. (\A l \in k + 1..n + 1 : md[r[l]] # "replace")
        <=> (\A l \in k + 1..n : md[s[l]] # "replace") /\ md[c] # "replace"
    BY <1>1, <1>2, <2>1
  <2> QED
    BY <1>1, <2>2 DEF InArgBy, GivesStartBy, n
<1>6. ArgBy(md, r) = (IF md[c] = "replace" THEN {} ELSE ArgBy(md, s))
                       \cup (IF n = 0 \/ md[c] # "keep" THEN {c} ELSE {})
  <2>1. \A e : e \in ArgBy(md, r)
          <=> \/ \E k \in 1..n : InArgBy(md, r, k) /\ e = s[k]
              \/ InArgBy(md, r, n + 1) /\ e = c
    BY <1>1, <1>3 DEF ArgBy
  <2>2. \A e : e \in ArgBy(md, s) <=> \E k \in 1..n : InArgBy(md, s, k) /\ e = s[k]
    BY DEF ArgBy, n
  <2> QED
    BY <2>1, <2>2, <1>4, <1>5
<1>7. y.arg = ArgBy(md, r)
  <2>1. x.arg = ArgBy(md, s) /\ (n = 0 => ArgBy(md, s) = {})
    BY <1>1 DEF AfterBy, ArgBy, n
  <2> QED
    BY <1>1, <1>6, <2>1 DEF New
<1>8. StartBy(md, r, y)
  <2>1. CASE GivesStartBy(md, r, n + 1)
    <3>1. y.start = c
      BY <1>1, <1>4, <2>1 DEF New
    <3> QED
      BY <1>1, <1>3, <2>1, <3>1 DEF StartBy
  <2>2. CASE ~ GivesStartBy(md, r, n + 1)
    <3>1. s # <<>> /\ y.start = x.start
      BY <1>1, <1>4, <2>2
    <3>2. PICK k \in 1..n : /\ x.start = s[k] /\ GivesStartBy(md, s, k)
                            /\ \A l \in k + 1..n : ~ GivesStartBy(md, s, l)
      BY <3>1 DEF AfterBy, StartBy, n
    <3>3. \A l \in k + 1..n + 1 : ~ GivesStartBy(md, r, l)
      BY <1>2, <1>5, <2>2, <3>2
    <3>4. y.start = r[k] /\ GivesStartBy(md, r, k) /\ k \in 1..Len(r)
      BY <1>1, <1>2, <1>5, <3>1, <3>2
    <3> QED
      BY <1>1, <3>3, <3>4 DEF StartBy
  <2> QED
    BY <2>1, <2>2
<1> QED
  BY <1>1, <1>7, <1>8 DEF AfterBy, r

-----------------------------------------------------------------------------
(* The invariant behind RowsAreSerial: rows that a transaction has in its      *)
(* hands hold what the committed calls and its own give.                       *)

Called == {c \in Calls : pc[c] = "done"}

\* The histories are made of calls that have returned, whose modes stay.
HistoriesTyped ==
  /\ log \in [Calls -> Seq(Called)]
  /\ did \in [Txs -> [Calls -> Seq(Called)]]
  /\ ran \in [Calls -> SUBSET Calls]

\* `for update skip locked`: one transaction at a time has a row, and no worker.
OneHolder ==
  \A t \in Txs, i \in Calls : Holds(t, i) =>
    /\ \A u \in Txs : Holds(u, i) => u = t
    /\ state[i] \in {"absent", "pending"}

DraftsAreSerial ==
  \A t \in Txs, i \in Calls :
    /\ Holds(t, i) => AfterBy(mode, log[i] \o did[t][i], draft[t][i])
    /\ ~ Holds(t, i) => did[t][i] = <<>>

RowsStart ==
  \A i \in Calls : /\ state[i] = "absent" => log[i] = <<>>
                   /\ state[i] # "absent" => pc[i] = "done"

\* Between its two statements a merging call has the row as it found it.
MergesHold ==
  \A c \in Calls : pc[c] = "merging" =>
    /\ mode[c] \in {"merge", "mergeKeep"}
    /\ Holds(TxOf[c], result[c]) /\ found[c] = draft[TxOf[c]][result[c]]
    /\ \A d \in Calls : pc[d] = "merging" /\ TxOf[d] = TxOf[c] => d = c

Replayed == /\ \A i \in Calls : AfterBy(mode, log[i], row[i])
            /\ \A i \in Calls : state[i] \in {"running", "done"}
                                  => ran[i] = ArgBy(mode, log[i])

SerialInv ==
  /\ Inv /\ HistoriesTyped /\ OneHolder /\ DraftsAreSerial /\ RowsStart /\ MergesHold
  /\ Replayed

LEMMA EmptySeqs == \A S : <<>> \in Seq(S)
OBVIOUS

LEMMA MoreCalled ==
  ASSUME NEW S, NEW T, S \subseteq T
  PROVE  /\ Seq(S) \subseteq Seq(T)
         /\ \A s, r \in Seq(S) : s \o r \in Seq(T)
         /\ \A s \in Seq(S) : s \o <<>> = s
         /\ \A s, r \in Seq(S) : \A c : s \o Append(r, c) = Append(s \o r, c)
<1>1. Seq(S) \subseteq Seq(T)
  OBVIOUS
<1>2. ASSUME NEW s \in Seq(S), NEW r \in Seq(S) PROVE s \o r \in Seq(S)
  BY ConcatProperties
<1>3. ASSUME NEW s \in Seq(S) PROVE s \o <<>> = s
  BY ConcatEmptySeq
<1>4. ASSUME NEW s \in Seq(S), NEW r \in Seq(S), NEW c
      PROVE  s \o Append(r, c) = Append(s \o r, c)
  <2> DEFINE U == S \cup {c}
  <2>1. s \in Seq(U) /\ r \in Seq(U) /\ c \in U
    OBVIOUS
  <2> HIDE DEF U
  <2>2. <<c>> \in Seq(U)
    BY <2>1
  <2>3. Append(r, c) = r \o <<c>> /\ Append(s \o r, c) = (s \o r) \o <<c>>
    BY <2>1, AppendIsConcat, ConcatProperties
  <2> QED
    BY <2>1, <2>2, <2>3, ConcatAssociative
<1> QED
  BY <1>1, <1>2, <1>3, <1>4

LEMMA SerialInit == Init => SerialInv
<1> SUFFICES ASSUME Init PROVE SerialInv
  OBVIOUS
<1>1. HistoriesTyped
  BY EmptySeqs DEF Init, HistoriesTyped
<1>2. \A t \in Txs, i \in Calls : ~ Holds(t, i) /\ did[t][i] = <<>>
  BY DEF Init, Holds
<1>3. OneHolder /\ DraftsAreSerial
  BY <1>2 DEF OneHolder, DraftsAreSerial
<1>4. RowsStart /\ MergesHold
  BY DEF Init, RowsStart, MergesHold
<1>5. Replayed
  BY BlankAfter DEF Init, Replayed
<1> QED
  BY <1>1, <1>3, <1>4, <1>5, InitInv DEF SerialInv

\* What the types say of the histories of one row.
LEMMA HistoryFacts ==
  ASSUME SerialInv, NEW t \in Txs, NEW i \in Calls
  PROVE  /\ log[i] \in Seq(Called) /\ did[t][i] \in Seq(Called)
         /\ log[i] \o did[t][i] \in Seq(Called)
         /\ \A c : log[i] \o Append(did[t][i], c) = Append(log[i] \o did[t][i], c)
         /\ did[t][i] = <<>> => log[i] \o did[t][i] = log[i]
<1>1. log[i] \in Seq(Called) /\ did[t][i] \in Seq(Called)
  BY DEF SerialInv, HistoriesTyped
<1>2. \A a, r \in Seq(Called) : a \o r \in Seq(Called)
  BY MoreCalled
<1>3. \A a \in Seq(Called) : a \o <<>> = a
  BY MoreCalled
<1>4. \A a, r \in Seq(Called) : \A c : a \o Append(r, c) = Append(a \o r, c)
  BY MoreCalled
<1> QED
  BY <1>1, <1>2, <1>3, <1>4

\* What a transaction sees of a row is what the calls before give.
LEMMA CurrentIsSerial ==
  ASSUME SerialInv, NEW t \in Txs, NEW i \in Calls
  PROVE  AfterBy(mode, log[i] \o did[t][i], Current(t, i))
<1>1. CASE Holds(t, i)
  BY <1>1 DEF SerialInv, DraftsAreSerial, Current
<1>2. CASE ~ Holds(t, i)
  <2>1. log[i] \o did[t][i] = log[i]
    BY <1>2, HistoryFacts DEF SerialInv, DraftsAreSerial
  <2> QED
    BY <1>2, <2>1 DEF SerialInv, Replayed, Current
<1> QED
  BY <1>1, <1>2

\* A call that has not returned changes no history by taking its mode.
LEMMA ModeKept ==
  ASSUME SerialInv, NEW c \in Calls, pc[c] # "done",
         NEW m, mode' = [mode EXCEPT ![c] = m]
  PROVE  /\ \A s \in Seq(Called) : \A x : AfterBy(mode, s, x) => AfterBy(mode', s, x)
         /\ \A s \in Seq(Called) : ArgBy(mode', s) = ArgBy(mode, s)
         /\ \A d \in Calls : d # c => mode'[d] = mode[d]
         /\ mode'[c] = m
<1>1. (\A d \in Calls : d # c => mode'[d] = mode[d]) /\ mode'[c] = m
  BY DEF SerialInv, Inv, Typed
<1>2. \A d \in Called : mode'[d] = mode[d]
  BY <1>1 DEF Called
<1>3. ASSUME NEW s \in Seq(Called), NEW x
      PROVE  /\ ArgBy(mode', s) = ArgBy(mode, s)
             /\ AfterBy(mode, s, x) => AfterBy(mode', s, x)
  <2> DEFINE S == Called
             md == mode
             me == mode'
  <2>1. s \in Seq(S) /\ \A d \in S : me[d] = md[d]
    BY <1>2
  <2> HIDE DEF S, md, me
  <2>2. ArgBy(me, s) = ArgBy(md, s) /\ (AfterBy(md, s, x) => AfterBy(me, s, x))
    BY <2>1, SameModes
  <2> QED
    BY <2>2 DEF md, me
<1> QED
  BY <1>1, <1>3

\* A call of the transaction that has row i, or takes it, writes x: what the
\* invariant says of the other rows and transactions stays.
LEMMA SerialWrite ==
  ASSUME SerialInv, NEW c \in Calls, NEW i \in Calls, NEW x \in Contents, x # Blank,
         Write(TxOf[c], i, x), pc[c] # "done",
         NEW m, mode' = [mode EXCEPT ![c] = m],
         \A d \in Calls : pc[d] = "done" => pc'[d] = "done",
         UNCHANGED <<jobVars, log>>,
         did' \in [Txs -> [Calls -> Seq(Called')]],
         \A u \in Txs, k \in Calls : u # TxOf[c] \/ k # i => did'[u][k] = did[u][k],
         \A u \in Txs : u # TxOf[c] => ~ Holds(u, i),
         state[i] \in {"absent", "pending"},
         AfterBy(mode', log[i] \o did'[TxOf[c]][i], x)
  PROVE  /\ HistoriesTyped' /\ OneHolder' /\ DraftsAreSerial' /\ RowsStart' /\ Replayed'
         /\ \A u \in Txs, k \in Calls :
              u # TxOf[c] \/ k # i => draft'[u][k] = draft[u][k]
         /\ draft'[TxOf[c]][i] = x
<1> DEFINE t == TxOf[c]
<1>t. t \in Txs
  BY TxAssumption
<1> HIDE DEF t
<1>1. draft' = [draft EXCEPT ![t][i] = x]
  BY DEF Write, t
<1>2. /\ draft'[t][i] = x
      /\ \A u \in Txs, k \in Calls : u # t \/ k # i => draft'[u][k] = draft[u][k]
  BY <1>1, <1>t DEF SerialInv, Inv, Typed
<1>3. /\ Holds(t, i)'
      /\ \A u \in Txs, k \in Calls : u # t \/ k # i => (Holds(u, k)' <=> Holds(u, k))
  BY <1>2 DEF Holds
<1>4. HistoriesTyped'
  <2>1. Called \subseteq Called'
    BY DEF Called
  <2>2. log' \in [Calls -> Seq(Called')]
    BY <2>1, MoreCalled DEF SerialInv, HistoriesTyped
  <2> QED
    BY <2>2 DEF SerialInv, HistoriesTyped, jobVars
<1>5. OneHolder'
  <2> SUFFICES ASSUME NEW u \in Txs, NEW k \in Calls, Holds(u, k)'
               PROVE  /\ \A w \in Txs : Holds(w, k)' => w = u
                      /\ state[k] \in {"absent", "pending"}
    BY DEF OneHolder, jobVars
  <2>1. CASE k = i
    BY <2>1, <1>3 DEF t
  <2>2. CASE k # i
    BY <2>2, <1>3 DEF SerialInv, OneHolder
  <2> QED
    BY <2>1, <2>2
<1>6. DraftsAreSerial'
  <2> SUFFICES ASSUME NEW u \in Txs, NEW k \in Calls
               PROVE  /\ Holds(u, k)' => AfterBy(mode', log[k] \o did'[u][k], draft'[u][k])
                      /\ ~ Holds(u, k)' => did'[u][k] = <<>>
    BY DEF DraftsAreSerial
  <2>1. CASE u = t /\ k = i
    BY <2>1, <1>2, <1>3 DEF t
  <2>2. CASE u # t \/ k # i
    <3>1. /\ did'[u][k] = did[u][k] /\ draft'[u][k] = draft[u][k]
          /\ Holds(u, k)' <=> Holds(u, k)
      BY <2>2, <1>2, <1>3 DEF t
    <3>2. log[k] \o did[u][k] \in Seq(Called)
      BY HistoryFacts
    <3>3. Holds(u, k) => AfterBy(mode', log[k] \o did[u][k], draft[u][k])
      BY <3>2, ModeKept DEF SerialInv, DraftsAreSerial
    <3> QED
      BY <3>1, <3>3 DEF SerialInv, DraftsAreSerial
  <2> QED
    BY <2>1, <2>2
<1>7. RowsStart'
  BY DEF SerialInv, RowsStart, jobVars
<1>8. Replayed'
  <2>1. \A k \in Calls : log[k] \in Seq(Called)
    BY DEF SerialInv, HistoriesTyped
  <2> QED
    BY <2>1, ModeKept DEF SerialInv, Replayed, jobVars
<1> QED
  BY <1>2, <1>4, <1>5, <1>6, <1>7, <1>8 DEF t

\* The rows and histories of the invariant, without what Inv already has.
Serial == HistoriesTyped /\ OneHolder /\ DraftsAreSerial /\ RowsStart /\ MergesHold
          /\ Replayed

\* `for update skip locked` gives a transaction a row no other has.
Free(t, i) == /\ \A u \in Txs : u # t => ~ Holds(u, i)
              /\ state[i] \in {"absent", "pending"}

LEMMA ExistingFree ==
  ASSUME SerialInv, NEW t \in Txs, NEW i \in Existing(t)
  PROVE  Free(t, i)
<1>1. i \in Calls /\ (state[i] = "pending" \/ Holds(t, i)) /\ i \notin Unavailable(t)
  BY DEF Existing
<1> QED
  BY <1>1 DEF Free, Unavailable, SerialInv, OneHolder

\* A call that returns has done to the row what its mode says.
LEMMA ReturnIsSerial ==
  ASSUME SerialInv, NEW c \in Calls, NEW i \in Calls, NEW y \in Contents, y # Blank,
         Write(TxOf[c], i, y), Done(c, i), pc[c] \in {"todo", "merging"},
         NEW m, mode' = [mode EXCEPT ![c] = m],
         UNCHANGED <<jobVars, log, found>>,
         Free(TxOf[c], i),
         \A d \in Calls : pc[d] = "merging" /\ TxOf[d] = TxOf[c] => d = c,
         Effect(m, c, log[i] \o did[TxOf[c]][i], Current(TxOf[c], i), y)
  PROVE  Serial'
<1> DEFINE t == TxOf[c]
           s == log[i] \o did[t][i]
           x == Current(t, i)
<1>t. t \in Txs
  BY TxAssumption
<1>1. /\ pc' = [pc EXCEPT ![c] = "done"] /\ result' = [result EXCEPT ![c] = i]
      /\ did' = [did EXCEPT ![t][i] = Append(@, c)]
      /\ \A d \in Calls : d # c => pc'[d] = pc[d] /\ result'[d] = result[d]
      /\ pc'[c] = "done"
  BY DEF Done, SerialInv, Inv, Typed
<1>2. /\ did'[t][i] = Append(did[t][i], c)
      /\ \A u \in Txs, k \in Calls : u # t \/ k # i => did'[u][k] = did[u][k]
  BY <1>1, <1>t DEF SerialInv, HistoriesTyped
<1>3. /\ Called \subseteq Called' /\ c \in Called'
      /\ Called \subseteq Calls
  BY <1>1 DEF Called
<1>4. /\ \A u \in Txs, k \in Calls : did[u][k] \in Seq(Called')
      /\ s \in Seq(Calls) /\ s \in Seq(Called)
  <2>1. Seq(Called) \subseteq Seq(Called') /\ Seq(Called) \subseteq Seq(Calls)
    BY <1>3, MoreCalled
  <2>2. s \in Seq(Called)
    BY <1>t, HistoryFacts
  <2> QED
    BY <2>1, <2>2 DEF SerialInv, HistoriesTyped
<1>5. did' \in [Txs -> [Calls -> Seq(Called')]]
  <2>1. Append(did[t][i], c) \in Seq(Called')
    <3> DEFINE r == did[t][i]
               S == Called'
    <3>1. r \in Seq(S) /\ c \in S
      BY <1>3, <1>4, <1>t
    <3> HIDE DEF r, S
    <3>2. Append(r, c) \in Seq(S)
      BY <3>1
    <3> QED
      BY <3>2 DEF r, S
  <2>2. \A u \in Txs, k \in Calls : did'[u][k] \in Seq(Called')
    BY <2>1, <1>2, <1>4
  <2>3. did' \in [Txs -> [Calls -> UNION {Seq(Called), {Append(did[t][i], c)}}]]
    BY <1>1, <1>t DEF SerialInv, HistoriesTyped
  <2> QED
    BY <2>2, <2>3
<1>6. log[i] \o did'[t][i] = Append(s, c)
  <2>1. \A e : log[i] \o Append(did[t][i], e) = Append(log[i] \o did[t][i], e)
    BY <1>t, HistoryFacts
  <2> QED
    BY <2>1, <1>2
<1>7. AfterBy(mode', Append(s, c), y)
  <2> DEFINE md == mode'
  <2>1. AfterBy(mode, s, x)
    BY <1>t, CurrentIsSerial
  <2>2. AfterBy(md, s, x) /\ md[c] = m
    BY <2>1, <1>4, ModeKept
  <2>3. x \in Contents
    BY <1>t DEF Current, SerialInv, Inv, Typed
  <2>4. Effect(m, c, s, x, y)
    OBVIOUS
  <2>5. s \in Seq(Calls)
    BY <1>4
  <2> HIDE DEF md, s, x
  <2>6. AfterBy(md, Append(s, c), y)
    BY <2>2, <2>3, <2>4, <2>5, CallAfter
  <2> QED
    BY <2>6 DEF md
<1>8. /\ HistoriesTyped' /\ OneHolder' /\ DraftsAreSerial' /\ RowsStart' /\ Replayed'
      /\ \A u \in Txs, k \in Calls : u # t \/ k # i => draft'[u][k] = draft[u][k]
  <2>1. /\ \A d \in Calls : pc[d] = "done" => pc'[d] = "done"
        /\ pc[c] # "done"
        /\ UNCHANGED <<jobVars, log>>
    BY <1>1
  <2>2. AfterBy(mode', log[i] \o did'[t][i], y)
    BY <1>6, <1>7
  <2>3. /\ \A u \in Txs : u # t => ~ Holds(u, i)
        /\ state[i] \in {"absent", "pending"}
    BY DEF Free
  <2> QED
    BY <1>2, <1>5, <2>1, <2>2, <2>3, SerialWrite
<1>9. MergesHold'
  <2> SUFFICES ASSUME NEW d \in Calls, pc'[d] = "merging"
               PROVE  /\ mode'[d] \in {"merge", "mergeKeep"}
                      /\ Holds(TxOf[d], result[d])'
                      /\ found'[d] = draft'[TxOf[d]][result'[d]]
                      /\ \A e \in Calls : pc'[e] = "merging" /\ TxOf[e] = TxOf[d] => e = d
    BY DEF MergesHold
  <2>1. d # c /\ pc[d] = "merging" /\ result'[d] = result[d] /\ mode'[d] = mode[d]
    BY <1>1, ModeKept
  <2>2. TxOf[d] # t /\ TxOf[d] \in Txs /\ result[d] \in Calls
    BY <2>1, TxAssumption DEF SerialInv, Inv, MergingOpen
  <2>3. draft'[TxOf[d]][result[d]] = draft[TxOf[d]][result[d]]
    BY <2>2, <1>8
  <2>4. \A e \in Calls : pc'[e] = "merging" => pc[e] = "merging"
    BY <1>1
  <2> QED
    BY <2>1, <2>3, <2>4 DEF SerialInv, MergesHold, Holds
<1> QED
  BY <1>8, <1>9 DEF Serial

\* A row that a query finds has been written by calls.
LEMMA SeenWritten ==
  ASSUME SerialInv, NEW t \in Txs, NEW i \in Calls, Current(t, i) # Blank
  PROVE  log[i] \o did[t][i] # <<>>
<1>1. AfterBy(mode, log[i] \o did[t][i], Current(t, i))
  BY CurrentIsSerial
<1>2. Current(t, i) \in Contents
  BY DEF Current, SerialInv, Inv, Typed
<1>3. AfterBy(mode, <<>>, Current(t, i)) => Current(t, i) = Blank
  BY <1>2, BlankAfter
<1> QED
  BY <1>1, <1>3

LEMMA InsertSerial ==
  ASSUME SerialInv, NEW c \in Calls, NEW m, Insert(c, m)
  PROVE  Serial'
<1> DEFINE t == TxOf[c]
<1>t. t \in Txs
  BY TxAssumption
<1>1. /\ Write(t, c, New(c)) /\ Done(c, c) /\ mode' = [mode EXCEPT ![c] = m]
      /\ UNCHANGED <<jobVars, log, found>>
      /\ pc[c] = "todo"
      /\ \A d \in Calls : pc[d] = "merging" /\ TxOf[d] = t => d = c
  BY DEF Insert, MayCall
<1>2. ~ Live(c) /\ state[c] = "absent"
  BY <1>1 DEF SerialInv, Inv, LiveDone, RowsStart, Typed
<1>3. Free(t, c) /\ log[c] = <<>> /\ did[t][c] = <<>>
  BY <1>2, <1>t DEF Free, Live, SerialInv, RowsStart, DraftsAreSerial
<1>4. log[c] \o did[t][c] = <<>>
  BY <1>3, <1>t, HistoryFacts
<1>5. New(c) \in Contents /\ New(c) # Blank
  BY NewContents
<1>6. Effect(m, c, log[c] \o did[t][c], Current(t, c), New(c))
  BY <1>4 DEF Effect
<1> QED
  BY <1>1, <1>3, <1>5, <1>6, ReturnIsSerial

LEMMA AbsorbSerial ==
  ASSUME SerialInv, NEW c \in Calls, NEW m, Absorb(c, m)
  PROVE  Serial'
<1> DEFINE t == TxOf[c]
<1>t. t \in Txs
  BY TxAssumption
<1>1. PICK i \in Existing(t) :
        Write(t, i, IF m = "keep" THEN Current(t, i) ELSE New(c)) /\ Done(c, i)
  BY DEF Absorb
<1> DEFINE y == IF m = "keep" THEN Current(t, i) ELSE New(c)
<1>2. /\ mode' = [mode EXCEPT ![c] = m]
      /\ UNCHANGED <<jobVars, log, found>>
      /\ pc[c] = "todo" /\ m \in {"keep", "replace"}
      /\ \A d \in Calls : pc[d] = "merging" /\ TxOf[d] = t => d = c
  BY DEF Absorb, MayCall
<1>3. i \in Calls /\ Free(t, i) /\ Current(t, i) \in Contents /\ Current(t, i) # Blank
  BY <1>t, ExistingFree, ExistingLive DEF SerialInv
<1>4. log[i] \o did[t][i] # <<>>
  BY <1>3, <1>t, SeenWritten
<1>5. y \in Contents /\ y # Blank /\ Write(t, i, y)
  BY <1>1, <1>3, NewContents
<1>6. Effect(m, c, log[i] \o did[t][i], Current(t, i), y)
  BY <1>2, <1>4 DEF Effect
<1> HIDE DEF y
<1> QED
  BY <1>1, <1>2, <1>3, <1>5, <1>6, ReturnIsSerial

LEMMA MergeSerial ==
  ASSUME SerialInv, NEW c \in Calls, Merge(c)
  PROVE  Serial'
<1> DEFINE t == TxOf[c]
           i == result[c]
           m == mode[c]
           y == [arg |-> found[c].arg \cup {c},
                 start |-> IF m = "mergeKeep" THEN found[c].start ELSE c]
<1>t. t \in Txs /\ i \in Calls
  BY TxAssumption DEF Merge, SerialInv, Inv, MergingOpen
<1>1. /\ Write(t, i, y) /\ Done(c, i) /\ pc[c] = "merging"
      /\ UNCHANGED <<jobVars, log, found>>
      /\ mode' = [mode EXCEPT ![c] = m]
  BY DEF Merge, SerialInv, Inv, Typed
<1>2. /\ m \in {"merge", "mergeKeep"} /\ Holds(t, i) /\ found[c] = Current(t, i)
      /\ \A d \in Calls : pc[d] = "merging" /\ TxOf[d] = t => d = c
  BY <1>1 DEF SerialInv, MergesHold, Current
<1>3. Free(t, i)
  BY <1>2, <1>t DEF Free, SerialInv, OneHolder
<1>4. log[i] \o did[t][i] # <<>>
  BY <1>2, <1>t, SeenWritten DEF Holds, Current
<1>5. found[c] \in Contents
  BY DEF SerialInv, Inv, Typed
<1>6. y \in Contents /\ y # Blank
  BY <1>5 DEF Contents, Blank
<1>7. Effect(m, c, log[i] \o did[t][i], Current(t, i), y)
  BY <1>2, <1>4 DEF Effect
<1> HIDE DEF y, m, i
<1> QED
  BY <1>t, <1>1, <1>2, <1>3, <1>6, <1>7, ReturnIsSerial

LEMMA StartMergeSerial ==
  ASSUME SerialInv, NEW c \in Calls, NEW m, StartMerge(c, m)
  PROVE  Serial'
<1> DEFINE t == TxOf[c]
<1>t. t \in Txs
  BY TxAssumption
<1>1. PICK i \in Existing(t) :
        /\ Write(t, i, Current(t, i))
        /\ found' = [found EXCEPT ![c] = Current(t, i)]
        /\ result' = [result EXCEPT ![c] = i]
  BY DEF StartMerge
<1> DEFINE x == Current(t, i)
<1>2. /\ mode' = [mode EXCEPT ![c] = m] /\ m \in {"merge", "mergeKeep"}
      /\ UNCHANGED <<jobVars, log>> /\ UNCHANGED did
      /\ pc[c] = "todo" /\ pc' = [pc EXCEPT ![c] = "merging"]
      /\ \A d \in Calls : pc[d] = "merging" => TxOf[d] # t
  BY DEF StartMerge, MayCall
<1>3. i \in Calls /\ Free(t, i) /\ x \in Contents /\ x # Blank
  BY <1>t, ExistingFree, ExistingLive DEF SerialInv
<1>4. /\ \A d \in Calls : d # c => /\ pc'[d] = pc[d] /\ result'[d] = result[d]
                                   /\ found'[d] = found[d]
      /\ pc'[c] = "merging" /\ result'[c] = i /\ found'[c] = x
  BY <1>1, <1>2 DEF SerialInv, Inv, Typed
<1>5. did' \in [Txs -> [Calls -> Seq(Called')]]
  <2>1. Called' = Called
    BY <1>2, <1>4 DEF Called
  <2> QED
    BY <2>1, <1>2 DEF SerialInv, HistoriesTyped
<1>6. AfterBy(mode', log[i] \o did'[t][i], x)
  <2>1. AfterBy(mode, log[i] \o did[t][i], x)
    BY <1>3, <1>t, CurrentIsSerial
  <2>2. log[i] \o did[t][i] \in Seq(Called)
    BY <1>3, <1>t, HistoryFacts
  <2>3. AfterBy(mode', log[i] \o did[t][i], x)
    BY <2>1, <2>2, <1>2, ModeKept
  <2> QED
    BY <2>3, <1>2
<1>7. /\ HistoriesTyped' /\ OneHolder' /\ DraftsAreSerial' /\ RowsStart' /\ Replayed'
      /\ \A u \in Txs, k \in Calls : u # t \/ k # i => draft'[u][k] = draft[u][k]
      /\ draft'[t][i] = x
  <2>1. /\ \A d \in Calls : pc[d] = "done" => pc'[d] = "done"
        /\ pc[c] # "done"
        /\ \A u \in Txs, k \in Calls : u # t \/ k # i => did'[u][k] = did[u][k]
        /\ UNCHANGED <<jobVars, log>>
    BY <1>2, <1>4
  <2>2. /\ \A u \in Txs : u # t => ~ Holds(u, i)
        /\ state[i] \in {"absent", "pending"}
    BY <1>3 DEF Free
  <2>3. Write(t, i, x)
    BY <1>1
  <2> HIDE DEF x
  <2> QED
    BY <1>2, <1>3, <1>5, <1>6, <2>1, <2>2, <2>3, SerialWrite
<1>8. MergesHold'
  <2> SUFFICES ASSUME NEW d \in Calls, pc'[d] = "merging"
               PROVE  /\ mode'[d] \in {"merge", "mergeKeep"}
                      /\ Holds(TxOf[d], result[d])'
                      /\ found'[d] = draft'[TxOf[d]][result'[d]]
                      /\ \A e \in Calls : pc'[e] = "merging" /\ TxOf[e] = TxOf[d] => e = d
    BY DEF MergesHold
  <2>1. CASE d = c
    <3>1. mode'[c] = m
      BY <1>2, ModeKept
    <3>2. \A e \in Calls : pc'[e] = "merging" /\ TxOf[e] = t => e = c
      BY <1>2, <1>4
    <3> QED
      BY <2>1, <3>1, <3>2, <1>2, <1>3, <1>4, <1>7 DEF Holds
  <2>2. CASE d # c
    <3>1. pc[d] = "merging" /\ result'[d] = result[d] /\ found'[d] = found[d]
      BY <2>2, <1>4
    <3>2. mode'[d] = mode[d]
      BY <2>2, <1>2, ModeKept
    <3>3. TxOf[d] # t /\ TxOf[d] \in Txs /\ result[d] \in Calls
      BY <3>1, <1>2, TxAssumption DEF SerialInv, Inv, MergingOpen
    <3>4. draft'[TxOf[d]][result[d]] = draft[TxOf[d]][result[d]]
      BY <3>3, <1>7
    <3>5. \A e \in Calls : pc'[e] = "merging" /\ TxOf[e] = TxOf[d] => e = d
      BY <3>1, <3>3, <1>4 DEF SerialInv, MergesHold
    <3> QED
      BY <3>1, <3>2, <3>4, <3>5 DEF SerialInv, MergesHold, Holds
  <2> QED
    BY <2>1, <2>2
<1> QED
  BY <1>7, <1>8 DEF Serial

LEMMA MergeFailsSerial ==
  ASSUME SerialInv, NEW c \in Calls, MergeFails(c)
  PROVE  Serial'
<1>1. /\ pc[c] = "merging" /\ pc' = [pc EXCEPT ![c] = "failed"]
      /\ result' = [result EXCEPT ![c] = NoCall]
      /\ UNCHANGED <<jobVars, draft, mode, found, did, log>>
  BY DEF MergeFails
<1>2. Called' = Called
  BY <1>1 DEF Called, SerialInv, Inv, Typed
<1>3. HistoriesTyped'
  BY <1>1, <1>2 DEF SerialInv, HistoriesTyped, jobVars
<1>4. OneHolder' /\ DraftsAreSerial'
  BY <1>1 DEF SerialInv, OneHolder, DraftsAreSerial, Holds, jobVars
<1>5. RowsStart' /\ MergesHold'
  BY <1>1 DEF SerialInv, RowsStart, MergesHold, Holds, jobVars, Inv, Typed
<1>6. Replayed'
  BY <1>1 DEF SerialInv, Replayed, jobVars
<1> QED
  BY <1>3, <1>4, <1>5, <1>6 DEF Serial

-----------------------------------------------------------------------------
(* The end of a transaction touches no row it does not have.                  *)

LEMMA EndSerial ==
  ASSUME SerialInv, NEW t \in Txs, NEW how, Ended(t, how),
         UNCHANGED <<mode, result, found, ran>>,
         \A d \in Calls : pc'[d] = "merging" => pc[d] = "merging" /\ TxOf[d] # t,
         \A d \in Calls : pc'[d] = "done" <=> pc[d] = "done",
         log' \in [Calls -> Seq(Called)],
         \A k \in Calls : ~ Holds(t, k) => log'[k] = log[k] /\ state'[k] = state[k]
  PROVE  HistoriesTyped' /\ OneHolder' /\ DraftsAreSerial' /\ MergesHold'
<1>1. /\ \A u \in Txs, k \in Calls : Holds(u, k)' <=> Holds(u, k) /\ u # t
      /\ \A u \in Txs, k \in Calls : u # t => /\ draft'[u][k] = draft[u][k]
                                              /\ did'[u][k] = did[u][k]
      /\ \A k \in Calls : did'[t][k] = <<>>
  BY DEF Ended, Holds, SerialInv, HistoriesTyped, Inv, Typed
<1>2. Called' = Called
  BY DEF Called
<1>3. HistoriesTyped'
  <2>1. did' \in [Txs -> [Calls -> Seq(Called)]]
    BY EmptySeqs DEF Ended, SerialInv, HistoriesTyped
  <2> QED
    BY <2>1, <1>2 DEF SerialInv, HistoriesTyped
<1>4. OneHolder'
  BY <1>1 DEF SerialInv, OneHolder
<1>5. DraftsAreSerial'
  <2> SUFFICES ASSUME NEW u \in Txs, NEW k \in Calls
               PROVE  /\ Holds(u, k)' => AfterBy(mode, log'[k] \o did'[u][k], draft'[u][k])
                      /\ ~ Holds(u, k)' => did'[u][k] = <<>>
    BY DEF DraftsAreSerial
  <2>1. CASE u = t
    BY <2>1, <1>1
  <2>2. CASE u # t
    <3>1. Holds(u, k) => ~ Holds(t, k)
      BY <2>2 DEF SerialInv, OneHolder
    <3> QED
      BY <2>2, <3>1, <1>1 DEF SerialInv, DraftsAreSerial
  <2> QED
    BY <2>1, <2>2
<1>6. MergesHold'
  <2> SUFFICES ASSUME NEW d \in Calls, pc'[d] = "merging"
               PROVE  /\ mode[d] \in {"merge", "mergeKeep"}
                      /\ Holds(TxOf[d], result[d])'
                      /\ found[d] = draft'[TxOf[d]][result[d]]
                      /\ \A e \in Calls : pc'[e] = "merging" /\ TxOf[e] = TxOf[d] => e = d
    BY DEF MergesHold
  <2>1. pc[d] = "merging" /\ TxOf[d] # t /\ TxOf[d] \in Txs /\ result[d] \in Calls
    BY TxAssumption DEF SerialInv, Inv, MergingOpen
  <2> QED
    BY <2>1, <1>1 DEF SerialInv, MergesHold, Holds
<1> QED
  BY <1>3, <1>4, <1>5, <1>6

LEMMA CommitSerial ==
  ASSUME SerialInv, NEW t \in Txs, Commit(t)
  PROVE  Serial'
<1>1. /\ Ended(t, "committed") /\ UNCHANGED <<pc, mode, result, found, ran>>
      /\ \A d \in Calls : TxOf[d] = t => pc[d] # "merging"
      /\ \A k \in Calls :
           /\ row'[k] = Current(t, k)
           /\ state'[k] = IF Holds(t, k) /\ state[k] = "absent" THEN "pending"
                                                                ELSE state[k]
           /\ log'[k] = log[k] \o did[t][k]
      /\ log' = [k \in Calls |-> log[k] \o did[t][k]]
  BY DEF Commit, MayEnd, callVars
<1>2. /\ log' \in [Calls -> Seq(Called)]
      /\ \A k \in Calls : ~ Holds(t, k) => log'[k] = log[k]
  <2>1. \A k \in Calls : log[k] \o did[t][k] \in Seq(Called)
    BY HistoryFacts
  <2>2. \A k \in Calls : ~ Holds(t, k) => log[k] \o did[t][k] = log[k]
    BY HistoryFacts DEF SerialInv, DraftsAreSerial
  <2> QED
    BY <1>1, <2>1, <2>2
<1>3. HistoriesTyped' /\ OneHolder' /\ DraftsAreSerial' /\ MergesHold'
  <2>1. /\ UNCHANGED <<mode, result, found, ran>>
        /\ \A d \in Calls : pc'[d] = "merging" => pc[d] = "merging" /\ TxOf[d] # t
        /\ \A d \in Calls : pc'[d] = "done" <=> pc[d] = "done"
        /\ \A k \in Calls : ~ Holds(t, k) => log'[k] = log[k] /\ state'[k] = state[k]
    BY <1>1, <1>2
  <2> QED
    BY <1>1, <1>2, <2>1, EndSerial
<1>4. RowsStart'
  <2>1. \A k \in Calls : Holds(t, k) => pc[k] = "done"
    BY DEF SerialInv, Inv, LiveDone, Live
  <2> QED
    BY <1>1, <1>2, <2>1 DEF SerialInv, RowsStart
<1>5. Replayed'
  <2>1. \A k \in Calls : AfterBy(mode, log[k] \o did[t][k], Current(t, k))
    BY CurrentIsSerial
  <2>2. \A k \in Calls : AfterBy(mode', log'[k], row'[k])
    BY <1>1, <2>1
  <2>3. ASSUME NEW k \in Calls, state'[k] \in {"running", "done"}
        PROVE  ran'[k] = ArgBy(mode', log'[k])
    <3>1. state[k] \in {"running", "done"} /\ ~ Holds(t, k)
      BY <1>1, <2>3 DEF SerialInv, OneHolder
    <3> QED
      BY <3>1, <1>1, <1>2 DEF SerialInv, Replayed
  <2> QED
    BY <2>2, <2>3 DEF Replayed
<1> QED
  BY <1>3, <1>4, <1>5 DEF Serial

LEMMA RollbackSerial ==
  ASSUME SerialInv, NEW t \in Txs, Rollback(t)
  PROVE  Serial'
<1>1. /\ Ended(t, "rolledBack")
      /\ \A d \in Calls : pc'[d] = IF TxOf[d] = t /\ pc[d] = "merging" THEN "failed"
                                                                       ELSE pc[d]
      /\ UNCHANGED <<state, row, ran, mode, result, found, log>>
  BY DEF Rollback, jobVars
<1>2. HistoriesTyped' /\ OneHolder' /\ DraftsAreSerial' /\ MergesHold'
  <2>1. /\ UNCHANGED <<mode, result, found, ran>>
        /\ \A d \in Calls : pc'[d] = "merging" => pc[d] = "merging" /\ TxOf[d] # t
        /\ \A d \in Calls : pc'[d] = "done" <=> pc[d] = "done"
        /\ log' \in [Calls -> Seq(Called)]
        /\ \A k \in Calls : ~ Holds(t, k) => log'[k] = log[k] /\ state'[k] = state[k]
    BY <1>1 DEF SerialInv, HistoriesTyped
  <2> QED
    BY <1>1, <2>1, EndSerial
<1>3. RowsStart' /\ Replayed'
  BY <1>1 DEF SerialInv, RowsStart, Replayed
<1> QED
  BY <1>2, <1>3 DEF Serial

-----------------------------------------------------------------------------
(* A worker takes the argument the row has then.                              *)

LEMMA WorkerSerial ==
  ASSUME SerialInv, NEW i \in Calls,
         Claim(i) \/ \E how \in {"done", "pending"} : Finish(i, how)
  PROVE  Serial'
<1>1. PICK to \in {"pending", "running", "done"} :
        /\ state' = [state EXCEPT ![i] = to]
        /\ UNCHANGED <<row, draft, callVars, did, log>>
        /\ \A k \in Calls : k # i => ran'[k] = ran[k]
        /\ ran' \in [Calls -> SUBSET Calls]
        /\ state[i] \in {"pending", "running"}
        /\ \A t \in Txs : ~ Holds(t, i)
        /\ to \in {"running", "done"} =>
             \/ state[i] = "pending" /\ ran'[i] = row[i].arg
             \/ state[i] = "running" /\ ran'[i] = ran[i]
  <2>1. ran \in [Calls -> SUBSET Calls] /\ row[i].arg \subseteq Calls
    BY DEF SerialInv, HistoriesTyped, Inv, Typed, Contents
  <2>2. state[i] = "running" => \A t \in Txs : ~ Holds(t, i)
    BY DEF SerialInv, OneHolder
  <2>3. CASE Claim(i)
    BY <2>1, <2>3 DEF Claim
  <2>4. CASE \E how \in {"done", "pending"} : Finish(i, how)
    BY <2>1, <2>2, <2>4 DEF Finish
  <2> QED
    BY <2>3, <2>4
<1>2. state'[i] = to /\ \A k \in Calls : k # i => state'[k] = state[k]
  BY <1>1 DEF SerialInv, Inv, Typed
<1>3. \A t \in Txs, k \in Calls : Holds(t, k)' <=> Holds(t, k)
  BY <1>1 DEF Holds
<1>4. HistoriesTyped'
  BY <1>1 DEF SerialInv, HistoriesTyped, Called, callVars
<1>5. OneHolder'
  BY <1>1, <1>2, <1>3 DEF SerialInv, OneHolder
<1>6. DraftsAreSerial'
  BY <1>1, <1>3 DEF SerialInv, DraftsAreSerial, callVars
<1>7. RowsStart'
  BY <1>1, <1>2 DEF SerialInv, RowsStart, callVars
<1>8. MergesHold'
  BY <1>1 DEF SerialInv, MergesHold, Holds, callVars
<1>9. Replayed'
  <2>1. \A k \in Calls : AfterBy(mode', log'[k], row'[k]) /\ row[k].arg = ArgBy(mode, log[k])
    BY <1>1 DEF SerialInv, Replayed, AfterBy, callVars
  <2>2. ASSUME NEW k \in Calls, state'[k] \in {"running", "done"}
        PROVE  ran'[k] = ArgBy(mode', log'[k])
    <3>1. CASE k = i
      BY <3>1, <2>1, <2>2, <1>1, <1>2 DEF SerialInv, Replayed, callVars
    <3>2. CASE k # i
      BY <3>2, <2>2, <1>1, <1>2 DEF SerialInv, Replayed, callVars
    <3> QED
      BY <3>1, <3>2
  <2> QED
    BY <2>1, <2>2 DEF Replayed
<1> QED
  BY <1>4, <1>5, <1>6, <1>7, <1>8, <1>9 DEF Serial

LEMMA StutterSerial == SerialInv /\ UNCHANGED addVars => Serial'
BY DEF SerialInv, Serial, HistoriesTyped, OneHolder, DraftsAreSerial, RowsStart,
       MergesHold, Replayed, Called, Holds, addVars

LEMMA SerialStep == SerialInv /\ [Next]_addVars => SerialInv'
<1> SUFFICES ASSUME SerialInv, [Next]_addVars PROVE SerialInv'
  OBVIOUS
<1>1. ASSUME NEW c \in Calls, Call(c) PROVE Serial'
  BY <1>1, InsertSerial, AbsorbSerial, StartMergeSerial, MergeSerial, MergeFailsSerial
     DEF Call
<1>2. ASSUME NEW t \in Txs, Commit(t) \/ Rollback(t) PROVE Serial'
  BY <1>2, CommitSerial, RollbackSerial
<1>3. ASSUME NEW i \in Calls,
             Claim(i) \/ \E how \in {"done", "pending"} : Finish(i, how)
      PROVE  Serial'
  BY <1>3, WorkerSerial
<1>4. ASSUME UNCHANGED addVars PROVE Serial'
  BY <1>4, StutterSerial
<1>5. Serial'
  BY <1>1, <1>2, <1>3, <1>4 DEF Next
<1>6. Inv'
  BY NextKeeps DEF SerialInv
<1> QED
  BY <1>5, <1>6 DEF SerialInv, Serial

\* The rows and the transactions' work on them stay what the calls make of them.
LEMMA SerialHolds == Spec => []SerialInv
BY SerialInit, SerialStep, PTL DEF Spec

\* add's query and update (main.go:909-1022), in one statement or with
\* debounceMerge between two: however the calls of transactions interleave, a row
\* holds what its committed calls give one after the other, so no merge is lost.
THEOREM RowsCorrect == Spec => []RowsAreSerial
<1>1. SerialInv => RowsAreSerial
  BY ModesNow DEF SerialInv, Replayed
<1> QED
  BY <1>1, SerialHolds, PTL

\* getAndClaimJob (main.go:427-434) skips rows that are locked and keeps the one
\* it reads, so that a run has the work of every committed call with its id.
THEOREM RunsCorrect == Spec => []RunHasAllCalls
<1>1. SerialInv => RunHasAllCalls
  BY ModesNow DEF SerialInv, Replayed
<1> QED
  BY <1>1, SerialHolds, PTL
=============================================================================
