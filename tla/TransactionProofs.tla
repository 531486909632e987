--------------------------- MODULE TransactionProofs ---------------------------
(***************************************************************************)
(* Theorems about Transaction: callbacks follow the outcome, and the reply *)
(* matches it, for every number of callbacks and of rounds.                *)
(***************************************************************************)
EXTENDS Transaction, SequenceTheorems, TLAPS

-----------------------------------------------------------------------------
(* Sequences of the numbers of callbacks.                                  *)

Has(s, n) == \E i \in 1..Len(s) : s[i] = n
Distinct(s) == \A i, j \in 1..Len(s) : s[i] = s[j] => i = j

LEMMA EmptyHas == Distinct(<<>>) /\ \A n : ~ Has(<<>>, n)
BY DEF Distinct, Has

LEMMA AppendHas ==
  ASSUME NEW s \in Seq(Nat), NEW n \in Nat
  PROVE  /\ Append(s, n) \in Seq(Nat)
         /\ \A m : Has(Append(s, n), m) <=> Has(s, m) \/ m = n
         /\ Distinct(s) /\ ~ Has(s, n) => Distinct(Append(s, n))
<1>1. /\ Append(s, n) \in Seq(Nat) /\ Len(Append(s, n)) = Len(s) + 1
      /\ Append(s, n)[Len(s) + 1] = n
      /\ \A i \in 1..Len(s) : Append(s, n)[i] = s[i]
  OBVIOUS
<1>2. Len(s) \in Nat
  OBVIOUS
<1>3. ASSUME NEW m PROVE Has(Append(s, n), m) <=> Has(s, m) \/ m = n
  BY <1>1, <1>2 DEF Has
<1>4. ASSUME Distinct(s), ~ Has(s, n) PROVE Distinct(Append(s, n))
  BY <1>1, <1>2, <1>4 DEF Has, Distinct
<1> QED
  BY <1>1, <1>3, <1>4

LEMMA TailHas ==
  ASSUME NEW s \in Seq(Nat), s # <<>>
  PROVE  /\ Tail(s) \in Seq(Nat) /\ Head(s) \in Nat
         /\ \A m : Has(s, m) <=> m = Head(s) \/ Has(Tail(s), m)
         /\ Distinct(s) => Distinct(Tail(s)) /\ ~ Has(Tail(s), Head(s))
<1>1. /\ Len(s) \in Nat /\ Len(s) >= 1 /\ Head(s) = s[1] /\ Len(Tail(s)) = Len(s) - 1
      /\ Tail(s) \in Seq(Nat) /\ Head(s) \in Nat
      /\ \A i \in 1..Len(Tail(s)) : Tail(s)[i] = s[i + 1]
  OBVIOUS
<1>2. ASSUME NEW m PROVE Has(s, m) <=> m = Head(s) \/ Has(Tail(s), m)
  <2>1. ASSUME Has(s, m) PROVE m = Head(s) \/ Has(Tail(s), m)
    <3>1. PICK i \in 1..Len(s) : s[i] = m
      BY <2>1 DEF Has
    <3>2. CASE i = 1
      BY <1>1, <3>1, <3>2
    <3>3. CASE i # 1
      <4>1. i - 1 \in 1..Len(Tail(s)) /\ Tail(s)[i - 1] = m
        BY <1>1, <3>1, <3>3
      <4> QED
        BY <4>1 DEF Has
    <3> QED
      BY <3>2, <3>3
  <2>2. ASSUME Has(Tail(s), m) PROVE Has(s, m)
    BY <1>1, <2>2 DEF Has
  <2>3. Has(s, Head(s))
    BY <1>1 DEF Has
  <2> QED
    BY <2>1, <2>2, <2>3
<1>3. ASSUME Distinct(s) PROVE Distinct(Tail(s)) /\ ~ Has(Tail(s), Head(s))
  BY <1>1, <1>3 DEF Distinct, Has
<1> QED
  BY <1>1, <1>2, <1>3

-----------------------------------------------------------------------------
(* The invariant.                                                          *)

Over == {"committed", "failed", "rolledback"}
Numbers == 1..Len(txCalls)

TxTypeOK ==
  /\ txKind \in {"request", "func", "query"}
  /\ txPc \in {"begin", "body", "callbacks", "cleanup", "end", "waiting", "done"}
  /\ txBack \in {"body", "cleanup", "end"}
  /\ commitCalled \in BOOLEAN
  /\ txEnd \in {"none", "open"} \cup Over
  /\ txCalls \in Seq([end : Ends, late : BOOLEAN])
  /\ commitCallbacks \in Seq(Nat) /\ rollbackCallbacks \in Seq(Nat)
  /\ txQueue \in Seq(Nat) /\ txRan \in Seq(Nat)
  /\ txStatus \in {"none", "ok", "error"} /\ txSent \in {"none", "ok", "error"}
  /\ txFlags \subseteq {"self", "panic", "broken"}

\* Where the transaction is tells whether it is over.
Phases ==
  /\ commitCalled <=> txEnd \in Over
  /\ txPc = "begin" => txEnd = "none" /\ txFlags = {} /\ txCalls = <<>>
  /\ txPc = "callbacks" => commitCalled
  /\ txPc \in {"body", "cleanup"} => txEnd # "none"
  /\ txPc \in {"end", "waiting", "done"} => txEnd # "open"

\* The callbacks of an end are the calls for it that did not come late.
Registered(end, callbacks) ==
  /\ Distinct(callbacks)
  /\ \A n \in Nat : Has(callbacks, n) <=>
       n \in Numbers /\ txCalls[n].end = end /\ ~ txCalls[n].late

AllRegistered ==
  /\ Registered("commit", commitCallbacks)
  /\ Registered("rollback", rollbackCallbacks)

\* What has run and what will.
RunOnce ==
  /\ Distinct(txRan) /\ Distinct(txQueue)
  /\ \A n \in Nat : Has(txRan, n) => n \in Numbers /\ ~ Has(txQueue, n)
  /\ \A n \in Nat : Has(txQueue, n) =>
       n \in Numbers /\ ~ txCalls[n].late /\ txCalls[n].end = OfEnd(txEnd)
  /\ txPc # "callbacks" => txQueue = <<>>

Outcome ==
  /\ ~ commitCalled => txRan = <<>> /\ txQueue = <<>>
  /\ \A n \in Numbers :
       /\ txCalls[n].late => Has(txRan, n)
       /\ Has(txRan, n) => txCalls[n].late \/ txCalls[n].end = OfEnd(txEnd)
       /\ commitCalled /\ "broken" \notin txFlags /\ txCalls[n].end = OfEnd(txEnd)
            => Has(txRan, n) \/ Has(txQueue, n)

\* What a request's client is told, once the handler has returned.
Told ==
  /\ txSent = "none" => txEnd = "committed"
  /\ txSent = txStatus => (txSent = "ok" => txEnd \in {"committed", "failed"})
  /\ txStatus = "error" => txEnd = "rolledback"
  /\ txEnd = "failed" => txSent # "none"

Replies ==
  /\ txStatus # "none" => txSent # "none"
  /\ txPc = "done" => txKind = "request"
  /\ txPc = "body" /\ commitCalled => "self" \in txFlags
  /\ txPc = "callbacks" /\ txBack = "body" => "self" \in txFlags
  /\ /\ txKind = "request" /\ txPc \in {"callbacks", "cleanup", "end", "done"}
     /\ txFlags = {} /\ txEnd # "none"
     => commitCalled /\ Told

TxInv == TxTypeOK /\ Phases /\ AllRegistered /\ RunOnce /\ Outcome /\ Replies

LEMMA TxInitInv == TxInit => TxInv
<1> SUFFICES ASSUME TxInit PROVE TxInv
  OBVIOUS
<1> USE DEF TxInit, Fresh
<1>1. TxTypeOK
  <2>1. \A S : <<>> \in Seq(S)
    OBVIOUS
  <2> QED
    BY <2>1 DEF TxTypeOK
<1>2. Phases /\ Replies
  BY DEF Phases, Replies, Over
<1>3. AllRegistered /\ RunOnce /\ Outcome
  BY EmptyHas DEF AllRegistered, Registered, RunOnce, Outcome, Numbers
<1> QED
  BY <1>1, <1>2, <1>3 DEF TxInv

-----------------------------------------------------------------------------
(* The callbacks.                                                          *)

CallbacksOK == AllRegistered /\ RunOnce /\ Outcome

\* A step that leaves the callbacks and the outcome alone.
LEMMA CallbacksKept ==
  ASSUME TxInv, UNCHANGED <<infoVars, callbackVars>>, txFlags \subseteq txFlags',
         txPc' = "callbacks" \/ txQueue = <<>>
  PROVE  CallbacksOK'
<1> USE DEF TxInv, infoVars, callbackVars
<1>1. AllRegistered'
  BY DEF AllRegistered, Registered, Numbers, Has, Distinct
<1>2. RunOnce'
  BY DEF RunOnce, Numbers, Has, Distinct, OfEnd
<1>3. Outcome'
  BY DEF Outcome, Numbers, Has, OfEnd
<1> QED
  BY <1>1, <1>2, <1>3 DEF CallbacksOK

\* The end queues the callbacks for it, and only those.
LEMMA EndQueues ==
  ASSUME TxInv, ~ commitCalled, NEW end \in Over, NEW back, EndTx(end, back)
  PROVE  CallbacksOK'
<1>1. AllRegistered'
  BY DEF TxInv, EndTx, AllRegistered, Registered, Numbers, Has, Distinct
<1>2. Registered(OfEnd(end), txQueue') /\ txRan = <<>> /\ txRan' = <<>> /\ txQueue' \in Seq(Nat)
  BY DEF TxInv, TxTypeOK, EndTx, AllRegistered, OfEnd, Outcome, Over
<1>3. txEnd' = end /\ commitCalled' /\ txPc' = "callbacks" /\ txCalls' = txCalls
  BY DEF EndTx
<1>4. RunOnce'
  BY <1>2, <1>3, EmptyHas DEF RunOnce, Registered, Numbers, Has, Distinct
<1>5. \A n \in Numbers : ~ txCalls[n].late
  BY <1>2, EmptyHas DEF TxInv, Outcome
<1>6. ASSUME NEW n \in Numbers, txCalls[n].end = OfEnd(end) PROVE Has(txQueue', n)
  <2>1. n \in Nat
    BY DEF Numbers, TxInv, TxTypeOK
  <2> QED
    BY <1>2, <1>5, <1>6, <2>1 DEF Registered
<1>7. Outcome'
  <2>1. Numbers' = Numbers /\ txCalls' = txCalls
    BY <1>3 DEF Numbers
  <2>2. \A n : ~ Has(txRan', n)
    BY <1>2, EmptyHas
  <2>3. \A n \in Numbers : Has(txQueue, n)' <=> Has(txQueue', n)
    BY DEF Has
  <2>4. \A n \in Numbers : Has(txRan, n)' <=> Has(txRan', n)
    BY DEF Has
  <2>5. OfEnd(txEnd)' = OfEnd(end)
    BY <1>3 DEF OfEnd
  <2> QED
    BY <1>3, <1>5, <1>6, <2>1, <2>2, <2>3, <2>4, <2>5 DEF Outcome
<1> QED
  BY <1>1, <1>4, <1>7 DEF CallbacksOK

\* One callback moves from the queue to those that ran.
LEMMA CallbackRuns ==
  ASSUME TxInv, txQueue # <<>>, txPc = "callbacks", txRan' = Append(txRan, Head(txQueue)),
         \/ txQueue' = Tail(txQueue) /\ txPc' = "callbacks" /\ txFlags' = txFlags
         \/ txQueue' = <<>> /\ "broken" \in txFlags',
         UNCHANGED <<infoVars, txCalls, commitCallbacks, rollbackCallbacks>>
  PROVE  CallbacksOK' /\ txRan' \in Seq(Nat) /\ txQueue' \in Seq(Nat)
<1> DEFINE h == Head(txQueue)
<1>1. /\ h \in Nat /\ Tail(txQueue) \in Seq(Nat) /\ Distinct(Tail(txQueue))
      /\ ~ Has(Tail(txQueue), h) /\ \A m : Has(txQueue, m) <=> m = h \/ Has(Tail(txQueue), m)
  BY TailHas DEF TxInv, TxTypeOK, RunOnce
<1>2. ~ Has(txRan, h) /\ h \in Numbers /\ ~ txCalls[h].late /\ txCalls[h].end = OfEnd(txEnd)
  BY <1>1 DEF TxInv, RunOnce
<1>3. /\ txRan' \in Seq(Nat) /\ Distinct(txRan')
      /\ \A m : Has(txRan', m) <=> Has(txRan, m) \/ m = h
  BY <1>1, <1>2, AppendHas DEF TxInv, TxTypeOK, RunOnce
<1>4. /\ txQueue' \in Seq(Nat) /\ Distinct(txQueue')
      /\ \A m : Has(txQueue', m) => Has(Tail(txQueue), m)
      /\ "broken" \notin txFlags' => txQueue' = Tail(txQueue) /\ txFlags' = txFlags
  <2>1. CASE txQueue' = Tail(txQueue) /\ txFlags' = txFlags
    BY <1>1, <2>1
  <2>2. CASE txQueue' = <<>> /\ "broken" \in txFlags'
    <3>1. Distinct(txQueue') /\ \A m : ~ Has(txQueue', m)
      BY <2>2, EmptyHas
    <3>2. txQueue' \in Seq(Nat)
      BY <2>2
    <3> QED
      BY <2>2, <3>1, <3>2
  <2> QED
    BY <2>1, <2>2
<1>5. commitCalled /\ Numbers' = Numbers /\ txCalls' = txCalls /\ OfEnd(txEnd)' = OfEnd(txEnd)
      /\ commitCalled' = commitCalled
  BY DEF TxInv, Phases, infoVars, Numbers, OfEnd
<1>6. /\ \A m : Has(txRan, m)' <=> Has(txRan', m)
      /\ \A m : Has(txQueue, m)' <=> Has(txQueue', m)
  BY DEF Has
<1>7. AllRegistered'
  BY DEF TxInv, AllRegistered, Registered, Numbers, Has, Distinct
<1>8. RunOnce'
  <2>1. Distinct(txRan)' /\ Distinct(txQueue)'
    BY <1>3, <1>4 DEF Distinct
  <2>2. \A n \in Nat : Has(txRan', n) => n \in Numbers /\ ~ Has(txQueue', n)
    BY <1>1, <1>2, <1>3, <1>4 DEF TxInv, RunOnce
  <2>3. \A n \in Nat : Has(txQueue', n) =>
          n \in Numbers /\ ~ txCalls[n].late /\ txCalls[n].end = OfEnd(txEnd)
    BY <1>1, <1>4 DEF TxInv, RunOnce
  <2>4. txPc' # "callbacks" => txQueue' = <<>>
    OBVIOUS
  <2> QED
    BY <2>1, <2>2, <2>3, <2>4, <1>5, <1>6 DEF RunOnce
<1>9. Outcome'
  BY <1>1, <1>2, <1>3, <1>4, <1>5, <1>6 DEF TxInv, Outcome
<1> QED
  BY <1>3, <1>4, <1>7, <1>8, <1>9 DEF CallbacksOK

LEMMA AppendRegistered ==
  ASSUME TxInv, NEW e \in Ends, NEW late \in BOOLEAN, NEW f \in Ends,
         NEW s \in Seq(Nat), Registered(f, s),
         txCalls' = Append(txCalls, [end |-> e, late |-> late]),
         NEW t, t = IF ~ late /\ e = f THEN Append(s, Len(txCalls) + 1) ELSE s
  PROVE  Registered(f, t)' /\ t \in Seq(Nat)
<1> DEFINE n == Len(txCalls) + 1
<1>1. /\ n \in Nat /\ Numbers = 1..(n - 1) /\ Numbers' = 1..n
      /\ txCalls'[n] = [end |-> e, late |-> late]
      /\ \A m \in Numbers : txCalls'[m] = txCalls[m]
  BY DEF TxInv, TxTypeOK, Numbers
<1>2. ~ Has(s, n)
  BY <1>1 DEF Registered
<1>3. CASE ~ late /\ e = f
  <2>1. t \in Seq(Nat) /\ Distinct(t) /\ \A m : Has(t, m) <=> Has(s, m) \/ m = n
    BY <1>1, <1>2, <1>3, AppendHas DEF Registered
  <2>2. \A m \in Nat : Has(t, m) <=> m \in 1..n /\ txCalls'[m].end = f /\ ~ txCalls'[m].late
    BY <1>1, <1>3, <2>1 DEF Registered
  <2> QED
    BY <1>1, <2>1, <2>2 DEF Registered, Distinct, Has
<1>4. CASE ~ (~ late /\ e = f)
  <2>1. \A m \in Nat : Has(t, m) <=> m \in 1..n /\ txCalls'[m].end = f /\ ~ txCalls'[m].late
    BY <1>1, <1>4 DEF Registered
  <2> QED
    BY <1>1, <1>4, <2>1 DEF Registered, Distinct, Has
<1> QED
  BY <1>3, <1>4

LEMMA RegisterKeeps ==
  ASSUME TxInv, NEW e \in Ends, Register(e)
  PROVE  TxInv'
<1> DEFINE n == Len(txCalls) + 1
<1>1. /\ n \in Nat /\ Numbers = 1..(n - 1) /\ Numbers' = 1..n /\ n \notin Numbers
      /\ txCalls' \in Seq([end : Ends, late : BOOLEAN])
      /\ txCalls'[n] = [end |-> e, late |-> commitCalled]
      /\ \A m \in Numbers : txCalls'[m] = txCalls[m]
  BY DEF TxInv, TxTypeOK, Numbers, Register
<1>2. /\ commitCallbacks' \in Seq(Nat) /\ rollbackCallbacks' \in Seq(Nat) /\ AllRegistered'
  <2>1. /\ commitCallbacks' \in Seq(Nat) /\ Registered("commit", commitCallbacks)'
        /\ rollbackCallbacks' \in Seq(Nat) /\ Registered("rollback", rollbackCallbacks)'
    <3>1. "commit" \in Ends /\ "rollback" \in Ends
      BY DEF Ends
    <3>2. Registered("commit", commitCallbacks) /\ Registered("rollback", rollbackCallbacks)
      BY DEF TxInv, AllRegistered
    <3>3. commitCallbacks' \in Seq(Nat) /\ Registered("commit", commitCallbacks)'
      BY <3>1, <3>2, AppendRegistered DEF Register, TxInv, TxTypeOK
    <3>4. rollbackCallbacks' \in Seq(Nat) /\ Registered("rollback", rollbackCallbacks)'
      BY <3>1, <3>2, AppendRegistered DEF Register, TxInv, TxTypeOK
    <3> QED
      BY <3>3, <3>4
  <2> QED
    BY <2>1 DEF AllRegistered
<1>3. /\ txQueue' = txQueue /\ txPc' = txPc /\ txPc \in {"body", "callbacks"} /\ commitCalled' = commitCalled
      /\ ~ Has(txQueue, n)
  BY <1>1 DEF Register, TxInv, RunOnce, infoVars
<1>4. /\ ~ Has(txRan, n)
      /\ txRan' \in Seq(Nat) /\ Distinct(txRan')
      /\ \A m : Has(txRan', m) <=> Has(txRan, m) \/ (commitCalled /\ m = n)
  <2>1. ~ Has(txRan, n) /\ txRan \in Seq(Nat) /\ Distinct(txRan)
    BY <1>1 DEF TxInv, TxTypeOK, RunOnce
  <2>2. CASE commitCalled
    BY <1>1, <2>1, <2>2, AppendHas DEF Register
  <2>3. CASE ~ commitCalled
    BY <2>1, <2>3 DEF Register
  <2> QED
    BY <2>1, <2>2, <2>3
<1>5. \A m : (Has(txRan, m)' <=> Has(txRan', m)) /\ (Has(txQueue, m)' <=> Has(txQueue, m))
  BY <1>3 DEF Has
<1>6. RunOnce'
  <2>1. Distinct(txRan)' /\ Distinct(txQueue)'
    BY <1>3, <1>4 DEF Distinct, TxInv, RunOnce
  <2>2. ASSUME NEW m \in Nat, Has(txRan', m) PROVE m \in 1..n /\ ~ Has(txQueue, m)
    <3>1. CASE m = n
      BY <1>1, <1>3, <3>1
    <3>2. CASE m # n
      BY <1>1, <1>4, <2>2, <3>2 DEF TxInv, RunOnce
    <3> QED
      BY <3>1, <3>2
  <2>3. ASSUME NEW m \in Nat, Has(txQueue, m)
        PROVE  m \in 1..n /\ ~ txCalls'[m].late /\ txCalls'[m].end = OfEnd(txEnd)
    BY <1>1, <2>3 DEF TxInv, RunOnce
  <2>4. OfEnd(txEnd)' = OfEnd(txEnd)
    BY DEF Register, infoVars, OfEnd
  <2>5. txPc' # "callbacks" => txQueue' = <<>>
    BY <1>3 DEF TxInv, RunOnce
  <2> QED
    BY <1>1, <1>5, <2>1, <2>2, <2>3, <2>4, <2>5 DEF RunOnce
<1>7. Outcome'
  <2>1. OfEnd(txEnd)' = OfEnd(txEnd) /\ txFlags' = txFlags /\ commitCalled' = commitCalled
    BY DEF Register, infoVars, OfEnd
  <2>2. ~ commitCalled => txRan' = <<>> /\ txQueue' = <<>>
    BY <1>3 DEF Register, TxInv, Outcome
  <2>3. ASSUME NEW m \in 1..n
        PROVE  /\ txCalls'[m].late => Has(txRan', m)
               /\ Has(txRan', m) => txCalls'[m].late \/ txCalls'[m].end = OfEnd(txEnd)
               /\ commitCalled /\ "broken" \notin txFlags /\ txCalls'[m].end = OfEnd(txEnd)
                    => Has(txRan', m) \/ Has(txQueue, m)
    <3>1. CASE m = n
      <4>1. txCalls'[m].late = commitCalled /\ (Has(txRan', m) <=> commitCalled)
        BY <1>1, <1>4, <3>1
      <4> QED
        BY <4>1
    <3>2. CASE m \in Numbers
      BY <1>1, <1>4, <1>5, <3>2 DEF TxInv, Outcome
    <3> QED
      BY <1>1, <3>1, <3>2
  <2> QED
    BY <1>1, <1>3, <1>5, <2>1, <2>2, <2>3 DEF Outcome
<1>8. TxTypeOK'
  BY <1>1, <1>2, <1>3, <1>4 DEF TxInv, TxTypeOK, Register, infoVars, replyVars
<1>9. Phases' /\ Replies'
  BY <1>3 DEF TxInv, Phases, Replies, Told, Register, infoVars, replyVars
<1> QED
  BY <1>2, <1>6, <1>7, <1>8, <1>9 DEF TxInv

-----------------------------------------------------------------------------
(* The other steps.                                                        *)

\* A step that leaves the outcome and the callbacks alone.
LEMMA PlainStep ==
  ASSUME TxInv, UNCHANGED <<infoVars, callbackVars>>, txFlags \subseteq txFlags',
         txPc' = "callbacks" \/ txQueue = <<>>, TxTypeOK', Phases', Replies'
  PROVE  TxInv'
BY CallbacksKept DEF CallbacksOK, TxInv

LEMMA BeginKeeps == TxInv /\ (Bypass \/ Begin \/ BeginFails) => TxInv'
<1> SUFFICES ASSUME TxInv, Bypass \/ Begin \/ BeginFails PROVE TxInv'
  OBVIOUS
<1> USE DEF TxInv, infoVars, callbackVars, replyVars
<1>1. CASE Begin
  <2>1. txCalls = <<>> /\ txRan = <<>> /\ txQueue = <<>> /\ ~ commitCalled
    BY <1>1 DEF Begin, Phases, Outcome, Over
  <2>2. AllRegistered'
    BY <1>1 DEF Begin, AllRegistered, Registered, Numbers, Has, Distinct
  <2>3. RunOnce'
    BY <1>1, <2>1, EmptyHas DEF Begin, RunOnce, Numbers, Has, Distinct
  <2>4. Outcome'
    BY <1>1, <2>1 DEF Begin, Outcome, Numbers, Has
  <2>5. TxTypeOK'
    BY <1>1 DEF Begin, TxTypeOK, Over
  <2>6. Phases' /\ Replies'
    BY <1>1, <2>1 DEF Begin, Phases, Replies, Over
  <2> QED
    BY <2>2, <2>3, <2>4, <2>5, <2>6
<1>2. CASE Bypass \/ BeginFails
  <2>1. TxTypeOK'
    BY <1>2 DEF Bypass, BeginFails, TxTypeOK
  <2>2. Phases' /\ Replies'
    BY <1>2 DEF Bypass, BeginFails, Phases, Replies, Over
  <2>3. txQueue = <<>> /\ txFlags' = txFlags /\ UNCHANGED <<infoVars, callbackVars>>
    BY <1>2 DEF Bypass, BeginFails, RunOnce
  <2> QED
    BY <2>1, <2>2, <2>3, PlainStep
<1> QED
  BY <1>1, <1>2

LEMMA WriteKeeps ==
  ASSUME TxInv, Write \/ \E status \in {"ok", "error"} : WriteHeader(status)
  PROVE  TxInv'
<1> USE DEF TxInv, infoVars, callbackVars
<1>1. PICK status \in {"ok", "error"} :
        /\ txPc = "body" /\ Written(status)
        /\ UNCHANGED <<txKind, txPc, txBack, infoVars, callbackVars, txMore, txFlags, txRounds>>
  BY DEF Write, WriteHeader
<1>2. TxTypeOK'
  BY <1>1 DEF Written, TxTypeOK
<1>3. Phases' /\ Replies'
  BY <1>1 DEF Written, Phases, Replies
<1>4. txQueue = <<>>
  BY <1>1 DEF RunOnce
<1> QED
  BY <1>1, <1>2, <1>3, <1>4, PlainStep

LEMMA BodyEndsKeeps == TxInv /\ BodyEnds => TxInv'
<1> SUFFICES ASSUME TxInv, BodyEnds PROVE TxInv'
  OBVIOUS
<1>1. PICK end \in Over : EndTx(end, "body")
  BY DEF BodyEnds, Commit, Rollback, Over
<1>2. CallbacksOK'
  BY <1>1, EndQueues DEF BodyEnds
<1>3. TxTypeOK'
  BY <1>1 DEF TxInv, TxTypeOK, EndTx, BodyEnds, replyVars
<1>4. Phases' /\ Replies'
  BY <1>1 DEF TxInv, Phases, Replies, EndTx, BodyEnds, replyVars, Over
<1> QED
  BY <1>2, <1>3, <1>4 DEF CallbacksOK, TxInv

LEMMA CallbacksKeep == TxInv /\ (RunCallback \/ CallbackPanics \/ CallbacksDone) => TxInv'
<1> SUFFICES ASSUME TxInv, RunCallback \/ CallbackPanics \/ CallbacksDone PROVE TxInv'
  OBVIOUS
<1>1. CASE RunCallback
  <2>1. CallbacksOK' /\ txRan' \in Seq(Nat) /\ txQueue' \in Seq(Nat)
    BY <1>1, CallbackRuns DEF RunCallback
  <2>2. TxTypeOK'
    BY <1>1, <2>1 DEF TxInv, TxTypeOK, RunCallback, infoVars, replyVars
  <2>3. Phases' /\ Replies'
    BY <1>1 DEF TxInv, Phases, Replies, Told, RunCallback, infoVars, replyVars
  <2> QED
    BY <2>1, <2>2, <2>3 DEF CallbacksOK, TxInv
<1>2. CASE CallbackPanics
  <2>1. CallbacksOK' /\ txRan' \in Seq(Nat) /\ txQueue' \in Seq(Nat)
    BY <1>2, CallbackRuns DEF CallbackPanics
  <2>2. TxTypeOK'
    BY <1>2, <2>1 DEF TxInv, TxTypeOK, CallbackPanics, infoVars, replyVars
  <2>3. Phases' /\ Replies'
    BY <1>2 DEF TxInv, Phases, Replies, CallbackPanics, infoVars, replyVars, Over
  <2> QED
    BY <2>1, <2>2, <2>3 DEF CallbacksOK, TxInv
<1>3. CASE CallbacksDone
  <2>1. TxTypeOK' /\ Phases' /\ Replies'
    BY <1>3 DEF TxInv, TxTypeOK, Phases, Replies, Told, CallbacksDone, infoVars,
                callbackVars, replyVars, Over
  <2> QED
    BY <1>3, <2>1, PlainStep DEF CallbacksDone, infoVars, callbackVars
<1> QED
  BY <1>1, <1>2, <1>3

\* txRouter decides by the status what the transaction comes to.
LEMMA FinishRequestKeeps == TxInv /\ FinishRequest => TxInv'
<1> SUFFICES ASSUME TxInv, FinishRequest PROVE TxInv'
  OBVIOUS
<1>1. CASE commitCalled
  <2>1. /\ UNCHANGED <<txKind, txBack, infoVars, callbackVars, replyVars, txFlags>>
        /\ txPc = "body" /\ txPc' = "cleanup" /\ txQueue = <<>>
    BY <1>1 DEF FinishRequest, Commit, Rollback, TxInv, RunOnce
  <2>2. TxTypeOK' /\ Phases' /\ Replies'
    BY <1>1, <2>1 DEF TxInv, TxTypeOK, Phases, Replies, infoVars, callbackVars, replyVars
  <2> QED
    BY <2>1, <2>2, PlainStep
<1>2. CASE ~ commitCalled
  <2>1. PICK end \in Over : EndTx(end, "cleanup")
    BY <1>2 DEF FinishRequest, Commit, Rollback, Over
  <2>2. CallbacksOK'
    BY <1>2, <2>1, EndQueues
  <2>3. /\ txKind = "request" /\ UNCHANGED <<txKind, txFlags, txStatus>>
        /\ txStatus = "error" <=> end = "rolledback"
        /\ txSent' = IF end = "failed" /\ txStatus = "none" THEN "error" ELSE txSent
    BY <1>2, <2>1 DEF FinishRequest, Commit, Rollback, EndTx, replyVars
  <2>4. TxTypeOK'
    BY <2>1, <2>2, <2>3 DEF TxInv, TxTypeOK, EndTx
  <2>5. Phases'
    BY <2>1, <2>3 DEF TxInv, Phases, EndTx, Over
  <2>6. Replies'
    BY <2>1, <2>3 DEF TxInv, TxTypeOK, Replies, Told, EndTx, Over
  <2> QED
    BY <2>2, <2>4, <2>5, <2>6 DEF CallbacksOK, TxInv
<1> QED
  BY <1>1, <1>2

LEMMA FinishFuncKeeps == TxInv /\ (FinishFunc \/ Panics) => TxInv'
<1> SUFFICES ASSUME TxInv, FinishFunc \/ Panics PROVE TxInv'
  OBVIOUS
<1>1. CASE txPc' = "cleanup"
  <2>1. /\ UNCHANGED <<txKind, txBack, infoVars, callbackVars, replyVars>>
        /\ txPc = "body" /\ txQueue = <<>>
        /\ txFlags' \in {txFlags, txFlags \cup {"panic"}}
        /\ txKind = "request" => "panic" \in txFlags'
    BY <1>1 DEF FinishFunc, Panics, Commit, EndTx, TxInv, RunOnce
  <2>2. TxTypeOK' /\ Phases' /\ Replies'
    BY <1>1, <2>1 DEF TxInv, TxTypeOK, Phases, Replies, infoVars, callbackVars, replyVars
  <2> QED
    BY <2>1, <2>2, PlainStep
<1>2. CASE txPc' # "cleanup"
  <2>1. PICK end \in Over : EndTx(end, "cleanup")
    BY <1>2 DEF FinishFunc, Panics, Commit, Over
  <2>2. UNCHANGED <<txKind, replyVars, txFlags>> /\ txKind # "request" /\ ~ commitCalled
    BY <1>2 DEF FinishFunc, Panics
  <2>3. CallbacksOK'
    BY <2>1, <2>2, EndQueues
  <2>4. TxTypeOK'
    BY <2>1, <2>2 DEF TxInv, TxTypeOK, EndTx, replyVars
  <2>5. Phases' /\ Replies'
    BY <2>1, <2>2 DEF TxInv, Phases, Replies, EndTx, replyVars, Over
  <2> QED
    BY <2>3, <2>4, <2>5 DEF CallbacksOK, TxInv
<1> QED
  BY <1>1, <1>2

\* The deferred cleanup rolls back what is still open: never a request's
\* transaction without a panic.
LEMMA CleanupKeeps == TxInv /\ Cleanup => TxInv'
<1> SUFFICES ASSUME TxInv, Cleanup PROVE TxInv'
  OBVIOUS
<1>1. CASE commitCalled
  <2>1. /\ UNCHANGED <<txKind, txBack, infoVars, callbackVars, replyVars, txFlags>>
        /\ txPc = "cleanup" /\ txPc' = "end" /\ txQueue = <<>>
    BY <1>1 DEF Cleanup, Rollback, TxInv, RunOnce
  <2>2. TxTypeOK' /\ Phases' /\ Replies'
    BY <1>1, <2>1 DEF TxInv, TxTypeOK, Phases, Replies, Told, infoVars, callbackVars, replyVars, Over
  <2> QED
    BY <2>1, <2>2, PlainStep
<1>2. CASE ~ commitCalled
  <2>1. EndTx("rolledback", "end") /\ UNCHANGED <<txKind, txFlags, replyVars>> /\ txPc = "cleanup"
    BY <1>2 DEF Cleanup, Rollback
  <2>2. CallbacksOK'
    BY <1>2, <2>1, EndQueues DEF Over
  <2>3. TxTypeOK'
    BY <1>2, <2>1 DEF Cleanup, Rollback, TxInv, TxTypeOK, EndTx, replyVars, Over
  <2>4. Phases' /\ Replies'
    BY <1>2, <2>1 DEF TxInv, Phases, Replies, EndTx, replyVars, Over
  <2> QED
    BY <2>2, <2>3, <2>4 DEF CallbacksOK, TxInv
<1> QED
  BY <1>1, <1>2

\* The next round starts afresh.
LEMMA AfterEndKeeps == TxInv /\ (Again \/ End \/ Tick) => TxInv'
<1> SUFFICES ASSUME TxInv, Again \/ End \/ Tick PROVE TxInv'
  OBVIOUS
<1>1. CASE End
  <2>1. TxTypeOK' /\ Phases' /\ Replies' /\ txQueue = <<>>
    BY <1>1 DEF TxInv, TxTypeOK, Phases, Replies, Told, RunOnce, End, infoVars, callbackVars, replyVars
  <2> QED
    BY <1>1, <2>1, PlainStep DEF End
<1>2. CASE Again \/ Tick
  <2>1. Refresh /\ txPc' = "begin" /\ UNCHANGED <<txKind, txBack>>
    BY <1>2 DEF Again, Tick
  <2>2. \A S : <<>> \in Seq(S)
    OBVIOUS
  <2>3. TxTypeOK'
    BY <2>1, <2>2 DEF TxInv, TxTypeOK, Refresh, replyVars
  <2>4. Phases' /\ Replies'
    BY <2>1 DEF TxInv, Phases, Replies, Refresh, replyVars, Over
  <2>5. CallbacksOK'
    BY <2>1, EmptyHas DEF CallbacksOK, AllRegistered, Registered, RunOnce, Outcome, Refresh,
                          Numbers, Has, Distinct
  <2> QED
    BY <2>3, <2>4, <2>5 DEF CallbacksOK, TxInv
<1> QED
  BY <1>1, <1>2

LEMMA TxStepInv == TxInv /\ [TxNext]_txVars => TxInv'
<1> SUFFICES ASSUME TxInv, [TxNext]_txVars PROVE TxInv'
  OBVIOUS
<1>1. CASE UNCHANGED txVars
  <2> USE <1>1 DEF txVars, infoVars, callbackVars, replyVars, TxInv
  <2>1. TxTypeOK'
    BY DEF TxTypeOK
  <2>2. Phases' /\ Replies'
    BY DEF Phases, Replies, Told
  <2>3. txPc' = "callbacks" \/ txQueue = <<>>
    BY DEF RunOnce
  <2> QED
    BY <2>1, <2>2, <2>3, PlainStep
<1>2. CASE TxNext
  BY <1>2, BeginKeeps, RegisterKeeps, WriteKeeps, BodyEndsKeeps, CallbacksKeep,
     FinishRequestKeeps, FinishFuncKeeps, CleanupKeeps, AfterEndKeeps DEF TxNext
<1> QED
  BY <1>1, <1>2

\* What has run is what has to run: the callbacks of the end, and those that
\* came late.
LEMMA TxInvFollows == TxInv => TxCallbacksFollowOutcome
<1> SUFFICES ASSUME TxInv PROVE TxCallbacksFollowOutcome
  OBVIOUS
<1>1. \A n : Ran(n) <=> Has(txRan, n)
  BY DEF Ran, Has
<1>2. \A n : ~ Has(<<>>, n)
  BY EmptyHas
<1>3. \A n \in Numbers : Has(txRan, n) => commitCalled
  BY <1>2 DEF TxInv, Outcome
<1>4. ASSUME NEW n \in Numbers, commitCalled, txPc # "callbacks", "broken" \notin txFlags,
             txCalls[n].end = OfEnd(txEnd)
      PROVE  Has(txRan, n)
  BY <1>2, <1>4 DEF TxInv, Outcome, RunOnce
<1>5. \A n \in Numbers : txCalls[n].late => commitCalled
  BY <1>3 DEF TxInv, Outcome
<1> QED
  BY <1>1, <1>3, <1>4, <1>5 DEF TxCallbacksFollowOutcome, TxInv, RunOnce, Outcome, Distinct, Numbers

\* No callback runs twice; of those registered in time none runs for an end that
\* did not take place, and none of the end that did is forgotten; those registered
\* later have run at once, whatever the end (Commit, Rollback and the
\* registrations, which look only at commitCalled).
THEOREM TxCallbacksCorrect == TxSpec => []TxCallbacksFollowOutcome
<1>1. TxInit => TxInv
  BY TxInitInv
<1>2. TxInv /\ [TxNext]_txVars => TxInv'
  BY TxStepInv
<1>3. TxInv => TxCallbacksFollowOutcome
  BY TxInvFollows
<1> QED
  BY <1>1, <1>2, <1>3, PTL DEF TxSpec

\* No transaction is left open, and a client is told what became of its
\* changes (txRouter.ServeHTTP with the deferred cleanup).
THEOREM TxReplyCorrect == TxSpec => []TxReplyMatches
<1>1. TxInit => TxInv
  BY TxInitInv
<1>2. TxInv /\ [TxNext]_txVars => TxInv'
  BY TxStepInv
<1>3. TxInv => TxReplyMatches
  BY DEF TxInv, Phases, Replies, Told, TxReplyMatches
<1> QED
  BY <1>1, <1>2, <1>3, PTL DEF TxSpec
=============================================================================
