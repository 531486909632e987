----------------------------- MODULE PqChanProofs -----------------------------
(* Theorems about Demux and PqChan, for every number of Demux values, channels,  *)
(* senders, names, calls and connections.                                      *)
EXTENDS PqChan, SequenceTheorems, FiniteSetTheorems, TLAPS

-----------------------------------------------------------------------------
(* The invariant.  It is about the manager and the listeners; what happens on *)
(* the Demux values does not disturb it.                                      *)

PqTypes ==
  /\ names \subseteq Names
  /\ changed \in BOOLEAN
  /\ manager \in {"waiting", "restarting"}
  /\ current \in Nat /\ current >= 1
  /\ stage \in [Listeners -> {"off", "start", "setup", "wait", "broadcast", "ended"}]
  /\ conn \in [Listeners -> Conns \cup {None}]
  /\ listens \in [Conns -> SUBSET Names]

\* Every start but the first was asked for by a name of its own, and so was the
\* one that is under way, and the one that a signal will cause.
StartsCounted ==
  current + (IF changed THEN 1 ELSE 0) + (IF manager = "restarting" THEN 1 ELSE 0)
    <= Cardinality(names) + 1

LaterUnstarted == \A l \in Listeners : l > current => stage[l] = "off"

BusyHaveConn ==
  \A l \in Listeners : stage[l] \in {"setup", "wait", "broadcast"} => conn[l] \in Conns

Inv == PqTypes /\ StartsCounted /\ LaterUnstarted /\ BusyHaveConn /\ NothingForgotten

LEMMA NamesFinite ==
  ASSUME names \subseteq Names
  PROVE  /\ IsFiniteSet(names)
         /\ Cardinality(names) \in Nat /\ Cardinality(Names) \in Nat
         /\ Cardinality(names) <= Cardinality(Names)
BY NamesAssumption, FS_Subset, FS_CardinalityType

LEMMA CurrentListens == Inv => current \in Listeners
BY NamesFinite DEF Inv, PqTypes, StartsCounted, Listeners

LEMMA InitInv == PqInit => Inv
<1> SUFFICES ASSUME PqInit PROVE Inv
  OBVIOUS
<1>1. 1 \in Listeners
  BY NamesAssumption, FS_CardinalityType DEF Listeners
<1>2. PqTypes
  <2>1. /\ names \subseteq Names /\ changed \in BOOLEAN
        /\ manager \in {"waiting", "restarting"} /\ current = 1
        /\ conn \in [Listeners -> Conns \cup {None}]
        /\ listens \in [Conns -> SUBSET Names]
    BY DEF PqInit
  <2>2. stage \in [Listeners -> {"off", "start", "setup", "wait", "broadcast", "ended"}]
    BY DEF PqInit
  <2> QED
    BY <2>1, <2>2 DEF PqTypes
<1>3. StartsCounted
  BY FS_EmptySet DEF PqInit, StartsCounted
<1>4. LaterUnstarted /\ BusyHaveConn
  BY NamesAssumption, FS_CardinalityType DEF PqInit, LaterUnstarted, BusyHaveConn, Listeners
<1>5. NothingForgotten
  BY <1>1 DEF PqInit, NothingForgotten
<1> QED
  BY <1>2, <1>3, <1>4, <1>5 DEF Inv

\* A name that is new comes with a signal.
LEMMA GetMuxKeeps ==
  ASSUME Inv, NEW c \in Receives, GetMuxForName(c)
  PROVE  Inv'
<1> USE DEF Inv, PqTypes
<1> DEFINE m == MuxOf[c]
<1>1. m \in Names
  BY ReceivesAssumption
<1>2. names' = names \cup {m} /\ names' \subseteq Names
  BY <1>1 DEF GetMuxForName
<1>3. /\ m \in names => names' = names
      /\ m \notin names => Cardinality(names') = Cardinality(names) + 1
  <2>1. IsFiniteSet(names)
    BY NamesFinite
  <2>2. m \notin names => Cardinality(names \cup {m}) = Cardinality(names) + 1
    BY <2>1, FS_AddElement
  <2> QED
    BY <1>2, <2>2
<1>4. PqTypes'
  <2>1. UNCHANGED <<manager, current, stage, conn, listens>> /\ changed' \in BOOLEAN
    BY DEF GetMuxForName, managerVars, listenerVars, sessionVars
  <2> QED
    BY <1>2, <2>1
<1>5. StartsCounted'
  <2>1. CASE m \in names
    BY <2>1, <1>3 DEF GetMuxForName, StartsCounted, managerVars
  <2>2. CASE m \notin names
    BY <2>2, <1>3, NamesFinite DEF GetMuxForName, StartsCounted, managerVars
  <2> QED
    BY <2>1, <2>2
<1>6. LaterUnstarted' /\ BusyHaveConn'
  BY DEF GetMuxForName, LaterUnstarted, BusyHaveConn, managerVars, listenerVars
<1>7. NothingForgotten'
  BY <1>3 DEF GetMuxForName, NothingForgotten, managerVars, listenerVars, sessionVars
<1> QED
  BY <1>4, <1>5, <1>6, <1>7

\* The manager turns a signal into a restart, and a restart into a listener.
LEMMA ManagerKeeps ==
  ASSUME Inv, TakeChange \/ StartNext
  PROVE  Inv'
<1> USE DEF Inv, PqTypes
<1>1. CASE TakeChange
  <2>1. PqTypes'
    BY <1>1 DEF TakeChange, listenerVars, sessionVars
  <2>2. StartsCounted'
    BY <1>1 DEF TakeChange, StartsCounted
  <2>3. LaterUnstarted' /\ BusyHaveConn' /\ NothingForgotten'
    BY <1>1 DEF TakeChange, LaterUnstarted, BusyHaveConn, NothingForgotten, listenerVars
  <2> QED
    BY <2>1, <2>2, <2>3
<1>2. CASE StartNext
  <2>1. current + 1 \in Listeners
    BY <1>2, NamesFinite DEF StartNext, StartsCounted, Listeners
  <2>2. PqTypes'
    <3>1. stage' \in [Listeners -> {"off", "start", "setup", "wait", "broadcast", "ended"}]
      BY <1>2 DEF StartNext
    <3>2. current' \in Nat /\ current' >= 1 /\ manager' = "waiting"
      BY <1>2 DEF StartNext
    <3>3. UNCHANGED <<names, changed, conn, listens>>
      BY <1>2 DEF StartNext, sessionVars
    <3> QED
      BY <3>1, <3>2, <3>3
  <2>3. StartsCounted'
    BY <1>2, NamesFinite DEF StartNext, StartsCounted
  <2>4. LaterUnstarted' /\ BusyHaveConn'
    BY <1>2 DEF StartNext, LaterUnstarted, BusyHaveConn, Listeners
  <2>5. NothingForgotten'
    BY <1>2, <2>1 DEF StartNext, NothingForgotten
  <2> QED
    BY <2>2, <2>3, <2>4, <2>5
<1> QED
  BY <1>1, <1>2

\* What a step of listener l gives to each part of the invariant: it is started,
\* it takes a connection or has one, and the names that the newest listener
\* LISTENs on become fewer only when it is that listener and stops waiting.
LEMMA ListenerKeeps ==
  ASSUME Inv, NEW l \in Listeners, Listener(l)
  PROVE  Inv'
<1> USE DEF Inv, PqTypes
<1>1. /\ UNCHANGED <<names, changed, manager, current>>
      /\ stage[l] # "off"
  BY DEF Listener, Acquire, AcquireFails, SetupListens, SetupFails, WaitCancelled,
         WaitFails, TakeNotice, SendOnMux, Broadcasted, managerVars, listenerVars,
         pqVars
<1>2. l <= current
  BY <1>1 DEF LaterUnstarted, Listeners
<1>3. StartsCounted'
  BY <1>1 DEF StartsCounted
<1>4. /\ stage' \in [Listeners -> {"off", "start", "setup", "wait", "broadcast", "ended"}]
      /\ \A o \in Listeners : o # l => stage'[o] = stage[o] /\ conn'[o] = conn[o]
      /\ conn' \in [Listeners -> Conns \cup {None}]
      /\ stage'[l] \in {"setup", "wait", "broadcast"} => conn'[l] \in Conns
  BY DEF Listener, Acquire, AcquireFails, SetupListens, SetupFails, WaitCancelled,
         WaitFails, TakeNotice, SendOnMux, Broadcasted, Return, BusyHaveConn,
         listenerVars, pqVars
<1>5. LaterUnstarted' /\ BusyHaveConn'
  BY <1>1, <1>2, <1>4 DEF LaterUnstarted, BusyHaveConn, Listeners
<1>6. listens' \in [Conns -> SUBSET Names]
  BY DEF Listener, Acquire, AcquireFails, SetupListens, SetupFails, WaitCancelled,
         WaitFails, TakeNotice, SendOnMux, Broadcasted, sessionVars, pqVars
<1>7. NothingForgotten'
  <2>1. current \in Listeners
    BY CurrentListens
  <2>2. CASE WaitFails(l)
    <3>1. l = current
      BY <2>2, <1>2 DEF WaitFails, Cancelled, Listeners
    <3>2. stage'[l] \in {"start", "ended"}
      BY <2>2 DEF WaitFails, Return
    <3> QED
      BY <3>1, <3>2, <1>1 DEF NothingForgotten
  <2>3. CASE SetupListens(l)
    <3>1. CASE l = current
      BY <2>3, <3>1, <1>1 DEF SetupListens, NothingForgotten, BusyHaveConn
    <3>2. CASE l # current
      BY <2>3, <3>2, <1>1, <2>1 DEF SetupListens, NothingForgotten, BusyHaveConn
    <3> QED
      BY <3>1, <3>2
  <2>4. CASE SetupFails(l)
    <3>1. CASE l = current
      BY <2>4, <3>1, <1>1 DEF SetupFails, Return, NothingForgotten
    <3>2. CASE l # current
      BY <2>4, <3>2, <1>1, <2>1 DEF SetupFails, Return, NothingForgotten, BusyHaveConn
    <3> QED
      BY <3>1, <3>2
  <2>5. CASE Acquire(l) \/ AcquireFails(l) \/ WaitCancelled(l)
    <3>1. listens' = listens /\ stage'[l] \notin {"wait", "broadcast"}
      BY <2>5 DEF Acquire, AcquireFails, WaitCancelled, Return, sessionVars
    <3> QED
      BY <3>1, <1>1, <1>4, <2>1 DEF NothingForgotten
  <2>6. CASE TakeNotice(l) \/ SendOnMux(l) \/ Broadcasted(l)
    <3>1. listens' = listens /\ conn' = conn /\ stage[l] \in {"wait", "broadcast"}
      BY <2>6 DEF TakeNotice, SendOnMux, Broadcasted, sessionVars, listenerVars, pqVars
    <3> QED
      BY <3>1, <1>1, <1>4, <2>1 DEF NothingForgotten
  <2> QED
    BY <2>2, <2>3, <2>4, <2>5, <2>6 DEF Listener
<1> QED
  BY <1>1, <1>3, <1>4, <1>5, <1>6, <1>7

\* Steps that touch none of this.
LEMMA OthersKeep ==
  ASSUME Inv,
         UNCHANGED <<names, changed, manager, current, stage, conn, listens>>
  PROVE  Inv'
BY DEF Inv, PqTypes, StartsCounted, LaterUnstarted, BusyHaveConn, NothingForgotten

LEMMA NextInv == Inv /\ [PqNext]_pqChanVars => Inv'
<1> SUFFICES ASSUME Inv, [PqNext]_pqChanVars PROVE Inv'
  OBVIOUS
<1>1. CASE TakeChange \/ StartNext
  BY <1>1, ManagerKeeps
<1>2. CASE \E l \in Listeners : Listener(l)
  BY <1>2, ListenerKeeps
<1>3. ASSUME NEW c \in Receives, Receiving(c) PROVE Inv'
  <2>1. CASE GetMuxForName(c)
    BY <2>1, GetMuxKeeps
  <2>2. CASE ~ GetMuxForName(c)
    <3>1. UNCHANGED <<names, changed, manager, current, stage, conn, listens>>
      BY <1>3, <2>2
      DEF Receiving, CallReceive, JoinMux, EndContext, pqVars, managerVars,
          listenerVars, sessionVars
    <3> QED
      BY <3>1, OthersKeep
  <2> QED
    BY <2>1, <2>2
<1>4. ASSUME NEW m \in Names, Notify(m) \/ PushOn(m) PROVE Inv'
  <2>1. UNCHANGED <<names, changed, manager, current, stage, conn, listens>>
    BY <1>4 DEF Notify, PushOn, pqVars, managerVars, listenerVars, sessionVars
  <2> QED
    BY <2>1, OthersKeep
<1>5. CASE UNCHANGED pqChanVars
  <2>1. UNCHANGED <<names, changed, manager, current, stage, conn, listens>>
    BY <1>5 DEF pqChanVars, pqVars, managerVars, listenerVars, sessionVars
  <2> QED
    BY <2>1, OthersKeep
<1> QED
  BY <1>1, <1>2, <1>3, <1>4, <1>5 DEF PqNext

\* The invariant above holds in every reachable state.
THEOREM InvCorrect == PqSpec => []Inv
BY InitInv, NextInv, PTL DEF PqSpec

-----------------------------------------------------------------------------
\* pqchan/main.go:37-54, 157-172: whatever the order of new names, restarts,
\* setups and failures, a waiting listener that misses a name is on its way to
\* be replaced.
THEOREM NothingForgottenCorrect == PqSpec => []NothingForgotten
<1>1. Inv => NothingForgotten
  BY DEF Inv
<1> QED
  BY <1>1, InvCorrect, PTL

\* The manager starts no more listeners than one and one for each name, so the
\* indices of the model always suffice.
THEOREM StartsBounded == PqSpec => [](current \in Listeners)
BY CurrentListens, InvCorrect, PTL
-----------------------------------------------------------------------------
(* Sequences without repetitions, as the lists of channels are.               *)

LEMMA AppendContains ==
  ASSUME NEW S, NEW s \in Seq(S), NEW e \in S
  PROVE  /\ Append(s, e) \in Seq(S)
         /\ \A x : Contains(Append(s, e), x) <=> Contains(s, x) \/ x = e
         /\ IsInjective(s) /\ ~ Contains(s, e) => IsInjective(Append(s, e))
<1> DEFINE r == Append(s, e)
<1>1. /\ r \in Seq(S) /\ Len(r) = Len(s) + 1 /\ Len(s) \in Nat
      /\ DOMAIN r = 1..Len(s) + 1 /\ DOMAIN s = 1..Len(s)
      /\ \A i \in 1..Len(s) : r[i] = s[i]
      /\ r[Len(s) + 1] = e
  OBVIOUS
<1> HIDE DEF r
<1>2. ASSUME NEW x PROVE Contains(r, x) <=> Contains(s, x) \/ x = e
  BY <1>1 DEF Contains
<1>3. ASSUME IsInjective(s), ~ Contains(s, e) PROVE IsInjective(r)
  BY <1>1, <1>3 DEF Contains, IsInjective
<1> QED
  BY <1>1, <1>2, <1>3 DEF r

LEMMA TailContains ==
  ASSUME NEW S, NEW s \in Seq(S), s # <<>>
  PROVE  /\ Head(s) \in S /\ Contains(s, Head(s)) /\ Tail(s) \in Seq(S)
         /\ \A x : Contains(Tail(s), x) => Contains(s, x)
         /\ \A x : Contains(s, x) => Contains(Tail(s), x) \/ x = Head(s)
         /\ IsInjective(s) => IsInjective(Tail(s)) /\ ~ Contains(Tail(s), Head(s))
<1> DEFINE r == Tail(s)
<1>1. /\ r \in Seq(S) /\ Len(r) = Len(s) - 1 /\ Len(s) \in Nat /\ Len(s) >= 1
      /\ DOMAIN r = 1..Len(s) - 1 /\ DOMAIN s = 1..Len(s)
      /\ \A i \in 1..Len(s) - 1 : r[i] = s[i + 1]
      /\ Head(s) = s[1] /\ s[1] \in S
  OBVIOUS
<1> HIDE DEF r
<1>2. Contains(s, Head(s))
  BY <1>1 DEF Contains
<1>3. ASSUME NEW x, Contains(r, x) PROVE Contains(s, x)
  BY <1>1, <1>3 DEF Contains
<1>4. ASSUME NEW x, Contains(s, x) PROVE Contains(r, x) \/ x = Head(s)
  <2>1. PICK i \in 1..Len(s) : s[i] = x
    BY <1>4 DEF Contains
  <2>2. CASE i = 1
    BY <2>1, <2>2, <1>1
  <2>3. CASE i # 1
    <3>1. i - 1 \in 1..Len(r) /\ r[i - 1] = x
      BY <2>1, <2>3, <1>1
    <3> QED
      BY <3>1 DEF Contains
  <2> QED
    BY <2>2, <2>3
<1>5. ASSUME IsInjective(s) PROVE IsInjective(r) /\ ~ Contains(r, Head(s))
  <2>1. IsInjective(r)
    <3> SUFFICES ASSUME NEW i \in 1..Len(s) - 1, NEW j \in 1..Len(s) - 1, r[i] = r[j]
                 PROVE  i = j
      BY <1>1 DEF IsInjective
    <3>1. s[i + 1] = s[j + 1] /\ i + 1 \in DOMAIN s /\ j + 1 \in DOMAIN s
      BY <1>1
    <3>2. i + 1 = j + 1
      BY <3>1, <1>5 DEF IsInjective
    <3> QED
      BY <3>2
  <2>2. ASSUME NEW i \in 1..Len(r), r[i] = Head(s) PROVE FALSE
    <3>1. s[i + 1] = s[1] /\ i + 1 \in DOMAIN s /\ 1 \in DOMAIN s
      BY <1>1, <2>2
    <3>2. i + 1 = 1
      BY <3>1, <1>5 DEF IsInjective
    <3> QED
      BY <3>2
  <2> QED
    BY <2>1, <2>2 DEF Contains
<1> QED
  BY <1>1, <1>2, <1>3, <1>4, <1>5 DEF r

\* removeOutput keeps every channel but the one it is called for.
LEMMA RemoveContains ==
  ASSUME NEW S, NEW s \in Seq(S), IsInjective(s), NEW e
  PROVE  /\ RemoveFirst(s, e) \in Seq(S)
         /\ IsInjective(RemoveFirst(s, e))
         /\ \A x : Contains(RemoveFirst(s, e), x) <=> Contains(s, x) /\ x # e
<1>1. CASE ~ Contains(s, e)
  <2>1. RemoveFirst(s, e) = s
    BY <1>1 DEF RemoveFirst, Contains
  <2> QED
    BY <2>1, <1>1
<1>2. CASE Contains(s, e)
  <2>1. PICK k \in 1..Len(s) : s[k] = e
    BY <1>2 DEF Contains
  <2>2. Len(s) \in Nat /\ DOMAIN s = 1..Len(s) /\ \A i \in 1..Len(s) : s[i] \in S
    OBVIOUS
  <2>3. \A i \in 1..Len(s) : s[i] = e => i = k
    BY <2>1, <2>2 DEF IsInjective
  <2>4. {i \in 1..Len(s) : s[i] = e} = {k}
    BY <2>1, <2>3
  <2>5. SelectInSeq(s, LAMBDA v : v = e) = k
    <3>1. Min({k}) = k
      <4>1. \E x \in {k} : \A y \in {k} : x =< y
        BY <2>2
      <4> QED
        BY <4>1 DEF Min
    <3>2. SelectInSeq(s, LAMBDA v : v = e) = IF {k} # {} THEN Min({k}) ELSE 0
      BY <2>4 DEF SelectInSeq
    <3> QED
      BY <3>1, <3>2
  <2> DEFINE r == SubSeq(s, 1, k - 1) \o SubSeq(s, k + 1, Len(s))
  <2>6. RemoveFirst(s, e) = r
    BY <2>1, <2>5 DEF RemoveFirst, RemoveAt
  <2>7. /\ r \in Seq(S) /\ Len(r) = Len(s) - 1
        /\ \A i \in 1..Len(s) - 1 : r[i] = s[IF i < k THEN i ELSE i + 1]
    <3>1. /\ SubSeq(s, 1, k - 1) \in Seq(S) /\ Len(SubSeq(s, 1, k - 1)) = k - 1
          /\ \A i \in 1..k - 1 : SubSeq(s, 1, k - 1)[i] = s[i]
      BY <2>2
    <3>2. /\ SubSeq(s, k + 1, Len(s)) \in Seq(S)
          /\ Len(SubSeq(s, k + 1, Len(s))) = Len(s) - k
          /\ \A i \in 1..Len(s) - k : SubSeq(s, k + 1, Len(s))[i] = s[k + i]
      <4>1. \A i \in k + 1..Len(s) : s[i] \in S
        BY <2>2
      <4>2. /\ SubSeq(s, k + 1, Len(s)) \in Seq(S)
            /\ Len(SubSeq(s, k + 1, Len(s)))
                 = IF k + 1 <= Len(s) THEN Len(s) - (k + 1) + 1 ELSE 0
            /\ \A i \in 1..Len(s) - (k + 1) + 1 :
                 SubSeq(s, k + 1, Len(s))[i] = s[(k + 1) + i - 1]
        BY <4>1, <2>2, SubSeqProperties
      <4>3. k \in Nat /\ Len(s) \in Nat /\ k <= Len(s)
        BY <2>1, <2>2
      <4>4. Len(s) - (k + 1) + 1 = Len(s) - k
        BY <4>3
      <4>5. ~ k + 1 <= Len(s) => Len(s) - k = 0
        BY <4>3
      <4>6. ASSUME NEW i \in 1..Len(s) - k PROVE (k + 1) + i - 1 = k + i
        BY <4>3
      <4> QED
        BY <4>2, <4>4, <4>5, <4>6
    <3> DEFINE a == SubSeq(s, 1, k - 1)
               b == SubSeq(s, k + 1, Len(s))
    <3> HIDE DEF a, b
    <3>0. Len(a) = k - 1 /\ Len(b) = Len(s) - k
      BY <3>1, <3>2 DEF a, b
    <3>3. /\ a \o b \in Seq(S) /\ Len(a \o b) = Len(a) + Len(b)
          /\ \A i \in 1..Len(a) + Len(b) :
               (a \o b)[i] = IF i <= Len(a) THEN a[i] ELSE b[i - Len(a)]
      BY <3>1, <3>2, ConcatProperties DEF a, b
    <3>4. ASSUME NEW i \in 1..Len(s) - 1
          PROVE  (a \o b)[i] = s[IF i < k THEN i ELSE i + 1]
      <4>1. i \in 1..Len(a) + Len(b) /\ Len(a) = k - 1
        BY <3>0, <2>2
      <4>2. CASE i < k
        BY <4>1, <4>2, <3>1, <3>3, <2>2 DEF a
      <4>3. CASE ~ i < k
        <5>1. i - (k - 1) \in 1..Len(s) - k /\ k + (i - (k - 1)) = i + 1
          BY <4>3, <2>2
        <5>2. b[i - (k - 1)] = s[i + 1]
          BY <5>1, <3>2 DEF b
        <5> QED
          BY <5>2, <4>1, <4>3, <3>3, <2>2
      <4> QED
        BY <4>2, <4>3
    <3> QED
      <4>1. r = a \o b
        BY DEF a, b
      <4>2. Len(s) - 1 = Len(a) + Len(b)
        BY <3>0, <2>1, <2>2
      <4> HIDE DEF r
      <4> QED
        BY <4>1, <4>2, <3>3, <3>4
  <2> HIDE DEF r
  <2>8. DOMAIN r = 1..Len(s) - 1 /\ Len(s) - 1 \in Nat
    BY <2>7, <2>2
  <2>9. IsInjective(r)
    <3> SUFFICES ASSUME NEW i \in 1..Len(s) - 1, NEW j \in 1..Len(s) - 1, r[i] = r[j]
                 PROVE  i = j
      BY <2>8 DEF IsInjective
    <3> DEFINE ii == IF i < k THEN i ELSE i + 1
               jj == IF j < k THEN j ELSE j + 1
    <3>1. ii \in 1..Len(s) /\ jj \in 1..Len(s) /\ s[ii] = s[jj]
      BY <2>7, <2>2
    <3>2. ii = jj
      BY <3>1, <2>2 DEF IsInjective
    <3> QED
      BY <3>2, <2>2
  <2>10. ASSUME NEW x, Contains(r, x) PROVE Contains(s, x) /\ x # e
    <3>1. PICK i \in 1..Len(s) - 1 : r[i] = x
      BY <2>10, <2>7 DEF Contains
    <3> DEFINE ii == IF i < k THEN i ELSE i + 1
    <3>2. ii \in 1..Len(s) /\ s[ii] = x /\ ii # k
      BY <3>1, <2>7, <2>2
    <3> QED
      BY <3>2, <2>3 DEF Contains
  <2>11. ASSUME NEW x, Contains(s, x), x # e PROVE Contains(r, x)
    <3>1. PICK i \in 1..Len(s) : s[i] = x
      BY <2>11 DEF Contains
    <3>2. i # k
      BY <3>1, <2>1, <2>11
    <3> DEFINE ii == IF i < k THEN i ELSE i - 1
    <3>3. ii \in 1..Len(r) /\ r[ii] = x
      BY <3>1, <3>2, <2>7, <2>2
    <3> QED
      BY <3>3 DEF Contains
  <2> QED
    BY <2>6, <2>7, <2>9, <2>10, <2>11
<1> QED
  BY <1>1, <1>2

-----------------------------------------------------------------------------
(* The Demux values: the invariant, for any goroutines that use them, lossy   *)
(* or not.                                                                    *)

\* Each open channel is listed once, by its own Demux.
ListedOnce ==
  \A m \in Muxes :
    /\ IsInjective(outputs[m])
    /\ \A c \in Channels : Contains(outputs[m], c) => MuxOf[c] = m /\ chan[c] = "open"

\* The loop of a send has channels to visit only while the mutex is held, so
\* that they stay listed.
VisitsListed ==
  \A m \in Muxes :
    /\ IsInjective(toGo[m])
    /\ \A c \in Channels : Contains(toGo[m], c) => Contains(outputs[m], c)
    /\ mutex[m] = None => toGo[m] = <<>>
    /\ mutex[m] # None => value[m] \in Values

FreshIsEmpty ==
  \A c \in Channels : chan[c] = "new" => pipe[c] = <<>> /\ due[c] = <<>>

\* A pipe never holds more than was sent to it, with what is on its way.
DueCovers ==
  \A c \in Channels :
    /\ Len(pipe[c]) <= Len(due[c])
    /\ Contains(toGo[MuxOf[c]], c) => Len(pipe[c]) < Len(due[c])

DemuxInv ==
  DemuxTypeOK /\ ListedOnce /\ VisitsListed /\ FreshIsEmpty /\ DueCovers /\ NoGaps

LEMMA EmptyContains ==
  /\ \A S : <<>> \in Seq(S)
  /\ \A x : ~ Contains(<<>>, x)
  /\ IsInjective(<<>>)
<1>1. \A S : <<>> \in Seq(S)
  OBVIOUS
<1>2. Len(<<>>) = 0 /\ DOMAIN <<>> = {}
  OBVIOUS
<1> QED
  BY <1>1, <1>2 DEF Contains, IsInjective

LEMMA DemuxInitInv == DemuxInit => DemuxInv
<1> SUFFICES ASSUME DemuxInit PROVE DemuxInv
  OBVIOUS
<1>1. DemuxTypeOK
  <2>1. \A S : <<>> \in Seq(S)
    BY EmptyContains
  <2> QED
    BY <2>1 DEF DemuxInit, DemuxTypeOK
<1>2. /\ \A m \in Muxes : outputs[m] = <<>> /\ toGo[m] = <<>> /\ mutex[m] = None
      /\ \A c \in Channels : pipe[c] = <<>> /\ due[c] = <<>>
  BY DEF DemuxInit
<1>3. ListedOnce /\ VisitsListed /\ NoGaps
  BY <1>2, EmptyContains DEF ListedOnce, VisitsListed, NoGaps
<1>4. FreshIsEmpty /\ DueCovers
  <2>1. \A c \in Channels : MuxOf[c] \in Muxes
    BY MuxAssumption
  <2> QED
    BY <1>2, <2>1, EmptyContains DEF FreshIsEmpty, DueCovers
<1> QED
  BY <1>1, <1>3, <1>4 DEF DemuxInv

\* What the types say of one Demux and of one channel.
LEMMA DemuxTyped ==
  ASSUME DemuxTypeOK
  PROVE  /\ \A m \in Muxes : /\ outputs[m] \in Seq(Channels) /\ toGo[m] \in Seq(Channels)
                             /\ mutex[m] \in Senders \cup {None}
                             /\ value[m] \in Values \cup {None}
         /\ \A c \in Channels : /\ pipe[c] \in Seq(Values) /\ due[c] \in Seq(Values)
                                /\ Len(pipe[c]) \in Nat /\ Len(due[c]) \in Nat
                                /\ MuxOf[c] \in Muxes
<1>1. \A c \in Channels : pipe[c] \in Seq(Values) /\ due[c] \in Seq(Values)
  BY DEF DemuxTypeOK
<1>2. \A q \in Seq(Values) : Len(q) \in Nat
  OBVIOUS
<1> QED
  BY <1>1, <1>2, MuxAssumption DEF DemuxTypeOK

\* A send adds its value to what every listed channel is due, and has them all
\* to visit.
LEMMA StartSendKeeps ==
  ASSUME DemuxInv, NEW s \in Senders, NEW m \in Muxes, NEW v \in Values,
         StartSend(s, m, v)
  PROVE  DemuxInv'
<1> USE DemuxTyped DEF DemuxInv
<1>1. /\ UNCHANGED <<outputs, pipe, reader, lossy, chan, cancelled>>
      /\ mutex[m] = None /\ mutex' = [mutex EXCEPT ![m] = s]
      /\ toGo' = [toGo EXCEPT ![m] = outputs[m]]
      /\ value' = [value EXCEPT ![m] = v]
  BY DEF StartSend, lifeVars
<1>2. ASSUME NEW c \in Channels
      PROVE  due'[c] = IF Contains(outputs[m], c) THEN Append(due[c], v) ELSE due[c]
  BY DEF StartSend
<1>3. /\ due' \in [Channels -> Seq(Values)]
      /\ \A c \in Channels : Len(due'[c]) = IF Contains(outputs[m], c)
                                             THEN Len(due[c]) + 1 ELSE Len(due[c])
  <2>1. ASSUME NEW c \in Channels
        PROVE  /\ due[c] \in Seq(Values) /\ Append(due[c], v) \in Seq(Values)
               /\ Len(Append(due[c], v)) = Len(due[c]) + 1
    OBVIOUS
  <2> QED
    BY <1>2, <2>1 DEF StartSend
<1>4. DemuxTypeOK'
  BY <1>1, <1>3 DEF DemuxTypeOK
<1>5. \A n \in Muxes :
        /\ n = m => toGo'[n] = outputs[m] /\ value'[n] = v /\ mutex'[n] = s
        /\ n # m => toGo'[n] = toGo[n] /\ value'[n] = value[n] /\ mutex'[n] = mutex[n]
  BY <1>1 DEF DemuxTypeOK
<1>6. toGo[m] = <<>> /\ \A c \in Channels : ~ Contains(toGo[m], c)
  BY <1>1, EmptyContains DEF VisitsListed
<1>7. ListedOnce'
  BY <1>1 DEF ListedOnce
<1>8. VisitsListed'
  BY <1>1, <1>5, NobodyAssumption DEF VisitsListed, ListedOnce
<1>9. FreshIsEmpty'
  BY <1>1, <1>2 DEF FreshIsEmpty, ListedOnce
<1>10. DueCovers'
  <2> SUFFICES ASSUME NEW c \in Channels
               PROVE  /\ Len(pipe[c]) <= Len(due'[c])
                      /\ Contains(toGo'[MuxOf[c]], c) => Len(pipe[c]) < Len(due'[c])
    BY <1>1 DEF DueCovers
  <2>1. Len(pipe[c]) \in Nat /\ Len(due[c]) \in Nat /\ Len(pipe[c]) <= Len(due[c])
    BY DEF DueCovers
  <2>2. CASE MuxOf[c] = m
    BY <2>1, <2>2, <1>3, <1>5
  <2>3. CASE MuxOf[c] # m
    BY <2>1, <2>3, <1>3, <1>5 DEF DueCovers, ListedOnce
  <2> QED
    BY <2>2, <2>3
<1>11. NoGaps'
  <2> SUFFICES ASSUME NEW n \in Muxes, NEW c \in Channels,
                      ~ lossy[n], Contains(outputs[n], c)
               PROVE  due'[c] = IF Contains(toGo'[n], c) THEN Append(pipe[c], value'[n])
                                                          ELSE pipe[c]
    BY <1>1 DEF NoGaps
  <2>1. CASE n = m
    BY <2>1, <1>2, <1>5, <1>6 DEF NoGaps
  <2>2. CASE n # m
    BY <2>2, <1>2, <1>5 DEF NoGaps, ListedOnce
  <2> QED
    BY <2>1, <2>2
<1> QED
  BY <1>4, <1>7, <1>8, <1>9, <1>10, <1>11

\* The loop goes on to the next channel, whose pipe has the value or, on a lossy
\* Demux, may do without.
LEMMA VisitKeeps ==
  ASSUME DemuxInv, NEW m \in Muxes, Push(m) \/ Drop(m)
  PROVE  DemuxInv'
<1> USE DemuxTyped DEF DemuxInv
<1> DEFINE h == Head(toGo[m])
<1>1. /\ UNCHANGED <<outputs, mutex, value, reader, due, lossy, chan, cancelled>>
      /\ toGo[m] # <<>> /\ toGo' = [toGo EXCEPT ![m] = Tail(@)]
      /\ \/ pipe' = [pipe EXCEPT ![h] = Append(@, value[m])]
         \/ lossy[m] /\ pipe' = pipe
  BY DEF Push, Drop, lifeVars
<1>2. /\ h \in Channels /\ Tail(toGo[m]) \in Seq(Channels)
      /\ IsInjective(Tail(toGo[m]))
      /\ Contains(toGo[m], h) /\ ~ Contains(Tail(toGo[m]), h)
      /\ \A c \in Channels : Contains(Tail(toGo[m]), c) => Contains(toGo[m], c)
      /\ \A c \in Channels : Contains(toGo[m], c) => Contains(Tail(toGo[m]), c) \/ c = h
  BY <1>1, TailContains DEF VisitsListed
<1>3. /\ MuxOf[h] = m /\ chan[h] = "open" /\ Contains(outputs[m], h)
      /\ value[m] \in Values
  BY <1>1, <1>2 DEF VisitsListed, ListedOnce
<1> HIDE DEF h
<1>4. \A n \in Muxes : /\ n = m => toGo'[n] = Tail(toGo[m])
                       /\ n # m => toGo'[n] = toGo[n]
  BY <1>1 DEF DemuxTypeOK
<1>5. /\ \A c \in Channels : c # h => pipe'[c] = pipe[c]
      /\ \/ pipe'[h] = Append(pipe[h], value[m])
         \/ lossy[m] /\ pipe'[h] = pipe[h]
  BY <1>1, <1>2 DEF DemuxTypeOK
<1>6. /\ Append(pipe[h], value[m]) \in Seq(Values)
      /\ Len(Append(pipe[h], value[m])) = Len(pipe[h]) + 1
  <2>1. pipe[h] \in Seq(Values)
    BY <1>2
  <2> QED
    BY <2>1, <1>3
<1>7. DemuxTypeOK'
  <2>1. pipe' \in [Channels -> Seq(Values)]
    BY <1>1, <1>6 DEF DemuxTypeOK
  <2>2. toGo' \in [Muxes -> Seq(Channels)]
    BY <1>1, <1>2 DEF DemuxTypeOK
  <2> QED
    BY <2>1, <2>2, <1>1 DEF DemuxTypeOK
<1>8. ListedOnce'
  BY <1>1 DEF ListedOnce
<1>9. VisitsListed'
  BY <1>1, <1>2, <1>4 DEF VisitsListed
<1>10. FreshIsEmpty'
  BY <1>1, <1>3, <1>5 DEF FreshIsEmpty
<1>11. DueCovers'
  <2> SUFFICES ASSUME NEW c \in Channels
               PROVE  /\ Len(pipe'[c]) <= Len(due[c])
                      /\ Contains(toGo'[MuxOf[c]], c) => Len(pipe'[c]) < Len(due[c])
    BY <1>1 DEF DueCovers
  <2>1. CASE c = h
    <3>1. Len(pipe[h]) < Len(due[h]) /\ ~ Contains(toGo'[MuxOf[h]], h)
      BY <1>2, <1>3, <1>4 DEF DueCovers
    <3>2. Len(pipe[h]) \in Nat /\ Len(due[h]) \in Nat
      BY <1>2
    <3> QED
      BY <2>1, <3>1, <3>2, <1>5, <1>6
  <2>2. CASE c # h
    <3>1. Contains(toGo'[MuxOf[c]], c) => Contains(toGo[MuxOf[c]], c)
      BY <1>2, <1>4
    <3> QED
      BY <2>2, <3>1, <1>5 DEF DueCovers
  <2> QED
    BY <2>1, <2>2
<1>12. NoGaps'
  <2> SUFFICES ASSUME NEW n \in Muxes, NEW c \in Channels,
                      ~ lossy[n], Contains(outputs[n], c)
               PROVE  due[c] = IF Contains(toGo'[n], c) THEN Append(pipe'[c], value[n])
                                                         ELSE pipe'[c]
    BY <1>1 DEF NoGaps
  <2>1. CASE c = h
    <3>1. n = m
      BY <2>1, <1>3 DEF ListedOnce
    <3>2. due[h] = Append(pipe[h], value[m])
      BY <2>1, <3>1, <1>2 DEF NoGaps
    <3> QED
      BY <2>1, <3>1, <3>2, <1>2, <1>4, <1>5
  <2>2. CASE c # h
    <3>1. Contains(toGo'[n], c) <=> Contains(toGo[n], c)
      BY <2>2, <1>2, <1>4
    <3> QED
      BY <2>2, <3>1, <1>5 DEF NoGaps
  <2> QED
    BY <2>1, <2>2
<1> QED
  BY <1>7, <1>8, <1>9, <1>10, <1>11, <1>12

LEMMA EndSendKeeps ==
  ASSUME DemuxInv, NEW m \in Muxes, EndSend(m)
  PROVE  DemuxInv'
<1> USE DemuxTyped DEF DemuxInv
<1>1. /\ UNCHANGED <<outputs, toGo, pipe, reader, due, lossy, chan, cancelled>>
      /\ toGo[m] = <<>>
      /\ mutex' = [mutex EXCEPT ![m] = None] /\ value' = [value EXCEPT ![m] = None]
  BY DEF EndSend, lifeVars
<1>2. \A n \in Muxes : /\ n = m => mutex'[n] = None
                       /\ n # m => mutex'[n] = mutex[n] /\ value'[n] = value[n]
  BY <1>1 DEF DemuxTypeOK
<1>3. DemuxTypeOK'
  BY <1>1 DEF DemuxTypeOK
<1>4. ListedOnce' /\ FreshIsEmpty' /\ DueCovers'
  BY <1>1 DEF ListedOnce, FreshIsEmpty, DueCovers
<1>5. VisitsListed'
  BY <1>1, <1>2 DEF VisitsListed
<1>6. NoGaps'
  <2> SUFFICES ASSUME NEW n \in Muxes, NEW c \in Channels,
                      ~ lossy[n], Contains(outputs[n], c)
               PROVE  due[c] = IF Contains(toGo[n], c) THEN Append(pipe[c], value'[n])
                                                        ELSE pipe[c]
    BY <1>1 DEF NoGaps
  <2>1. CASE n = m
    BY <2>1, <1>1, EmptyContains DEF NoGaps
  <2>2. CASE n # m
    BY <2>2, <1>2 DEF NoGaps
  <2> QED
    BY <2>1, <2>2
<1> QED
  BY <1>3, <1>4, <1>5, <1>6

\* A channel joins with nothing due, and a channel is removed while no send is
\* under way.
LEMMA JoinKeeps ==
  ASSUME DemuxInv, NEW c \in Channels, Join(c)
  PROVE  DemuxInv'
<1> USE DemuxTyped DEF DemuxInv
<1> DEFINE m == MuxOf[c]
<1>1. /\ UNCHANGED <<mutex, toGo, value, pipe, reader, due, lossy, cancelled>>
      /\ chan[c] = "new" /\ mutex[m] = None
      /\ chan' = [chan EXCEPT ![c] = "open"]
      /\ outputs' = [outputs EXCEPT ![m] = Append(@, c)]
  BY DEF Join, sendVars
<1>2. m \in Muxes
  OBVIOUS
<1> HIDE DEF m
<1>3. /\ toGo[m] = <<>> /\ ~ Contains(outputs[m], c)
      /\ \A n \in Muxes : ~ Contains(outputs[n], c)
      /\ pipe[c] = <<>> /\ due[c] = <<>>
  BY <1>1, <1>2 DEF VisitsListed, ListedOnce, FreshIsEmpty
<1>4. /\ Append(outputs[m], c) \in Seq(Channels)
      /\ IsInjective(Append(outputs[m], c))
      /\ \A d \in Channels : Contains(Append(outputs[m], c), d)
                               <=> Contains(outputs[m], d) \/ d = c
  BY <1>2, <1>3, AppendContains DEF ListedOnce
<1>5. /\ \A n \in Muxes : /\ n = m => outputs'[n] = Append(outputs[m], c)
                          /\ n # m => outputs'[n] = outputs[n]
      /\ \A d \in Channels : /\ d = c => chan'[d] = "open"
                             /\ d # c => chan'[d] = chan[d]
  BY <1>1 DEF DemuxTypeOK
<1>6. DemuxTypeOK'
  <2>1. outputs' \in [Muxes -> Seq(Channels)]
    BY <1>1, <1>4 DEF DemuxTypeOK
  <2>2. chan' \in [Channels -> {"new", "open", "closed"}]
    BY <1>1 DEF DemuxTypeOK
  <2> QED
    BY <2>1, <2>2, <1>1 DEF DemuxTypeOK
<1>7. ListedOnce'
  BY <1>3, <1>4, <1>5 DEF ListedOnce, m
<1>8. VisitsListed'
  BY <1>1, <1>4, <1>5 DEF VisitsListed
<1>9. FreshIsEmpty' /\ DueCovers'
  BY <1>1, <1>5 DEF FreshIsEmpty, DueCovers
<1>10. NoGaps'
  <2> SUFFICES ASSUME NEW n \in Muxes, NEW d \in Channels,
                      ~ lossy[n], Contains(outputs'[n], d)
               PROVE  due[d] = IF Contains(toGo[n], d) THEN Append(pipe[d], value[n])
                                                        ELSE pipe[d]
    BY <1>1 DEF NoGaps
  <2>1. CASE Contains(outputs[n], d)
    BY <2>1 DEF NoGaps
  <2>2. CASE ~ Contains(outputs[n], d)
    <3>1. n = m /\ d = c
      BY <2>2, <1>4, <1>5
    <3> QED
      BY <3>1, <1>3, EmptyContains
  <2> QED
    BY <2>1, <2>2
<1> QED
  BY <1>6, <1>7, <1>8, <1>9, <1>10

LEMMA RemoveOutputKeeps ==
  ASSUME DemuxInv, NEW c \in Channels, RemoveOutput(c)
  PROVE  DemuxInv'
<1> USE DemuxTyped DEF DemuxInv
<1> DEFINE m == MuxOf[c]
           r == RemoveFirst(outputs[m], c)
<1>1. /\ UNCHANGED <<mutex, toGo, value, pipe, reader, due, lossy, cancelled>>
      /\ chan[c] = "open" /\ mutex[m] = None
      /\ chan' = [chan EXCEPT ![c] = "closed"]
      /\ outputs' = [outputs EXCEPT ![m] = r]
  BY DEF RemoveOutput, sendVars
<1>2. m \in Muxes
  OBVIOUS
<1>3. /\ r \in Seq(Channels) /\ IsInjective(r)
      /\ \A d : Contains(r, d) <=> Contains(outputs[m], d) /\ d # c
  BY <1>2, RemoveContains DEF ListedOnce
<1> HIDE DEF m, r
<1>4. /\ toGo[m] = <<>> /\ \A d \in Channels : ~ Contains(toGo[m], d)
  BY <1>1, <1>2, EmptyContains DEF VisitsListed
<1>5. /\ \A n \in Muxes : /\ n = m => outputs'[n] = r
                          /\ n # m => outputs'[n] = outputs[n]
      /\ \A d \in Channels : /\ d = c => chan'[d] = "closed"
                             /\ d # c => chan'[d] = chan[d]
  BY <1>1 DEF DemuxTypeOK
<1>6. DemuxTypeOK'
  <2>1. outputs' \in [Muxes -> Seq(Channels)]
    BY <1>1, <1>3 DEF DemuxTypeOK
  <2>2. chan' \in [Channels -> {"new", "open", "closed"}]
    BY <1>1 DEF DemuxTypeOK
  <2> QED
    BY <2>1, <2>2, <1>1 DEF DemuxTypeOK
<1>7. ListedOnce'
  BY <1>3, <1>5 DEF ListedOnce, m
<1>8. VisitsListed'
  BY <1>1, <1>3, <1>4, <1>5 DEF VisitsListed
<1>9. FreshIsEmpty' /\ DueCovers'
  BY <1>1, <1>5 DEF FreshIsEmpty, DueCovers
<1>10. NoGaps'
  <2>1. \A n \in Muxes, d \in Channels : Contains(outputs'[n], d) => Contains(outputs[n], d)
    BY <1>3, <1>5
  <2> QED
    BY <1>1, <2>1 DEF NoGaps
<1> QED
  BY <1>6, <1>7, <1>8, <1>9, <1>10

\* A reader takes the value it has been due for longest.
LEMMA TakeKeeps ==
  ASSUME DemuxInv, NEW c \in Channels, Take(c)
  PROVE  DemuxInv'
<1> USE DemuxTyped DEF DemuxInv
<1>1. /\ UNCHANGED <<outputs, mutex, toGo, value, lossy, chan, cancelled>>
      /\ chan[c] # "new" /\ pipe[c] # <<>>
      /\ due' = [due EXCEPT ![c] = Tail(@)] /\ pipe' = [pipe EXCEPT ![c] = Tail(@)]
      /\ reader' = [reader EXCEPT ![c] = "busy"]
  BY DEF Take, sendVars, lifeVars
<1>2. /\ pipe[c] \in Seq(Values) /\ Len(pipe[c]) \in Nat /\ Len(pipe[c]) > 0
      /\ due[c] \in Seq(Values) /\ Len(due[c]) \in Nat /\ Len(pipe[c]) <= Len(due[c])
  <2>1. pipe[c] \in Seq(Values) /\ due[c] \in Seq(Values) /\ Len(pipe[c]) <= Len(due[c])
    BY DEF DueCovers
  <2> QED
    BY <2>1, <1>1
<1>3. due[c] # <<>>
  BY <1>2
<1>4. /\ Tail(pipe[c]) \in Seq(Values) /\ Len(Tail(pipe[c])) = Len(pipe[c]) - 1
      /\ Tail(due[c]) \in Seq(Values) /\ Len(Tail(due[c])) = Len(due[c]) - 1
  BY <1>1, <1>2, <1>3
<1>5. \A d \in Channels :
        /\ d = c => pipe'[d] = Tail(pipe[c]) /\ due'[d] = Tail(due[c])
        /\ d # c => pipe'[d] = pipe[d] /\ due'[d] = due[d]
  BY <1>1 DEF DemuxTypeOK
<1>6. DemuxTypeOK'
  <2>1. pipe' \in [Channels -> Seq(Values)] /\ due' \in [Channels -> Seq(Values)]
    BY <1>1, <1>4 DEF DemuxTypeOK
  <2>2. reader' \in [Channels -> {"waiting", "busy", "left"}]
    BY <1>1 DEF DemuxTypeOK
  <2> QED
    BY <2>1, <2>2, <1>1 DEF DemuxTypeOK
<1>7. ListedOnce' /\ VisitsListed'
  BY <1>1 DEF ListedOnce, VisitsListed
<1>8. FreshIsEmpty'
  BY <1>1, <1>5 DEF FreshIsEmpty
<1>9. DueCovers'
  <2> SUFFICES ASSUME NEW d \in Channels
               PROVE  /\ Len(pipe'[d]) <= Len(due'[d])
                      /\ Contains(toGo[MuxOf[d]], d) => Len(pipe'[d]) < Len(due'[d])
    BY <1>1 DEF DueCovers
  <2>1. CASE d = c
    <3>1. Len(pipe'[d]) = Len(pipe[c]) - 1 /\ Len(due'[d]) = Len(due[c]) - 1
      BY <2>1, <1>4, <1>5
    <3>2. Contains(toGo[MuxOf[d]], d) => Len(pipe[c]) < Len(due[c])
      BY <2>1 DEF DueCovers
    <3> HIDE DEF DemuxInv
    <3> QED
      BY <3>1, <3>2, <1>2
  <2>2. CASE d # c
    BY <2>2, <1>5 DEF DueCovers
  <2> QED
    BY <2>1, <2>2
<1>10. NoGaps'
  <2> SUFFICES ASSUME NEW n \in Muxes, NEW d \in Channels,
                      ~ lossy[n], Contains(outputs[n], d)
               PROVE  due'[d] = IF Contains(toGo[n], d) THEN Append(pipe'[d], value[n])
                                                         ELSE pipe'[d]
    BY <1>1 DEF NoGaps
  <2>1. CASE d = c
    <3>1. CASE Contains(toGo[n], d)
      <4>1. due[c] = Append(pipe[c], value[n])
        BY <2>1, <3>1 DEF NoGaps
      <4>2. value[n] \in Values
        BY <3>1, EmptyContains DEF VisitsListed
      <4>3. Tail(Append(pipe[c], value[n])) = Append(Tail(pipe[c]), value[n])
        BY <1>1, <1>2, <4>2
      <4> QED
        BY <2>1, <3>1, <4>1, <4>3, <1>5
    <3>2. CASE ~ Contains(toGo[n], d)
      BY <2>1, <3>2, <1>5 DEF NoGaps
    <3> QED
      BY <3>1, <3>2
  <2>2. CASE d # c
    BY <2>2, <1>5 DEF NoGaps
  <2> QED
    BY <2>1, <2>2
<1> QED
  BY <1>6, <1>7, <1>8, <1>9, <1>10

LEMMA ReaderKeeps ==
  ASSUME DemuxInv, NEW c \in Channels, Cancel(c) \/ HandOn(c) \/ Leave(c)
  PROVE  DemuxInv'
<1> USE DEF DemuxInv
<1>1. UNCHANGED <<outputs, mutex, toGo, value, pipe, due, lossy, chan>>
  BY DEF Cancel, HandOn, Leave, sendVars, lifeVars
<1>2. /\ cancelled' \in [Channels -> BOOLEAN]
      /\ reader' \in [Channels -> {"waiting", "busy", "left"}]
  BY DEF Cancel, HandOn, Leave, lifeVars, DemuxTypeOK
<1>3. DemuxTypeOK'
  BY <1>1, <1>2 DEF DemuxTypeOK
<1> QED
  BY <1>1, <1>3 DEF ListedOnce, VisitsListed, FreshIsEmpty, DueCovers, NoGaps

LEMMA DemuxNextInv == DemuxInv /\ [DemuxNext]_demuxVars => DemuxInv'
<1> SUFFICES ASSUME DemuxInv, [DemuxNext]_demuxVars PROVE DemuxInv'
  OBVIOUS
<1>1. CASE DemuxNext
  BY <1>1, StartSendKeeps, VisitKeeps, EndSendKeeps, JoinKeeps, RemoveOutputKeeps,
     TakeKeeps, ReaderKeeps DEF DemuxNext
<1>2. CASE UNCHANGED demuxVars
  BY <1>2 DEF demuxVars, sendVars, lifeVars, DemuxInv, DemuxTypeOK, ListedOnce,
              VisitsListed, FreshIsEmpty, DueCovers, NoGaps
<1> QED
  BY <1>1, <1>2

\* demux/main.go:20-51, for any goroutines that send, join and leave: no channel
\* is closed while the loop of a send has it to visit.
THEOREM DemuxNeverSendsOnClosed == DemuxSpec => []NoSendOnClosed
<1>1. DemuxInv => NoSendOnClosed
  BY DEF DemuxInv, ListedOnce, VisitsListed, NoSendOnClosed
<1> QED
  BY <1>1, DemuxInitInv, DemuxNextInv, PTL DEF DemuxSpec

\* demux/main.go:20-35: a channel of a Demux that is not lossy gets every value
\* sent while it is listed, once and in the order of the mutex.
THEOREM DemuxHasNoGaps == DemuxSpec => []NoGaps
<1>1. DemuxInv => NoGaps
  BY DEF DemuxInv
<1> QED
  BY <1>1, DemuxInitInv, DemuxNextInv, PTL DEF DemuxSpec

-----------------------------------------------------------------------------
(* pqchan uses its Demux values as any goroutines may: every step of PqChan is *)
(* a step of Demux, or does not concern it, because the types of its notices   *)
(* are right.                                                                  *)

NoticesTyped ==
  /\ note \in [Listeners -> Notices \cup {None}]
  /\ queue \in [Conns -> Seq(Notices)]
  /\ \A l \in Listeners : stage[l] = "broadcast" => note[l] \in Notices
  /\ sent \in 0..MaxNotices

PqInv == Inv /\ NoticesTyped

LEMMA NoticesInit == PqInit => NoticesTyped
<1> SUFFICES ASSUME PqInit PROVE NoticesTyped
  OBVIOUS
<1>1. \A S : <<>> \in Seq(S)
  BY EmptyContains
<1>2. \A l \in Listeners : stage[l] # "broadcast"
  BY DEF PqInit
<1> QED
  BY <1>1, <1>2, NoticesAssumption DEF PqInit, NoticesTyped

LEMMA NoticesKept ==
  ASSUME PqInv, [PqNext]_pqChanVars
  PROVE  NoticesTyped'
<1> USE DEF PqInv, Inv, PqTypes, NoticesTyped
<1>1. ASSUME NEW m \in Names, Notify(m) PROVE NoticesTyped'
  <2>1. sent' \in 0..MaxNotices /\ sent' \in Values /\ UNCHANGED <<note, stage>>
    BY <1>1, NoticesAssumption DEF Notify, listenerVars
  <2> DEFINE n == [name |-> m, value |-> sent']
  <2>2. n \in Notices
    BY <2>1 DEF Notices
  <2> HIDE DEF n
  <2>3. ASSUME NEW k \in Conns
        PROVE  (IF m \in listens[k] THEN Append(queue[k], n) ELSE queue[k]) \in Seq(Notices)
    <3>1. queue[k] \in Seq(Notices)
      OBVIOUS
    <3> QED
      BY <3>1, <2>2
  <2>4. queue' = [k \in Conns |->
                    IF m \in listens[k] THEN Append(queue[k], n) ELSE queue[k]]
    BY <1>1 DEF Notify, n
  <2>5. queue' \in [Conns -> Seq(Notices)]
    BY <2>3, <2>4
  <2> QED
    BY <2>1, <2>5
<1>2. ASSUME NEW l \in Listeners, Listener(l) PROVE NoticesTyped'
  <2>1. sent' = sent
    BY <1>2 DEF Listener, Acquire, AcquireFails, SetupListens, SetupFails, WaitCancelled,
              WaitFails, TakeNotice, SendOnMux, Broadcasted, pqVars
  <2>2. CASE TakeNotice(l)
    <3>1. conn[l] \in Conns
      BY <2>2 DEF TakeNotice, BusyHaveConn
    <3>2. queue[conn[l]] \in Seq(Notices) /\ queue[conn[l]] # <<>>
      BY <2>2, <3>1 DEF TakeNotice
    <3>3. Head(queue[conn[l]]) \in Notices /\ Tail(queue[conn[l]]) \in Seq(Notices)
      BY <3>2
    <3>4. /\ note' = [note EXCEPT ![l] = Head(queue[conn[l]])]
          /\ queue' = [queue EXCEPT ![conn[l]] = Tail(queue[conn[l]])]
          /\ stage' = [stage EXCEPT ![l] = "broadcast"]
      BY <2>2 DEF TakeNotice
    <3>5. /\ note' \in [Listeners -> Notices \cup {None}] /\ note'[l] \in Notices
          /\ queue' \in [Conns -> Seq(Notices)]
      BY <3>1, <3>3, <3>4
    <3>6. \A o \in Listeners : o # l => stage'[o] = stage[o] /\ note'[o] = note[o]
      BY <3>4
    <3> QED
      BY <3>5, <3>6, <2>1
  <2>3. CASE Acquire(l) \/ AcquireFails(l) \/ SetupListens(l) \/ SetupFails(l)
             \/ WaitCancelled(l) \/ WaitFails(l) \/ Broadcasted(l)
    <3>1. /\ stage' \in [Listeners -> {"off", "start", "setup", "wait", "broadcast", "ended"}]
          /\ stage'[l] # "broadcast"
          /\ \A o \in Listeners : o # l => stage'[o] = stage[o]
      BY <2>3 DEF Acquire, AcquireFails, SetupListens, SetupFails, WaitCancelled,
                  WaitFails, Broadcasted, Return
    <3>2. /\ note' \in [Listeners -> Notices \cup {None}]
          /\ \A o \in Listeners : o # l => note'[o] = note[o]
      BY <2>3 DEF Acquire, AcquireFails, SetupListens, SetupFails, WaitCancelled,
                  WaitFails, Broadcasted, Return
    <3>3. queue' \in [Conns -> Seq(Notices)]
      <4>1. \A S : <<>> \in Seq(S)
        BY EmptyContains
      <4> QED
        BY <2>3, <4>1 DEF Acquire, AcquireFails, SetupListens, SetupFails,
                  WaitCancelled, WaitFails, Broadcasted, sessionVars
    <3> QED
      BY <3>1, <3>2, <3>3, <2>1
  <2>4. CASE SendOnMux(l)
    BY <2>4 DEF SendOnMux, pqVars, listenerVars, sessionVars
  <2> QED
    BY <1>2, <2>2, <2>3, <2>4 DEF Listener
<1>3. ASSUME UNCHANGED <<note, queue, stage, sent>> PROVE NoticesTyped'
  BY <1>3
<1>4. ASSUME NEW c \in Receives, Receiving(c) PROVE NoticesTyped'
  BY <1>3, <1>4 DEF Receiving, CallReceive, GetMuxForName, JoinMux, EndContext, pqVars,
                    listenerVars, sessionVars
<1>5. CASE TakeChange
  BY <1>3, <1>5 DEF TakeChange, listenerVars, sessionVars
<1>6. CASE StartNext
  <2>1. UNCHANGED <<note, queue, sent>>
    BY <1>6 DEF StartNext, sessionVars
  <2>2. \A l \in Listeners : stage'[l] = "broadcast" => stage[l] = "broadcast"
    BY <1>6 DEF StartNext
  <2> QED
    BY <2>1, <2>2
<1>7. ASSUME NEW m \in Names, PushOn(m) PROVE NoticesTyped'
  BY <1>3, <1>7 DEF PushOn, pqVars, listenerVars, sessionVars
<1>8. CASE UNCHANGED pqChanVars
  BY <1>3, <1>8 DEF pqChanVars, pqVars, listenerVars, sessionVars
<1> QED
  BY <1>1, <1>2, <1>4, <1>5, <1>6, <1>7, <1>8 DEF PqNext

LEMMA StepIsDemuxStep ==
  ASSUME PqInv, [PqNext]_pqChanVars
  PROVE  [DemuxNext]_demuxVars
<1> USE NamesAssumption, ListenersAssumption
<1>1. ASSUME NEW l \in Listeners, Listener(l) PROVE [DemuxNext]_demuxVars
  <2>1. CASE SendOnMux(l)
    <3>1. note[l] \in Notices
      BY <2>1 DEF SendOnMux, PqInv, NoticesTyped
    <3>2. note[l].name \in Muxes /\ note[l].value \in Values
      BY <3>1 DEF Notices
    <3>3. StartSend(l, note[l].name, note[l].value)
      BY <2>1 DEF SendOnMux
    <3> QED
      BY <3>2, <3>3 DEF DemuxNext
  <2>2. CASE Broadcasted(l)
    <3>1. note[l] \in Notices
      BY <2>2 DEF Broadcasted, PqInv, NoticesTyped
    <3>2. note[l].name \in Muxes
      BY <3>1 DEF Notices
    <3> QED
      BY <2>2, <3>2 DEF Broadcasted, DemuxNext
  <2>3. CASE ~ SendOnMux(l) /\ ~ Broadcasted(l)
    BY <1>1, <2>3 DEF Listener, Acquire, AcquireFails, SetupListens, SetupFails,
                      WaitCancelled, WaitFails, TakeNotice
  <2> QED
    BY <2>1, <2>2, <2>3
<1>2. ASSUME NEW c \in Receives, Receiving(c) PROVE [DemuxNext]_demuxVars
  <2>1. c \in Channels
    OBVIOUS
  <2>2. CASE CallReceive(c) \/ GetMuxForName(c)
    BY <2>2 DEF CallReceive, GetMuxForName
  <2>3. CASE ~ (CallReceive(c) \/ GetMuxForName(c))
    BY <1>2, <2>1, <2>3 DEF Receiving, JoinMux, EndContext, DemuxNext
  <2> QED
    BY <2>2, <2>3
<1>3. ASSUME NEW m \in Names, Notify(m) \/ PushOn(m) PROVE [DemuxNext]_demuxVars
  <2>1. m \in Muxes
    OBVIOUS
  <2> QED
    BY <1>3, <2>1 DEF Notify, PushOn, DemuxNext
<1>4. CASE TakeChange \/ StartNext
  BY <1>4 DEF TakeChange, StartNext
<1>5. CASE UNCHANGED pqChanVars
  BY <1>5 DEF pqChanVars
<1> QED
  BY <1>1, <1>2, <1>3, <1>4, <1>5 DEF PqNext

\* pqchan/main.go:120-132, 187-213: with its listeners, restarts and faults,
\* pqchan does with its Demux values only what Demux describes.
THEOREM PqChanImplementsDemux == PqSpec => DemuxSpec
<1>1. PqInit => DemuxInit /\ PqInv
  BY InitInv, NoticesInit DEF PqInit, PqInv
<1>2. PqInv /\ [PqNext]_pqChanVars => PqInv'
  BY NextInv, NoticesKept DEF PqInv
<1>3. PqInv /\ [PqNext]_pqChanVars => [DemuxNext]_demuxVars
  BY StepIsDemuxStep
<1> QED
  BY <1>1, <1>2, <1>3, PTL DEF PqSpec, DemuxSpec

\* Nothing that pqchan broadcasts is sent on a closed channel.
THEOREM NoSendOnClosedCorrect == PqSpec => []NoSendOnClosed
BY PqChanImplementsDemux, DemuxNeverSendsOnClosed, PTL

\* A receiver of pqchan misses no notice broadcast while it is listed.
THEOREM NoGapsCorrect == PqSpec => []NoGaps
BY PqChanImplementsDemux, DemuxHasNoGaps, PTL

=============================================================================
