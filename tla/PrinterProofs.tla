---------------------------- MODULE PrinterProofs ----------------------------
(* Theorems about Printer, for every number of callers and every limit. *)
EXTENDS Printer, FiniteSetTheorems, TLAPS

-----------------------------------------------------------------------------
(* Type correctness and the count of slots.                                *)

Holders == {c \in Callers : Holding(c)}

\* The manager shuts down only with its count at zero.
ClosesAtZero == mpc \in {"close", "recycle"} => active = 0

\* Callers are in a browser that is up.
UsersHaveBrowser == users # {} => browser

Inv == TypeOK /\ SlotsExact /\ ClosesAtZero /\ UsersHaveBrowser

LEMMA HoldersFinite == IsFiniteSet(Holders) /\ Cardinality(Holders) \in Nat
BY CallersAssumption, FS_Subset, FS_CardinalityType DEF Holders

LEMMA InitInv == Init => Inv
<1> SUFFICES ASSUME Init PROVE Inv
  OBVIOUS
<1>1. TypeOK
  BY DEF Init, TypeOK
<1>2. {c \in Callers : Holding(c)} = {}
  BY DEF Init, Holding
<1>3. SlotsExact
  BY <1>2, FS_EmptySet, LimitsAssumption DEF Init, SlotsExact
<1> QED
  BY <1>1, <1>3 DEF Inv, Init, ClosesAtZero, UsersHaveBrowser

\* A grant adds the caller to the holders.
LEMMA GrantKeeps ==
  ASSUME Inv, NEW c \in Callers, Grant(c)
  PROVE  Inv'
<1>1. TypeOK'
  BY LimitsAssumption DEF Inv, TypeOK, Grant, Goto, browserVars, Minutes
<1>2. c \notin Holders /\ Holders' = Holders \cup {c}
  BY DEF Inv, TypeOK, Grant, Goto, Holders, Holding
<1>3. Cardinality(Holders') = Cardinality(Holders) + 1
  BY <1>2, HoldersFinite, FS_AddElement
<1>4. SlotsExact'
  BY <1>3 DEF Inv, SlotsExact, Grant, Holders
<1>5. ClosesAtZero' /\ UsersHaveBrowser'
  BY DEF Inv, ClosesAtZero, UsersHaveBrowser, Grant, browserVars
<1> QED
  BY <1>1, <1>4, <1>5 DEF Inv

\* A slot that comes back removes it.
LEMMA GiveBackKeeps ==
  ASSUME Inv, NEW c \in Callers, GiveBack(c) \/ GiveBackDrained(c)
  PROVE  Inv'
<1>1. c \in Holders /\ Holders' = Holders \ {c}
  BY DEF Inv, TypeOK, GiveBack, GiveBackDrained, CountDown, Goto, Holders, Holding
<1>2. Cardinality(Holders') = Cardinality(Holders) - 1
  BY <1>1, HoldersFinite, FS_RemoveElement
<1>3. active = Cardinality(Holders) /\ active <= MaxConcurrentRenders
  BY DEF Inv, SlotsExact, Holders
<1>4. Cardinality(Holders') \in Nat
  BY <1>1, CallersAssumption, FS_Subset, FS_CardinalityType DEF Holders
<1>5. active \in Nat /\ active > 0
  BY <1>2, <1>3, <1>4, HoldersFinite
<1>6. active' = active - 1
  BY <1>5 DEF GiveBack, GiveBackDrained
<1>7. TypeOK'
  BY <1>5, <1>6, LimitsAssumption
     DEF Inv, TypeOK, GiveBack, GiveBackDrained, CountDown, Goto, browserVars, Minutes
<1>8. SlotsExact'
  BY <1>2, <1>3, <1>5, <1>6, LimitsAssumption DEF SlotsExact, Holders
<1>9. ClosesAtZero'
  BY <1>5, <1>6 DEF ClosesAtZero, GiveBack, GiveBackDrained
<1>10. UsersHaveBrowser'
  BY DEF Inv, UsersHaveBrowser, GiveBack, GiveBackDrained, browserVars
<1> QED
  BY <1>7, <1>8, <1>9, <1>10 DEF Inv

\* The other steps change neither the count nor the holders.
LEMMA CountKept ==
  ASSUME Inv, active' = active, \A c \in Callers : Holding(c)' <=> Holding(c)
  PROVE  SlotsExact'
<1>1. {c \in Callers : Holding(c)}' = {c \in Callers : Holding(c)}
  OBVIOUS
<1> QED
  BY <1>1 DEF Inv, SlotsExact

LEMMA CallerKeeps ==
  ASSUME Inv, NEW c \in Callers, Ask(c) \/ GiveUp(c) \/ Refuse(c) \/ Use(c)
  PROVE  Inv'
<1> USE DEF Inv, TypeOK, Goto, managerVars, browserVars
<1>1. TypeOK'
  <2>1. CASE Ask(c) \/ GiveUp(c)
    BY <2>1 DEF Ask, GiveUp
  <2>2. CASE Refuse(c)
    BY <2>2 DEF Refuse
  <2>3. CASE Lock(c) \/ Unlock(c) \/ EndRender(c)
    BY <2>3 DEF Lock, Unlock, EndRender
  <2>4. CASE SetupDone(c)
    BY <2>4, LimitsAssumption DEF SetupDone, Minutes
  <2>5. CASE SetupFails(c)
    BY <2>5 DEF SetupFails
  <2> QED
    BY <2>1, <2>2, <2>3, <2>4, <2>5 DEF Use
<1>2. active' = active /\ mpc' = mpc
  BY DEF Ask, GiveUp, Refuse, Use, Lock, Unlock, EndRender, SetupDone, SetupFails
<1>3. \A d \in Callers : Holding(d)' <=> Holding(d)
  BY DEF Ask, GiveUp, Refuse, Use, Lock, Unlock, EndRender, SetupDone, SetupFails, Holding
<1>4. SlotsExact'
  BY <1>2, <1>3, CountKept
<1>5. UsersHaveBrowser'
  BY DEF UsersHaveBrowser, Ask, GiveUp, Refuse, Use, Lock, Unlock, EndRender, SetupDone,
         SetupFails
<1> QED
  BY <1>1, <1>2, <1>4, <1>5 DEF ClosesAtZero

LEMMA LessKeeps ==
  ASSUME NEW n \in Nat, NEW m \in Minutes(n) \cup {None}
  PROVE  Less(m) \in Minutes(n) \cup {None}
<1>1. CASE m = None
  BY <1>1 DEF Less
<1>2. CASE m \in 0 .. n
  BY <1>2, NoneAssumption DEF Less, Minutes
<1> QED
  BY <1>1, <1>2 DEF Minutes

LEMMA ManagerKeeps ==
  ASSUME Inv, Manage \/ Minute
  PROVE  Inv'
<1> USE DEF Inv, TypeOK
<1>1. TypeOK'
  <2>1. CASE Install
    BY <2>1 DEF Install
  <2>2. CASE Tick
    BY <2>2 DEF Tick, browserVars
  <2>3. CASE Shutdown
    BY <2>3 DEF Shutdown
  <2>4. CASE Minute
    <3> USE <2>4
    <3>1. idleIn' \in Minutes(InactiveShutdownDelay) \cup {None}
      BY LessKeeps, LimitsAssumption DEF Minute
    <3>2. maxIn' \in Minutes(MaxBrowserLifetime) \cup {None}
      BY LessKeeps, LimitsAssumption DEF Minute
    <3>3. /\ tick' = TRUE
          /\ UNCHANGED <<mpc, active, mu, installed, browser, users, pc>>
      BY DEF Minute
    <3> HIDE <2>4
    <3> QED
      BY <3>1, <3>2, <3>3
  <2> QED
    BY <2>1, <2>2, <2>3, <2>4 DEF Manage
<1>2. active' = active /\ pc' = pc
  BY DEF Manage, Minute, Install, Tick, Shutdown
<1>3. SlotsExact'
  BY <1>2, CountKept DEF Holding
<1>4. ClosesAtZero'
  <2>1. CASE Install \/ Shutdown \/ Minute
    BY <2>1 DEF ClosesAtZero, Install, Shutdown, Minute
  <2>2. CASE Tick
    <3>1. CASE idleIn = 0
      BY <3>1, <2>2 DEF Tick, ClosesAtZero
    <3>2. CASE idleIn # 0 /\ maxIn # 0
      BY <3>2, <2>2 DEF Tick, ClosesAtZero
    <3>3. CASE idleIn # 0 /\ maxIn = 0 /\ active > 0
      <4>1. mpc' = "drain"
        BY <3>3, <2>2 DEF Tick
      <4> QED
        BY <4>1 DEF ClosesAtZero
    <3>4. CASE ~ (active > 0)
      BY <3>4, <1>2 DEF ClosesAtZero
    <3> QED
      BY <3>1, <3>2, <3>3, <3>4
  <2> QED
    BY <2>1, <2>2 DEF Manage
<1>5. UsersHaveBrowser'
  BY DEF UsersHaveBrowser, Manage, Minute, Install, Tick, Shutdown, browserVars
<1> QED
  BY <1>1, <1>3, <1>4, <1>5

LEMMA NextKeeps == Inv /\ [Next]_vars => Inv'
<1> SUFFICES ASSUME Inv, [Next]_vars PROVE Inv'
  OBVIOUS
<1>1. ASSUME NEW c \in Callers, Ask(c) \/ GiveUp(c) \/ Serve(c) \/ Return(c) \/ Use(c)
      PROVE  Inv'
  BY <1>1, GrantKeeps, GiveBackKeeps, CallerKeeps DEF Serve, Return
<1>2. CASE Manage \/ Minute
  BY <1>2, ManagerKeeps
<1>3. CASE UNCHANGED vars
  <2>1. TypeOK' /\ ClosesAtZero' /\ UsersHaveBrowser'
    BY <1>3 DEF Inv, TypeOK, ClosesAtZero, UsersHaveBrowser, vars, managerVars, browserVars
  <2>2. SlotsExact'
    BY <1>3, CountKept DEF vars, managerVars, Holding
  <2> QED
    BY <2>1, <2>2 DEF Inv
<1> QED
  BY <1>1, <1>2, <1>3 DEF Next

LEMMA InvHolds == Spec => []Inv
BY InitInv, NextKeeps, PTL DEF Spec

\* With the count at zero nobody holds a slot.
LEMMA NobodyHolds ==
  ASSUME Inv, active = 0, NEW c \in Callers
  PROVE  ~ Holding(c)
<1>1. Cardinality(Holders) = 0
  BY DEF Inv, SlotsExact, Holders
<1>2. Holders = {}
  BY <1>1, HoldersFinite, FS_EmptySet
<1> QED
  BY <1>2 DEF Holders

-----------------------------------------------------------------------------

\* Every variable keeps its type.
THEOREM TypeCorrect == Spec => []TypeOK
<1>1. Inv => TypeOK
  BY DEF Inv
<1> QED
  BY <1>1, InvHolds, PTL

\* autoShutdown counts exactly the slots that are out, within the limit.
THEOREM SlotsCorrect == Spec => []SlotsExact
<1>1. Inv => SlotsExact
  BY DEF Inv
<1> QED
  BY <1>1, InvHolds, PTL

\* The manager shuts the browser down only when no Print has a slot.
THEOREM ShutdownCorrect == Spec => []ShutdownOnlyIdle
<1>1. Inv => ShutdownOnlyIdle
  BY NobodyHolds DEF Inv, ShutdownOnlyIdle, ClosesAtZero
<1> QED
  BY <1>1, InvHolds, PTL

\* "in-flight work finishes first" (playwright.go:161): neither the manager nor
\* another render takes the browser from a render, only a failed setup does.
THEOREM RendersCorrect == Spec => RendersKeepBrowser
<1> DEFINE Kept(c) == browser' /\ c \in users'
           Failed  == \E d \in Callers : pc[d] = "setup" /\ pc'[d] = "failing"
<1>1. ASSUME Inv, Next, NEW c \in users, pc[c] = "rendering", pc'[c] = "rendering"
      PROVE  Kept(c) \/ Failed
  <2> USE <1>1 DEF Inv, TypeOK
  <2>1. browser /\ c \in Callers
    BY DEF UsersHaveBrowser
  <2>2. CASE UNCHANGED <<browser, users>>
    BY <2>1, <2>2
  <2>3. ASSUME NEW d \in Callers, SetupDone(d) PROVE Kept(c)
    BY <2>1, <2>3 DEF SetupDone
  <2>4. ASSUME NEW d \in Callers, SetupFails(d) PROVE Failed
    BY <2>4 DEF SetupFails, Goto
  <2>5. ASSUME NEW d \in Callers, EndRender(d) PROVE Kept(c)
    <3>1. d # c
      BY <2>5, <2>1 DEF EndRender, Goto
    <3> QED
      BY <2>1, <2>5, <3>1 DEF EndRender
  <2>6. CASE Shutdown
    BY <2>6, <2>1, NobodyHolds DEF Shutdown, ClosesAtZero, Holding
  <2>7. ASSUME NEW d \in Callers,
               Ask(d) \/ GiveUp(d) \/ Serve(d) \/ Return(d) \/ Lock(d) \/ Unlock(d)
        PROVE  UNCHANGED <<browser, users>>
    BY <2>7 DEF Ask, GiveUp, Serve, Grant, Refuse, Return, GiveBack, GiveBackDrained, Lock,
                Unlock, browserVars
  <2>8. ASSUME Install \/ Tick \/ Minute
        PROVE  UNCHANGED <<browser, users>>
    BY <2>8 DEF Install, Tick, Minute, browserVars
  <2> QED
    BY <2>2, <2>3, <2>4, <2>5, <2>6, <2>7, <2>8 DEF Next, Use, Manage
<1>2. Inv /\ [Next]_vars => [KeepsBrowser]_vars
  BY <1>1 DEF KeepsBrowser
<1> QED
  BY <1>2, InvHolds, PTL DEF Spec, RendersKeepBrowser

-----------------------------------------------------------------------------
(* The manager, the callers, the slots and p.mu block nobody for ever.     *)

\* A guard of the manager or of a caller holds; a caller whose context ends and a
\* tick of the clock do not count.
CanGoOn ==
  \/ mpc \in {"install", "close", "recycle"} /\ mu = None
  \/ \E c \in Callers :
       \/ mpc = "select" /\ pc[c] \in {"asking", "failing", "leaving"}
       \/ mpc = "drain" /\ pc[c] \in {"failing", "leaving"}
       \/ pc[c] \in {"setup", "unlocking", "rendering"}
       \/ pc[c] = "locking" /\ mu = None

NeverStuck == mpc # "select" \/ (\E c \in Callers : pc[c] # "out") => CanGoOn

InMu == {"setup", "failing", "unlocking"}

\* Who holds p.mu, and in which phases of the manager a slot is given back.
Exclusion ==
  /\ \A c \in Callers : pc[c] \in InMu <=> mu = c
  /\ mpc = "install" => active = 0
  /\ mpc = "drain" => active > 0

LEMMA ExclusionStep == Inv /\ Exclusion /\ [Next]_vars => Exclusion'
<1> SUFFICES ASSUME Inv, Exclusion, [Next]_vars PROVE Exclusion'
  OBVIOUS
<1>1. TypeOK /\ mu \in Callers \cup {None} /\ None \notin Callers /\ active \in Nat
  BY NoneAssumption DEF Inv, TypeOK
<1>2. ASSUME NEW c \in Callers, Ask(c) \/ GiveUp(c) \/ Serve(c) \/ Return(c) \/ EndRender(c)
      PROVE  Exclusion'
  <2>1. /\ mu' = mu /\ pc' = [pc EXCEPT ![c] = pc'[c]]
        /\ pc'[c] \in InMu <=> pc[c] \in InMu
    BY <1>1, <1>2 DEF Ask, GiveUp, Serve, Grant, Refuse, Return, GiveBack, GiveBackDrained, CountDown,
                      EndRender, Goto, InMu, TypeOK
  <2>2. \A d \in Callers : pc'[d] \in InMu <=> mu' = d
    BY <1>1, <2>1 DEF TypeOK, Exclusion
  <2>3. \/ mpc' = mpc /\ (active' = active \/ mpc = "select")
        \/ mpc' = "recycle"
        \/ mpc' = "drain" /\ active' > 0
    BY <1>2 DEF Ask, GiveUp, Serve, Grant, Refuse, Return, GiveBack, GiveBackDrained, EndRender,
                managerVars
  <2> QED
    BY <2>2, <2>3 DEF Exclusion
<1>3. ASSUME NEW c \in Callers, Lock(c) \/ SetupDone(c) \/ SetupFails(c) \/ Unlock(c)
      PROVE  Exclusion'
  <2>1. /\ pc' = [pc EXCEPT ![c] = pc'[c]] /\ UNCHANGED managerVars
        /\ \/ mu = None /\ pc[c] \notin InMu /\ mu' = c /\ pc'[c] \in InMu
           \/ pc[c] \in InMu /\ mu' = None /\ pc'[c] \notin InMu
           \/ pc[c] \in InMu /\ mu' = mu /\ pc'[c] \in InMu
    BY <1>1, <1>3 DEF Lock, SetupDone, SetupFails, Unlock, Goto, InMu, TypeOK
  <2>2. \A d \in Callers : d # c => pc'[d] = pc[d]
    BY <1>1, <2>1 DEF TypeOK
  <2>3. \A d \in Callers : pc'[d] \in InMu <=> mu' = d
    BY <1>1, <2>1, <2>2 DEF Exclusion
  <2> QED
    BY <2>1, <2>3 DEF Exclusion, managerVars
<1>4. CASE Manage \/ Minute \/ UNCHANGED vars
  <2>1. /\ mu' = mu /\ pc' = pc /\ active' = active
        /\ \/ mpc' = mpc \/ mpc' \in {"select", "close", "recycle"}
           \/ mpc' = "drain" /\ active > 0
    BY <1>4 DEF Manage, Install, Tick, Shutdown, Minute, vars, managerVars
  <2> QED
    BY <2>1 DEF Exclusion
<1> QED
  BY <1>2, <1>3, <1>4 DEF Next, Use

\* No Print and no shutdown waits for ever, though a failed setup sends its slot
\* back with p.mu held (playwright.go:246) and the manager takes p.mu: the safety
\* half of PrintReturns and IdleBrowserCloses.
THEOREM PrinterNeverStuck == Spec => []NeverStuck
<1>1. Init => Exclusion
  BY NoneAssumption DEF Init, Exclusion, InMu
<1>2. Inv /\ Exclusion => NeverStuck
  <2> SUFFICES ASSUME Inv, Exclusion, mpc # "select" \/ \E c \in Callers : pc[c] # "out", ~ CanGoOn
               PROVE  FALSE
    BY DEF NeverStuck
  <2>1. TypeOK /\ active \in Nat
    BY DEF Inv, TypeOK
  <2>2. \A c \in Callers : pc[c] \in {"out", "asking", "locking", "failing", "leaving"}
    BY <2>1 DEF CanGoOn, TypeOK
  <2>3. CASE mu = None
    <3>1. \A c \in Callers : pc[c] \in {"out", "asking", "leaving"}
      BY <2>1, <2>2, <2>3, NoneAssumption DEF CanGoOn, Exclusion, InMu
    <3>2. mpc \in {"select", "drain"}
      BY <2>1, <2>3 DEF CanGoOn, TypeOK
    <3>3. mpc = "drain"
      BY <3>1, <3>2 DEF CanGoOn
    <3>4. active > 0
      BY <3>3 DEF Exclusion
    <3>5. PICK c \in Callers : Holding(c)
      <4>1. Cardinality(Holders) # 0
        BY <2>1, <3>4 DEF Inv, SlotsExact, Holders
      <4>2. Holders # {}
        BY <4>1, FS_EmptySet
      <4> QED
        BY <4>2 DEF Holders
    <3> QED
      BY <3>1, <3>3, <3>5 DEF Holding, CanGoOn
  <2>4. CASE mu # None
    <3>1. mu \in Callers /\ pc[mu] = "failing"
      BY <2>1, <2>2, <2>4 DEF TypeOK, Exclusion, InMu
    <3>2. mpc \in {"install", "close", "recycle"}
      BY <2>1, <3>1 DEF CanGoOn, TypeOK
    <3>3. active = 0
      BY <3>2 DEF Inv, ClosesAtZero, Exclusion
    <3> QED
      BY <3>1, <3>3, NobodyHolds DEF Holding
  <2> QED
    BY <2>3, <2>4
<1>3. Spec => []Exclusion
  BY <1>1, InvHolds, ExclusionStep, PTL DEF Spec
<1> QED
  BY <1>2, <1>3, InvHolds, PTL
=============================================================================
