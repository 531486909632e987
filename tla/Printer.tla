------------------------------- MODULE Printer -------------------------------
(***************************************************************************)
(* pdfprinter/pdfprinter2/playwright.go: callers of Print share one browser *)
(* process.  A manager goroutine, autoShutdown, hands out render slots over *)
(* unbuffered channels and closes the browser when it is idle or old; p.mu  *)
(* protects the browser itself.                                            *)
(*                                                                         *)
(* The playwright driver, the browser and its proxy are started and stopped *)
(* together under p.mu, and are one variable here.  Time passes in minutes, *)
(* the period of the manager's ticker.                                     *)
(***************************************************************************)
EXTENDS Integers, FiniteSets

CONSTANTS
  Callers,               \* goroutines that call Print, again and again
  MaxConcurrentRenders,
  InactiveShutdownDelay, \* in minutes
  MaxBrowserLifetime,    \* in minutes
  MaySetupFail,          \* whether the browser may fail to start
  None

ASSUME CallersAssumption == IsFiniteSet(Callers)
ASSUME LimitsAssumption ==
  /\ MaxConcurrentRenders \in Nat /\ MaySetupFail \in BOOLEAN
  /\ InactiveShutdownDelay \in Nat /\ MaxBrowserLifetime \in Nat
ASSUME NoneAssumption == None \notin Nat /\ None \notin Callers

VARIABLES
  mpc,       \* where the manager is
  active,    \* renders it counts
  idleIn,    \* minutes to inactiveShutdown, None when nil
  maxIn,     \* minutes to maxActiveShutdown, None when nil
  tick,      \* its ticker has fired
  mu,        \* who holds p.mu
  installed, \* p.installed
  browser,   \* p.playwright, p.chrome and p.proxy are up
  pc,        \* where each caller is
  users      \* callers whose browser context is in the present browser

managerVars == <<mpc, active, idleIn, maxIn, tick>>
browserVars == <<installed, browser, users>>
vars == <<managerVars, mu, browserVars, pc>>

Minutes(n) == 0 .. n

TypeOK ==
  /\ mpc \in {"install", "select", "drain", "close", "recycle"}
  /\ active \in Nat
  /\ idleIn \in Minutes(InactiveShutdownDelay) \cup {None}
  /\ maxIn \in Minutes(MaxBrowserLifetime) \cup {None}
  /\ tick \in BOOLEAN /\ installed \in BOOLEAN /\ browser \in BOOLEAN
  /\ mu \in Callers \cup {None}
  /\ pc \in [Callers -> {"out", "asking", "locking", "setup", "failing", "unlocking",
                         "rendering", "leaving"}]
  /\ users \subseteq Callers

Init ==
  /\ mpc = "install" /\ active = 0 /\ idleIn = None /\ maxIn = None /\ tick = FALSE
  /\ mu = None
  /\ installed = FALSE /\ browser = FALSE /\ users = {}
  /\ pc = [c \in Callers |-> "out"]

Goto(c, label) == pc' = [pc EXCEPT ![c] = label]

-----------------------------------------------------------------------------
(* Slots: a send of a caller and its receipt by the manager are one step.  *)

\* Print starts: setupBrowser asks for a slot, or its context ends first.
Ask(c) ==
  /\ pc[c] = "out"
  /\ Goto(c, "asking")
  /\ UNCHANGED <<managerVars, mu, browserVars>>

GiveUp(c) ==
  /\ pc[c] = "asking"
  /\ Goto(c, "out")
  /\ UNCHANGED <<managerVars, mu, browserVars>>

Refuse(c) ==
  /\ mpc = "select" /\ pc[c] = "asking"
  /\ active + 1 > MaxConcurrentRenders
  /\ Goto(c, "out")
  /\ UNCHANGED <<managerVars, mu, browserVars>>

\* Mutant: the count is compared before the increment.
GrantOneMore(c) ==
  /\ mpc = "select" /\ pc[c] = "asking"
  /\ active <= MaxConcurrentRenders
  /\ Goto(c, "locking")
  /\ active' = active + 1
  /\ maxIn' = IF active = 0 THEN MaxBrowserLifetime ELSE maxIn
  /\ idleIn' = None
  /\ UNCHANGED <<mpc, tick, mu, browserVars>>

\* The first of a burst of renders starts the browser's lifetime anew.
Grant(c) ==
  /\ mpc = "select" /\ pc[c] = "asking"
  /\ active + 1 <= MaxConcurrentRenders
  /\ Goto(c, "locking")
  /\ active' = active + 1
  /\ maxIn' = IF active = 0 THEN MaxBrowserLifetime ELSE maxIn
  /\ idleIn' = None
  /\ UNCHANGED <<mpc, tick, mu, browserVars>>

\* A slot comes back: from a failed setup, with p.mu held, or after a render.
CountDown(c) ==
  /\ pc[c] \in {"failing", "leaving"}
  /\ Goto(c, IF pc[c] = "failing" THEN "unlocking" ELSE "out")

\* Mutant: the slot of a failed setup is not counted down.
GiveBackLost(c) ==
  /\ mpc = "select"
  /\ CountDown(c)
  /\ active' = IF pc[c] = "failing" THEN active ELSE active - 1
  /\ idleIn' = IF active' = 0 THEN InactiveShutdownDelay ELSE idleIn
  /\ UNCHANGED <<mpc, maxIn, tick, mu, browserVars>>

GiveBack(c) ==
  /\ mpc = "select"
  /\ CountDown(c)
  /\ active' = IF active > 0 THEN active - 1 ELSE 0
  /\ idleIn' = IF active' = 0 THEN InactiveShutdownDelay ELSE idleIn
  /\ UNCHANGED <<mpc, maxIn, tick, mu, browserVars>>

\* A drain that ends goes on to the shutdown.
GiveBackDrained(c) ==
  /\ mpc = "drain"
  /\ CountDown(c)
  /\ active' = active - 1
  /\ mpc' = IF active' > 0 THEN "drain" ELSE "recycle"
  /\ UNCHANGED <<idleIn, maxIn, tick, mu, browserVars>>

-----------------------------------------------------------------------------
(* setupBrowser with p.mu held, and the render.                            *)

Lock(c) ==
  /\ pc[c] = "locking" /\ mu = None
  /\ mu' = c
  /\ Goto(c, "setup")
  /\ UNCHANGED <<managerVars, browserVars>>

SetupDone(c) ==
  /\ pc[c] = "setup"
  /\ installed' = TRUE /\ browser' = TRUE
  /\ users' = users \cup {c}
  /\ mu' = None
  /\ Goto(c, "rendering")
  /\ UNCHANGED <<managerVars>>

\* The installation fails, or a later step, which stops the browser for all.
SetupFails(c) ==
  /\ MaySetupFail /\ pc[c] = "setup"
  /\ \/ ~ installed /\ UNCHANGED browserVars
     \/ installed' = TRUE /\ browser' = FALSE /\ users' = {}
  /\ Goto(c, "failing")
  /\ UNCHANGED <<managerVars, mu>>

Unlock(c) ==
  /\ pc[c] = "unlocking"
  /\ mu' = None
  /\ Goto(c, "out")
  /\ UNCHANGED <<managerVars, browserVars>>

\* The document is done, an operation fails, the context ends or a hook panics.
EndRender(c) ==
  /\ pc[c] = "rendering"
  /\ users' = users \ {c}
  /\ Goto(c, "leaving")
  /\ UNCHANGED <<managerVars, mu, installed, browser>>

-----------------------------------------------------------------------------
(* The manager.                                                            *)

\* setupInstance, before the loop.
Install ==
  /\ mpc = "install" /\ mu = None
  /\ mpc' = "select"
  /\ installed' \in IF MaySetupFail THEN BOOLEAN ELSE {TRUE}
  /\ UNCHANGED <<active, idleIn, maxIn, tick, mu, browser, users, pc>>

\* Mutant: an old browser is recycled without waiting for its renders.
TickNoDrain ==
  /\ mpc = "select" /\ tick /\ tick' = FALSE
  /\ \/ /\ idleIn = 0
        /\ mpc' = IF active = 0 THEN "close" ELSE "select"
        /\ idleIn' = None
     \/ /\ idleIn # 0 /\ UNCHANGED idleIn
        /\ mpc' = IF maxIn = 0 THEN "recycle" ELSE "select"
  /\ UNCHANGED <<active, maxIn, mu, browserVars, pc>>

\* Mutant: the drain waits for one render at least.
TickDrainsIdle ==
  /\ mpc = "select" /\ tick /\ tick' = FALSE
  /\ \/ /\ idleIn = 0
        /\ mpc' = IF active = 0 THEN "close" ELSE "select"
        /\ idleIn' = None
     \/ /\ idleIn # 0 /\ UNCHANGED idleIn
        /\ mpc' = IF maxIn = 0 THEN "drain" ELSE "select"
  /\ UNCHANGED <<active, maxIn, mu, browserVars, pc>>

\* A minute's tick: the idle browser is closed, or the old one drained.
Tick ==
  /\ mpc = "select" /\ tick /\ tick' = FALSE
  /\ \/ /\ idleIn = 0
        /\ mpc' = IF active = 0 THEN "close" ELSE "select"
        /\ idleIn' = None
     \/ /\ idleIn # 0 /\ UNCHANGED idleIn
        /\ mpc' = CASE maxIn # 0  -> "select"
                    [] active > 0 -> "drain"
                    [] OTHER      -> "recycle"
  /\ UNCHANGED <<active, maxIn, mu, browserVars, pc>>

Shutdown ==
  /\ mpc \in {"close", "recycle"} /\ mu = None
  /\ mpc' = "select"
  /\ browser' = FALSE /\ users' = {}
  /\ maxIn' = IF mpc = "recycle" THEN None ELSE maxIn
  /\ UNCHANGED <<active, idleIn, tick, mu, installed, pc>>

-----------------------------------------------------------------------------

Less(n) == IF n \in {0, None} THEN n ELSE n - 1

Minute ==
  /\ tick' = TRUE
  /\ idleIn' = Less(idleIn) /\ maxIn' = Less(maxIn)
  /\ UNCHANGED <<mpc, active, mu, installed, browser, users, pc>>

Serve(c) == Grant(c) \/ Refuse(c)
Return(c) == GiveBack(c) \/ GiveBackDrained(c)
Use(c) == Lock(c) \/ SetupDone(c) \/ SetupFails(c) \/ Unlock(c) \/ EndRender(c)
Manage == Install \/ Tick \/ Shutdown

Next ==
  \/ \E c \in Callers : Ask(c) \/ GiveUp(c) \/ Serve(c) \/ Return(c) \/ Use(c)
  \/ Manage \/ Minute

Spec == Init /\ [][Next]_vars

\* Renders end (RenderTimeout).  Senders of a channel are served in order, and
\* a select chooses among its ready cases at random; so do waiters for p.mu.
FairSpec ==
  /\ Spec /\ SF_vars(Manage) /\ WF_vars(Minute)
  /\ \A c \in Callers : SF_vars(Serve(c)) /\ SF_vars(Return(c)) /\ SF_vars(Use(c))

-----------------------------------------------------------------------------
(* Properties.                                                             *)

Holding(c) == pc[c] \in {"locking", "setup", "failing", "rendering", "leaving"}

\* The manager counts a slot for each caller that was granted one and has not
\* given it back, on every path of setupBrowser, and keeps to the limit.
SlotsExact ==
  /\ active = Cardinality({c \in Callers : Holding(c)})
  /\ active <= MaxConcurrentRenders

\* A step after which every render that goes on has its browser, or in which
\* another caller's setup fails.
KeepsBrowser ==
  \A c \in users : pc[c] = "rendering" /\ pc'[c] = "rendering" =>
    \/ browser' /\ c \in users'
    \/ \E d \in Callers : pc[d] = "setup" /\ pc'[d] = "failing"

\* "not a render kill: in-flight work finishes first" (playwright.go:161):
\* neither a shutdown, idle or old, nor another render takes the browser from a
\* render.
RendersKeepBrowser == [][KeepsBrowser]_vars

\* The manager closes the browser only when nobody has a slot, failed setups
\* and drains included.
ShutdownOnlyIdle ==
  mpc \in {"close", "recycle"} => \A c \in Callers : ~ Holding(c)

\* Every Print returns: a failed setup sends its slot back with p.mu held, and
\* the manager waits for p.mu, but never both.
PrintReturns == \A c \in Callers : pc[c] = "asking" ~> pc[c] = "out"

\* A browser nobody uses any more is closed.
IdleBrowserCloses ==
  <>[](\A c \in Callers : pc[c] = "out") => <>[] ~ browser
=============================================================================
