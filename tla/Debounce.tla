------------------------------- MODULE Debounce -------------------------------
(***************************************************************************)
(* Queue.add of pqworkqueue/main.go: debounced insertion of jobs from      *)
(* concurrent transactions, next to goroutines that claim and run the      *)
(* rows.  Postgres runs each statement atomically at read committed: it    *)
(* sees committed rows and those of its own transaction, and `for update   *)
(* skip locked` passes over rows another transaction holds.                *)
(*                                                                         *)
(* All calls are about one queue and, but for plain ones, one debounce     *)
(* key: rows of another queue or key match no query here.  A row is named  *)
(* by the call that inserts it, an argument by the calls merged into it, a *)
(* start time by the call that gave it.                                    *)
(***************************************************************************)
EXTENDS Naturals, Sequences, FiniteSets

CONSTANTS
  Calls,    \* calls of add, each made once at most
  Txs,      \* the transactions they are made in
  TxOf,     \* the transaction of each call
  ModesOf,  \* the kinds each may be of: subsets of AllModes
  NoCall

AllModes == {"plain", "keep", "replace", "merge", "mergeKeep"}

ASSUME TxAssumption == TxOf \in [Calls -> Txs]
ASSUME ModesAssumption == ModesOf \in [Calls -> SUBSET AllModes]
ASSUME NoCallAssumption == NoCall \notin Calls

VARIABLES
  state,   \* state of each committed row; "running": a worker's claim holds it
  row,     \* its job_arg and start_after
  draft,   \* rows a transaction has written or locked, as it sees them
  tx,      \* whether each transaction is open
  pc,      \* how far each call is
  mode,    \* its kind
  result,  \* the id it returns
  found,   \* the row as the query of a merging call returned it
  ran,     \* the argument the last run of a row got
  did,     \* history: the calls of each open transaction on each row, in order
  log,     \* history: the committed calls on each row, in order
  overlap  \* history: rows a call that inserted could not see or had to skip

jobVars == <<state, row, ran>>
callVars == <<pc, mode, result, found>>
addVars == <<state, row, draft, tx, pc, mode, result, found, ran, did, log, overlap>>

New(c) == [arg |-> {c}, start |-> c]
Blank == [arg |-> {}, start |-> NoCall]
Contents == [arg : SUBSET Calls, start : Calls \cup {NoCall}]

TypeOK ==
  /\ state \in [Calls -> {"absent", "pending", "running", "done"}]
  /\ row \in [Calls -> Contents]
  /\ draft \in [Txs -> [Calls -> Contents]]
  /\ tx \in [Txs -> {"open", "committed", "rolledBack"}]
  /\ pc \in [Calls -> {"todo", "merging", "done", "failed"}]
  /\ mode \in [Calls -> AllModes]
  /\ result \in [Calls -> Calls \cup {NoCall}]
  /\ found \in [Calls -> Contents]
  /\ ran \in [Calls -> SUBSET Calls]
  /\ did \in [Txs -> [Calls -> Seq(Calls)]]
  /\ log \in [Calls -> Seq(Calls)]
  /\ overlap \in [Calls -> SUBSET Calls]

Init ==
  /\ state = [c \in Calls |-> "absent"]
  /\ row = [c \in Calls |-> Blank]
  /\ draft = [t \in Txs |-> [c \in Calls |-> Blank]]
  /\ tx = [t \in Txs |-> "open"]
  /\ pc = [c \in Calls |-> "todo"]
  /\ mode = [c \in Calls |-> "plain"]
  /\ result = [c \in Calls |-> NoCall]
  /\ found = [c \in Calls |-> Blank]
  /\ ran = [c \in Calls |-> {}]
  /\ did = [t \in Txs |-> [c \in Calls |-> <<>>]]
  /\ log = [c \in Calls |-> <<>>]
  /\ overlap = [c \in Calls |-> {}]

-----------------------------------------------------------------------------
(* What a statement of transaction t sees.                                 *)

Holds(t, i) == draft[t][i] # Blank

\* Rows it cannot lock, or that are not committed and not its own.
Unavailable(t) ==
  {i \in Calls : state[i] = "running" \/ \E u \in Txs \ {t} : Holds(u, i)}

Keyed(i) == mode[i] # "plain"

\* Mutant: the query does not see what its own transaction inserted.
ExistingCommitted(t) ==
  {i \in Calls : Keyed(i) /\ state[i] = "pending"} \ Unavailable(t)
\* Mutant: `for update skip locked` is missing.
ExistingLocked(t) ==
  {i \in Calls : /\ Keyed(i)
                 /\ state[i] \in {"pending", "running"} \/ Holds(t, i)}

\* The candidates of `existing`: same key, not started.
Existing(t) ==
  {i \in Calls : /\ Keyed(i)
                 /\ state[i] = "pending" \/ Holds(t, i)} \ Unavailable(t)

Current(t, i) == IF Holds(t, i) THEN draft[t][i] ELSE row[i]

-----------------------------------------------------------------------------
(* Calls.                                                                  *)

\* A transaction makes its calls one after the other.
MayCall(c) ==
  /\ tx[TxOf[c]] = "open" /\ pc[c] = "todo"
  /\ \A d \in Calls : TxOf[d] = TxOf[c] => pc[d] # "merging"

\* Mutant: add returns the id it made, whatever row was found.
DoneOwnId(c, i) ==
  /\ pc' = [pc EXCEPT ![c] = "done"]
  /\ result' = [result EXCEPT ![c] = c]
  /\ did' = [did EXCEPT ![TxOf[c]][c] = Append(@, c)]

Write(t, i, x) == draft' = [draft EXCEPT ![t][i] = x]
Done(c, i) ==
  /\ pc' = [pc EXCEPT ![c] = "done"]
  /\ result' = [result EXCEPT ![c] = i]
  /\ did' = [did EXCEPT ![TxOf[c]][i] = Append(@, c)]

\* No debounce key, or no row found: a row is inserted.
Insert(c, m) ==
  LET t == TxOf[c]
  IN /\ MayCall(c)
     /\ m = "plain" \/ Existing(t) = {}
     /\ mode' = [mode EXCEPT ![c] = m]
     /\ Write(t, c, New(c))
     /\ Done(c, c)
     /\ overlap' = [overlap EXCEPT ![c] = Unavailable(t)]
     /\ UNCHANGED <<jobVars, tx, found, log>>

\* Without a merge function, one statement locks the row and, unless the
\* original start is kept, gives it the new start and argument.
Absorb(c, m) ==
  LET t == TxOf[c]
  IN /\ MayCall(c) /\ m \in {"keep", "replace"}
     /\ mode' = [mode EXCEPT ![c] = m]
     /\ \E i \in Existing(t) :
          /\ Write(t, i, IF m = "keep" THEN Current(t, i) ELSE New(c))
          /\ Done(c, i)
     /\ UNCHANGED <<jobVars, tx, found, log, overlap>>

\* With one, a statement locks and returns the row ...
StartMerge(c, m) ==
  LET t == TxOf[c]
  IN /\ MayCall(c) /\ m \in {"merge", "mergeKeep"}
     /\ mode' = [mode EXCEPT ![c] = m]
     /\ \E i \in Existing(t) :
          /\ Write(t, i, Current(t, i))
          /\ found' = [found EXCEPT ![c] = Current(t, i)]
          /\ result' = [result EXCEPT ![c] = i]
     /\ pc' = [pc EXCEPT ![c] = "merging"]
     /\ UNCHANGED <<jobVars, tx, did, log, overlap>>

\* ... and another writes what debounceMerge made of it.
Merge(c) ==
  /\ pc[c] = "merging"
  /\ Write(TxOf[c], result[c],
           [arg |-> found[c].arg \cup {c},
            start |-> IF mode[c] = "mergeKeep" THEN found[c].start ELSE c])
  /\ Done(c, result[c])
  /\ UNCHANGED <<jobVars, tx, mode, found, log, overlap>>

\* debounceMerge returns an error, and so does add.
MergeFails(c) ==
  /\ pc[c] = "merging"
  /\ pc' = [pc EXCEPT ![c] = "failed"]
  /\ result' = [result EXCEPT ![c] = NoCall]
  /\ UNCHANGED <<jobVars, draft, tx, mode, found, did, log, overlap>>

-----------------------------------------------------------------------------
(* The end of a transaction: it may have failed calls, or none.            *)

MayEnd(t) ==
  /\ tx[t] = "open"
  /\ \A c \in Calls : TxOf[c] = t => pc[c] # "merging"

Ended(t, how) ==
  /\ tx' = [tx EXCEPT ![t] = how]
  /\ draft' = [draft EXCEPT ![t] = [c \in Calls |-> Blank]]
  /\ did' = [did EXCEPT ![t] = [c \in Calls |-> <<>>]]

Commit(t) ==
  /\ MayEnd(t)
  /\ Ended(t, "committed")
  /\ row' = [i \in Calls |-> Current(t, i)]
  /\ state' = [i \in Calls |-> IF Holds(t, i) /\ state[i] = "absent" THEN "pending"
                                                                 ELSE state[i]]
  /\ log' = [i \in Calls |-> log[i] \o did[t][i]]
  /\ UNCHANGED <<callVars, ran, overlap>>

\* Also a failed commit, and a crash of the adding process.
Rollback(t) ==
  /\ tx[t] = "open"
  /\ Ended(t, "rolledBack")
  /\ pc' = [c \in Calls |-> IF TxOf[c] = t /\ pc[c] = "merging" THEN "failed"
                                                                ELSE pc[c]]
  /\ UNCHANGED <<jobVars, mode, result, found, log, overlap>>

-----------------------------------------------------------------------------
(* The worker side: getAndClaimJob and the end of startWork.  start_after  *)
(* may have passed for any row.                                            *)

\* Mutant: the claim takes locked rows too.
ClaimHeld(i) ==
  /\ state[i] = "pending"
  /\ state' = [state EXCEPT ![i] = "running"]
  /\ ran' = [ran EXCEPT ![i] = row[i].arg]
  /\ UNCHANGED <<row, draft, tx, callVars, did, log, overlap>>

Claim(i) ==
  /\ state[i] = "pending" /\ \A t \in Txs : ~ Holds(t, i)
  /\ state' = [state EXCEPT ![i] = "running"]
  /\ ran' = [ran EXCEPT ![i] = row[i].arg]
  /\ UNCHANGED <<row, draft, tx, callVars, did, log, overlap>>

\* The claiming transaction commits, or is rolled back.
Finish(i, how) ==
  /\ state[i] = "running"
  /\ state' = [state EXCEPT ![i] = how]
  /\ UNCHANGED <<row, draft, tx, callVars, ran, did, log, overlap>>

-----------------------------------------------------------------------------

Call(c) ==
  \/ \E m \in ModesOf[c] : Insert(c, m) \/ Absorb(c, m) \/ StartMerge(c, m)
  \/ Merge(c) \/ MergeFails(c)

Next ==
  \/ \E c \in Calls : Call(c)
  \/ \E t \in Txs : Commit(t) \/ Rollback(t)
  \/ \E i \in Calls : Claim(i) \/ \E how \in {"done", "pending"} : Finish(i, how)

Spec == Init /\ [][Next]_addVars

-----------------------------------------------------------------------------
(* Properties.                                                             *)

\* Call k of s, the calls on a row, gives it its argument or adds to it, and no
\* later one replaces it; or it gives the row its start time.
InArg(s, k) ==
  /\ k = 1 \/ mode[s[k]] # "keep"
  /\ \A l \in k + 1..Len(s) : mode[s[l]] # "replace"
GivesStart(s, k) == k = 1 \/ mode[s[k]] \in {"replace", "merge"}

\* What the row holds after the calls of s, one after the other.
ArgAfter(s) == {s[k] : k \in {l \in 1..Len(s) : InArg(s, l)}}
HasStart(x, s) ==
  \E k \in 1..Len(s) :
    /\ x.start = s[k] /\ GivesStart(s, k)
    /\ \A l \in k + 1..Len(s) : ~ GivesStart(s, l)
IsAfter(x, s) ==
  /\ x.arg = ArgAfter(s)
  /\ IF s = <<>> THEN x.start = NoCall ELSE HasStart(x, s)

\* add's select-for-update, merge and update in two statements: each row holds
\* what its committed calls give in the order of their commits, so that no
\* merge is lost and no start time moves back to an older call's.
RowsAreSerial == \A i \in Calls : IsAfter(row[i], log[i])

\* A caller polls GetStatus and GetResult with the id add returned: a run that
\* id reports on got the row as all committed calls with that id left it.
RunHasAllCalls ==
  \A i \in Calls : state[i] \in {"running", "done"} => ran[i] = ArgAfter(log[i])

\* AddOption.DebounceKey: two jobs wait under one key only if, when one of them
\* was added, the other was in progress or in the hands of another transaction.
DuplicatesOverlap ==
  \A i, k \in Calls :
    /\ i # k /\ Keyed(i) /\ Keyed(k)
    /\ state[i] = "pending" /\ state[k] = "pending"
    => i \in overlap[k] \/ k \in overlap[i]

\* "resultID is the id of the row that actually represents this job afterwards"
\* (main.go:966-968): once the transaction is committed a call's id finds a row.
IdsFindRows ==
  \A c \in Calls :
    tx[TxOf[c]] = "committed" /\ result[c] # NoCall => state[result[c]] # "absent"
=============================================================================
