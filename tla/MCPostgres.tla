------------------------------ MODULE MCPostgres ------------------------------
(***************************************************************************)
(* Two parts that meet only in the database, checked one after the other   *)
(* in one run: which is the one that runs, the other stays as it begins.   *)
(* "add" is the debounced insertion of jobs, "channel" is pqchan or a      *)
(* Demux on its own.                                                       *)
(***************************************************************************)
EXTENDS MCDebounce, MCPqChan

VARIABLE which

MCInit ==
  /\ Init /\ PqOrPlainInit /\ which \in {"add", "channel"}
  /\ which = "add" => manager = "off" /\ ~ lossy[d]

MCNext ==
  \/ which = "add" /\ Next /\ UNCHANGED <<pqChanVars, which>>
  \/ which = "channel" /\ PqOrPlainNext /\ UNCHANGED <<addVars, which>>

MCSpec == MCInit /\ [][MCNext]_<<addVars, pqChanVars, which>>
=============================================================================
