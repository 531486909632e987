------------------------------- MODULE MCServices -------------------------------
(***************************************************************************)
(* The components that do not meet at run time, checked one after the      *)
(* other in one run: which is the component that runs, the others stay as  *)
(* they begin.  For the helpers without state, input is what they are      *)
(* called with.                                                            *)
(***************************************************************************)
EXTENDS Transaction, KeyedLimiter, Limiter, Nonce, S3Upload, WebSocket, Worker,
        Interrupt, Session, SortOrder, LogQueue

L == INSTANCE Lists
P == INSTANCE Pages WITH MaxPageSize <- 2, DefaultPageSize <- 2
V == INSTANCE Values
A == INSTANCE Answers

VARIABLES which, input

otherVars == <<which, input>>
vars == <<txVars, keyedVars, limiterVars, nonceVars, s3Vars, wsVars, workerVars,
          uiVars, lockVars, sessionVars, sortVars, logVars, otherVars>>

Components == {"transaction", "keyed", "limiter", "nonce", "s3", "socket", "worker",
               "interrupt", "locking", "session", "sort", "log"}

Sequences(S, lengths) == UNION {[1..n -> S] : n \in lengths}

ListInputs == {<<"lists", a, b>> : a, b \in Sequences(0..2, 0..3)}
PageInputs ==
  {<<"pages", <<>>, c>> : c \in Sequences({"A", "a", " ", "_", "1"}, 0..3)}
    \cup {<<"pages", v, <<>>>> : v \in Sequences(0..2, 1..3) \cup [1..4 -> {0, 2}]}
ValueInputs ==
  {<<"amounts", s>> : s \in Sequences({"0", "1", "9", ".", "-", "$", ",", "x"}, 0..3)
                              \cup Sequences({"1", "9", "."}, 4..5)}
    \cup {<<"dates", d, n, [holidays |-> h, businessDays |-> b]>> :
            d \in 7..13, n \in -6..6, h \in {{}, {9}, {8, 11}}, b \in BOOLEAN}
    \cup {<<"versions", u, v, w>> : u, v, w \in Sequences(0..1, 0..2)}
    \cup {<<"addresses", h, r>> :
            h \in Sequences({"p1", "p2", "c1", "c2", "junk"}, 0..3), r \in {"p1", "c1"}}
AnswerInputs ==
  {<<"errors", layers \o <<base>>, t, r>> :
      layers \in Sequences({"stack", "wrap", "400", "409"}, 0..3),
      base \in {"plain", "details", "safe"}, t, r \in BOOLEAN}
    \cup {<<"errors", <<"value">>, t, r>> : t, r \in BOOLEAN}
    \cup {<<"origins", [scheme |-> s, host |-> h, port |-> p], [scheme |-> t, host |-> g, port |-> q]>> :
            s \in {"", "http", "https"}, t \in {"", "http"}, p, q \in {"", "3000"},
            h \in Sequences({"*", ".", "a"}, 0..3), g \in Sequences({".", "a", "b"}, 0..3)}
    \cup {<<"names", n>> : n \in Sequences(DOMAIN A!Bytes, 0..3)}
    \cup {<<"fields", k>> : k \in Sequences({"I", "D", "i", "d", "x"}, 0..4)}
    \cup {<<"roles", u, r>> : u \in Sequences(SUBSET (1..3), 0..1), r \in SUBSET (1..3)}
NoInput == <<"none">>

MCInit ==
  /\ TxInit /\ KeyedInit /\ LimiterInit /\ NonceInit /\ S3Init /\ WsInit /\ WorkerInit
  /\ InterruptInit /\ SessionInit /\ SortInit /\ LogInit
  /\ \/ which \in Components /\ input = NoInput
     \/ /\ txKind = "request" /\ s3Input = <<>>
        /\ which = "helpers" /\ input \in ListInputs \cup PageInputs \cup ValueInputs \cup AnswerInputs
  /\ which # "transaction" => txKind = "request"
  /\ which # "s3" => s3Input = <<>>

MCNext ==
  \/ /\ which = "transaction" /\ TxNext
     /\ UNCHANGED <<keyedVars, limiterVars, nonceVars, s3Vars, wsVars, workerVars,
                    uiVars, lockVars, sessionVars, sortVars, logVars, otherVars>>
  \/ /\ which = "keyed" /\ KeyedNext
     /\ UNCHANGED <<txVars, limiterVars, nonceVars, s3Vars, wsVars, workerVars,
                    uiVars, lockVars, sessionVars, sortVars, logVars, otherVars>>
  \/ /\ which = "limiter" /\ LimiterNext
     /\ UNCHANGED <<txVars, keyedVars, nonceVars, s3Vars, wsVars, workerVars,
                    uiVars, lockVars, sessionVars, sortVars, logVars, otherVars>>
  \/ /\ which = "nonce" /\ NonceNext
     /\ UNCHANGED <<txVars, keyedVars, limiterVars, s3Vars, wsVars, workerVars,
                    uiVars, lockVars, sessionVars, sortVars, logVars, otherVars>>
  \/ /\ which = "s3" /\ S3Next
     /\ UNCHANGED <<txVars, keyedVars, limiterVars, nonceVars, wsVars, workerVars,
                    uiVars, lockVars, sessionVars, sortVars, logVars, otherVars>>
  \/ /\ which = "socket" /\ WsNext
     /\ UNCHANGED <<txVars, keyedVars, limiterVars, nonceVars, s3Vars, workerVars,
                    uiVars, lockVars, sessionVars, sortVars, logVars, otherVars>>
  \/ /\ which = "worker" /\ WorkerNext
     /\ UNCHANGED <<txVars, keyedVars, limiterVars, nonceVars, s3Vars, wsVars,
                    uiVars, lockVars, sessionVars, sortVars, logVars, otherVars>>
  \/ /\ which = "interrupt" /\ UiNext
     /\ UNCHANGED <<txVars, keyedVars, limiterVars, nonceVars, s3Vars, wsVars,
                    workerVars, sessionVars, sortVars, logVars, otherVars>>
  \/ /\ which = "locking" /\ LockNext
     /\ UNCHANGED <<txVars, keyedVars, limiterVars, nonceVars, s3Vars, wsVars,
                    workerVars, sessionVars, sortVars, logVars, otherVars>>
  \/ /\ which = "session" /\ SessionNext
     /\ UNCHANGED <<txVars, keyedVars, limiterVars, nonceVars, s3Vars, wsVars,
                    workerVars, uiVars, lockVars, sortVars, logVars, otherVars>>
  \/ /\ which = "log" /\ LogNext
     /\ UNCHANGED <<txVars, keyedVars, limiterVars, nonceVars, s3Vars, wsVars,
                    workerVars, uiVars, lockVars, sessionVars, sortVars, otherVars>>
  \/ /\ which = "sort" /\ SortNext
     /\ UNCHANGED <<txVars, keyedVars, limiterVars, nonceVars, s3Vars, wsVars,
                    workerVars, uiVars, lockVars, sessionVars, logVars, otherVars>>

MCSpec ==
  MCInit /\ [][MCNext]_vars /\ WsFairness /\ WorkerFairness /\ InterruptFairness

-----------------------------------------------------------------------------
Of(name) == which = "helpers" /\ input[1] = name

\* The slice, map, set and iterator helpers agree with one another and with what
\* their names promise on all short slices (jv).
ListsAgree == Of("lists") => L!Agree(input[2], input[3])

\* Read page by page, in an order without ties, a list comes whole and once, with
\* the right count on every page; a column's name has one meaning (paginate,
\* rqutil's lists).
PagesAgree == Of("pages") => P!Agree(input[2], input[3])


\* The words of an error reach a client only when they may, only an allowed origin
\* reads an answer, a file's name cannot leave its header and reaches the client whole
\* unless only quotes, commas or newlines were dropped from it, a field renamed twice
\* is renamed once, and a role is its parts (er, res, cors, auth).
AnswersAgree ==
  /\ Of("errors") => A!ErrorAgrees(input[2], input[3], input[4])
  /\ Of("origins") => A!OriginAgrees(input[2], input[3])
  /\ Of("names") => A!NameAgrees(input[2])
  /\ Of("fields") => A!FieldAgrees(input[2])
  /\ Of("roles") => A!RoleAgrees(input[2], input[3])
=============================================================================
