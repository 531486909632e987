--------------------------------- MODULE Answers ---------------------------------
(***************************************************************************)
(* What a client is answered and told: the errors that handlers throw (er  *)
(* and res), the origins that may read an answer (cors), the names of      *)
(* files and fields in it (res), and the roles of its user (auth).         *)
(***************************************************************************)
EXTENDS Integers, Sequences, FiniteSets

SX == INSTANCE SequencesExt

-----------------------------------------------------------------------------
\* er.  What a handler panics with is "value", which is no error, or the layers
\* of an error, the outermost first: "stack" of pkg/errors, "wrap" of
\* fmt.Errorf, the code of an HttpError, and last what it began as.
Codes == {"400", "409", "500"}

CheckCode(err, code) == <<"stack", code>> \o err
Check(err) == CheckCode(err, "500")
CheckForDecode(err) == CheckCode(err, "400")
ThrowClientSafeCode(code) == CheckCode(<<"safe">>, code)

\* errors.Cause sees through "stack" only, errors.As through every layer.
Cause(err) == SX!SelectInSeq(err, LAMBDA layer : layer # "stack")
isClientSafeMessage(err) == err[Len(err)] = "safe"
getDetails(err) == err # <<>> /\ Head(err) = "details"

HandleErrors(err) ==
  IF err = <<"value">> THEN [code |-> "500", details |-> FALSE, clientSafe |-> FALSE]
  ELSE LET c == Cause(err)  http == err[c] \in Codes IN
       [code |-> IF http THEN err[c] ELSE "500",
        details |-> getDetails(IF http THEN SubSeq(err, c + 1, Len(err)) ELSE err),
        clientSafe |-> isClientSafeMessage(err)]

\* The error tells its own words or generic ones.
SafeError(input, testing, returnMessage) ==
  [own |-> testing \/ input.clientSafe \/ returnMessage, stack |-> testing]
handlePanic(err, testing, returnMessage) ==
  LET input == HandleErrors(err)  safe == SafeError(input, testing, returnMessage) IN
  [status |-> input.code, own |-> safe.own, stack |-> safe.stack,
   details |-> input.details]
\* res.Error.
Error(returnMessage) ==
  [status |-> "500", own |-> returnMessage, stack |-> FALSE, details |-> FALSE]

-----------------------------------------------------------------------------
\* cors.  A host is a sequence of characters; an origin and an entry of
\* AllowOrigins have a scheme, a host and a port, "" where there is none.
NoRule == [kind |-> "none"]
HasStar(host) == \E i \in DOMAIN host : host[i] = "*"
IsOrigin(o) == o.scheme # "" /\ (o.host # <<>> \/ o.port # "")
Without(s, prefix) == IF SX!IsPrefix(prefix, s) THEN SubSeq(s, Len(prefix) + 1, Len(s)) ELSE s

\* Mutant: the wildcard is not brought to a boundary of labels.
CompileLoose(entry) ==
  IF HasStar(entry.host)
  THEN [kind |-> "wildcard", suffix |-> Without(entry.host, <<"*">>), scheme |-> entry.scheme]
  ELSE IF IsOrigin(entry) THEN [kind |-> "exact", origin |-> entry] ELSE NoRule

compileOrigin(entry) ==
  LET suffix == <<".">> \o Without(Without(entry.host, <<"*">>), <<".">>) IN
  CASE HasStar(entry.host) ->
         IF suffix = <<".">> THEN NoRule
         ELSE [kind |-> "wildcard", suffix |-> suffix, scheme |-> entry.scheme]
    [] ~ HasStar(entry.host) /\ IsOrigin(entry) -> [kind |-> "exact", origin |-> entry]
    [] OTHER -> NoRule

matches(rule, origin) ==
  CASE rule.kind = "exact" -> rule.origin = origin
    [] rule.kind = "wildcard" -> /\ rule.scheme \in {"", origin.scheme}
                                 /\ SX!IsSuffix(rule.suffix, origin.host)
    [] OTHER -> FALSE

allowOrigin(rules, origin) ==
  IsOrigin(origin) /\ \E r \in rules : matches(r, origin)

\* Wrap and ServeHTTP.
Respond(entries, allowCredentials, method, origin) ==
  LET allowed == allowOrigin({compileOrigin(e) : e \in entries}, origin) IN
  [allowed |-> allowed,
   credentials |-> allowed /\ allowCredentials \in {"", "true"},
   passedOn |-> ~ (allowed /\ method = "OPTIONS")]

-----------------------------------------------------------------------------
\* Content-Disposition.  The characters are named; "accent" is the one beyond ASCII.
Bytes == [c \in {"x", "-", "space", "quote", "comma", "newline", "percent", "accent"} |->
            CASE c = "x" -> <<120>> [] c = "-" -> <<45>> [] c = "space" -> <<32>>
              [] c = "quote" -> <<34>> [] c = "comma" -> <<44>> [] c = "newline" -> <<10>>
              [] c = "percent" -> <<37>> [] c = "accent" -> <<195, 169>>]
Dropped == {"quote", "comma", "newline", "accent"}
SanitizeDispositionName(name) == SelectSeq(name, LAMBDA c : c \notin Dropped)
hasNonASCII(name) == \E i \in DOMAIN name : name[i] = "accent"
isAttrChar(b) == b \in {120, 45}
\* Each byte is itself, or a percent sign (-1) and two hexadecimal digits.
encodeRFC5987(name) ==
  SX!FoldLeft(LAMBDA out, c :
    SX!FoldLeft(LAMBDA o, b : o \o (IF isAttrChar(b) THEN <<b>> ELSE <<-1, b \div 16, b % 16>>),
                out, Bytes[c]), <<>>, name)
contentDisposition(name) ==
  [filename |-> SanitizeDispositionName(name),
   extended |-> IF hasNonASCII(name) THEN encodeRFC5987(name) ELSE <<>>]

\* The names of fields, as sequences of characters.
LowerFirst(s) == [s EXCEPT ![1] = CASE @ = "I" -> "i" [] @ = "D" -> "d" [] OTHER -> @]
JsonRenameKeysToCamelCase(key) ==
  LET n == Len(key) IN
  CASE n = 0 -> key
    [] key = <<"I", "D">> -> <<"i", "d">>
    [] n > 2 /\ SubSeq(LowerFirst(key), n - 1, n) = <<"I", "D">> ->
         [LowerFirst(key) EXCEPT ![n] = "d"]
    [] OTHER -> LowerFirst(key)

-----------------------------------------------------------------------------
\* auth.  A role is the set of its bits, Public has none; user is <<>> when
\* nobody is signed in, else <<the user's role>>.
HasRole(user, role) == user # <<>> /\ user[1] \cap role # {}
SplitRole(role) == {{bit} : bit \in role}

-----------------------------------------------------------------------------
\* The words of an error reach a client only in testing, by configuration or if
\* they were marked safe, however often it was thrown on; the last to throw it on
\* says the code, and details are lost on the way; res.Error says no more than a
\* panic does.
ErrorAgrees(err, testing, returnMessage) ==
  LET told(e) == handlePanic(e, testing, returnMessage) IN
  /\ told(err).own <=> testing \/ returnMessage \/ err[Len(err)] = "safe"
  /\ told(err).stack => testing
  /\ err # <<"value">> =>
       /\ told(Check(err)) = [told(err) EXCEPT !.status = "500", !.details = getDetails(err)]
       /\ told(CheckForDecode(Check(err))).status = "400"
       /\ ~ told(Check(Check(err))).details
  /\ \A code \in Codes : told(ThrowClientSafeCode(code)) =
       [status |-> code, own |-> TRUE, stack |-> testing, details |-> FALSE]
  /\ Error(returnMessage).own => told(err).own

Labels(host) == {i \in 0..Len(host) : i = 0 \/ host[i] = "."}
\* An origin is allowed by itself, or by the wildcard of a domain that it lies
\* properly below, on a boundary of its labels; only an allowed one is given
\* credentials or answered in place of the handler.
OriginAgrees(entry, origin) ==
  LET r == Respond({entry}, "", "OPTIONS", origin)
      below == Without(Without(entry.host, <<"*">>), <<".">>) IN
  /\ r.allowed => \/ entry = origin
                  \/ /\ HasStar(entry.host) /\ Len(origin.host) > Len(below)
                     /\ \E i \in Labels(origin.host) \ {0} :
                          SubSeq(origin.host, i + 1, Len(origin.host)) = below
                     /\ entry.scheme \in {"", origin.scheme}
  /\ IsOrigin(origin) /\ ~ HasStar(origin.host) =>
       Respond({origin}, "", "GET", origin).allowed
  /\ r.credentials \/ ~ r.passedOn <=> r.allowed
  /\ ~ Respond({entry}, "false", "GET", origin).credentials

Decoded(code) ==
  SX!FoldLeftDomain(LAMBDA out, i :
    CASE i > 2 /\ code[i - 2] = -1 -> Append(out, 16 * code[i - 1] + code[i])
      [] i > 1 /\ code[i - 1] = -1 -> out
      [] code[i] = -1 -> out
      [] OTHER -> Append(out, code[i]), <<>>, code)
Written(name) == SX!FoldLeft(LAMBDA out, c : out \o Bytes[c], <<>>, name)
\* What a client makes of the header: the extended name where there is one.
NameTold(d) == IF d.extended # <<>> THEN Decoded(d.extended) ELSE Written(d.filename)
\* The plain name cannot leave its quotes and the extended one has no byte that
\* needs them.  A client is told the whole name unless the name lost a quote, a
\* comma or a newline and no letter beyond ASCII made the extended form be sent:
\* then it is told the name without them.
NameAgrees(name) ==
  LET d == contentDisposition(name)
      dropped == {name[i] : i \in DOMAIN name} \cap Dropped
  IN /\ {d.filename[i] : i \in DOMAIN d.filename} \cap Dropped = {}
     /\ \A i \in DOMAIN d.extended : d.extended[i] \in -1..15 \cup {45, 120}
     /\ NameTold(d) = Written(name) <=> dropped = {} \/ "accent" \in dropped
     /\ NameTold(d) # Written(name) => NameTold(d) = Written(SanitizeDispositionName(name))

\* Renaming a field twice is renaming it once.
FieldAgrees(key) ==
  JsonRenameKeysToCamelCase(JsonRenameKeysToCamelCase(key)) = JsonRenameKeysToCamelCase(key)

\* A user has a role if it has one of its parts; Public is no part of any.
RoleAgrees(user, role) ==
  /\ HasRole(user, role) <=> \E part \in SplitRole(role) : HasRole(user, part)
  /\ role = {} \/ user = <<>> => ~ HasRole(user, role)
=============================================================================
