---------------------------------- MODULE Values ---------------------------------
(***************************************************************************)
(* The helpers on values: amounts of money (currency), working days        *)
(* (timeutil), API versions (apiversion) and the address a request came    *)
(* from (requestip).  A text is a sequence of characters, a date the       *)
(* number of its day, day 0 a Sunday.                                      *)
(***************************************************************************)
EXTENDS Integers, Sequences, FiniteSets

SX == INSTANCE SequencesExt

-----------------------------------------------------------------------------
\* currency.  MaxInt stands for math.MaxInt64 (and math.MaxInt).
MaxInt == 1023
maxDollars == (MaxInt - 99) \div 100
Invalid == [ok |-> FALSE, cents |-> 0]
Digit == [d \in {"0", "1", "9"} |-> CASE d = "0" -> 0 [] d = "1" -> 1 [] d = "9" -> 9]

isAllDigits(s) == s # <<>> /\ \A i \in DOMAIN s : s[i] \in DOMAIN Digit
ParseInt(s) == SX!FoldLeft(LAMBDA n, d : 10 * n + Digit[d], 0, s)
TrimAll(s, cut) ==
  LET kept == {i \in DOMAIN s : s[i] \notin cut} IN
  IF kept = {} THEN <<>>
  ELSE SubSeq(s, CHOOSE i \in kept : \A j \in kept : i <= j,
                 CHOOSE i \in kept : \A j \in kept : j <= i)


\* The cents after the point: two digits, what follows them is dropped unread.
Fraction(frac) ==
  CASE Len(frac) = 1 -> Append(frac, "0")
    [] Len(frac) > 2 -> SubSeq(frac, 1, 2)
    [] OTHER -> frac

Parse(src) ==
  LET sanitized == SelectSeq(TrimAll(src, {"$", " "}), LAMBDA c : c # ",")
      signed == sanitized # <<>> /\ Head(sanitized) \in {"-", "+"}
      amount == IF signed THEN Tail(sanitized) ELSE sanitized
      points == {i \in DOMAIN amount : amount[i] = "."}
      point == CHOOSE i \in points : TRUE
      whole == IF points = {} THEN amount ELSE SubSeq(amount, 1, point - 1)
      frac == Fraction(SubSeq(amount, point + 1, Len(amount)))
      cents == IF points = {} THEN 0 ELSE ParseInt(frac)
      total == 100 * ParseInt(whole) + cents
  IN IF \/ Cardinality(points) > 1 \/ ~ isAllDigits(whole)
        \/ ParseInt(whole) > maxDollars
        \/ points # {} /\ ~ isAllDigits(frac)
     THEN Invalid
     ELSE [ok |-> TRUE, cents |-> IF signed /\ Head(sanitized) = "-" THEN -total ELSE total]

\* String, on the digits above only.
Shown(n) == <<CASE n = 0 -> "0" [] n = 1 -> "1" [] n = 9 -> "9">>
String(u) ==
  LET value == IF u < 0 THEN -u ELSE u
      dollars == value \div 100
  IN (IF u < 0 THEN <<"-">> ELSE <<>>)
       \o (IF dollars >= 10 THEN Shown(dollars \div 10) ELSE <<>>) \o Shown(dollars % 10)
       \o <<".">> \o Shown((value % 100) \div 10) \o Shown(value % 10)

-----------------------------------------------------------------------------
\* timeutil.  A DateTraveler skips holidays, and weekends if it keeps business days.
Travelers == [holidays : SUBSET Int, businessDays : BOOLEAN]
Business(holidays) == [holidays |-> holidays, businessDays |-> TRUE]

Contains(day, dt) == (dt.businessDays => day % 7 \notin {0, 6}) /\ day \notin dt.holidays

AddDays(when, n, dt) ==
  LET direction == IF n < 0 THEN -1 ELSE 1
      walk[at \in Int \X Nat] ==
        LET day == at[1]  left == at[2]  next == day + direction IN
        IF left = 0 THEN day
        ELSE walk[<<next, IF Contains(next, dt) THEN left - 1 ELSE left>>]
  IN walk[<<when, n * direction>>]
AddBusinessDays(when, n, holidays) == AddDays(when, n, Business(holidays))

\* The days counted from the first one after when; it stays -1 if there is none.
BusinessDaysBetween(when, now, holidays) ==
  LET count[at \in Int \X Int] ==
        LET day == at[1]  ct == at[2] IN
        IF day < now THEN count[<<AddDays(day, 1, Business(holidays)), ct + 1>>] ELSE ct
      ct == count[<<when, -1>>]
  IN IF ct = -1 THEN 0 ELSE ct

NextWeekday(day, desired) ==
  LET add == desired - (day % 7) IN day + (IF add < 0 THEN add + 7 ELSE add)

-----------------------------------------------------------------------------
\* apiversion: a version is the sequence of its parts, up to the first that is no
\* number.  The split stops at the ninth, which then is no number if more follow.
maxVersionParts == 8
NewVer(parts) ==
  LET bad == {i \in DOMAIN parts : \/ parts[i] \notin Nat
                                   \/ i > maxVersionParts /\ Len(parts) > maxVersionParts + 1}
  IN
  IF bad = {} THEN parts
  ELSE SubSeq(parts, 1, (CHOOSE i \in bad : \A j \in bad : i <= j) - 1)
GtOrEq(v, other) ==
  LET differ == {i \in DOMAIN v \cap DOMAIN other : v[i] # other[i]}
      first == CHOOSE i \in differ : \A j \in differ : i <= j
  IN IF differ # {} THEN v[first] > other[first]
     ELSE v # <<>> \/ other = <<>>
Lt(v, other) == ~ GtOrEq(v, other)

-----------------------------------------------------------------------------
\* requestip.  Addresses are "p1", "p2" (the proxies of the configuration), "c1",
\* "c2" (others) and "junk", which is none and is dropped from the headers.
parseForwardedFor(header) == SelectSeq(header, LAMBDA a : a # "junk")
isTrusted(config, ip) == ip \in config.trustedNets

\* The address, given all that the request came through, the peer itself last.
clientOf(config, chain, remote) ==
  LET at == Len(chain) - config.trustHops
      outside == {i \in DOMAIN chain : ~ isTrusted(config, chain[i])}
  IN IF config.useHops
     THEN IF config.trustHops <= 0 THEN remote ELSE chain[IF at < 1 THEN 1 ELSE at]
     ELSE IF ~ isTrusted(config, remote) THEN remote
     ELSE IF outside = {} THEN chain[1]
     ELSE chain[CHOOSE i \in outside : \A j \in outside : j <= i]
clientIP(config, header, remote) ==
  clientOf(config, Append(parseForwardedFor(header), remote), remote)

-----------------------------------------------------------------------------
\* A text that stands for an amount is shown as the same amount; a leading minus
\* negates it, a zero after its cents or a space changes nothing; the amount is
\* never beyond what an integer holds.
AmountAgrees(src) ==
  LET a == Parse(src)  minus == Parse(<<"-">> \o src) IN
  /\ a.ok => /\ a.cents \in -MaxInt..MaxInt
             /\ Parse(<<"$">> \o String(a.cents)) = a
  /\ (a.ok /\ Head(src) \notin {"-", "+", "$", " ", ","}) =>
        minus = [ok |-> TRUE, cents |-> -a.cents]
  /\ Parse(Append(src, " ")) = a
  /\ a.ok /\ (\E i \in DOMAIN src : src[i] = ".") /\ src[Len(src)] \notin {"$", " "} =>
        Parse(Append(src, "0")) = a

\* The days of a traveler forward and back meet; between counts one business day
\* less than it took.
DatesAgree(day, n, dt) ==
  LET then == AddDays(day, n, dt)
      later == AddBusinessDays(day, n, dt.holidays) IN
  /\ n # 0 => Contains(then, dt)
  /\ Contains(day, dt) => AddDays(then, -n, dt) = day
  /\ n > 0 => BusinessDaysBetween(day, later, dt.holidays) = n - 1
  /\ NextWeekday(day, n % 7) - day \in 0..6 /\ NextWeekday(day, n % 7) % 7 = n % 7

\* Lt orders versions strictly, and is no more than the first part that differs:
\* a version and one that it begins are neither before the other.
VersionsOrdered(u, v, w) ==
  /\ ~ Lt(u, u) /\ ~ (Lt(u, v) /\ Lt(v, u)) /\ (Lt(u, v) /\ Lt(v, w) => Lt(u, w))
  /\ \A n \in 1..Len(v) : ~ Lt(v, SubSeq(v, 1, n)) /\ ~ Lt(SubSeq(v, 1, n), v)

\* Up to eight parts are read as they stand, and of ten or more the first eight:
\* the tenth spoils the last part of the split.  Exactly nine are all read, one more
\* than main.go:30-34 and UPGRADING.md:476 allow.
VersionsAgree(u, v, w) ==
  LET long == u \o v \o w \o u \o v \o w  n == Len(long)  most == maxVersionParts IN
  /\ VersionsOrdered(u, v, w)
  /\ NewVer(u) = u
  /\ n <= most => NewVer(long) = long
  /\ n > most + 1 => NewVer(long) = SubSeq(long, 1, most)
  /\ n > most => LET nine == SubSeq(long, 1, most + 1) IN NewVer(nine) = nine

\* What stands in the header before the address found changes nothing, and an
\* address that is not one of the proxies is found if there is any.
AddressAgrees(header, remote) ==
  LET nets == [useHops |-> FALSE, trustHops |-> 0, trustedNets |-> {"p1", "p2"}]
      hops(n) == [useHops |-> TRUE, trustHops |-> n, trustedNets |-> {}]
      chain == Append(parseForwardedFor(header), remote)
      ip == clientIP(nets, header, remote)
  IN \A first \in {"p1", "c1", "c2", "junk"} :
       LET longer == <<first>> \o header IN
       /\ ip \in {"c1", "c2"} => clientIP(nets, longer, remote) = ip
       /\ ip \in {"p1", "p2"} => \A i \in DOMAIN chain : chain[i] \notin {"c1", "c2"}
       /\ \A n \in 0..Len(chain) - 1 :
            clientIP(hops(n), longer, remote) = clientIP(hops(n), header, remote)
=============================================================================
