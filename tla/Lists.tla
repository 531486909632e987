---------------------------------- MODULE Lists ----------------------------------
(***************************************************************************)
(* jv: helpers on slices and maps.  A slice is a sequence (indexes in the  *)
(* results count from 0, as in the code), a map a function, and Zero the   *)
(* zero value of their elements, here natural numbers.  A callback that    *)
(* answers yes or no is the set of what it says yes to, any other one a    *)
(* function.                                                               *)
(***************************************************************************)
EXTENDS PermCounter, FiniteSets

SX == INSTANCE SequencesExt

Zero == 0
Panics == <<>>  \* a call that panics; one of the same helper that returns x is <<x>>
Dom(s) == 1..Len(s)
Elems(s) == {s[i] : i \in Dom(s)}

-----------------------------------------------------------------------------
\* arrayutil.go: searching.
ArrayItemCompare(a, b) == Len(a) = Len(b) /\ \A i \in Dom(a) : b[i] = a[i]
IndexesOf(s, wanted) ==
  SX!FoldLeftDomain(LAMBDA acc, i : IF s[i] \in wanted THEN Append(acc, i - 1) ELSE acc, <<>>, s)
IndexOf(s, wanted) == IF IndexesOf(s, wanted) = <<>> THEN -1 ELSE Head(IndexesOf(s, wanted))
Filter(s, wanted) == SelectSeq(s, LAMBDA x : x \in wanted)
First(s, wanted) == IF Filter(s, wanted) = <<>> THEN Zero ELSE Head(Filter(s, wanted))
Any(s, wanted) == \E i \in Dom(s) : s[i] \in wanted
All(s, wanted) == \A i \in Dom(s) : s[i] \in wanted
ContainsItem(s, x) == Any(s, {x})
LastItem(s) == IF s = <<>> THEN Zero ELSE s[Len(s)]

\* Sorting: sort.IsSorted looks at neighbours from the end.
IsSortedAsc(s) == \A i \in 2..Len(s) : ~ s[i] < s[i-1]
IsSortedDesc(s) == \A i \in 2..Len(s) : ~ s[i-1] < s[i]
SortAsc(s) == SX!SortSeq(s, LAMBDA x, y : x < y)
SortDesc(s) == SX!SortSeq(s, LAMBDA x, y : y < x)
SortFx(s, score) == SX!SortSeq(s, LAMBDA x, y : score[x] < score[y])
Reverse(s) == [i \in Dom(s) |-> s[Len(s) + 1 - i]]
Last(s, wanted) == First(Reverse(s), wanted)

\* Building and reducing.
Mapper(s, f) == [i \in Dom(s) |-> f[s[i]]]
Reduce(s, op, init) == SX!FoldLeft(LAMBDA acc, x : op[x, acc], init, s)
Unique(s) ==
  SX!FoldLeft(LAMBDA acc, x : IF ContainsItem(acc, x) THEN acc ELSE Append(acc, x), <<>>, s)
Intersection(a, b) == Filter(a, Elems(b))
IntersectionFx(a, b, same) == Filter(a, {x \in Elems(a) : \E y \in Elems(b) : <<x, y>> \in same})
RemoveFromList(s, remove) == Filter(s, Elems(s) \ Elems(remove))
SelectMany(ss) == SX!FoldLeft(LAMBDA acc, s : acc \o s, <<>>, ss)
UnionAll(a, b) == a \o b
GroupBy(s, key) ==
  [k \in {key[x] : x \in Elems(s)} |-> Filter(s, {x \in Elems(s) : key[x] = k})]
Average(s) ==
  IF s = <<>> THEN Panics ELSE <<SX!FoldLeft(LAMBDA acc, x : acc + x, 0, s) \div Len(s)>>
AreAllTheSame(s) == \A i \in Dom(s) : s[i] = s[1]
AreAllUnique(s) == \A i, j \in Dom(s) : s[i] = s[j] => i = j

\* Each element with each later one: what is merged into an earlier element is
\* removed, by value, at the end.  merge gives <<result, merged>>.
MergeObjects(s, merge) ==
  LET pairs == [n \in 1..Len(s) * Len(s) |-> <<1 + ((n-1) \div Len(s)), 1 + ((n-1) % Len(s))>>]
      step(st, p) ==
        LET m == merge[st.list[p[1]], st.list[p[2]]] IN
        IF p[2] <= p[1] \/ st.list[p[2]] \in st.invalid \/ ~ m[2] THEN st
        ELSE [list |-> [st.list EXCEPT ![p[1]] = m[1]],
              invalid |-> st.invalid \cup {st.list[p[2]]}]
      end == SX!FoldLeft(step, [list |-> s, invalid |-> {}], pairs)
  IN Filter(end.list, Elems(end.list) \ end.invalid)

\* Mode and MaxFx keep the first of several candidates.
Count(s, x) == Cardinality({i \in Dom(s) : s[i] = x})
Mode(s) ==
  LET best == SX!FoldLeftDomain(
        LAMBDA acc, i : LET n == Count(SubSeq(s, 1, i), s[i]) IN
                        IF n > acc[1] THEN <<n, s[i]>> ELSE acc, <<0, Zero>>, s)
  IN IF s = <<>> THEN Panics ELSE <<best[2]>>
MaxFx(s, f) ==
  IF s = <<>> THEN Zero
  ELSE SX!FoldLeft(LAMBDA best, x : IF f[x] > f[best] THEN x ELSE best, s[1], Tail(s))

\* An empty column counts as one with the zero value.
Permutations(columns) ==
  LET most == [i \in Dom(columns) |-> Len(columns[i]) - 1]
      row(digits) == [i \in Dom(columns) |-> IF most[i] < 0 THEN Zero
                                             ELSE columns[i][digits[i] + 1]]
      total == SX!FoldLeft(LAMBDA acc, c : acc * (1 + Len(c)), 1, columns)
      rows == SX!FoldLeft(
        LAMBDA st, n : IF st.digits = <<>> THEN st
                       ELSE [digits |-> Incr(st.digits, most),
                             out |-> Append(st.out, row(st.digits))],
        [digits |-> [i \in Dom(columns) |-> 0], out |-> <<>>], [n \in 1..total |-> n])
  IN IF columns = <<>> THEN <<>> ELSE rows.out

-----------------------------------------------------------------------------
\* maputil.go; the order of keys is the map's own.
CountMap(s) == [x \in Elems(s) |-> Count(s, x)]
MakeBoolMap(s) == [x \in Elems(s) |-> TRUE]
BoolMapToArray(m) == {k \in DOMAIN m : m[k]}
FilterMap(m, wanted) == [k \in {x \in DOMAIN m : <<x, m[x]>> \in wanted} |-> m[k]]
CloneWithKeys(m, keys) == [k \in DOMAIN m \cap Elems(keys) |-> m[k]]
Lookup(m, k) == IF k \in DOMAIN m THEN m[k] ELSE Zero
MapDiff(m0, m1) ==
  [k \in {x \in DOMAIN m0 \cup DOMAIN m1 : Lookup(m0, x) # Lookup(m1, x)} |->
     <<Lookup(m0, k), Lookup(m1, k)>>]
MergeMaps(m0, m1) ==
  [k \in DOMAIN m0 \cup DOMAIN m1 |-> IF k \in DOMAIN m1 THEN m1[k] ELSE m0[k]]

\* map.go: pairs in a slice, found by an equality of keys.
With(pairs, k) == {p \in Elems(pairs) : p[1] = k}
MapSet(pairs, k, v) ==
  LET at == IndexOf(pairs, With(pairs, k)) IN
  IF at = -1 THEN Append(pairs, <<k, v>>) ELSE [pairs EXCEPT ![at + 1][2] = v]
MapGet(pairs, k) ==
  LET at == IndexOf(pairs, With(pairs, k)) IN
  IF at = -1 THEN Zero ELSE pairs[at + 1][2]
MapDelete(pairs, k) == Filter(pairs, Elems(pairs) \ With(pairs, k))
MapTransform(pairs, k, f) == MapSet(pairs, k, f[MapGet(pairs, k)])

\* set.go: Add compares with the values that were there before the call.
SetAdd(values, new) == values \o Filter(new, Elems(new) \ Elems(values))
SetRemove(values, x) == Filter(values, Elems(values) \ {x})

\* iter.go: the item that Next returns from a position on, and the position
\* after it.
Next(src, position, wanted) ==
  LET found == {i \in position+1..Len(src) : src[i] \in wanted}
      i == CHOOSE n \in found : \A m \in found : n <= m
  IN IF found = {} THEN [position |-> Len(src) + 1, item |-> Zero, ok |-> FALSE]
     ELSE [position |-> i, item |-> src[i], ok |-> TRUE]

\* main.go.
Min(s) ==
  IF s = <<>> THEN Panics ELSE <<SX!FoldLeft(LAMBDA m, x : IF m > x THEN x ELSE m, s[1], s)>>
Max(s) ==
  IF s = <<>> THEN Panics ELSE <<SX!FoldLeft(LAMBDA m, x : IF m < x THEN x ELSE m, s[1], s)>>

-----------------------------------------------------------------------------
\* What the helpers are for, on two sequences a and b.
Bag(s) == [x \in Elems(s) |-> Count(s, x)]
Values == {0, 1, 2}
Odd == {1}

SearchAgrees(a, b) ==
  /\ ArrayItemCompare(a, b) <=> a = b
  /\ \A x \in Values :
       /\ ContainsItem(a, x) <=> IndexOf(a, {x}) # -1
       /\ IndexOf(a, {x}) # -1 => First(a, {x}) = a[IndexOf(a, {x}) + 1]
       /\ Len(IndexesOf(a, {x})) = Count(a, x)
  /\ All(a, Odd) <=> ~ Any(a, Values \ Odd)
  /\ Last(a, Odd) = LastItem(Filter(a, Odd))

SortAgrees(a) ==
  /\ Bag(SortAsc(a)) = Bag(a) /\ IsSortedAsc(SortAsc(a))
  /\ SortDesc(a) = Reverse(SortAsc(a)) /\ IsSortedDesc(SortDesc(a))
  /\ IsSortedAsc(a) /\ IsSortedDesc(a) <=> AreAllTheSame(a)
  /\ SortFx(a, [x \in Values |-> -x]) = SortDesc(a)
  /\ \A result \in {Min(a), Max(a), Average(a), Mode(a)} : result = Panics <=> a = <<>>
  /\ LET least == Min(a)[1]  most == Max(a)[1]  average == Average(a)[1] IN
     a # <<>> =>
       /\ least = SortAsc(a)[1] /\ most = SortDesc(a)[1]
       /\ most = MaxFx(a, [x \in Values |-> x])
       /\ most = Reduce(a, [x \in Values, m \in Values |-> IF m < x THEN x ELSE m], 0)
       /\ least <= average /\ average <= most
       /\ \A x \in Values : Count(a, Mode(a)[1]) >= Count(a, x)

SetsAgree(a, b) ==
  LET u == Unique(a)  kept == RemoveFromList(a, b)  common == Intersection(a, b) IN
  /\ AreAllUnique(u) /\ RemoveFromList(a, u) = <<>> /\ RemoveFromList(u, a) = <<>>
  /\ Bag(UnionAll(kept, common)) = Bag(a) /\ Intersection(kept, common) = <<>>
  /\ common = IntersectionFx(a, b, {<<x, x>> : x \in Values})
  /\ LET g == GroupBy(a, [x \in Values |-> x \in Odd]) IN
     Bag(SelectMany(<<IF TRUE \in DOMAIN g THEN g[TRUE] ELSE <<>>,
                      IF FALSE \in DOMAIN g THEN g[FALSE] ELSE <<>> >>)) = Bag(a)
  /\ AreAllUnique(b) => AreAllUnique(SetAdd(u, b))
  /\ \A x \in Values : ~ ContainsItem(SetRemove(SetAdd(u, b), x), x)

\* Objects with a key, merged when their keys are equal: nothing is lost and
\* every key is left once.
MergeAgrees(a) ==
  LET objects == SX!FoldLeftDomain(
        LAMBDA acc, i : Append(acc, [key |-> a[i], parts |-> {i}]), <<>>, a)
      all == [key : Values, parts : SUBSET Dom(a)]
      merge == [x \in all, y \in all |->
                  <<[key |-> x.key, parts |-> x.parts \cup y.parts], x.key = y.key>>]
      merged == MergeObjects(objects, merge)
  IN /\ UNION {merged[i].parts : i \in Dom(merged)} = Dom(a)
     /\ AreAllUnique(Mapper(merged, [x \in all |-> x.key]))

MapsAgree(a, b) ==
  LET m0 == CountMap(a)  m1 == CountMap(b)  diff == MapDiff(m0, m1)
      pairs == SX!FoldLeft(LAMBDA acc, x : MapTransform(acc, x, [v \in Dom(a) \cup {0} |-> v + 1]), <<>>, a)
  IN /\ \A k \in Values :
          /\ Lookup(m1, k) = IF k \in DOMAIN diff THEN diff[k][2] ELSE Lookup(m0, k)
          /\ MapGet(pairs, k) = Lookup(m0, k)
          /\ MapGet(MapDelete(pairs, k), k) = Zero
     /\ MergeMaps(m0, m1) = MergeMaps(FilterMap(m0, (Values \ DOMAIN m1) \X Dom(a)), m1)
     /\ CloneWithKeys(MergeMaps(m0, m1), b) = m1
     /\ BoolMapToArray(MakeBoolMap(a)) = DOMAIN m0

IterAgrees(a) ==
  LET st == SX!FoldLeftDomain(
        LAMBDA s, i : LET n == Next(a, s.position, Odd) IN
                      [position |-> n.position,
                       out |-> IF n.ok THEN Append(s.out, n.item) ELSE s.out],
        [position |-> 0, out |-> <<>>], a)
  IN st.out = Filter(a, Odd)

\* Every row of one value from each column, once, the last column fastest.
PermutationsAgree(columns) ==
  LET rows == Permutations(columns)
      values(i) == IF columns[i] = <<>> THEN <<Zero>> ELSE columns[i]
      below(r, s) == \E i \in Dom(columns) : r[i] < s[i] /\ \A j \in 1..i-1 : r[j] = s[j]
      all == {f \in [Dom(columns) -> 0..2] :
                \A i \in Dom(columns) : ContainsItem(values(i), f[i])}
  IN (\A i \in Dom(columns) : IsSortedAsc(columns[i]) /\ AreAllUnique(columns[i]))
       /\ columns # <<>> =>
     /\ {rows[i] : i \in Dom(rows)} = all /\ Len(rows) = Cardinality(all)
     /\ \A i, j \in Dom(rows) : i < j => below(rows[i], rows[j])

Agree(a, b) ==
  /\ SearchAgrees(a, b) /\ SortAgrees(a) /\ SetsAgree(a, b) /\ MergeAgrees(a)
  /\ MapsAgree(a, b) /\ IterAgrees(a)
  /\ PermutationsAgree(<<a, b>>) /\ PermutationsAgree(<<a, <<>>, b>>)
=============================================================================
