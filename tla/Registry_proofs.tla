--------------------------- MODULE Registry_proofs ---------------------------
(***************************************************************************)
(* Theorems about Registry, for every set of identifiers and any objects.  *)
(*                                                                         *)
(* The inductive invariant is RegInv.  It rests on the binary search,      *)
(* which is right in a sorted storage only, and on what keeps a storage    *)
(* sorted: the place the search returns for an identifier that the storage *)
(* does not hold.  store_object compares that place with an identifier; in *)
(* a sorted storage the two are equal only if the storage holds every      *)
(* identifier below it, so that an object is replaced by none but its own. *)
(* Full names rest on FullIdParts: cut at its last colon, the name that    *)
(* make_port_full_id makes gives back the client, and the port, unless the *)
(* name of the port has a colon itself.                                    *)
(***************************************************************************)
EXTENDS Registry, FiniteSetTheorems, SequenceTheorems, TLAPS

Elements(s) == {s[i] : i \in 1 .. Len(s)}

\* A storage: sorted by identifier, each one once.
Sorted(s) ==
    /\ IsList(s)
    /\ \A i \in 1 .. Len(s) : s[i].id \in Ids
    /\ \A i, j \in 1 .. Len(s) : i < j => s[i].id < s[j].id

LEMMA Least ==
    ASSUME NEW T, T \subseteq Nat, T # {}
    PROVE  \E m \in T : \A n \in T : m <= n
<1>1. IsWellFoundedOn(OpToRel(<, Nat), Nat)
  BY NatLessThanWellFounded
<1>2. PICK m \in T : \A n \in T : <<n, m>> \notin OpToRel(<, Nat)
  BY <1>1, WFMin
<1>3. \A n \in T : ~(n < m)
  BY <1>2 DEF OpToRel
<1> QED
  BY <1>3

LEMMA SortedIds ==
    ASSUME NEW s, Sorted(s)
    PROVE  Len(s) \in Nat /\ \A i \in 1 .. Len(s) : s[i].id \in Nat
  BY RegistryAssumption DEF Sorted, IsList

-----------------------------------------------------------------------------
(* The binary search *)

\* One step of it, given the rest, and all of it.
SearchStep(s, id, rest, part) ==
    LET first  == part[1]
        last   == part[2]
        middle == (first + last) \div 2
    IN  IF first > last               THEN first
        ELSE IF id < s[middle + 1].id THEN rest[<<first, middle - 1>>]
        ELSE IF id > s[middle + 1].id THEN rest[<<middle + 1, last>>]
        ELSE middle

Parts(s) == (0 .. Len(s)) \X (-1 .. Len(s) - 1)

Search(s, id) == CHOOSE f : f = [part \in Parts(s) |-> SearchStep(s, id, f, part)]

LEMMA IndexIsSearch ==
    ASSUME NEW s, NEW id
    PROVE  StorageIndexOf(s, id) = Search(s, id)[<<0, Len(s) - 1>>]
  BY DEF StorageIndexOf, Search, SearchStep, Parts

\* Below the place i every identifier is less than id, from it on none is.
Splits(s, id, first, last, i) ==
    /\ i \in first .. last + 1
    /\ \A j \in first .. i - 1 : s[j + 1].id < id
    /\ \A j \in i .. last : s[j + 1].id >= id

LEMMA Middle ==
    ASSUME NEW a \in Int, NEW b \in Int, a <= b
    PROVE  (a + b) \div 2 \in a .. b
  OBVIOUS

\* Splitting a part of a sorted storage splits all of it, on either side of the middle.
LEMMA SplitsWhole ==
    ASSUME NEW s, Sorted(s), NEW id \in Nat,
           NEW first \in 0 .. Len(s), NEW last \in -1 .. Len(s) - 1,
           NEW middle \in first .. last, NEW i
    PROVE  /\ id < s[middle + 1].id /\ Splits(s, id, first, middle - 1, i)
                 => Splits(s, id, first, last, i)
           /\ id > s[middle + 1].id /\ Splits(s, id, middle + 1, last, i)
                 => Splits(s, id, first, last, i)
           /\ id = s[middle + 1].id => Splits(s, id, first, last, middle)
<1>1. /\ Len(s) \in Nat /\ \A j \in 1 .. Len(s) : s[j].id \in Nat
      /\ \A j, k \in 1 .. Len(s) : j < k => s[j].id < s[k].id
  BY SortedIds DEF Sorted
<1>2. /\ first \in Nat /\ last \in Int /\ middle \in Nat /\ first <= middle /\ middle <= last
      /\ middle + 1 \in 1 .. Len(s)
      /\ \A j \in first .. last : j \in Nat /\ j + 1 \in 1 .. Len(s)
  BY <1>1
<1>3. /\ \A j \in first .. middle - 1 : s[j + 1].id < s[middle + 1].id
      /\ \A j \in middle + 1 .. last : s[j + 1].id > s[middle + 1].id
  <2>1. \A j \in first .. middle - 1 : j + 1 \in 1 .. Len(s) /\ j + 1 < middle + 1
    BY <1>1, <1>2
  <2>2. \A j \in middle + 1 .. last : j + 1 \in 1 .. Len(s) /\ middle + 1 < j + 1
    BY <1>1, <1>2
  <2>3. \A j \in first .. middle - 1 : s[j + 1].id < s[middle + 1].id
    BY <1>1, <1>2, <2>1
  <2>4. \A j \in middle + 1 .. last : s[middle + 1].id < s[j + 1].id
    BY <1>1, <1>2, <2>2
  <2>5. \A j \in middle + 1 .. last : s[j + 1].id \in Nat /\ s[middle + 1].id \in Nat
    BY <1>1, <1>2, <2>2
  <2> QED
    BY <2>3, <2>4, <2>5
<1> DEFINE at(j) == s[j + 1].id
<1>4. \A j \in first .. last : at(j) \in Nat
  BY <1>1, <1>2
<1>5. /\ \A j \in first .. middle - 1 : at(j) < at(middle)
      /\ \A j \in middle + 1 .. last : at(j) > at(middle)
  BY <1>3
<1>6. /\ id < at(middle) /\ Splits(s, id, first, middle - 1, i) => Splits(s, id, first, last, i)
      /\ id > at(middle) /\ Splits(s, id, middle + 1, last, i) => Splits(s, id, first, last, i)
      /\ id = at(middle) => Splits(s, id, first, last, middle)
  <2>1. \A f, l, m : Splits(s, id, f, l, m) <=>
           /\ m \in f .. l + 1
           /\ \A j \in f .. m - 1 : at(j) < id
           /\ \A j \in m .. l : at(j) >= id
    BY DEF Splits
  <2> HIDE DEF at
  <2>2. ASSUME id < at(middle), Splits(s, id, first, middle - 1, i)
        PROVE  Splits(s, id, first, last, i)
    <3>1. /\ i \in first .. middle
          /\ \A j \in first .. i - 1 : at(j) < id
          /\ \A j \in i .. middle - 1 : at(j) >= id
      BY <1>2, <2>1, <2>2
    <3>2. \A j \in i .. last : j \in i .. middle - 1 \/ j = middle \/ j \in middle + 1 .. last
      BY <1>2, <3>1
    <3>3. \A j \in i .. last : at(j) >= id
      BY <1>2, <1>4, <1>5, <2>2, <3>1, <3>2
    <3>4. i \in first .. last + 1
      BY <1>2, <3>1
    <3> QED
      BY <2>1, <3>1, <3>3, <3>4
  <2>3. ASSUME id > at(middle), Splits(s, id, middle + 1, last, i)
        PROVE  Splits(s, id, first, last, i)
    <3>1. /\ i \in middle + 1 .. last + 1
          /\ \A j \in middle + 1 .. i - 1 : at(j) < id
          /\ \A j \in i .. last : at(j) >= id
      BY <1>2, <2>1, <2>3
    <3>2. \A j \in first .. i - 1 :
             j \in first .. middle - 1 \/ j = middle \/ j \in middle + 1 .. i - 1
      BY <1>2, <3>1
    <3>3. \A j \in first .. i - 1 : j \in first .. last
      BY <1>2, <3>1
    <3>4. \A j \in first .. i - 1 : at(j) < id
      BY <1>2, <1>4, <1>5, <2>3, <3>1, <3>2, <3>3
    <3>5. i \in first .. last + 1
      BY <1>2, <3>1
    <3> QED
      BY <2>1, <3>1, <3>4, <3>5
  <2>4. ASSUME id = at(middle)
        PROVE  Splits(s, id, first, last, middle)
    <3>1. \A j \in middle .. last : j = middle \/ j \in middle + 1 .. last
      BY <1>2
    <3>2. \A j \in middle .. last : at(j) >= id
      BY <1>2, <1>4, <1>5, <2>4, <3>1
    <3>3. \A j \in first .. middle - 1 : at(j) < id
      BY <1>5, <2>4
    <3>4. middle \in first .. last + 1
      BY <1>2
    <3> QED
      BY <2>1, <3>2, <3>3, <3>4
  <2> QED
    BY <2>2, <2>3, <2>4
<1> QED
  BY <1>6

\* In each part of a sorted storage there is one place that splits it.
LEMMA SplitExists ==
    ASSUME NEW s, Sorted(s), NEW id \in Nat,
           NEW first \in 0 .. Len(s), NEW last \in -1 .. Len(s) - 1, first <= last + 1
    PROVE  \E i \in Nat : Splits(s, id, first, last, i)
<1>1. /\ Len(s) \in Nat /\ \A j \in 1 .. Len(s) : s[j].id \in Nat
      /\ \A j, k \in 1 .. Len(s) : j < k => s[j].id < s[k].id
  BY SortedIds DEF Sorted
<1> DEFINE at(j) == s[j + 1].id
<1>2. \A j \in first .. last : at(j) \in Nat
  BY <1>1
<1>3. \A j, k \in first .. last : j < k => at(j) < at(k)
  <2> SUFFICES ASSUME NEW j \in first .. last, NEW k \in first .. last, j < k
               PROVE  at(j) < at(k)
    OBVIOUS
  <2>1. j + 1 \in 1 .. Len(s) /\ k + 1 \in 1 .. Len(s) /\ j + 1 < k + 1
    BY <1>1
  <2> QED
    BY <1>1, <2>1
<1>4. \A i : Splits(s, id, first, last, i) <=>
         /\ i \in first .. last + 1
         /\ \A j \in first .. i - 1 : at(j) < id
         /\ \A j \in i .. last : at(j) >= id
  BY DEF Splits
<1> HIDE DEF at
<1> DEFINE T == {i \in first .. last + 1 : i = last + 1 \/ at(i) >= id}
<1>5. T \subseteq Nat /\ last + 1 \in T
  BY <1>1
<1>6. PICK i \in T : \A j \in T : i <= j
  <2> HIDE DEF T
  <2> QED
    BY <1>5, Least
<1>7. \A j \in first .. i - 1 : at(j) < id
  <2> SUFFICES ASSUME NEW j \in first .. i - 1
               PROVE  at(j) < id
    OBVIOUS
  <2>1. j \in first .. last /\ ~(i <= j)
    BY <1>1
  <2>2. j \notin T
    BY <1>6, <2>1
  <2> QED
    BY <1>2, <2>1, <2>2
<1>8. \A j \in i .. last : at(j) >= id
  <2> SUFFICES ASSUME NEW j \in i .. last
               PROVE  at(j) >= id
    OBVIOUS
  <2>1. i \in first .. last /\ j \in first .. last /\ at(i) >= id /\ (i < j \/ i = j)
    BY <1>1
  <2> QED
    BY <1>2, <1>3, <2>1
<1> QED
  BY <1>4, <1>5, <1>6, <1>7, <1>8

LEMMA SplitUnique ==
    ASSUME NEW s, Sorted(s), NEW id \in Nat,
           NEW first \in 0 .. Len(s), NEW last \in -1 .. Len(s) - 1,
           NEW i, Splits(s, id, first, last, i), NEW k, Splits(s, id, first, last, k)
    PROVE  i = k
<1>1. /\ Len(s) \in Nat /\ \A j \in 1 .. Len(s) : s[j].id \in Nat
  BY SortedIds
<1> DEFINE at(j) == s[j + 1].id
<1>2. \A j \in first .. last : at(j) \in Nat
  BY <1>1
<1>3. /\ i \in first .. last + 1 /\ k \in first .. last + 1
      /\ \A j \in first .. i - 1 : at(j) < id
      /\ \A j \in i .. last : at(j) >= id
      /\ \A j \in first .. k - 1 : at(j) < id
      /\ \A j \in k .. last : at(j) >= id
  BY DEF Splits
<1> HIDE DEF at
<1>4. ASSUME i < k PROVE FALSE
  <2>1. i \in first .. k - 1 /\ i \in i .. last /\ i \in first .. last
    BY <1>1, <1>3, <1>4
  <2> QED
    BY <1>2, <1>3, <2>1
<1>5. ASSUME k < i PROVE FALSE
  <2>1. k \in first .. i - 1 /\ k \in k .. last /\ k \in first .. last
    BY <1>1, <1>3, <1>5
  <2> QED
    BY <1>2, <1>3, <2>1
<1> QED
  BY <1>1, <1>3, <1>4, <1>5

\* An empty part is split at its start.
LEMMA SplitEmpty ==
    ASSUME NEW s, NEW id, NEW first \in Int, NEW last \in Int, first = last + 1
    PROVE  Splits(s, id, first, last, first)
  BY DEF Splits

\* The parts the search goes on with are smaller and in the domain of the function.
LEMMA SmallerParts ==
    ASSUME NEW n \in Nat, NEW first \in 0 .. n, NEW last \in -1 .. n - 1, first <= last
    PROVE  /\ (first + last) \div 2 \in first .. last
           /\ (first + last) \div 2 - 1 \in -1 .. n - 1
           /\ (first + last) \div 2 + 1 \in 0 .. n
           /\ first <= ((first + last) \div 2 - 1) + 1
           /\ (first + last) \div 2 + 1 <= last + 1
<1>1. (first + last) \div 2 \in first .. last
  BY Middle
<1> DEFINE middle == (first + last) \div 2
<1> HIDE DEF middle
<1>2. middle \in first .. last
  BY <1>1 DEF middle
<1>3. /\ middle - 1 \in -1 .. n - 1 /\ middle + 1 \in 0 .. n
      /\ first <= (middle - 1) + 1 /\ middle + 1 <= last + 1
  BY <1>2
<1> QED
  BY <1>2, <1>3 DEF middle

\* If the rest of the search splits the smaller parts, one step splits the whole.
LEMMA StepSplits ==
    ASSUME NEW s, Sorted(s), NEW id \in Nat, NEW rest,
           NEW first \in 0 .. Len(s), NEW last \in -1 .. Len(s) - 1, first <= last,
           \A f \in 0 .. Len(s) : \A l \in -1 .. Len(s) - 1 :
              f <= l + 1 /\ l - f < last - first => Splits(s, id, f, l, rest[<<f, l>>])
    PROVE  Splits(s, id, first, last, SearchStep(s, id, rest, <<first, last>>))
<1> DEFINE middle == (first + last) \div 2
<1>0. Len(s) \in Nat
  BY SortedIds
<1>1. /\ middle \in first .. last
      /\ middle - 1 \in -1 .. Len(s) - 1 /\ middle + 1 \in 0 .. Len(s)
      /\ first <= (middle - 1) + 1 /\ middle + 1 <= last + 1
  BY <1>0, SmallerParts
<1>2. SearchStep(s, id, rest, <<first, last>>) =
        IF id < s[middle + 1].id THEN rest[<<first, middle - 1>>]
        ELSE IF id > s[middle + 1].id THEN rest[<<middle + 1, last>>]
        ELSE middle
  <2>1. ~(first > last)
    BY <1>0
  <2> QED
    BY <2>1 DEF SearchStep
<1> HIDE DEF middle
<1>3. middle - 1 - first < last - first /\ last - (middle + 1) < last - first
  BY <1>0, <1>1
<1>4. Splits(s, id, first, middle - 1, rest[<<first, middle - 1>>])
  BY <1>1, <1>3
<1>5. Splits(s, id, middle + 1, last, rest[<<middle + 1, last>>])
  BY <1>1, <1>3
<1>6. CASE id < s[middle + 1].id
  <2>1. Splits(s, id, first, last, rest[<<first, middle - 1>>])
    BY <1>1, <1>4, <1>6, SplitsWhole
  <2> QED
    BY <1>2, <1>6, <2>1
<1>7. s[middle + 1].id \in Nat
  <2>1. middle + 1 \in 1 .. Len(s)
    BY <1>0, <1>1
  <2> QED
    BY <2>1, SortedIds
<1>8. CASE id > s[middle + 1].id
  <2>1. Splits(s, id, first, last, rest[<<middle + 1, last>>])
    BY <1>1, <1>5, <1>8, SplitsWhole
  <2>2. ~(id < s[middle + 1].id)
    BY <1>7, <1>8
  <2> QED
    BY <1>2, <1>8, <2>1, <2>2
<1>9. CASE id = s[middle + 1].id
  <2>1. Splits(s, id, first, last, middle)
    BY <1>1, <1>9, SplitsWhole
  <2>2. ~(id < s[middle + 1].id) /\ ~(id > s[middle + 1].id)
    BY <1>7, <1>9
  <2> QED
    BY <1>2, <2>1, <2>2
<1>10. id < s[middle + 1].id \/ id > s[middle + 1].id \/ id = s[middle + 1].id
  BY <1>7
<1> QED
  BY <1>6, <1>8, <1>9, <1>10

\* The equation of the search has a solution: the places that split.
LEMMA SearchExists ==
    ASSUME NEW s, Sorted(s), NEW id \in Nat
    PROVE  Search(s, id) = [part \in Parts(s) |-> SearchStep(s, id, Search(s, id), part)]
<1> DEFINE Split(first, last) == CHOOSE i : Splits(s, id, first, last, i)
           G == [part \in Parts(s) |->
                    IF part[1] > part[2] THEN part[1] ELSE Split(part[1], part[2])]
<1>0. Len(s) \in Nat
  BY SortedIds
<1>1. \A part \in Parts(s) :
         G[part] = IF part[1] > part[2] THEN part[1] ELSE Split(part[1], part[2])
  OBVIOUS
<1>d. DOMAIN G = Parts(s) /\ G = [part \in Parts(s) |-> G[part]]
  OBVIOUS
<1> HIDE DEF G
<1>p. \A first \in 0 .. Len(s) : \A last \in -1 .. Len(s) - 1 : <<first, last>> \in Parts(s)
  BY DEF Parts
<1>2. \A first \in 0 .. Len(s) : \A last \in -1 .. Len(s) - 1 :
         first <= last + 1 => Splits(s, id, first, last, G[<<first, last>>])
  <2> SUFFICES ASSUME NEW first \in 0 .. Len(s), NEW last \in -1 .. Len(s) - 1,
                      first <= last + 1
               PROVE  Splits(s, id, first, last, G[<<first, last>>])
    OBVIOUS
  <2>0. G[<<first, last>>] = IF first > last THEN first ELSE Split(first, last)
    <3> HIDE DEF Split
    <3> QED
      BY <1>1, <1>p
  <2>1. CASE first > last
    <3>1. first = last + 1 /\ first \in Int /\ last \in Int
      BY <1>0, <2>1
    <3>2. Splits(s, id, first, last, first)
      BY <3>1, SplitEmpty
    <3> QED
      BY <2>0, <2>1, <3>2
  <2>2. CASE ~(first > last)
    <3>1. \E i : Splits(s, id, first, last, i)
      BY SplitExists
    <3>2. Splits(s, id, first, last, Split(first, last))
      BY <3>1
    <3> QED
      BY <2>0, <2>2, <3>2
  <2> QED
    BY <2>1, <2>2
<1>3. ASSUME NEW part \in Parts(s)
      PROVE  G[part] = SearchStep(s, id, G, part)
  <2>0. PICK first \in 0 .. Len(s), last \in -1 .. Len(s) - 1 : part = <<first, last>>
    BY DEF Parts
  <2>1. CASE first > last
    BY <1>1, <2>0, <2>1 DEF SearchStep
  <2>2. CASE ~(first > last)
    <3>1. first <= last /\ first <= last + 1
      BY <1>0, <2>2
    <3>2. Splits(s, id, first, last, SearchStep(s, id, G, <<first, last>>))
      BY <1>2, <3>1, StepSplits
    <3>3. Splits(s, id, first, last, G[<<first, last>>])
      BY <1>2, <3>1
    <3>4. G[<<first, last>>] = SearchStep(s, id, G, <<first, last>>)
      BY <3>2, <3>3, SplitUnique
    <3> QED
      BY <2>0, <3>4
  <2> QED
    BY <2>1, <2>2
<1>4. G = [part \in Parts(s) |-> SearchStep(s, id, G, part)]
  BY <1>3, <1>d, Zenon
<1>5. \E f : f = [part \in Parts(s) |-> SearchStep(s, id, f, part)]
  BY <1>4
<1> QED
  BY <1>5 DEF Search

\* storage_index_of returns the place that splits the storage.
LEMMA IndexOf ==
    ASSUME NEW s, Sorted(s), NEW id \in Nat
    PROVE  Splits(s, id, 0, Len(s) - 1, StorageIndexOf(s, id))
<1> DEFINE f == Search(s, id)
<1>0. Len(s) \in Nat
  BY SortedIds
<1>1. \A part \in Parts(s) : f[part] = SearchStep(s, id, f, part)
  BY SearchExists
<1> HIDE DEF f
<1>p. \A first \in 0 .. Len(s) : \A last \in -1 .. Len(s) - 1 : <<first, last>> \in Parts(s)
  BY DEF Parts
<1> DEFINE Wrong(n, first, last) == /\ first <= last + 1 /\ n = last + 1 - first
                                    /\ ~Splits(s, id, first, last, f[<<first, last>>])
           Bad(n) == \E first \in 0 .. Len(s) : \E last \in -1 .. Len(s) - 1 :
                        Wrong(n, first, last)
           T == {n \in Nat : Bad(n)}
<1>2. T = {}
  <2> SUFFICES ASSUME T # {} PROVE FALSE
    OBVIOUS
  <2>1. PICK m \in T : \A n \in T : m <= n
    <3>1. T \subseteq Nat
      OBVIOUS
    <3> HIDE DEF T
    <3> QED
      BY <3>1, Least
  <2>2. PICK first \in 0 .. Len(s), last \in -1 .. Len(s) - 1 : Wrong(m, first, last)
    BY <2>1
  <2>3. CASE first > last
    <3>1. first = last + 1 /\ first \in Int /\ last \in Int
      BY <1>0, <2>2, <2>3
    <3>2. f[<<first, last>>] = first
      BY <1>1, <1>p, <2>3 DEF SearchStep
    <3>3. Splits(s, id, first, last, first)
      BY <3>1, SplitEmpty
    <3> QED
      BY <2>2, <3>2, <3>3
  <2>4. CASE ~(first > last)
    <3>1. ASSUME NEW f1 \in 0 .. Len(s), NEW l1 \in -1 .. Len(s) - 1,
                 f1 <= l1 + 1, l1 - f1 < last - first
          PROVE  Splits(s, id, f1, l1, f[<<f1, l1>>])
      <4> SUFFICES ASSUME ~Splits(s, id, f1, l1, f[<<f1, l1>>]) PROVE FALSE
        OBVIOUS
      <4>1. l1 + 1 - f1 \in Nat /\ ~(m <= l1 + 1 - f1)
        BY <1>0, <2>2, <3>1
      <4>2. Bad(l1 + 1 - f1)
        BY <3>1
      <4>3. l1 + 1 - f1 \in T
        BY <4>1, <4>2
      <4> QED
        BY <2>1, <4>1, <4>3
    <3>2. first <= last
      BY <1>0, <2>4
    <3>3. Splits(s, id, first, last, SearchStep(s, id, f, <<first, last>>))
      BY <3>1, <3>2, StepSplits
    <3>4. f[<<first, last>>] = SearchStep(s, id, f, <<first, last>>)
      BY <1>1, <1>p
    <3> QED
      BY <2>2, <3>3, <3>4
  <2> QED
    BY <2>3, <2>4
<1>3. 0 \in 0 .. Len(s) /\ Len(s) - 1 \in -1 .. Len(s) - 1 /\ 0 <= Len(s) - 1 + 1
      /\ Len(s) - 1 + 1 - 0 \in Nat
  BY <1>0
<1>4. Splits(s, id, 0, Len(s) - 1, f[<<0, Len(s) - 1>>])
  <2> SUFFICES ASSUME ~Splits(s, id, 0, Len(s) - 1, f[<<0, Len(s) - 1>>]) PROVE FALSE
    OBVIOUS
  <2>1. Bad(Len(s) - 1 + 1 - 0)
    BY <1>3
  <2> QED
    BY <1>2, <1>3, <2>1
<1> QED
  BY <1>4, IndexIsSearch DEF f

\* What its callers use of it: whether the storage holds the identifier, and the place.
LEMMA Place ==
    ASSUME NEW s, Sorted(s), NEW id \in Nat
    PROVE  LET index == StorageIndexOf(s, id)
           IN  /\ index \in 0 .. Len(s)
               /\ \A j \in 1 .. index : s[j].id < id
               /\ \A j \in index + 1 .. Len(s) : s[j].id >= id
               /\ Holds(s, id) <=> \E j \in 1 .. Len(s) : s[j].id = id
               /\ Holds(s, id) => index + 1 \in 1 .. Len(s) /\ s[index + 1].id = id
<1> DEFINE index == StorageIndexOf(s, id)
<1>0. /\ Len(s) \in Nat /\ \A j \in 1 .. Len(s) : s[j].id \in Nat
      /\ \A j, k \in 1 .. Len(s) : j < k => s[j].id < s[k].id
  BY SortedIds DEF Sorted
<1>1. /\ index \in 0 .. Len(s) - 1 + 1
      /\ \A j \in 0 .. index - 1 : s[j + 1].id < id
      /\ \A j \in index .. Len(s) - 1 : s[j + 1].id >= id
  BY IndexOf DEF Splits
<1>h. Holds(s, id) <=> index < Len(s) /\ s[index + 1].id = id
  BY DEF Holds
<1> HIDE DEF index
<1>2. index \in 0 .. Len(s)
  BY <1>0, <1>1
<1>3. \A j \in 1 .. index : s[j].id < id
  <2> TAKE j \in 1 .. index
  <2>1. j - 1 \in 0 .. index - 1 /\ (j - 1) + 1 = j
    BY <1>2, <1>0
  <2>2. s[(j - 1) + 1].id < id
    BY <1>1, <2>1
  <2> QED
    BY <2>1, <2>2
<1>4. \A j \in index + 1 .. Len(s) : s[j].id >= id
  <2> TAKE j \in index + 1 .. Len(s)
  <2>1. j - 1 \in index .. Len(s) - 1 /\ (j - 1) + 1 = j
    BY <1>2, <1>0
  <2>2. s[(j - 1) + 1].id >= id
    BY <1>1, <2>1
  <2> QED
    BY <2>1, <2>2
<1>5. ASSUME NEW j \in 1 .. Len(s), s[j].id = id PROVE j = index + 1
  <2>1. ~(j <= index)
    BY <1>0, <1>2, <1>3, <1>5
  <2>2. ASSUME index + 1 < j PROVE FALSE
    <3>1. index + 1 \in 1 .. Len(s) /\ index + 1 \in index + 1 .. Len(s)
      BY <1>0, <1>2, <2>2
    <3>2. s[index + 1].id < s[j].id
      BY <1>0, <2>2, <3>1
    <3>3. s[index + 1].id >= id /\ s[index + 1].id \in Nat
      BY <1>0, <1>4, <3>1
    <3> QED
      BY <1>5, <3>2, <3>3
  <2> QED
    BY <1>0, <1>2, <2>1, <2>2
<1>6. Holds(s, id) => index + 1 \in 1 .. Len(s) /\ s[index + 1].id = id
  BY <1>0, <1>2, <1>h
<1>7. Holds(s, id) <=> \E j \in 1 .. Len(s) : s[j].id = id
  <2>1. ASSUME NEW j \in 1 .. Len(s), s[j].id = id PROVE Holds(s, id)
    <3>1. j = index + 1
      BY <1>5, <2>1
    <3>2. index < Len(s)
      BY <1>0, <1>2, <3>1
    <3> QED
      BY <1>h, <2>1, <3>1, <3>2
  <2> QED
    BY <1>6, <2>1
<1> QED
  BY <1>2, <1>3, <1>4, <1>6, <1>7 DEF index
-----------------------------------------------------------------------------
(* Insertion and removal *)

LEMMA SeqIsList ==
    ASSUME NEW S, NEW s \in Seq(S)
    PROVE  IsList(s)
<1>1. Len(s) \in Nat /\ s \in [1 .. Len(s) -> S]
  BY LenProperties
<1> QED
  BY <1>1 DEF IsList

LEMMA ListIsSeq ==
    ASSUME NEW s, IsList(s), NEW S, \A i \in 1 .. Len(s) : s[i] \in S
    PROVE  s \in Seq(S)
<1>1. Len(s) \in Nat /\ s \in [1 .. Len(s) -> S]
  BY DEF IsList
<1> QED
  BY <1>1, SeqDef

LEMMA InsertAtIs ==
    ASSUME NEW s, IsList(s), NEW i \in 1 .. Len(s) + 1, NEW o
    PROVE  /\ IsList(InsertAt(s, i, o))
           /\ Len(InsertAt(s, i, o)) = Len(s) + 1
           /\ \A j \in 1 .. Len(s) + 1 :
                 InsertAt(s, i, o)[j] = IF j < i THEN s[j] ELSE IF j = i THEN o ELSE s[j - 1]
<1> DEFINE S == Elements(s) \cup {o}
           front == SubSeq(s, 1, i - 1)
           back  == SubSeq(s, i, Len(s))
<1>0. Len(s) \in Nat /\ \A j \in 1 .. Len(s) : s[j] \in S
  BY DEF IsList, Elements
<1>m. o \in S
  OBVIOUS
<1>t. InsertAt(s, i, o) = (front \o <<o>>) \o back
  BY DEF InsertAt
<1> HIDE DEF S
<1>1. /\ front \in Seq(S) /\ Len(front) = i - 1
      /\ \A j \in 1 .. i - 1 : front[j] = s[j]
  <2>1. /\ SubSeq(s, 1, i - 1) \in Seq(S)
        /\ Len(SubSeq(s, 1, i - 1)) = IF 1 <= i - 1 THEN i - 1 - 1 + 1 ELSE 0
        /\ \A j \in 1 .. i - 1 - 1 + 1 : SubSeq(s, 1, i - 1)[j] = s[1 + j - 1]
    <3>1. 1 \in Int /\ i - 1 \in Int /\ \A j \in 1 .. i - 1 : s[j] \in S
      BY <1>0
    <3> QED
      BY <3>1, SubSeqProperties
  <2> QED
    BY <1>0, <2>1
<1>2. /\ back \in Seq(S) /\ Len(back) = Len(s) - i + 1
      /\ \A j \in 1 .. Len(s) - i + 1 : back[j] = s[i + j - 1]
  <2>1. /\ SubSeq(s, i, Len(s)) \in Seq(S)
        /\ Len(SubSeq(s, i, Len(s))) = IF i <= Len(s) THEN Len(s) - i + 1 ELSE 0
        /\ \A j \in 1 .. Len(s) - i + 1 : SubSeq(s, i, Len(s))[j] = s[i + j - 1]
    <3>1. i \in Int /\ Len(s) \in Int /\ \A j \in i .. Len(s) : s[j] \in S
      BY <1>0
    <3> QED
      BY <3>1, SubSeqProperties
  <2> QED
    BY <1>0, <2>1
<1> HIDE DEF front, back
<1>3. <<o>> \in Seq(S) /\ Len(<<o>>) = 1 /\ <<o>>[1] = o
  BY <1>m
<1> DEFINE first == front \o <<o>>
<1>4. /\ first \in Seq(S) /\ Len(first) = i
      /\ \A j \in 1 .. i : first[j] = IF j <= i - 1 THEN s[j] ELSE o
  <2>1. /\ front \o <<o>> \in Seq(S)
        /\ Len(front \o <<o>>) = Len(front) + Len(<<o>>)
        /\ \A j \in 1 .. Len(front) + Len(<<o>>) : (front \o <<o>>)[j] =
              IF j <= Len(front) THEN front[j] ELSE <<o>>[j - Len(front)]
    BY <1>1, <1>3, ConcatProperties
  <2>2. \A j \in 1 .. i : j <= i - 1 \/ j - (i - 1) = 1
    OBVIOUS
  <2>3. Len(front) + Len(<<o>>) = i
    BY <1>1, <1>3
  <2>4. \A j \in 1 .. i : j <= i - 1 => j \in 1 .. i - 1
    OBVIOUS
  <2> QED
    BY <1>1, <1>3, <2>1, <2>2, <2>3, <2>4
<1> HIDE DEF first
<1>5. /\ first \o back \in Seq(S)
      /\ Len(first \o back) = Len(first) + Len(back)
      /\ \A j \in 1 .. Len(first) + Len(back) : (first \o back)[j] =
            IF j <= Len(first) THEN first[j] ELSE back[j - Len(first)]
  BY <1>2, <1>4, ConcatProperties
<1>6. Len(first) + Len(back) = Len(s) + 1
  BY <1>0, <1>2, <1>4
<1>7. \A j \in 1 .. Len(s) + 1 :
         (first \o back)[j] = IF j < i THEN s[j] ELSE IF j = i THEN o ELSE s[j - 1]
  <2> TAKE j \in 1 .. Len(s) + 1
  <2>1. CASE j <= i
    BY <1>4, <1>5, <1>6, <2>1
  <2>2. CASE j > i
    <3>1. j - i \in 1 .. Len(s) - i + 1 /\ i + (j - i) - 1 = j - 1 /\ ~(j <= i)
      BY <1>0, <2>2
    <3>2. back[j - i] = s[j - 1]
      BY <1>2, <3>1
    <3> QED
      BY <1>4, <1>5, <1>6, <2>2, <3>1, <3>2
  <2>3. j <= i \/ j > i
    BY <1>0
  <2> QED
    BY ONLY <2>1, <2>2, <2>3
<1>8. IsList(first \o back)
  BY <1>5, SeqIsList
<1> QED
  BY <1>5, <1>6, <1>7, <1>8, <1>t DEF first

LEMMA RemoveAtIs ==
    ASSUME NEW s, IsList(s), NEW i \in 1 .. Len(s)
    PROVE  /\ IsList(RemoveAt(s, i))
           /\ Len(RemoveAt(s, i)) = Len(s) - 1
           /\ \A j \in 1 .. Len(s) - 1 :
                 RemoveAt(s, i)[j] = IF j < i THEN s[j] ELSE s[j + 1]
<1> DEFINE S == Elements(s)
           front == SubSeq(s, 1, i - 1)
           back  == SubSeq(s, i + 1, Len(s))
<1>0. Len(s) \in Nat /\ \A j \in 1 .. Len(s) : s[j] \in S
  BY DEF IsList, Elements
<1>t. RemoveAt(s, i) = front \o back
  BY DEF RemoveAt
<1> HIDE DEF S
<1>1. /\ front \in Seq(S) /\ Len(front) = i - 1
      /\ \A j \in 1 .. i - 1 : front[j] = s[j]
  <2>1. /\ SubSeq(s, 1, i - 1) \in Seq(S)
        /\ Len(SubSeq(s, 1, i - 1)) = IF 1 <= i - 1 THEN i - 1 - 1 + 1 ELSE 0
        /\ \A j \in 1 .. i - 1 - 1 + 1 : SubSeq(s, 1, i - 1)[j] = s[1 + j - 1]
    <3>1. 1 \in Int /\ i - 1 \in Int /\ \A j \in 1 .. i - 1 : s[j] \in S
      BY <1>0
    <3> QED
      BY <3>1, SubSeqProperties
  <2> QED
    BY <1>0, <2>1
<1>2. /\ back \in Seq(S) /\ Len(back) = Len(s) - i
      /\ \A j \in 1 .. Len(s) - i : back[j] = s[i + j]
  <2>1. /\ SubSeq(s, i + 1, Len(s)) \in Seq(S)
        /\ Len(SubSeq(s, i + 1, Len(s))) = IF i + 1 <= Len(s) THEN Len(s) - (i + 1) + 1 ELSE 0
        /\ \A j \in 1 .. Len(s) - (i + 1) + 1 : SubSeq(s, i + 1, Len(s))[j] = s[i + 1 + j - 1]
    <3>1. i + 1 \in Int /\ Len(s) \in Int /\ \A j \in i + 1 .. Len(s) : s[j] \in S
      BY <1>0
    <3> QED
      BY <3>1, SubSeqProperties
  <2> QED
    BY <1>0, <2>1
<1> HIDE DEF front, back
<1>5. /\ front \o back \in Seq(S)
      /\ Len(front \o back) = Len(front) + Len(back)
      /\ \A j \in 1 .. Len(front) + Len(back) : (front \o back)[j] =
            IF j <= Len(front) THEN front[j] ELSE back[j - Len(front)]
  BY <1>1, <1>2, ConcatProperties
<1>6. Len(front) + Len(back) = Len(s) - 1
  BY <1>0, <1>1, <1>2
<1>7. \A j \in 1 .. Len(s) - 1 : (front \o back)[j] = IF j < i THEN s[j] ELSE s[j + 1]
  <2> TAKE j \in 1 .. Len(s) - 1
  <2>1. CASE j < i
    <3>1. j <= i - 1 /\ j \in 1 .. i - 1
      BY <1>0, <2>1
    <3> QED
      BY <1>1, <1>5, <1>6, <2>1, <3>1
  <2>2. CASE ~(j < i)
    <3>1. j - (i - 1) \in 1 .. Len(s) - i /\ i + (j - (i - 1)) = j + 1 /\ ~(j <= i - 1)
      BY <1>0, <2>2
    <3>2. back[j - (i - 1)] = s[j + 1]
      BY <1>2, <3>1
    <3> QED
      BY <1>1, <1>5, <1>6, <2>2, <3>1, <3>2
  <2> QED
    BY <2>1, <2>2
<1>8. IsList(front \o back)
  BY <1>5, SeqIsList
<1> QED
  BY <1>5, <1>6, <1>7, <1>8, <1>t

\* Identifiers are natural numbers: one that is sorted is at least its index.
LEMMA AtLeastIndex ==
    ASSUME NEW s, Sorted(s)
    PROVE  \A i \in 1 .. Len(s) : s[i].id >= i - 1
<1>0. /\ Len(s) \in Nat /\ \A j \in 1 .. Len(s) : s[j].id \in Nat
      /\ \A j, k \in 1 .. Len(s) : j < k => s[j].id < s[k].id
  BY SortedIds DEF Sorted
<1> DEFINE T == {i \in 1 .. Len(s) : s[i].id < i - 1}
<1>1. T = {}
  <2> SUFFICES ASSUME T # {} PROVE FALSE
    OBVIOUS
  <2>1. PICK m \in T : \A n \in T : m <= n
    <3>1. T \subseteq Nat
      BY <1>0
    <3> HIDE DEF T
    <3> QED
      BY <3>1, Least
  <2>2. m \in 1 .. Len(s) /\ s[m].id < m - 1 /\ s[m].id \in Nat
    BY <1>0, <2>1
  <2>3. m - 1 \in 1 .. Len(s) /\ m - 1 < m /\ m \in Nat
    BY <1>0, <2>2
  <2>4. s[m - 1].id < s[m].id /\ s[m - 1].id \in Nat
    BY <1>0, <2>2, <2>3
  <2>5. m - 1 \in T
    BY <2>2, <2>3, <2>4
  <2> QED
    BY <2>1, <2>3, <2>5
<1> QED
  BY <1>0, <1>1

\* store_object puts a new object at its place and replaces none.
LEMMA StoreObjectIs ==
    ASSUME NEW s, Sorted(s), NEW o, o.id \in Ids, ~Holds(s, o.id)
    PROVE  StoreObject(s, o) = InsertAt(s, StorageIndexOf(s, o.id) + 1, o)
<1> DEFINE index == StorageIndexOf(s, o.id)
           dst   == s[index + 1].id
<1>0. /\ Len(s) \in Nat /\ \A j \in 1 .. Len(s) : s[j].id \in Nat
  BY SortedIds
<1>n. o.id \in Nat
  BY RegistryAssumption
<1>1. /\ index \in 0 .. Len(s)
      /\ \A j \in 1 .. index : s[j].id < o.id
      /\ \A j \in index + 1 .. Len(s) : s[j].id >= o.id
      /\ \A j \in 1 .. Len(s) : s[j].id # o.id
  BY <1>n, Place
<1>2. StoreObject(s, o) = IF index < Len(s) /\ index = dst
                          THEN ReplaceAt(s, index + 1, o)
                          ELSE InsertAt(s, IF index < Len(s) /\ index > dst
                                           THEN index + 2 ELSE index + 1, o)
  BY DEF StoreObject
<1> HIDE DEF index
<1>3. index < Len(s) => index < dst
  <2> SUFFICES ASSUME index < Len(s) PROVE index < dst
    OBVIOUS
  <2>1. index + 1 \in 1 .. Len(s) /\ index + 1 \in index + 1 .. Len(s) /\ index \in Nat
    BY <1>0, <1>1
  <2>2. dst > o.id /\ dst \in Nat
    BY <1>0, <1>1, <1>n, <2>1
  <2>3. o.id >= index
    <3>1. CASE index = 0
      BY <1>n, <3>1
    <3>2. CASE index # 0
      <4>1. index \in 1 .. Len(s) /\ index \in 1 .. index
        BY <2>1, <1>0, <3>2
      <4>2. s[index].id >= index - 1 /\ s[index].id < o.id /\ s[index].id \in Nat
        BY <1>0, <1>1, <4>1, AtLeastIndex
      <4> QED
        BY <1>n, <2>1, <4>2
    <3> QED
      BY <3>1, <3>2
  <2> QED
    BY <1>n, <2>1, <2>2, <2>3
<1>4. index < Len(s) => ~(index = dst) /\ ~(index > dst)
  <2>1. index < Len(s) => index \in Nat /\ dst \in Nat
    <3>1. index < Len(s) => index + 1 \in 1 .. Len(s)
      BY <1>0, <1>1
    <3> QED
      BY <1>0, <1>1, <3>1
  <2> HIDE DEF dst
  <2> QED
    BY <1>3, <2>1
<1>5. StoreObject(s, o) = InsertAt(s, index + 1, o)
  <2> HIDE DEF dst
  <2>1. ~(index < Len(s) /\ index = dst) /\ ~(index < Len(s) /\ index > dst)
    BY <1>4
  <2> QED
    BY ONLY <1>2, <2>1
<1> QED
  BY <1>5 DEF index

LEMMA ElementsIn ==
    ASSUME NEW s, NEW i \in 1 .. Len(s)
    PROVE  s[i] \in Elements(s)
  BY DEF Elements

LEMMA Stored ==
    ASSUME NEW s, Sorted(s), NEW o, o.id \in Ids, ~Holds(s, o.id)
    PROVE  /\ Sorted(StoreObject(s, o))
           /\ Elements(StoreObject(s, o)) = Elements(s) \cup {o}
<1> DEFINE i == StorageIndexOf(s, o.id) + 1
           t == InsertAt(s, i, o)
<1>0. /\ IsList(s) /\ Len(s) \in Nat
      /\ \A j \in 1 .. Len(s) : s[j].id \in Nat /\ s[j].id \in Ids
      /\ \A j, k \in 1 .. Len(s) : j < k => s[j].id < s[k].id
  BY SortedIds DEF Sorted
<1>n. o.id \in Nat
  BY RegistryAssumption
<1>1. /\ i \in 1 .. Len(s) + 1
      /\ \A j \in 1 .. i - 1 : s[j].id < o.id
      /\ \A j \in i .. Len(s) : s[j].id > o.id
  <2> DEFINE index == StorageIndexOf(s, o.id)
  <2>1. /\ index \in 0 .. Len(s)
        /\ \A j \in 1 .. index : s[j].id < o.id
        /\ \A j \in index + 1 .. Len(s) : s[j].id >= o.id
        /\ \A j \in 1 .. Len(s) : s[j].id # o.id
    BY <1>n, Place
  <2>2. i = index + 1
    OBVIOUS
  <2> HIDE DEF index, i
  <2>3. i \in 1 .. Len(s) + 1 /\ i - 1 = index
    BY <1>0, <2>1, <2>2
  <2>4. \A j \in 1 .. i - 1 : s[j].id < o.id
    BY <2>1, <2>3
  <2>5. \A j \in i .. Len(s) : s[j].id > o.id
    <3> TAKE j \in i .. Len(s)
    <3>1. j \in 1 .. Len(s) /\ j \in index + 1 .. Len(s)
      BY <1>0, <2>2, <2>3
    <3> QED
      BY <1>0, <1>n, <2>1, <3>1
  <2> QED
    BY <2>3, <2>4, <2>5
<1> HIDE DEF i
<1>2. /\ IsList(t) /\ Len(t) = Len(s) + 1
      /\ \A j \in 1 .. Len(s) + 1 :
            t[j] = IF j < i THEN s[j] ELSE IF j = i THEN o ELSE s[j - 1]
  BY <1>0, <1>1, InsertAtIs
<1>3. StoreObject(s, o) = t
  BY StoreObjectIs DEF i
<1> HIDE DEF t
<1>4. \A j \in 1 .. Len(t) :
         \/ j < i /\ j \in 1 .. Len(s) /\ j \in 1 .. i - 1 /\ t[j] = s[j]
         \/ j = i /\ t[j] = o
         \/ j > i /\ j - 1 \in 1 .. Len(s) /\ j - 1 \in i .. Len(s) /\ t[j] = s[j - 1]
  BY <1>0, <1>1, <1>2
<1>5. \A j, k \in 1 .. Len(t) : j < k => t[j].id < t[k].id
  <2> SUFFICES ASSUME NEW j \in 1 .. Len(t), NEW k \in 1 .. Len(t), j < k
               PROVE  t[j].id < t[k].id
    OBVIOUS
  <2>0. j \in Int /\ k \in Int /\ i \in Int
    BY <1>1, <1>2, <1>0
  <2>1. CASE j < i /\ k < i
    <3>1. j \in 1 .. Len(s) /\ t[j] = s[j] /\ k \in 1 .. Len(s) /\ t[k] = s[k]
      BY <1>4, <2>0, <2>1
    <3> QED
      BY <1>0, <3>1
  <2>2. CASE j < i /\ k = i
    <3>1. j \in 1 .. i - 1 /\ t[j] = s[j] /\ t[k] = o
      BY <1>4, <2>0, <2>2
    <3> QED
      BY <1>1, <3>1
  <2>3. CASE j < i /\ k > i
    <3>1. j \in 1 .. Len(s) /\ t[j] = s[j] /\ k - 1 \in 1 .. Len(s) /\ t[k] = s[k - 1] /\ j < k - 1
      BY <1>4, <2>0, <2>3
    <3> QED
      BY <1>0, <3>1
  <2>4. CASE j = i /\ k > i
    <3>1. k - 1 \in 1 .. Len(s) /\ k - 1 \in i .. Len(s) /\ t[k] = s[k - 1] /\ t[j] = o
      BY <1>4, <2>0, <2>4
    <3>2. s[k - 1].id > o.id /\ s[k - 1].id \in Nat
      BY <1>0, <1>1, <3>1
    <3> QED
      BY <1>n, <3>1, <3>2
  <2>5. CASE j > i /\ k > i
    <3>1. j - 1 \in 1 .. Len(s) /\ t[j] = s[j - 1] /\ k - 1 \in 1 .. Len(s) /\ t[k] = s[k - 1]
          /\ j - 1 < k - 1
      BY <1>4, <2>0, <2>5
    <3> QED
      BY <1>0, <3>1
  <2> QED
    BY <2>0, <2>1, <2>2, <2>3, <2>4, <2>5
<1>6. \A j \in 1 .. Len(t) : t[j].id \in Ids
  BY <1>0, <1>4
<1>7. Elements(t) = Elements(s) \cup {o}
  <2>1. ASSUME NEW x \in Elements(t) PROVE x \in Elements(s) \cup {o}
    <3>1. PICK j \in 1 .. Len(t) : x = t[j]
      BY <2>1 DEF Elements
    <3> QED
      BY <1>4, <3>1, ElementsIn
  <2>2. ASSUME NEW x \in Elements(s) PROVE x \in Elements(t)
    <3>1. PICK j \in 1 .. Len(s) : x = s[j]
      BY <2>2 DEF Elements
    <3>2. CASE j < i
      <4>1. j \in 1 .. Len(t) /\ t[j] = s[j]
        BY <1>0, <1>2, <3>2
      <4> QED
        BY <3>1, <4>1, ElementsIn
    <3>3. CASE ~(j < i)
      <4>1. j + 1 \in 1 .. Len(t) /\ j + 1 \in 1 .. Len(s) + 1 /\ ~(j + 1 < i) /\ j + 1 # i
            /\ (j + 1) - 1 = j
        BY <1>0, <1>1, <1>2, <3>3
      <4>2. t[j + 1] = s[j]
        BY <1>2, <4>1
      <4>3. t[j + 1] \in Elements(t)
        BY <4>1, ElementsIn
      <4> QED
        BY <3>1, <4>2, <4>3
    <3> QED
      BY <3>2, <3>3
  <2>3. o \in Elements(t)
    <3>1. i \in 1 .. Len(t) /\ t[i] = o
      BY <1>0, <1>1, <1>2
    <3> QED
      BY <3>1, ElementsIn
  <2> QED
    BY <2>1, <2>2, <2>3
<1>8. Sorted(t)
  BY <1>2, <1>5, <1>6 DEF Sorted
<1> QED
  BY <1>3, <1>7, <1>8

\* remove_by_id takes the object with the identifier, if there is one, and no other.
LEMMA Removed ==
    ASSUME NEW s, Sorted(s), NEW id \in Ids
    PROVE  /\ Sorted(RemoveById(s, id))
           /\ Elements(RemoveById(s, id)) = {o \in Elements(s) : o.id # id}
           /\ RemoveById(s, id) # s <=> \E o \in Elements(s) : o.id = id
<1> DEFINE i == StorageIndexOf(s, id) + 1
           t == RemoveAt(s, i)
<1>0. /\ IsList(s) /\ Len(s) \in Nat
      /\ \A j \in 1 .. Len(s) : s[j].id \in Nat /\ s[j].id \in Ids
      /\ \A j, k \in 1 .. Len(s) : j < k => s[j].id < s[k].id
  BY SortedIds DEF Sorted
<1>n. id \in Nat
  BY RegistryAssumption
<1>1. /\ Holds(s, id) <=> \E j \in 1 .. Len(s) : s[j].id = id
      /\ Holds(s, id) => i \in 1 .. Len(s) /\ s[i].id = id
  BY <1>n, Place
<1>e. Holds(s, id) <=> \E o \in Elements(s) : o.id = id
  BY <1>1 DEF Elements
<1>2. RemoveById(s, id) = IF Holds(s, id) THEN t ELSE s
  BY DEF RemoveById
<1>3. CASE ~Holds(s, id)
  <2>1. RemoveById(s, id) = s
    BY <1>2, <1>3
  <2>2. Elements(s) = {o \in Elements(s) : o.id # id}
    BY <1>e, <1>3
  <2> QED
    BY <1>3, <1>e, <2>1, <2>2
<1>4. CASE Holds(s, id)
  <2>0. i \in 1 .. Len(s) /\ s[i].id = id
    BY <1>1, <1>4
  <2> HIDE DEF i
  <2>1. /\ IsList(t) /\ Len(t) = Len(s) - 1
        /\ \A j \in 1 .. Len(s) - 1 : t[j] = IF j < i THEN s[j] ELSE s[j + 1]
    BY <1>0, <2>0, RemoveAtIs
  <2>t. RemoveById(s, id) = t
    BY <1>2, <1>4
  <2> HIDE DEF t
  <2>2. \A j \in 1 .. Len(t) :
           \/ j < i /\ j \in 1 .. Len(s) /\ t[j] = s[j]
           \/ j >= i /\ j + 1 \in 1 .. Len(s) /\ t[j] = s[j + 1]
    BY <1>0, <2>0, <2>1
  <2>3. \A j, k \in 1 .. Len(t) : j < k => t[j].id < t[k].id
    <3> SUFFICES ASSUME NEW j \in 1 .. Len(t), NEW k \in 1 .. Len(t), j < k
                 PROVE  t[j].id < t[k].id
      OBVIOUS
    <3>0. j \in Int /\ k \in Int /\ i \in Int /\ Len(t) \in Int
      BY <1>0, <2>0, <2>1
    <3>1. CASE k < i
      <4>1. j \in 1 .. Len(s) /\ t[j] = s[j] /\ k \in 1 .. Len(s) /\ t[k] = s[k]
        BY <2>2, <3>0, <3>1
      <4> QED
        BY <1>0, <4>1
    <3>2. CASE j < i /\ k >= i
      <4>1. j \in 1 .. Len(s) /\ t[j] = s[j] /\ k + 1 \in 1 .. Len(s) /\ t[k] = s[k + 1]
            /\ j < k + 1
        BY <2>2, <3>0, <3>2
      <4> QED
        BY <1>0, <4>1
    <3>3. CASE j >= i
      <4>1. j + 1 \in 1 .. Len(s) /\ t[j] = s[j + 1] /\ k + 1 \in 1 .. Len(s) /\ t[k] = s[k + 1]
            /\ j + 1 < k + 1
        BY <2>2, <3>0, <3>3
      <4> QED
        BY <1>0, <4>1
    <3> QED
      BY <3>0, <3>1, <3>2, <3>3
  <2>4. \A j \in 1 .. Len(t) : t[j].id \in Ids
    BY <1>0, <2>2
  <2>5. Elements(t) = {o \in Elements(s) : o.id # id}
    <3>1. ASSUME NEW x \in Elements(t) PROVE x \in Elements(s) /\ x.id # id
      <4>1. PICK j \in 1 .. Len(t) : x = t[j]
        BY <3>1 DEF Elements
      <4>0. i \in Int /\ j \in Int
        BY <1>0, <2>0, <2>1
      <4>2. CASE j < i /\ j \in 1 .. Len(s) /\ t[j] = s[j]
        <5>1. s[j].id < s[i].id /\ s[j].id \in Nat
          BY <1>0, <2>0, <4>2
        <5> QED
          BY <1>n, <2>0, <4>1, <4>2, <5>1, ElementsIn
      <4>3. CASE j >= i /\ j + 1 \in 1 .. Len(s) /\ t[j] = s[j + 1]
        <5>0. i < j + 1
          BY <4>0, <4>3
        <5>1. s[i].id < s[j + 1].id /\ s[j + 1].id \in Nat
          BY <1>0, <2>0, <4>3, <5>0
        <5>2. s[j + 1] \in Elements(s)
          BY <4>3, ElementsIn
        <5> QED
          BY <1>n, <2>0, <4>1, <4>3, <5>1, <5>2
      <4> QED
        BY <2>2, <4>2, <4>3
    <3>2. ASSUME NEW x \in Elements(s), x.id # id PROVE x \in Elements(t)
      <4>1. PICK j \in 1 .. Len(s) : x = s[j]
        BY <3>2 DEF Elements
      <4>2. j # i /\ j \in Int /\ i \in Int
        BY <1>0, <2>0, <3>2, <4>1
      <4>3. CASE j < i
        <5>1. j \in 1 .. Len(t) /\ t[j] = s[j]
          BY <1>0, <2>0, <2>1, <4>3
        <5> QED
          BY <4>1, <5>1, ElementsIn
      <4>4. CASE j > i
        <5>1. j - 1 \in 1 .. Len(t) /\ j - 1 \in 1 .. Len(s) - 1 /\ ~(j - 1 < i)
              /\ (j - 1) + 1 = j
          BY <1>0, <2>0, <2>1, <4>4
        <5>2. t[j - 1] = s[j]
          BY <2>1, <5>1
        <5>3. t[j - 1] \in Elements(t)
          BY <5>1, ElementsIn
        <5> QED
          BY <4>1, <5>2, <5>3
      <4> QED
        BY <4>2, <4>3, <4>4
    <3> QED
      BY <3>1, <3>2
  <2>6. Sorted(t)
    BY <2>1, <2>3, <2>4 DEF Sorted
  <2>7. t # s
    BY <1>0, <2>1
  <2> QED
    BY <1>4, <1>e, <2>t, <2>5, <2>6, <2>7
<1> QED
  BY <1>3, <1>4

\* In a sorted storage an object is known by its identifier, and counted by it.
LEMMA OneEach ==
    ASSUME NEW s, Sorted(s)
    PROVE  /\ \A i, j \in 1 .. Len(s) : s[i].id = s[j].id => i = j
           /\ \A x, y \in Elements(s) : x.id = y.id => x = y
           /\ IsFiniteSet({o.id : o \in Elements(s)})
           /\ Cardinality({o.id : o \in Elements(s)}) = Len(s)
<1>0. /\ Len(s) \in Nat /\ \A j \in 1 .. Len(s) : s[j].id \in Nat
      /\ \A j, k \in 1 .. Len(s) : j < k => s[j].id < s[k].id
  BY SortedIds DEF Sorted
<1>1. \A i, j \in 1 .. Len(s) : s[i].id = s[j].id => i = j
  <2> SUFFICES ASSUME NEW i \in 1 .. Len(s), NEW j \in 1 .. Len(s), s[i].id = s[j].id, i # j
               PROVE  FALSE
    OBVIOUS
  <2>1. i < j \/ j < i
    BY <1>0
  <2>2. s[i].id < s[j].id \/ s[j].id < s[i].id
    BY <1>0, <2>1
  <2> QED
    BY <1>0, <2>2
<1>2. \A x, y \in Elements(s) : x.id = y.id => x = y
  BY <1>1 DEF Elements
<1> DEFINE A == {o.id : o \in Elements(s)}
           f == [i \in 1 .. Len(s) |-> s[i].id]
<1>3. f \in Bijection(1 .. Len(s), A)
  <2>1. f \in [1 .. Len(s) -> A]
    BY DEF Elements
  <2>2. \A i, j \in 1 .. Len(s) : f[i] = f[j] => i = j
    BY <1>1
  <2>3. \A a \in A : \E i \in 1 .. Len(s) : f[i] = a
    BY DEF Elements
  <2>4. DOMAIN f = 1 .. Len(s)
    OBVIOUS
  <2> HIDE DEF f, A
  <2>5. f \in Injection(1 .. Len(s), A)
    BY <2>1, <2>2, <2>4 DEF Injection, IsInjective
  <2>6. f \in Surjection(1 .. Len(s), A)
    BY <2>1, <2>3 DEF Surjection
  <2> QED
    BY <2>5, <2>6 DEF Bijection
<1>4. IsFiniteSet(1 .. Len(s)) /\ Cardinality(1 .. Len(s)) = Len(s)
  <2>1. /\ IsFiniteSet(1 .. Len(s))
        /\ Cardinality(1 .. Len(s)) = IF 1 > Len(s) THEN 0 ELSE Len(s) - 1 + 1
    BY <1>0, FS_Interval
  <2> QED
    BY <1>0, <2>1
<1>5. IsFiniteSet(A) /\ Cardinality(A) = Len(s)
  <2> HIDE DEF f, A
  <2>1. ExistsBijection(1 .. Len(s), A)
    BY <1>3 DEF ExistsBijection
  <2> QED
    BY <1>4, <2>1, FS_Bijection
<1> QED
  BY <1>1, <1>2, <1>5

-----------------------------------------------------------------------------
(* The inductive invariant *)

\* The identifiers of the objects of a kind that the registry did not refuse.
Kept(k) == {id \in DOMAIN announced : announced[id] # None /\ announced[id].kind = k}

Uids == {n.uid : n \in Elements(store["node"])}

RegInv ==
    /\ RegistryTypeOK
    /\ \A k \in Kinds : Sorted(store[k])
    /\ \A k \in Kinds : {o.id : o \in Elements(store[k])} = Kept(k)
    /\ \A n, m \in Elements(store["node"]) : n.uid = m.uid => n = m
    /\ \A n \in Elements(store["node"]) : IsList(n.uid)
    /\ \A p \in Elements(store["port"]) : IsList(p.name) /\ IsList(p.systemId)
    /\ synced => /\ filterNode \in Ids
                 /\ \E n \in Elements(store["node"]) : n.id = filterNode /\ n.uid = clientName

LEMMA ListRange ==
    ASSUME NEW s, IsList(s)
    PROVE  DOMAIN s = 1 .. Len(s) /\ Range(s) = Elements(s)
<1>1. DOMAIN s = 1 .. Len(s)
  BY DEF IsList
<1> QED
  BY <1>1 DEF Range, Elements

-----------------------------------------------------------------------------
(* Lookups by name *)

\* A search by unique name finds a node of that name if there is one.
LEMMA UidLookup ==
    ASSUME IsList(store["node"]), NEW uid
    PROVE  /\ \A n \in FindNodeByUid(uid) : n \in Elements(store["node"]) /\ n.uid = uid
           /\ uid \in Uids => FindNodeByUid(uid) # {}
<1> DEFINE s == store["node"]
           T == {i \in 1 .. Len(s) : s[i].uid = uid}
<1>0. Len(s) \in Nat /\ DOMAIN s = 1 .. Len(s)
  BY ListRange DEF IsList
<1>1. FindNodeByUid(uid) =
         {s[i] : i \in {j \in 1 .. Len(s) : s[j].uid = uid /\ \A k \in 1 .. j - 1 : s[k].uid # uid}}
  <2> DEFINE matches == {n \in Range(s) : n.uid = uid}
  <2>1. \A j \in 1 .. Len(s) : s[j] \in matches <=> s[j].uid = uid
    BY ListRange, ElementsIn
  <2>2. FindNodeByUid(uid) =
           {s[i] : i \in {j \in 1 .. Len(s) :
                             s[j] \in matches /\ \A k \in 1 .. j - 1 : s[k] \notin matches}}
    BY <1>0 DEF FindNodeByUid, FirstOf
  <2>3. \A j \in 1 .. Len(s) : \A k \in 1 .. j - 1 : k \in 1 .. Len(s)
    BY <1>0
  <2> HIDE DEF matches, s
  <2> QED
    BY <2>1, <2>2, <2>3
<1> HIDE DEF s
<1>2. \A n \in FindNodeByUid(uid) : n \in Elements(s) /\ n.uid = uid
  BY <1>1, ElementsIn
<1>3. ASSUME uid \in Uids PROVE FindNodeByUid(uid) # {}
  <2>1. PICK n \in Elements(s) : n.uid = uid
    BY <1>3 DEF Uids, s
  <2>2. T # {} /\ T \subseteq Nat
    BY <1>0, <2>1 DEF Elements
  <2>3. PICK m \in T : \A i \in T : m <= i
    <3> HIDE DEF T
    <3> QED
      BY <2>2, Least
  <2>4. m \in 1 .. Len(s) /\ s[m].uid = uid
    BY <2>3
  <2>5. \A k \in 1 .. m - 1 : s[k].uid # uid
    <3> SUFFICES ASSUME NEW k \in 1 .. m - 1, s[k].uid = uid PROVE FALSE
      OBVIOUS
    <3>1. k \in 1 .. Len(s) /\ ~(m <= k)
      BY <1>0, <2>4
    <3> QED
      BY <2>3, <3>1
  <2> QED
    BY <1>1, <2>4, <2>5
<1> QED
  BY <1>2, <1>3 DEF s

LEMMA FreeIs ==
    ASSUME IsList(store["node"]), NEW uid
    PROVE  IsFree(uid) <=> uid \notin Uids
<1>1. uid \notin Uids => FindNodeByUid(uid) = {}
  BY UidLookup DEF Uids
<1> QED
  BY <1>1, UidLookup DEF IsFree

\* Names with different indices are different names.
LEMMA IndexedNames ==
    ASSUME NEW prefix, IsList(prefix), NEW id, NEW i, NEW j,
           prefix \o <<id, i>> = prefix \o <<id, j>>
    PROVE  i = j
<1> DEFINE S == Elements(prefix) \cup {id, i, j}
<1>1. prefix \in Seq(S) /\ <<id, i>> \in Seq(S) /\ <<id, j>> \in Seq(S)
  <2>1. \A k \in 1 .. Len(prefix) : prefix[k] \in S
    BY ElementsIn
  <2>2. id \in S /\ i \in S /\ j \in S
    OBVIOUS
  <2> HIDE DEF S
  <2>3. prefix \in Seq(S)
    BY <2>1, ListIsSeq
  <2> QED
    BY <2>2, <2>3
<1> HIDE DEF S
<1> DEFINE last == Len(prefix) + 2
<1>2. /\ Len(prefix) \in Nat /\ last - Len(prefix) = 2 /\ ~(last <= Len(prefix))
      /\ last \in 1 .. Len(prefix) + 2
  BY DEF IsList
<1> HIDE DEF last
<1>3. \A k : <<id, k>> \in Seq(S) => (prefix \o <<id, k>>)[last] = k
  <2> SUFFICES ASSUME NEW k, <<id, k>> \in Seq(S)
               PROVE  (prefix \o <<id, k>>)[last] = k
    OBVIOUS
  <2>1. Len(<<id, k>>) = 2 /\ <<id, k>>[2] = k
    OBVIOUS
  <2>2. \A n \in 1 .. Len(prefix) + Len(<<id, k>>) : (prefix \o <<id, k>>)[n] =
           IF n <= Len(prefix) THEN prefix[n] ELSE <<id, k>>[n - Len(prefix)]
    BY <1>1, ConcatProperties
  <2> QED
    BY <1>2, <2>1, <2>2
<1> QED
  BY <1>1, <1>3

\* One of Len(store["node"]) + 1 names is not taken.
LEMMA SomeFree ==
    ASSUME IsList(store["node"]), NEW prefix, IsList(prefix), NEW id
    PROVE  \E i \in 0 .. Len(store["node"]) : IsFree(Indexed(prefix, id, i))
<1> DEFINE s == store["node"]
           S == 0 .. Len(s)
           T == 1 .. Len(s)
           name(i) == Indexed(prefix, id, i)
<1> SUFFICES ASSUME \A i \in S : ~IsFree(name(i)) PROVE FALSE
  OBVIOUS
<1>0. Len(s) \in Nat
  BY DEF IsList
<1>1. \A i \in S : \E n \in T : s[n].uid = name(i)
  BY FreeIs DEF Uids, Elements
<1> DEFINE f == [i \in S |-> CHOOSE n \in T : s[n].uid = name(i)]
<1>2. f \in [S -> T] /\ \A i \in S : s[f[i]].uid = name(i)
  <2> HIDE DEF name, s, S, T
  <2> QED
    BY <1>1
<1>3. IsFiniteSet(S) /\ IsFiniteSet(T) /\ Cardinality(T) < Cardinality(S)
  <2> HIDE DEF s
  <2>1. IsFiniteSet(S) /\ Cardinality(S) = IF 0 > Len(s) THEN 0 ELSE Len(s) - 0 + 1
    BY <1>0, FS_Interval
  <2>2. IsFiniteSet(T) /\ Cardinality(T) = IF 1 > Len(s) THEN 0 ELSE Len(s) - 1 + 1
    BY <1>0, FS_Interval
  <2> HIDE DEF S, T
  <2> QED
    BY <1>0, <2>1, <2>2
<1> HIDE DEF f, S, T, s
<1>4. PICK i \in S, j \in S : i # j /\ f[i] = f[j]
  BY <1>2, <1>3, FS_PigeonHole
<1>5. name(i) = name(j)
  <2> HIDE DEF name
  <2> QED
    BY <1>2, <1>4
<1> QED
  BY <1>4, <1>5, IndexedNames DEF Indexed

\* make_unique_id returns a name that no node bears.
LEMMA UniqueIdFree ==
    ASSUME IsList(store["node"]), NEW prefix, IsList(prefix), NEW id
    PROVE  IsFree(MakeUniqueId(prefix, id))
<1> DEFINE name(i) == Indexed(prefix, id, i)
           free == {i \in 0 .. Len(store["node"]) : IsFree(name(i))}
<1>0. Len(store["node"]) \in Nat
  BY DEF IsList
<1>1. free # {} /\ free \subseteq Nat
  <2>1. PICK i \in 0 .. Len(store["node"]) : IsFree(Indexed(prefix, id, i))
    BY SomeFree
  <2>2. i \in free
    BY <2>1
  <2>3. free \subseteq Nat
    BY <1>0
  <2> QED
    BY <2>2, <2>3
<1>2. PICK m \in free : \A i \in free : m <= i
  <2> HIDE DEF free
  <2> QED
    BY <1>1, Least
<1>3. m \in 0 .. Len(store["node"]) /\ IsFree(name(m))
      /\ \A j \in 0 .. m - 1 : ~IsFree(name(j))
  <2> HIDE DEF name
  <2>1. m \in 0 .. Len(store["node"]) /\ IsFree(name(m))
    BY <1>2
  <2>2. \A j \in 0 .. m - 1 : j \in 0 .. Len(store["node"]) /\ ~(m <= j)
    BY <1>0, <2>1
  <2> QED
    BY <1>2, <2>1, <2>2
<1> DEFINE first == CHOOSE i \in 0 .. Len(store["node"]) :
                       IsFree(name(i)) /\ \A j \in 0 .. i - 1 : ~IsFree(name(j))
<1>4. IsFree(name(first))
  <2> HIDE DEF name
  <2> QED
    BY <1>3
<1>5. MakeUniqueId(prefix, id) =
         IF IsFree(prefix) THEN prefix
         ELSE IF IsFree(Append(prefix, id)) THEN Append(prefix, id)
         ELSE name(first)
  BY DEF MakeUniqueId, FirstFree
<1> HIDE DEF name, first
<1> QED
  BY <1>4, <1>5

\* A sequence with something appended is a sequence.
LEMMA Longer ==
    ASSUME NEW prefix, IsList(prefix), NEW a, NEW b
    PROVE  IsList(Append(prefix, a)) /\ IsList(prefix \o <<a, b>>)
<1> DEFINE S == Elements(prefix) \cup {a, b}
<1>1. prefix \in Seq(S) /\ a \in S /\ <<a, b>> \in Seq(S)
  <2>1. \A k \in 1 .. Len(prefix) : prefix[k] \in S
    BY ElementsIn
  <2>2. a \in S /\ b \in S
    OBVIOUS
  <2> HIDE DEF S
  <2> QED
    BY <2>1, <2>2, ListIsSeq
<1> HIDE DEF S
<1>2. Append(prefix, a) \in Seq(S) /\ prefix \o <<a, b>> \in Seq(S)
  BY <1>1, ConcatProperties
<1> QED
  BY <1>2, SeqIsList

\* So make_unique_id makes a name of a name.
LEMMA UniqueIdIsList ==
    ASSUME NEW prefix, IsList(prefix), NEW id
    PROVE  IsList(MakeUniqueId(prefix, id))
<1>1. \A i : IsList(Indexed(prefix, id, i))
  BY Longer DEF Indexed
<1> QED
  BY <1>1, Longer DEF MakeUniqueId

\* find_port takes a full name apart as make_port_full_id put it together.
LEMMA FullIdParts ==
    ASSUME NEW client, IsList(client), NEW id, IsList(id), NoColon(id)
    PROVE  /\ Separator(FullId(client, id)) = {Len(client) + 1}
           /\ NodePart(FullId(client, id), Len(client) + 1) = client
           /\ PortPart(FullId(client, id), Len(client) + 1) = id
<1> DEFINE S == Elements(client) \cup Elements(id) \cup {Colon}
           full == FullId(client, id)
           c == Len(client)
           d == Len(id)
<1>1. client \in Seq(S) /\ id \in Seq(S) /\ <<Colon>> \in Seq(S)
  <2>1. \A k \in 1 .. Len(client) : client[k] \in S
    BY ElementsIn
  <2>2. \A k \in 1 .. Len(id) : id[k] \in S
    BY ElementsIn
  <2>3. Colon \in S
    OBVIOUS
  <2> HIDE DEF S
  <2> QED
    BY <2>1, <2>2, <2>3, ListIsSeq
<1>2. c \in Nat /\ d \in Nat /\ DOMAIN id = 1 .. d
  BY DEF IsList
<1> HIDE DEF S, c, d
<1>3. /\ full \in Seq(S) /\ Len(full) = c + 1 + d
      /\ \A i \in 1 .. c + 1 + d :
            full[i] = IF i <= c THEN client[i] ELSE IF i = c + 1 THEN Colon ELSE id[i - (c + 1)]
  <2> DEFINE head == client \o <<Colon>>
  <2>1. Len(<<Colon>>) = 1 /\ <<Colon>>[1] = Colon
    OBVIOUS
  <2>2. /\ head \in Seq(S) /\ Len(head) = c + 1
        /\ \A i \in 1 .. c + 1 : head[i] = IF i <= c THEN client[i] ELSE <<Colon>>[i - c]
    BY <1>1, <2>1, ConcatProperties DEF c
  <2>3. \A i \in 1 .. c + 1 : ~(i <= c) => i - c = 1 /\ i = c + 1
    BY <1>2
  <2>4. \A i \in 1 .. c + 1 : head[i] = IF i <= c THEN client[i] ELSE Colon
    BY <2>1, <2>2, <2>3
  <2> HIDE DEF head
  <2>5. /\ head \o id \in Seq(S) /\ Len(head \o id) = c + 1 + d
        /\ \A i \in 1 .. c + 1 + d : (head \o id)[i] = IF i <= c + 1 THEN head[i] ELSE id[i - (c + 1)]
    <3>1. head \in Seq(S) /\ id \in Seq(S) /\ Len(id) = d /\ Len(head) = c + 1
      BY <1>1, <2>2 DEF d
    <3> QED
      BY <3>1, ConcatProperties
  <2>6. full = head \o id
    BY DEF FullId, head
  <2> HIDE DEF full
  <2> QED
    BY <1>2, <2>4, <2>5, <2>6
<1> HIDE DEF full
<1>4. /\ DOMAIN full = 1 .. c + 1 + d
      /\ \A i \in 1 .. c : full[i] = client[i]
      /\ full[c + 1] = Colon
      /\ \A i \in 1 .. d : full[c + 1 + i] = id[i]
  <2>1. c + 1 \in 1 .. c + 1 + d /\ ~(c + 1 <= c)
    BY <1>2
  <2>2. \A i \in 1 .. c : i \in 1 .. c + 1 + d /\ i <= c
    BY <1>2
  <2>3. \A i \in 1 .. d : /\ c + 1 + i \in 1 .. c + 1 + d /\ c + 1 + i - (c + 1) = i
                           /\ ~(c + 1 + i <= c) /\ c + 1 + i # c + 1
    BY <1>2
  <2> QED
    BY <1>3, <2>1, <2>2, <2>3
<1>5. Separator(full) = {c + 1}
  <2>1. \A k \in c + 2 .. c + 1 + d : full[k] # Colon
    <3> SUFFICES ASSUME NEW k \in c + 2 .. c + 1 + d PROVE full[k] # Colon
      OBVIOUS
    <3>1. k - (c + 1) \in 1 .. d /\ c + 1 + (k - (c + 1)) = k
      BY <1>2
    <3>2. full[k] = id[k - (c + 1)]
      BY <1>4, <3>1
    <3> QED
      BY <1>2, <3>1, <3>2 DEF NoColon
  <2>2. /\ c + 1 \in DOMAIN full /\ c + 1 + 1 = c + 2
        /\ \A k \in DOMAIN full : k = c + 1 \/ k \in c + 2 .. c + 1 + d \/ c + 1 \in k + 1 .. c + 1 + d
    BY <1>2, <1>4
  <2> QED
    BY <1>3, <1>4, <2>1, <2>2 DEF Separator
<1>6. NodePart(full, c + 1) = client
  <2>1. c + 1 - 1 = c /\ c \in Int
    BY <1>2
  <2>2. \A i \in 1 .. c : full[i] \in S
    BY <1>1, <1>4 DEF c
  <2>3. /\ SubSeq(full, 1, c) \in Seq(S)
        /\ Len(SubSeq(full, 1, c)) = IF 1 <= c THEN c - 1 + 1 ELSE 0
        /\ \A i \in 1 .. c - 1 + 1 : SubSeq(full, 1, c)[i] = full[1 + i - 1]
    BY <2>1, <2>2, SubSeqProperties
  <2>4. Len(SubSeq(full, 1, c)) = Len(client)
    BY <1>2, <2>3 DEF c
  <2>5. \A i \in 1 .. c : SubSeq(full, 1, c)[i] = client[i]
    <3>1. \A i \in 1 .. c : i \in 1 .. c - 1 + 1 /\ 1 + i - 1 = i
      BY <1>2
    <3> QED
      BY <1>4, <2>3, <3>1
  <2>6. SubSeq(full, 1, c) = client
    BY <1>1, <2>3, <2>4, <2>5, SeqEqual DEF c
  <2> QED
    BY <2>1, <2>6 DEF NodePart
<1>7. PortPart(full, c + 1) = id
  <2> DEFINE m == c + 1 + 1
             n == c + 1 + d
  <2>1. m \in Int /\ n \in Int /\ n - m + 1 = d /\ (m <= n <=> 1 <= d)
    BY <1>2
  <2>2. \A i \in 1 .. d : m + i - 1 = c + 1 + i
    BY <1>2
  <2>3. \A i \in m .. n : full[i] \in S
    <3> SUFFICES ASSUME NEW i \in m .. n PROVE full[i] \in S
      OBVIOUS
    <3>1. i - (c + 1) \in 1 .. d /\ c + 1 + (i - (c + 1)) = i
      BY <1>2
    <3>2. full[i] = id[i - (c + 1)]
      BY <1>4, <3>1
    <3> QED
      BY <1>1, <3>1, <3>2 DEF d
  <2> HIDE DEF m, n
  <2>4. /\ SubSeq(full, m, n) \in Seq(S)
        /\ Len(SubSeq(full, m, n)) = IF m <= n THEN n - m + 1 ELSE 0
        /\ \A i \in 1 .. n - m + 1 : SubSeq(full, m, n)[i] = full[m + i - 1]
    BY <2>1, <2>3, SubSeqProperties
  <2>5. Len(SubSeq(full, m, n)) = Len(id)
    BY <1>2, <2>1, <2>4 DEF d
  <2>6. \A i \in 1 .. d : SubSeq(full, m, n)[i] = id[i]
    BY <1>4, <2>1, <2>2, <2>4
  <2>7. SubSeq(full, m, n) = id
    BY <1>1, <2>4, <2>5, <2>6, SeqEqual DEF d
  <2> QED
    BY <1>3, <2>7 DEF PortPart, m, n
<1> QED
  BY <1>5, <1>6, <1>7 DEF full, c

\* The lookup of connect_ports.
LEMMA PortSearch ==
    ASSUME NEW client, IsList(client), NEW id, IsList(id), NoColon(id), NEW direction
    PROVE  FindPort(FullId(client, id), direction) =
              UNION {FindNodePort(n.id, id, direction) :
                        n \in FindNodeByString(Lookup(client, direction))}
<1> DEFINE full == FullId(client, id)
           found(sep) == UNION {FindNodePort(n.id, PortPart(full, sep), direction) :
                                   n \in FindNodeByString(Lookup(NodePart(full, sep), direction))}
<1>1. /\ Separator(full) = {Len(client) + 1}
      /\ NodePart(full, Len(client) + 1) = client
      /\ PortPart(full, Len(client) + 1) = id
  BY FullIdParts
<1>2. FindPort(full, direction) = UNION {found(sep) : sep \in Separator(full)}
  BY DEF FindPort
<1>3. found(Len(client) + 1) = UNION {FindNodePort(n.id, id, direction) :
                                         n \in FindNodeByString(Lookup(client, direction))}
  BY <1>1
<1> HIDE DEF found
<1>4. UNION {found(sep) : sep \in Separator(full)} = found(Len(client) + 1)
  BY <1>1
<1> QED
  BY <1>2, <1>3, <1>4

\* What a search by a string finds bears it as one of its three names.
LEMMA StringLookup ==
    ASSUME IsList(store["node"]), NEW string
    PROVE  \A n \in FindNodeByString(string) :
              n \in Elements(store["node"]) /\ string \in {n.uid, n.name, n.nick}
<1>0. DOMAIN store["node"] = 1 .. Len(store["node"])
  BY ListRange
<1>1. \A n \in FindNodeByUid(string) : n \in Elements(store["node"]) /\ n.uid = string
  BY UidLookup
<1>2. \A n \in FindNodeByName(string) : n \in Elements(store["node"]) /\ n.name = string
  BY <1>0, ElementsIn DEF FindNodeByName, FirstOf
<1>3. \A n \in FindNodeByNick(string) : n \in Elements(store["node"]) /\ n.nick = string
  BY <1>0, ElementsIn DEF FindNodeByNick, FirstOf
<1> QED
  BY <1>1, <1>2, <1>3 DEF FindNodeByString, OrElse

OfNode(p, node, direction) == p.node = node /\ p.direction = direction

\* What a search among the ports of a node finds, and that it prefers a port of the name.
LEMMA PortLookup ==
    ASSUME IsList(store["port"]), NEW node, NEW name, NEW direction
    PROVE  /\ \A f \in FindNodePort(node, name, direction) :
                 /\ f \in Elements(store["port"])
                 /\ OfNode(f, node, direction) /\ name \in {f.name, f.systemId}
           /\ \A p \in Elements(store["port"]) :
                 OfNode(p, node, direction) /\ p.name = name
                    => /\ FindNodePort(node, name, direction) # {}
                       /\ \A f \in FindNodePort(node, name, direction) : f.name = name
<1> DEFINE s == store["port"]
           Match(p)  == OfNode(p, node, direction) /\ p.name = name
           Match2(p) == OfNode(p, node, direction) /\ p.systemId = name
           MA == {p \in PortsOf(node, direction) : p.name = name}
           MB == {p \in PortsOf(node, direction) : p.systemId = name}
           A == {s[i] : i \in {j \in 1 .. Len(s) : s[j] \in MA /\ \A k \in 1 .. j - 1 : s[k] \notin MA}}
           B == {s[i] : i \in {j \in 1 .. Len(s) : s[j] \in MB /\ \A k \in 1 .. j - 1 : s[k] \notin MB}}
           T == {i \in 1 .. Len(s) : Match(s[i])}
<1>0. Len(s) \in Nat /\ DOMAIN s = 1 .. Len(s)
  BY ListRange DEF IsList
<1>1. FindNodePort(node, name, direction) = IF A # {} THEN A ELSE B
  BY <1>0 DEF FindNodePort, FirstOf, OrElse
<1>m. \A p : Match(p) <=> OfNode(p, node, direction) /\ p.name = name
  OBVIOUS
<1>n. \A p : Match2(p) <=> OfNode(p, node, direction) /\ p.systemId = name
  OBVIOUS
<1>r. Range(s) = Elements(s)
  BY ListRange
<1>a. \A p : p \in MA <=> p \in Elements(s) /\ Match(p)
  BY <1>r DEF PortsOf, OfNode
<1>b. \A p : p \in MB <=> p \in Elements(s) /\ Match2(p)
  BY <1>r DEF PortsOf, OfNode
<1> HIDE DEF s, Match, Match2, MA, MB
<1>2. \A f \in A : f \in Elements(s) /\ Match(f)
  BY <1>a
<1>3. \A f \in B : f \in Elements(s) /\ Match2(f)
  BY <1>b
<1>4. ASSUME NEW p \in Elements(s), Match(p) PROVE A # {}
  <2>2. T # {} /\ T \subseteq Nat
    BY <1>0, <1>4 DEF Elements
  <2>3. PICK m \in T : \A i \in T : m <= i
    <3> HIDE DEF T
    <3> QED
      BY <2>2, Least
  <2>4. m \in 1 .. Len(s) /\ Match(s[m])
    BY <2>3
  <2>6. s[m] \in MA
    BY <1>a, <2>4, ElementsIn
  <2>5. \A k \in 1 .. m - 1 : s[k] \notin MA
    <3> SUFFICES ASSUME NEW k \in 1 .. m - 1, s[k] \in MA PROVE FALSE
      OBVIOUS
    <3>1. k \in 1 .. Len(s) /\ ~(m <= k)
      BY <1>0, <2>4
    <3> QED
      BY <1>a, <2>3, <3>1
  <2> QED
    BY <2>4, <2>5, <2>6
<1> HIDE DEF A, B
<1>5. \A f \in FindNodePort(node, name, direction) :
         f \in Elements(s) /\ (Match(f) \/ Match2(f))
  BY <1>1, <1>2, <1>3
<1>6. ASSUME NEW p \in Elements(s), Match(p)
      PROVE  /\ FindNodePort(node, name, direction) # {}
             /\ \A f \in FindNodePort(node, name, direction) : Match(f)
  BY <1>1, <1>2, <1>4, <1>6
<1> QED
  BY <1>5, <1>6, <1>m, <1>n DEF s

\* The unique name of a node leads to it.
LEMMA UidLeadsHome ==
    ASSUME RegInv, NEW n \in Elements(store["node"])
    PROVE  FindNodeByString(n.uid) = {n}
<1>1. IsList(store["node"])
  BY DEF RegInv, Kinds, Sorted
<1>2. n.uid \in Uids
  BY DEF Uids
<1>3. /\ \A m \in FindNodeByUid(n.uid) : m \in Elements(store["node"]) /\ m.uid = n.uid
      /\ FindNodeByUid(n.uid) # {}
  BY <1>1, <1>2, UidLookup
<1>4. FindNodeByUid(n.uid) = {n}
  BY <1>3 DEF RegInv
<1> QED
  BY <1>4 DEF FindNodeByString, OrElse

-----------------------------------------------------------------------------
(* What follows from the invariant *)

LEMMA Lists ==
    ASSUME RegInv, NEW k \in Kinds
    PROVE  /\ Sorted(store[k]) /\ IsList(store[k])
           /\ Range(store[k]) = Elements(store[k])
           /\ {o.id : o \in Elements(store[k])} = Kept(k)
<1>1. Sorted(store[k]) /\ IsList(store[k])
  BY DEF RegInv, Sorted
<1> QED
  BY <1>1, ListRange DEF RegInv

LEMMA InvMirrors ==
    ASSUME RegInv
    PROVE  MirrorsServer
<1>1. ASSUME NEW k \in Kinds
      PROVE  /\ {o.id : o \in Range(store[k])} = Kept(k)
             /\ Len(store[k]) = Cardinality(Kept(k))
             /\ \A id \in Kept(k) : Holds(store[k], id)
  <2>1. /\ Sorted(store[k]) /\ Range(store[k]) = Elements(store[k])
        /\ {o.id : o \in Elements(store[k])} = Kept(k)
    BY <1>1, Lists
  <2>2. Len(store[k]) = Cardinality(Kept(k))
    BY <2>1, OneEach
  <2>3. ASSUME NEW id \in Kept(k) PROVE Holds(store[k], id)
    <3>1. PICK j \in 1 .. Len(store[k]) : store[k][j].id = id
      BY <2>1, <2>3 DEF Elements
    <3>2. id \in Nat
      BY <2>1, <3>1, SortedIds
    <3> QED
      BY <2>1, <3>1, <3>2, Place
  <2> QED
    BY <2>1, <2>2, <2>3
<1> QED
  BY <1>1 DEF MirrorsServer, Kept

LEMMA InvUids ==
    ASSUME RegInv
    PROVE  UidNamesItsNode
<1>1. Range(store["node"]) = Elements(store["node"])
  BY Lists DEF Kinds
<1> QED
  BY <1>1, UidLeadsHome DEF UidNamesItsNode

LEMMA InvSynced ==
    ASSUME RegInv
    PROVE  SyncedNameIsOwn
<1> SUFFICES ASSUME synced, clientName # System,
                    NEW p \in Range(store["port"]), p.node = filterNode, NoColon(p.name)
             PROVE  LET alike == {q \in PortsOf(p.node, p.direction) : q.name = p.name}
                        found == FindPort(FullId(clientName, p.name), p.direction)
                    IN  found # {} /\ found \subseteq alike
  BY DEF SyncedNameIsOwn
<1> DEFINE found == FindPort(FullId(clientName, p.name), p.direction)
<1>1. PICK n \in Elements(store["node"]) : n.id = filterNode /\ n.uid = clientName
  BY DEF RegInv
<1>2. FindNodeByString(clientName) = {n}
  BY <1>1, UidLeadsHome
<1>3. Lookup(clientName, p.direction) = clientName
  BY DEF Lookup
<1>4. /\ p \in Elements(store["port"]) /\ IsList(store["port"])
      /\ Range(store["port"]) = Elements(store["port"])
  BY Lists DEF Kinds
<1>5. IsList(clientName) /\ IsList(p.name)
  BY <1>1, <1>4 DEF RegInv
<1>6. found = FindNodePort(filterNode, p.name, p.direction)
  <2>1. found = UNION {FindNodePort(m.id, p.name, p.direction) : m \in {n}}
    BY <1>2, <1>3, <1>5, PortSearch
  <2> QED
    BY <1>1, <2>1
<1>7. OfNode(p, filterNode, p.direction)
  BY DEF OfNode
<1>8. /\ found # {}
      /\ \A f \in found : /\ f \in Elements(store["port"]) /\ f.name = p.name
                            /\ OfNode(f, filterNode, p.direction)
  BY <1>4, <1>6, <1>7, PortLookup
<1> HIDE DEF found
<1>9. \A f \in found : f \in PortsOf(p.node, p.direction) /\ f.name = p.name
  BY <1>4, <1>8 DEF OfNode, PortsOf
<1> QED
  BY <1>8, <1>9 DEF found

LEMMA InvFound ==
    ASSUME RegInv
    PROVE  FoundPortIsThere
<1>1. ASSUME NEW n, IsList(n), NEW direction, NEW name, IsList(name), NoColon(name),
             NEW f \in FindPort(FullId(n, name), direction)
      PROVE  /\ f.direction = direction
             /\ name \in {f.name, f.systemId}
             /\ \E c \in Range(store["node"]) :
                   c.id = f.node /\ Lookup(n, direction) \in {c.uid, c.name, c.nick}
  <2>1. PICK c \in FindNodeByString(Lookup(n, direction)) : f \in FindNodePort(c.id, name, direction)
    BY <1>1, PortSearch
  <2>2. IsList(store["node"]) /\ IsList(store["port"])
        /\ Range(store["node"]) = Elements(store["node"])
    BY Lists DEF Kinds
  <2>3. c \in Range(store["node"]) /\ Lookup(n, direction) \in {c.uid, c.name, c.nick}
    BY <2>1, <2>2, StringLookup
  <2>4. OfNode(f, c.id, direction) /\ name \in {f.name, f.systemId}
    BY <2>1, <2>2, PortLookup
  <2> QED
    BY <2>3, <2>4 DEF OfNode
<1>2. /\ Range(store["node"]) = Elements(store["node"])
      /\ Range(store["port"]) = Elements(store["port"])
  BY Lists DEF Kinds
<1>3. \A n \in {c.uid : c \in Range(store["node"])} \cup Devices \cup {Client, System} : IsList(n)
  BY <1>2, RegistryAssumption DEF RegInv
<1>4. \A q \in Range(store["port"]) : IsList(q.name) /\ IsList(q.systemId)
  BY <1>2 DEF RegInv
<1>5. ASSUME NEW n \in {c.uid : c \in Range(store["node"])} \cup Devices \cup {Client, System},
             NEW q \in Range(store["port"]), NEW direction \in {"in", "out"},
             NEW name \in {m \in {q.name, q.systemId} : NoColon(m)},
             NEW f \in FindPort(FullId(n, name), direction)
      PROVE  /\ f.direction = direction
             /\ name \in {f.name, f.systemId}
             /\ \E c \in Range(store["node"]) :
                   c.id = f.node /\ Lookup(n, direction) \in {c.uid, c.name, c.nick}
  <2>1. IsList(n) /\ IsList(name) /\ NoColon(name)
    BY <1>3, <1>4, <1>5
  <2> QED
    BY <1>1, <1>5, <2>1
<1> QED
  BY <1>5 DEF FoundPortIsThere, Lookup

-----------------------------------------------------------------------------
(* The steps *)

LEMMA KindsOfOffers ==
    ASSUME NEW p \in Offers \cup OwnOffers
    PROVE  p # None /\ p.kind \in Kinds /\ (p.kind = "node" => IsList(Seed(p)))
<1>1. p # None /\ p.kind \in Kinds
  BY RegistryAssumption
<1>2. ASSUME p.kind = "node" PROVE IsList(Seed(p))
  <2>1. /\ IsList(p.name)
        /\ p.nick = None \/ IsList(p.nick)
        /\ p.desc = None \/ IsList(p.desc)
        /\ p.app = None \/ IsList(p.app)
    BY <1>2, RegistryAssumption
  <2>2. Nick(p) = None \/ IsList(Nick(p))
    BY <2>1 DEF Nick, Given
  <2>3. Desc(p) = None \/ IsList(Desc(p))
    BY <2>1 DEF Desc, Given
  <2> QED
    BY <2>1, <2>2, <2>3 DEF Seed, Given
<1> QED
  BY <1>1, <1>2

LEMMA ObjectId ==
    ASSUME NEW id, NEW p
    PROVE  Object(id, p).id = id
  BY DEF Object

LEMMA ObjectNames ==
    ASSUME NEW id, NEW p \in Offers \cup OwnOffers
    PROVE  /\ p.kind = "node" => IsList(Object(id, p).uid)
           /\ p.kind = "port" => IsList(Object(id, p).name) /\ IsList(Object(id, p).systemId)
<1>1. ASSUME p.kind = "node" PROVE IsList(Object(id, p).uid)
  <2>1. Object(id, p).uid = MakeUniqueId(Seed(p), id)
    BY <1>1 DEF Object
  <2> QED
    BY <1>1, <2>1, KindsOfOffers, UniqueIdIsList
<1>2. ASSUME p.kind = "port" PROVE IsList(Object(id, p).name) /\ IsList(Object(id, p).systemId)
  <2>1. Object(id, p).name = p.name /\ Object(id, p).systemId = SystemId(p)
    BY <1>2 DEF Object
  <2>2. \A x, y : IsList(<<x, y>>)
    BY DEF IsList
  <2>3. IsList(SystemId(p))
    BY <2>2 DEF SystemId
  <2> QED
    BY <1>2, <2>1, <2>3, RegistryAssumption
<1> QED
  BY <1>1, <1>2

\* process_add for an identifier that is new.
LEMMA Added ==
    ASSUME RegInv, NEW id \in Ids, Fresh(id), NEW p \in Offers \cup OwnOffers, ProcessAdd(id, p)
    PROVE  /\ DOMAIN store' = Kinds
           /\ \A k \in Kinds : Sorted(store'[k])
           /\ \A k \in Kinds : k # p.kind => store'[k] = store[k]
           /\ Elements(store'[p.kind]) = Elements(store[p.kind]) \cup {Object(id, p)}
<1> DEFINE o == Object(id, p)
           s == store[p.kind]
<1>1. p.kind \in Kinds /\ o.id = id
  BY KindsOfOffers, ObjectId
<1>2. Sorted(s) /\ {x.id : x \in Elements(s)} = Kept(p.kind)
  BY <1>1, Lists
<1>3. ~Holds(s, id)
  <2>1. id \in Nat /\ id \notin Kept(p.kind)
    BY RegistryAssumption DEF Fresh, Kept
  <2>2. ASSUME NEW j \in 1 .. Len(s), s[j].id = id PROVE FALSE
    BY <1>2, <2>1, <2>2, ElementsIn
  <2> QED
    BY <1>2, <2>1, <2>2, Place
<1>4. DOMAIN store = Kinds
  BY DEF RegInv, RegistryTypeOK
<1>5. store' = [store EXCEPT ![p.kind] = StoreObject(s, o)]
  BY DEF ProcessAdd
<1> HIDE DEF o
<1>6. /\ Sorted(StoreObject(s, o))
      /\ Elements(StoreObject(s, o)) = Elements(s) \cup {o}
  BY <1>1, <1>2, <1>3, Stored
<1>7. /\ DOMAIN store' = Kinds
      /\ store'[p.kind] = StoreObject(s, o)
      /\ \A k \in Kinds : k # p.kind => store'[k] = store[k]
  BY <1>1, <1>4, <1>5
<1>8. \A k \in Kinds : Sorted(store'[k])
  BY <1>6, <1>7 DEF RegInv
<1> QED
  BY <1>6, <1>7, <1>8 DEF o

LEMMA SortedPairs ==
    ASSUME NEW s, Sorted(s), NEW i \in 1 .. Len(s)
    PROVE  s[i].id \in Ids /\ (i > 1 => s[i - 1].id < s[i].id)
<1>1. Len(s) \in Nat
  BY SortedIds
<1>2. i > 1 => i - 1 \in 1 .. Len(s) /\ i - 1 < i
  BY <1>1
<1> QED
  BY <1>2 DEF Sorted

\* Announcing an object: MakeUniqueId keeps the unique names apart.
LEMMA NamesStayApart ==
    ASSUME RegInv, NEW id \in Ids, Fresh(id), NEW p \in Offers \cup OwnOffers, ProcessAdd(id, p)
    PROVE  \A n, m \in Elements(store'["node"]) : n.uid = m.uid => n = m
<1>1. CASE p.kind # "node"
  <2>1. store'["node"] = store["node"]
    BY <1>1, Added DEF Kinds
  <2> QED
    BY <2>1 DEF RegInv
<1>2. CASE p.kind = "node"
  <2> DEFINE o == Object(id, p)
  <2>1. Elements(store'["node"]) = Elements(store["node"]) \cup {o}
    BY <1>2, Added
  <2>2. o.uid = MakeUniqueId(Seed(p), id)
    BY <1>2 DEF Object
  <2>3. IsList(store["node"]) /\ IsList(Seed(p))
    BY <1>2, Lists, KindsOfOffers DEF Kinds
  <2>4. o.uid \notin Uids
    BY <2>2, <2>3, UniqueIdFree, FreeIs
  <2> HIDE DEF o
  <2>5. \A n \in Elements(store["node"]) : n.uid # o.uid
    BY <2>4 DEF Uids
  <2> QED
    BY <2>1, <2>5 DEF RegInv
<1> QED
  BY <1>1, <1>2

LEMMA AnnounceStep ==
    ASSUME RegInv, NEW id \in Ids, NEW p \in Offers \cup OwnOffers, Announce(id, p)
    PROVE  RegInv'
<1>1. /\ Fresh(id) /\ ProcessAdd(id, p)
      /\ announced' = [i \in DOMAIN announced \cup {id} |-> IF i = id THEN p ELSE announced[i]]
      /\ UNCHANGED <<default, metadata, filterNode>>
  BY DEF Announce, AnnounceNode, AnnounceOther
<1>2. /\ DOMAIN store' = Kinds
      /\ \A k \in Kinds : Sorted(store'[k])
      /\ \A k \in Kinds : k # p.kind => store'[k] = store[k]
      /\ Elements(store'[p.kind]) = Elements(store[p.kind]) \cup {Object(id, p)}
  BY <1>1, Added
<1>3. p # None /\ p.kind \in Kinds /\ Object(id, p).id = id
  BY KindsOfOffers, ObjectId
<1>4. /\ DOMAIN announced' = DOMAIN announced \cup {id}
      /\ announced'[id] = p
      /\ \A i \in DOMAIN announced : i # id /\ announced'[i] = announced[i]
  BY <1>1 DEF Fresh
<1>5. \A k \in Kinds : {o.id : o \in Elements(store'[k])} = Kept(k)'
  <2> SUFFICES ASSUME NEW k \in Kinds
               PROVE  {o.id : o \in Elements(store'[k])} = Kept(k)'
    OBVIOUS
  <2>1. {o.id : o \in Elements(store[k])} = Kept(k)
    BY Lists
  <2>2. CASE k = p.kind
    <3>1. Kept(k)' = Kept(k) \cup {id}
      BY <1>3, <1>4, <2>2 DEF Kept
    <3>2. {o.id : o \in Elements(store'[k])} = {o.id : o \in Elements(store[k])} \cup {id}
      BY <1>2, <1>3, <2>2
    <3> QED
      BY <2>1, <3>1, <3>2
  <2>3. CASE k # p.kind
    <3>1. Kept(k)' = Kept(k)
      BY <1>4, <2>3 DEF Kept
    <3> QED
      BY <1>2, <2>1, <2>3, <3>1
  <2> QED
    BY <2>2, <2>3
<1>6. \A n, m \in Elements(store'["node"]) : n.uid = m.uid => n = m
  BY <1>1, NamesStayApart
<1>n. /\ \A n \in Elements(store'["node"]) : IsList(n.uid)
      /\ \A q \in Elements(store'["port"]) : IsList(q.name) /\ IsList(q.systemId)
  <2>1. /\ \A n \in Elements(store["node"]) : IsList(n.uid)
        /\ \A q \in Elements(store["port"]) : IsList(q.name) /\ IsList(q.systemId)
    BY DEF RegInv
  <2> DEFINE o == Object(id, p)
  <2>2. /\ p.kind = "node" => IsList(o.uid)
        /\ p.kind = "port" => IsList(o.name) /\ IsList(o.systemId)
    BY ObjectNames
  <2>3. \A k \in {"node", "port"} : \A x \in Elements(store'[k]) :
           x \in Elements(store[k]) \/ (k = p.kind /\ x = o)
    BY <1>2 DEF Kinds
  <2> HIDE DEF o
  <2> QED
    BY <2>1, <2>2, <2>3
<1>7. Elements(store["node"]) \subseteq Elements(store'["node"])
  BY <1>2 DEF Kinds
<1>8. synced' \in BOOLEAN /\
      (synced' => /\ filterNode' \in Ids
                  /\ \E n \in Elements(store'["node"]) : n.id = filterNode' /\ n.uid = clientName')
  <2>1. CASE UNCHANGED <<clientName, synced>>
    BY <1>1, <1>7, <2>1 DEF RegInv, RegistryTypeOK
  <2>2. CASE ~UNCHANGED <<clientName, synced>>
    <3>1. /\ p.kind = "node" /\ id = filterNode /\ synced' = TRUE
          /\ \E node \in FindById(store'["node"], id) : clientName' = NewName(node)
      BY <2>2 DEF Announce, AnnounceNode, AnnounceOther, TakesUniqueName
    <3>2. PICK node \in FindById(store'["node"], id) : clientName' = node.uid
      BY <3>1 DEF NewName
    <3> DEFINE s == store'["node"]
    <3>3. Sorted(s) /\ id \in Nat
      BY <1>2, RegistryAssumption DEF Kinds
    <3> HIDE DEF s
    <3>4. Holds(s, id) /\ node = s[StorageIndexOf(s, id) + 1]
      BY <3>2 DEF FindById, s
    <3>5. node \in Elements(s) /\ node.id = id
      BY <3>3, <3>4, Place, ElementsIn
    <3> QED
      BY <1>1, <3>1, <3>2, <3>5 DEF s
  <2> QED
    BY <2>1, <2>2
<1>9. RegistryTypeOK'
  <2>1. \A k \in Kinds : \A i \in 1 .. Len(store'[k]) :
           /\ store'[k][i].id \in Ids
           /\ i > 1 => store'[k][i - 1].id < store'[k][i].id
    BY <1>2, SortedPairs
  <2>2. /\ default' \in [{"in", "out"} -> Devices \cup {None}]
        /\ metadata' \in {"none", "bound", "removed"}
        /\ metadata' = "none" => Range(default') = {None}
        /\ filterNode' \in Ids \cup {None}
    BY <1>1 DEF RegInv, RegistryTypeOK
  <2>3. /\ DOMAIN announced' \subseteq Ids
        /\ \A i \in DOMAIN announced' : announced'[i] \in Offers \cup OwnOffers \cup {None}
    BY <1>4 DEF RegInv, RegistryTypeOK
  <2> QED
    BY <1>2, <1>8, <2>1, <2>2, <2>3 DEF RegistryTypeOK
<1> QED
  BY <1>2, <1>5, <1>6, <1>8, <1>9, <1>n DEF RegInv

LEMMA RefusedStep ==
    ASSUME RegInv, NEW id \in Ids, AnnounceRefused(id)
    PROVE  RegInv'
<1>1. /\ UNCHANGED <<store, default, metadata, clientName, filterNode, synced>>
      /\ DOMAIN announced' = DOMAIN announced \cup {id}
      /\ announced'[id] = None
      /\ \A i \in DOMAIN announced : i # id /\ announced'[i] = announced[i]
  BY DEF AnnounceRefused, Fresh
<1>2. \A k : Kept(k)' = Kept(k)
  BY <1>1 DEF Kept
<1>3. RegistryTypeOK'
  BY <1>1 DEF RegInv, RegistryTypeOK
<1> QED
  BY <1>1, <1>2, <1>3 DEF RegInv, Elements

\* process_remove of an identifier that the server had announced.
LEMMA Taken ==
    ASSUME RegInv, NEW id \in Ids, ProcessRemove(id)
    PROVE  /\ DOMAIN store' = Kinds
           /\ \A k \in Kinds : Sorted(store'[k])
           /\ \A k \in Kinds : Elements(store'[k]) = {o \in Elements(store[k]) : o.id # id}
<1>0. DOMAIN store = Kinds
  BY DEF RegInv, RegistryTypeOK
<1>1. \A k \in Kinds : /\ Sorted(RemoveById(store[k], id))
                       /\ Elements(RemoveById(store[k], id)) = {o \in Elements(store[k]) : o.id # id}
                       /\ GivesUp(k, id) <=> \E o \in Elements(store[k]) : o.id = id
  BY Removed, Lists DEF GivesUp
<1>2. \A k \in Kinds : GivesUp(k, id) <=> id \in Kept(k)
  BY <1>1, Lists
<1>3. \A k \in Kinds : ~GivesUp(k, id) =>
         /\ Sorted(store[k])
         /\ Elements(store[k]) = {o \in Elements(store[k]) : o.id # id}
  <2> SUFFICES ASSUME NEW k \in Kinds, ~GivesUp(k, id)
               PROVE  /\ Sorted(store[k])
                      /\ Elements(store[k]) = {o \in Elements(store[k]) : o.id # id}
    OBVIOUS
  <2>1. RemoveById(store[k], id) = store[k]
    BY DEF GivesUp
  <2> QED
    BY <1>1, <2>1
<1>4. CASE (\A k \in Kinds : ~GivesUp(k, id)) /\ UNCHANGED store
  BY <1>0, <1>3, <1>4
<1>5. ASSUME NEW kind \in Kinds, GivesUp(kind, id),
             store' = [store EXCEPT ![kind] = RemoveById(@, id)]
      PROVE  /\ DOMAIN store' = Kinds
             /\ \A k \in Kinds : Sorted(store'[k])
             /\ \A k \in Kinds : Elements(store'[k]) = {o \in Elements(store[k]) : o.id # id}
  <2>1. /\ DOMAIN store' = Kinds
        /\ store'[kind] = RemoveById(store[kind], id)
        /\ \A k \in Kinds : k # kind => store'[k] = store[k]
    BY <1>0, <1>5
  <2>2. \A k \in Kinds : k # kind => ~GivesUp(k, id)
    BY <1>2, <1>5 DEF Kept
  <2> QED
    BY <1>1, <1>3, <2>1, <2>2
<1>6. \A i \in DOMAIN Storages : Storages[i] \in Kinds
  BY DEF Storages, Kinds
<1> QED
  BY <1>4, <1>5, <1>6 DEF ProcessRemove

LEMMA RemovedStep ==
    ASSUME RegInv, NEW id \in Ids, EventRemoved(id)
    PROVE  RegInv'
<1>1. /\ ProcessRemove(id) /\ id # filterNode
      /\ announced' = [i \in DOMAIN announced \ {id} |-> announced[i]]
      /\ UNCHANGED <<default, metadata, clientName, filterNode, synced>>
  BY DEF EventRemoved, IsOwn
<1>2. /\ DOMAIN store' = Kinds
      /\ \A k \in Kinds : Sorted(store'[k])
      /\ \A k \in Kinds : Elements(store'[k]) = {o \in Elements(store[k]) : o.id # id}
  BY <1>1, Taken
<1>3. /\ DOMAIN announced' = DOMAIN announced \ {id}
      /\ \A i \in DOMAIN announced' : announced'[i] = announced[i]
  BY <1>1
<1>4. \A k \in Kinds : {o.id : o \in Elements(store'[k])} = Kept(k)'
  <2> SUFFICES ASSUME NEW k \in Kinds
               PROVE  {o.id : o \in Elements(store'[k])} = Kept(k)'
    OBVIOUS
  <2>1. {o.id : o \in Elements(store[k])} = Kept(k)
    BY Lists
  <2>2. Kept(k)' = Kept(k) \ {id}
    BY <1>3 DEF Kept
  <2>3. {o.id : o \in Elements(store'[k])} = {o.id : o \in Elements(store[k])} \ {id}
    BY <1>2
  <2> QED
    BY <2>1, <2>2, <2>3
<1>5. \A n, m \in Elements(store'["node"]) : n.uid = m.uid => n = m
  BY <1>2 DEF RegInv, Kinds
<1>6. synced' => /\ filterNode' \in Ids
                 /\ \E n \in Elements(store'["node"]) : n.id = filterNode' /\ n.uid = clientName'
  BY <1>1, <1>2 DEF RegInv, Kinds
<1>n. /\ \A n \in Elements(store'["node"]) : IsList(n.uid)
      /\ \A q \in Elements(store'["port"]) : IsList(q.name) /\ IsList(q.systemId)
  BY <1>2 DEF RegInv, Kinds
<1>7. RegistryTypeOK'
  <2>1. \A k \in Kinds : \A i \in 1 .. Len(store'[k]) :
           /\ store'[k][i].id \in Ids
           /\ i > 1 => store'[k][i - 1].id < store'[k][i].id
    BY <1>2, SortedPairs
  <2>2. /\ default' \in [{"in", "out"} -> Devices \cup {None}]
        /\ metadata' \in {"none", "bound", "removed"}
        /\ metadata' = "none" => Range(default') = {None}
        /\ filterNode' \in Ids \cup {None}
        /\ synced' \in BOOLEAN
    BY <1>1 DEF RegInv, RegistryTypeOK
  <2>3. /\ DOMAIN announced' \subseteq Ids
        /\ \A i \in DOMAIN announced' : announced'[i] \in Offers \cup OwnOffers \cup {None}
    BY <1>3 DEF RegInv, RegistryTypeOK
  <2> QED
    BY <1>2, <2>1, <2>2, <2>3 DEF RegistryTypeOK
<1> QED
  BY <1>2, <1>4, <1>5, <1>6, <1>7, <1>n DEF RegInv

\* The parts of the invariant that are about the objects and the names of nodes.
LEMMA ObjectsUnchanged ==
    ASSUME RegInv, UNCHANGED <<store, announced>>, RegistryTypeOK',
           synced' => /\ synced /\ UNCHANGED <<clientName, filterNode>>
    PROVE  RegInv'
<1>1. \A k : Kept(k)' = Kept(k)
  BY DEF Kept
<1> QED
  BY <1>1 DEF RegInv, Elements

LEMMA MetadataStep ==
    ASSUME RegInv,
           \/ MetadataAnnounced
           \/ MetadataRemoved
           \/ \E directions \in {{"in"}, {"out"}, {"in", "out"}},
                 value \in Devices \cup {None} : ProcessMetadata(directions, value)
    PROVE  RegInv'
<1>1. UNCHANGED <<store, announced, clientName, filterNode, synced>>
  BY DEF MetadataAnnounced, MetadataRemoved, ProcessMetadata
<1>2. /\ default' \in [{"in", "out"} -> Devices \cup {None}]
      /\ metadata' \in {"none", "bound", "removed"}
      /\ metadata' = "none" => Range(default') = {None}
  <2>1. default \in [{"in", "out"} -> Devices \cup {None}]
    BY DEF RegInv, RegistryTypeOK
  <2>2. CASE MetadataAnnounced
    BY <2>1, <2>2 DEF MetadataAnnounced
  <2>3. CASE MetadataRemoved
    BY <2>1, <2>3 DEF MetadataRemoved
  <2>4. ASSUME NEW directions, NEW value \in Devices \cup {None},
               ProcessMetadata(directions, value)
        PROVE  default' \in [{"in", "out"} -> Devices \cup {None}] /\ metadata' = "bound"
    BY <2>1, <2>4 DEF ProcessMetadata
  <2> QED
    BY <2>2, <2>3, <2>4
<1>3. RegistryTypeOK'
  BY <1>1, <1>2 DEF RegInv, RegistryTypeOK
<1> QED
  BY <1>1, <1>3, ObjectsUnchanged

LEMMA BoundStep ==
    ASSUME RegInv, NEW id \in Ids, FilterBound(id)
    PROVE  RegInv'
<1>1. /\ UNCHANGED <<store, default, metadata, clientName, synced, announced>>
      /\ filterNode = None /\ filterNode' = id
  BY DEF FilterBound
<1>2. ~synced
  BY <1>1, RegistryAssumption DEF RegInv
<1>3. RegistryTypeOK'
  BY <1>1 DEF RegInv, RegistryTypeOK
<1> QED
  BY <1>1, <1>2, <1>3, ObjectsUnchanged

LEMMA StartCorrect ==
    ASSUME RegInit
    PROVE  RegInv
<1>1. \A k \in Kinds : store[k] = <<>>
  BY DEF RegInit
<1>2. IsList(<<>>) /\ Len(<<>>) = 0
  BY DEF IsList
<1>3. \A k \in Kinds : Sorted(store[k]) /\ Elements(store[k]) = {}
  BY <1>1, <1>2 DEF Sorted, Elements
<1>4. \A k : Kept(k) = {}
  BY DEF RegInit, Kept
<1>5. RegistryTypeOK
  <2>1. Range(default) = {None} /\ default \in [{"in", "out"} -> Devices \cup {None}]
    BY DEF RegInit, Range
  <2>2. \A k \in Kinds : \A i \in 1 .. Len(store[k]) :
           /\ store[k][i].id \in Ids
           /\ i > 1 => store[k][i - 1].id < store[k][i].id
    BY <1>1, <1>2
  <2>3. DOMAIN announced = {}
    BY DEF RegInit
  <2>4. /\ DOMAIN store = Kinds /\ metadata = "none"
        /\ filterNode = None /\ synced = FALSE
    BY DEF RegInit
  <2> QED
    BY <2>1, <2>2, <2>3, <2>4 DEF RegistryTypeOK
<1> QED
  BY <1>3, <1>4, <1>5 DEF RegInit, RegInv, Kinds

\* A new connection starts over.
LEMMA ReconnectStep ==
    ASSUME Reconnect
    PROVE  RegInv'
<1>1. \A k \in Kinds : store'[k] = <<>>
  BY DEF Reconnect
<1>2. IsList(<<>>) /\ Len(<<>>) = 0
  BY DEF IsList
<1>3. \A k \in Kinds : Sorted(store'[k]) /\ Elements(store'[k]) = {}
  BY <1>1, <1>2 DEF Sorted, Elements
<1>4. \A k : Kept(k)' = {}
  BY DEF Reconnect, Kept
<1>5. RegistryTypeOK'
  <2>1. Range(default') = {None} /\ default' \in [{"in", "out"} -> Devices \cup {None}]
    BY DEF Reconnect, Range
  <2>2. \A k \in Kinds : \A i \in 1 .. Len(store'[k]) :
           /\ store'[k][i].id \in Ids
           /\ i > 1 => store'[k][i - 1].id < store'[k][i].id
    BY <1>1, <1>2
  <2>3. DOMAIN announced' = {}
    BY DEF Reconnect
  <2>4. /\ DOMAIN store' = Kinds /\ metadata' = "none"
        /\ filterNode' = None /\ synced' = FALSE
    BY DEF Reconnect
  <2> QED
    BY <2>1, <2>2, <2>3, <2>4 DEF RegistryTypeOK
<1> QED
  BY <1>3, <1>4, <1>5 DEF Reconnect, RegInv, Kinds

LEMMA RegNextStep ==
    ASSUME RegInv, [RegNext]_regVars
    PROVE  RegInv'
<1>1. CASE \E id \in Ids, p \in Offers \cup OwnOffers : Announce(id, p)
  BY <1>1, AnnounceStep
<1>2. CASE \E id \in Ids : AnnounceRefused(id)
  BY <1>2, RefusedStep
<1>3. CASE \E id \in Ids : EventRemoved(id)
  BY <1>3, RemovedStep
<1>4. CASE \/ MetadataAnnounced
           \/ MetadataRemoved
           \/ \E directions \in {{"in"}, {"out"}, {"in", "out"}},
                 value \in Devices \cup {None} : ProcessMetadata(directions, value)
  BY <1>4, MetadataStep
<1>5. CASE \E id \in Ids : FilterBound(id)
  BY <1>5, BoundStep
<1>6. CASE Reconnect
  BY <1>6, ReconnectStep
<1>7. CASE UNCHANGED regVars
  <2>1. RegistryTypeOK'
    BY <1>7 DEF regVars, RegInv, RegistryTypeOK
  <2> QED
    BY <1>7, <2>1, ObjectsUnchanged DEF regVars
<1> QED
  BY <1>1, <1>2, <1>3, <1>4, <1>5, <1>6, <1>7 DEF RegNext

-----------------------------------------------------------------------------
(* The theorems *)

\* Whatever the order in which the server announces and removes objects and uses
\* their identifiers again, the invariant holds.
THEOREM RegistryCorrect == RegSpec => []RegInv
<1>1. RegInit => RegInv
  BY StartCorrect
<1>2. RegInv /\ [RegNext]_regVars => RegInv'
  BY RegNextStep
<1> QED
  BY <1>1, <1>2, PTL DEF RegSpec

\* The arrays stay sorted by identifier, without which no lookup by identifier is
\* right (storage_index_of).
THEOREM RegistryTypes == RegSpec => []RegistryTypeOK
<1>1. RegInv => RegistryTypeOK
  BY DEF RegInv
<1> QED
  BY <1>1, RegistryCorrect, PTL

\* process_add and process_remove keep exactly the objects that the server has, and
\* store_object replaces none of them.
THEOREM MirrorTrue == RegSpec => []MirrorsServer
<1>1. RegInv => MirrorsServer
  BY InvMirrors
<1> QED
  BY <1>1, RegistryCorrect, PTL

\* make_unique_id gives a node a name that leads find_node_by_string to it alone,
\* whatever names the nodes of other clients bear.
THEOREM NodesToldApart == RegSpec => []UidNamesItsNode
<1>1. RegInv => UidNamesItsNode
  BY InvUids
<1> QED
  BY <1>1, RegistryCorrect, PTL

\* The name that on_registry_event_global takes over, put before the name of a port
\* by make_port_full_id, leads find_port to that port of the client until the
\* connection is closed, if the name of the port has no colon.
THEOREM OwnPortsFound == RegSpec => []SyncedNameIsOwn
<1>1. RegInv => SyncedNameIsOwn
  BY InvSynced
<1> QED
  BY <1>1, RegistryCorrect, PTL

\* find_port returns a port of the direction asked for, of a node that is there and
\* bears the name asked for.
THEOREM PortsAsAsked == RegSpec => []FoundPortIsThere
<1>1. RegInv => FoundPortIsThere
  BY InvFound
<1> QED
  BY <1>1, RegistryCorrect, PTL

=============================================================================
