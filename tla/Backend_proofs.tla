--------------------------- MODULE Backend_proofs ---------------------------
(***************************************************************************)
(* Theorems about Links and Backend, for every set of places and           *)
(* identifiers, any number of requests and events on their way, and any    *)
(* number of connections.                                                  *)
(*                                                                         *)
(* What the client is told and what is the case differ as long as events   *)
(* are on their way.  The inductive invariant LinkInv says how: the last   *)
(* of them that is about an identifier says what has become of it, and the *)
(* answer that a call waits for comes behind all that is about its link.   *)
(***************************************************************************)
EXTENDS Backend, Lifecycle_proofs, FiniteSetTheorems, SequenceTheorems, TLAPS

Object == [kind : {"port"}, place : Outputs \cup Inputs]
          \cup [kind : {"link"}, output : Ids, input : Ids, lingers : BOOLEAN]

Event == [event : {"added"}, id : Ids, object : Object, ours : {FALSE}]
         \cup [event : {"removed"}, id : Ids, ours : {FALSE}]
         \cup [event : {"error", "done"}, ours : BOOLEAN]

Asking == [do : {"link"}, output : Outputs, input : Inputs, lingers : {TRUE},
           ours : BOOLEAN]
          \cup [do : {"unlink"}, id : Ids, ours : BOOLEAN]
          \cup [do : {"sync", "release"}, ours : BOOLEAN]

LinkCall == [op : {"none", "connect", "disconnect"},
         at : {"idle", "waiting", "woken", "synced", "failed"},
         src : Ids \cup {NoId}, dst : Ids \cup {NoId}, id : Ids \cup {NoId},
         error : BOOLEAN]

\* A finite set of objects, by identifier.
Holding(os) ==
    /\ DOMAIN os \subseteq Ids /\ IsFiniteSet(DOMAIN os)
    /\ os = [i \in DOMAIN os |-> os[i]]
    /\ \A i \in DOMAIN os : os[i] \in Object

LinkTypeOK ==
    /\ Holding(objects) /\ Holding(mirror)
    /\ requests \in Seq(Asking)
    /\ events \in Seq(Event)
    /\ link \in LinkCall
    /\ made \in Ids \cup {NoId, Gone}
    /\ kept \in BOOLEAN

-----------------------------------------------------------------------------
(* The mirror and the events on their way to it *)

About(e, id) == e.event \in {"added", "removed"} /\ e.id = id

\* No event behind the i-th one is about id.
SilentIn(es, id, i) == \A k \in DOMAIN es : k > i => ~About(es[k], id)

\* An event about id says what os holds for it.
Says(e, id, os) == IF e.event = "added" THEN id \in DOMAIN os /\ os[id] = e.object
                                        ELSE id \notin DOMAIN os

SameFor(id, os, others) ==
    /\ id \in DOMAIN os <=> id \in DOMAIN others
    /\ id \in DOMAIN os => os[id] = others[id]

\* The last event about an identifier says what the server holds for it; the
\* mirror holds the same when there is none.
Follows(os, m, es) ==
    \A id \in Ids :
       /\ \A i \in DOMAIN es : About(es[i], id) /\ SilentIn(es, id, i) => Says(es[i], id, os)
       /\ SilentIn(es, id, 0) => SameFor(id, m, os)

MirrorFollows == Follows(objects, mirror, events)

\* What is sent for an identifier that changes says what becomes of it.
Reports(os, new, sent) ==
    \A id \in Ids :
       \/ SilentIn(sent, id, 0) /\ SameFor(id, new, os)
       \/ /\ \E k \in DOMAIN sent : About(sent[k], id)
          /\ \A k \in DOMAIN sent : About(sent[k], id) => Says(sent[k], id, new)

\* Events put behind the others.
LEMMA EventsJoined ==
    ASSUME NEW es \in Seq(Event), NEW sent \in Seq(Event)
    PROVE  /\ es \o sent \in Seq(Event)
           /\ Len(es \o sent) = Len(es) + Len(sent)
           /\ Len(es) \in Nat /\ Len(sent) \in Nat
           /\ DOMAIN es = 1 .. Len(es) /\ DOMAIN sent = 1 .. Len(sent)
           /\ DOMAIN (es \o sent) = 1 .. Len(es) + Len(sent)
           /\ \A i \in DOMAIN es : (es \o sent)[i] = es[i]
           /\ \A i \in DOMAIN sent : (es \o sent)[Len(es) + i] = sent[i]
           /\ \A i \in DOMAIN (es \o sent) :
                 \/ i \in DOMAIN es
                 \/ i > Len(es) /\ i - Len(es) \in DOMAIN sent
                    /\ (es \o sent)[i] = sent[i - Len(es)]
<1>1. /\ es \o sent \in Seq(Event)
      /\ Len(es \o sent) = Len(es) + Len(sent)
      /\ \A i \in 1 .. Len(es) + Len(sent) :
            (es \o sent)[i] = IF i <= Len(es) THEN es[i] ELSE sent[i - Len(es)]
  BY ConcatProperties
<1>2. /\ Len(es) \in Nat /\ Len(sent) \in Nat
      /\ DOMAIN es = 1 .. Len(es) /\ DOMAIN sent = 1 .. Len(sent)
      /\ DOMAIN (es \o sent) = 1 .. Len(es) + Len(sent)
  BY <1>1
<1> HIDE <1>2
<1> DEFINE both == es \o sent
<1>3. \A i \in 1 .. Len(es) + Len(sent) :
         both[i] = IF i <= Len(es) THEN es[i] ELSE sent[i - Len(es)]
  BY <1>1
<1> HIDE DEF both
<1>4. /\ \A i \in 1 .. Len(es) : both[i] = es[i]
      /\ \A i \in 1 .. Len(sent) : both[Len(es) + i] = sent[i]
      /\ \A i \in 1 .. Len(es) + Len(sent) :
            \/ i \in 1 .. Len(es)
            \/ i > Len(es) /\ i - Len(es) \in 1 .. Len(sent)
               /\ both[i] = sent[i - Len(es)]
  BY <1>2, <1>3
<1> QED
  BY <1>1, <1>2, <1>4 DEF both

\* The server changes some objects and reports them.
LEMMA ReportedFollows ==
    ASSUME NEW es \in Seq(Event), NEW sent \in Seq(Event), NEW os, NEW new, NEW m,
           Follows(os, m, es), Reports(os, new, sent)
    PROVE  Follows(new, m, es \o sent)
<1> SUFFICES ASSUME NEW id \in Ids
             PROVE  /\ \A i \in DOMAIN (es \o sent) :
                          About((es \o sent)[i], id) /\ SilentIn(es \o sent, id, i) =>
                             Says((es \o sent)[i], id, new)
                    /\ SilentIn(es \o sent, id, 0) => SameFor(id, m, new)
  BY DEF Follows
<1> DEFINE both == es \o sent
<1>1. /\ Len(es) \in Nat /\ Len(sent) \in Nat
      /\ DOMAIN es = 1 .. Len(es) /\ DOMAIN sent = 1 .. Len(sent)
      /\ DOMAIN both = 1 .. Len(es) + Len(sent)
      /\ \A i \in DOMAIN es : both[i] = es[i]
      /\ \A i \in DOMAIN sent : both[Len(es) + i] = sent[i]
      /\ \A i \in DOMAIN both :
            \/ i \in DOMAIN es
            \/ i > Len(es) /\ i - Len(es) \in DOMAIN sent /\ both[i] = sent[i - Len(es)]
  BY EventsJoined
<1>2. /\ \A i \in DOMAIN es : About(es[i], id) /\ SilentIn(es, id, i) => Says(es[i], id, os)
      /\ SilentIn(es, id, 0) => SameFor(id, m, os)
  BY DEF Follows
<1> HIDE DEF both
<1>3. CASE SilentIn(sent, id, 0) /\ SameFor(id, new, os)
  <2>1. \A k \in DOMAIN sent : ~About(sent[k], id)
    BY <1>1, <1>3 DEF SilentIn
  <2>2. \A i \in DOMAIN both : About(both[i], id) => i \in DOMAIN es
    BY <1>1, <2>1
  <2>3. \A i \in Nat : SilentIn(both, id, i) => SilentIn(es, id, i)
    BY <1>1 DEF SilentIn
  <2>4. \A e : Says(e, id, os) => Says(e, id, new)
    BY <1>3 DEF Says, SameFor
  <2>5. SameFor(id, m, os) => SameFor(id, m, new)
    BY <1>3 DEF SameFor
  <2>6. ASSUME NEW i \in DOMAIN both, About(both[i], id), SilentIn(both, id, i)
        PROVE  Says(both[i], id, new)
    BY <1>1, <1>2, <2>2, <2>3, <2>4, <2>6
  <2> QED
    BY <1>2, <2>3, <2>5, <2>6 DEF both
<1>4. CASE /\ \E k \in DOMAIN sent : About(sent[k], id)
           /\ \A k \in DOMAIN sent : About(sent[k], id) => Says(sent[k], id, new)
  <2>1. PICK k \in DOMAIN sent : About(sent[k], id)
    BY <1>4
  <2>2. Len(es) + k \in DOMAIN both /\ About(both[Len(es) + k], id) /\ k > 0
    BY <1>1, <2>1
  <2>3. \A i \in DOMAIN es : ~SilentIn(both, id, i)
    BY <1>1, <2>2 DEF SilentIn
  <2>4. ~SilentIn(both, id, 0)
    BY <1>1, <2>2 DEF SilentIn
  <2>5. ASSUME NEW i \in DOMAIN both, About(both[i], id), SilentIn(both, id, i)
        PROVE  Says(both[i], id, new)
    BY <1>1, <1>4, <2>3, <2>5
  <2> QED
    BY <2>4, <2>5 DEF both
<1> QED
  BY <1>3, <1>4 DEF Reports

\* The client takes the first event in.
LEMMA DispatchedFollows ==
    ASSUME NEW es \in Seq(Event), es # <<>>, NEW os, NEW m, NEW applied,
           Follows(os, m, es),
           \A id \in Ids : IF About(Head(es), id) THEN Says(Head(es), id, applied)
                                                  ELSE SameFor(id, applied, m)
    PROVE  Follows(os, applied, Tail(es))
<1> DEFINE rest == Tail(es)
<1>1. /\ Head(es) = es[1]
      /\ Len(es) \in Nat /\ Len(es) >= 1
      /\ DOMAIN es = 1 .. Len(es) /\ DOMAIN rest = 1 .. Len(es) - 1
      /\ \A i \in 1 .. Len(es) - 1 : rest[i] = es[i + 1]
  BY HeadTailProperties
<1> HIDE DEF rest
<1> SUFFICES ASSUME NEW id \in Ids
             PROVE  /\ \A i \in DOMAIN rest :
                          About(rest[i], id) /\ SilentIn(rest, id, i) => Says(rest[i], id, os)
                    /\ SilentIn(rest, id, 0) => SameFor(id, applied, os)
  BY DEF Follows, rest
<1>2. /\ \A i \in DOMAIN es : About(es[i], id) /\ SilentIn(es, id, i) => Says(es[i], id, os)
      /\ SilentIn(es, id, 0) => SameFor(id, m, os)
  BY DEF Follows
<1>3. \A i \in Nat : SilentIn(rest, id, i) => SilentIn(es, id, i + 1)
  <2> SUFFICES ASSUME NEW i \in Nat, SilentIn(rest, id, i), NEW k \in DOMAIN es, k > i + 1
               PROVE  ~About(es[k], id)
    BY DEF SilentIn
  <2>1. k - 1 \in DOMAIN rest /\ k - 1 > i /\ rest[k - 1] = es[k]
    BY <1>1
  <2> QED
    BY <2>1 DEF SilentIn
<1>4. ASSUME NEW i \in DOMAIN rest, About(rest[i], id), SilentIn(rest, id, i)
      PROVE  Says(rest[i], id, os)
  <2>1. i \in Nat /\ i + 1 \in DOMAIN es /\ rest[i] = es[i + 1]
    BY <1>1
  <2> QED
    BY <1>2, <1>3, <1>4, <2>1
<1>5. ASSUME SilentIn(rest, id, 0)
      PROVE  SameFor(id, applied, os)
  <2>1. SilentIn(es, id, 1)
    BY <1>3, <1>5
  <2>2. CASE About(es[1], id)
    <3>1. Says(es[1], id, os) /\ Says(es[1], id, applied)
      BY <1>1, <1>2, <2>1, <2>2
    <3> QED
      BY <3>1 DEF Says, SameFor
  <2>3. CASE ~About(es[1], id)
    <3>1. SilentIn(es, id, 0)
      <4> SUFFICES ASSUME NEW k \in DOMAIN es
                   PROVE  ~About(es[k], id)
        BY DEF SilentIn
      <4>1. k = 1 \/ k > 1
        BY <1>1
      <4> QED
        BY <2>1, <2>3, <4>1 DEF SilentIn
    <3>2. SameFor(id, m, os) /\ SameFor(id, applied, m)
      BY <1>1, <1>2, <2>3, <3>1
    <3> QED
      BY <3>2 DEF SameFor
  <2> QED
    BY <2>2, <2>3
<1> QED
  BY <1>4, <1>5

-----------------------------------------------------------------------------
(* The operators of the server *)

LEMMA SetToSeqLists ==
    ASSUME NEW S, IsFiniteSet(S)
    PROVE  /\ SetToSeq(S) \in Seq(S)
           /\ \A k \in DOMAIN SetToSeq(S) : SetToSeq(S)[k] \in S
           /\ \A x \in S : \E k \in DOMAIN SetToSeq(S) : SetToSeq(S)[k] = x
<1> DEFINE n == Cardinality(S)
           list == SetToSeq(S)
<1>1. n \in Nat /\ ExistsBijection(1 .. n, S)
  BY FS_CardinalityType
<1>2. PICK g \in Bijection(1 .. n, S) : TRUE
  BY <1>1 DEF ExistsBijection
<1>3. g \in [1 .. n -> S] /\ IsInjective(g)
  BY <1>2 DEF Bijection, Injection
<1>4. list \in [1 .. n -> S] /\ IsInjective(list)
  BY <1>3 DEF SetToSeq
<1>5. list \in Injection(1 .. n, S)
  BY <1>4 DEF Injection
<1>6. IsFiniteSet(1 .. n) /\ Cardinality(1 .. n) = n
  BY <1>1, FS_Interval
<1>7. list \in Surjection(1 .. n, S)
  BY <1>5, <1>6, FS_Injection
<1> HIDE DEF list, n
<1>8. \A x \in S : \E k \in 1 .. n : list[k] = x
  BY <1>4, <1>7 DEF Surjection
<1>9. list \in Seq(S) /\ DOMAIN list = 1 .. n
  BY <1>1, <1>4, SeqDef
<1> QED
  BY <1>4, <1>8, <1>9 DEF list

RemovedAll(L) == {Removed(l) : l \in L}

\* Identifiers whose removal is reported: one event for each.
LEMMA RemovedListed ==
    ASSUME NEW L, L \subseteq Ids, IsFiniteSet(L),
           NEW sent, sent = SetToSeq(RemovedAll(L))
    PROVE  /\ sent \in Seq(Event)
           /\ \A k \in DOMAIN sent : \E l \in L : sent[k] = Removed(l)
           /\ \A l \in L : \E k \in DOMAIN sent : sent[k] = Removed(l)
<1> DEFINE S == RemovedAll(L)
           f == [l \in L |-> Removed(l)]
<1>1. f \in Bijection(L, S)
  <2>1. f \in [L -> S]
    BY DEF RemovedAll
  <2>2. \A a, b \in L : f[a] = f[b] => a = b
    BY DEF Removed
  <2>3. \A s \in S : \E l \in L : f[l] = s
    BY DEF RemovedAll
  <2> QED
    BY <2>1, <2>2, <2>3 DEF Bijection, Injection, Surjection, IsInjective
<1>2. IsFiniteSet(S)
  BY <1>1, FS_Bijection DEF ExistsBijection
<1>3. \A l \in L : Removed(l) \in Event
  BY DEF Removed, Event
<1>4. /\ sent \in Seq(S)
      /\ \A k \in DOMAIN sent : sent[k] \in S
      /\ \A x \in S : \E k \in DOMAIN sent : sent[k] = x
  BY <1>2, SetToSeqLists
<1>5. sent \in Seq(Event)
  <2>1. S \subseteq Event
    BY <1>3 DEF RemovedAll
  <2> QED
    BY <1>4, <2>1, SeqMonotonic
<1> QED
  BY <1>4, <1>5 DEF RemovedAll

LEMMA LeastIdentifier ==
    ASSUME NEW T, T \subseteq Nat, T # {}
    PROVE  \E m \in T : \A n \in T : m <= n
<1>1. IsWellFoundedOn(OpToRel(<, Nat), Nat)
  BY NatLessThanWellFounded
<1>2. PICK m \in T : \A n \in T : <<n, m>> \notin OpToRel(<, Nat)
  BY <1>1, WFMin
<1>3. \A n \in T : ~(n < m)
  BY <1>2 DEF OpToRel
<1> QED
  BY <1>3

\* The identifier of a new object is a free one.
LEMMA NewIdIsFree ==
    ASSUME FreeIds # {}
    PROVE  NewId \in Ids /\ NewId \notin DOMAIN objects
<1>1. FreeIds \subseteq Nat /\ FreeIds \subseteq Ids \ DOMAIN objects
  BY LinksAssumption DEF FreeIds
<1>2. \E m \in FreeIds : \A n \in FreeIds : m <= n
  BY <1>1, LeastIdentifier
<1>3. NewId \in FreeIds
  BY <1>2 DEF NewId
<1> QED
  BY <1>1, <1>3

LEMMA WithHolds ==
    ASSUME NEW os, Holding(os), NEW id \in Ids, NEW o \in Object
    PROVE  /\ Holding(With(os, id, o))
           /\ DOMAIN With(os, id, o) = DOMAIN os \cup {id}
           /\ With(os, id, o)[id] = o
           /\ \A i \in DOMAIN os : i # id => With(os, id, o)[i] = os[i]
<1>1. IsFiniteSet(DOMAIN os \cup {id})
  BY FS_AddElement DEF Holding
<1> QED
  BY <1>1 DEF Holding, With

LEMMA WithoutHolds ==
    ASSUME NEW os, Holding(os), NEW ids
    PROVE  /\ Holding(Without(os, ids))
           /\ DOMAIN Without(os, ids) = DOMAIN os \ ids
           /\ \A i \in DOMAIN os \ ids : Without(os, ids)[i] = os[i]
<1>1. IsFiniteSet(DOMAIN os \ ids)
  BY FS_Subset DEF Holding
<1> QED
  BY <1>1 DEF Holding, Without

-----------------------------------------------------------------------------
(* What the server does to its objects, and what it sends *)

\* The server sends events that answer no request of the present call.
Sends(sent) ==
    /\ sent \in Seq(Event)
    /\ \A k \in DOMAIN sent : ~sent[k].ours
    /\ events' = events \o sent

LEMMA AddReports ==
    ASSUME LinkTypeOK, NEW o \in Object, Add(o)
    PROVE  /\ NewId \in Ids /\ NewId \notin DOMAIN objects
           /\ Holding(objects')
           /\ DOMAIN objects' = DOMAIN objects \cup {NewId}
           /\ objects'[NewId] = o
           /\ \A i \in DOMAIN objects : objects'[i] = objects[i]
           /\ \E sent : /\ Sends(sent)
                        /\ Reports(objects, objects', sent)
                        /\ \A id \in Ids \ {NewId} : SilentIn(sent, id, 0)
<1>1. /\ NewId \in Ids /\ NewId \notin DOMAIN objects
      /\ objects' = With(objects, NewId, o)
      /\ events' = Append(events, Added(NewId, o))
  BY NewIdIsFree DEF Add
<1> HIDE DEF NewId
<1>2. /\ Holding(objects')
      /\ DOMAIN objects' = DOMAIN objects \cup {NewId}
      /\ objects'[NewId] = o
      /\ \A i \in DOMAIN objects : objects'[i] = objects[i]
  <2>1. /\ Holding(With(objects, NewId, o))
        /\ DOMAIN With(objects, NewId, o) = DOMAIN objects \cup {NewId}
        /\ With(objects, NewId, o)[NewId] = o
        /\ \A i \in DOMAIN objects : i # NewId => With(objects, NewId, o)[i] = objects[i]
    BY <1>1, WithHolds DEF LinkTypeOK
  <2> QED
    BY <1>1, <2>1
<1> DEFINE e == Added(NewId, o)
           sent == <<e>>
<1>3. /\ e \in Event /\ ~e.ours /\ e.event = "added" /\ e.id = NewId /\ e.object = o
  BY <1>1 DEF Added, Event
<1> HIDE DEF e
<1>4. sent \in Seq(Event) /\ DOMAIN sent = {1} /\ sent[1] = e
  BY <1>3
<1>5. events' = events \o sent
  BY <1>1, <1>3, AppendIsConcat DEF LinkTypeOK, e
<1> HIDE DEF sent
<1>6. Sends(sent)
  BY <1>3, <1>4, <1>5 DEF Sends
<1>7. \A id \in Ids \ {NewId} : SilentIn(sent, id, 0)
  BY <1>3, <1>4 DEF SilentIn, About
<1>8. \A id \in Ids \ {NewId} : SameFor(id, objects', objects)
  BY <1>2 DEF SameFor
<1>9. About(sent[1], NewId) /\ Says(sent[1], NewId, objects')
  BY <1>2, <1>3, <1>4 DEF About, Says
<1>10. Reports(objects, objects', sent)
  BY <1>4, <1>7, <1>8, <1>9 DEF Reports
<1> QED
  BY <1>1, <1>2, <1>6, <1>7, <1>10

LEMMA DestroyReports ==
    ASSUME LinkTypeOK, NEW id \in DOMAIN objects, Destroy(id)
    PROVE  LET gone == LinksOf(id) \cup {id}
           IN  /\ gone \subseteq DOMAIN objects
               /\ Holding(objects')
               /\ DOMAIN objects' = DOMAIN objects \ gone
               /\ \A i \in DOMAIN objects' : objects'[i] = objects[i]
               /\ \E sent : /\ Sends(sent)
                            /\ Reports(objects, objects', sent)
                            /\ \A i \in Ids \ gone : SilentIn(sent, i, 0)
<1> DEFINE gone == LinksOf(id) \cup {id}
           first == SetToSeq({Removed(l) : l \in LinksOf(id)})
           last == <<Removed(id)>>
           sent == first \o last
<1>1. /\ gone \subseteq DOMAIN objects /\ DOMAIN objects \subseteq Ids
      /\ LinksOf(id) \subseteq Ids /\ id \in Ids
      /\ LinksOf(id) \in SUBSET DOMAIN objects
      /\ IsFiniteSet(DOMAIN objects)
  BY DEF LinksOf, LinkTypeOK, Holding
<1>2. IsFiniteSet(LinksOf(id))
  BY <1>1, FS_Subset
<1>3. /\ objects' = Without(objects, gone)
      /\ events' = events \o first \o last
  BY DEF Destroy
<1>4. /\ Holding(objects')
      /\ DOMAIN objects' = DOMAIN objects \ gone
      /\ \A i \in DOMAIN objects' : objects'[i] = objects[i]
  <2>1. /\ Holding(Without(objects, gone))
        /\ DOMAIN Without(objects, gone) = DOMAIN objects \ gone
        /\ \A i \in DOMAIN objects \ gone : Without(objects, gone)[i] = objects[i]
    BY WithoutHolds DEF LinkTypeOK
  <2> QED
    BY <1>3, <2>1
<1>5. /\ first \in Seq(Event)
      /\ \A k \in DOMAIN first : \E l \in LinksOf(id) : first[k] = Removed(l)
      /\ \A l \in LinksOf(id) : \E k \in DOMAIN first : first[k] = Removed(l)
  <2>1. first = SetToSeq(RemovedAll(LinksOf(id)))
    BY DEF RemovedAll
  <2> HIDE DEF first
  <2> QED
    BY ONLY <1>1, <1>2, <2>1, RemovedListed
<1>6. last \in Seq(Event) /\ DOMAIN last = {1} /\ last[1] = Removed(id)
  <2>1. Removed(id) \in Event
    BY <1>1 DEF Removed, Event
  <2> QED
    BY <2>1
<1> HIDE DEF gone, first, last
<1>7. events \in Seq(Event)
  BY DEF LinkTypeOK
<1>8. events' = events \o sent
  <2>1. (events \o first) \o last = events \o (first \o last)
    BY ONLY <1>5, <1>6, <1>7, ConcatAssociative
  <2> QED
    BY <1>3, <2>1
<1>9. /\ sent \in Seq(Event)
      /\ DOMAIN first \subseteq DOMAIN sent
      /\ \A i \in DOMAIN first : sent[i] = first[i]
      /\ Len(first) + 1 \in DOMAIN sent /\ sent[Len(first) + 1] = last[1]
      /\ \A i \in DOMAIN sent : \/ i \in DOMAIN first
                                \/ i - Len(first) \in DOMAIN last
                                   /\ sent[i] = last[i - Len(first)]
  <2>1. /\ sent \in Seq(Event)
        /\ Len(first) \in Nat
        /\ DOMAIN first = 1 .. Len(first) /\ DOMAIN last = 1 .. Len(last)
        /\ DOMAIN sent = 1 .. Len(first) + Len(last)
        /\ \A i \in DOMAIN first : sent[i] = first[i]
        /\ \A i \in DOMAIN last : sent[Len(first) + i] = last[i]
        /\ \A i \in DOMAIN sent :
              \/ i \in DOMAIN first
              \/ i > Len(first) /\ i - Len(first) \in DOMAIN last
                 /\ sent[i] = last[i - Len(first)]
    BY <1>5, <1>6, EventsJoined
  <2>2. Len(last) = 1
    BY DEF last
  <2> HIDE DEF sent
  <2> QED
    BY <1>6, <2>1, <2>2
<1> HIDE DEF sent
<1>10. ASSUME NEW k \in DOMAIN sent
       PROVE  \E l \in gone : sent[k] = Removed(l)
  <2>1. CASE k \in DOMAIN first
    BY <1>5, <1>9, <2>1 DEF gone
  <2>2. CASE k - Len(first) \in DOMAIN last /\ sent[k] = last[k - Len(first)]
    BY <1>6, <2>2 DEF gone
  <2> QED
    BY <1>9, <2>1, <2>2
<1>11. \A l \in gone : \E k \in DOMAIN sent : sent[k] = Removed(l)
  BY <1>5, <1>6, <1>9 DEF gone
<1>12. \A l : /\ ~Removed(l).ours
              /\ \A i : About(Removed(l), i) <=> i = l
              /\ \A i : Says(Removed(l), i, objects') <=> i \notin DOMAIN objects'
  BY DEF Removed, About, Says
<1>13. Sends(sent)
  BY <1>8, <1>9, <1>10, <1>12 DEF Sends
<1>14. \A i \in Ids \ gone : SilentIn(sent, i, 0)
  BY <1>10, <1>12 DEF SilentIn
<1>15. \A i \in Ids \ gone : SameFor(i, objects', objects)
  BY <1>4 DEF SameFor
<1>16. \A i \in gone : \E k \in DOMAIN sent : About(sent[k], i)
  BY <1>11, <1>12
<1>17. \A i \in gone : \A k \in DOMAIN sent : About(sent[k], i) => Says(sent[k], i, objects')
  BY <1>4, <1>10, <1>12
<1>18. Reports(objects, objects', sent)
  BY <1>14, <1>15, <1>16, <1>17 DEF Reports
<1> QED
  BY <1>1, <1>4, <1>13, <1>14, <1>18 DEF gone

-----------------------------------------------------------------------------
(* What a call waits for *)

MadeLingers ==
    made \in Ids =>
       made \in DOMAIN objects /\ objects[made].kind = "link" /\ objects[made].lingers

NoneOurs(q) == \A i \in DOMAIN q : ~q[i].ours

ErrorComing ==
    link.error \/ \E i \in DOMAIN events : events[i].ours /\ events[i].event = "error"

\* The request of the call has been served, and this is what came of it.
Outcome ==
    /\ link.op = "connect" => (made = NoId <=> ErrorComing)
    /\ link.op = "disconnect" => kept \/ link.id \notin DOMAIN objects

\* The link that the result of the call is about.
Subject == IF link.op = "connect" THEN made
           ELSE IF link.op = "disconnect" /\ ~kept THEN link.id ELSE NoId

\* The server has not come to the request of the call, ...
Asked ==
    /\ Len(requests) >= 2
    /\ \A i \in 1 .. Len(requests) - 2 : ~requests[i].ours
    /\ requests[Len(requests) - 1].ours /\ requests[Len(requests)].ours
    /\ requests[Len(requests)].do = "sync"
    /\ link.op = "connect" => requests[Len(requests) - 1].do = "link" /\ made = NoId
    /\ link.op = "disconnect" => /\ requests[Len(requests) - 1].do = "unlink"
                                 /\ requests[Len(requests) - 1].id = link.id
    /\ NoneOurs(events) /\ ~link.error

\* ... has served it, ...
Decided ==
    /\ Len(requests) = 1 /\ requests[1].do = "sync" /\ requests[1].ours
    /\ \A i \in DOMAIN events : events[i].ours => events[i].event = "error"
    /\ Outcome

\* ... and has answered the synchronisation: behind all it had to tell.
Answered ==
    /\ requests = <<>>
    /\ \E d \in DOMAIN events :
          /\ events[d].ours /\ events[d].event = "done"
          /\ \A i \in DOMAIN events :
                i # d /\ events[i].ours => i < d /\ events[i].event = "error"
          /\ SilentIn(events, Subject, d)
    /\ Outcome

CallInv ==
    /\ link.op = "none" <=> link.at = "idle"
    /\ link.at \in {"idle", "synced", "failed"} => NoneOurs(requests) /\ NoneOurs(events)
    /\ link.at = "waiting" => Asked \/ Decided \/ Answered
    /\ link.at = "woken" => requests = <<>> /\ NoneOurs(events)
    /\ link.at \in {"woken", "synced"} => Outcome /\ SilentIn(events, Subject, 0)

LinkInv == LinkTypeOK /\ MirrorFollows /\ MadeLingers /\ CallInv

\* A step of the server that is no answer to the call.
Foreign ==
    /\ link' = link
    /\ \E sent : /\ Sends(sent)
                 /\ Outcome /\ Subject' \in Ids =>
                       Subject' = Subject /\ SilentIn(sent, Subject', 0)
    /\ link.op = "connect" => (made' = NoId <=> made = NoId)
    /\ link.op = "disconnect" =>
          (kept \/ link.id \notin DOMAIN objects => kept' \/ link.id \notin DOMAIN objects')
    /\ \/ requests' = requests
       \/ requests # <<>> /\ ~Head(requests).ours /\ requests' = Tail(requests)

LEMMA ForeignKeepsCall ==
    ASSUME LinkTypeOK, CallInv, Foreign
    PROVE  CallInv'
<1>1. PICK sent : /\ Sends(sent)
                  /\ Outcome /\ Subject' \in Ids =>
                        Subject' = Subject /\ SilentIn(sent, Subject', 0)
  BY DEF Foreign
<1>2. /\ events \in Seq(Event) /\ requests \in Seq(Asking)
      /\ link \in LinkCall /\ link' = link
  BY DEF LinkTypeOK, Foreign
<1>3. /\ events' = events \o sent
      /\ sent \in Seq(Event)
      /\ events' \in Seq(Event)
      /\ Len(events) \in Nat /\ Len(sent) \in Nat
      /\ DOMAIN events = 1 .. Len(events)
      /\ DOMAIN events' = 1 .. Len(events) + Len(sent)
      /\ \A i \in DOMAIN events : events'[i] = events[i]
      /\ \A i \in DOMAIN events' :
            \/ i \in DOMAIN events
            \/ i > Len(events) /\ i - Len(events) \in DOMAIN sent
               /\ events'[i] = sent[i - Len(events)]
      /\ \A k \in DOMAIN sent : ~sent[k].ours
  <2>1. events' = events \o sent /\ sent \in Seq(Event) /\ \A k \in DOMAIN sent : ~sent[k].ours
    BY <1>1 DEF Sends
  <2> QED
    BY <1>2, <2>1, EventsJoined
<1>4. /\ NoneOurs(events) => NoneOurs(events')
      /\ \A i \in DOMAIN events' : events'[i].ours => i \in DOMAIN events /\ events'[i] = events[i]
  BY <1>3 DEF NoneOurs
<1>5. ErrorComing' <=> ErrorComing
  BY <1>2, <1>3, <1>4 DEF ErrorComing
<1>6. Outcome => Outcome'
  BY <1>2, <1>5 DEF Outcome, Foreign
<1>7. ASSUME Outcome, NEW d \in Nat, SilentIn(events, Subject, d)
      PROVE  SilentIn(events', Subject', d)
  <2>1. CASE Subject' \in Ids
    BY <1>1, <1>3, <1>7, <2>1 DEF SilentIn
  <2>2. CASE Subject' \notin Ids
    <3>1. \A e \in Event : ~About(e, Subject')
      BY <2>2 DEF About, Event
    <3> QED
      BY <1>3, <3>1 DEF SilentIn
  <2> QED
    BY <2>1, <2>2
<1>8. /\ NoneOurs(requests) => NoneOurs(requests')
      /\ requests = <<>> => requests' = <<>>
      /\ Len(requests) = 1 /\ requests[1].ours => requests' = requests
  <2>1. CASE requests' = requests
    BY <2>1
  <2>2. CASE requests # <<>> /\ ~Head(requests).ours /\ requests' = Tail(requests)
    BY <1>2, <2>2, HeadTailProperties DEF NoneOurs
  <2> QED
    BY <2>1, <2>2 DEF Foreign
<1>9. Asked => Asked'
  <2> SUFFICES ASSUME Asked
               PROVE  Asked'
    OBVIOUS
  <2>1. NoneOurs(events') /\ ~link'.error
    BY <1>2, <1>4 DEF Asked
  <2>2. link.op = "connect" => made' = NoId
    BY DEF Asked, Foreign
  <2>3. CASE requests' = requests
    BY <1>2, <2>1, <2>2, <2>3 DEF Asked
  <2>4. CASE requests # <<>> /\ ~Head(requests).ours /\ requests' = Tail(requests)
    <3> DEFINE n == Len(requests)
    <3>1. /\ n \in Nat /\ n >= 2 /\ Head(requests) = requests[1]
          /\ Len(requests') = n - 1
          /\ \A i \in 1 .. n - 1 : requests'[i] = requests[i + 1]
      BY <1>2, <2>4, HeadTailProperties DEF Asked
    <3>2. n # 2
      BY <2>4, <3>1 DEF Asked
    <3>3. /\ Len(requests') >= 2
          /\ requests'[Len(requests')] = requests[n]
          /\ requests'[Len(requests') - 1] = requests[n - 1]
      BY <3>1, <3>2
    <3>4. \A i \in 1 .. Len(requests') - 2 : ~requests'[i].ours
      <4>1. \A i \in 1 .. n - 2 : ~requests[i].ours
        BY DEF Asked
      <4> HIDE DEF n
      <4>2. \A i \in 1 .. Len(requests') - 2 :
               i + 1 \in 1 .. n - 2 /\ requests'[i] = requests[i + 1]
        BY <3>1
      <4> QED
        BY <4>1, <4>2
    <3> QED
      BY <1>2, <2>1, <2>2, <3>3, <3>4 DEF Asked
  <2> QED
    BY <2>3, <2>4 DEF Foreign
<1>10. Decided => Decided'
  BY <1>4, <1>6, <1>8 DEF Decided
<1>11. Answered => Answered'
  <2> SUFFICES ASSUME Answered
               PROVE  Answered'
    OBVIOUS
  <2>1. PICK d \in DOMAIN events :
           /\ events[d].ours /\ events[d].event = "done"
           /\ \A i \in DOMAIN events :
                 i # d /\ events[i].ours => i < d /\ events[i].event = "error"
           /\ SilentIn(events, Subject, d)
    BY DEF Answered
  <2>2. requests' = <<>> /\ Outcome'
    BY <1>6, <1>8 DEF Answered
  <2>3. SilentIn(events', Subject', d)
    BY <1>3, <1>7, <2>1 DEF Answered
  <2>4. d \in DOMAIN events' /\ events'[d] = events[d]
    BY <1>3
  <2>5. \A i \in DOMAIN events' :
           i # d /\ events'[i].ours => i < d /\ events'[i].event = "error"
    BY <1>4, <2>1
  <2> QED
    BY <2>1, <2>2, <2>3, <2>4, <2>5 DEF Answered
<1>12. link.at \in {"woken", "synced"} => Outcome' /\ SilentIn(events', Subject', 0)
  BY <1>6, <1>7 DEF CallInv
<1> QED
  BY <1>2, <1>4, <1>8, <1>9, <1>10, <1>11, <1>12 DEF CallInv

-----------------------------------------------------------------------------
(* Steps of the server *)

LEMMA AddKeepsWorld ==
    ASSUME LinkInv, NEW o \in Object, Add(o), UNCHANGED <<mirror, link>>,
           requests' \in Seq(Asking),
           \/ made' = made
           \/ made' = NewId /\ o.kind = "link" /\ o.lingers
    PROVE  LinkTypeOK' /\ MirrorFollows' /\ MadeLingers'
<1>1. /\ NewId \in Ids /\ NewId \notin DOMAIN objects
      /\ Holding(objects')
      /\ DOMAIN objects' = DOMAIN objects \cup {NewId}
      /\ objects'[NewId] = o
      /\ \A i \in DOMAIN objects : objects'[i] = objects[i]
  BY AddReports DEF LinkInv
<1>2. PICK sent : Sends(sent) /\ Reports(objects, objects', sent)
  BY AddReports DEF LinkInv
<1> HIDE DEF NewId
<1>3. events' = events \o sent /\ sent \in Seq(Event) /\ events \in Seq(Event)
  BY <1>2 DEF Sends, LinkInv, LinkTypeOK
<1>4. kept' \in BOOLEAN
  BY DEF Add
<1>5. LinkTypeOK'
  BY <1>1, <1>3, <1>4, EventsJoined DEF LinkInv, LinkTypeOK
<1>6. MirrorFollows'
  BY <1>2, <1>3, ReportedFollows DEF LinkInv, MirrorFollows
<1>7. MadeLingers'
  BY <1>1 DEF LinkInv, MadeLingers
<1> QED
  BY <1>5, <1>6, <1>7

LEMMA AddIsForeign ==
    ASSUME LinkInv, NEW o \in Object, Add(o), UNCHANGED <<made, link>>,
           \/ requests' = requests
           \/ requests # <<>> /\ ~Head(requests).ours /\ requests' = Tail(requests)
    PROVE  Foreign
<1>1. /\ NewId \in Ids /\ NewId \notin DOMAIN objects
      /\ DOMAIN objects' = DOMAIN objects \cup {NewId}
  BY AddReports DEF LinkInv
<1>2. PICK sent : Sends(sent) /\ \A id \in Ids \ {NewId} : SilentIn(sent, id, 0)
  BY AddReports DEF LinkInv
<1>3. kept' <=> (kept \/ NewId = link.id)
  BY DEF Add
<1> HIDE DEF NewId
<1>4. ASSUME Outcome, Subject' \in Ids
      PROVE  Subject' = Subject /\ SilentIn(sent, Subject', 0)
  <2>1. Subject' # NewId /\ Subject' = Subject
    BY <1>1, <1>3, <1>4, LinksAssumption DEF LinkInv, MadeLingers, Subject
  <2> QED
    BY <1>2, <1>4, <2>1
<1>5. kept \/ link.id \notin DOMAIN objects => kept' \/ link.id \notin DOMAIN objects'
  BY <1>1, <1>3
<1> QED
  BY <1>2, <1>4, <1>5 DEF Foreign

LEMMA DestroyKeepsWorld ==
    ASSUME LinkInv, NEW id \in DOMAIN objects, Destroy(id), UNCHANGED <<mirror, link, kept>>,
           requests' \in Seq(Asking)
    PROVE  LinkTypeOK' /\ MirrorFollows' /\ MadeLingers'
<1> DEFINE gone == LinksOf(id) \cup {id}
<1>1. /\ gone \subseteq DOMAIN objects
      /\ Holding(objects')
      /\ DOMAIN objects' = DOMAIN objects \ gone
      /\ \A i \in DOMAIN objects' : objects'[i] = objects[i]
  BY DestroyReports DEF LinkInv
<1>2. PICK sent : Sends(sent) /\ Reports(objects, objects', sent)
  BY DestroyReports DEF LinkInv
<1>3. made' = IF made \in gone THEN Gone ELSE made
  BY DEF Destroy
<1> HIDE DEF gone
<1>4. events' = events \o sent /\ sent \in Seq(Event) /\ events \in Seq(Event)
  BY <1>2 DEF Sends, LinkInv, LinkTypeOK
<1>5. LinkTypeOK'
  BY <1>1, <1>3, <1>4, EventsJoined DEF LinkInv, LinkTypeOK
<1>6. MirrorFollows'
  BY <1>2, <1>4, ReportedFollows DEF LinkInv, MirrorFollows
<1>7. MadeLingers'
  BY <1>1, <1>3, LinksAssumption DEF LinkInv, MadeLingers
<1> QED
  BY <1>5, <1>6, <1>7

LEMMA DestroyIsForeign ==
    ASSUME LinkInv, NEW id \in DOMAIN objects, Destroy(id), UNCHANGED <<link, kept>>,
           \/ requests' = requests
           \/ requests # <<>> /\ ~Head(requests).ours /\ requests' = Tail(requests)
    PROVE  Foreign
<1> DEFINE gone == LinksOf(id) \cup {id}
<1>1. /\ gone \subseteq DOMAIN objects /\ DOMAIN objects \subseteq Ids
      /\ DOMAIN objects' = DOMAIN objects \ gone
  BY DestroyReports DEF LinkInv, LinkTypeOK, Holding
<1>2. PICK sent : Sends(sent) /\ \A i \in Ids \ gone : SilentIn(sent, i, 0)
  BY DestroyReports DEF LinkInv
<1>3. made' = IF made \in gone THEN Gone ELSE made
  BY DEF Destroy
<1> HIDE DEF gone
<1>4. ASSUME Outcome, Subject' \in Ids
      PROVE  Subject' = Subject /\ SilentIn(sent, Subject', 0)
  <2>1. Subject' \notin gone /\ Subject' = Subject
    BY <1>1, <1>3, <1>4, LinksAssumption DEF Subject, Outcome
  <2> QED
    BY <1>2, <1>4, <2>1
<1>5. made' = NoId <=> made = NoId
  BY <1>1, <1>3, LinksAssumption
<1> QED
  BY <1>1, <1>2, <1>4, <1>5 DEF Foreign

\* An answer changes nothing in the registry.
LEMMA ToldKeepsWorld ==
    ASSUME LinkInv, NEW word \in {"error", "done"}, NEW ours \in BOOLEAN,
           events' = Append(events, Told(word, ours)),
           UNCHANGED <<objects, mirror, link, made, kept>>,
           requests' \in Seq(Asking)
    PROVE  /\ LinkTypeOK' /\ MirrorFollows' /\ MadeLingers'
           /\ \E sent \in Seq(Event) :
                 /\ events' = events \o sent
                 /\ DOMAIN sent = {1} /\ sent[1] = Told(word, ours)
                 /\ \A id : SilentIn(sent, id, 0)
<1> DEFINE e == Told(word, ours)
           sent == <<e>>
<1>1. e \in Event /\ \A id : ~About(e, id)
  BY DEF Told, Event, About
<1>2. events \in Seq(Event)
  BY DEF LinkInv, LinkTypeOK
<1> HIDE DEF e
<1>3. sent \in Seq(Event) /\ DOMAIN sent = {1} /\ sent[1] = e
  BY <1>1
<1>4. events' = events \o sent
  BY <1>1, <1>2, AppendIsConcat DEF e
<1> HIDE DEF sent
<1>5. \A id : SilentIn(sent, id, 0)
  BY <1>1, <1>3 DEF SilentIn
<1>6. Reports(objects, objects', sent)
  BY <1>5 DEF Reports, SameFor
<1>7. LinkTypeOK'
  BY <1>2, <1>3, <1>4, EventsJoined DEF LinkInv, LinkTypeOK
<1>8. MirrorFollows'
  BY <1>2, <1>3, <1>4, <1>6, ReportedFollows DEF LinkInv, MirrorFollows
<1>9. MadeLingers'
  BY DEF LinkInv, MadeLingers
<1> QED
  BY <1>3, <1>4, <1>5, <1>7, <1>8, <1>9 DEF e

\* The request at the head of the queue, when it is one of the present call.
LEMMA OwnRequest ==
    ASSUME LinkInv, requests # <<>>, Head(requests).ours
    PROVE  /\ link.at = "waiting" /\ link.op \in {"connect", "disconnect"}
           /\ \/ /\ Asked
                 /\ Len(Tail(requests)) = 1
                 /\ Tail(requests)[1].do = "sync" /\ Tail(requests)[1].ours
                 /\ link.op = "connect" => Head(requests).do = "link"
                 /\ link.op = "disconnect" =>
                       Head(requests).do = "unlink" /\ Head(requests).id = link.id
              \/ /\ Decided
                 /\ Head(requests).do = "sync"
                 /\ Tail(requests) = <<>>
<1>1. /\ requests \in Seq(Asking) /\ link \in LinkCall
      /\ Head(requests) = requests[1]
      /\ Len(requests) \in Nat /\ Len(requests) >= 1
      /\ Len(Tail(requests)) = Len(requests) - 1
      /\ \A i \in 1 .. Len(requests) - 1 : Tail(requests)[i] = requests[i + 1]
      /\ 1 \in DOMAIN requests
  BY HeadTailProperties DEF LinkInv, LinkTypeOK
<1>2. link.at = "waiting" /\ link.op \in {"connect", "disconnect"}
  BY <1>1 DEF LinkInv, CallInv, NoneOurs, LinkCall
<1>3. CASE Asked
  <2>1. Len(requests) = 2
    BY <1>1, <1>3 DEF Asked
  <2>2. Head(requests) = requests[1] /\ Len(Tail(requests)) = 1 /\ Tail(requests)[1] = requests[2]
    <3>1. 1 \in 1 .. Len(requests) - 1
      BY <2>1
    <3>2. Tail(requests)[1] = requests[1 + 1]
      BY <1>1, <3>1
    <3>3. Len(Tail(requests)) = 1 /\ 1 + 1 = 2
      BY <1>1, <2>1
    <3> QED
      BY <1>1, <3>2, <3>3
  <2>3. /\ requests[2].do = "sync" /\ requests[2].ours
        /\ link.op = "connect" => requests[1].do = "link"
        /\ link.op = "disconnect" => requests[1].do = "unlink" /\ requests[1].id = link.id
    BY <1>3, <2>1 DEF Asked
  <2> QED
    BY <1>2, <1>3, <2>2, <2>3
<1>4. CASE Decided
  <2>1. Len(requests) = 1
    BY <1>4 DEF Decided
  <2>2. Tail(requests) \in Seq(Asking)
    BY <1>1, <2>1, HeadTailProperties
  <2>3. Len(Tail(requests)) = 0
    BY <1>1, <2>1
  <2>4. Tail(requests) = <<>>
    BY ONLY <2>2, <2>3, EmptySeq
  <2> QED
    BY <1>1, <1>2, <1>4, <2>4 DEF Decided
<1>5. CASE Answered
  BY <1>5 DEF Answered
<1> QED
  BY <1>2, <1>3, <1>4, <1>5 DEF LinkInv, CallInv

\* The request of the call is served, for good or bad.
LEMMA OwnServed ==
    ASSUME LinkInv, requests # <<>>, Head(requests).ours, Head(requests).do # "sync",
           requests' = Tail(requests), UNCHANGED link,
           NEW sent \in Seq(Event), events' = events \o sent,
           \A k \in DOMAIN sent : sent[k].ours => sent[k].event = "error",
           Outcome'
    PROVE  CallInv'
<1>1. /\ link.at = "waiting" /\ link.op \in {"connect", "disconnect"}
      /\ Asked
      /\ Len(requests') = 1 /\ requests'[1].do = "sync" /\ requests'[1].ours
  BY OwnRequest
<1>2. /\ DOMAIN events \subseteq DOMAIN events'
      /\ \A i \in DOMAIN events : events'[i] = events[i]
      /\ \A i \in DOMAIN events' : \/ i \in DOMAIN events
                                   \/ i - Len(events) \in DOMAIN sent
                                      /\ events'[i] = sent[i - Len(events)]
  <2>1. events \in Seq(Event)
    BY DEF LinkInv, LinkTypeOK
  <2> QED
    BY <2>1, EventsJoined
<1>3. \A i \in DOMAIN events' : events'[i].ours => events'[i].event = "error"
  BY <1>1, <1>2 DEF Asked, NoneOurs
<1>4. Decided'
  BY <1>1, <1>3 DEF Decided
<1> QED
  BY <1>1, <1>4 DEF CallInv

LEMMA ServeLinkKeeps ==
    ASSUME LinkInv, ServeLink
    PROVE  LinkInv'
<1> DEFINE r == Head(requests)
<1>1. /\ requests # <<>> /\ requests' = Tail(requests) /\ UNCHANGED <<mirror, link>>
      /\ r.do = "link" /\ r \in Asking /\ requests' \in Seq(Asking)
  BY HeadTailProperties DEF ServeLink, Request, Served, LinkInv, LinkTypeOK
<1>2. PICK src \in PortsAt(r.output), dst \in PortsAt(r.input) :
         /\ FindLink(objects, src, dst) = {}
         /\ Add(NewLink(src, dst, r.lingers))
  BY DEF ServeLink
<1>3. made' = IF r.ours THEN NewId ELSE made
  BY DEF ServeLink
<1> HIDE DEF r, NewId
<1> DEFINE o == NewLink(src, dst, r.lingers)
<1>4. o \in Object /\ o.kind = "link" /\ o.lingers
  <2>1. src \in Ids /\ dst \in Ids
    BY DEF PortsAt, LinkInv, LinkTypeOK, Holding
  <2>2. r.lingers = TRUE
    BY <1>1 DEF Asking
  <2> QED
    BY <2>1, <2>2 DEF NewLink, Object
<1> HIDE DEF o
<1>5. Add(o)
  BY <1>2 DEF o
<1>6. \/ made' = made
      \/ made' = NewId /\ o.kind = "link" /\ o.lingers
  BY <1>3, <1>4
<1>7. LinkTypeOK' /\ MirrorFollows' /\ MadeLingers'
  BY <1>1, <1>4, <1>5, <1>6, AddKeepsWorld
<1>8. CASE ~r.ours
  <2>1. Foreign
    BY <1>1, <1>3, <1>4, <1>5, <1>8, AddIsForeign DEF r
  <2> QED
    BY <1>7, <2>1, ForeignKeepsCall DEF LinkInv
<1>9. CASE r.ours
  <2>1. /\ link.op = "connect" /\ Asked
    BY <1>1, <1>9, OwnRequest DEF r
  <2>2. PICK sent : Sends(sent)
    BY <1>4, <1>5, AddReports DEF LinkInv
  <2>3. /\ sent \in Seq(Event) /\ events' = events \o sent
        /\ \A k \in DOMAIN sent : ~sent[k].ours
    BY <2>2 DEF Sends
  <2>4. made' # NoId
    <3>1. NewId \in Ids
      BY <1>4, <1>5, AddReports DEF LinkInv
    <3> QED
      BY <1>3, <1>9, <3>1, LinksAssumption
  <2>5. ~ErrorComing'
    <3>1. events \in Seq(Event)
      BY DEF LinkInv, LinkTypeOK
    <3>2. NoneOurs(events) /\ ~link.error
      BY <2>1 DEF Asked
    <3>3. \A i \in DOMAIN events' : ~events'[i].ours
      BY <2>3, <3>1, <3>2, EventsJoined DEF NoneOurs
    <3> QED
      BY <1>1, <3>2, <3>3 DEF ErrorComing
  <2>6. Outcome'
    BY <1>1, <2>1, <2>4, <2>5 DEF Outcome
  <2>7. CallInv'
    BY <1>1, <1>9, <2>3, <2>6, OwnServed DEF r
  <2> QED
    BY <1>7, <2>7 DEF LinkInv
<1> QED
  BY <1>8, <1>9

LEMMA RefuseLinkKeeps ==
    ASSUME LinkInv, RefuseLink
    PROVE  LinkInv'
<1> DEFINE r == Head(requests)
<1>1. /\ requests # <<>> /\ requests' = Tail(requests) /\ UNCHANGED <<mirror, link>>
      /\ r.do = "link" /\ r \in Asking /\ requests' \in Seq(Asking)
      /\ UNCHANGED <<objects, made, kept>>
  BY HeadTailProperties DEF RefuseLink, Request, Served, LinkInv, LinkTypeOK
<1>2. events' = Append(events, Told("error", r.ours))
  BY DEF RefuseLink
<1>3. r.ours \in BOOLEAN
  BY <1>1 DEF Asking
<1> HIDE DEF r
<1>4. LinkTypeOK' /\ MirrorFollows' /\ MadeLingers'
  BY <1>1, <1>2, <1>3, ToldKeepsWorld
<1>5. PICK sent \in Seq(Event) : /\ events' = events \o sent
                                 /\ DOMAIN sent = {1} /\ sent[1] = Told("error", r.ours)
                                 /\ \A id : SilentIn(sent, id, 0)
  BY <1>1, <1>2, <1>3, ToldKeepsWorld
<1>6. sent[1].event = "error" /\ (sent[1].ours <=> r.ours)
  BY <1>3, <1>5 DEF Told
<1>7. CASE ~r.ours
  <2>1. Sends(sent)
    BY <1>5, <1>6, <1>7 DEF Sends
  <2>2. Subject' = Subject
    BY <1>1 DEF Subject
  <2>3. Foreign
    BY <1>1, <1>5, <1>7, <2>1, <2>2 DEF Foreign, r
  <2> QED
    BY <1>4, <2>3, ForeignKeepsCall DEF LinkInv
<1>8. CASE r.ours
  <2>1. /\ link.op = "connect" /\ Asked
    BY <1>1, <1>8, OwnRequest DEF r
  <2>2. \E i \in DOMAIN events' : events'[i].ours /\ events'[i].event = "error"
    <3>1. events \in Seq(Event)
      BY DEF LinkInv, LinkTypeOK
    <3>2. Len(events) + 1 \in DOMAIN events' /\ events'[Len(events) + 1] = sent[1]
      BY <1>5, <3>1, EventsJoined
    <3> QED
      BY <1>6, <1>8, <3>2
  <2>3. made' = NoId
    BY <1>1, <2>1 DEF Asked
  <2>4. Outcome'
    BY <1>1, <2>1, <2>2, <2>3 DEF Outcome, ErrorComing
  <2>5. CallInv'
    BY <1>1, <1>5, <1>6, <1>8, <2>4, OwnServed DEF r
  <2> QED
    BY <1>4, <2>5 DEF LinkInv
<1> QED
  BY <1>7, <1>8

LEMMA ServeUnlinkKeeps ==
    ASSUME LinkInv, ServeUnlink
    PROVE  LinkInv'
<1> DEFINE r == Head(requests)
<1>1. /\ requests # <<>> /\ requests' = Tail(requests) /\ UNCHANGED <<mirror, link>>
      /\ r.do = "unlink" /\ requests' \in Seq(Asking)
      /\ UNCHANGED kept
  BY HeadTailProperties DEF ServeUnlink, Request, Served, LinkInv, LinkTypeOK
<1>2. r.id \in DOMAIN objects /\ Destroy(r.id)
  BY DEF ServeUnlink
<1> HIDE DEF r
<1>3. LinkTypeOK' /\ MirrorFollows' /\ MadeLingers'
  BY <1>1, <1>2, DestroyKeepsWorld
<1>4. CASE ~r.ours
  <2>1. Foreign
    BY <1>1, <1>2, <1>4, DestroyIsForeign DEF r
  <2> QED
    BY <1>3, <2>1, ForeignKeepsCall DEF LinkInv
<1>5. CASE r.ours
  <2>1. /\ link.op = "disconnect" /\ r.id = link.id
    BY <1>1, <1>5, OwnRequest DEF r
  <2>2. PICK sent : Sends(sent)
    BY <1>2, DestroyReports DEF LinkInv
  <2>3. /\ sent \in Seq(Event) /\ events' = events \o sent
        /\ \A k \in DOMAIN sent : ~sent[k].ours
    BY <2>2 DEF Sends
  <2>4. r.id \notin DOMAIN objects'
    BY <1>2, DestroyReports DEF LinkInv
  <2>5. Outcome'
    BY <1>1, <2>1, <2>4 DEF Outcome
  <2>6. CallInv'
    BY <1>1, <1>5, <2>3, <2>5, OwnServed DEF r
  <2> QED
    BY <1>3, <2>6 DEF LinkInv
<1> QED
  BY <1>4, <1>5

\* A request is taken that changes no object, and nothing is told.
LEMMA NothingChanged ==
    ASSUME LinkInv, UNCHANGED <<objects, mirror, link, made, events>>,
           requests' \in Seq(Asking), kept' \in BOOLEAN
    PROVE  LinkTypeOK' /\ MirrorFollows' /\ MadeLingers' /\ events' = events \o <<>>
<1>1. events \o <<>> = events
  BY ConcatEmptySeq DEF LinkInv, LinkTypeOK
<1> QED
  BY <1>1 DEF LinkInv, LinkTypeOK, MirrorFollows, MadeLingers

LEMMA RefuseUnlinkKeeps ==
    ASSUME LinkInv, RefuseUnlink
    PROVE  LinkInv'
<1> DEFINE r == Head(requests)
<1>1. /\ requests # <<>> /\ requests' = Tail(requests) /\ UNCHANGED <<mirror, link>>
      /\ r.do = "unlink" /\ requests' \in Seq(Asking)
      /\ UNCHANGED <<objects, events, made>>
  BY HeadTailProperties DEF RefuseUnlink, Request, Served, LinkInv, LinkTypeOK
<1>2. kept' \in BOOLEAN /\ (kept' <=> (kept \/ r.ours))
  BY DEF RefuseUnlink
<1> HIDE DEF r
<1>3. LinkTypeOK' /\ MirrorFollows' /\ MadeLingers' /\ events' = events \o <<>>
  BY <1>1, <1>2, NothingChanged
<1>4. /\ <<>> \in Seq(Event) /\ DOMAIN <<>> = {}
      /\ \A id : SilentIn(<<>>, id, 0)
  BY DEF SilentIn
<1>5. CASE ~r.ours
  <2>1. Sends(<<>>)
    BY <1>3, <1>4 DEF Sends
  <2>2. kept' <=> kept
    BY <1>2, <1>5
  <2>3. Subject' = Subject
    BY <1>1, <2>2 DEF Subject
  <2>4. Foreign
    BY <1>1, <1>4, <1>5, <2>1, <2>2, <2>3 DEF Foreign, r
  <2> QED
    BY <1>3, <2>4, ForeignKeepsCall DEF LinkInv
<1>6. CASE r.ours
  <2>1. link.op = "disconnect" /\ kept'
    BY <1>1, <1>2, <1>6, OwnRequest DEF r
  <2>2. Outcome'
    BY <1>1, <2>1 DEF Outcome
  <2>3. CallInv'
    BY <1>1, <1>3, <1>4, <1>6, <2>2, OwnServed DEF r
  <2> QED
    BY <1>3, <2>3 DEF LinkInv
<1> QED
  BY <1>5, <1>6

\* The links of this client linger, so that none of them goes with its proxy.
LEMMA ServeReleaseKeeps ==
    ASSUME LinkInv, ServeRelease
    PROVE  LinkInv'
<1> DEFINE r == Head(requests)
           dropped == {l \in {made} \cap DOMAIN objects : ~objects[l].lingers}
<1>1. /\ requests # <<>> /\ requests' = Tail(requests) /\ UNCHANGED <<mirror, link>>
      /\ r.do = "release" /\ requests' \in Seq(Asking)
      /\ UNCHANGED <<made, kept>>
  BY HeadTailProperties DEF ServeRelease, Request, Served, LinkInv, LinkTypeOK
<1>2. dropped = {}
  BY DEF LinkInv, LinkTypeOK, Holding, MadeLingers
<1>3. /\ objects' = Without(objects, dropped)
      /\ events' = events \o SetToSeq(RemovedAll(dropped))
  BY DEF ServeRelease, RemovedAll
<1>4. SetToSeq(RemovedAll(dropped)) = <<>>
  <2> DEFINE list == SetToSeq(RemovedAll({}))
  <2>1. /\ list \in Seq(Event)
        /\ \A k \in DOMAIN list : \E l \in {} : list[k] = Removed(l)
    <3>1. list = SetToSeq(RemovedAll({}))
      OBVIOUS
    <3> HIDE DEF list
    <3>2. {} \subseteq Ids /\ IsFiniteSet({})
      BY FS_EmptySet
    <3> QED
      BY ONLY <3>1, <3>2, RemovedListed
  <2> HIDE DEF list
  <2>2. Len(list) = 0
    <3>1. Len(list) \in Nat /\ DOMAIN list = 1 .. Len(list)
      BY <2>1
    <3>2. 1 \notin DOMAIN list
      BY <2>1
    <3> QED
      BY ONLY <3>1, <3>2
  <2>3. list = <<>>
    BY ONLY <2>1, <2>2, EmptySeq
  <2> QED
    BY <1>2, <2>3 DEF list
<1> HIDE DEF dropped
<1>5. events' = events
  BY <1>3, <1>4, ConcatEmptySeq DEF LinkInv, LinkTypeOK
<1>6. objects' = objects
  BY <1>2, <1>3 DEF Without, LinkInv, LinkTypeOK, Holding
<1>7. kept' \in BOOLEAN
  BY <1>1 DEF LinkInv, LinkTypeOK
<1>8. LinkTypeOK' /\ MirrorFollows' /\ MadeLingers' /\ events' = events \o <<>>
  BY <1>1, <1>5, <1>6, <1>7, NothingChanged
<1>9. ~r.ours
  <2> SUFFICES ASSUME r.ours
               PROVE  FALSE
    OBVIOUS
  <2> QED
    BY <1>1, OwnRequest
<1> HIDE DEF r
<1>10. Sends(<<>>) /\ \A id : SilentIn(<<>>, id, 0)
  BY <1>8 DEF Sends, SilentIn
<1>11. Subject' = Subject
  BY <1>1 DEF Subject
<1>12. Foreign
  BY <1>1, <1>6, <1>9, <1>10, <1>11 DEF Foreign, r
<1> QED
  BY <1>8, <1>12, ForeignKeepsCall DEF LinkInv

LEMMA ServeSyncKeeps ==
    ASSUME LinkInv, ServeSync
    PROVE  LinkInv'
<1> DEFINE r == Head(requests)
<1>1. /\ requests # <<>> /\ requests' = Tail(requests) /\ UNCHANGED <<mirror, link>>
      /\ r.do = "sync" /\ r \in Asking /\ requests' \in Seq(Asking)
      /\ UNCHANGED <<objects, made, kept>>
  BY HeadTailProperties DEF ServeSync, Request, Served, LinkInv, LinkTypeOK
<1>2. events' = Append(events, Told("done", r.ours))
  BY DEF ServeSync
<1>3. r.ours \in BOOLEAN
  BY <1>1 DEF Asking
<1> HIDE DEF r
<1>4. LinkTypeOK' /\ MirrorFollows' /\ MadeLingers'
  BY <1>1, <1>2, <1>3, ToldKeepsWorld
<1>5. PICK sent \in Seq(Event) : /\ events' = events \o sent
                                 /\ DOMAIN sent = {1} /\ sent[1] = Told("done", r.ours)
                                 /\ \A id : SilentIn(sent, id, 0)
  BY <1>1, <1>2, <1>3, ToldKeepsWorld
<1>6. sent[1].event = "done" /\ (sent[1].ours <=> r.ours)
  BY <1>3, <1>5 DEF Told
<1>7. Subject' = Subject
  BY <1>1 DEF Subject
<1>8. CASE ~r.ours
  <2>1. Sends(sent)
    BY <1>5, <1>6, <1>8 DEF Sends
  <2>2. Foreign
    BY <1>1, <1>5, <1>7, <1>8, <2>1 DEF Foreign, r
  <2> QED
    BY <1>4, <2>2, ForeignKeepsCall DEF LinkInv
<1>9. CASE r.ours
  <2>1. /\ link.at = "waiting" /\ link.op \in {"connect", "disconnect"}
        /\ Decided /\ requests' = <<>>
    <3>1. link.at = "waiting" /\ link.op \in {"connect", "disconnect"}
      BY <1>1, <1>9, OwnRequest DEF r
    <3> QED
      BY <1>1, <1>9, <3>1, OwnRequest DEF r
  <2> DEFINE d == Len(events) + 1
  <2>2. /\ d \in DOMAIN events' /\ events'[d].ours /\ events'[d].event = "done"
        /\ \A i \in DOMAIN events' : i = d \/ (i \in DOMAIN events /\ i < d)
        /\ \A i \in DOMAIN events : events'[i] = events[i] /\ i \in DOMAIN events'
    <3>1. events \in Seq(Event)
      BY DEF LinkInv, LinkTypeOK
    <3>2. /\ Len(events) \in Nat /\ DOMAIN events = 1 .. Len(events)
          /\ Len(sent) = 1
          /\ DOMAIN events' = 1 .. Len(events) + 1
          /\ \A i \in DOMAIN events : events'[i] = events[i]
          /\ events'[d] = sent[1]
      <4>1. /\ Len(events) \in Nat /\ DOMAIN events = 1 .. Len(events)
            /\ DOMAIN sent = 1 .. Len(sent) /\ Len(sent) \in Nat
            /\ DOMAIN events' = 1 .. Len(events) + Len(sent)
            /\ \A i \in DOMAIN events : events'[i] = events[i]
            /\ \A i \in DOMAIN sent : events'[Len(events) + i] = sent[i]
        BY <1>5, <3>1, EventsJoined
      <4>2. Len(sent) = 1
        BY <1>5, <4>1
      <4> QED
        BY <1>5, <4>1, <4>2
    <3>3. d \in DOMAIN events' /\ events'[d] = sent[1]
      BY <3>2
    <3>4. /\ \A i \in DOMAIN events' : i = d \/ (i \in DOMAIN events /\ i < d)
          /\ \A i \in DOMAIN events : events'[i] = events[i] /\ i \in DOMAIN events'
      BY <3>2
    <3> HIDE DEF d
    <3> QED
      BY <1>6, <1>9, <3>3, <3>4
  <2> HIDE DEF d
  <2>3. \A i \in DOMAIN events' :
           i # d /\ events'[i].ours => i < d /\ events'[i].event = "error"
    BY <2>1, <2>2 DEF Decided
  <2>4. SilentIn(events', Subject', d)
    <3>1. \A i \in DOMAIN events' : ~(i > d)
      <4>1. events' \in Seq(Event) /\ events \in Seq(Event)
        BY <1>4 DEF LinkInv, LinkTypeOK
      <4> QED
        BY <2>2, <4>1 DEF d
    <3> QED
      BY <3>1 DEF SilentIn
  <2>5. ErrorComing' <=> ErrorComing
    BY <1>1, <2>2, <2>3 DEF ErrorComing
  <2>6. Outcome'
    BY <1>1, <2>1, <2>5 DEF Outcome, Decided
  <2>7. Answered'
    BY <2>1, <2>2, <2>3, <2>4, <2>6 DEF Answered
  <2>8. CallInv'
    BY <1>1, <2>1, <2>7 DEF CallInv
  <2> QED
    BY <1>4, <2>8 DEF LinkInv
<1> QED
  BY <1>8, <1>9

\* No step of the server breaks the invariant, whoever it is made for.
LEMMA ServerKeeps ==
    ASSUME LinkInv, ServerStep
    PROVE  LinkInv'
<1>1. requests \in Seq(Asking)
  BY DEF LinkInv, LinkTypeOK
<1>2. ASSUME NEW p \in Outputs \cup Inputs, PortAppears(p)
      PROVE  LinkInv'
  <2> DEFINE o == PortAt(p)
  <2>1. o \in Object
    BY DEF PortAt, Object
  <2>2. Add(o) /\ UNCHANGED <<mirror, link, requests, made>>
    BY <1>2 DEF PortAppears, Elsewhere
  <2> HIDE DEF o
  <2>3. LinkTypeOK' /\ MirrorFollows' /\ MadeLingers'
    <3>1. UNCHANGED <<mirror, link>> /\ requests' \in Seq(Asking) /\ made' = made
      BY <1>1, <2>2
    <3> QED
      BY ONLY LinkInv, <2>1, <2>2, <3>1, AddKeepsWorld
  <2>4. CallInv'
    BY <2>1, <2>2, AddIsForeign, ForeignKeepsCall DEF LinkInv
  <2> QED
    BY <2>3, <2>4 DEF LinkInv
<1>3. ASSUME NEW out \in Outputs, NEW in \in Inputs,
             NEW src \in PortsAt(out), NEW dst \in PortsAt(in), LinkAppears(src, dst)
      PROVE  LinkInv'
  <2> DEFINE o == NewLink(src, dst, TRUE)
  <2>1. o \in Object
    BY DEF NewLink, Object, PortsAt, LinkInv, LinkTypeOK, Holding
  <2>2. Add(o) /\ UNCHANGED <<mirror, link, requests, made>>
    BY <1>3 DEF LinkAppears, Elsewhere
  <2> HIDE DEF o
  <2>3. LinkTypeOK' /\ MirrorFollows' /\ MadeLingers'
    <3>1. UNCHANGED <<mirror, link>> /\ requests' \in Seq(Asking) /\ made' = made
      BY <1>1, <2>2
    <3> QED
      BY ONLY LinkInv, <2>1, <2>2, <3>1, AddKeepsWorld
  <2>4. CallInv'
    BY <2>1, <2>2, AddIsForeign, ForeignKeepsCall DEF LinkInv
  <2> QED
    BY <2>3, <2>4 DEF LinkInv
<1>4. ASSUME NEW id \in DOMAIN objects, ObjectGoes(id)
      PROVE  LinkInv'
  <2>1. Destroy(id) /\ UNCHANGED <<mirror, link, requests, kept>>
    BY <1>4 DEF ObjectGoes, Elsewhere
  <2>2. LinkTypeOK' /\ MirrorFollows' /\ MadeLingers'
    BY <1>1, <2>1, DestroyKeepsWorld
  <2>3. CallInv'
    BY <2>1, DestroyIsForeign, ForeignKeepsCall DEF LinkInv
  <2> QED
    BY <2>2, <2>3 DEF LinkInv
<1> QED
  BY <1>2, <1>3, <1>4, ServeLinkKeeps, RefuseLinkKeeps, ServeUnlinkKeeps,
     RefuseUnlinkKeeps, ServeReleaseKeeps, ServeSyncKeeps DEF ServerStep

-----------------------------------------------------------------------------
(* Steps of the client *)

\* What an event does to the mirror is what it says.
LEMMA AppliedSays ==
    ASSUME LinkTypeOK, NEW e \in Event
    PROVE  /\ Holding(Applied(e))
           /\ \A id \in Ids : IF About(e, id) THEN Says(e, id, Applied(e))
                                              ELSE SameFor(id, Applied(e), mirror)
<1>1. Holding(mirror)
  BY DEF LinkTypeOK
<1>2. CASE e.event = "added"
  <2>1. e.id \in Ids /\ e.object \in Object
    BY <1>2 DEF Event
  <2>2. Applied(e) = With(mirror, e.id, e.object)
    BY <1>2 DEF Applied
  <2>3. /\ Holding(Applied(e))
        /\ DOMAIN Applied(e) = DOMAIN mirror \cup {e.id}
        /\ Applied(e)[e.id] = e.object
        /\ \A i \in DOMAIN mirror : i # e.id => Applied(e)[i] = mirror[i]
    <3>1. /\ Holding(With(mirror, e.id, e.object))
          /\ DOMAIN With(mirror, e.id, e.object) = DOMAIN mirror \cup {e.id}
          /\ With(mirror, e.id, e.object)[e.id] = e.object
          /\ \A i \in DOMAIN mirror :
                i # e.id => With(mirror, e.id, e.object)[i] = mirror[i]
      BY ONLY <1>1, <2>1, WithHolds, ZenonT(60)
    <3> QED
      BY <2>2, <3>1
  <2> QED
    BY <1>2, <2>3 DEF About, Says, SameFor
<1>3. CASE e.event = "removed"
  <2>1. Applied(e) = Without(mirror, {e.id})
    BY <1>3 DEF Applied
  <2>2. /\ Holding(Applied(e))
        /\ DOMAIN Applied(e) = DOMAIN mirror \ {e.id}
        /\ \A i \in DOMAIN mirror \ {e.id} : Applied(e)[i] = mirror[i]
    <3>1. /\ Holding(Without(mirror, {e.id}))
          /\ DOMAIN Without(mirror, {e.id}) = DOMAIN mirror \ {e.id}
          /\ \A i \in DOMAIN mirror \ {e.id} : Without(mirror, {e.id})[i] = mirror[i]
      BY <1>1, WithoutHolds
    <3> QED
      BY <2>1, <3>1
  <2> QED
    BY <1>3, <2>2 DEF About, Says, SameFor
<1>4. CASE e.event \notin {"added", "removed"}
  BY <1>1, <1>4 DEF Applied, About, SameFor
<1> QED
  BY <1>2, <1>3, <1>4

LEMMA DispatchKeeps ==
    ASSUME LinkInv, DispatchEvent
    PROVE  LinkInv'
<1> DEFINE e == events[1]
           rest == Tail(events)
<1>1. /\ events \in Seq(Event) /\ events # <<>> /\ link \in LinkCall
      /\ e = Head(events) /\ e \in Event
      /\ events' = rest /\ rest \in Seq(Event)
      /\ Len(events) \in Nat /\ Len(events) >= 1
      /\ DOMAIN events = 1 .. Len(events) /\ DOMAIN rest = 1 .. Len(events) - 1
      /\ \A i \in 1 .. Len(events) - 1 : rest[i] = events[i + 1]
  BY HeadTailProperties DEF DispatchEvent, LinkInv, LinkTypeOK
<1>2. /\ mirror' = Applied(e)
      /\ UNCHANGED <<objects, requests, made, kept>>
      /\ link' = IF e.ours
                 THEN IF e.event = "error" THEN [link EXCEPT !.error = TRUE]
                                           ELSE [link EXCEPT !.at = "woken"]
                 ELSE link
  BY <1>1 DEF DispatchEvent, serverVars
<1> HIDE DEF e, rest
<1>3. /\ \A i \in DOMAIN events' : i + 1 \in DOMAIN events /\ events'[i] = events[i + 1]
      /\ \A i \in DOMAIN events : i = 1 \/ (i - 1 \in DOMAIN events' /\ events'[i - 1] = events[i])
      /\ 1 \in DOMAIN events /\ e = events[1]
  BY <1>1 DEF e
<1>4. link' \in LinkCall /\ link'.op = link.op /\ link'.id = link.id
  BY <1>1, <1>2 DEF LinkCall
<1>5. LinkTypeOK'
  BY <1>1, <1>2, <1>4, AppliedSays DEF LinkInv, LinkTypeOK
<1>6. MirrorFollows'
  <2>1. Follows(objects, mirror, events)
    BY DEF LinkInv, MirrorFollows
  <2>2. \A id \in Ids : IF About(Head(events), id)
                        THEN Says(Head(events), id, Applied(e))
                        ELSE SameFor(id, Applied(e), mirror)
    BY <1>1, AppliedSays DEF LinkInv
  <2>3. Follows(objects, Applied(e), Tail(events))
    BY <1>1, <2>1, <2>2, DispatchedFollows
  <2> QED
    BY <1>1, <1>2, <2>3 DEF MirrorFollows, rest
<1>7. MadeLingers'
  BY <1>2 DEF LinkInv, MadeLingers
<1>8. Subject' = Subject
  BY <1>2, <1>4 DEF Subject
<1>9. \A d \in Nat : SilentIn(events, Subject, d + 1) => SilentIn(events', Subject', d)
  <2> SUFFICES ASSUME NEW d \in Nat, SilentIn(events, Subject, d + 1),
                      NEW k \in DOMAIN events', k > d
               PROVE  ~About(events'[k], Subject)
    BY <1>8 DEF SilentIn
  <2>1. k \in Int /\ k + 1 > d + 1
    BY <1>1
  <2> QED
    BY <1>3, <2>1 DEF SilentIn
<1>10. NoneOurs(events) => NoneOurs(events') /\ link' = link
  BY <1>2, <1>3 DEF NoneOurs
<1>11. SilentIn(events, Subject, 0) => SilentIn(events', Subject', 0)
  <2>1. SilentIn(events, Subject, 0) => SilentIn(events, Subject, 1)
    BY <1>1 DEF SilentIn
  <2> QED
    BY <1>9, <2>1
<1>12. CASE ~e.ours
  <2>1. link' = link
    BY <1>2, <1>12
  <2>2. ErrorComing' <=> ErrorComing
    BY <1>3, <1>12, <2>1 DEF ErrorComing
  <2>3. Outcome' <=> Outcome
    BY <1>2, <2>1, <2>2 DEF Outcome
  <2>4. Asked => Asked'
    BY <1>2, <1>10, <2>1 DEF Asked
  <2>5. Decided => Decided'
    BY <1>2, <1>3, <2>3 DEF Decided
  <2>6. Answered => Answered'
    <3> SUFFICES ASSUME Answered
                 PROVE  Answered'
      OBVIOUS
    <3>1. PICK d \in DOMAIN events :
             /\ events[d].ours /\ events[d].event = "done"
             /\ \A i \in DOMAIN events :
                   i # d /\ events[i].ours => i < d /\ events[i].event = "error"
             /\ SilentIn(events, Subject, d)
      BY DEF Answered
    <3>2. d # 1 /\ d - 1 \in DOMAIN events' /\ events'[d - 1] = events[d]
      BY <1>3, <1>12, <3>1
    <3>3. \A i \in DOMAIN events' :
             i # d - 1 /\ events'[i].ours => i < d - 1 /\ events'[i].event = "error"
      <4> SUFFICES ASSUME NEW i \in DOMAIN events', i # d - 1, events'[i].ours
                   PROVE  i < d - 1 /\ events'[i].event = "error"
        OBVIOUS
      <4>1. i \in Int /\ d \in Int /\ i + 1 # d
        BY <1>1
      <4>2. i + 1 < d /\ events[i + 1].event = "error"
        BY <1>3, <3>1, <4>1
      <4> QED
        BY <1>3, <4>1, <4>2
    <3>4. SilentIn(events', Subject', d - 1)
      <4>1. d - 1 \in Nat /\ (d - 1) + 1 = d
        BY <1>1
      <4> QED
        BY <1>9, <3>1, <4>1
    <3> QED
      BY <1>2, <2>3, <3>1, <3>2, <3>3, <3>4 DEF Answered
  <2>7. CallInv'
    BY <1>2, <1>10, <1>11, <2>1, <2>3, <2>4, <2>5, <2>6 DEF LinkInv, CallInv
  <2> QED
    BY <1>5, <1>6, <1>7, <2>7 DEF LinkInv
<1>13. CASE e.ours
  <2>1. link.at = "waiting" /\ (Decided \/ Answered)
    <3>1. ~NoneOurs(events)
      BY <1>3, <1>13 DEF NoneOurs
    <3> QED
      BY <1>1, <3>1 DEF LinkInv, CallInv, LinkCall, Asked
  <2>2. link.op # "none"
    BY <2>1 DEF LinkInv, CallInv
  <2>3. CASE e.event = "error"
    <3>1. link' = [link EXCEPT !.error = TRUE]
      BY <1>2, <1>13, <2>3
    <3>2. link'.error /\ link'.at = "waiting"
      BY <1>1, <2>1, <3>1 DEF LinkCall
    <3>3. ErrorComing /\ ErrorComing'
      BY <1>3, <1>13, <2>3, <3>2 DEF ErrorComing
    <3>4. Outcome => Outcome'
      BY <1>2, <1>4, <3>3 DEF Outcome
    <3>5. Decided => Decided'
      BY <1>2, <1>3, <3>4 DEF Decided
    <3>6. Answered => Answered'
      <4> SUFFICES ASSUME Answered
                   PROVE  Answered'
        OBVIOUS
      <4>1. PICK d \in DOMAIN events :
               /\ events[d].ours /\ events[d].event = "done"
               /\ \A i \in DOMAIN events :
                     i # d /\ events[i].ours => i < d /\ events[i].event = "error"
               /\ SilentIn(events, Subject, d)
        BY DEF Answered
      <4>2. d # 1 /\ d - 1 \in DOMAIN events' /\ events'[d - 1] = events[d]
        BY <1>3, <2>3, <4>1
      <4>3. \A i \in DOMAIN events' :
               i # d - 1 /\ events'[i].ours => i < d - 1 /\ events'[i].event = "error"
        <5> SUFFICES ASSUME NEW i \in DOMAIN events', i # d - 1, events'[i].ours
                     PROVE  i < d - 1 /\ events'[i].event = "error"
          OBVIOUS
        <5>1. i \in Int /\ d \in Int /\ i + 1 # d
          BY <1>1
        <5>2. i + 1 < d /\ events[i + 1].event = "error"
          BY <1>3, <4>1, <5>1
        <5> QED
          BY <1>3, <5>1, <5>2
      <4>4. SilentIn(events', Subject', d - 1)
        <5>1. d - 1 \in Nat /\ (d - 1) + 1 = d
          BY <1>1
        <5> QED
          BY <1>9, <4>1, <5>1
      <4> QED
        BY <1>2, <3>4, <4>1, <4>2, <4>3, <4>4 DEF Answered
    <3>7. CallInv'
      BY <1>4, <2>1, <2>2, <3>2, <3>5, <3>6 DEF CallInv
    <3> QED
      BY <1>5, <1>6, <1>7, <3>7 DEF LinkInv
  <2>4. CASE e.event # "error"
    <3>1. /\ link' = [link EXCEPT !.at = "woken"]
      BY <1>2, <1>13, <2>4
    <3>2. link'.error = link.error /\ link'.at = "woken"
      BY <1>1, <3>1 DEF LinkCall
    <3>3. Answered
      BY <1>3, <1>13, <2>1, <2>4 DEF Decided
    <3>4. PICK d \in DOMAIN events :
             /\ events[d].ours /\ events[d].event = "done"
             /\ \A i \in DOMAIN events :
                   i # d /\ events[i].ours => i < d /\ events[i].event = "error"
             /\ SilentIn(events, Subject, d)
      BY <3>3 DEF Answered
    <3>5. d = 1
      BY <1>3, <1>13, <2>4, <3>4
    <3>6. \A i \in DOMAIN events : events[i].ours => i = 1
      BY <1>1, <3>4, <3>5
    <3>7. NoneOurs(events')
      <4>1. \A i \in DOMAIN events' : i + 1 # 1
        BY <1>1
      <4> QED
        BY <1>3, <3>6, <4>1 DEF NoneOurs
    <3>8. ErrorComing' <=> ErrorComing
      BY <1>3, <2>4, <3>2, <3>6, <3>7 DEF ErrorComing, NoneOurs
    <3>9. Outcome'
      BY <1>2, <1>4, <3>3, <3>8 DEF Outcome, Answered
    <3>10. SilentIn(events', Subject', 0)
      BY <1>9, <3>4, <3>5
    <3>11. CallInv'
      BY <1>2, <1>4, <2>2, <3>2, <3>3, <3>7, <3>9, <3>10 DEF CallInv, Answered
    <3> QED
      BY <1>5, <1>6, <1>7, <3>11 DEF LinkInv
  <2> QED
    BY <2>3, <2>4
<1> QED
  BY <1>12, <1>13

\* A call sends its request and the synchronisation behind what is on its way.
LEMMA RequestSent ==
    ASSUME LinkInv, link.at = "idle",
           NEW r \in Asking, r.ours,
           requests' = requests \o <<r, Sync(TRUE)>>,
           UNCHANGED <<objects, mirror, events>>,
           link' \in LinkCall, link'.at = "waiting", ~link'.error,
           link'.op \in {"connect", "disconnect"},
           made' \in Ids \cup {NoId, Gone}, kept' \in BOOLEAN,
           made' = made \/ made' = NoId,
           link'.op = "connect" => r.do = "link" /\ made' = NoId,
           link'.op = "disconnect" => r.do = "unlink" /\ r.id = link'.id
    PROVE  LinkInv'
<1> DEFINE q == requests'
           n == Len(requests)
           s == Sync(TRUE)
           pair == <<r, s>>
<1>1. s \in Asking /\ s.do = "sync" /\ s.ours
  BY DEF Sync, Asking
<1> HIDE DEF s
<1>2. requests \in Seq(Asking) /\ n \in Nat
  BY DEF LinkInv, LinkTypeOK
<1>3. pair \in Seq(Asking) /\ Len(pair) = 2 /\ pair[1] = r /\ pair[2] = s
  BY <1>1
<1>4. requests' = requests \o pair
  BY DEF s
<1> HIDE DEF pair
<1>5. /\ requests' \in Seq(Asking)
      /\ Len(requests') = n + 2
      /\ \A i \in 1 .. n + 2 : requests'[i] = IF i <= n THEN requests[i] ELSE pair[i - n]
  <2>1. /\ requests \o pair \in Seq(Asking)
        /\ Len(requests \o pair) = Len(requests) + Len(pair)
        /\ \A i \in 1 .. Len(requests) + Len(pair) :
              (requests \o pair)[i] = IF i <= Len(requests) THEN requests[i]
                                      ELSE pair[i - Len(requests)]
    BY <1>2, <1>3, ConcatProperties
  <2> QED
    BY <1>3, <1>4, <2>1
<1> HIDE DEF n
<1>6. /\ requests'[n + 1] = r /\ requests'[n + 2] = s
      /\ \A i \in 1 .. n : requests'[i] = requests[i]
  <2>1. /\ n + 1 \in 1 .. n + 2 /\ n + 2 \in 1 .. n + 2
        /\ ~(n + 1 <= n) /\ ~(n + 2 <= n) /\ (n + 1) - n = 1 /\ (n + 2) - n = 2
        /\ \A i \in 1 .. n : i \in 1 .. n + 2 /\ i <= n
    BY <1>2
  <2>2. requests'[n + 1] = pair[1] /\ requests'[n + 2] = pair[2]
    BY <1>5, <2>1
  <2>3. \A i \in 1 .. n : requests'[i] = requests[i]
    BY <1>5, <2>1
  <2> QED
    BY <1>3, <2>2, <2>3
<1>7. \A i \in 1 .. n : ~requests[i].ours
  BY <1>2 DEF LinkInv, CallInv, NoneOurs, n
<1>8. LinkTypeOK'
  BY <1>5 DEF LinkInv, LinkTypeOK
<1>9. MirrorFollows' /\ MadeLingers'
  BY LinksAssumption DEF LinkInv, MirrorFollows, MadeLingers
<1>10. NoneOurs(events')
  BY DEF LinkInv, CallInv
<1>11. /\ Len(requests') >= 2 /\ Len(requests') - 1 = n + 1
       /\ \A i \in 1 .. Len(requests') - 2 : i \in 1 .. n
  BY <1>2, <1>5
<1>12. Asked'
  <2>1. /\ requests'[Len(requests') - 1] = r /\ requests'[Len(requests')] = s
        /\ \A i \in 1 .. Len(requests') - 2 : ~requests'[i].ours
    BY <1>5, <1>6, <1>7, <1>11
  <2> QED
    BY <1>1, <1>10, <1>11, <2>1 DEF Asked
<1> QED
  BY <1>8, <1>9, <1>12 DEF LinkInv, CallInv

LEMMA ConnectKeeps ==
    ASSUME LinkInv, NEW source \in Outputs, NEW destination \in Inputs,
           ConnectPorts(source, destination)
    PROVE  LinkInv'
<1> DEFINE r == LinkRequest(source, destination)
<1>1. r \in Asking /\ r.ours /\ r.do = "link"
  BY DEF LinkRequest, Asking
<1>2. /\ link.at = "idle"
      /\ requests' = requests \o <<r, Sync(TRUE)>>
      /\ made' = NoId
      /\ UNCHANGED <<objects, mirror, events, kept>>
  BY DEF ConnectPorts
<1>3. PICK src \in Knows(source), dst \in Knows(destination) :
         link' = [op |-> "connect", at |-> "waiting", src |-> src, dst |-> dst,
                  id |-> NoId, error |-> FALSE]
  BY DEF ConnectPorts
<1>4. src \in Ids /\ dst \in Ids
  BY DEF Knows, LinkInv, LinkTypeOK, Holding
<1>5. /\ link' \in LinkCall /\ link'.at = "waiting" /\ ~link'.error
      /\ link'.op = "connect"
  BY <1>3, <1>4 DEF LinkCall
<1>6. kept' \in BOOLEAN
  BY <1>2 DEF LinkInv, LinkTypeOK
<1> HIDE DEF r
<1> QED
  BY <1>1, <1>2, <1>5, <1>6, RequestSent

LEMMA DisconnectKeeps ==
    ASSUME LinkInv, NEW source \in Outputs, NEW destination \in Inputs,
           DisconnectPorts(source, destination)
    PROVE  LinkInv'
<1>1. PICK src \in Knows(source), dst \in Knows(destination) :
         \E id \in FindLink(mirror, src, dst) :
            /\ link' = [op |-> "disconnect", at |-> "waiting", src |-> src, dst |-> dst,
                        id |-> id, error |-> FALSE]
            /\ requests' = requests \o
                  << [do |-> "unlink", id |-> id, ours |-> TRUE], Sync(TRUE) >>
  BY DEF DisconnectPorts
<1>2. PICK id \in FindLink(mirror, src, dst) :
         /\ link' = [op |-> "disconnect", at |-> "waiting", src |-> src, dst |-> dst,
                     id |-> id, error |-> FALSE]
         /\ requests' = requests \o
               << [do |-> "unlink", id |-> id, ours |-> TRUE], Sync(TRUE) >>
  BY <1>1
<1>3. src \in Ids /\ dst \in Ids /\ id \in Ids
  BY DEF Knows, FindLink, LinkInv, LinkTypeOK, Holding
<1> DEFINE r == [do |-> "unlink", id |-> id, ours |-> TRUE]
<1>4. r \in Asking /\ r.ours /\ r.do = "unlink" /\ r.id = id
  BY <1>3 DEF Asking
<1>5. /\ link' \in LinkCall /\ link'.at = "waiting" /\ ~link'.error
      /\ link'.op = "disconnect" /\ link'.id = id
  BY <1>2, <1>3 DEF LinkCall
<1>6. /\ link.at = "idle" /\ kept' \in BOOLEAN
      /\ UNCHANGED <<objects, mirror, events, made>>
      /\ made' \in Ids \cup {NoId, Gone}
  BY DEF DisconnectPorts, LinkInv, LinkTypeOK
<1>7. requests' = requests \o <<r, Sync(TRUE)>>
  BY <1>2
<1> HIDE DEF r
<1> QED
  BY <1>4, <1>5, <1>6, <1>7, RequestSent

\* What is nobody's says the same.
LEMMA DisownedEvents ==
    ASSUME NEW es \in Seq(Event)
    PROVE  /\ Disowned(es) \in Seq(Event) /\ DOMAIN Disowned(es) = DOMAIN es
           /\ NoneOurs(Disowned(es))
           /\ \A id, i : SilentIn(Disowned(es), id, i) <=> SilentIn(es, id, i)
           /\ \A os, m : Follows(os, m, es) => Follows(os, m, Disowned(es))
<1> DEFINE q == Disowned(es)
<1>1. Len(es) \in Nat /\ DOMAIN es = 1 .. Len(es) /\ \A i \in 1 .. Len(es) : es[i] \in Event
  BY ElementOfSeq
<1>2. \A e \in Event : \A f : f = [e EXCEPT !.ours = FALSE] =>
         /\ f \in Event /\ ~f.ours /\ f.event = e.event
         /\ \A id : About(f, id) <=> About(e, id)
         /\ e.event = "added" => f.object = e.object
  BY DEF Event, About
<1>3. DOMAIN q = DOMAIN es /\ \A i \in DOMAIN es : q[i] = [es[i] EXCEPT !.ours = FALSE]
  BY DEF Disowned
<1>4. q = [i \in 1 .. Len(es) |-> [es[i] EXCEPT !.ours = FALSE]]
  BY <1>1 DEF Disowned
<1>5. q \in [1 .. Len(es) -> Event]
  BY <1>1, <1>2, <1>4
<1>6. q \in Seq(Event)
  BY <1>1, <1>5, SeqDef
<1> HIDE DEF q
<1>7. \A i \in DOMAIN es :
         /\ ~q[i].ours /\ q[i].event = es[i].event
         /\ \A id : About(q[i], id) <=> About(es[i], id)
         /\ es[i].event = "added" => q[i].object = es[i].object
  BY <1>1, <1>2, <1>3
<1>8. \A id, i : SilentIn(q, id, i) <=> SilentIn(es, id, i)
  BY <1>3, <1>7 DEF SilentIn
<1>9. \A i \in DOMAIN es : \A id, os : Says(es[i], id, os) => Says(q[i], id, os)
  BY <1>7 DEF Says
<1>10. \A os, m : Follows(os, m, es) => Follows(os, m, q)
  BY <1>3, <1>7, <1>8, <1>9 DEF Follows
<1> QED
  BY <1>3, <1>6, <1>7, <1>8, <1>10 DEF NoneOurs, q

LEMMA DisownedRequests ==
    ASSUME NEW rs \in Seq(Asking)
    PROVE  Disowned(rs) \in Seq(Asking) /\ NoneOurs(Disowned(rs))
<1> DEFINE q == Disowned(rs)
<1>1. Len(rs) \in Nat /\ DOMAIN rs = 1 .. Len(rs) /\ \A i \in 1 .. Len(rs) : rs[i] \in Asking
  BY ElementOfSeq
<1>2. \A r \in Asking : \A f : f = [r EXCEPT !.ours = FALSE] => f \in Asking /\ ~f.ours
  BY DEF Asking
<1>3. q = [i \in 1 .. Len(rs) |-> [rs[i] EXCEPT !.ours = FALSE]]
  BY <1>1 DEF Disowned
<1>4. q \in [1 .. Len(rs) -> Asking] /\ \A i \in 1 .. Len(rs) : ~q[i].ours
  <2>1. \A i \in 1 .. Len(rs) : q[i] = [rs[i] EXCEPT !.ours = FALSE]
    BY <1>3
  <2>2. \A i \in 1 .. Len(rs) : q[i] \in Asking /\ ~q[i].ours
    BY <1>1, <1>2, <2>1
  <2> QED
    BY <1>3, <2>2
<1>5. q \in Seq(Asking) /\ DOMAIN q = 1 .. Len(rs)
  BY <1>1, <1>3, <1>4, SeqDef
<1> HIDE DEF q
<1> QED
  BY <1>4, <1>5 DEF NoneOurs, q

LEMMA SyncedKeeps ==
    ASSUME LinkInv, NEW ok \in BOOLEAN, LinkSynced(ok)
    PROVE  LinkInv'
<1>1. /\ link.at = (IF ok THEN "woken" ELSE "waiting")
      /\ link' = [link EXCEPT !.at = IF ok THEN "synced" ELSE "failed"]
      /\ events' = Disowned(events)
      /\ UNCHANGED <<objects, mirror, made, kept>>
      /\ events \in Seq(Event) /\ requests \in Seq(Asking) /\ link \in LinkCall
  BY DEF LinkSynced, LinkInv, LinkTypeOK
<1>2. /\ link' \in LinkCall /\ link'.at = (IF ok THEN "synced" ELSE "failed")
      /\ link'.op = link.op /\ link'.id = link.id /\ link'.error = link.error
  BY <1>1 DEF LinkCall
<1>3. requests' \in Seq(Asking) /\ NoneOurs(requests')
  <2> DEFINE q == Disowned(requests)
             p == IF link.op = "connect" THEN <<Release>> ELSE <<>>
  <2>1. q \in Seq(Asking) /\ NoneOurs(q)
    BY <1>1, DisownedRequests
  <2>2. Release \in Asking /\ ~Release.ours
    BY DEF Release, Asking
  <2>3. p \in Seq(Asking) /\ NoneOurs(p)
    <3>1. CASE link.op = "connect"
      BY <2>2, <3>1 DEF NoneOurs
    <3>2. CASE link.op # "connect"
      BY <3>2 DEF NoneOurs
    <3> QED
      BY <3>1, <3>2
  <2>4. requests' = q \o p
    BY DEF LinkSynced
  <2> HIDE DEF q, p
  <2>5. /\ Len(q) \in Nat /\ Len(p) \in Nat
        /\ DOMAIN q = 1 .. Len(q) /\ DOMAIN p = 1 .. Len(p)
        /\ requests' \in Seq(Asking)
        /\ DOMAIN requests' = 1 .. Len(q) + Len(p)
        /\ \A i \in 1 .. Len(q) + Len(p) :
              requests'[i] = IF i <= Len(q) THEN q[i] ELSE p[i - Len(q)]
    <3>1. /\ q \o p \in Seq(Asking)
          /\ Len(q \o p) = Len(q) + Len(p)
          /\ \A i \in 1 .. Len(q) + Len(p) :
                (q \o p)[i] = IF i <= Len(q) THEN q[i] ELSE p[i - Len(q)]
      BY <2>1, <2>3, ConcatProperties
    <3> QED
      BY <2>1, <2>3, <2>4, <3>1
  <2>6. /\ \A i \in 1 .. Len(q) : ~q[i].ours
        /\ \A i \in 1 .. Len(p) : ~p[i].ours
    BY <2>1, <2>3, <2>5 DEF NoneOurs
  <2>7. \A i \in 1 .. Len(q) + Len(p) : ~requests'[i].ours
    <3> SUFFICES ASSUME NEW i \in 1 .. Len(q) + Len(p)
                 PROVE  ~requests'[i].ours
      OBVIOUS
    <3>1. CASE i <= Len(q)
      <4>1. i \in 1 .. Len(q)
        BY <2>5, <3>1
      <4> QED
        BY <2>5, <2>6, <3>1, <4>1
    <3>2. CASE ~(i <= Len(q))
      <4>1. i - Len(q) \in 1 .. Len(p)
        BY <2>5, <3>2
      <4> QED
        BY <2>5, <2>6, <3>2, <4>1
    <3> QED
      BY <3>1, <3>2
  <2> QED
    BY <2>5, <2>7 DEF NoneOurs
<1>4. /\ events' \in Seq(Event) /\ NoneOurs(events')
      /\ \A id, i : SilentIn(events', id, i) <=> SilentIn(events, id, i)
      /\ Follows(objects, mirror, events')
  BY <1>1, DisownedEvents DEF LinkInv, MirrorFollows
<1>5. LinkTypeOK' /\ MirrorFollows' /\ MadeLingers'
  BY <1>1, <1>2, <1>3, <1>4 DEF LinkInv, LinkTypeOK, MirrorFollows, MadeLingers
<1>6. Subject' = Subject
  BY <1>1, <1>2 DEF Subject
<1>7. CASE ok
  <2>1. Outcome /\ SilentIn(events, Subject, 0) /\ NoneOurs(events)
    BY <1>1, <1>7 DEF LinkInv, CallInv
  <2>2. ErrorComing' <=> ErrorComing
    BY <1>2, <1>4, <2>1 DEF ErrorComing, NoneOurs
  <2>3. Outcome'
    BY <1>1, <1>2, <2>1, <2>2 DEF Outcome
  <2>4. CallInv'
    BY <1>1, <1>2, <1>3, <1>4, <1>6, <1>7, <2>1, <2>3 DEF LinkInv, CallInv
  <2> QED
    BY <1>5, <2>4 DEF LinkInv
<1>8. CASE ~ok
  <2>1. CallInv'
    BY <1>1, <1>2, <1>3, <1>4, <1>8 DEF LinkInv, CallInv
  <2> QED
    BY <1>5, <2>1 DEF LinkInv
<1> QED
  BY <1>7, <1>8

LEMMA ReturnKeeps ==
    ASSUME LinkInv, LinkReturns
    PROVE  LinkInv'
<1>1. /\ UNCHANGED <<objects, mirror, requests, events, made, kept>>
      /\ link' = NoCall /\ link.at \in {"synced", "failed"}
  BY DEF LinkReturns, serverVars
<1>2. /\ link' \in LinkCall /\ link'.op = "none" /\ link'.at = "idle"
  BY <1>1 DEF NoCall, LinkCall
<1>3. LinkTypeOK' /\ MirrorFollows' /\ MadeLingers'
  BY <1>1, <1>2 DEF LinkInv, LinkTypeOK, MirrorFollows, MadeLingers
<1>4. CallInv'
  BY <1>1, <1>2 DEF LinkInv, CallInv
<1> QED
  BY <1>3, <1>4 DEF LinkInv

LEMMA SameKeeps ==
    ASSUME LinkInv, UNCHANGED linkVars
    PROVE  LinkInv'
<1>1. UNCHANGED <<objects, mirror, requests, events, made, kept, link>>
  BY DEF linkVars, serverVars
<1>2. Outcome' = Outcome /\ Subject' = Subject
  BY <1>1 DEF Outcome, ErrorComing, Subject
<1>3. Asked' = Asked /\ Decided' = Decided /\ Answered' = Answered
  BY <1>1, <1>2 DEF Asked, Decided, Answered
<1> QED
  BY <1>1, <1>2, <1>3 DEF LinkInv, LinkTypeOK, MirrorFollows, MadeLingers, CallInv

LEMMA ClientKeeps ==
    ASSUME LinkInv, LinkStep
    PROVE  LinkInv'
<1>1. CASE LinkRefused
  BY <1>1, SameKeeps DEF LinkRefused
<1> QED
  BY <1>1, DispatchKeeps, ConnectKeeps, DisconnectKeeps, SyncedKeeps, ReturnKeeps
     DEF LinkStep

-----------------------------------------------------------------------------
(* The theorems *)

LEMMA EmptyRegistry ==
    ASSUME objects = Nothing, mirror = Nothing, requests = <<>>, events = <<>>,
           link = NoCall, made = NoId, kept = FALSE
    PROVE  LinkInv
<1>1. Holding(Nothing) /\ DOMAIN Nothing = {}
  <2>1. DOMAIN Nothing = {}
    BY DEF Nothing
  <2>2. Nothing = [i \in DOMAIN Nothing |-> Nothing[i]]
    BY DEF Nothing
  <2> QED
    BY <2>1, <2>2, FS_EmptySet DEF Holding
<1>2. LinkTypeOK
  <2>1. NoCall \in LinkCall
    BY DEF NoCall, LinkCall
  <2>2. <<>> \in Seq(Asking) /\ <<>> \in Seq(Event)
    OBVIOUS
  <2> QED
    BY <1>1, <2>1, <2>2 DEF LinkTypeOK
<1>3. MirrorFollows
  BY <1>1 DEF MirrorFollows, Follows, SameFor
<1>4. MadeLingers
  BY LinksAssumption DEF MadeLingers
<1>5. CallInv
  BY DEF CallInv, NoCall, NoneOurs
<1> QED
  BY <1>2, <1>3, <1>4, <1>5 DEF LinkInv

LEMMA RegistryBegins ==
    LinkInit \/ BackendInit => LinkInv
  BY EmptyRegistry DEF LinkInit, BackendInit

\* A connection begins and ends with an empty registry.
LEMMA RegistryEmptied ==
    RegistryEmpty => LinkInv'
<1>1. (objects = Nothing /\ mirror = Nothing /\ requests = <<>> /\ events = <<>>
       /\ link = NoCall /\ made = NoId /\ kept = FALSE) => LinkInv
  BY EmptyRegistry
<1>2. (objects = Nothing /\ mirror = Nothing /\ requests = <<>> /\ events = <<>>
       /\ link = NoCall /\ made = NoId /\ kept = FALSE)' => LinkInv'
  BY <1>1, PTL
<1> QED
  BY <1>2 DEF RegistryEmpty

LEMMA LinkInvSays ==
    LinkInv => LinkStands /\ LinkGone
<1> SUFFICES ASSUME LinkInv
             PROVE  LinkStands /\ LinkGone
  OBVIOUS
<1>1. ASSUME link.at = "synced", Subject \in Ids
      PROVE  SameFor(Subject, mirror, objects)
  BY <1>1 DEF LinkInv, CallInv, MirrorFollows, Follows
<1>2. ASSUME link.op = "connect", link.at = "synced"
      PROVE  /\ Result = "OK" <=> made # NoId
             /\ made \in Ids => made \in DOMAIN mirror /\ mirror[made] = objects[made]
  <2>1. Outcome /\ NoneOurs(events)
    BY <1>2 DEF LinkInv, CallInv
  <2>2. made = NoId <=> link.error
    BY <1>2, <2>1 DEF Outcome, ErrorComing, NoneOurs
  <2>3. Subject = made
    BY <1>2 DEF Subject
  <2> QED
    BY <1>1, <1>2, <2>2, <2>3 DEF Result, SameFor, LinkInv, MadeLingers
<1>3. LinkStands
  BY <1>2 DEF LinkStands, LinkInv, MadeLingers
<1>4. ASSUME link.op = "disconnect", link.at = "synced", ~kept
      PROVE  link.id \notin DOMAIN mirror
  <2>1. link.id \notin DOMAIN objects /\ Subject = link.id /\ DOMAIN mirror \subseteq Ids
    BY <1>4 DEF LinkInv, CallInv, Outcome, Subject, LinkTypeOK, Holding
  <2> QED
    BY <1>1, <1>4, <2>1 DEF SameFor
<1>5. LinkGone
  BY <1>4 DEF LinkGone
<1> QED
  BY <1>3, <1>5

\* LinkInv is inductive for the links of one connection, ...
THEOREM LinksCorrect == LinkSpec => []LinkInv
<1>1. LinkInit => LinkInv
  BY RegistryBegins
<1>2. LinkInv /\ [ServerStep \/ LinkStep]_linkVars => LinkInv'
  BY ServerKeeps, ClientKeeps, SameKeeps
<1> QED
  BY <1>1, <1>2, PTL DEF LinkSpec

\* ... and for those of any number of connections, one after the other.
THEOREM BackendCorrect == BackendSpec => []LinkInv
<1>1. BackendInit => LinkInv
  BY RegistryBegins
<1>2. LinkInv /\ [BackendNext]_backendVars => LinkInv'
  <2> SUFFICES ASSUME LinkInv, [BackendNext]_backendVars
               PROVE  LinkInv'
    OBVIOUS
  <2>1. CASE LifeStep
    BY <2>1, RegistryEmptied, SameKeeps DEF LifeStep
  <2>2. CASE ServerAnswers
    BY <2>2, ServerKeeps DEF ServerAnswers
  <2>3. CASE ClientLinks
    BY <2>3, ClientKeeps DEF ClientLinks
  <2>4. CASE UNCHANGED backendVars
    BY <2>4, SameKeeps DEF backendVars
  <2> QED
    BY <2>1, <2>2, <2>3, <2>4 DEF BackendNext
<1> QED
  BY <1>1, <1>2, PTL DEF BackendSpec

\* connect_ports tells the truth about the link it has made: for every set of ports
\* and identifiers, however many connections, events and requests there are.
THEOREM LinkMade == BackendSpec => []LinkStands
<1>1. LinkInv => LinkStands
  BY LinkInvSays
<1> QED
  BY <1>1, BackendCorrect, PTL

\* The same of disconnect_ports and the link it has removed.
THEOREM LinkRemoved == BackendSpec => []LinkGone
<1>1. LinkInv => LinkGone
  BY LinkInvSays
<1> QED
  BY <1>1, BackendCorrect, PTL

\* Links change nothing in the life of a connection: what holds of it without them
\* holds with them.
THEOREM BackendImplementsLifecycle == BackendSpec => LifeSpec
<1>1. BackendInit => LifeInit
  BY DEF BackendInit
<1>2. [BackendNext]_backendVars => [LifeNext]_lifeVars
  BY DEF BackendNext, LifeStep, ServerAnswers, ClientLinks, backendVars
<1> QED
  BY <1>1, <1>2, PTL DEF BackendSpec, LifeSpec

\* A connection over which links are made is open or closed when a call returns, its
\* callbacks keep their order, and none of them comes after the last.
THEOREM LifeOfBackend ==
    BackendSpec => /\ [](LifeTypeOK /\ ConnectedOrClosed)
                   /\ [](NoProcessAfterDisconnect /\ SilentOnlyIfReported)
                   /\ ImplementsSession
  BY BackendImplementsLifecycle, LifecycleTypeOK, CallsLeaveNothingHalfDone,
     DisconnectSilences, SilenceIsReported, LifecycleImplementsSession, PTL

=============================================================================
