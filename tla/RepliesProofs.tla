--------------------------- MODULE RepliesProofs ---------------------------
(***************************************************************************)
(* Proofs about Replies, for anything there may be to tell of, any         *)
(* neighbour in the reply and any number of damaged attributes.            *)
(*                                                                         *)
(* The argument: an attribute that is not damaged is in the group as the   *)
(* peer sent it, and each decoder reads such an attribute back as what it  *)
(* was sent for, whatever became of the others.                            *)
(***************************************************************************)
EXTENDS Replies, FiniteSetTheorems, TLAPS

-----------------------------------------------------------------------------
(* Filtering. *)

\* Every set of numbers that is not empty has a least one; this is what the
\* induction below rests on.
LEMMA Least == ASSUME NEW T \in SUBSET Nat, T # {}
               PROVE  \E m \in T : \A n \in T : m <= n
<1>1. \E m \in T : \A n \in T : <<n, m>> \notin OpToRel(<, Nat)
  BY NatLessThanWellFounded, WFMin
<1>2. \A m, n \in T : n < m => <<n, m>> \in OpToRel(<, Nat)
  BY DEF OpToRel
<1>3. \E m \in T : \A n \in T : ~(n < m)
  BY <1>1, <1>2
<1> QED
  BY <1>3

\* One call of the function that Kept defines, on the first n items.
KeptTurn(s, I, f) ==
    [n \in 0..Len(s) |->
        IF n = 0 THEN <<>>
        ELSE IF n \in I THEN Append(f[n - 1], s[n]) ELSE f[n - 1]]

LEMMA TurnAt ==
    ASSUME NEW s, Len(s) \in Nat, NEW I, NEW f, f = KeptTurn(s, I, f)
    PROVE  /\ f = [n \in 0..Len(s) |-> f[n]] /\ f[0] = <<>>
           /\ \A n \in 1..Len(s) :
                f[n] = IF n \in I THEN Append(f[n - 1], s[n]) ELSE f[n - 1]
<1>1. \A n \in 0..Len(s) :
        f[n] = IF n = 0 THEN <<>>
               ELSE IF n \in I THEN Append(f[n - 1], s[n]) ELSE f[n - 1]
  BY DEF KeptTurn
<1>2. f = [n \in 0..Len(s) |-> f[n]]
  BY DEF KeptTurn
<1> QED
  BY <1>1, <1>2

\* Any function that is what Kept defines is the one that it chooses.
LEMMA KeptIs ==
    ASSUME NEW s, Len(s) \in Nat, NEW I, NEW G, G = KeptTurn(s, I, G)
    PROVE  Kept(s, I) = G[Len(s)]
<1> DEFINE N == Len(s)
<1>1. ASSUME NEW h, h = KeptTurn(s, I, h)
      PROVE  h = G
  <2>1. /\ h = [n \in 0..N |-> h[n]] /\ G = [n \in 0..N |-> G[n]]
        /\ h[0] = <<>> /\ G[0] = <<>>
    BY <1>1, TurnAt
  <2>2. \A n \in 1..N : /\ h[n] = IF n \in I THEN Append(h[n - 1], s[n]) ELSE h[n - 1]
                        /\ G[n] = IF n \in I THEN Append(G[n - 1], s[n]) ELSE G[n - 1]
    BY <1>1, TurnAt
  <2> DEFINE T == {n \in 0..N : h[n] # G[n]}
  <2>3. SUFFICES ASSUME h # G
                 PROVE  FALSE
    OBVIOUS
  <2>4. T # {} /\ T \in SUBSET Nat
    BY <2>1, <2>3
  <2>5. PICK m \in T : \A n \in T : m <= n
    BY <2>4, Least
  <2>6. m \in 1..N /\ h[m] # G[m]
    BY <2>1, <2>5
  <2>7. m - 1 \in 0..N /\ ~(m <= m - 1)
    BY <2>6
  <2>8. h[m - 1] = G[m - 1]
    BY <2>5, <2>7
  <2> QED
    BY <2>2, <2>6, <2>8
<1>2. Kept(s, I) = (CHOOSE f : f = KeptTurn(s, I, f))[Len(s)]
  BY DEF Kept, KeptTurn
<1>3. (CHOOSE f : f = KeptTurn(s, I, f)) = G
  BY <1>1
<1> QED
  BY <1>2, <1>3

LEMMA KeptAll ==
    ASSUME NEW S, NEW s \in Seq(S)
    PROVE  Kept(s, DOMAIN s) = s
<1> DEFINE G == [n \in 0..Len(s) |-> [i \in 1..n |-> s[i]]]
<1>1. Len(s) \in Nat /\ DOMAIN s = 1..Len(s) /\ s = [i \in 1..Len(s) |-> s[i]]
  OBVIOUS
<1>2. ASSUME NEW n \in 1..Len(s)
      PROVE  G[n] = Append(G[n - 1], s[n])
  <2>0. n - 1 \in 0..Len(s) /\ \A i \in 1..(n - 1) : s[i] \in S
    BY <1>1
  <2>1. G[n - 1] = [i \in 1..(n - 1) |-> s[i]] /\ G[n - 1] \in Seq(S) /\ Len(G[n - 1]) = n - 1
    BY <2>0
  <2>2. G[n] = [i \in 1..n |-> s[i]]
    BY <1>1, <1>2
  <2>3. Append(G[n - 1], s[n]) = [i \in 1..n |-> IF i = n THEN s[n] ELSE G[n - 1][i]]
    <3> HIDE DEF G
    <3> QED
      BY <1>1, <1>2, <2>1
  <2> QED
    BY <1>1, <1>2, <2>1, <2>2, <2>3
<1>3. G[0] = <<>>
  BY <1>1
<1>4. G = KeptTurn(s, DOMAIN s, G)
  <2>1. G = [n \in 0..Len(s) |-> G[n]]
    BY <1>1
  <2> HIDE DEF G
  <2>2. ASSUME NEW n \in 0..Len(s)
        PROVE  G[n] = IF n = 0 THEN <<>>
                      ELSE IF n \in DOMAIN s THEN Append(G[n - 1], s[n]) ELSE G[n - 1]
    <3>1. CASE n = 0
      BY <1>3, <3>1
    <3>2. CASE n # 0
      <4>1. n \in 1..Len(s) /\ n \in DOMAIN s
        BY <1>1, <3>2
      <4> QED
        BY <1>2, <3>2, <4>1
    <3> QED
      BY <3>1, <3>2
  <2> QED
    BY <2>1, <2>2 DEF KeptTurn
<1>5. G[Len(s)] = s
  BY <1>1
<1> HIDE DEF G
<1> QED
  BY <1>1, <1>4, <1>5, KeptIs

LEMMA KeptNone ==
    ASSUME NEW s, Len(s) \in Nat
    PROVE  Kept(s, {}) = <<>>
<1> DEFINE G == [n \in 0..Len(s) |-> <<>>]
<1>1. G = KeptTurn(s, {}, G)
  BY DEF KeptTurn
<1>2. G[Len(s)] = <<>>
  OBVIOUS
<1> HIDE DEF G
<1> QED
  BY <1>1, <1>2, KeptIs

-----------------------------------------------------------------------------
(* One attribute. *)

\* The group has these values of the attribute, as the peer puts them.
Holds(g, n, vs) == (n \in DOMAIN g <=> vs # <<>>) /\ (vs # <<>> => g[n] = Bundle(vs))

\* The group has no value of the attribute that could be read.
Lost(g, n) == n \in DOMAIN g => g[n] = Garbled

LEMMA SentHolds ==
    ASSUME NEW t, NEW requested, NEW n \in requested
    PROVE  Holds(Sent(t, requested), n, Says(t, n))
  BY DEF Holds, Sent

LEMMA ScalarTrue ==
    ASSUME NEW g, NEW n, NEW tag, NEW x, Holds(g, n, One(tag, x))
    PROVE  Scalar(g, n, tag) = x
<1>1. CASE x = None
  BY <1>1 DEF Holds, One, Scalar
<1>2. CASE x # None
  <2> DEFINE v == Value(tag, x)
  <2>1. One(tag, x) = <<v>> /\ v.tag = tag /\ v.v = x
    BY <1>2 DEF One, Value
  <2> HIDE DEF v
  <2>2. Bundle(<<v>>) = v /\ <<v>> # <<>>
    BY DEF Bundle
  <2> QED
    BY <2>1, <2>2 DEF Holds, Scalar
<1> QED
  BY <1>1, <1>2

LEMMA ManyIs ==
    ASSUME NEW S, NEW s \in Seq(S), NEW tag
    PROVE  /\ Len(s) \in Nat /\ DOMAIN s = 1..Len(s)
           /\ Len(Many(tag, s)) = Len(s) /\ DOMAIN Many(tag, s) = 1..Len(s)
           /\ \A i \in 1..Len(s) : Many(tag, s)[i] = Value(tag, s[i])
           /\ Many(tag, s) \in Seq({Value(tag, x) : x \in S})
<1>1. Len(s) \in Nat /\ DOMAIN s = 1..Len(s) /\ \A i \in 1..Len(s) : s[i] \in S
  OBVIOUS
<1>2. Many(tag, s) = [i \in 1..Len(s) |-> Value(tag, s[i])]
  BY <1>1 DEF Many
<1> QED
  BY <1>1, <1>2

LEMMA ListTrue ==
    ASSUME NEW g, NEW n, NEW tag, tag # "array", NEW S, NEW s \in Seq(S),
           Holds(g, n, Many(tag, s))
    PROVE  Readable(g, n, tag) = s
<1> DEFINE vs == Many(tag, s)
           items == Items(g, n)
<1>1. /\ Len(s) \in Nat /\ DOMAIN s = 1..Len(s) /\ s = [i \in 1..Len(s) |-> s[i]]
      /\ Len(vs) = Len(s) /\ DOMAIN vs = 1..Len(s)
      /\ \A i \in 1..Len(s) : vs[i].tag = tag /\ vs[i].v = s[i]
      /\ vs = [i \in 1..Len(s) |-> vs[i]]
  <2>0. s = [i \in 1..Len(s) |-> s[i]]
    OBVIOUS
  <2>1. /\ Len(s) \in Nat /\ DOMAIN s = 1..Len(s)
        /\ Len(vs) = Len(s) /\ DOMAIN vs = 1..Len(s)
    BY ManyIs
  <2>2. \A i \in 1..Len(s) : vs[i] = Value(tag, s[i])
    BY ManyIs
  <2>3. \A x : Value(tag, x).tag = tag /\ Value(tag, x).v = x
    BY DEF Value
  <2>4. vs = [i \in 1..Len(s) |-> vs[i]]
    BY <2>1 DEF Many
  <2> HIDE DEF vs
  <2> QED
    BY <2>0, <2>1, <2>2, <2>3, <2>4
<1> HIDE DEF vs
<1>2. DOMAIN items = 1..Len(s) /\ \A i \in 1..Len(s) : items[i] = vs[i]
  <2>1. CASE Len(s) = 0
    <3>1. vs = <<>>
      BY <1>1, <2>1
    <3> QED
      BY <2>1, <3>1 DEF Holds, Items, vs
  <2>2. CASE Len(s) = 1
    <3>1. vs # <<>> /\ Bundle(vs) = vs[1] /\ vs[1].tag # "array"
      BY <1>1, <2>2 DEF Bundle
    <3>2. items = <<vs[1]>>
      BY <3>1 DEF Holds, Items, vs
    <3> HIDE DEF items
    <3> QED
      BY <2>2, <3>2
  <2>3. CASE Len(s) > 1
    <3>1. vs # <<>> /\ Bundle(vs) = Value("array", vs)
      BY <1>1, <2>3 DEF Bundle
    <3>2. items = vs
      BY <3>1 DEF Holds, Items, Value, vs
    <3> QED
      BY <1>1, <3>2
  <2> QED
    BY <1>1, <2>1, <2>2, <2>3
<1>3. [i \in DOMAIN items |-> items[i].v] = s
  <2> HIDE DEF items
  <2> QED
    BY <1>1, <1>2
<1>4. {i \in DOMAIN items : items[i].tag = tag} = DOMAIN s
  <2> HIDE DEF items
  <2> QED
    BY <1>1, <1>2
<1> QED
  BY <1>3, <1>4, KeptAll DEF Readable

LEMMA LostTrue ==
    ASSUME NEW g, NEW n, Lost(g, n), NEW tag, tag # "other"
    PROVE  Scalar(g, n, tag) = None /\ Readable(g, n, tag) = <<>>
<1>1. Scalar(g, n, tag) = None
  BY DEF Lost, Scalar, Garbled, Value
<1> DEFINE items == Items(g, n)
           values == [i \in DOMAIN items |-> items[i].v]
<1>2. items = <<>> \/ items = <<Garbled>>
  BY DEF Lost, Items, Garbled, Value
<1>3. /\ DOMAIN items \in {1..0, 1..1}
      /\ {i \in DOMAIN items : items[i].tag = tag} = {}
  <2>1. Garbled.tag = "other"
    BY DEF Garbled, Value
  <2> HIDE DEF items
  <2>2. CASE items = <<>>
    BY <2>2
  <2>3. CASE items = <<Garbled>>
    BY <2>1, <2>3
  <2> QED
    BY <1>2, <2>2, <2>3
<1>4. Len(values) \in Nat
  <2> HIDE DEF items
  <2> QED
    BY <1>3
<1>5. Readable(g, n, tag) = Kept(values, {})
  BY <1>3 DEF Readable
<1> HIDE DEF values
<1> QED
  BY <1>1, <1>4, <1>5, KeptNone

\* A list that has lost its last item.
LEMMA ShortHolds ==
    ASSUME NEW g, NEW n \in DOMAIN g, NEW S, NEW s \in Seq(S), Len(s) > 1, NEW tag,
           g[n] = Bundle(Front(Many(tag, s)))
    PROVE  Front(s) \in Seq(S) /\ Len(Front(s)) = Len(s) - 1
           /\ (\A i \in 1..(Len(s) - 1) : Front(s)[i] = s[i])
           /\ Holds(g, n, Many(tag, Front(s)))
<1>1. /\ Front(s) \in Seq(S) /\ Len(Front(s)) = Len(s) - 1
      /\ \A i \in 1..(Len(s) - 1) : Front(s)[i] = s[i]
  BY DEF Front
<1>2. Front(Many(tag, s)) = Many(tag, Front(s))
  <2> DEFINE T == {Value(tag, x) : x \in S}
  <2>1. Many(tag, s) \in Seq(T) /\ Len(Many(tag, s)) = Len(s)
    BY ManyIs
  <2>2. Front(Many(tag, s)) = [i \in 1..(Len(s) - 1) |-> Many(tag, s)[i]]
    <3> HIDE DEF T
    <3> QED
      BY <2>1 DEF Front
  <2>3. Many(tag, Front(s)) = [i \in 1..(Len(s) - 1) |-> Value(tag, Front(s)[i])]
    BY <1>1 DEF Many
  <2>4. ASSUME NEW i \in 1..(Len(s) - 1)
        PROVE  Many(tag, s)[i] = Value(tag, Front(s)[i])
    <3>1. i \in 1..Len(s) /\ Front(s)[i] = s[i]
      BY <1>1
    <3>2. Many(tag, s)[i] = Value(tag, s[i])
      BY <3>1, ManyIs
    <3> QED
      BY <3>1, <3>2
  <2> QED
    BY <2>2, <2>3, <2>4
<1>3. Many(tag, Front(s)) # <<>>
  <2>1. Len(Many(tag, Front(s))) = Len(s) - 1
    BY <1>1, ManyIs
  <2> QED
    BY <2>1
<1> QED
  BY <1>1, <1>2, <1>3 DEF Holds

-----------------------------------------------------------------------------
(* Reasons. *)

\* What is said of a reason reads back as the reason.
LEMMA SpokenTrue ==
    ASSUME NEW r \in Reason
    PROVE  /\ Spoken(r) \in Seq(Words) /\ Spoken(r) # <<"none">>
           /\ ParseReason(Spoken(r)) = [keyword |-> r.words, severity |-> r.severity]
<1>1. /\ DOMAIN Suffix = {"error", "warning", "report"}
      /\ Suffix["error"] = 2 /\ Suffix["warning"] = 1 /\ Suffix["report"] = 0
  BY DEF Suffix, Error, Warning, Report
<1>2. /\ r.words \in Seq(Words) /\ r.words # <<>> /\ r.severity \in 0..2
      /\ r.bare \in BOOLEAN
  BY DEF Reason, Report, Error
<1>3. Len(r.words) \in Nat \ {0} /\ \A i \in 1..Len(r.words) : r.words[i] \in Words
  BY <1>2
<1>4. CASE r.bare
  <2>1. Spoken(r) = r.words
    BY <1>4 DEF Spoken
  <2>2. /\ r.words # <<"none">> /\ r.severity = Report
        /\ Len(r.words) > 1 => r.words[Len(r.words)] \notin DOMAIN Suffix
    BY <1>4 DEF Reason
  <2>3. Last(r.words) = r.words[Len(r.words)]
    BY DEF Last
  <2> QED
    BY <1>2, <2>1, <2>2, <2>3 DEF ParseReason
<1>5. CASE ~r.bare
  <2> DEFINE w == CHOOSE x \in DOMAIN Suffix : Suffix[x] = r.severity
  <2>1. \E x \in DOMAIN Suffix : Suffix[x] = r.severity
    BY <1>1, <1>2
  <2>2. w \in DOMAIN Suffix /\ Suffix[w] = r.severity
    BY <2>1
  <2>3. Spoken(r) = Append(r.words, w)
    BY <1>5 DEF Spoken
  <2> HIDE DEF w
  <2>4. w \in Words
    BY <2>2, WordsAssumption
  <2>5. /\ Append(r.words, w) \in Seq(Words) /\ Len(Append(r.words, w)) = Len(r.words) + 1
        /\ Append(r.words, w)[Len(r.words) + 1] = w
        /\ \A i \in 1..Len(r.words) : Append(r.words, w)[i] = r.words[i]
    BY <1>2, <1>3, <2>4
  <2>6. Last(Append(r.words, w)) = w
    BY <1>3, <2>5 DEF Last
  <2>7. Front(Append(r.words, w)) = r.words
    <3>1. Front(Append(r.words, w)) = SubSeq(Append(r.words, w), 1, Len(r.words))
      BY <1>3, <2>5 DEF Front
    <3> QED
      BY <1>2, <1>3, <2>5, <3>1
  <2>8. Append(r.words, w) # <<"none">> /\ Len(Append(r.words, w)) > 1
    BY <1>3, <2>5
  <2> QED
    BY <2>2, <2>3, <2>5, <2>6, <2>7, <2>8 DEF ParseReason
<1> QED
  BY <1>2, <1>4, <1>5

LEMMA ReasonsTrue ==
    ASSUME NEW t, t.reasons \in Seq(Reason), NEW g, NEW n, Holds(g, n, Reasons(t))
    PROVE  ParseReasons(Texts(g, n)) = SeverityOf(t.reasons)
<1> DEFINE raws == [i \in DOMAIN t.reasons |-> Spoken(t.reasons[i])]
<1>1. /\ Len(t.reasons) \in Nat /\ DOMAIN t.reasons = 1..Len(t.reasons)
      /\ \A i \in 1..Len(t.reasons) : t.reasons[i] \in Reason
  OBVIOUS
<1>2. raws \in Seq(Seq(Words)) /\ Len(raws) = Len(t.reasons)
  BY <1>1, SpokenTrue
<1>3. CASE t.reasons = <<>>
  <2> DEFINE none == << <<"none">> >>
  <2>1. none \in Seq(Seq(Words)) /\ Len(none) = 1 /\ none[1] = <<"none">> /\ DOMAIN none = 1..1
    <3>1. <<"none">> \in Seq(Words)
      BY WordsAssumption
    <3> QED
      BY <3>1
  <2>2. Reasons(t) = Many("text", none)
    BY <1>3 DEF Reasons
  <2> HIDE DEF none
  <2>3. Texts(g, n) = none
    BY <2>1, <2>2, ListTrue DEF Texts
  <2>4. {i \in DOMAIN none : none[i] # <<"none">>} = {}
    BY <2>1
  <2>5. Kept(none, {}) = <<>>
    BY <2>1, KeptNone
  <2>6. ParseReasons(Texts(g, n)) = <<>>
    <3>1. ParseReasons(none) = [i \in DOMAIN <<>> |-> ParseReason(<<>>[i])]
      BY <2>4, <2>5 DEF ParseReasons
    <3> QED
      BY <2>3, <3>1
  <2> QED
    BY <1>3, <2>6 DEF SeverityOf
<1>4. CASE t.reasons # <<>>
  <2>1. Reasons(t) = Many("text", raws)
    BY <1>4 DEF Reasons
  <2>2. /\ DOMAIN raws = 1..Len(t.reasons)
        /\ \A i \in 1..Len(t.reasons) :
            /\ raws[i] # <<"none">>
            /\ ParseReason(raws[i]) =
                [keyword |-> t.reasons[i].words, severity |-> t.reasons[i].severity]
    BY <1>1, SpokenTrue
  <2> HIDE DEF raws
  <2>3. Texts(g, n) = raws
    BY <1>2, <2>1, ListTrue DEF Texts
  <2>4. {i \in DOMAIN raws : raws[i] # <<"none">>} = DOMAIN raws
    BY <2>2
  <2>5. Kept(raws, DOMAIN raws) = raws
    BY <1>2, KeptAll
  <2>6. ParseReasons(Texts(g, n)) = [i \in DOMAIN raws |-> ParseReason(raws[i])]
    BY <2>3, <2>4, <2>5 DEF ParseReasons
  <2> QED
    BY <1>1, <2>2, <2>6 DEF SeverityOf
<1> QED
  BY <1>3, <1>4

-----------------------------------------------------------------------------
(* Printers. *)

LEMMA MinOfTwo ==
    ASSUME NEW a \in Int, NEW b \in Int
    PROVE  Min({a, b}) = IF a <= b THEN a ELSE b
<1>1. Min({a, b}) = CHOOSE x \in {a, b} : \A y \in {a, b} : x <= y
  BY DEF Min
<1> QED
  BY <1>1

LEMMA LevelIs ==
    ASSUME NEW l \in Int
    PROVE  Level(l) = CASE l < 0 -> None [] l > 100 -> 100 [] OTHER -> l
<1>1. Min({l, 100}) = IF l <= 100 THEN l ELSE 100
  BY MinOfTwo
<1> QED
  BY <1>1 DEF Level

\* Names, levels and colours that are all there, in step.
LEMMA SuppliesTrue ==
    ASSUME NEW markers \in Seq(Marker)
    PROVE  DecodeSupplies([i \in DOMAIN markers |-> markers[i].name],
                          [i \in DOMAIN markers |-> markers[i].level],
                          [i \in DOMAIN markers |-> markers[i].colour]) =
           [i \in DOMAIN markers |->
                [name |-> markers[i].name, colour |-> markers[i].colour,
                 level |-> CASE markers[i].level < 0 -> None
                             [] markers[i].level > 100 -> 100
                             [] OTHER -> markers[i].level]]
<1> DEFINE names == [i \in DOMAIN markers |-> markers[i].name]
           levels == [i \in DOMAIN markers |-> markers[i].level]
           colours == [i \in DOMAIN markers |-> markers[i].colour]
<1>1. /\ Len(markers) \in Nat /\ DOMAIN markers = 1..Len(markers)
      /\ \A i \in 1..Len(markers) : markers[i].level \in Int
  <2>1. /\ Len(markers) \in Nat /\ DOMAIN markers = 1..Len(markers)
        /\ \A i \in 1..Len(markers) : markers[i] \in Marker
    OBVIOUS
  <2>2. \A m \in Marker : m.level \in Int
    BY DEF Marker
  <2> QED
    BY <2>1, <2>2
<1>2. Len(names) = Len(markers) /\ Len(levels) = Len(markers)
  BY <1>1
<1>3. Min({Len(names), Len(levels)}) = Len(markers)
  BY <1>1, <1>2, MinOfTwo
<1>4. \A i \in 1..Len(markers) :
        /\ names[i] = markers[i].name /\ levels[i] = markers[i].level
        /\ Nth(colours, i) = markers[i].colour
  BY <1>1 DEF Nth
<1>5. ASSUME NEW i \in 1..Len(markers)
      PROVE  Level(markers[i].level) = CASE markers[i].level < 0 -> None
                                         [] markers[i].level > 100 -> 100
                                         [] OTHER -> markers[i].level
  <2>1. markers[i].level \in Int
    BY <1>1
  <2> QED
    BY <2>1, LevelIs
<1> HIDE DEF names, levels, colours
<1>6. DecodeSupplies(names, levels, colours) =
        [i \in 1..Len(markers) |->
            [name |-> names[i], colour |-> Nth(colours, i), level |-> Level(levels[i])]]
  BY <1>3 DEF DecodeSupplies
<1> QED
  BY <1>1, <1>4, <1>5, <1>6 DEF names, levels, colours

\* What is told of a printer that is told of.
PrinterTold(g) ==
    [name |-> TextOf(g, "printer-name"),
     state |-> PrinterStateFromIpp(IntOf(g, "printer-state")),
     uri |-> IF Texts(g, "printer-uri-supported") = <<>> THEN <<>>
             ELSE Head(Texts(g, "printer-uri-supported")),
     info |-> TextOf(g, "printer-info"),
     reasons |-> ParseReasons(Texts(g, "printer-state-reasons")),
     accepting |-> OrElse(BoolOf(g, "printer-is-accepting-jobs"), TRUE),
     supplies |-> DecodeSupplies(Texts(g, "marker-names"), Ints(g, "marker-levels"),
                                 Texts(g, "marker-colors")),
     options |-> DecodeOptions(g)]

LEMMA DecodePrinterIs ==
    ASSUME NEW g
    PROVE  DecodePrinter(g) =
                IF TextOf(g, "printer-name") = None
                   \/ PrinterStateFromIpp(IntOf(g, "printer-state")) = None
                THEN <<>> ELSE <<PrinterTold(g)>>
  BY DEF DecodePrinter, PrinterTold

LEMMA PrinterSaysWhat ==
    ASSUME NEW t, t.kind = "printer"
    PROVE  /\ Says(t, "printer-name") = One("text", t.name)
           /\ Says(t, "printer-uri-supported") = Many("text", t.uris)
           /\ Says(t, "printer-info") = One("text", t.info)
           /\ Says(t, "printer-state") = One("int", t.code)
           /\ Says(t, "printer-state-reasons") = Reasons(t)
           /\ Says(t, "printer-is-accepting-jobs") = One("bool", t.accepting)
           /\ Says(t, "marker-names") = MarkersOf(t, "text", "name")
           /\ Says(t, "marker-levels") = MarkersOf(t, "int", "level")
           /\ Says(t, "marker-colors") = MarkersOf(t, "text", "colour")
           /\ Says(t, "media-supported") = Many("text", t.media)
           /\ Says(t, "media-default") = One("text", Nth(t.media, 1))
           /\ Says(t, "print-quality-supported") = Many("int", t.qualities)
           /\ Says(t, "print-quality-default") = One("int", Nth(t.qualities, 1))
<1>1. \A n : Says(t, n) = PrinterSays(t, n)
  BY DEF Says
<1> QED
  BY <1>1 DEF PrinterSays

\* The markers are lists of their names, levels and colours.
LEMMA MarkersAre ==
    ASSUME NEW t, t.markers \in Seq(Marker)
    PROVE  LET names == [i \in DOMAIN t.markers |-> t.markers[i].name]
               levels == [i \in DOMAIN t.markers |-> t.markers[i].level]
               colours == [i \in DOMAIN t.markers |-> t.markers[i].colour]
           IN  /\ MarkersOf(t, "text", "name") = Many("text", names)
               /\ MarkersOf(t, "int", "level") = Many("int", levels)
               /\ MarkersOf(t, "text", "colour") = Many("text", colours)
               /\ names \in Seq(Words) /\ levels \in Seq(Int) /\ colours \in Seq(Words)
               /\ Len(names) = Len(t.markers) /\ Len(levels) = Len(t.markers)
<1>1. /\ Len(t.markers) \in Nat /\ DOMAIN t.markers = 1..Len(t.markers)
      /\ \A i \in 1..Len(t.markers) :
            t.markers[i].name \in Words /\ t.markers[i].level \in Int
            /\ t.markers[i].colour \in Words
  <2>1. /\ Len(t.markers) \in Nat /\ DOMAIN t.markers = 1..Len(t.markers)
        /\ \A i \in 1..Len(t.markers) : t.markers[i] \in Marker
    OBVIOUS
  <2>2. \A m \in Marker : m.name \in Words /\ m.level \in Int /\ m.colour \in Words
    BY DEF Marker
  <2> QED
    BY <2>1, <2>2
<1> QED
  BY <1>1 DEF MarkersOf, Many

PrinterFields == {"name", "state", "info", "uri", "reasons", "accepting", "supplies", "options"}

LEMMA FaithfulPrinter ==
    ASSUME NEW t, t.kind = "printer"
    PROVE  /\ DOMAIN Faithful(t) = PrinterFields
           /\ Faithful(t).name = t.name /\ Faithful(t).state = t.code
           /\ Faithful(t).info = t.info
           /\ Faithful(t).uri = IF t.uris = <<>> THEN <<>> ELSE t.uris[1]
           /\ Faithful(t).reasons = SeverityOf(t.reasons)
           /\ Faithful(t).accepting = t.accepting
           /\ Faithful(t).supplies = [i \in DOMAIN t.markers |->
                [name |-> t.markers[i].name, colour |-> t.markers[i].colour,
                 level |-> CASE t.markers[i].level < 0 -> None
                             [] t.markers[i].level > 100 -> 100
                             [] OTHER -> t.markers[i].level]]
           /\ Faithful(t).options =
                [media |-> [supported |-> t.media, default |-> Nth(t.media, 1)],
                 quality |-> [supported |-> Registered(t.qualities),
                              default |-> IF Nth(t.qualities, 1) \in {3, 4, 5}
                                          THEN t.qualities[1] ELSE None]]
  BY DEF Faithful, PrinterFields

LEMMA FeedsWhat ==
    /\ Feeds("printer-uri-supported") = {"uri"} /\ Feeds("printer-info") = {"info"}
    /\ Feeds("printer-state-reasons") = {"reasons"} /\ Feeds("job-state-reasons") = {"reasons"}
    /\ Feeds("printer-is-accepting-jobs") = {"accepting"}
    /\ Feeds("marker-names") = {"supplies"} /\ Feeds("marker-levels") = {"supplies"}
    /\ Feeds("marker-colors") = {"supplies"}
    /\ Feeds("media-supported") = {"options"} /\ Feeds("media-default") = {"options"}
    /\ Feeds("print-quality-supported") = {"options"}
    /\ Feeds("print-quality-default") = {"options"}
    /\ Feeds("job-printer-uri") = {"printer"} /\ Feeds("job-name") = {"name"}
    /\ Feeds("job-impressions") = {"progress"}
    /\ Feeds("job-impressions-completed") = {"progress", "pages_printed"}
    /\ Feeds("time-at-completed") = {"completed"}
    /\ Feeds("member-names") = {"members"} /\ Feeds("ppd-device-id") = {"device_id"}
    /\ Feeds("document-format") = {"format"} /\ Feeds("notify-subscribed-event") = {"event"}
    /\ Feeds("notify-sequence-number") = {"sequence"}
  BY DEF Feeds

\* No damaged attribute feeds the field.
Untouched(D, f) == \A n \in D : f \notin Feeds(n)

LEMMA OptionsTrue ==
    ASSUME NEW t \in Printers, NEW g,
           \A n \in {"media-supported", "media-default", "print-quality-supported",
                     "print-quality-default"} : Holds(g, n, Says(t, n))
    PROVE  DecodeOptions(g) = Faithful(t).options
<1>1. t.kind = "printer" /\ t.media \in Seq(Words) /\ t.qualities \in Seq(Int)
  BY DEF Printers
<1>2. /\ Texts(g, "media-supported") = t.media
      /\ TextOf(g, "media-default") = Nth(t.media, 1)
      /\ Ints(g, "print-quality-supported") = t.qualities
      /\ IntOf(g, "print-quality-default") = Nth(t.qualities, 1)
  <2>1. Texts(g, "media-supported") = t.media
    BY <1>1, PrinterSaysWhat, ListTrue DEF Texts
  <2>2. Ints(g, "print-quality-supported") = t.qualities
    BY <1>1, PrinterSaysWhat, ListTrue DEF Ints
  <2>3. TextOf(g, "media-default") = Nth(t.media, 1)
    BY <1>1, PrinterSaysWhat, ScalarTrue DEF TextOf
  <2>4. IntOf(g, "print-quality-default") = Nth(t.qualities, 1)
    BY <1>1, PrinterSaysWhat, ScalarTrue DEF IntOf
  <2> QED
    BY <2>1, <2>2, <2>3, <2>4
<1>3. \A v : QualityFromIpp(v) = IF v \in {3, 4, 5} THEN v ELSE None
  <2>1. 3..5 = {3, 4, 5}
    OBVIOUS
  <2> QED
    BY <2>1 DEF QualityFromIpp
<1>4. None \notin {3, 4, 5}
  BY WordsAssumption
<1>5. {i \in DOMAIN t.qualities : QualityFromIpp(t.qualities[i]) # None} =
        {i \in DOMAIN t.qualities : t.qualities[i] \in {3, 4, 5}}
  BY <1>3, <1>4
<1>6. QualityFromIpp(Nth(t.qualities, 1)) =
        IF Nth(t.qualities, 1) \in {3, 4, 5} THEN t.qualities[1] ELSE None
  BY <1>3, <1>4 DEF Nth
<1>7. DecodeOptions(g) =
        [media |-> [supported |-> t.media, default |-> Nth(t.media, 1)],
         quality |-> [supported |-> Registered(t.qualities),
                      default |-> QualityFromIpp(Nth(t.qualities, 1))]]
  <2>1. DecodeOptions(g) =
            [media |-> [supported |-> t.media, default |-> Nth(t.media, 1)],
             quality |-> [supported |-> Kept(t.qualities,
                                {i \in DOMAIN t.qualities : QualityFromIpp(t.qualities[i]) # None}),
                          default |-> QualityFromIpp(Nth(t.qualities, 1))]]
    BY <1>2 DEF DecodeOptions
  <2>2. Kept(t.qualities, {i \in DOMAIN t.qualities : QualityFromIpp(t.qualities[i]) # None}) =
            Registered(t.qualities)
    BY <1>5 DEF Registered
  <2> QED
    BY <2>1, <2>2
<1>8. Faithful(t).options =
        [media |-> [supported |-> t.media, default |-> Nth(t.media, 1)],
         quality |-> [supported |-> Registered(t.qualities),
                      default |-> IF Nth(t.qualities, 1) \in {3, 4, 5}
                                  THEN t.qualities[1] ELSE None]]
  BY <1>1, FaithfulPrinter
<1> QED
  BY <1>6, <1>7, <1>8

\* A printer is told of unless it has lost its name or its state, or its state
\* is not registered; what is told is so, but for what was damaged.
LEMMA PrinterTrue ==
    ASSUME NEW t \in Printers, NEW g, NEW D \in SUBSET PRINTER_ATTRIBUTES,
           \A n \in PRINTER_ATTRIBUTES \ D : Holds(g, n, Says(t, n)),
           \A n \in D \cap Vital : Lost(g, n)
    PROVE  /\ DecodePrinter(g) =
                IF Tellable(t) /\ D \cap Vital = {} THEN <<PrinterTold(g)>> ELSE <<>>
           /\ Tellable(t) /\ D \cap Vital = {} =>
                \A f \in PrinterFields : Untouched(D, f) => PrinterTold(g)[f] = Faithful(t)[f]
<1>1. /\ t.kind = "printer" /\ t.name \in Words /\ t.code \in Int /\ t.uris \in Seq(Seq(Words))
      /\ t.reasons \in Seq(Reason) /\ t.accepting \in BOOLEAN /\ t.markers \in Seq(Marker)
  BY DEF Printers
<1>2. Tellable(t) <=> t.code \in {3, 4, 5}
  BY <1>1 DEF Tellable, Registry
<1>3. D \cap Vital = D \cap {"printer-name", "printer-state"}
  BY DEF PRINTER_ATTRIBUTES, Vital
<1>4. /\ "printer-name" \notin D => TextOf(g, "printer-name") = t.name
      /\ "printer-state" \notin D => IntOf(g, "printer-state") = t.code
  BY <1>1, PrinterSaysWhat, ScalarTrue DEF TextOf, IntOf, PRINTER_ATTRIBUTES
<1>5. /\ "printer-name" \in D => TextOf(g, "printer-name") = None
      /\ "printer-state" \in D => IntOf(g, "printer-state") = None
  BY <1>3, LostTrue DEF TextOf, IntOf
<1>6. PrinterStateFromIpp(None) = None /\ None \notin Words /\ None # TRUE /\ None # FALSE
  BY WordsAssumption DEF PrinterStateFromIpp
<1>7. \A v \in Int : PrinterStateFromIpp(v) = IF v \in {3, 4, 5} THEN v ELSE None
  <2>1. 3..5 = {3, 4, 5}
    OBVIOUS
  <2> QED
    BY <2>1 DEF PrinterStateFromIpp
<1>8. \A v \in {3, 4, 5} : v # None
  BY WordsAssumption
<1>9. DecodePrinter(g) =
            IF Tellable(t) /\ D \cap Vital = {} THEN <<PrinterTold(g)>> ELSE <<>>
  <2>1. CASE D \cap Vital = {}
    BY <1>1, <1>2, <1>3, <1>4, <1>6, <1>7, <1>8, <2>1, DecodePrinterIs
  <2>2. CASE D \cap Vital # {}
    BY <1>3, <1>5, <1>6, <2>2, DecodePrinterIs
  <2> QED
    BY <2>1, <2>2
<1>10. ASSUME Tellable(t), D \cap Vital = {}, NEW f \in PrinterFields, Untouched(D, f)
       PROVE  PrinterTold(g)[f] = Faithful(t)[f]
  <2>1. CASE f = "name"
    BY <1>1, <1>3, <1>4, <1>10, <2>1, FaithfulPrinter DEF PrinterTold
  <2>2. CASE f = "state"
    <3>1. PrinterTold(g).state = PrinterStateFromIpp(IntOf(g, "printer-state"))
      BY DEF PrinterTold
    <3> QED
      BY <1>1, <1>2, <1>3, <1>4, <1>7, <1>10, <2>2, <3>1, FaithfulPrinter
  <2>3. CASE f = "info"
    <3>1. "printer-info" \notin D
      BY <1>10, <2>3, FeedsWhat DEF Untouched
    <3>2. TextOf(g, "printer-info") = t.info
      BY <1>1, <3>1, PrinterSaysWhat, ScalarTrue DEF TextOf, PRINTER_ATTRIBUTES
    <3> QED
      BY <1>1, <2>3, <3>2, FaithfulPrinter DEF PrinterTold
  <2>4. CASE f = "uri"
    <3>1. "printer-uri-supported" \notin D
      BY <1>10, <2>4, FeedsWhat DEF Untouched
    <3>2. Texts(g, "printer-uri-supported") = t.uris
      BY <1>1, <3>1, PrinterSaysWhat, ListTrue DEF Texts, PRINTER_ATTRIBUTES
    <3>3. Head(t.uris) = t.uris[1]
      BY <1>1
    <3>4. PrinterTold(g).uri = IF t.uris = <<>> THEN <<>> ELSE t.uris[1]
      BY <3>2, <3>3 DEF PrinterTold
    <3> QED
      BY <1>1, <2>4, <3>4, FaithfulPrinter
  <2>5. CASE f = "reasons"
    <3>1. "printer-state-reasons" \notin D
      BY <1>10, <2>5, FeedsWhat DEF Untouched
    <3>2. ParseReasons(Texts(g, "printer-state-reasons")) = SeverityOf(t.reasons)
      BY <1>1, <3>1, PrinterSaysWhat, ReasonsTrue DEF PRINTER_ATTRIBUTES
    <3> QED
      BY <1>1, <2>5, <3>2, FaithfulPrinter DEF PrinterTold
  <2>6. CASE f = "accepting"
    <3>1. "printer-is-accepting-jobs" \notin D
      BY <1>10, <2>6, FeedsWhat DEF Untouched
    <3>2. BoolOf(g, "printer-is-accepting-jobs") = t.accepting
      BY <1>1, <3>1, PrinterSaysWhat, ScalarTrue DEF BoolOf, PRINTER_ATTRIBUTES
    <3>3. t.accepting # None
      BY <1>1, <1>6
    <3> QED
      BY <1>1, <2>6, <3>2, <3>3, FaithfulPrinter DEF PrinterTold, OrElse
  <2>7. CASE f = "supplies"
    <3>1. D \cap {"marker-names", "marker-levels", "marker-colors"} = {}
      BY <1>10, <2>7, FeedsWhat DEF Untouched
    <3> DEFINE names == [i \in DOMAIN t.markers |-> t.markers[i].name]
               levels == [i \in DOMAIN t.markers |-> t.markers[i].level]
               colours == [i \in DOMAIN t.markers |-> t.markers[i].colour]
    <3>2. /\ Says(t, "marker-names") = Many("text", names) /\ names \in Seq(Words)
          /\ Says(t, "marker-levels") = Many("int", levels) /\ levels \in Seq(Int)
          /\ Says(t, "marker-colors") = Many("text", colours) /\ colours \in Seq(Words)
      BY <1>1, PrinterSaysWhat, MarkersAre
    <3>3. Faithful(t).supplies = DecodeSupplies(names, levels, colours)
      BY <1>1, SuppliesTrue, FaithfulPrinter
    <3> HIDE DEF names, levels, colours
    <3>4. /\ Holds(g, "marker-names", Many("text", names))
          /\ Holds(g, "marker-levels", Many("int", levels))
          /\ Holds(g, "marker-colors", Many("text", colours))
      BY <3>1, <3>2 DEF PRINTER_ATTRIBUTES
    <3>5. Texts(g, "marker-names") = names
      BY <3>2, <3>4, ListTrue DEF Texts
    <3>6. Ints(g, "marker-levels") = levels
      BY <3>2, <3>4, ListTrue DEF Ints
    <3>7. Texts(g, "marker-colors") = colours
      BY <3>2, <3>4, ListTrue DEF Texts
    <3>8. PrinterTold(g).supplies = DecodeSupplies(names, levels, colours)
      BY <3>5, <3>6, <3>7 DEF PrinterTold
    <3> QED
      BY <2>7, <3>3, <3>8
  <2>8. CASE f = "options"
    <3>1. D \cap {"media-supported", "media-default", "print-quality-supported",
                  "print-quality-default"} = {}
      BY <1>10, <2>8, FeedsWhat DEF Untouched
    <3>2. DecodeOptions(g) = Faithful(t).options
      BY <3>1, OptionsTrue DEF PRINTER_ATTRIBUTES
    <3> QED
      BY <2>8, <3>2 DEF PrinterTold
  <2> QED
    BY <2>1, <2>2, <2>3, <2>4, <2>5, <2>6, <2>7, <2>8 DEF PrinterFields
<1> QED
  BY <1>9, <1>10

-----------------------------------------------------------------------------
(* Jobs. *)

\* What is told of a job that is told of.
JobTold(g) ==
    [id |-> IntOf(g, "job-id"),
     state |-> JobStateFromIpp(IntOf(g, "job-state")),
     printer |-> IF TextOf(g, "job-printer-uri") = None THEN ""
                 ELSE OrElse(PrinterNameFromUri(TextOf(g, "job-printer-uri")), ""),
     name |-> TextOf(g, "job-name"),
     reasons |-> ParseReasons(Texts(g, "job-state-reasons")),
     progress |-> Pages(IntOf(g, "job-impressions"), IntOf(g, "job-impressions-completed")),
     pages_printed |-> Positive(IntOf(g, "job-impressions-completed")),
     completed |-> Positive(IntOf(g, "time-at-completed"))]

LEMMA DecodeJobIs ==
    ASSUME NEW g
    PROVE  DecodeJob(g) =
                IF IntOf(g, "job-id") = None \/ JobStateFromIpp(IntOf(g, "job-state")) = None
                THEN <<>> ELSE <<JobTold(g)>>
  BY DEF DecodeJob, JobTold

LEMMA JobSaysWhat ==
    ASSUME NEW t, t.kind = "job"
    PROVE  /\ Says(t, "job-id") = One("int", t.id)
           /\ Says(t, "job-state") = One("int", t.code)
           /\ Says(t, "job-printer-uri") = One("text", t.uri)
           /\ Says(t, "job-name") = One("text", t.name)
           /\ Says(t, "job-state-reasons") = Reasons(t)
           /\ Says(t, "job-impressions") = One("int", t.total)
           /\ Says(t, "job-impressions-completed") = One("int", t.done)
           /\ Says(t, "time-at-completed") = One("int", t.completed)
<1>1. \A n : Says(t, n) = JobSays(t, n)
  BY DEF Says
<1> QED
  BY <1>1 DEF JobSays

JobFields ==
    {"id", "state", "name", "printer", "reasons", "progress", "pages_printed", "completed"}

LEMMA FaithfulJob ==
    ASSUME NEW t, t.kind = "job"
    PROVE  /\ DOMAIN Faithful(t) = JobFields
           /\ Faithful(t).id = t.id /\ Faithful(t).state = t.code /\ Faithful(t).name = t.name
           /\ Faithful(t).printer = t.uri[Len(t.uri)]
           /\ Faithful(t).reasons = SeverityOf(t.reasons)
           /\ Faithful(t).progress = IF t.done # None /\ Known(t.total) # None
                                     THEN [done |-> t.done, total |-> t.total] ELSE None
           /\ Faithful(t).pages_printed = Known(t.done)
           /\ Faithful(t).completed = Known(t.completed)
  BY DEF Faithful, JobFields

\* A job is told of unless it has lost its id or its state, or its state is not
\* registered; what is told is so, but for what was damaged.
LEMMA JobTrue ==
    ASSUME NEW t \in Jobs, NEW g, NEW D \in SUBSET JOB_ATTRIBUTES,
           \A n \in JOB_ATTRIBUTES \ D : Holds(g, n, Says(t, n)),
           \A n \in D \cap Vital : Lost(g, n)
    PROVE  /\ DecodeJob(g) =
                IF Tellable(t) /\ D \cap Vital = {} THEN <<JobTold(g)>> ELSE <<>>
           /\ Tellable(t) /\ D \cap Vital = {} =>
                \A f \in JobFields : Untouched(D, f) => JobTold(g)[f] = Faithful(t)[f]
<1>1. /\ t.kind = "job" /\ t.id \in Int /\ t.code \in Int
      /\ t.uri \in Seq(Words) /\ t.uri # <<>> /\ t.reasons \in Seq(Reason)
  BY DEF Jobs
<1>2. Tellable(t) <=> t.code \in 3..9
  BY <1>1 DEF Tellable, Registry
<1>3. D \cap Vital = D \cap {"job-id", "job-state"}
  BY DEF JOB_ATTRIBUTES, Vital
<1>4. \A n \in JOB_ATTRIBUTES : \A x : n \notin D /\ Says(t, n) = One("int", x) => IntOf(g, n) = x
  BY ScalarTrue DEF IntOf
<1>5. /\ "job-id" \notin D => IntOf(g, "job-id") = t.id
      /\ "job-state" \notin D => IntOf(g, "job-state") = t.code
      /\ "job-impressions" \notin D => IntOf(g, "job-impressions") = t.total
      /\ "job-impressions-completed" \notin D => IntOf(g, "job-impressions-completed") = t.done
      /\ "time-at-completed" \notin D => IntOf(g, "time-at-completed") = t.completed
  BY <1>1, <1>4, JobSaysWhat DEF JOB_ATTRIBUTES
<1>6. /\ "job-id" \in D => IntOf(g, "job-id") = None
      /\ "job-state" \in D => IntOf(g, "job-state") = None
  BY <1>3, LostTrue DEF IntOf
<1>7. JobStateFromIpp(None) = None /\ None \notin Int /\ None \notin 3..9 /\ None \notin Words
  BY WordsAssumption DEF JobStateFromIpp
<1>8. \A v \in Int : JobStateFromIpp(v) = IF v \in 3..9 THEN v ELSE None
  BY DEF JobStateFromIpp
<1>9. DecodeJob(g) = IF Tellable(t) /\ D \cap Vital = {} THEN <<JobTold(g)>> ELSE <<>>
  <2>1. CASE D \cap Vital = {}
    BY <1>1, <1>2, <1>3, <1>5, <1>7, <1>8, <2>1, DecodeJobIs
  <2>2. CASE D \cap Vital # {}
    BY <1>3, <1>6, <1>7, <2>2, DecodeJobIs
  <2> QED
    BY <2>1, <2>2
<1>10. ASSUME Tellable(t), D \cap Vital = {}, NEW f \in JobFields, Untouched(D, f)
       PROVE  JobTold(g)[f] = Faithful(t)[f]
  <2>1. CASE f = "id"
    BY <1>1, <1>3, <1>5, <1>10, <2>1, FaithfulJob DEF JobTold
  <2>2. CASE f = "state"
    <3>1. JobTold(g).state = JobStateFromIpp(IntOf(g, "job-state"))
      BY DEF JobTold
    <3> QED
      BY <1>1, <1>2, <1>3, <1>5, <1>8, <1>10, <2>2, <3>1, FaithfulJob
  <2>3. CASE f = "name"
    <3>1. "job-name" \notin D
      BY <1>10, <2>3, FeedsWhat DEF Untouched
    <3>2. TextOf(g, "job-name") = t.name
      BY <1>1, <3>1, JobSaysWhat, ScalarTrue DEF TextOf, JOB_ATTRIBUTES
    <3> QED
      BY <1>1, <2>3, <3>2, FaithfulJob DEF JobTold
  <2>4. CASE f = "printer"
    <3>1. "job-printer-uri" \notin D
      BY <1>10, <2>4, FeedsWhat DEF Untouched
    <3>2. TextOf(g, "job-printer-uri") = t.uri
      BY <1>1, <3>1, JobSaysWhat, ScalarTrue DEF TextOf, JOB_ATTRIBUTES
    <3>3. t.uri # None
      BY <1>1, WordsAssumption
    <3>4. Last(t.uri) = t.uri[Len(t.uri)] /\ Last(t.uri) # None
      BY <1>1, <1>7 DEF Last
    <3>5. JobTold(g).printer = OrElse(PrinterNameFromUri(t.uri), "")
      BY <3>2, <3>3 DEF JobTold
    <3>6. OrElse(PrinterNameFromUri(t.uri), "") = Last(t.uri)
      BY <3>4 DEF OrElse, PrinterNameFromUri
    <3> QED
      BY <1>1, <2>4, <3>4, <3>5, <3>6, FaithfulJob
  <2>5. CASE f = "reasons"
    <3>1. "job-state-reasons" \notin D
      BY <1>10, <2>5, FeedsWhat DEF Untouched
    <3>2. ParseReasons(Texts(g, "job-state-reasons")) = SeverityOf(t.reasons)
      BY <1>1, <3>1, JobSaysWhat, ReasonsTrue DEF JOB_ATTRIBUTES
    <3> QED
      BY <1>1, <2>5, <3>2, FaithfulJob DEF JobTold
  <2>6. CASE f = "progress"
    <3>1. "job-impressions" \notin D /\ "job-impressions-completed" \notin D
      BY <1>10, <2>6, FeedsWhat DEF Untouched
    <3>2. JobTold(g).progress = Pages(t.total, t.done)
      BY <1>5, <3>1 DEF JobTold
    <3>3. Pages(t.total, t.done) = IF t.done # None /\ Known(t.total) # None
                                   THEN [done |-> t.done, total |-> t.total] ELSE None
      BY DEF Pages, Positive, Known
    <3> QED
      BY <1>1, <2>6, <3>2, <3>3, FaithfulJob
  <2>7. CASE f = "pages_printed"
    <3>1. "job-impressions-completed" \notin D
      BY <1>10, <2>7, FeedsWhat DEF Untouched
    <3> QED
      BY <1>1, <1>5, <2>7, <3>1, FaithfulJob DEF JobTold, Positive, Known
  <2>8. CASE f = "completed"
    <3>1. "time-at-completed" \notin D
      BY <1>10, <2>8, FeedsWhat DEF Untouched
    <3> QED
      BY <1>1, <1>5, <2>8, <3>1, FaithfulJob DEF JobTold, Positive, Known
  <2> QED
    BY <2>1, <2>2, <2>3, <2>4, <2>5, <2>6, <2>7, <2>8 DEF JobFields
<1> QED
  BY <1>9, <1>10

-----------------------------------------------------------------------------
(* Classes, drivers, documents and notifications. *)

ClassTold(g) == [name |-> TextOf(g, "printer-name"), members |-> Texts(g, "member-names")]
DriverTold(g) ==
    [name |-> TextOf(g, "ppd-name"), device_id |-> OrElse(TextOf(g, "ppd-device-id"), "")]
DocumentTold(g) ==
    [number |-> IntOf(g, "document-number"), format |-> TextOf(g, "document-format")]
NotificationTold(g) ==
    [subscription_id |-> IntOf(g, "notify-subscription-id"),
     event |-> OrElse(TextOf(g, "notify-subscribed-event"), ""),
     sequence |-> IntOf(g, "notify-sequence-number")]

LEMMA ClassTrue ==
    ASSUME NEW t \in Classes, NEW g, NEW D \in SUBSET CLASS_ATTRIBUTES,
           \A n \in CLASS_ATTRIBUTES \ D : Holds(g, n, Says(t, n)),
           \A n \in D \cap Vital : Lost(g, n)
    PROVE  /\ DecodeClass(g) = IF D \cap Vital = {} THEN <<ClassTold(g)>> ELSE <<>>
           /\ Faithful(t) = [name |-> t.name, members |-> t.members]
           /\ D \cap Vital = {} => ClassTold(g).name = t.name
           /\ Untouched(D, "members") => ClassTold(g).members = t.members
<1>1. t.kind = "class" /\ t.name \in Words /\ t.members \in Seq(Words)
  BY DEF Classes
<1>2. D \cap Vital = D \cap {"printer-name"}
  BY DEF CLASS_ATTRIBUTES, Vital
<1>3. \A n : Says(t, n) = ClassSays(t, n)
  BY <1>1 DEF Says
<1>4. /\ Says(t, "printer-name") = One("text", t.name)
      /\ Says(t, "member-names") = Many("text", t.members)
  BY <1>3 DEF ClassSays
<1>5. "printer-name" \notin D => TextOf(g, "printer-name") = t.name
  BY <1>4, ScalarTrue DEF TextOf, CLASS_ATTRIBUTES
<1>6. "printer-name" \in D => TextOf(g, "printer-name") = None
  BY <1>2, LostTrue DEF TextOf
<1>7. "member-names" \notin D => Texts(g, "member-names") = t.members
  BY <1>1, <1>4, ListTrue DEF Texts, CLASS_ATTRIBUTES
<1>8. t.name # None
  BY <1>1, WordsAssumption
<1>9. DecodeClass(g) = IF D \cap Vital = {} THEN <<ClassTold(g)>> ELSE <<>>
  BY <1>2, <1>5, <1>6, <1>8 DEF DecodeClass, ClassTold
<1>10. Faithful(t) = [name |-> t.name, members |-> t.members]
  <2>1. DOMAIN t = {"kind", "name", "members"}
    BY DEF Classes
  <2>2. Faithful(t) = [f \in DOMAIN t \ {"kind"} |-> t[f]]
    BY <1>1 DEF Faithful
  <2> QED
    BY <2>1, <2>2
<1> QED
  BY <1>2, <1>5, <1>7, <1>9, <1>10, FeedsWhat DEF ClassTold, Untouched

LEMMA DriverTrue ==
    ASSUME NEW t \in Drivers, NEW g, NEW D \in SUBSET PPD_ATTRIBUTES,
           \A n \in PPD_ATTRIBUTES \ D : Holds(g, n, Says(t, n)),
           \A n \in D \cap Vital : Lost(g, n)
    PROVE  /\ DecodePpd(g) = IF D \cap Vital = {} THEN <<DriverTold(g)>> ELSE <<>>
           /\ Faithful(t) = [name |-> t.name, device_id |-> t.device_id]
           /\ D \cap Vital = {} => DriverTold(g).name = t.name
           /\ Untouched(D, "device_id") => DriverTold(g).device_id = t.device_id
<1>1. t.kind = "driver" /\ t.name \in Words /\ t.device_id \in Words
  BY DEF Drivers
<1>2. D \cap Vital = D \cap {"ppd-name"}
  BY DEF PPD_ATTRIBUTES, Vital
<1>3. \A n : Says(t, n) = DriverSays(t, n)
  BY <1>1 DEF Says
<1>4. /\ Says(t, "ppd-name") = One("text", t.name)
      /\ Says(t, "ppd-device-id") = One("text", t.device_id)
  BY <1>3 DEF DriverSays
<1>5. /\ "ppd-name" \notin D => TextOf(g, "ppd-name") = t.name
      /\ "ppd-device-id" \notin D => TextOf(g, "ppd-device-id") = t.device_id
  BY <1>4, ScalarTrue DEF TextOf, PPD_ATTRIBUTES
<1>6. "ppd-name" \in D => TextOf(g, "ppd-name") = None
  BY <1>2, LostTrue DEF TextOf
<1>7. t.name # None /\ t.device_id # None
  BY <1>1, WordsAssumption
<1>8. DecodePpd(g) = IF D \cap Vital = {} THEN <<DriverTold(g)>> ELSE <<>>
  BY <1>2, <1>5, <1>6, <1>7 DEF DecodePpd, DriverTold
<1>9. Faithful(t) = [name |-> t.name, device_id |-> t.device_id]
  <2>1. DOMAIN t = {"kind", "name", "device_id"}
    BY DEF Drivers
  <2>2. Faithful(t) = [f \in DOMAIN t \ {"kind"} |-> t[f]]
    BY <1>1 DEF Faithful
  <2> QED
    BY <2>1, <2>2
<1> QED
  BY <1>2, <1>5, <1>7, <1>8, <1>9, FeedsWhat DEF DriverTold, Untouched, OrElse

LEMMA DocumentTrue ==
    ASSUME NEW t \in Documents, NEW g, NEW D \in SUBSET DOCUMENT_ATTRIBUTES,
           \A n \in DOCUMENT_ATTRIBUTES \ D : Holds(g, n, Says(t, n)),
           \A n \in D \cap Vital : Lost(g, n)
    PROVE  /\ DecodeDocument(g) = IF D \cap Vital = {} THEN <<DocumentTold(g)>> ELSE <<>>
           /\ Faithful(t) = [number |-> t.number, format |-> t.format]
           /\ D \cap Vital = {} => DocumentTold(g).number = t.number
           /\ Untouched(D, "format") => DocumentTold(g).format = t.format
<1>1. t.kind = "document" /\ t.number \in Int
  BY DEF Documents
<1>2. D \cap Vital = D \cap {"document-number"}
  BY DEF DOCUMENT_ATTRIBUTES, Vital
<1>3. \A n : Says(t, n) = DocumentSays(t, n)
  BY <1>1 DEF Says
<1>4. /\ Says(t, "document-number") = One("int", t.number)
      /\ Says(t, "document-format") = One("text", t.format)
  BY <1>3 DEF DocumentSays
<1>5. /\ "document-number" \notin D => IntOf(g, "document-number") = t.number
      /\ "document-format" \notin D => TextOf(g, "document-format") = t.format
  BY <1>4, ScalarTrue DEF TextOf, IntOf, DOCUMENT_ATTRIBUTES
<1>6. "document-number" \in D => IntOf(g, "document-number") = None
  BY <1>2, LostTrue DEF IntOf
<1>7. t.number # None
  BY <1>1, WordsAssumption
<1>8. DecodeDocument(g) = IF D \cap Vital = {} THEN <<DocumentTold(g)>> ELSE <<>>
  BY <1>2, <1>5, <1>6, <1>7 DEF DecodeDocument, DocumentTold
<1>9. Faithful(t) = [number |-> t.number, format |-> t.format]
  <2>1. DOMAIN t = {"kind", "number", "format"}
    BY DEF Documents
  <2>2. Faithful(t) = [f \in DOMAIN t \ {"kind"} |-> t[f]]
    BY <1>1 DEF Faithful
  <2> QED
    BY <2>1, <2>2
<1> QED
  BY <1>2, <1>5, <1>8, <1>9, FeedsWhat DEF DocumentTold, Untouched

LEMMA NotificationTrue ==
    ASSUME NEW t \in Notifications, NEW g, NEW D \in SUBSET NOTIFICATION_ATTRIBUTES,
           \A n \in NOTIFICATION_ATTRIBUTES \ D : Holds(g, n, Says(t, n)),
           \A n \in D \cap Vital : Lost(g, n)
    PROVE  /\ DecodeNotification(g) =
                IF D \cap Vital = {} THEN <<NotificationTold(g)>> ELSE <<>>
           /\ Faithful(t) = [subscription_id |-> t.subscription_id, event |-> t.event,
                             sequence |-> t.sequence]
           /\ D \cap Vital = {} => NotificationTold(g).subscription_id = t.subscription_id
           /\ Untouched(D, "event") => NotificationTold(g).event = t.event
           /\ Untouched(D, "sequence") => NotificationTold(g).sequence = t.sequence
<1>1. t.kind = "notification" /\ t.subscription_id \in Int /\ t.event \in Words
  BY DEF Notifications
<1>2. D \cap Vital = D \cap {"notify-subscription-id"}
  BY DEF NOTIFICATION_ATTRIBUTES, Vital
<1>3. \A n : Says(t, n) = NotificationSays(t, n)
  BY <1>1 DEF Says
<1>4. /\ Says(t, "notify-subscription-id") = One("int", t.subscription_id)
      /\ Says(t, "notify-subscribed-event") = One("text", t.event)
      /\ Says(t, "notify-sequence-number") = One("int", t.sequence)
  BY <1>3 DEF NotificationSays
<1>5. /\ "notify-subscription-id" \notin D =>
            IntOf(g, "notify-subscription-id") = t.subscription_id
      /\ "notify-subscribed-event" \notin D => TextOf(g, "notify-subscribed-event") = t.event
      /\ "notify-sequence-number" \notin D => IntOf(g, "notify-sequence-number") = t.sequence
  BY <1>4, ScalarTrue DEF TextOf, IntOf, NOTIFICATION_ATTRIBUTES
<1>6. "notify-subscription-id" \in D => IntOf(g, "notify-subscription-id") = None
  BY <1>2, LostTrue DEF IntOf
<1>7. t.subscription_id # None /\ t.event # None
  BY <1>1, WordsAssumption
<1>8. DecodeNotification(g) = IF D \cap Vital = {} THEN <<NotificationTold(g)>> ELSE <<>>
  BY <1>2, <1>5, <1>6, <1>7 DEF DecodeNotification, NotificationTold
<1>9. Faithful(t) = [subscription_id |-> t.subscription_id, event |-> t.event,
                     sequence |-> t.sequence]
  <2>1. DOMAIN t = {"kind", "subscription_id", "event", "sequence"}
    BY DEF Notifications
  <2>2. Faithful(t) = [f \in DOMAIN t \ {"kind"} |-> t[f]]
    BY <1>1 DEF Faithful
  <2> QED
    BY <2>1, <2>2
<1> QED
  BY <1>2, <1>5, <1>7, <1>8, <1>9, FeedsWhat DEF NotificationTold, Untouched, OrElse

-----------------------------------------------------------------------------
(* Any thing. *)

ToldOf(kind, g) ==
    CASE kind = "printer" -> PrinterTold(g)
      [] kind = "job" -> JobTold(g)
      [] kind = "class" -> ClassTold(g)
      [] kind = "driver" -> DriverTold(g)
      [] kind = "document" -> DocumentTold(g)
      [] kind = "notification" -> NotificationTold(g)

\* A thing that can be told of is told of unless a vital attribute is lost, and
\* as it is but for what was damaged.
LEMMA ThingTrue ==
    ASSUME NEW t \in Thing, NEW g, NEW D \in SUBSET RequestAttributes(t),
           \A n \in RequestAttributes(t) \ D : Holds(g, n, Says(t, n)),
           \A n \in D \cap Vital : Lost(g, n)
    PROVE  /\ Decode(t.kind, g) =
                IF Tellable(t) /\ D \cap Vital = {} THEN <<ToldOf(t.kind, g)>> ELSE <<>>
           /\ Tellable(t) /\ D \cap Vital = {} =>
                \A f \in DOMAIN Faithful(t) :
                    Untouched(D, f) => ToldOf(t.kind, g)[f] = Faithful(t)[f]
           /\ Tellable(t) /\ D = {} => ToldOf(t.kind, g) = Faithful(t)
<1>1. CASE t \in Printers
  <2>1. t.kind = "printer"
    BY <1>1 DEF Printers
  <2>2. /\ RequestAttributes(t) = PRINTER_ATTRIBUTES
        /\ Decode(t.kind, g) = DecodePrinter(g) /\ ToldOf(t.kind, g) = PrinterTold(g)
    BY <2>1 DEF RequestAttributes, Decode, ToldOf
  <2>3. DOMAIN Faithful(t) = PrinterFields
    BY <2>1, FaithfulPrinter
  <2>4. /\ PrinterTold(g) = [f \in PrinterFields |-> PrinterTold(g)[f]]
        /\ Faithful(t) = [f \in PrinterFields |-> Faithful(t)[f]]
    BY <2>1 DEF PrinterTold, PrinterFields, Faithful
  <2>5. \A f : D = {} => Untouched(D, f)
    BY DEF Untouched
  <2>6. /\ Decode(t.kind, g) =
                IF Tellable(t) /\ D \cap Vital = {} THEN <<PrinterTold(g)>> ELSE <<>>
        /\ Tellable(t) /\ D \cap Vital = {} =>
                \A f \in PrinterFields : Untouched(D, f) => PrinterTold(g)[f] = Faithful(t)[f]
    BY <1>1, <2>2, PrinterTrue
  <2>7. Tellable(t) /\ D = {} => PrinterTold(g) = Faithful(t)
    <3>1. SUFFICES ASSUME Tellable(t), D = {}
                   PROVE  PrinterTold(g) = Faithful(t)
      OBVIOUS
    <3>2. \A f \in PrinterFields : PrinterTold(g)[f] = Faithful(t)[f]
      BY <2>5, <2>6, <3>1
    <3> QED
      BY <2>4, <3>2
  <2> QED
    BY <2>2, <2>3, <2>6, <2>7
<1>2. CASE t \in Jobs
  <2>1. t.kind = "job"
    BY <1>2 DEF Jobs
  <2>2. /\ RequestAttributes(t) = JOB_ATTRIBUTES
        /\ Decode(t.kind, g) = DecodeJob(g) /\ ToldOf(t.kind, g) = JobTold(g)
    BY <2>1 DEF RequestAttributes, Decode, ToldOf
  <2>3. DOMAIN Faithful(t) = JobFields
    BY <2>1, FaithfulJob
  <2>4. /\ JobTold(g) = [f \in JobFields |-> JobTold(g)[f]]
        /\ Faithful(t) = [f \in JobFields |-> Faithful(t)[f]]
    BY <2>1 DEF JobTold, JobFields, Faithful
  <2>5. \A f : D = {} => Untouched(D, f)
    BY DEF Untouched
  <2>6. /\ Decode(t.kind, g) =
                IF Tellable(t) /\ D \cap Vital = {} THEN <<JobTold(g)>> ELSE <<>>
        /\ Tellable(t) /\ D \cap Vital = {} =>
                \A f \in JobFields : Untouched(D, f) => JobTold(g)[f] = Faithful(t)[f]
    BY <1>2, <2>2, JobTrue
  <2>7. Tellable(t) /\ D = {} => JobTold(g) = Faithful(t)
    <3>1. SUFFICES ASSUME Tellable(t), D = {}
                   PROVE  JobTold(g) = Faithful(t)
      OBVIOUS
    <3>2. \A f \in JobFields : JobTold(g)[f] = Faithful(t)[f]
      BY <2>5, <2>6, <3>1
    <3> QED
      BY <2>4, <3>2
  <2> QED
    BY <2>2, <2>3, <2>6, <2>7
<1>3. CASE t \in Classes
  <2>1. t.kind = "class"
    BY <1>3 DEF Classes
  <2>2. /\ RequestAttributes(t) = CLASS_ATTRIBUTES
        /\ Decode(t.kind, g) = DecodeClass(g) /\ ToldOf(t.kind, g) = ClassTold(g)
        /\ Tellable(t)
    BY <2>1 DEF RequestAttributes, Decode, ToldOf, Tellable, Registry
  <2>3. /\ Decode(t.kind, g) = IF D \cap Vital = {} THEN <<ClassTold(g)>> ELSE <<>>
        /\ Faithful(t) = [name |-> t.name, members |-> t.members]
        /\ D \cap Vital = {} => ClassTold(g).name = t.name
        /\ Untouched(D, "members") => ClassTold(g).members = t.members
    BY <1>3, <2>2, ClassTrue
  <2> QED
    BY <2>2, <2>3 DEF ClassTold, Untouched
<1>4. CASE t \in Drivers
  <2>1. t.kind = "driver"
    BY <1>4 DEF Drivers
  <2>2. /\ RequestAttributes(t) = PPD_ATTRIBUTES
        /\ Decode(t.kind, g) = DecodePpd(g) /\ ToldOf(t.kind, g) = DriverTold(g)
        /\ Tellable(t)
    BY <2>1 DEF RequestAttributes, Decode, ToldOf, Tellable, Registry
  <2>3. /\ Decode(t.kind, g) = IF D \cap Vital = {} THEN <<DriverTold(g)>> ELSE <<>>
        /\ Faithful(t) = [name |-> t.name, device_id |-> t.device_id]
        /\ D \cap Vital = {} => DriverTold(g).name = t.name
        /\ Untouched(D, "device_id") => DriverTold(g).device_id = t.device_id
    BY <1>4, <2>2, DriverTrue
  <2>4. DOMAIN Faithful(t) = {"name", "device_id"} /\ Untouched({}, "device_id")
    BY <2>3 DEF Untouched
  <2>5. D \cap Vital = {} =>
            \A f \in DOMAIN Faithful(t) :
                Untouched(D, f) => DriverTold(g)[f] = Faithful(t)[f]
    BY <2>3, <2>4
  <2>6. D = {} => DriverTold(g) = Faithful(t)
    BY <2>3, <2>4 DEF DriverTold
  <2> QED
    BY <2>2, <2>3, <2>5, <2>6
<1>5. CASE t \in Documents
  <2>1. t.kind = "document"
    BY <1>5 DEF Documents
  <2>2. /\ RequestAttributes(t) = DOCUMENT_ATTRIBUTES
        /\ Decode(t.kind, g) = DecodeDocument(g) /\ ToldOf(t.kind, g) = DocumentTold(g)
        /\ Tellable(t)
    BY <2>1 DEF RequestAttributes, Decode, ToldOf, Tellable, Registry
  <2>3. /\ Decode(t.kind, g) = IF D \cap Vital = {} THEN <<DocumentTold(g)>> ELSE <<>>
        /\ Faithful(t) = [number |-> t.number, format |-> t.format]
        /\ D \cap Vital = {} => DocumentTold(g).number = t.number
        /\ Untouched(D, "format") => DocumentTold(g).format = t.format
    BY <1>5, <2>2, DocumentTrue
  <2> QED
    BY <2>2, <2>3 DEF DocumentTold, Untouched
<1>6. CASE t \in Notifications
  <2>1. t.kind = "notification"
    BY <1>6 DEF Notifications
  <2>2. /\ RequestAttributes(t) = NOTIFICATION_ATTRIBUTES
        /\ Decode(t.kind, g) = DecodeNotification(g)
        /\ ToldOf(t.kind, g) = NotificationTold(g) /\ Tellable(t)
    BY <2>1 DEF RequestAttributes, Decode, ToldOf, Tellable, Registry
  <2>3. /\ Decode(t.kind, g) = IF D \cap Vital = {} THEN <<NotificationTold(g)>> ELSE <<>>
        /\ Faithful(t) = [subscription_id |-> t.subscription_id, event |-> t.event,
                          sequence |-> t.sequence]
        /\ D \cap Vital = {} => NotificationTold(g).subscription_id = t.subscription_id
        /\ Untouched(D, "event") => NotificationTold(g).event = t.event
        /\ Untouched(D, "sequence") => NotificationTold(g).sequence = t.sequence
    BY <1>6, <2>2, NotificationTrue
  <2>4. /\ DOMAIN Faithful(t) = {"subscription_id", "event", "sequence"}
        /\ Untouched({}, "event") /\ Untouched({}, "sequence")
    BY <2>3 DEF Untouched
  <2>5. D \cap Vital = {} =>
            \A f \in DOMAIN Faithful(t) :
                Untouched(D, f) => NotificationTold(g)[f] = Faithful(t)[f]
    BY <2>3, <2>4
  <2>6. D = {} => NotificationTold(g) = Faithful(t)
    BY <2>3, <2>4 DEF NotificationTold
  <2> QED
    BY <2>2, <2>3, <2>5, <2>6
<1> QED
  BY <1>1, <1>2, <1>3, <1>4, <1>5, <1>6 DEF Thing

\* A reply of two groups.
FlattenTurn(seqs, f) == [i \in 1..Len(seqs) |-> IF i = 1 THEN seqs[i] ELSE f[i - 1] \o seqs[i]]

LEMMA TwoGroups ==
    ASSUME NEW kind, NEW g, NEW h
    PROVE  LET groups == <<g, h>>
           IN  DecodeAll([i \in DOMAIN groups |-> Decode(kind, groups[i])]) =
                Decode(kind, g) \o Decode(kind, h)
<1> DEFINE a == Decode(kind, g)
           b == Decode(kind, h)
           seqs == <<a, b>>
           G == [i \in 1..2 |-> IF i = 1 THEN a ELSE a \o b]
<1>1. [i \in DOMAIN <<g, h>> |-> Decode(kind, <<g, h>>[i])] = seqs
  OBVIOUS
<1> HIDE DEF a, b
<1>2. Len(seqs) = 2 /\ seqs[1] = a /\ seqs[2] = b
  OBVIOUS
<1> HIDE DEF seqs
<1>3. G = FlattenTurn(seqs, G)
  BY <1>2 DEF FlattenTurn
<1>4. ASSUME NEW f, f = FlattenTurn(seqs, f)
      PROVE  f = G
  <2>1. f = [i \in 1..2 |-> f[i]]
    BY <1>2, <1>4 DEF FlattenTurn
  <2>2. f[1] = a
    BY <1>2, <1>4 DEF FlattenTurn
  <2>3. f[2] = f[1] \o b
    <3>1. \A i \in 1..Len(seqs) : f[i] = IF i = 1 THEN seqs[i] ELSE f[i - 1] \o seqs[i]
      BY <1>4 DEF FlattenTurn
    <3>2. 2 \in 1..Len(seqs) /\ 2 # 1 /\ 2 - 1 = 1
      BY <1>2
    <3>3. f[2] = f[2 - 1] \o seqs[2]
      BY <3>1, <3>2
    <3> QED
      BY <1>2, <3>2, <3>3
  <2> QED
    BY <2>1, <2>2, <2>3
<1>5. FlattenSeq(seqs) = (CHOOSE f : f = FlattenTurn(seqs, f))[Len(seqs)]
  BY <1>2 DEF FlattenSeq, FlattenTurn
<1>6. G[2] = a \o b
  OBVIOUS
<1> HIDE DEF G
<1>7. (CHOOSE f : f = FlattenTurn(seqs, f)) = G
  BY <1>3, <1>4
<1>8. FlattenSeq(seqs) = a \o b
  BY <1>2, <1>5, <1>6, <1>7
<1> QED
  BY <1>1, <1>8 DEF DecodeAll, a, b

-----------------------------------------------------------------------------
(* What the peer puts into an attribute. *)

\* A list of values, of which one alone is not put as an array.
Values(vs) ==
    /\ Len(vs) \in Nat /\ (Len(vs) = 0 => vs = <<>>)
    /\ Len(vs) = 1 => vs[1].tag # "array"

LEMMA OneValues ==
    ASSUME NEW tag, tag # "array", NEW x
    PROVE  Values(One(tag, x)) /\ Len(One(tag, x)) <= 1
<1> DEFINE v == Value(tag, x)
<1>1. v.tag = tag /\ One(tag, x) \in {<<>>, <<v>>}
  BY DEF One, Value
<1> HIDE DEF v
<1>2. /\ Len(<<>>) = 0
      /\ Len(<<v>>) = 1 /\ <<v>>[1] = v
  OBVIOUS
<1>3. CASE One(tag, x) = <<>>
  BY <1>2, <1>3 DEF Values
<1>4. CASE One(tag, x) = <<v>>
  BY <1>1, <1>2, <1>4 DEF Values
<1> QED
  BY <1>1, <1>3, <1>4

LEMMA ManyValues ==
    ASSUME NEW tag, tag # "array", NEW S, NEW s \in Seq(S)
    PROVE  Values(Many(tag, s))
<1>1. Len(Many(tag, s)) \in Nat /\ (Len(Many(tag, s)) = 0 => Many(tag, s) = <<>>)
  BY ManyIs
<1>2. ASSUME Len(Many(tag, s)) = 1
      PROVE  Many(tag, s)[1].tag # "array"
  <2>0. Len(s) = 1
    <3>1. Len(Many(tag, s)) = Len(s)
      BY ManyIs
    <3> QED
      BY <1>2, <3>1
  <2>1. Many(tag, s)[1] = Value(tag, s[1])
    <3>1. 1 \in DOMAIN s
      BY <2>0
    <3> QED
      BY <3>1 DEF Many
  <2> QED
    BY <2>1 DEF Value
<1> QED
  BY <1>1, <1>2 DEF Values

LEMMA ReasonsValues ==
    ASSUME NEW t, t.reasons \in Seq(Reason)
    PROVE  Values(Reasons(t))
<1> DEFINE raws == [i \in DOMAIN t.reasons |-> Spoken(t.reasons[i])]
<1>1. raws \in Seq(Seq(Words))
  <2>1. /\ Len(t.reasons) \in Nat /\ DOMAIN t.reasons = 1..Len(t.reasons)
        /\ \A i \in 1..Len(t.reasons) : t.reasons[i] \in Reason
    OBVIOUS
  <2> QED
    BY <2>1, SpokenTrue
<1>2. << <<"none">> >> \in Seq(Seq(Words))
  BY WordsAssumption
<1>3. Reasons(t) = Many("text", << <<"none">> >>) \/ Reasons(t) = Many("text", raws)
  BY DEF Reasons
<1> HIDE DEF raws
<1> QED
  BY <1>1, <1>2, <1>3, ManyValues

LEMMA NothingValues == Values(<<>>)
  BY DEF Values

LEMMA PrinterValues ==
    ASSUME NEW t \in Printers, NEW n
    PROVE  Values(PrinterSays(t, n))
<1>1. /\ t.uris \in Seq(Seq(Words)) /\ t.reasons \in Seq(Reason) /\ t.markers \in Seq(Marker)
      /\ t.media \in Seq(Words) /\ t.qualities \in Seq(Int)
  BY DEF Printers
<1>2. /\ Values(Many("text", t.uris)) /\ Values(Many("text", t.media))
      /\ Values(Many("int", t.qualities)) /\ Values(Reasons(t))
  <2>1. Values(Many("text", t.uris))
    BY <1>1, ManyValues
  <2>2. Values(Many("text", t.media))
    BY <1>1, ManyValues
  <2>3. Values(Many("int", t.qualities))
    BY <1>1, ManyValues
  <2> QED
    BY <1>1, <2>1, <2>2, <2>3, ReasonsValues
<1>3. /\ Values(MarkersOf(t, "text", "name")) /\ Values(MarkersOf(t, "int", "level"))
      /\ Values(MarkersOf(t, "text", "colour"))
  <2> DEFINE names == [i \in DOMAIN t.markers |-> t.markers[i].name]
             levels == [i \in DOMAIN t.markers |-> t.markers[i].level]
             colours == [i \in DOMAIN t.markers |-> t.markers[i].colour]
  <2>1. /\ MarkersOf(t, "text", "name") = Many("text", names) /\ names \in Seq(Words)
        /\ MarkersOf(t, "int", "level") = Many("int", levels) /\ levels \in Seq(Int)
        /\ MarkersOf(t, "text", "colour") = Many("text", colours) /\ colours \in Seq(Words)
    BY <1>1, MarkersAre
  <2> HIDE DEF names, levels, colours
  <2>2. Values(Many("text", names))
    BY <2>1, ManyValues
  <2>3. Values(Many("int", levels))
    BY <2>1, ManyValues
  <2>4. Values(Many("text", colours))
    BY <2>1, ManyValues
  <2> QED
    BY <2>1, <2>2, <2>3, <2>4
<1>4. \A x : /\ Values(One("text", x)) /\ Values(One("int", x)) /\ Values(One("bool", x))
  BY OneValues
<1> QED
  BY <1>2, <1>3, <1>4, NothingValues DEF PrinterSays

LEMMA JobValues ==
    ASSUME NEW t \in Jobs, NEW n
    PROVE  /\ Values(JobSays(t, n))
           /\ n # "job-state-reasons" => Len(JobSays(t, n)) <= 1
<1>1. Values(Reasons(t))
  BY ReasonsValues DEF Jobs
<1>2. \A x : /\ Values(One("text", x)) /\ Values(One("int", x))
             /\ Len(One("text", x)) <= 1 /\ Len(One("int", x)) <= 1
  BY OneValues
<1>3. Len(<<>>) <= 1
  OBVIOUS
<1> QED
  BY <1>1, <1>2, <1>3, NothingValues DEF JobSays

LEMMA SaysValues ==
    ASSUME NEW t \in Thing, NEW n
    PROVE  Values(Says(t, n))
<1>1. CASE t \in Printers
  <2>1. t.kind = "printer"
    BY <1>1 DEF Printers
  <2> QED
    BY <1>1, <2>1, PrinterValues DEF Says
<1>2. CASE t \in Jobs
  <2>1. t.kind = "job"
    BY <1>2 DEF Jobs
  <2> QED
    BY <1>2, <2>1, JobValues DEF Says
<1>3. \A x : Values(One("text", x)) /\ Values(One("int", x))
  BY OneValues
<1>4. CASE t \in Classes
  <2>1. t.kind = "class" /\ t.members \in Seq(Words)
    BY <1>4 DEF Classes
  <2>2. Says(t, n) = ClassSays(t, n)
    BY <2>1 DEF Says
  <2>3. Values(Many("text", t.members))
    BY <2>1, ManyValues
  <2> QED
    BY <1>3, <2>2, <2>3, NothingValues DEF ClassSays
<1>5. CASE t \in Drivers
  <2>1. t.kind = "driver"
    BY <1>5 DEF Drivers
  <2>2. Says(t, n) = DriverSays(t, n)
    BY <2>1 DEF Says
  <2> QED
    BY <1>3, <2>2, NothingValues DEF DriverSays
<1>6. CASE t \in Documents
  <2>1. t.kind = "document"
    BY <1>6 DEF Documents
  <2>2. Says(t, n) = DocumentSays(t, n)
    BY <2>1 DEF Says
  <2> QED
    BY <1>3, <2>2, NothingValues DEF DocumentSays
<1>7. CASE t \in Notifications
  <2>1. t.kind = "notification"
    BY <1>7 DEF Notifications
  <2>2. Says(t, n) = NotificationSays(t, n)
    BY <2>1 DEF Says
  <2> QED
    BY <1>3, <2>2, NothingValues DEF NotificationSays
<1> QED
  BY <1>1, <1>2, <1>4, <1>5, <1>6, <1>7 DEF Thing

\* A vital attribute has no more than one value.
LEMMA VitalOne ==
    ASSUME NEW t \in Thing, NEW n \in Vital \cap RequestAttributes(t)
    PROVE  Len(Says(t, n)) <= 1
<1>1. \A x : Len(One("text", x)) <= 1 /\ Len(One("int", x)) <= 1
  BY OneValues
<1>2. CASE t \in Printers
  <2>1. t.kind = "printer"
    BY <1>2 DEF Printers
  <2>2. n \in {"printer-name", "printer-state"}
    BY <2>1 DEF RequestAttributes, PRINTER_ATTRIBUTES, Vital
  <2> QED
    BY <1>1, <2>1, <2>2, PrinterSaysWhat
<1>3. CASE t \in Jobs
  <2>1. t.kind = "job"
    BY <1>3 DEF Jobs
  <2>2. n \in {"job-id", "job-state"}
    BY <2>1 DEF RequestAttributes, JOB_ATTRIBUTES, Vital
  <2> QED
    BY <1>1, <2>1, <2>2, JobSaysWhat
<1>4. CASE t \in Classes
  <2>1. t.kind = "class"
    BY <1>4 DEF Classes
  <2>2. n = "printer-name"
    BY <2>1 DEF RequestAttributes, CLASS_ATTRIBUTES, Vital
  <2>3. Says(t, n) = One("text", t.name)
    BY <2>1, <2>2 DEF Says, ClassSays
  <2> QED
    BY <1>1, <2>3
<1>5. CASE t \in Drivers
  <2>1. t.kind = "driver"
    BY <1>5 DEF Drivers
  <2>2. n = "ppd-name"
    BY <2>1 DEF RequestAttributes, PPD_ATTRIBUTES, Vital
  <2>3. Says(t, n) = One("text", t.name)
    BY <2>1, <2>2 DEF Says, DriverSays
  <2> QED
    BY <1>1, <2>3
<1>6. CASE t \in Documents
  <2>1. t.kind = "document"
    BY <1>6 DEF Documents
  <2>2. n = "document-number"
    BY <2>1 DEF RequestAttributes, DOCUMENT_ATTRIBUTES, Vital
  <2>3. Says(t, n) = One("int", t.number)
    BY <2>1, <2>2 DEF Says, DocumentSays
  <2> QED
    BY <1>1, <2>3
<1>7. CASE t \in Notifications
  <2>1. t.kind = "notification"
    BY <1>7 DEF Notifications
  <2>2. n = "notify-subscription-id"
    BY <2>1 DEF RequestAttributes, NOTIFICATION_ATTRIBUTES, Vital
  <2>3. Says(t, n) = One("int", t.subscription_id)
    BY <2>1, <2>2 DEF Says, NotificationSays
  <2> QED
    BY <1>1, <2>3
<1> QED
  BY <1>2, <1>3, <1>4, <1>5, <1>6, <1>7 DEF Thing

-----------------------------------------------------------------------------
(* The invariant. *)

\* How a damaged attribute is found in a group.
FoundAs(g, n, how) ==
    /\ how \in {"missing", "garbled"} => Lost(g, n)
    /\ how \in {"item", "short"} => Len(Says(thing, n)) > 1
    /\ how = "short" => n \in DOMAIN g /\ g[n] = Bundle(Front(Says(thing, n)))

GroupInv(g) ==
    /\ \A n \in RequestAttributes(thing) \ Damaged : Holds(g, n, Says(thing, n))
    /\ \A d \in damage : FoundAs(g, d[1], d[2])

Beside == LET other == Neighbour[thing.kind] IN Sent(other, RequestAttributes(other))

RepliesInv ==
    /\ thing \in Things
    /\ IsFiniteSet(damage) /\ Cardinality(damage) <= MaxDamage
    /\ damage \subseteq RequestAttributes(thing) \X Hows
    /\ reply = <<>> => damage = {}
    /\ reply # <<>> => reply = <<reply[1], Beside>> /\ GroupInv(reply[1])
    /\ read # None =>
        /\ reply # <<>>
        /\ read = Decode(thing.kind, reply[1]) \o Decode(thing.kind, Beside)

\* One group is another but for one attribute.
SameBut(g, h, n) ==
    \A m : m # n => (m \in DOMAIN h <=> m \in DOMAIN g) /\ (m \in DOMAIN g => h[m] = g[m])

\* Group h is group g but for an attribute with the values vs, which is damaged.
WorseBy(g, h, n, how, vs) ==
    /\ SameBut(g, h, n)
    /\ how \in {"missing", "garbled"} => Lost(h, n)
    /\ how \in {"item", "short"} => Len(vs) > 1
    /\ how = "short" => n \in DOMAIN h /\ h[n] = Bundle(Front(vs))

\* What becomes of a group when an attribute that was all there is damaged: no
\* other attribute changes.
LEMMA WorseGroup ==
    ASSUME NEW g, NEW n \in DOMAIN g, NEW how \in Hows, NEW h \in Worse(g, n, how),
           NEW vs, Values(vs), Holds(g, n, vs),
           how \in {"item", "short"} => g[n].tag = "array"
    PROVE  WorseBy(g, h, n, how, vs)
<1>1. vs # <<>> /\ g[n] = Bundle(vs) /\ Len(vs) \in Nat \ {0}
  BY DEF Holds, Values
<1>2. how \in {"item", "short"} => Len(vs) > 1 /\ g[n].v = vs
  <2>1. SUFFICES ASSUME how \in {"item", "short"}
                 PROVE  Len(vs) > 1 /\ g[n].v = vs
    OBVIOUS
  <2>2. Len(vs) # 1
    BY <1>1, <2>1 DEF Bundle, Values
  <2> QED
    BY <1>1, <2>2 DEF Bundle, Value
<1>3. CASE how = "missing"
  BY <1>3 DEF WorseBy, Worse, SameBut, Without, Lost
<1>4. CASE how = "garbled"
  BY <1>4 DEF WorseBy, Worse, SameBut, Lost
<1>5. CASE how = "item"
  <2>1. PICK i \in DOMAIN g[n].v : h = [g EXCEPT ![n].v[i] = Garbled]
    BY <1>5 DEF Worse
  <2> QED
    BY <1>2, <1>5, <2>1 DEF WorseBy, SameBut
<1>6. CASE how = "short"
  <2>1. h = [g EXCEPT ![n] = Bundle(Front(g[n].v))]
    BY <1>6 DEF Worse
  <2> QED
    BY <1>2, <1>6, <2>1 DEF WorseBy, SameBut
<1> QED
  BY <1>3, <1>4, <1>5, <1>6 DEF Hows

LEMMA InitInv == Init => RepliesInv
<1>1. IsFiniteSet({}) /\ Cardinality({}) = 0
  BY FS_EmptySet
<1> QED
  BY <1>1, DamageAssumption DEF Init, RepliesInv

LEMMA FetchKeeps ==
    ASSUME RepliesInv, Fetch
    PROVE  RepliesInv'
<1>1. damage = {} /\ read = None /\ damage' = {} /\ read' = None /\ thing' = thing
  BY DEF RepliesInv, Fetch
<1> DEFINE g == Sent(thing, RequestAttributes(thing))
<1>2. reply' = <<g, Beside>>
  BY DEF Fetch, Beside
<1>3. \A n \in RequestAttributes(thing) : Holds(g, n, Says(thing, n))
  BY SentHolds
<1> HIDE DEF g
<1>4. reply'[1] = g /\ reply' # <<>> /\ Beside' = Beside
  BY <1>1, <1>2 DEF Beside
<1>5. GroupInv(reply[1])'
  BY <1>1, <1>3, <1>4 DEF GroupInv, Damaged
<1> QED
  BY <1>1, <1>2, <1>4, <1>5 DEF RepliesInv

LEMMA DamageKeeps ==
    ASSUME RepliesInv, NEW n \in RequestAttributes(thing), NEW how \in Hows, Damage(n, how)
    PROVE  RepliesInv'
<1> DEFINE g == reply[1]
<1>1. /\ reply # <<>> /\ read = None /\ Cardinality(damage) < MaxDamage
      /\ n \in DOMAIN g /\ \A d \in damage : d[1] # n
      /\ how \in {"item", "short"} => g[n].tag = "array"
      /\ damage' = damage \cup {<<n, how>>} /\ thing' = thing /\ read' = None
  BY DEF Damage
<1>2. PICK h \in Worse(g, n, how) : reply' = <<h, reply[2]>>
  BY DEF Damage
<1>3. /\ reply = <<g, Beside>> /\ GroupInv(g) /\ thing \in Things
      /\ IsFiniteSet(damage) /\ damage \subseteq RequestAttributes(thing) \X Hows
  BY <1>1 DEF RepliesInv
<1> HIDE DEF g
<1>4. reply' = <<h, Beside>> /\ reply'[1] = h /\ reply' # <<>> /\ Beside' = Beside
  BY <1>1, <1>2, <1>3 DEF Beside
<1>5. n \notin Damaged /\ Damaged' = Damaged \cup {n}
  <2>1. n \notin Damaged
    BY <1>1 DEF Damaged
  <2>2. Damaged' = {d[1] : d \in damage \cup {<<n, how>>}}
    BY <1>1 DEF Damaged
  <2>3. <<n, how>>[1] = n
    OBVIOUS
  <2>4. {d[1] : d \in damage \cup {<<n, how>>}} = {d[1] : d \in damage} \cup {n}
    BY <2>3
  <2>5. Damaged' = Damaged \cup {n}
    BY <2>2, <2>4 DEF Damaged
  <2> QED
    BY <2>1, <2>5
<1>6. Values(Says(thing, n)) /\ Holds(g, n, Says(thing, n))
  BY <1>3, <1>5, SaysValues, ThingsAssumption DEF GroupInv
<1>7. WorseBy(g, h, n, how, Says(thing, n))
  BY <1>1, <1>6, WorseGroup
<1>8. ASSUME NEW m \in RequestAttributes(thing) \ Damaged'
      PROVE  Holds(h, m, Says(thing, m))
  <2>1. m # n /\ m \notin Damaged
    BY <1>5, <1>8
  <2>2. Holds(g, m, Says(thing, m))
    BY <1>3, <2>1 DEF GroupInv
  <2> QED
    BY <1>7, <2>1, <2>2 DEF WorseBy, SameBut, Holds
<1>9. ASSUME NEW d \in damage'
      PROVE  FoundAs(h, d[1], d[2])
  <2>1. CASE d \in damage
    <3>1. d[1] # n /\ FoundAs(g, d[1], d[2])
      BY <1>1, <1>3, <2>1 DEF GroupInv
    <3> QED
      BY <1>7, <3>1 DEF WorseBy, SameBut, FoundAs, Lost
  <2>2. CASE d = <<n, how>>
    BY <1>7, <2>2 DEF WorseBy, FoundAs
  <2> QED
    BY <1>1, <2>1, <2>2
<1>10. GroupInv(reply[1])'
  BY <1>1, <1>4, <1>8, <1>9 DEF GroupInv, FoundAs
<1>11. IsFiniteSet(damage') /\ Cardinality(damage') <= MaxDamage
  <2>1. /\ IsFiniteSet(damage')
        /\ Cardinality(damage') \in {Cardinality(damage), Cardinality(damage) + 1}
    BY <1>1, <1>3, FS_AddElement
  <2>2. Cardinality(damage) \in Nat
    BY <1>3, FS_CardinalityType
  <2> QED
    BY <1>1, <2>1, <2>2, DamageAssumption
<1>12. damage' \subseteq RequestAttributes(thing) \X Hows
  BY <1>1, <1>3
<1> QED
  BY <1>1, <1>3, <1>4, <1>10, <1>11, <1>12 DEF RepliesInv

LEMMA ReadKeeps ==
    ASSUME RepliesInv, Read
    PROVE  RepliesInv'
<1>1. /\ reply # <<>> /\ reply = <<reply[1], Beside>> /\ GroupInv(reply[1])
      /\ thing' = thing /\ reply' = reply /\ damage' = damage
  BY DEF RepliesInv, Read
<1> DEFINE g == reply[1]
<1>2. read' = LET groups == <<g, Beside>>
              IN  DecodeAll([i \in DOMAIN groups |-> Decode(thing.kind, groups[i])])
  BY <1>1 DEF Read
<1>3. read' = Decode(thing.kind, g) \o Decode(thing.kind, Beside)
  BY <1>2, TwoGroups
<1>4. Beside' = Beside /\ GroupInv(reply[1])'
  BY <1>1 DEF Beside, GroupInv, FoundAs, Damaged
<1> QED
  BY <1>1, <1>3, <1>4 DEF RepliesInv

\* An attribute that is not damaged is in the group as it was sent, whatever
\* became of the others.
THEOREM Invariance == Spec => []RepliesInv
<1>1. RepliesInv /\ [Next]_vars => RepliesInv'
  <2> SUFFICES ASSUME RepliesInv, [Next]_vars
               PROVE  RepliesInv'
    OBVIOUS
  <2>1. CASE Fetch
    BY <2>1, FetchKeeps
  <2>2. CASE \E n \in RequestAttributes(thing), how \in Hows : Damage(n, how)
    BY <2>2, DamageKeeps
  <2>3. CASE Read
    BY <2>3, ReadKeeps
  <2>4. CASE UNCHANGED vars
    BY <2>4 DEF vars, RepliesInv, Beside, GroupInv, FoundAs, Damaged
  <2> QED
    BY <2>1, <2>2, <2>3, <2>4 DEF Next
<1> QED
  BY <1>1, InitInv, PTL DEF Spec

-----------------------------------------------------------------------------
(* What the invariant says of what is read. *)

\* A damaged vital attribute is lost.
LEMMA VitalLost ==
    ASSUME RepliesInv, reply # <<>>, NEW n \in Damaged, Len(Says(thing, n)) <= 1
    PROVE  Lost(reply[1], n)
<1>1. PICK d \in damage : d[1] = n
  BY DEF Damaged
<1>2. d[2] \in Hows /\ FoundAs(reply[1], n, d[2]) /\ thing \in Thing
  BY <1>1, ThingsAssumption DEF RepliesInv, GroupInv
<1>3. Len(Says(thing, n)) \in Nat
  BY <1>2, SaysValues DEF Values
<1> QED
  BY <1>2, <1>3 DEF FoundAs, Hows

\* What is read is told of the thing, if anything is, and then the truth about
\* the neighbour.
LEMMA WhatIsRead ==
    ASSUME RepliesInv, read # None
    PROVE  /\ read = IF Tellable(thing) /\ Damaged \cap Vital = {}
                     THEN <<ToldOf(thing.kind, reply[1]), Faithful(Neighbour[thing.kind])>>
                     ELSE <<Faithful(Neighbour[thing.kind])>>
           /\ Tellable(thing) /\ Damaged \cap Vital = {} =>
                \A f \in DOMAIN Faithful(thing) :
                    Untouched(Damaged, f) =>
                        ToldOf(thing.kind, reply[1])[f] = Faithful(thing)[f]
<1> DEFINE other == Neighbour[thing.kind]
<1>1. /\ reply # <<>> /\ GroupInv(reply[1])
      /\ read = Decode(thing.kind, reply[1]) \o Decode(thing.kind, Beside)
      /\ thing \in Things /\ damage \subseteq RequestAttributes(thing) \X Hows
  BY DEF RepliesInv
<1>2. /\ thing \in Thing /\ other \in Thing /\ other.kind = thing.kind /\ Tellable(other)
  BY <1>1, ThingsAssumption
<1>3. Damaged \subseteq RequestAttributes(thing)
  BY <1>1 DEF Damaged
<1>4. \A n \in Damaged \cap Vital : Lost(reply[1], n)
  BY <1>1, <1>2, <1>3, VitalOne, VitalLost
<1>5. \A n \in RequestAttributes(thing) \ Damaged : Holds(reply[1], n, Says(thing, n))
  BY <1>1 DEF GroupInv
<1>6. /\ Decode(thing.kind, reply[1]) =
            IF Tellable(thing) /\ Damaged \cap Vital = {}
            THEN <<ToldOf(thing.kind, reply[1])>> ELSE <<>>
      /\ Tellable(thing) /\ Damaged \cap Vital = {} =>
            \A f \in DOMAIN Faithful(thing) :
                Untouched(Damaged, f) => ToldOf(thing.kind, reply[1])[f] = Faithful(thing)[f]
  BY <1>2, <1>3, <1>4, <1>5, ThingTrue
<1>7. Decode(thing.kind, Beside) = <<Faithful(other)>>
  <2> HIDE DEF other
  <2>1. Beside = Sent(other, RequestAttributes(other))
    BY DEF Beside, other
  <2>2. \A n \in RequestAttributes(other) : Holds(Beside, n, Says(other, n))
    BY <2>1, SentHolds
  <2>3. /\ {} \in SUBSET RequestAttributes(other)
        /\ \A n \in RequestAttributes(other) \ {} : Holds(Beside, n, Says(other, n))
        /\ \A n \in {} \cap Vital : Lost(Beside, n)
        /\ {} \cap Vital = {}
    BY <2>2
  <2>4. /\ Decode(other.kind, Beside) =
                IF Tellable(other) /\ {} \cap Vital = {}
                THEN <<ToldOf(other.kind, Beside)>> ELSE <<>>
        /\ Tellable(other) /\ {} = {} => ToldOf(other.kind, Beside) = Faithful(other)
    BY <1>2, <2>3, ThingTrue
  <2> QED
    BY <1>2, <2>3, <2>4
<1>8. ASSUME NEW x, NEW y
      PROVE  <<x>> \o <<y>> = <<x, y>> /\ <<>> \o <<y>> = <<y>>
  <2>1. /\ <<x>> \in Seq({x, y}) /\ <<y>> \in Seq({x, y}) /\ <<>> \in Seq({x, y})
        /\ Len(<<x>>) = 1 /\ Len(<<y>>) = 1 /\ <<x>>[1] = x /\ <<y>>[1] = y
    OBVIOUS
  <2>2. /\ <<x>> \o <<y>> \in Seq({x, y}) /\ Len(<<x>> \o <<y>>) = 2
        /\ (<<x>> \o <<y>>)[1] = x /\ (<<x>> \o <<y>>)[2] = y
    BY <2>1
  <2>3. <<x>> \o <<y>> = <<x, y>>
    <3> DEFINE s == <<x>> \o <<y>>
    <3>1. s \in Seq({x, y}) /\ Len(s) = 2 /\ s[1] = x /\ s[2] = y
      BY <2>2
    <3> HIDE DEF s
    <3>2. s = [i \in 1..2 |-> IF i = 1 THEN x ELSE y]
      BY <3>1
    <3>3. <<x, y>> = [i \in 1..2 |-> IF i = 1 THEN x ELSE y]
      OBVIOUS
    <3> QED
      BY <3>2, <3>3 DEF s
  <2>4. <<>> \o <<y>> = <<y>>
    BY <2>1
  <2> QED
    BY <2>3, <2>4
<1> QED
  BY <1>1, <1>6, <1>7, <1>8

\* `thing', `damage' and what is read keep to their types: what is read tells of
\* one thing or two.
THEOREM TypeCorrect == Spec => []TypeOK
<1>1. RepliesInv => TypeOK
  <2>1. \A x, y : Len(<<x, y>>) = 2 /\ Len(<<y>>) = 1
    OBVIOUS
  <2>2. RepliesInv /\ read # None => Len(read) \in 1..2
    BY <2>1, WhatIsRead
  <2> QED
    BY <2>2 DEF RepliesInv, TypeOK
<1> QED
  BY <1>1, Invariance, PTL

\* One bad attribute never blanks the popup: the neighbour is told of as it is,
\* the thing is left out for a vital attribute or an unregistered state only,
\* and every field that no damaged attribute feeds is true.
THEOREM DamageIsLocal == Spec => []DamageStaysLocal
<1>1. RepliesInv => DamageStaysLocal
  <2> SUFFICES ASSUME RepliesInv, read # None
               PROVE  DamageStaysLocal
    BY DEF DamageStaysLocal
  <2> DEFINE a == ToldOf(thing.kind, reply[1])
             b == Faithful(Neighbour[thing.kind])
             C == Tellable(thing) /\ Damaged \cap Vital = {}
  <2>1. /\ read = IF C THEN <<a, b>> ELSE <<b>>
        /\ C => \A f \in DOMAIN Faithful(thing) :
                    Untouched(Damaged, f) => a[f] = Faithful(thing)[f]
    BY WhatIsRead
  <2>2. \A f : f \notin UNION {Feeds(n) : n \in Damaged} => Untouched(Damaged, f)
    BY DEF Untouched
  <2> HIDE DEF a, b, C
  <2>3. /\ Len(<<a, b>>) = 2 /\ <<a, b>>[1] = a /\ <<a, b>>[2] = b
        /\ Len(<<b>>) = 1 /\ <<b>>[1] = b
    OBVIOUS
  <2>4. read[Len(read)] = b /\ (Told <=> C) /\ (Told => read[1] = a)
    BY <2>1, <2>3 DEF Told
  <2> QED
    BY <2>1, <2>2, <2>4 DEF DamageStaysLocal, b, C
<1> QED
  BY <1>1, Invariance, PTL

LEMMA ToldIs ==
    ASSUME RepliesInv, Told
    PROVE  /\ read # None /\ reply # <<>> /\ read[1] = ToldOf(thing.kind, reply[1])
           /\ \A f \in DOMAIN Faithful(thing) :
                Untouched(Damaged, f) => read[1][f] = Faithful(thing)[f]
<1> DEFINE a == ToldOf(thing.kind, reply[1])
           b == Faithful(Neighbour[thing.kind])
           C == Tellable(thing) /\ Damaged \cap Vital = {}
<1>1. /\ read # None /\ Len(read) = 2 /\ reply # <<>>
      /\ read = IF C THEN <<a, b>> ELSE <<b>>
      /\ C => \A f \in DOMAIN Faithful(thing) :
                    Untouched(Damaged, f) => a[f] = Faithful(thing)[f]
  BY WhatIsRead DEF Told, RepliesInv
<1> HIDE DEF a, b, C
<1>2. /\ <<a, b>>[1] = a /\ Len(<<b>>) = 1
  OBVIOUS
<1> QED
  BY <1>1, <1>2 DEF a

-----------------------------------------------------------------------------
(* Supplies. *)

\* A list of which no item is garbled reads as the beginning of what was sent.
LEMMA ReadsBeginning ==
    ASSUME RepliesInv, reply # <<>>, NEW n \in RequestAttributes(thing),
           NEW tag \in {"text", "int"}, NEW S, NEW s \in Seq(S), Says(thing, n) = Many(tag, s),
           \A d \in damage : d[2] = "item" => d[1] # n
    PROVE  LET list == Readable(reply[1], n, tag)
           IN  /\ Len(list) \in Nat /\ DOMAIN list = 1..Len(list) /\ Len(list) <= Len(s)
               /\ \A i \in 1..Len(list) : list[i] = s[i]
<1> DEFINE g == reply[1]
           list == Readable(g, n, tag)
<1>1. GroupInv(g) /\ damage \subseteq RequestAttributes(thing) \X Hows /\ tag # "array"
  BY DEF RepliesInv
<1>2. Len(s) \in Nat /\ DOMAIN s = 1..Len(s)
  OBVIOUS
<1> HIDE DEF g
<1>3. CASE n \notin Damaged
  <2>1. Holds(g, n, Many(tag, s))
    BY <1>1, <1>3 DEF GroupInv
  <2>2. list = s
    BY <1>1, <2>1, ListTrue
  <2> HIDE DEF list
  <2> QED
    BY <1>2, <2>2 DEF g, list
<1>4. CASE n \in Damaged
  <2>1. PICK d \in damage : d[1] = n
    BY <1>4 DEF Damaged
  <2>2. d[2] \in {"missing", "garbled", "short"} /\ FoundAs(g, n, d[2])
    BY <1>1, <2>1 DEF GroupInv, Hows
  <2>3. CASE d[2] \in {"missing", "garbled"}
    <3>1. Lost(g, n)
      BY <2>2, <2>3 DEF FoundAs
    <3>2. list = <<>>
      BY <3>1, LostTrue
    <3> HIDE DEF list
    <3> QED
      BY <1>2, <3>2 DEF g, list
  <2>4. CASE d[2] = "short"
    <3>1. /\ n \in DOMAIN g /\ g[n] = Bundle(Front(Many(tag, s)))
          /\ Len(Many(tag, s)) > 1
      BY <2>2, <2>4 DEF FoundAs
    <3>2. Len(s) > 1
      BY <3>1, ManyIs
    <3>3. /\ Front(s) \in Seq(S) /\ Len(Front(s)) = Len(s) - 1
          /\ \A i \in 1..(Len(s) - 1) : Front(s)[i] = s[i]
          /\ Holds(g, n, Many(tag, Front(s)))
      BY <3>1, <3>2, ShortHolds
    <3>4. list = Front(s)
      BY <1>1, <3>3, ListTrue
    <3> HIDE DEF list
    <3> QED
      BY <1>2, <3>3, <3>4 DEF g, list
  <2> QED
    BY <2>2, <2>3, <2>4
<1> QED
  BY <1>3, <1>4

\* Lists that are missing or cut short never give a supply the level of another.
THEOREM PairsKept == Spec => []SuppliesPaired
<1>1. RepliesInv => SuppliesPaired
  <2> SUFFICES ASSUME RepliesInv, Told, thing.kind = "printer",
                      \A d \in damage : d[2] = "item" =>
                            d[1] \notin {"marker-names", "marker-levels"},
                      NEW i \in DOMAIN read[1].supplies
               PROVE  /\ read[1].supplies[i].name = Faithful(thing).supplies[i].name
                      /\ read[1].supplies[i].level = Faithful(thing).supplies[i].level
    BY DEF SuppliesPaired
  <2> DEFINE markers == thing.markers
             names == [k \in DOMAIN markers |-> markers[k].name]
             levels == [k \in DOMAIN markers |-> markers[k].level]
             theNames == Texts(reply[1], "marker-names")
             theLevels == Ints(reply[1], "marker-levels")
             colours == Texts(reply[1], "marker-colors")
  <2>1. thing \in Printers
    BY ThingsAssumption DEF RepliesInv, Thing, Jobs, Classes, Drivers, Documents, Notifications
  <2>2. markers \in Seq(Marker)
    BY <2>1 DEF Printers
  <2>3. /\ Says(thing, "marker-names") = Many("text", names) /\ names \in Seq(Words)
        /\ Says(thing, "marker-levels") = Many("int", levels) /\ levels \in Seq(Int)
        /\ Len(names) = Len(markers) /\ Len(levels) = Len(markers)
    BY <2>2, PrinterSaysWhat, MarkersAre
  <2>4. /\ Len(markers) \in Nat /\ DOMAIN markers = 1..Len(markers)
        /\ \A k \in 1..Len(markers) :
                names[k] = markers[k].name /\ levels[k] = markers[k].level
    BY <2>2
  <2>5. {"marker-names", "marker-levels"} \subseteq RequestAttributes(thing)
    BY DEF RequestAttributes, PRINTER_ATTRIBUTES
  <2>6. reply # <<>> /\ read[1].supplies = DecodeSupplies(theNames, theLevels, colours)
    BY ToldIs DEF ToldOf, PrinterTold
  <2> HIDE DEF names, levels
  <2>7. /\ Len(theNames) \in Nat /\ Len(theNames) <= Len(names)
        /\ \A k \in 1..Len(theNames) : theNames[k] = names[k]
    BY <2>3, <2>5, <2>6, ReadsBeginning DEF Texts
  <2>8. /\ Len(theLevels) \in Nat /\ Len(theLevels) <= Len(levels)
        /\ \A k \in 1..Len(theLevels) : theLevels[k] = levels[k]
    BY <2>3, <2>5, <2>6, ReadsBeginning DEF Ints
  <2> HIDE DEF theNames, theLevels, colours
  <2>9. /\ i \in 1..Min({Len(theNames), Len(theLevels)})
        /\ read[1].supplies[i].name = theNames[i]
        /\ read[1].supplies[i].level = Level(theLevels[i])
    BY <2>6 DEF DecodeSupplies
  <2>10. i \in 1..Len(theNames) /\ i \in 1..Len(theLevels) /\ i \in 1..Len(markers)
    <3>1. Min({Len(theNames), Len(theLevels)}) =
            IF Len(theNames) <= Len(theLevels) THEN Len(theNames) ELSE Len(theLevels)
      <4>1. Len(theNames) \in Int /\ Len(theLevels) \in Int
        BY <2>7, <2>8
      <4> QED
        BY <4>1, MinOfTwo
    <3>2. i \in 1..Len(theNames) /\ i \in 1..Len(theLevels)
      <4> DEFINE a == Len(theNames)
                 b == Len(theLevels)
                 c == Min({a, b})
      <4>1. a \in Nat /\ b \in Nat /\ i \in 1..c /\ c = IF a <= b THEN a ELSE b
        BY <2>7, <2>8, <2>9, <3>1
      <4> HIDE DEF a, b, c
      <4>2. i \in 1..a /\ i \in 1..b
        BY <4>1
      <4> QED
        BY <4>2 DEF a, b
    <3>3. Len(theNames) \in Nat /\ Len(theNames) <= Len(markers) /\ Len(markers) \in Nat
      BY <2>3, <2>4, <2>7
    <3> QED
      BY <3>2, <3>3
  <2>11. theNames[i] = markers[i].name /\ theLevels[i] = markers[i].level
    BY <2>4, <2>7, <2>8, <2>10
  <2>12. /\ Faithful(thing).supplies[i].name = markers[i].name
         /\ Faithful(thing).supplies[i].level = Level(markers[i].level)
    <3>1. Faithful(thing).supplies = [k \in DOMAIN markers |->
                [name |-> markers[k].name, colour |-> markers[k].colour,
                 level |-> CASE markers[k].level < 0 -> None
                             [] markers[k].level > 100 -> 100
                             [] OTHER -> markers[k].level]]
      BY FaithfulPrinter
    <3>2. markers[i].level \in Int
      <4>1. levels[i] \in Int
        BY <2>3, <2>4, <2>10
      <4> QED
        BY <2>4, <2>10, <4>1
    <3>3. Level(markers[i].level) = CASE markers[i].level < 0 -> None
                                      [] markers[i].level > 100 -> 100
                                      [] OTHER -> markers[i].level
      BY <3>2, LevelIs
    <3> HIDE DEF markers
    <3> QED
      BY <2>4, <2>10, <3>1, <3>3
  <2> QED
    BY <2>9, <2>11, <2>12
<1> QED
  BY <1>1, Invariance, PTL

-----------------------------------------------------------------------------
(* Reasons. *)

LEMMA FeedsReasons ==
    ASSUME NEW n, "reasons" \in Feeds(n)
    PROVE  n \in {"printer-state-reasons", "job-state-reasons"}
  BY DEF Feeds

LEMMA WorstOf ==
    ASSUME NEW S \in SUBSET (0..2), S # {}
    PROVE  Max(S) = CHOOSE s \in 0..2 : s \in S /\ \A x \in S : x <= s
<1>1. PICK m \in S : \A x \in S : x <= m
  <2>1. CASE 2 \in S
    BY <2>1
  <2>2. CASE 2 \notin S /\ 1 \in S
    BY <2>2
  <2>3. CASE 2 \notin S /\ 1 \notin S
    <3>1. 0..2 = {0, 1, 2}
      OBVIOUS
    <3>2. S = {0}
      BY <2>3, <3>1
    <3> QED
      BY <3>2
  <2> QED
    BY <2>1, <2>2, <2>3
<1>2. \A a \in S : (\A x \in S : a >= x) => a = m
  BY <1>1
<1>3. Max(S) = m
  <2>1. Max(S) = CHOOSE a \in S : \A x \in S : a >= x
    BY DEF Max
  <2>2. \A x \in S : m >= x
    BY <1>1
  <2> QED
    BY <1>2, <2>1, <2>2
<1>4. (CHOOSE s \in 0..2 : s \in S /\ \A x \in S : x <= s) = m
  <2>1. \A a \in 0..2 : a \in S /\ (\A x \in S : x <= a) => a = m
    BY <1>1
  <2> QED
    BY <1>1, <2>1
<1> QED
  BY <1>3, <1>4

\* The worst of the reasons is told as bad as it is.
THEOREM WorstTold == Spec => []WorstReasonTold
<1>1. RepliesInv => WorstReasonTold
  <2> SUFFICES ASSUME RepliesInv, Told, thing.kind \in {"printer", "job"},
                      Damaged \cap {"printer-state-reasons", "job-state-reasons"} = {}
               PROVE  HighestSeverity(read[1].reasons) =
                        IF thing.reasons = <<>> THEN None
                        ELSE CHOOSE s \in Report..Error :
                                /\ \E i \in DOMAIN thing.reasons : thing.reasons[i].severity = s
                                /\ \A i \in DOMAIN thing.reasons : thing.reasons[i].severity <= s
    BY DEF WorstReasonTold
  <2> DEFINE reasons == thing.reasons
             S == {reasons[i].severity : i \in DOMAIN reasons}
  <2>1. reasons \in Seq(Reason)
    <3>1. thing \in Printers \cup Jobs
      BY ThingsAssumption DEF RepliesInv, Thing, Classes, Drivers, Documents, Notifications
    <3> QED
      BY <3>1 DEF Printers, Jobs
  <2>2. Untouched(Damaged, "reasons")
    BY FeedsReasons DEF Untouched
  <2>3. "reasons" \in DOMAIN Faithful(thing) /\ Faithful(thing).reasons = SeverityOf(reasons)
    BY FaithfulPrinter, FaithfulJob DEF PrinterFields, JobFields
  <2>4. read[1].reasons = SeverityOf(reasons)
    BY <2>2, <2>3, ToldIs
  <2>5. /\ DOMAIN SeverityOf(reasons) = DOMAIN reasons
        /\ \A i \in DOMAIN reasons : SeverityOf(reasons)[i].severity = reasons[i].severity
    BY DEF SeverityOf
  <2>6. CASE reasons = <<>>
    <3>1. SeverityOf(reasons) = <<>>
      BY <2>6 DEF SeverityOf
    <3> QED
      BY <2>4, <2>6, <3>1 DEF HighestSeverity
  <2>7. CASE reasons # <<>>
    <3>1. 1 \in DOMAIN reasons /\ \A i \in DOMAIN reasons : reasons[i].severity \in 0..2
      <4>1. 1 \in DOMAIN reasons /\ \A i \in DOMAIN reasons : reasons[i] \in Reason
        <5> HIDE DEF reasons
        <5> QED
          BY <2>1, <2>7
      <4>2. \A r \in Reason : r.severity \in 0..2
        BY DEF Reason, Report, Error
      <4> QED
        BY <4>1, <4>2
    <3> HIDE DEF reasons
    <3>2. S \in SUBSET (0..2) /\ S # {}
      BY <3>1
    <3>3. SeverityOf(reasons) # <<>>
      BY <2>5, <3>1
    <3>4. {SeverityOf(reasons)[i].severity : i \in DOMAIN SeverityOf(reasons)} = S
      BY <2>5
    <3>5. HighestSeverity(read[1].reasons) = Max(S)
      BY <2>4, <3>3, <3>4 DEF HighestSeverity
    <3>6. Max(S) = CHOOSE s \in 0..2 : s \in S /\ \A x \in S : x <= s
      <4> HIDE DEF S
      <4> QED
        BY <3>2, WorstOf
    <3>7. \A s : /\ s \in S <=> \E i \in DOMAIN reasons : reasons[i].severity = s
                 /\ (\A x \in S : x <= s) <=>
                        \A i \in DOMAIN reasons : reasons[i].severity <= s
      OBVIOUS
    <3>8. (CHOOSE s \in 0..2 : s \in S /\ \A x \in S : x <= s) =
            CHOOSE s \in Report..Error :
                /\ \E i \in DOMAIN reasons : reasons[i].severity = s
                /\ \A i \in DOMAIN reasons : reasons[i].severity <= s
      <4> HIDE DEF S
      <4> QED
        BY <3>7 DEF Report, Error
    <3> QED
      BY <2>7, <3>5, <3>6, <3>8 DEF reasons
  <2> QED
    BY <2>6, <2>7
<1> QED
  BY <1>1, Invariance, PTL

-----------------------------------------------------------------------------
(* Progress. *)

\* Half of what is exact.
Half == 8388608

\* The unit of a count that an i32 holds: 1 up to 2^24, else the one of which
\* the count has at least 2^23 and less than 2^24.
LEMMA UnitIs ==
    ASSUME NEW n \in Nat, n < 256 * Exact
    PROVE  /\ Unit(n) \in Units /\ n < Exact * Unit(n)
           /\ Unit(n) # 1 => Half * Unit(n) <= n
<1> DEFINE S == {u \in Units : n \div u < Exact}
<1>1. \A u \in Units : u \in Nat /\ u > 0 /\ (u \in S <=> n < Exact * u)
  BY SMT DEF Exact, Units
<1>2. Unit(n) = CHOOSE x \in S : \A y \in S : x <= y
  BY DEF Unit, Min
<1>3. \E x \in S : \A y \in S : x <= y
  <2>1. \E x \in Units : n < Exact * x /\ \A y \in Units : n < Exact * y => x <= y
    BY SMT DEF Exact, Units
  <2> HIDE DEF S
  <2>2. S \subseteq Units
    BY DEF S
  <2> QED
    BY Zenon, <1>1, <2>1, <2>2
<1>4. Unit(n) \in Units /\ n < Exact * Unit(n) /\ \A y \in Units : n < Exact * y => Unit(n) <= y
  <2>1. S \subseteq Units
    OBVIOUS
  <2> HIDE DEF S
  <2>2. Unit(n) \in S /\ \A y \in S : Unit(n) <= y
    BY Zenon, <1>2, <1>3
  <2> QED
    BY Zenon, <1>1, <2>1, <2>2
<1>5. \A x \in Units : (\A y \in Units : n < Exact * y => x <= y) => x = 1 \/ Half * x <= n
  BY SMT DEF Exact, Half, Units
<1> QED
  BY Zenon, <1>4, <1>5

\* A count, in units, rounded to a whole number of them.
Whole(n, u) ==
    IF 2 * (n % u) > u \/ (2 * (n % u) = u /\ (n \div u) % 2 = 1)
    THEN n \div u + 1 ELSE n \div u

LEMMA WholeIs ==
    ASSUME NEW u \in Units, NEW n \in Nat
    PROVE  /\ Whole(n, u) \in Nat
           /\ n % u \in Nat /\ n \div u \in Nat
           /\ u = 1 => Whole(n, u) = n
           /\ \A k \in Nat : /\ k * u <= n => k <= Whole(n, u)
                             /\ n < k * u => Whole(n, u) <= k
                             /\ n = k * u => Whole(n, u) = k
           /\ \A m \in Nat : m <= n => Whole(m, u) <= Whole(n, u)
<1> DEFINE q == n \div u
           r == n % u
<1>1. u \in Nat \ {0}
  BY SMT DEF Units
<1>2. q \in Nat /\ r \in Nat /\ n = (u * q) + r /\ r < u /\ q % 2 \in Nat
  BY SMT DEF Units
<1>3. Whole(n, u) = IF 2 * r > u \/ (2 * r = u /\ q % 2 = 1) THEN q + 1 ELSE q
  BY DEF Whole
<1>4. u = 1 => Whole(n, u) = n
  BY SMT, <1>2, <1>3
<1>5. ASSUME NEW k \in Nat
      PROVE  /\ k * u <= n => k <= Whole(n, u)
             /\ n < k * u => Whole(n, u) <= k
             /\ n = k * u => Whole(n, u) = k
  <2>1. (k * u <= n => k <= q) /\ (n < k * u => q < k) /\ (n = k * u => q = k /\ r = 0)
    BY SMT DEF Units
  <2> HIDE DEF q, r
  <2> QED
    BY SMT, <1>1, <1>2, <1>3, <2>1
<1>6. ASSUME NEW m \in Nat, m <= n
      PROVE  Whole(m, u) <= Whole(n, u)
  <2> DEFINE x == m \div u
             y == m % u
  <2>1. x <= q /\ (x = q => y <= r) /\ x \in Nat /\ y \in Nat /\ y < u /\ x % 2 \in Nat
    BY SMT, <1>6 DEF Units
  <2>2. Whole(m, u) = IF 2 * y > u \/ (2 * y = u /\ x % 2 = 1) THEN x + 1 ELSE x
    BY DEF Whole
  <2> HIDE DEF q, r, x, y
  <2> QED
    BY SMT, <1>1, <1>2, <1>3, <2>1, <2>2
<1> HIDE DEF q, r
<1> QED
  BY SMT, <1>2, <1>3, <1>4, <1>5, <1>6 DEF q, r

\* Units differ by a factor of two or more.
LEMMA UnitsDouble ==
    ASSUME NEW u \in Units, NEW v \in Units
    PROVE  v = u \/ 2 * v <= u \/ 2 * u <= v
  BY SMT DEF Units

\* What `as f32' makes of a count: up to 2^24 the count, nothing of none alone,
\* and of more no less.
LEMMA FloatIs ==
    ASSUME NEW n \in Nat, n < 256 * Exact
    PROVE  /\ NearestFloat(n) \in Nat
           /\ n <= Exact => NearestFloat(n) = n
           /\ n > 0 => NearestFloat(n) > 0
           /\ \A m \in Nat : m <= n => NearestFloat(m) <= NearestFloat(n)
<1>1. \A m \in Nat : NearestFloat(m) = Unit(m) * Whole(m, Unit(m))
  BY DEF NearestFloat, Whole
<1> DEFINE u == Unit(n)
           w == Whole(n, u)
<1>2. u \in Units /\ n < Exact * u /\ (u # 1 => Half * u <= n)
  BY UnitIs
<1>3. w \in Nat /\ (u = 1 => w = n) /\ (u # 1 => Half <= w) /\ (n = Half * u => w = Half)
  <2>1. Half \in Nat
    BY SMT DEF Half
  <2> HIDE DEF u, Half
  <2> QED
    BY <1>2, <2>1, WholeIs
<1>4. NearestFloat(n) \in Nat
  BY SMT, <1>1, <1>2, <1>3 DEF Units
<1>5. n <= Exact => NearestFloat(n) = n
  <2>1. CASE u = 1
    BY SMT, <1>1, <1>3, <2>1
  <2>2. CASE u # 1 /\ n <= Exact
    <3>1. u = 2 /\ n = Half * u
      BY SMT, <1>2, <2>2 DEF Units, Exact, Half
    <3> QED
      BY SMT, <1>1, <1>3, <3>1 DEF Half
  <2> QED
    BY Zenon, <2>1, <2>2
<1>6. n > 0 => NearestFloat(n) > 0
  BY SMT, <1>1, <1>2, <1>3 DEF Units, Half
<1>7. ASSUME NEW m \in Nat, m <= n
      PROVE  NearestFloat(m) <= NearestFloat(n)
  <2> DEFINE v == Unit(m)
             x == Whole(m, v)
  <2>1. v \in Units /\ m < Exact * v /\ (v # 1 => Half * v <= m)
    <3>1. m < 256 * Exact
      BY SMT, <1>7 DEF Exact
    <3> QED
      BY <3>1, UnitIs
  <2>2. x \in Nat /\ x <= Exact
    <3>1. Exact \in Nat
      BY SMT DEF Exact
    <3> HIDE DEF v, Exact
    <3> QED
      BY <2>1, <3>1, WholeIs
  <2>3. CASE v = u
    <3>1. x <= w
      BY <1>2, <1>7, <2>3, WholeIs
    <3> HIDE DEF u, v, w, x
    <3>2. NearestFloat(m) = u * x /\ NearestFloat(n) = u * w
      BY Zenon, <1>1, <2>3 DEF u, v, w, x
    <3> QED
      BY SMT, <1>2, <1>3, <2>2, <3>1, <3>2 DEF Units
  <2>4. ~(2 * u <= v)
    <3> HIDE DEF u, v
    <3> QED
      BY SMT, <1>2, <1>7, <2>1 DEF Units, Exact, Half
  <2>5. CASE 2 * v <= u
    <3> HIDE DEF u, v, w, x
    <3>1. NearestFloat(m) = v * x /\ NearestFloat(n) = u * w
      BY Zenon, <1>1 DEF u, v, w, x
    <3>2. u # 1 /\ Half <= w
      BY SMT, <1>2, <1>3, <2>1, <2>5 DEF Units
    <3> QED
      BY SMT, <1>2, <1>3, <2>1, <2>2, <2>5, <3>1, <3>2 DEF Units, Exact, Half
  <2> QED
    BY <1>2, <2>1, <2>3, <2>4, <2>5, UnitsDouble
<1> QED
  BY Zenon, <1>4, <1>5, <1>6, <1>7

LEMMA MaxOfTwo ==
    ASSUME NEW a \in Int, NEW b \in Int
    PROVE  Max({a, b}) = IF a >= b THEN a ELSE b
<1>1. Max({a, b}) = CHOOSE x \in {a, b} : \A y \in {a, b} : x >= y
  BY DEF Max
<1> QED
  BY <1>1

\* The share of the pages that is done, for any two numbers a reply can hold.
LEMMA FractionIs ==
    ASSUME NEW a \in Int32, NEW b \in Int32, b > 0,
           NEW p, p = [done |-> a, total |-> b], p # None
    PROVE  LET f == Fraction(p)
           IN  /\ f # None /\ 0 <= f.part /\ f.part <= f.whole /\ 0 < f.whole
               /\ f.part = 0 <=> a <= 0
               /\ a >= b => f.part = f.whole
               /\ f.part = f.whole /\ b <= Exact => a >= b
<1> DEFINE d == AsFloat(a)
           t == AsFloat(b)
           m == Min({d, t})
<1>1. /\ a \in Int /\ b \in Nat /\ b < 256 * Exact
      /\ a >= 0 => a \in Nat /\ a < 256 * Exact
      /\ a < 0 => -a \in Nat /\ -a < 256 * Exact
  BY SMT DEF Int32, Exact
<1>2. /\ t = NearestFloat(b) /\ t \in Nat /\ t > 0 /\ (b <= Exact => t = b)
      /\ \A n \in Nat : n <= b => NearestFloat(n) <= t
  <2>1. t = NearestFloat(b)
    BY SMT, <1>1 DEF AsFloat
  <2> HIDE DEF t
  <2> QED
    BY <1>1, <2>1, FloatIs
<1>3. CASE a >= 0
  <2>1. /\ d = NearestFloat(a) /\ d \in Nat /\ (a <= Exact => d = a) /\ (a > 0 => d > 0)
        /\ \A n \in Nat : n <= a => NearestFloat(n) <= d
    <3>1. d = NearestFloat(a)
      BY SMT, <1>1, <1>3 DEF AsFloat
    <3> HIDE DEF d
    <3> QED
      BY <1>1, <1>3, <3>1, FloatIs
  <2> HIDE DEF d, t, m
  <2>2. a >= b => d >= t
    BY SMT, <1>1, <1>2, <1>3, <2>1
  <2>3. d = 0 <=> a <= 0
    BY SMT, <1>1, <1>3, <2>1 DEF Exact
  <2>4. b <= Exact /\ d >= t => a >= b
    BY SMT, <1>1, <1>2, <1>3, <2>1 DEF Exact
  <2>5. m = IF d <= t THEN d ELSE t
    BY <1>2, <2>1, MinOfTwo DEF m
  <2>6. Fraction(p) = [part |-> Max({0, m}), whole |-> t]
    BY SMT, <1>1 DEF Fraction, d, t, m
  <2>7. Max({0, m}) = m
    BY <1>2, <2>1, <2>5, MaxOfTwo
  <2>8. [part |-> Max({0, m}), whole |-> t] # None
    BY <1>2, <2>1, <2>5, <2>7, WordsAssumption
  <2> QED
    BY <1>2, <2>1, <2>2, <2>3, <2>4, <2>5, <2>6, <2>7, <2>8
<1>4. CASE a < 0
  <2>1. d = -NearestFloat(-a) /\ NearestFloat(-a) \in Nat
    BY SMT, <1>1, <1>4, FloatIs DEF AsFloat
  <2> HIDE DEF d, t, m
  <2>2. m = IF d <= t THEN d ELSE t
    BY <1>2, <2>1, MinOfTwo DEF m
  <2>3. Fraction(p) = [part |-> Max({0, m}), whole |-> t]
    BY SMT, <1>1 DEF Fraction, d, t, m
  <2>4. Max({0, m}) = 0
    BY <1>2, <2>1, <2>2, MaxOfTwo
  <2>5. [part |-> Max({0, m}), whole |-> t] # None
    BY <1>2, <2>4, WordsAssumption
  <2> QED
    BY <1>1, <1>2, <1>4, <2>3, <2>4, <2>5
<1> QED
  BY <1>1, <1>3, <1>4

\* Progress that is told is between nothing and all of it: nothing exactly when
\* no page is done, all of it when no page is left, and not before unless the
\* job has more than 2^24 pages - whatever counts it has and whatever is
\* damaged.
THEOREM ProgressIsSensible == Spec => []ProgressSensible
<1>1. RepliesInv => ProgressSensible
  <2> SUFFICES ASSUME RepliesInv, Told, thing.kind = "job", read[1].progress # None
               PROVE  LET f == Fraction(read[1].progress)
                      IN  /\ f # None /\ 0 <= f.part /\ f.part <= f.whole /\ 0 < f.whole
                          /\ f.part = 0 <=> read[1].progress.done <= 0
                          /\ read[1].progress.done >= read[1].progress.total =>
                                f.part = f.whole
                          /\ f.part = f.whole /\ read[1].progress.total <= Exact =>
                                read[1].progress.done >= read[1].progress.total
    BY DEF ProgressSensible
  <2> DEFINE total == IntOf(reply[1], "job-impressions")
             done == IntOf(reply[1], "job-impressions-completed")
             p == read[1].progress
  <2>1. thing \in Jobs
    BY ThingsAssumption DEF RepliesInv, Thing, Printers, Classes, Drivers, Documents,
        Notifications
  <2>2. reply # <<>> /\ GroupInv(reply[1]) /\ p = Pages(total, done)
    <3>1. reply # <<>> /\ read[1] = ToldOf(thing.kind, reply[1])
      BY ToldIs
    <3>2. GroupInv(reply[1])
      BY <3>1 DEF RepliesInv
    <3>3. read[1] = JobTold(reply[1])
      BY <3>1 DEF ToldOf
    <3>4. JobTold(reply[1]).progress = Pages(total, done)
      BY DEF JobTold
    <3> HIDE DEF total, done
    <3> QED
      BY <3>1, <3>2, <3>3, <3>4
  <2>3. ASSUME NEW n \in {"job-impressions", "job-impressions-completed"}
        PROVE  IntOf(reply[1], n) \in Int32 \cup {None}
    <3>1. n \in RequestAttributes(thing)
      BY DEF RequestAttributes, JOB_ATTRIBUTES
    <3>2. PICK x \in Int32 \cup {None} : Says(thing, n) = One("int", x)
      BY <2>1, JobSaysWhat DEF Jobs
    <3>3. CASE n \notin Damaged
      <4>1. Holds(reply[1], n, One("int", x))
        BY <2>2, <3>1, <3>2, <3>3 DEF GroupInv
      <4> QED
        BY <4>1, ScalarTrue DEF IntOf
    <3>4. CASE n \in Damaged
      <4>1. Len(Says(thing, n)) <= 1
        BY <3>2, OneValues
      <4>2. Lost(reply[1], n)
        BY <2>2, <3>4, <4>1, VitalLost
      <4> QED
        BY <4>2, LostTrue DEF IntOf
    <3> QED
      BY <3>3, <3>4
  <2>4. total \in Int32 \cup {None} /\ done \in Int32 \cup {None}
    BY <2>3
  <2> HIDE DEF total, done, p
  <2>5. p # None /\ total \in Int32 /\ total > 0 /\ done \in Int32
        /\ p = [done |-> done, total |-> total]
    BY <2>2, <2>4 DEF Pages, Positive, p
  <2>6. p.done = done /\ p.total = total
    BY <2>5
  <2>7. LET f == Fraction(p)
        IN  /\ f # None /\ 0 <= f.part /\ f.part <= f.whole /\ 0 < f.whole
            /\ f.part = 0 <=> done <= 0
            /\ done >= total => f.part = f.whole
            /\ f.part = f.whole /\ total <= Exact => done >= total
    BY <2>5, FractionIs
  <2> QED
    BY <2>6, <2>7 DEF p
<1> QED
  BY <1>1, Invariance, PTL
=============================================================================
