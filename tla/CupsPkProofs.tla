----------------------------- MODULE CupsPkProofs -----------------------------
(***************************************************************************)
(* Proofs about CupsPk, for any number of callers and calls and whatever   *)
(* a scan may find: what a caller is told of its call is so, and the       *)
(* devices it is given are those that were found.                          *)
(*                                                                         *)
(* The argument: calls are numbered, and of each number there is one call  *)
(* at most, on the bus or carried out and never both; so a reply to the    *)
(* call that is awaited settles what becomes of that number.               *)
(***************************************************************************)
EXTENDS CupsPk, FiniteSetTheorems, WellFoundedInduction, TLAPS

\* Of each number of a caller there is one call, which is under way or over.
Numbered ==
    /\ \A r \in bus \cup done : r.nr <= made[r.from]
    /\ \A r, s \in bus \cup done : r.from = s.from /\ r.nr = s.nr => r = s
    /\ bus \cap done = {}

Done(c) == \E op \in Operations : ThisCall(c, op) \in done

Refusals == {"NotPrivileged", "AccessDenied"}

\* What the caller is about to be told, and was told last, of the call with the
\* number it is at.
Told(c) ==
    /\ pc[c] \in {"idle", "connected"} => reply[c] = None
    /\ pc[c] \in {"calling", "checking"} /\ installed => reachable[c]
    /\ pc[c] = "checking" => \A r \in bus : r.from = c /\ r.nr = made[c] => r.op = "ping"
    /\ reply[c] # None =>
        /\ \A op \in Operations : ThisCall(c, op) \notin bus
        /\ reply[c].dbus = None /\ reply[c].error = Empty => Done(c) /\ reachable[c]
        /\ reply[c].dbus \in Refusals => ~Done(c)
        /\ pc[c] = "checking" => reply[c].error = Empty
    /\ outcome[c] = "ok" => Done(c) /\ reachable[c]
    /\ outcome[c] = "AuthorizationFailed" =>
        ~Done(c) /\ \A op \in Operations : ThisCall(c, op) \notin bus

MechanismInv == Numbered /\ \A c \in Callers : Told(c)

-----------------------------------------------------------------------------
(* Decoding, in whatever order. *)

\* Every set of numbers that is not empty has a least one; this is what the
\* inductions below rest on.
LEMMA Least == ASSUME NEW T \in SUBSET Nat, T # {}
               PROVE  \E m \in T : \A n \in T : m <= n
<1>1. \E m \in T : \A n \in T : <<n, m>> \notin OpToRel(<, Nat)
  BY NatLessThanWellFounded, WFMin
<1>2. \A m, n \in T : n < m => <<n, m>> \in OpToRel(<, Nat)
  BY DEF OpToRel
<1>3. \E m \in T : \A n \in T : ~(n < m)
  BY <1>1, <1>2
<1> QED
  BY <1>3

LEMMA Greatest ==
    ASSUME NEW N \in Nat, NEW s \in SUBSET (1..N), s # {}
    PROVE  Max(s) \in s /\ \A n \in s : n <= Max(s)
<1> DEFINE T == {m \in Nat : \A n \in s : n <= m}
<1>1. T # {}
  <2>1. N \in T
    OBVIOUS
  <2> QED
    BY <2>1
<1>2. PICK m \in T : \A n \in T : m <= n
  BY <1>1, Least
<1>3. m \in s
  <2>1. SUFFICES ASSUME m \notin s
                 PROVE  FALSE
    OBVIOUS
  <2>2. \A n \in s : n <= m - 1
    BY <2>1
  <2>3. m # 0
    <3>1. PICK n \in s : TRUE
      OBVIOUS
    <3> QED
      BY <1>2, <3>1
  <2>4. m - 1 \in T
    BY <2>2, <2>3
  <2> QED
    BY <1>2, <2>4
<1>4. \E x \in s : \A y \in s : x >= y
  BY <1>3
<1>5. Max(s) = CHOOSE x \in s : \A y \in s : x >= y
  BY DEF Max
<1>6. Max(s) \in s /\ \A y \in s : Max(s) >= y
  BY <1>4, <1>5
<1> QED
  BY <1>6

\* No two entries are about the same field of the same device.
Unique(d) ==
    \A e, f \in d : e.field = f.field /\ e.index = f.index /\ e.index # None => e = f

\* The map of all that a dictionary has entries of.
MapOf(d) == [i \in {e.index : e \in d} \ {None} |-> DeviceAt(d, i)]

LEMMA ValueThere ==
    ASSUME NEW d, Unique(d), NEW e \in d, e.index # None
    PROVE  ValueAt(d, e.field, e.index) = e.value
  BY DEF Unique, ValueAt

LEMMA ValueNotThere ==
    ASSUME NEW d, NEW field, NEW i, \A e \in d : ~(e.field = field /\ e.index = i)
    PROVE  ValueAt(d, field, i) = Empty
  BY DEF ValueAt

\* An entry changes the field it is about, and nothing else.
LEMMA ValueAdded ==
    ASSUME NEW d, NEW e, Unique(d \cup {e}), NEW field, NEW i, i # None
    PROVE  ValueAt(d \cup {e}, field, i) =
                IF e.field = field /\ e.index = i THEN e.value ELSE ValueAt(d, field, i)
<1>1. CASE e.field = field /\ e.index = i
  BY <1>1, ValueThere
<1>2. CASE ~(e.field = field /\ e.index = i) /\ \E f \in d : f.field = field /\ f.index = i
  <2>1. PICK f \in d : f.field = field /\ f.index = i
    BY <1>2
  <2>2. ValueAt(d, field, i) = f.value /\ ValueAt(d \cup {e}, field, i) = f.value
    <3>1. Unique(d)
      BY DEF Unique
    <3> QED
      BY <2>1, <3>1, ValueThere
  <2> QED
    BY <1>2, <2>2
<1>3. CASE ~(e.field = field /\ e.index = i) /\ ~\E f \in d : f.field = field /\ f.index = i
  BY <1>3, ValueNotThere
<1> QED
  BY <1>1, <1>2, <1>3

\* One turn of the loop adds an entry to what was read.
LEMMA PlaceAdds ==
    ASSUME NEW d, NEW e, Unique(d \cup {e})
    PROVE  Place(MapOf(d), e) = MapOf(d \cup {e})
<1> DEFINE I == {f.index : f \in d} \ {None}
           J == {f.index : f \in d \cup {e}} \ {None}
<1>1. DOMAIN MapOf(d) = I /\ \A i \in I : MapOf(d)[i] = DeviceAt(d, i)
  BY DEF MapOf
<1>2. MapOf(d \cup {e}) = [i \in J |-> DeviceAt(d \cup {e}, i)]
  BY DEF MapOf
<1>3. \A i \in J : i # e.index => DeviceAt(d \cup {e}, i) = DeviceAt(d, i)
  BY ValueAdded DEF DeviceAt
<1> HIDE DEF I, J
<1>4. CASE e.index = None
  <2>1. J = I
    BY <1>4 DEF I, J
  <2>2. Place(MapOf(d), e) = MapOf(d)
    BY <1>4 DEF Place
  <2>3. \A i \in I : DeviceAt(d \cup {e}, i) = DeviceAt(d, i)
    BY <1>3, <1>4, <2>1 DEF I
  <2>4. MapOf(d \cup {e}) = [i \in I |-> DeviceAt(d, i)]
    BY <1>2, <2>1, <2>3
  <2> QED
    BY <2>2, <2>4 DEF MapOf, I
<1>5. CASE e.index # None
  <2> DEFINE old == IF e.index \in I THEN MapOf(d)[e.index] ELSE NewDevice
             new == IF e.field \in Fields THEN [old EXCEPT ![e.field] = e.value] ELSE old
  <2>1. J = I \cup {e.index}
    BY <1>5 DEF I, J
  <2>2. Place(MapOf(d), e) = [i \in J |-> IF i = e.index THEN new ELSE MapOf(d)[i]]
    BY <1>1, <1>5, <2>1 DEF Place
  <2>3. old = DeviceAt(d, e.index)
    <3>1. CASE e.index \in I
      BY <1>1, <3>1
    <3>2. CASE e.index \notin I
      <4>1. \A field \in Fields : ValueAt(d, field, e.index) = Empty
        BY <1>5, <3>2, ValueNotThere DEF I
      <4>2. DeviceAt(d, e.index) = [field \in Fields |-> Empty]
        BY <4>1 DEF DeviceAt
      <4>3. NewDevice = [field \in Fields |-> Empty]
        BY DEF NewDevice, Fields
      <4> QED
        BY <3>2, <4>2, <4>3
    <3> QED
      BY <3>1, <3>2
  <2>4. new = DeviceAt(d \cup {e}, e.index)
    <3>1. \A field \in Fields : ValueAt(d \cup {e}, field, e.index) =
                IF e.field = field THEN e.value ELSE ValueAt(d, field, e.index)
      BY <1>5, ValueAdded
    <3> HIDE DEF old
    <3> QED
      BY <2>3, <3>1 DEF DeviceAt
  <2>5. \A i \in J : i # e.index => MapOf(d)[i] = DeviceAt(d \cup {e}, i)
    BY <1>1, <1>3, <2>1
  <2> HIDE DEF new
  <2> QED
    BY <1>2, <2>2, <2>4, <2>5
<1> QED
  BY <1>4, <1>5

\* One call of the loop, as FoldLeft makes it: the last entry is placed after
\* the others.
Turn(entries, iter) ==
    [s \in SUBSET (DOMAIN entries) |->
        IF s = {} THEN NoDevices ELSE Place(iter[s \ {Max(s)}], entries[Max(s)])]

\* The loop reads every entry, in whatever order they come.
LEMMA Folded ==
    ASSUME NEW N \in Nat, NEW D, Unique(D), NEW entries \in [1..N -> D]
    PROVE  FoldLeft(Place, NoDevices, entries) = MapOf({entries[k] : k \in 1..N})
<1> DEFINE Read(s) == {entries[k] : k \in s}
           G == [s \in SUBSET (1..N) |-> MapOf(Read(s))]
<1>1. \A s \in SUBSET (1..N) : s # {} => /\ Max(s) \in s
                                       /\ \A n \in s : n <= Max(s)
  BY Greatest
<1>2. G[{}] = NoDevices
  BY DEF MapOf, NoDevices
<1>3. ASSUME NEW s \in SUBSET (1..N), s # {}
      PROVE  G[s] = Place(G[s \ {Max(s)}], entries[Max(s)])
  <2>1. Read(s) = Read(s \ {Max(s)}) \cup {entries[Max(s)]}
    BY <1>1, <1>3
  <2>2. Unique(Read(s))
    <3>1. Read(s) \subseteq D
      OBVIOUS
    <3> QED
      BY <3>1 DEF Unique
  <2>3. MapOf(Read(s)) = Place(MapOf(Read(s \ {Max(s)})), entries[Max(s)])
    BY <2>1, <2>2, PlaceAdds
  <2> HIDE DEF Read
  <2> QED
    BY <2>3
<1> HIDE DEF G
<1>4. DOMAIN G = SUBSET (1..N) /\ \A s \in SUBSET (1..N) : G[s] = MapOf(Read(s))
  BY DEF G
<1>5. G = Turn(entries, G)
  <2>1. \A s \in SUBSET (1..N) :
            G[s] = IF s = {} THEN NoDevices ELSE Place(G[s \ {Max(s)}], entries[Max(s)])
    BY <1>2, <1>3
  <2>2. G = [s \in SUBSET (1..N) |-> G[s]]
    BY DEF G
  <2> QED
    BY <2>1, <2>2 DEF Turn
<1>6. ASSUME NEW h, h = Turn(entries, h)
      PROVE  h = G
  <2>1. /\ h = [s \in SUBSET (1..N) |-> h[s]]
        /\ \A s \in SUBSET (1..N) :
            h[s] = IF s = {} THEN NoDevices ELSE Place(h[s \ {Max(s)}], entries[Max(s)])
    BY <1>6 DEF Turn
  <2> DEFINE T == {m \in Nat : \E s \in SUBSET (1..N) :
                        (\A k \in s : k <= m) /\ h[s] # G[s]}
  <2>2. SUFFICES ASSUME h # G
                 PROVE  FALSE
    OBVIOUS
  <2>3. PICK s \in SUBSET (1..N) : h[s] # G[s]
    <3>1. G = [s \in SUBSET (1..N) |-> G[s]]
      BY DEF G
    <3> QED
      BY <2>1, <2>2, <3>1
  <2>4. N \in T
    BY <2>3
  <2>5. PICK m \in T : \A n \in T : m <= n
    <3>1. T # {} /\ T \in SUBSET Nat
      BY <2>4
    <3> QED
      BY <3>1, Least
  <2>6. PICK t \in SUBSET (1..N) : (\A k \in t : k <= m) /\ h[t] # G[t]
    BY <2>5
  <2>7. t # {}
    BY <1>2, <2>1, <2>6
  <2>8. Max(t) \in t /\ Max(t) \in 1..N /\ Max(t) <= m /\ \A n \in t : n <= Max(t)
    BY <1>1, <2>6, <2>7
  <2>9. \A k \in t \ {Max(t)} : k <= Max(t) - 1
    BY <2>8
  <2>10. Max(t) - 1 \in Nat /\ Max(t) - 1 < m
    BY <2>5, <2>8
  <2>11. h[t \ {Max(t)}] = G[t \ {Max(t)}]
    <3>1. Max(t) - 1 \notin T
      <4>1. m \in Nat /\ \A n \in T : m <= n
        BY <2>5
      <4> HIDE DEF T
      <4> QED
        BY <2>10, <4>1
    <3>2. t \ {Max(t)} \in SUBSET (1..N)
      OBVIOUS
    <3> QED
      BY <2>9, <2>10, <3>1, <3>2
  <2>12. h[t] = Place(h[t \ {Max(t)}], entries[Max(t)])
    BY <2>1, <2>7
  <2>13. G[t] = Place(G[t \ {Max(t)}], entries[Max(t)])
    BY <1>3, <2>7
  <2> QED
    BY <2>6, <2>11, <2>12, <2>13
<1>7. FoldLeft(Place, NoDevices, entries) =
        (CHOOSE iter : iter = Turn(entries, iter))[DOMAIN entries]
  BY DEF FoldLeft, MapThenFoldSet, Turn
<1>8. (CHOOSE iter : iter = Turn(entries, iter)) = G
  BY <1>5, <1>6
<1> QED
  BY <1>4, <1>7, <1>8

\* What an order goes through is the whole set.
LEMMA AllOf ==
    ASSUME NEW d, IsFiniteSet(d), NEW entries \in SetToSeqs(d)
    PROVE  /\ Cardinality(d) \in Nat /\ entries \in [1..Cardinality(d) -> d]
           /\ {entries[k] : k \in 1..Cardinality(d)} = d
<1> DEFINE N == Cardinality(d)
<1>1. N \in Nat
  BY FS_CardinalityType
<1>2. IsFiniteSet(1..N) /\ Cardinality(1..N) = N
  BY <1>1, FS_Interval
<1>3. /\ entries \in [1..N -> d]
      /\ \A i, j \in 1..N : i # j => entries[i] # entries[j]
  BY DEF SetToSeqs
<1>4. entries \in Injection(1..N, d)
  BY <1>3 DEF Injection, IsInjective
<1>5. entries \in Surjection(1..N, d)
  BY <1>2, <1>4, FS_Injection
<1>6. \A e \in d : \E k \in 1..N : entries[k] = e
  BY <1>5 DEF Surjection
<1> QED
  BY <1>1, <1>3, <1>6

\* The indices of the devices with a URI.
Found(d) == {e.index : e \in {f \in d : f.field = "uri" /\ f.index # None /\ f.value # Empty}}

LEMMA FoundIndices ==
    ASSUME NEW d, Unique(d)
    PROVE  Found(d) = {i \in {e.index : e \in d} \ {None} : DeviceAt(d, i).uri # Empty}
<1>1. \A i : DeviceAt(d, i).uri = ValueAt(d, "uri", i)
  BY DEF DeviceAt, Fields
<1>2. ASSUME NEW i \in Found(d)
      PROVE  i \in {e.index : e \in d} \ {None} /\ ValueAt(d, "uri", i) # Empty
  BY ValueThere DEF Found
<1>3. ASSUME NEW i \in {e.index : e \in d} \ {None}, ValueAt(d, "uri", i) # Empty
      PROVE  i \in Found(d)
  <2>1. PICK e \in d : e.field = "uri" /\ e.index = i
    BY <1>3, ValueNotThere
  <2>2. e.value # Empty
    BY <1>3, <2>1, ValueThere
  <2> QED
    BY <2>1, <2>2 DEF Found
<1> QED
  BY <1>1, <1>2, <1>3

\* The order of the entries makes no difference.
LEMMA Decoded ==
    ASSUME NEW d, Unique(d), IsFiniteSet(d), NEW entries \in SetToSeqs(d)
    PROVE  DecodeDevices(entries) = DevicesIn(d)
<1>1. FoldLeft(Place, NoDevices, entries) = MapOf(d)
  BY AllOf, Folded
<1>2. Addressable(MapOf(d)) = [i \in Found(d) |-> DeviceAt(d, i)]
  <2>1. /\ DOMAIN MapOf(d) = {e.index : e \in d} \ {None}
        /\ \A i \in DOMAIN MapOf(d) : MapOf(d)[i] = DeviceAt(d, i)
    BY DEF MapOf
  <2>2. Found(d) = {i \in DOMAIN MapOf(d) : MapOf(d)[i].uri # Empty}
    BY <2>1, FoundIndices
  <2> QED
    BY <2>1, <2>2 DEF Addressable
<1> QED
  BY <1>1, <1>2 DEF DecodeDevices, DevicesIn, Found

-----------------------------------------------------------------------------
(* Types. *)

LEMMA UniqueDictionaries ==
    ASSUME NEW d \in Dictionaries
    PROVE  Unique(d) /\ IsFiniteSet(d)
  BY DictionariesAssumption DEF Unique

LEMMA ListsOfDevices ==
    ASSUME NEW d \in Dictionaries
    PROVE  DevicesIn(d) \in DeviceLists
<1> DEFINE values == {e.value : e \in UNION Dictionaries} \cup {Empty}
           map == [i \in Found(d) |-> DeviceAt(d, i)]
<1>1. Found(d) \in SUBSET Indices
  BY DEF Found, Indices
<1>2. ASSUME NEW i \in Found(d)
      PROVE  DeviceAt(d, i) \in Device
  <2>1. ASSUME NEW field \in Fields
        PROVE  ValueAt(d, field, i) \in values
    <3>1. CASE \E e \in d : e.field = field /\ e.index = i
      <4>1. PICK e \in d : e.field = field /\ e.index = i
        BY <3>1
      <4>2. e.index # None
        BY <4>1, FoundIndices, UniqueDictionaries
      <4> QED
        BY <4>1, <4>2, ValueThere, UniqueDictionaries
    <3>2. CASE ~\E e \in d : e.field = field /\ e.index = i
      BY <3>2, ValueNotThere
    <3> QED
      BY <3>1, <3>2
  <2>2. DeviceAt(d, i) \in [Fields -> values]
    BY <2>1 DEF DeviceAt
  <2>3. DeviceAt(d, i).uri # Empty
    BY FoundIndices, UniqueDictionaries
  <2> QED
    BY <2>2, <2>3 DEF Device
<1>3. map \in [Found(d) -> Device]
  BY <1>2
<1>4. DevicesIn(d) = IntoValues(map)
  BY DEF DevicesIn, Found
<1> HIDE DEF map
<1> QED
  BY <1>1, <1>3, <1>4 DEF DeviceLists

LEMMA NoList == <<>> \in DeviceLists
<1>1. NoDevices \in [{} -> Device] /\ DOMAIN NoDevices = {}
  BY DEF NoDevices
<1>2. 1..Cardinality({}) = {}
  BY FS_EmptySet
<1>3. IntoValues(NoDevices) = <<>>
  BY <1>1, <1>2 DEF IntoValues
<1> QED
  BY <1>1, <1>3 DEF DeviceLists

LEMMA InitType == Init => TypeOK
  BY CupsPkAssumption, NoList DEF Init, TypeOK, Outcomes

Succeeded(a) == a.dbus = None /\ a.error = Empty

\* Every step of the mechanism deals with one call, and answers it if its
\* caller still waits: with success only if the call was carried out, with a
\* refusal only if it was not.
Deals(r, a) ==
    /\ r \in bus /\ bus' = bus \ {r}
    /\ done' \in {done, done \cup {r}}
    /\ reply' = [reply EXCEPT ![r.from] = IF Waiting(r) THEN a ELSE @]
    /\ UNCHANGED <<installed, callerVars, reachable>>
    /\ Succeeded(a) => r \in done' /\ installed
    /\ a.dbus \in Refusals => done' = done
    /\ r.op = "ping" => a.error = Empty
    /\ found' = [found EXCEPT ![r.from] =
                    IF Waiting(r) /\ Succeeded(a) THEN a.raw ELSE @]

LEMMA MechanismDeals ==
    ASSUME TypeOK, Mechanism
    PROVE  (\E r \in bus, a \in Replies : Deals(r, a)) /\ found' \in [Callers -> Dictionaries]
<1> USE CupsPkAssumption DEF Deals, Answer, Refusals, Succeeded
<1>0. \A e \in DBusErrors : Failure(e) \in Replies /\ Failure(e).dbus = e /\ Failure(e).error = Empty
  BY DEF Failure, Replies
<1>1. PICK r \in bus : Refuse(r) \/ CannotStart(r) \/ Perform(r) \/ Reject(r) \/ Die(r)
  BY DEF Mechanism
<1>01. r.from \in Callers /\ found = [found EXCEPT ![r.from] = found[r.from]]
  BY DEF TypeOK, Calls
<1>2. CASE Refuse(r)
  <2>1. PICK e \in Refusals : Answer(r, Failure(e))
    BY <1>2 DEF Refuse
  <2>2. Deals(r, Failure(e))
    BY <1>0, <1>01, <1>2, <2>1 DEF Refuse, DBusErrors
  <2> QED
    BY <1>0, <1>01, <1>2, <2>2 DEF Refuse, DBusErrors, TypeOK
<1>3. CASE CannotStart(r)
  <2>1. Deals(r, Failure("ServiceUnknown"))
    BY <1>0, <1>01, <1>3 DEF CannotStart, DBusErrors
  <2> QED
    BY <1>0, <1>01, <1>3, <2>1 DEF CannotStart, DBusErrors, TypeOK
<1>4. CASE Perform(r)
  <2>1. PICK raw \in IF r.op = "devices" THEN Dictionaries ELSE {{}} :
            /\ found' = [found EXCEPT ![r.from] = IF Waiting(r) THEN raw ELSE @]
            /\ Answer(r, Message(Empty, raw))
    BY <1>4 DEF Perform
  <2>2. /\ raw \in Dictionaries /\ Message(Empty, raw) \in Replies
        /\ Message(Empty, raw).error = Empty /\ Message(Empty, raw).dbus = None
        /\ Message(Empty, raw).raw = raw
    BY <2>1 DEF Message, Replies
  <2>3. Deals(r, Message(Empty, raw))
    BY <1>01, <1>4, <2>1, <2>2 DEF Perform, DBusErrors
  <2>4. found' \in [Callers -> Dictionaries]
    BY <2>1, <2>2 DEF TypeOK
  <2> HIDE DEF Deals
  <2> QED
    BY <2>2, <2>3, <2>4
<1>5. CASE Reject(r)
  <2>1. /\ Message("message", {}) \in Replies
        /\ Message("message", {}).error = "message" /\ Message("message", {}).dbus = None
    BY DEF Message, Replies
  <2>2. Deals(r, Message("message", {}))
    BY <1>01, <1>5, <2>1 DEF Reject, DBusErrors
  <2> QED
    BY <1>5, <2>1, <2>2 DEF Reject, TypeOK
<1>6. CASE Die(r)
  <2>1. Deals(r, Failure("NoReply"))
    BY <1>0, <1>01, <1>6 DEF Die, DBusErrors
  <2> QED
    BY <1>0, <1>01, <1>6, <2>1 DEF Die, DBusErrors, TypeOK
<1> QED
  BY <1>1, <1>2, <1>3, <1>4, <1>5, <1>6

LEMMA NextType == TypeOK /\ [Next]_vars => TypeOK'
<1> SUFFICES ASSUME TypeOK, [Next]_vars
             PROVE  TypeOK'
  OBVIOUS
<1> USE CupsPkAssumption DEF TypeOK, Goto, mechanismVars
<1>1. ASSUME NEW c \in Callers, Connect(c) \/ ConnectFails(c)
      PROVE  TypeOK'
  BY <1>1 DEF Connect, ConnectFails, Outcomes
<1>2. ASSUME NEW c \in Callers, NEW op \in Operations, NEW l \in {"calling", "checking"},
             Send(c, op, l)
      PROVE  TypeOK'
  <2>1. Call(c, op) \in Calls /\ made[c] + 1 \in 0..MaxCalls
    BY <1>2 DEF Send, Call, Calls
  <2> QED
    BY <1>2, <2>1 DEF Send, Outcomes
<1>3. ASSUME NEW c \in Callers, CallEnds(c)
      PROVE  TypeOK'
  <2>1. reply[c] \in Replies /\ Finished(c) \in Outcomes
    BY <1>3 DEF CallEnds, Finished, CallFailed, Translate, Outcomes
  <2>2. reply[c].raw \in Dictionaries
    BY <2>1 DEF Replies
  <2>3. \A entries \in SetToSeqs(reply[c].raw) : DecodeDevices(entries) \in DeviceLists
    BY <2>2, UniqueDictionaries, Decoded, ListsOfDevices
  <2> QED
    BY <1>3, <2>1, <2>3 DEF CallEnds
<1>4. ASSUME NEW c \in Callers, CheckEnds(c) \/ BusFails(c) \/ Drop(c)
      PROVE  TypeOK'
  BY <1>4 DEF CheckEnds, BusFails, Drop, Outcomes
<1>5. CASE Mechanism
  <2>1. PICK r \in bus, a \in Replies : Deals(r, a)
    BY <1>5, MechanismDeals
  <2>2. found' \in [Callers -> Dictionaries]
    BY <1>5, MechanismDeals
  <2>3. r \in Calls /\ r.from \in Callers
    BY DEF Calls
  <2> QED
    BY <2>1, <2>2, <2>3 DEF Deals, callerVars
<1>6. CASE Package
  BY <1>6 DEF Package, callerVars
<1>7. CASE UNCHANGED vars
  BY <1>7 DEF vars, callerVars
<1> QED
  BY <1>1, <1>2, <1>3, <1>4, <1>5, <1>6, <1>7
     DEF Next, Caller, Change, DevicesGet, CheckAvailable, Operations
-----------------------------------------------------------------------------
(* What callers are told. *)

LEMMA InitTold == Init => MechanismInv
  BY DEF Init, MechanismInv, Numbered, Told

\* A caller's step leaves the other callers alone.
OnlyOf(c) ==
    /\ UNCHANGED <<installed, done>>
    /\ \A d \in Callers \ {c} :
        /\ pc'[d] = pc[d] /\ made'[d] = made[d] /\ outcome'[d] = outcome[d]
        /\ reply'[d] = reply[d] /\ reachable'[d] = reachable[d]
    /\ \A r \in bus' : r \in bus \/ r.from = c

LEMMA OthersKept ==
    ASSUME NEW c \in Callers, OnlyOf(c), NEW d \in Callers \ {c}, Told(d)
    PROVE  Told(d)'
<1>1. /\ \A op \in Operations : ThisCall(d, op)' = ThisCall(d, op)
      /\ \A op \in Operations : ThisCall(d, op) \in bus' => ThisCall(d, op) \in bus
  BY DEF OnlyOf, ThisCall
<1>2. Done(d)' <=> Done(d)
  BY <1>1 DEF OnlyOf, Done
<1> QED
  BY <1>1, <1>2 DEF OnlyOf, Told

\* A step that sends nothing keeps the numbers.
LEMMA QuietStep ==
    ASSUME TypeOK, MechanismInv, NEW c \in Callers, OnlyOf(c),
           UNCHANGED <<bus, made>>, Told(c)'
    PROVE  MechanismInv'
<1>1. Numbered'
  BY DEF OnlyOf, MechanismInv, Numbered
<1> QED
  BY <1>1, OthersKept DEF MechanismInv

LEMMA CallerStep ==
    ASSUME TypeOK, MechanismInv, NEW c \in Callers, Caller(c)
    PROVE  MechanismInv'
<1> USE CupsPkAssumption
<1>1. Told(c) /\ (reply[c] # None => reply[c] \in Replies)
  BY DEF MechanismInv, TypeOK
<1>2. UNCHANGED <<done, made>> => (Done(c)' <=> Done(c))
  BY DEF Done, ThisCall
<1>3. UNCHANGED <<bus, made>> =>
        \A op \in Operations : (ThisCall(c, op) \in bus)' <=> ThisCall(c, op) \in bus
  BY DEF ThisCall
<1>4. ASSUME NEW op \in Operations, NEW l \in {"calling", "checking"}, Send(c, op, l),
             l = "checking" => op = "ping"
      PROVE  MechanismInv'
  <2>1. /\ made' = [made EXCEPT ![c] = @ + 1] /\ made[c] \in Nat /\ made'[c] = made[c] + 1
        /\ bus' = bus \cup {Call(c, op)} /\ done' = done
        /\ Call(c, op).from = c /\ Call(c, op).nr = made'[c] /\ Call(c, op).op = op
    BY <1>4 DEF Send, Call, TypeOK
  <2>2. \A r \in bus \cup done : r.from \in Callers /\ r.nr \in Nat
    BY DEF TypeOK, Calls
  <2>3. \A d \in Callers : made[d] <= made'[d]
    BY <2>1 DEF TypeOK
  <2>4. Call(c, op) \notin bus \cup done
    BY <2>1 DEF MechanismInv, Numbered
  <2>5. \A r \in bus \cup done : ~(r.from = c /\ r.nr = made'[c])
    BY <2>1, <2>2 DEF MechanismInv, Numbered
  <2>6. Numbered'
    <3>1. \A r \in bus' \cup done' : r.nr <= made'[r.from]
      BY <2>1, <2>2, <2>3 DEF MechanismInv, Numbered, TypeOK
    <3>2. \A r, s \in bus' \cup done' : r.from = s.from /\ r.nr = s.nr => r = s
      BY <2>1, <2>5 DEF MechanismInv, Numbered
    <3>3. bus' \cap done' = {}
      BY <2>1, <2>4 DEF MechanismInv, Numbered
    <3> QED
      BY <3>1, <3>2, <3>3 DEF Numbered
  <2>7. OnlyOf(c)
    BY <1>4, <2>1 DEF Send, Goto, OnlyOf, TypeOK
  <2>8. /\ pc'[c] = l /\ reply'[c] = None /\ outcome'[c] = "none"
        /\ reachable'[c] = installed /\ installed' = installed
    BY <1>4 DEF Send, Goto, TypeOK
  <2>9. \A r \in bus' : r.from = c /\ r.nr = made'[c] => r.op = op
    BY <2>1, <2>5
  <2>10. Told(c)'
    BY <1>4, <2>8, <2>9 DEF Told
  <2> QED
    BY <2>6, <2>7, <2>10, OthersKept DEF MechanismInv
<1>5. CASE Connect(c)
  <2>1. OnlyOf(c) /\ UNCHANGED <<bus, made, done>>
    BY <1>5 DEF Connect, mechanismVars, Goto, OnlyOf, TypeOK
  <2>2. /\ pc[c] = "idle" /\ pc'[c] = "connected" /\ reply'[c] = reply[c]
        /\ outcome'[c] = outcome[c] /\ reachable'[c] = reachable[c]
    BY <1>5 DEF Connect, Goto, TypeOK
  <2>3. Told(c)'
    BY <1>1, <1>2, <1>3, <2>1, <2>2 DEF Told
  <2> QED
    BY <2>1, <2>3, QuietStep
<1>6. CASE ConnectFails(c)
  <2>1. OnlyOf(c) /\ UNCHANGED <<bus, made, done>>
    BY <1>6 DEF ConnectFails, mechanismVars, OnlyOf, TypeOK
  <2>2. pc'[c] = "idle" /\ pc[c] = "idle" /\ reply'[c] = reply[c] /\ outcome'[c] = "Transport"
    BY <1>6 DEF ConnectFails, TypeOK
  <2>3. Told(c)'
    BY <1>1, <2>2 DEF Told
  <2> QED
    BY <2>1, <2>3, QuietStep
<1>7. CASE CallEnds(c)
  <2>1. OnlyOf(c) /\ UNCHANGED <<bus, made, done>>
    BY <1>7 DEF CallEnds, mechanismVars, Goto, OnlyOf, TypeOK
  <2>2. /\ reply[c] # None /\ reply[c].dbus \in DBusErrors \cup {None}
        /\ pc'[c] = "connected" /\ reply'[c] = None /\ reachable'[c] = reachable[c]
        /\ outcome'[c] = Finished(c)
    BY <1>1, <1>7 DEF CallEnds, Goto, TypeOK, Replies
  <2>3. /\ Finished(c) = "ok" => reply[c].dbus = None /\ reply[c].error = Empty
        /\ Finished(c) = "AuthorizationFailed" => reply[c].dbus \in Refusals
    BY DEF Finished, CallFailed, Translate, Refusals
  <2>4. Told(c)'
    BY <1>1, <1>2, <1>3, <2>1, <2>2, <2>3 DEF Told
  <2> QED
    BY <2>1, <2>4, QuietStep
<1>8. CASE CheckEnds(c)
  <2>1. OnlyOf(c) /\ UNCHANGED <<bus, made, done>>
    BY <1>8 DEF CheckEnds, mechanismVars, Goto, OnlyOf, TypeOK
  <2>2. /\ pc[c] = "checking" /\ reply[c] # None
        /\ pc'[c] = "connected" /\ reply'[c] = None /\ reachable'[c] = reachable[c]
        /\ outcome'[c] = IF reply[c].dbus = None THEN "ok" ELSE "Transport"
    BY <1>8 DEF CheckEnds, Goto, TypeOK
  <2>3. Told(c)'
    BY <1>1, <1>2, <1>3, <2>1, <2>2 DEF Told
  <2> QED
    BY <2>1, <2>3, QuietStep
<1>9. CASE BusFails(c) \/ Drop(c)
  <2>1. OnlyOf(c) /\ UNCHANGED <<bus, made, done>>
    BY <1>9 DEF BusFails, Drop, mechanismVars, Goto, OnlyOf, TypeOK
  <2>2. pc'[c] = "idle" /\ reply'[c] = None /\ outcome'[c] \in {"Transport", "none"}
    BY <1>9 DEF BusFails, Drop, Goto, TypeOK
  <2>3. Told(c)'
    BY <2>2 DEF Told
  <2> QED
    BY <2>1, <2>3, QuietStep
<1> QED
  BY <1>4, <1>5, <1>6, <1>7, <1>8, <1>9
     DEF Caller, Change, DevicesGet, CheckAvailable, Operations

LEMMA MechanismKeeps ==
    ASSUME TypeOK, MechanismInv, Mechanism
    PROVE  MechanismInv'
<1> USE CupsPkAssumption
<1>1. PICK r \in bus, a \in Replies : Deals(r, a)
  BY MechanismDeals
<1>2. /\ bus' = bus \ {r} /\ done' \in {done, done \cup {r}}
      /\ made' = made /\ pc' = pc /\ outcome' = outcome /\ installed' = installed
      /\ reachable' = reachable
      /\ r \in Calls /\ r.from \in Callers
  BY <1>1 DEF Deals, callerVars, TypeOK, Calls
<1>3. Numbered'
  BY <1>2 DEF MechanismInv, Numbered
<1>4. ASSUME NEW c \in Callers
      PROVE  Told(c)'
  <2>1. Told(c)
    BY DEF MechanismInv
  <2>2. \A op \in Operations : /\ ThisCall(c, op)' = ThisCall(c, op)
                              /\ ThisCall(c, op).from = c /\ ThisCall(c, op).nr = made[c]
    BY <1>2 DEF ThisCall
  <2>3. Done(c) => Done(c)'
    BY <1>2, <2>2 DEF Done
  <2>4. \A op \in Operations : ThisCall(c, op) \in bus' => ThisCall(c, op) \in bus
    BY <1>2
  <2>5. (\A op \in Operations : ThisCall(c, op) \notin bus) /\ ~Done(c) => ~Done(c)'
    BY <1>2, <2>2 DEF Done
  <2>6. CASE r.from = c /\ Waiting(r)
    <3>1. /\ reply'[c] = a /\ a # None /\ made[c] = r.nr
          /\ pc[c] \in {"calling", "checking"}
      BY <1>1, <2>6 DEF Deals, Waiting, TypeOK
    <3>2. r.op \in Operations /\ r = ThisCall(c, r.op)
      BY <1>2, <2>6, <3>1 DEF Calls, ThisCall
    <3>3. \A op \in Operations : ThisCall(c, op) \in bus \cup done => ThisCall(c, op) = r
      BY <1>1, <2>2, <2>6, <3>1 DEF MechanismInv, Numbered
    <3>4. \A op \in Operations : ThisCall(c, op) \notin bus'
      BY <1>2, <3>3
    <3>5. r \in done' => Done(c)'
      BY <2>2, <3>2 DEF Done
    <3>6. done' = done => ~Done(c)'
      BY <1>1, <2>2, <3>3 DEF Done, MechanismInv, Numbered
    <3>7. outcome[c] = "ok" => Done(c)' /\ reachable[c]
      BY <2>1, <2>3 DEF Told
    <3>8. outcome[c] # "AuthorizationFailed"
      BY <1>1, <2>1, <3>2 DEF Told
    <3>9. /\ Succeeded(a) => r \in done' /\ installed
          /\ a.dbus \in Refusals => done' = done
          /\ r.op = "ping" => a.error = Empty
      BY <1>1 DEF Deals
    <3>10. pc[c] = "checking" => r.op = "ping"
      BY <1>1, <2>1, <2>6, <3>1 DEF Told
    <3> QED
      BY <1>2, <2>1, <2>2, <3>1, <3>4, <3>5, <3>6, <3>7, <3>8, <3>9, <3>10 DEF Told, Succeeded
  <2>7. CASE ~(r.from = c /\ Waiting(r))
    <3>1. reply'[c] = reply[c]
      BY <1>1, <2>7 DEF Deals, TypeOK
    <3> QED
      BY <1>2, <2>1, <2>2, <2>3, <2>4, <2>5, <3>1 DEF Told
  <2> QED
    BY <2>6, <2>7
<1> QED
  BY <1>3, <1>4 DEF MechanismInv

LEMMA PackageKeeps ==
    ASSUME TypeOK, MechanismInv, Package
    PROVE  MechanismInv'
<1>1. Numbered'
  BY DEF Package, callerVars, MechanismInv, Numbered
<1>2. ASSUME NEW c \in Callers
      PROVE  Told(c)'
  <2>1. Done(c)' <=> Done(c)
    BY DEF Package, callerVars, Done, ThisCall
  <2>2. \A op \in Operations : (ThisCall(c, op) \in bus)' <=> ThisCall(c, op) \in bus
    BY DEF Package, callerVars, ThisCall
  <2>3. (reachable[c] => reachable'[c]) /\ (installed' => reachable'[c])
    BY DEF Package, TypeOK
  <2> QED
    BY <2>1, <2>2, <2>3 DEF Package, callerVars, MechanismInv, Told
<1> QED
  BY <1>1, <1>2 DEF MechanismInv

-----------------------------------------------------------------------------
(* What scans return. *)

\* A reply that is on its way carries what was found, and what an Ok
\* devices_get returned is decoded from it; a check is no scan.
Scanned(c) ==
    /\ pc[c] = "checking" => \A r \in done : r.from = c /\ r.nr = made[c] => r.op = "ping"
    /\ ThisCall(c, "devices") \in done =>
        /\ reply[c] # None /\ Succeeded(reply[c]) => found[c] = reply[c].raw
        /\ outcome[c] = "ok" => devices[c] = DevicesIn(found[c])

ScanInv == \A c \in Callers : Scanned(c)

LEMMA InitScanned == Init => ScanInv
  BY DEF Init, ScanInv, Scanned

\* A step that leaves what a caller is told of its scan alone.
LEMMA ScanKept ==
    ASSUME NEW c \in Callers, Scanned(c),
           UNCHANGED <<done, found, devices[c], made[c]>>,
           pc'[c] = "checking" => pc[c] = "checking",
           reply'[c] \in {reply[c], None},
           outcome'[c] = "ok" => outcome[c] = "ok"
    PROVE  Scanned(c)'
<1>1. ThisCall(c, "devices")' = ThisCall(c, "devices")
  BY DEF ThisCall
<1> QED
  BY <1>1 DEF Scanned, Succeeded

LEMMA CallerScans ==
    ASSUME TypeOK, MechanismInv, ScanInv, NEW c \in Callers, Caller(c)
    PROVE  ScanInv'
<1> USE CupsPkAssumption
<1>1. ASSUME NEW d \in Callers \ {c}
      PROVE  Scanned(d)'
  <2>1. /\ UNCHANGED <<done, found, pc[d], made[d], reply[d], outcome[d], devices[d]>>
    BY DEF Caller, Connect, ConnectFails, Change, DevicesGet, CheckAvailable, Send, CallEnds,
           CheckEnds, BusFails, Drop, Goto, mechanismVars, TypeOK
  <2> QED
    BY <2>1, ScanKept DEF ScanInv
<1>2. Scanned(c) /\ done' = done /\ found' = found
  BY DEF ScanInv, Caller, Connect, ConnectFails, Change, DevicesGet, CheckAvailable, Send,
         CallEnds, CheckEnds, BusFails, Drop, mechanismVars
<1>3. ASSUME NEW op \in Operations, NEW l \in {"calling", "checking"}, Send(c, op, l)
      PROVE  Scanned(c)'
  <2>1. /\ made[c] \in Nat /\ made'[c] = made[c] + 1
        /\ reply'[c] = None /\ outcome'[c] = "none"
    BY <1>3 DEF Send, TypeOK
  <2>2. \A r \in done : r.from = c => r.nr \in Nat /\ r.nr <= made[c]
    BY DEF MechanismInv, Numbered, TypeOK, Calls
  <2>3. \A r \in done' : ~(r.from = c /\ r.nr = made'[c])
    BY <1>2, <2>1, <2>2
  <2> QED
    BY <2>1, <2>3 DEF Scanned
<1>4. ASSUME Connect(c) \/ ConnectFails(c) \/ BusFails(c) \/ Drop(c)
      PROVE  Scanned(c)'
  <2>1. /\ UNCHANGED <<made[c], devices[c]>>
        /\ pc'[c] # "checking" /\ reply'[c] \in {reply[c], None}
        /\ outcome'[c] = "ok" => outcome[c] = "ok"
    BY <1>4 DEF Connect, ConnectFails, BusFails, Drop, Goto, TypeOK
  <2> QED
    BY <1>2, <2>1, ScanKept
<1>5. ASSUME CallEnds(c)
      PROVE  Scanned(c)'
  <2>1. /\ reply[c] \in Replies
        /\ pc'[c] = "connected" /\ reply'[c] = None /\ outcome'[c] = Finished(c)
    BY <1>5 DEF CallEnds, Goto, TypeOK
  <2>2. ThisCall(c, "devices")' = ThisCall(c, "devices")
    BY <1>5 DEF CallEnds, ThisCall
  <2>3. ASSUME Finished(c) = "ok", ThisCall(c, "devices") \in done
        PROVE  devices'[c] = DevicesIn(found[c])
    <3>1. Succeeded(reply[c])
      BY <2>1, <2>3 DEF Finished, CallFailed, Translate, Succeeded
    <3>2. found[c] = reply[c].raw
      BY <1>2, <1>5, <2>3, <3>1 DEF Scanned, CallEnds
    <3>3. PICK entries \in SetToSeqs(reply[c].raw) :
                devices' = [devices EXCEPT ![c] = DecodeDevices(entries)]
      BY <1>5, <2>3 DEF CallEnds
    <3>4. reply[c].raw \in Dictionaries
      BY <2>1 DEF Replies
    <3> QED
      BY <3>2, <3>3, <3>4, Decoded, UniqueDictionaries DEF TypeOK
  <2> QED
    BY <1>2, <2>1, <2>2, <2>3 DEF Scanned
<1>6. ASSUME CheckEnds(c)
      PROVE  Scanned(c)'
  <2>1. pc[c] = "checking" /\ pc'[c] = "connected" /\ reply'[c] = None /\ made' = made
    BY <1>6 DEF CheckEnds, Goto, TypeOK
  <2>2. ThisCall(c, "devices") \notin done
    BY <1>2, <2>1 DEF Scanned, ThisCall
  <2> QED
    BY <1>2, <2>1, <2>2 DEF Scanned, ThisCall
<1>7. Scanned(c)'
  BY <1>3, <1>4, <1>5, <1>6 DEF Caller, Change, DevicesGet, CheckAvailable, Operations
<1> QED
  BY <1>1, <1>7 DEF ScanInv

LEMMA MechanismScans ==
    ASSUME TypeOK, MechanismInv, ScanInv, Mechanism
    PROVE  ScanInv'
<1> USE CupsPkAssumption
<1>1. PICK r \in bus, a \in Replies : Deals(r, a)
  BY MechanismDeals
<1>2. /\ done' \in {done, done \cup {r}} /\ UNCHANGED <<pc, made, outcome, devices>>
      /\ r \in Calls /\ r.from \in Callers
  BY <1>1 DEF Deals, callerVars, TypeOK, Calls
<1>3. ASSUME NEW c \in Callers
      PROVE  Scanned(c)'
  <2>1. Scanned(c) /\ Told(c)
    BY DEF ScanInv, MechanismInv
  <2>2. ThisCall(c, "devices")' = ThisCall(c, "devices")
    BY <1>2 DEF ThisCall
  <2>3. r.from = c /\ r.nr = made[c] => ~Done(c)
    BY DEF Done, ThisCall, MechanismInv, Numbered
  <2>4. pc[c] = "checking" => \A s \in done' : s.from = c /\ s.nr = made[c] => s.op = "ping"
    BY <1>2, <2>1 DEF Scanned, Told
  <2>5. CASE r.from = c /\ Waiting(r)
    <3>1. reply'[c] = a /\ (Succeeded(a) => found'[c] = a.raw)
      BY <1>1, <2>5 DEF Deals, Succeeded, TypeOK
    <3>2. outcome'[c] # "ok"
      BY <1>2, <2>1, <2>3, <2>5 DEF Waiting, Told
    <3> QED
      BY <1>2, <2>2, <2>4, <3>1, <3>2 DEF Scanned
  <2>6. CASE ~(r.from = c /\ Waiting(r))
    <3>1. reply'[c] = reply[c] /\ found'[c] = found[c]
      BY <1>1, <2>6 DEF Deals, TypeOK
    <3>2. CASE r = ThisCall(c, "devices")
      <4>1. reply[c] = None
        BY <2>1, <3>2 DEF Told, Operations
      <4>2. outcome[c] # "ok"
        BY <2>1, <2>3, <3>2 DEF Told, ThisCall
      <4> QED
        BY <1>2, <2>2, <2>4, <3>1, <4>1, <4>2 DEF Scanned
    <3>3. CASE r # ThisCall(c, "devices")
      <4>1. ThisCall(c, "devices") \in done' => ThisCall(c, "devices") \in done
        BY <1>2, <3>3
      <4> QED
        BY <1>2, <2>1, <2>2, <2>4, <3>1, <4>1 DEF Scanned
    <3> QED
      BY <3>2, <3>3
  <2> QED
    BY <2>5, <2>6
<1> QED
  BY <1>3 DEF ScanInv

\* What a caller is told, or about to be told, is so, and what it is given is
\* what was found.
THEOREM Invariance == Spec => [](TypeOK /\ MechanismInv /\ ScanInv)
<1>1. Init => TypeOK /\ MechanismInv /\ ScanInv
  BY InitType, InitTold, InitScanned
<1>2. TypeOK /\ MechanismInv /\ ScanInv /\ [Next]_vars => (TypeOK /\ MechanismInv /\ ScanInv)'
  <2>1. MechanismInv /\ UNCHANGED vars => MechanismInv'
    BY DEF vars, mechanismVars, callerVars, MechanismInv, Numbered, Told, Done, ThisCall
  <2>2. ScanInv /\ UNCHANGED vars => ScanInv'
    BY DEF vars, mechanismVars, callerVars, ScanInv, Scanned, Succeeded, ThisCall
  <2>3. ScanInv /\ Package => ScanInv'
    BY DEF Package, callerVars, ScanInv, Scanned, Succeeded, ThisCall
  <2> QED
    BY <2>1, <2>2, <2>3, NextType, CallerStep, CallerScans, MechanismKeeps, MechanismScans,
       PackageKeeps DEF Next
<1> QED
  BY <1>1, <1>2, PTL DEF Spec

\* Every variable keeps its type; what devices_get returns is a list of
\* devices that have a URI.
THEOREM TypeCorrect == Spec => []TypeOK
  BY Invariance, PTL

\* devices_get returns the devices that were found, each with all that was said
\* of it, in whatever order the dictionary was gone through.
THEOREM DevicesFound == Spec => []DevicesAreThoseFound
<1>1. ScanInv => DevicesAreThoseFound
  BY DEF ScanInv, Scanned, DevicesAreThoseFound
<1> QED
  BY <1>1, Invariance, PTL

\* A call that returned Ok was carried out.
THEOREM OkIsDone == Spec => []OkMeansDone
<1>1. TypeOK /\ MechanismInv => OkMeansDone
  BY DEF MechanismInv, Told, Done, OkMeansDone
<1> QED
  BY <1>1, Invariance, PTL

\* A call that was not permitted was not carried out, not even in part, and
\* never will be.
THEOREM RefusedIsUntouched == Spec => []RefusedMeansUntouched
<1>1. TypeOK /\ MechanismInv => RefusedMeansUntouched
  BY DEF MechanismInv, Told, Done, RefusedMeansUntouched
<1> QED
  BY <1>1, Invariance, PTL

\* A mechanism that is_available found was there during the call.
THEOREM AvailableIsInstalled == Spec => []AvailableMeansInstalled
<1>1. TypeOK /\ MechanismInv => AvailableMeansInstalled
  BY DEF MechanismInv, Told, AvailableMeansInstalled
<1> QED
  BY <1>1, Invariance, PTL
=============================================================================
