-------------------------- MODULE DeviceDiscovery --------------------------
(***************************************************************************)
(* decode_devices (cups-pk-client/src/device.rs): from the flat dictionary *)
(* of DevicesGet to a list of devices.                                     *)
(*                                                                         *)
(* An entry is [field, index, value].  Its index is None if what follows   *)
(* the last colon of its key is not a number.  No two entries have the     *)
(* same key.  `info' stands for all the descriptive fields.                *)
(***************************************************************************)
EXTENDS Integers, Sequences, FiniteSets, SequencesExt

CONSTANTS
    None,
    Empty       \* the empty string

Fields == {"uri", "info"}
NewDevice == [uri |-> Empty, info |-> Empty]

\* Mutant: an entry of a device whose URI has not come yet is dropped.
PlaceAfterUri(devices, e) ==
    IF e.index # None /\ (e.field = "uri" \/ e.index \in DOMAIN devices)
    THEN LET old == IF e.index \in DOMAIN devices THEN devices[e.index] ELSE NewDevice
             new == IF e.field \in Fields THEN [old EXCEPT ![e.field] = e.value] ELSE old
         IN  [i \in DOMAIN devices \cup {e.index} |->
                IF i = e.index THEN new ELSE devices[i]]
    ELSE devices

\* One turn of the loop: the map of devices by index, after an entry.
Place(devices, e) ==
    IF e.index # None
    THEN LET old == IF e.index \in DOMAIN devices THEN devices[e.index] ELSE NewDevice
             new == IF e.field \in Fields THEN [old EXCEPT ![e.field] = e.value] ELSE old
         IN  [i \in DOMAIN devices \cup {e.index} |->
                IF i = e.index THEN new ELSE devices[i]]
    ELSE devices

\* Mutant: a device without a URI is kept.
AddressableAll(devices) == devices

\* The devices with a URI.
Addressable(devices) ==
    [i \in {j \in DOMAIN devices : devices[j].uri # Empty} |-> devices[i]]

\* What a map holds, in the order of its indices.
IntoValues(map) ==
    LET indices == DOMAIN map
        order == CHOOSE o \in [1..Cardinality(indices) -> indices] :
                    \A m, n \in 1..Cardinality(indices) : m < n => o[m] < o[n]
    IN  [n \in 1..Cardinality(indices) |-> map[order[n]]]

\* The dictionary is gone through in the order of its hash table.
NoDevices == [i \in {} |-> NewDevice]
DecodeDevices(entries) == IntoValues(Addressable(FoldLeft(Place, NoDevices, entries)))

\* What the dictionary says, without an order: the reference.
ValueAt(dictionary, field, i) ==
    IF \E e \in dictionary : e.field = field /\ e.index = i
    THEN (CHOOSE e \in dictionary : e.field = field /\ e.index = i).value
    ELSE Empty

DeviceAt(dictionary, i) == [field \in Fields |-> ValueAt(dictionary, field, i)]

DevicesIn(dictionary) ==
    LET indices == {e.index : e \in {d \in dictionary :
                        d.field = "uri" /\ d.index # None /\ d.value # Empty}}
    IN  IntoValues([i \in indices |-> DeviceAt(dictionary, i)])
=============================================================================
