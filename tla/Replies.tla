------------------------------ MODULE Replies ------------------------------
(***************************************************************************)
(* What a caller is told of a thing - a printer, a job, a class, a driver, *)
(* a document or a notification - against what the thing is.  The peer     *)
(* puts it into an attribute group, as far as it was asked for; attributes *)
(* are then lost or arrive as something else, as far as real printers do   *)
(* that; and the client decodes the group, along with that of a neighbour. *)
(***************************************************************************)
EXTENDS IppModel, FiniteSets

CONSTANTS
    Words,      \* what texts and keywords are made of
    Things,     \* what there is to tell of: records with a kind
    Neighbour,  \* a second thing of each kind, in the same reply
    MaxDamage   \* bound on the attributes damaged

VARIABLES
    thing,      \* what the thing is
    reply,      \* the groups that tell of it and of its neighbour, once fetched
    damage,     \* what became of its attributes, as pairs <<name, how>>
    read        \* what the caller gets, or None

vars == <<thing, reply, damage, read>>

-----------------------------------------------------------------------------
(* What there is to tell of.  A code need not be one that is registered.   *)

\* A reason is bare when it has no suffix; there is then nothing in its words
\* that reads as one.
Reason ==
    {r \in [words : Seq(Words), severity : Report..Error, bare : BOOLEAN] :
        /\ r.words # <<>>
        /\ r.bare => /\ r.severity = Report /\ r.words # <<"none">>
                     /\ Len(r.words) > 1 => r.words[Len(r.words)] \notin DOMAIN Suffix}
Marker == [name : Words, level : Int, colour : Words]

Printers ==
    [kind : {"printer"}, name : Words, code : Int, uris : Seq(Seq(Words)),
     info : Words \cup {None}, reasons : Seq(Reason), accepting : BOOLEAN,
     markers : Seq(Marker), media : Seq(Words), qualities : Seq(Int)]
Jobs ==
    [kind : {"job"}, id : Int, code : Int, uri : Seq(Words) \ {<<>>},
     name : Words \cup {None}, total : Int32 \cup {None}, done : Int32 \cup {None},
     completed : Int \cup {None}, reasons : Seq(Reason)]
Classes == [kind : {"class"}, name : Words, members : Seq(Words)]
Drivers == [kind : {"driver"}, name : Words, device_id : Words]
Documents == [kind : {"document"}, number : Int, format : Words \cup {None}]
Notifications ==
    [kind : {"notification"}, subscription_id : Int, event : Words,
     sequence : Int \cup {None}]
Thing == Printers \cup Jobs \cup Classes \cup Drivers \cup Documents \cup Notifications

Registry == [printer |-> {3, 4, 5}, job |-> 3..9]
Tellable(t) == t.kind \in DOMAIN Registry => t.code \in Registry[t.kind]

ASSUME WordsAssumption ==
    /\ {"none"} \cup DOMAIN Suffix \subseteq Words
    /\ None \notin Words \cup Int \cup BOOLEAN \cup Seq(Words)
    /\ None \notin [part : Int, whole : Int]

\* The neighbour is of the same kind and can be told of.
ASSUME ThingsAssumption ==
    \A t \in Things :
        /\ t \in Thing
        /\ Neighbour[t.kind] \in Thing
        /\ Neighbour[t.kind].kind = t.kind /\ Tellable(Neighbour[t.kind])

ASSUME DamageAssumption == MaxDamage \in Nat

-----------------------------------------------------------------------------
(* The peer.  An attribute of no values is not sent, one of a single value *)
(* is sent as that value.                                                  *)

One(tag, x) == IF x = None THEN <<>> ELSE <<Value(tag, x)>>
Many(tag, s) == [i \in DOMAIN s |-> Value(tag, s[i])]
Bundle(vs) == IF Len(vs) = 1 THEN vs[1] ELSE Value("array", vs)

Spoken(reason) ==
    IF reason.bare THEN reason.words
    ELSE Append(reason.words, CHOOSE w \in DOMAIN Suffix : Suffix[w] = reason.severity)
Reasons(t) ==
    Many("text", IF t.reasons = <<>> THEN << <<"none">> >>
                 ELSE [i \in DOMAIN t.reasons |-> Spoken(t.reasons[i])])
MarkersOf(t, tag, field) == [i \in DOMAIN t.markers |-> Value(tag, t.markers[i][field])]

PrinterSays(t, n) ==
    CASE n = "printer-name" -> One("text", t.name)
      [] n = "printer-uri-supported" -> Many("text", t.uris)
      [] n = "printer-info" -> One("text", t.info)
      [] n = "printer-state" -> One("int", t.code)
      [] n = "printer-state-reasons" -> Reasons(t)
      [] n = "printer-is-accepting-jobs" -> One("bool", t.accepting)
      [] n = "marker-names" -> MarkersOf(t, "text", "name")
      [] n = "marker-levels" -> MarkersOf(t, "int", "level")
      [] n = "marker-colors" -> MarkersOf(t, "text", "colour")
      [] n = "media-supported" -> Many("text", t.media)
      [] n = "media-default" -> One("text", Nth(t.media, 1))
      [] n = "print-quality-supported" -> Many("int", t.qualities)
      [] n = "print-quality-default" -> One("int", Nth(t.qualities, 1))
      [] OTHER -> <<>>

JobSays(t, n) ==
    CASE n = "job-id" -> One("int", t.id)
      [] n = "job-state" -> One("int", t.code)
      [] n = "job-printer-uri" -> One("text", t.uri)
      [] n = "job-name" -> One("text", t.name)
      [] n = "job-state-reasons" -> Reasons(t)
      [] n = "job-impressions" -> One("int", t.total)
      [] n = "job-impressions-completed" -> One("int", t.done)
      [] n = "time-at-completed" -> One("int", t.completed)
      [] OTHER -> <<>>

ClassSays(t, n) ==
    CASE n = "printer-name" -> One("text", t.name)
      [] n = "member-names" -> Many("text", t.members)
      [] OTHER -> <<>>

DriverSays(t, n) ==
    CASE n = "ppd-name" -> One("text", t.name)
      [] n = "ppd-device-id" -> One("text", t.device_id)
      [] OTHER -> <<>>

DocumentSays(t, n) ==
    CASE n = "document-number" -> One("int", t.number)
      [] n = "document-format" -> One("text", t.format)
      [] OTHER -> <<>>

NotificationSays(t, n) ==
    CASE n = "notify-subscription-id" -> One("int", t.subscription_id)
      [] n = "notify-subscribed-event" -> One("text", t.event)
      [] n = "notify-sequence-number" -> One("int", t.sequence)
      [] OTHER -> <<>>

Says(t, n) ==
    CASE t.kind = "printer" -> PrinterSays(t, n)
      [] t.kind = "job" -> JobSays(t, n)
      [] t.kind = "class" -> ClassSays(t, n)
      [] t.kind = "driver" -> DriverSays(t, n)
      [] t.kind = "document" -> DocumentSays(t, n)
      [] t.kind = "notification" -> NotificationSays(t, n)

\* Only what was asked for is answered.
Sent(t, requested) == [n \in {m \in requested : Says(t, m) # <<>>} |-> Bundle(Says(t, n))]

-----------------------------------------------------------------------------
(* The client. *)

PRINTER_ATTRIBUTES ==
    {"printer-name", "printer-uri-supported", "printer-info", "printer-state",
     "printer-state-reasons", "printer-is-accepting-jobs", "marker-names",
     "marker-levels", "marker-colors", "media-supported", "media-default",
     "print-quality-supported", "print-quality-default"}

JOB_ATTRIBUTES ==
    {"job-id", "job-state", "job-state-reasons", "job-name", "job-printer-uri",
     "time-at-completed", "job-impressions", "job-impressions-completed"}

CLASS_ATTRIBUTES == {"printer-name", "member-names"}
PPD_ATTRIBUTES == {"ppd-name", "ppd-device-id"}

\* Get-Documents and Get-Notifications name no attributes, and get them all.
DOCUMENT_ATTRIBUTES == {"document-number", "document-format"}
NOTIFICATION_ATTRIBUTES ==
    {"notify-subscription-id", "notify-subscribed-event", "notify-sequence-number"}

RequestAttributes(t) ==
    CASE t.kind = "printer" -> PRINTER_ATTRIBUTES
      [] t.kind = "job" -> JOB_ATTRIBUTES
      [] t.kind = "class" -> CLASS_ATTRIBUTES
      [] t.kind = "driver" -> PPD_ATTRIBUTES
      [] t.kind = "document" -> DOCUMENT_ATTRIBUTES
      [] t.kind = "notification" -> NOTIFICATION_ATTRIBUTES

Decode(kind, g) ==
    CASE kind = "printer" -> DecodePrinter(g)
      [] kind = "job" -> DecodeJob(g)
      [] kind = "class" -> DecodeClass(g)
      [] kind = "driver" -> DecodePpd(g)
      [] kind = "document" -> DecodeDocument(g)
      [] kind = "notification" -> DecodeNotification(g)

-----------------------------------------------------------------------------
Init ==
    /\ thing \in Things
    /\ reply = <<>> /\ damage = {} /\ read = None

Fetch ==
    /\ reply = <<>>
    /\ LET other == Neighbour[thing.kind]
       IN  reply' = <<Sent(thing, RequestAttributes(thing)),
                      Sent(other, RequestAttributes(other))>>
    /\ UNCHANGED <<thing, damage, read>>

Without(g, n) == [m \in DOMAIN g \ {n} |-> g[m]]
Garbled == Value("other", None)

\* An attribute is not there, is of another type, has an item of another
\* type, or has lost its last items.
Worse(g, n, how) ==
    CASE how = "missing" -> {Without(g, n)}
      [] how = "garbled" -> {[g EXCEPT ![n] = Garbled]}
      [] how = "item" -> {[g EXCEPT ![n].v[i] = Garbled] : i \in DOMAIN g[n].v}
      [] how = "short" -> {[g EXCEPT ![n] = Bundle(Front(@.v))]}

Damage(n, how) ==
    /\ reply # <<>> /\ read = None /\ Cardinality(damage) < MaxDamage
    /\ n \in DOMAIN reply[1] /\ \A d \in damage : d[1] # n
    /\ how \in {"item", "short"} => reply[1][n].tag = "array"
    /\ \E g \in Worse(reply[1], n, how) : reply' = <<g, reply[2]>>
    /\ damage' = damage \cup {<<n, how>>}
    /\ UNCHANGED <<thing, read>>

Read ==
    /\ reply # <<>> /\ read = None
    /\ read' = DecodeAll([i \in DOMAIN reply |-> Decode(thing.kind, reply[i])])
    /\ UNCHANGED <<thing, reply, damage>>

Hows == {"missing", "garbled", "item", "short"}

Next ==
    \/ Fetch
    \/ \E n \in RequestAttributes(thing), how \in Hows : Damage(n, how)
    \/ Read

Spec == Init /\ [][Next]_vars

-----------------------------------------------------------------------------
(* What a caller ought to be told, from the thing itself. *)

SeverityOf(reasons) == [i \in DOMAIN reasons |->
    [keyword |-> reasons[i].words, severity |-> reasons[i].severity]]
Registered(qualities) == Kept(qualities, {i \in DOMAIN qualities : qualities[i] \in {3, 4, 5}})
Known(n) == IF n # None /\ n > 0 THEN n ELSE None

Faithful(t) ==
    CASE t.kind = "printer" ->
            [name |-> t.name, state |-> t.code, info |-> t.info,
             uri |-> IF t.uris = <<>> THEN <<>> ELSE t.uris[1],
             reasons |-> SeverityOf(t.reasons), accepting |-> t.accepting,
             supplies |-> [i \in DOMAIN t.markers |->
                [name |-> t.markers[i].name, colour |-> t.markers[i].colour,
                 level |-> CASE t.markers[i].level < 0 -> None
                             [] t.markers[i].level > 100 -> 100
                             [] OTHER -> t.markers[i].level]],
             options |->
                [media |-> [supported |-> t.media, default |-> Nth(t.media, 1)],
                 quality |-> [supported |-> Registered(t.qualities),
                              default |-> IF Nth(t.qualities, 1) \in {3, 4, 5}
                                          THEN t.qualities[1] ELSE None]]]
      [] t.kind = "job" ->
            [id |-> t.id, state |-> t.code, name |-> t.name,
             printer |-> t.uri[Len(t.uri)], reasons |-> SeverityOf(t.reasons),
             progress |-> IF t.done # None /\ Known(t.total) # None
                          THEN [done |-> t.done, total |-> t.total] ELSE None,
             pages_printed |-> Known(t.done), completed |-> Known(t.completed)]
      [] OTHER -> [f \in DOMAIN t \ {"kind"} |-> t[f]]

\* The attributes without which nothing is told of a thing.
Vital == {"printer-name", "printer-state", "job-id", "job-state", "ppd-name",
          "document-number", "notify-subscription-id"}

\* The fields that come from an attribute.
Feeds(n) ==
    CASE n = "printer-uri-supported" -> {"uri"}
      [] n = "printer-info" -> {"info"}
      [] n \in {"printer-state-reasons", "job-state-reasons"} -> {"reasons"}
      [] n = "printer-is-accepting-jobs" -> {"accepting"}
      [] n \in {"marker-names", "marker-levels", "marker-colors"} -> {"supplies"}
      [] n \in {"media-supported", "media-default", "print-quality-supported",
                "print-quality-default"} -> {"options"}
      [] n = "job-printer-uri" -> {"printer"}
      [] n = "job-name" -> {"name"}
      [] n = "job-impressions" -> {"progress"}
      [] n = "job-impressions-completed" -> {"progress", "pages_printed"}
      [] n = "time-at-completed" -> {"completed"}
      [] n = "member-names" -> {"members"}
      [] n = "ppd-device-id" -> {"device_id"}
      [] n = "document-format" -> {"format"}
      [] n = "notify-subscribed-event" -> {"event"}
      [] n = "notify-sequence-number" -> {"sequence"}
      [] OTHER -> {}

Damaged == {d[1] : d \in damage}
Told == read # None /\ Len(read) = 2

\* Reads what it is told: one element for each thing that can be told of.
TypeOK ==
    /\ thing \in Things
    /\ Cardinality(damage) <= MaxDamage
    /\ read # None => Len(read) \in 1..2

\* "One bad attribute never blanks the popup": a neighbour is told of as it
\* is whatever becomes of the thing; the thing is left out only for a vital
\* attribute or an unregistered state; and every field that does not come
\* from a damaged attribute is true.
DamageStaysLocal ==
    read # None =>
        /\ read[Len(read)] = Faithful(Neighbour[thing.kind])
        /\ Told <=> Tellable(thing) /\ Damaged \cap Vital = {}
        /\ Told => \A f \in DOMAIN Faithful(thing) \ UNION {Feeds(n) : n \in Damaged} :
                        read[1][f] = Faithful(thing)[f]

\* Lists that are missing or cut short shorten what is told of the supplies,
\* and never give a supply the level of another.  An item of another type
\* does: it is left out, and the items after it move up.
SuppliesPaired ==
    Told /\ thing.kind = "printer"
    /\ (\A d \in damage : d[2] = "item" => d[1] \notin {"marker-names", "marker-levels"}) =>
        \A i \in DOMAIN read[1].supplies :
            LET supply == read[1].supplies[i]
                marker == Faithful(thing).supplies[i]
            IN  supply.name = marker.name /\ supply.level = marker.level

\* The worst of a printer's reasons is told as bad as it is, whatever form the
\* printer gives its keywords and whatever else it says, `none' included.
WorstReasonTold ==
    Told /\ thing.kind \in {"printer", "job"}
    /\ Damaged \cap {"printer-state-reasons", "job-state-reasons"} = {} =>
        HighestSeverity(read[1].reasons) =
            IF thing.reasons = <<>> THEN None
            ELSE CHOOSE s \in Report..Error :
                    /\ \E i \in DOMAIN thing.reasons : thing.reasons[i].severity = s
                    /\ \A i \in DOMAIN thing.reasons : thing.reasons[i].severity <= s

\* Progress that is told is between nothing and all of it: nothing exactly when
\* no page is done, and all of it when no page is left - and not before, but for
\* a job of more pages than a float can count.
ProgressSensible ==
    Told /\ thing.kind = "job" =>
        LET p == read[1].progress
            f == Fraction(p)
        IN  p # None =>
                /\ f # None /\ 0 <= f.part /\ f.part <= f.whole /\ 0 < f.whole
                /\ f.part = 0 <=> p.done <= 0
                /\ p.done >= p.total => f.part = f.whole
                /\ f.part = f.whole /\ p.total <= Exact => p.done >= p.total
=============================================================================
