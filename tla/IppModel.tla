----------------------------- MODULE IppModel ------------------------------
(***************************************************************************)
(* The decoders of ipp-async/src/model.rs and subscription.rs: what a      *)
(* caller is told of a printer, a job, a class, a driver, a document or a  *)
(* notification, given its attribute group.  A decoder returns a sequence  *)
(* of one record, or of none if the group does not decode.                 *)
(*                                                                         *)
(* A keyword is the sequence of its words, a URI the sequence of its       *)
(* segments; the attributes that are only copied stand for one another, so *)
(* a printer has one of the five options that are lists of keywords.       *)
(***************************************************************************)
EXTENDS Attributes, SequencesExt, FiniteSetsExt

\* Severity is ordered.
Report == 0
Warning == 1
Error == 2
Suffix == [error |-> Error, warning |-> Warning, report |-> Report]

\* StateReason::parse: strip_suffix needs a dash before the suffix.
ParseReason(raw) ==
    IF Len(raw) > 1 /\ Last(raw) \in DOMAIN Suffix
    THEN [keyword |-> Front(raw), severity |-> Suffix[Last(raw)]]
    ELSE [keyword |-> raw, severity |-> Report]

\* The keyword `none' means no reasons.
ParseReasons(raws) ==
    LET kept == Kept(raws, {i \in DOMAIN raws : raws[i] # <<"none">>})
    IN  [i \in DOMAIN kept |-> ParseReason(kept[i])]

\* Mutant: the first reason is taken for the worst.
HighestSeverityFirst(reasons) == IF reasons = <<>> THEN None ELSE Head(reasons).severity

\* Printer::highest_severity.
HighestSeverity(reasons) ==
    IF reasons = <<>> THEN None
    ELSE Max({reasons[i].severity : i \in DOMAIN reasons})

\* A negative level is SupplyLevel::Unknown, here None.
Level(n) == IF n < 0 THEN None ELSE Min({n, 100})
Nth(s, i) == IF i \in DOMAIN s THEN s[i] ELSE None

\* Mutant: levels that are not known are dropped before they are paired.
DecodeSuppliesKnown(names, levels, colours) ==
    LET known == Kept(levels, {i \in DOMAIN levels : levels[i] >= 0})
    IN  [i \in 1..Min({Len(names), Len(known)}) |->
            [name |-> names[i], colour |-> Nth(colours, i), level |-> Level(known[i])]]

\* Supply::decode_list: names and levels are paired up to the shorter list.
\* Types and low levels are looked up by index like the colours.
DecodeSupplies(names, levels, colours) ==
    [i \in 1..Min({Len(names), Len(levels)}) |->
        [name |-> names[i], colour |-> Nth(colours, i), level |-> Level(levels[i])]]

\* PrintQuality::from_ipp.
QualityFromIpp(v) == IF v \in 3..5 THEN v ELSE None

\* PrinterOptions::decode.
DecodeOptions(g) ==
    LET codes == Ints(g, "print-quality-supported")
    IN  [media |-> [supported |-> Texts(g, "media-supported"),
                    default |-> TextOf(g, "media-default")],
         quality |-> [supported |-> Kept(codes, {i \in DOMAIN codes :
                                                    QualityFromIpp(codes[i]) # None}),
                      default |-> QualityFromIpp(IntOf(g, "print-quality-default"))]]

\* PrinterState::from_ipp and JobState::from_ipp.
PrinterStateFromIpp(v) == IF v \in 3..5 THEN v ELSE None
JobStateFromIpp(v) == IF v \in 3..9 THEN v ELSE None

DecodePrinter(g) ==
    LET name == TextOf(g, "printer-name")
        state == PrinterStateFromIpp(IntOf(g, "printer-state"))
        uris == Texts(g, "printer-uri-supported")
    IN  IF name = None \/ state = None THEN <<>>
        ELSE <<[name |-> name,
                state |-> state,
                uri |-> IF uris = <<>> THEN <<>> ELSE Head(uris),
                info |-> TextOf(g, "printer-info"),
                reasons |-> ParseReasons(Texts(g, "printer-state-reasons")),
                accepting |-> OrElse(BoolOf(g, "printer-is-accepting-jobs"), TRUE),
                supplies |-> DecodeSupplies(Texts(g, "marker-names"),
                                            Ints(g, "marker-levels"),
                                            Texts(g, "marker-colors")),
                options |-> DecodeOptions(g)]>>

-----------------------------------------------------------------------------
(* Jobs. *)

\* printer_name_from_uri: what follows the last slash, unless it is empty.
PrinterNameFromUri(uri) == IF Last(uri) = "" THEN None ELSE Last(uri)

Positive(n) == IF n # None /\ n > 0 THEN n ELSE None

\* Mutant: a job of no pages has progress.
PagesOfAny(total, done) ==
    IF total = None \/ done = None THEN None ELSE [done |-> done, total |-> total]

\* JobProgress: None is Indeterminate.
Pages(total, done) ==
    IF Positive(total) = None \/ done = None THEN None ELSE [done |-> done, total |-> total]

\* `as f32': the nearest multiple of the distance of floats of that size, the
\* even one of two as near.  Up to 2^24 it changes nothing.
Int32 == {n \in Int : -2147483647 - 1 <= n /\ n <= 2147483647}
Exact == 16777216
Units == {1, 2, 4, 8, 16, 32, 64, 128, 256}
Unit(n) == Min({u \in Units : n \div u < Exact})
NearestFloat(n) ==
    LET u == Unit(n)
        whole == n \div u
        rest == n % u
    IN  u * (IF 2 * rest > u \/ (2 * rest = u /\ whole % 2 = 1) THEN whole + 1 ELSE whole)
AsFloat(n) == IF n < 0 THEN -NearestFloat(-n) ELSE NearestFloat(n)

\* JobProgress::fraction, as the two numbers that are divided, once the quotient
\* is clamped: that it is rounded too takes it to no other side of 0 or 1.
Fraction(progress) ==
    IF progress = None \/ progress.total <= 0 THEN None
    ELSE LET done == AsFloat(progress.done)
             total == AsFloat(progress.total)
         IN  [part |-> Max({0, Min({done, total})}), whole |-> total]

\* The attributes that are only copied are one, the job's name.
DecodeJob(g) ==
    LET id == IntOf(g, "job-id")
        state == JobStateFromIpp(IntOf(g, "job-state"))
        uri == TextOf(g, "job-printer-uri")
        done == IntOf(g, "job-impressions-completed")
    IN  IF id = None \/ state = None THEN <<>>
        ELSE <<[id |-> id,
                state |-> state,
                printer |-> IF uri = None THEN "" ELSE OrElse(PrinterNameFromUri(uri), ""),
                name |-> TextOf(g, "job-name"),
                reasons |-> ParseReasons(Texts(g, "job-state-reasons")),
                progress |-> Pages(IntOf(g, "job-impressions"), done),
                pages_printed |-> Positive(done),
                completed |-> Positive(IntOf(g, "time-at-completed"))]>>

-----------------------------------------------------------------------------
(* Classes, drivers, documents and notifications. *)

DecodeClass(g) ==
    IF TextOf(g, "printer-name") = None THEN <<>>
    ELSE <<[name |-> TextOf(g, "printer-name"), members |-> Texts(g, "member-names")]>>

DecodeDocument(g) ==
    IF IntOf(g, "document-number") = None THEN <<>>
    ELSE <<[number |-> IntOf(g, "document-number"), format |-> TextOf(g, "document-format")]>>

DecodePpd(g) ==
    IF TextOf(g, "ppd-name") = None THEN <<>>
    ELSE <<[name |-> TextOf(g, "ppd-name"),
            device_id |-> OrElse(TextOf(g, "ppd-device-id"), "")]>>

DecodeNotification(g) ==
    IF IntOf(g, "notify-subscription-id") = None THEN <<>>
    ELSE <<[subscription_id |-> IntOf(g, "notify-subscription-id"),
            event |-> OrElse(TextOf(g, "notify-subscribed-event"), ""),
            sequence |-> IntOf(g, "notify-sequence-number")]>>

\* Mutant: one group that does not decode loses the others.
DecodeAllOrNothing(decoded) ==
    IF \E i \in DOMAIN decoded : decoded[i] = <<>> THEN <<>> ELSE FlattenSeq(decoded)

\* decode_printers, decode_jobs, decode_all and the loops like them: of what
\* the groups of a reply decode to, those that do not decode are skipped.
DecodeAll(decoded) == FlattenSeq(decoded)
=============================================================================
