----------------------------- MODULE MCReplies -----------------------------
(***************************************************************************)
(* Small instances of Replies for TLC.                                     *)
(***************************************************************************)
EXTENDS Replies, TLC

Low == [words |-> <<"toner", "low">>, severity |-> Warning, bare |-> FALSE]
Empty == [words |-> <<"media", "empty">>, severity |-> Error, bare |-> FALSE]
Paused == [words |-> <<"paused">>, severity |-> Report, bare |-> TRUE]
Moving == [words |-> <<"moving">>, severity |-> Report, bare |-> FALSE]
AnyWord == STRING
ReasonLists == {<<>>, <<Paused>>, <<Low, Empty>>, <<Empty, Moving, Low>>}

AMarker(name, level, colour) == [name |-> name, level |-> level, colour |-> colour]
MarkerLists ==
    {<<>>, <<AMarker("black", 40, "k")>>,
     <<AMarker("black", -2, "k"), AMarker("cyan", 130, "c"), AMarker("waste", 7, "w")>>}

APrinter(code, uris, reasons, markers, media) ==
    [kind |-> "printer", name |-> "laser", code |-> code, uris |-> uris,
     info |-> "by the door", reasons |-> reasons, accepting |-> FALSE,
     markers |-> markers, media |-> media, qualities |-> <<4, 9, 3>>]

ThePrinters ==
    {APrinter(code, uris, reasons, markers, <<"a4", "letter">>) :
        code \in {3, 99}, uris \in {<<>>, << <<"ipp", "a">> >>, << <<"ipp", "a">>, <<"ipps", "a">> >>},
        reasons \in ReasonLists, markers \in MarkerLists}

AJob(code, uri, total, done, completed, reasons) ==
    [kind |-> "job", id |-> 7, code |-> code, uri |-> uri, name |-> "report",
     total |-> total, done |-> done, completed |-> completed, reasons |-> reasons]

\* Counts about 2^24, from where on not every integer is a float.
LargeCounts == {16777215, 16777216, 16777217}

TheJobs ==
    {AJob(5, <<"printers", "laser">>, total, done, None, <<>>) :
        total \in LargeCounts, done \in LargeCounts} \cup
    {AJob(code, uri, total, done, completed, reasons) :
        code \in {5, 9, 99}, uri \in {<<"printers", "laser">>, <<"printers", "">>},
        total \in {None, 0, 4}, done \in {None, -1, 0, 3, 7}, completed \in {None, 0, 12},
        reasons \in {<<>>, <<Low>>}}

Small ==
    [class |-> [kind |-> "class", name |-> "floor", members |-> <<"laser", "ink">>],
     driver |-> [kind |-> "driver", name |-> "ps", device_id |-> "mfg"],
     document |-> [kind |-> "document", number |-> 1, format |-> "pdf"],
     notification |->
        [kind |-> "notification", subscription_id |-> 3, event |-> "job-created",
         sequence |-> 8]]

TheThings == ThePrinters \cup TheJobs \cup {Small[k] : k \in DOMAIN Small}
TheNeighbour ==
    [printer |-> APrinter(4, << <<"ipp", "b">> >>, <<Low>>, <<AMarker("red", 9, "r")>>, <<"a4">>),
     job |-> AJob(5, <<"printers", "ink">>, 4, 2, None, <<>>)] @@ Small
=============================================================================
