# A formal model of ipp-client

`ipp-client` is two Rust crates: `ipp-async`, an async IPP client for CUPS and
for printers reached directly, with a stream of changes for a desktop applet,
and `cups-pk-client`, a D-Bus client for the `cups-pk-helper` mechanism. This
directory holds TLA+ models of the parts where order, failure and concurrency
matter, the TLC configurations that check them on small instances, and proofs,
checked by TLAPS, that hold for every instance.

    tlc -config stream.cfg MCEventStream      # any run: its module and its .cfg
    tlapm EventStreamProofs.tla               # any of the modules named ...Proofs

## The system

| Component | State it keeps | Operations | Hard because |
|---|---|---|---|
| Event stream, `IppClient::events`, `snapshot`, `Snapshot::diff`, `backoff_after` | the snapshot told last (`previous`), the retry delay | poll, diff, yield, sleep, fail, recover | the daemon moves between the two requests of a snapshot; failures at either; the consumer must never fall out of step |
| Default printer, `IppClient::default_printer`, `lpoptions` | `default_cache`, shared by all tasks of a client | resolve, invalidate | the mutex is not held across the request: calls interleave with each other and with the invalidation |
| Decoding, `model.rs`, `attrs.rs` | none | decode a printer, a job, supplies, reasons, options, a class, a driver, a document, a notification | real printers leave attributes out, send them as another type or cut lists short; a list of one arrives as a scalar; a group that does not decode is skipped, which the stream sees as a removal |
| Submission, `print_stream_at`, `print_file` | a job id, between two requests | Create-Job, Send-Document, Cancel-Job on failure | the second request fails; replies are lost; requests arrive late; the caller drops the future |
| Job handle, `IppJob` | the job id, the `closed` flag | create, add document, close, cancel, drop | the flag must agree with a printer it cannot see |
| Job lookup, `job` | none | ask how a job ended | "gone" must be told from "refused" and "unreachable"; "undecodable" looks the same as "gone" |
| Queue and job operations | none | cancel, hold, move, pause, disable, purge, `print_bytes`, ... | operation codes written by hand; a call that was given up may still be carried out |
| Subscriptions | none (the printer keeps them) | subscribe, renew, read, collect, cancel | they expire while requests are lost or late; lease conversion, zero and a missing lease meaning "no expiry"; collecting twice |
| Client construction, errors | configuration | build, `is_certificate_error` | there is no request timeout unless the caller sets one; a rejected certificate arrives several causes deep, beside every other way a connection fails |
| `CupsPk` | a D-Bus proxy | one call per operation | two layers of failure |
| Device discovery, `decode_devices` | none | fold a hash map into devices | the order of the map differs from run to run |

They meet in few places. `events` calls `snapshot`, which calls `printers` and
then `jobs`; `printers` begins with `default_printer`, which reads and writes
the cache that other tasks use too and that `events` clears. Everything else
shares only the daemon. No part persists anything, so there is no crash
recovery: a program that restarts begins with a full reload.

What makes each correct: the **event stream** must lose no change and tell none
twice, whatever fails and when, start over with a full reload after an error,
and converge; **default_printer** must not use an answer from before an outage
for the reload after it; **print_stream_at** must say Ok only of a job that has
the document, and leave no open job behind when it fails; **IppJob** must not
believe a job closed that the printer still holds open; a **subscription** must
live as long as the lease the caller was told, and no longer than it asked for
one; a **queue or job operation** must be carried out once at most, as it was
meant, and Ok and refusals must be reliable; **decoding** must let a damaged
attribute spoil nothing but what comes from it; **CupsPk** must not say Ok of what was not done, nor "not permitted" of what
was.

## Modules

| Module | Models | Kind |
|---|---|---|
| `IppDecode` | `PrinterState::from_ipp`, `JobState::from_ipp`, `decode_printers`, `decode_jobs` | operators |
| `Snapshot` | `events.rs`: the events, `Snapshot::diff`, `POLL_INTERVAL`, `backoff_after`, and how a consumer applies an event | operators |
| `PrintServer` | cupsd, seen through the client's requests (not in the repository) | environment |
| `DefaultPrinter` | `default_printer`, `server_default`, `default_cache`, `lpoptions.rs` | component |
| `EventStream` | `events`, `snapshot`, `printers`, `jobs`, composed with the three above | component, composition |
| `EventFeed` | what the documentation of `PrinterEvent` promises a consumer | abstract specification |
| `EventStreamHistory` | `EventStream` and a record of the past | history variables |
| `IppSend` | `IppClient::send`, `check_status`, and requests that are lost or late | component |
| `JobServer` | an IPP printer's jobs (the printer is not in the repository) | environment |
| `PrintStream` | `print_stream_at`, `decode_job_id`, `print_file` | component |
| `JobHandle` | `create_job`, `IppJob` | component |
| `Subscription` | `subscribe`, `subscription`, `renew_subscription`, `notifications`, `cancel_subscription`, `subscription.rs`, and the printer that grants leases | component, with its environment |
| `Attributes` | `attrs.rs` | operators |
| `IppModel` | the decoders of `model.rs` and `subscription.rs` | operators |
| `Replies` | what each request asks for, the peer's answer with damaged attributes, and what the caller is told | component, with its environment |
| `RemoteCalls` | what the documentation of an operation promises its caller | abstract specification |
| `QueueControl` | the operations that are one request, `job`, `IppClientBuilder`, `error.rs`, and the daemon | component, with its environment |
| `DeviceDiscovery` | `decode_devices` | operators |
| `CupsPk` | `cups-pk-client`, with the mechanism, polkit and D-Bus | component, with its environment |
| `EventStreamProofs` | `EventStream` and `EventStreamHistory` | theorems |
| `PrintStreamProofs`, `JobHandleProofs`, `SubscriptionProofs`, `RepliesProofs`, `QueueControlProofs`, `CupsPkProofs` | the module each is named after | theorems |
| `JobServerProofs` | `JobServer` and `IppSend` | lemmas of the two modules that use them |
| `MC...` | instances for TLC | |

### EventStream and the code

`events` is an `async_stream` generator: it runs from one `await` or `yield` to
the next, so one action stands for one such stretch.

| Action | Code |
|---|---|
| `BeginPoll` | the top of the loop: `if previous.is_none()` the cache is invalidated |
| `ResolveDefault` (`BeginCall`, `ServerAnswers`, `AskFails`, `Store`, `Return`) | `default_printer`: reading the cache and lpoptions, the request, writing the cache |
| `ListPrinters` | CUPS-Get-Printers is answered and decoded |
| `ListJobs` | Get-Jobs is answered: the snapshot is complete, `backoff` is reset, `previous.take()`, `diff` |
| `YieldEvent` | one `yield Ok(event)`, and the consumer applies it |
| `Settle` | `previous = Some(current)` and the sleep of `POLL_INTERVAL` |
| `RequestFails` | either request fails: `previous = None`, `yield Err` |
| `BackOff` | `backoff_after`, and the sleep |
| `Wake` | the sleep ends |
| `Reopen` | the stream is dropped at a suspension point and `events()` called again |

`current` is the local of that name. It is built in two steps, because `snapshot`
makes two requests; every action of the daemon may happen in between.
`pending` is what is left of the vector `diff` returned. `diff` returns it in
the order of the reply's groups, which CUPS does not fix, so the model keeps a
set and the order between kinds of event that the code does fix (`Rank`,
`Foremost`): all removals of jobs, then jobs added and changed, then removals of
printers, then printers changed. `view` and `live` belong to the consumer: the
state it gets by applying every event, and whether it has had a full reload
since the last error.

The attributes of a queue or a job are abstracted to one integer, its state
code: it decides whether the group decodes (99 does not), and two groups are
equal when their codes are, which is all `diff` looks at. The other attributes
of a printer can make its decoding fail too (a missing name) or make it differ,
with the same effect as a code. A file of lpoptions is abstracted to the
destination it names.

### PrintStream, JobHandle and the code

`IppSend` has a wire: a request that was posted stays on it until the printer
processes it, and a caller may give up (`Fails`: a transport error, a timeout)
before the request is processed, after it, or after the reply was lost. So a
Send-Document may be processed after the Cancel-Job sent because of it. The
printer may refuse any request, drop an open job after its own timeout, and
answer Create-Job without a job id.

In `PrintStream` each action is one stretch of `print_stream_at` between two
awaits; `BeginFails` is everything that can fail before the first request, such as
`print_file` not opening its file, and `BuildFails` is the `?` after
`SendDocument::new`. `Drop` is the caller dropping the future.
In `JobHandle` a caller has one handle, and, since `add_document` borrows it
mutably and `close` and `cancel` consume it, one call under way.

### Subscription and the code

Each call is two or three actions: `Begin...` builds and sends the request, and
the call ends with the reply (`Subscribed`, `Renewed`, `HasRead`, `Collected`,
`Cancelled`) or without (`...Fails`, which is also the caller dropping the
future). `LeaseAttribute` is the code that puts a lease into a request,
`as_secs() as i32` with the wrap of an i32 whose width is a constant, and
`DecodedLease` the one that reads it back: a reply may have no lease, or no integer for
one, and then it says `None` as for an endless one. The printer (`Grant...`, `Report`,
`Deliver`, `End`, `Refuse`, `Capture`, `Forget`) may grant any lease, only not an
endless one to who asks for some time; it may drop the oldest events at any
time. Time is a `Tick` that makes leases shorter, so no clock grows.
`sure` is not in the code: it is how long a caller may count on its subscription
who goes by nothing but what the calls returned, `Forever` when they said `None`, and
it is there for `LeaseIsKept`, which claims nothing of `Forever`. A renewal returns `Ok(())` and
no lease, so that the caller counts on nothing from then on until it reads the
subscription. `meant` is what the caller asked for before the conversion.

### QueueControl and the code

All these operations build a request and send it, so a call is two actions:
`Call`, or `CallInVain` when the request cannot be built, and one way to end:
`Answered`, `Breaks`, `Mistrusts`, `TimesOut` or `Drop`. They differ in their
operation code (`Opcode`: the tables above it are the ones of the code and of the
`ipp` crate), in what they name (`RawRequest`, `JobActionRequest`,
`MoveJobRequest`) and in how the reply is read (`Result`, `Lookup`). The daemon
goes by the code it receives: `Registry` is the IANA registry of operations and
the CUPS extension, so that a wrong code does something else and succeeds.
`deeds` records, for each call, what the daemon did and for whom. `options` are
what the caller chose and `client` what `build` made of it. A call of any client may
end in any transport error (`Breaks`: refused, reset; `TimesOut`), and one that would
not accept the daemon's certificate may also end there (`Mistrusts`), with the word
several causes deep. `rejected` is not in the code: it records whose last call ended
at a certificate, for `CertificateErrorTold`. The causes of an error are what its text
and those below it are about; that of `CallInVain` may be the name of the queue, as in
`printer_uri`.

`Calls` maps this to `RemoteCalls`: how often a call was carried out is the length
of its record, and every end but an Ok or a refusal is "unknown".

### Replies and the code

`thing` is what the peer has to tell of, `Sent` the group it sends, only with the
attributes it was asked for (`PRINTER_ATTRIBUTES` and so on), `reply` that group and
the neighbour's, and `read` what comes out of `DecodeAll`. Between the two up to
`MaxDamage` attributes are lost, replaced by a value of another type, given an item
of another type, or cut short. A decoder returns a sequence of one record, or of
none where the code returns an error, and `DecodeAll` puts them together. `Kept` is
the `filter_map` of the lists. A keyword is a sequence of its words, so that the
suffix of a state reason is its last word; `Words` is what texts are made of.
`Fraction` is `JobProgress::fraction` as a pair, the two numbers that are divided after
each has become an f32 (`NearestFloat`: integers above 2^24 are rounded to multiples of
2, 4, ..., 256, halves to even).
`Faithful` is the reference: what a caller ought to be told, written from the thing
without looking at attributes.

`SuppliesPaired` leaves one case out. An item of another type in `marker-names` or
`marker-levels` is dropped by `texts` and `ints`, the items after it move up, and
the supplies after it get the level of their neighbour; the warning of
`decode_list` about lists of different lengths is all there is to notice it by.

### CupsPk and the code

`Change` is every operation that changes something: they differ in their
arguments and in nothing the client does. `CallEnds` is
`.map_err(Self::call_failed)?` and `translate`, and for `devices_get` also
`decode_devices`, which is given the entries in every order; `IntoValues` lists what
they make by index, as `into_values` does. `CheckAvailable` and
`CheckEnds` are `is_available` and its ping. The mechanism may be installed or
removed at any time, refuse, answer with a message, carry the call out, or die
before or after doing so.

## Runs

| Run | Instance | Checks |
|---|---|---|
| `stream` | 1 queue, 2 jobs in 2 states, the user's lpoptions file | types; `ViewTracksSnapshot`: between polls the consumer holds exactly the snapshot the next poll is compared with; `EventsFitView`: no event contradicts what the consumer will hold when it comes; `OldLeaveBeforeNewArrive`: "Removals come first"; `FeedRefined`: the stream implements `EventFeed` |
| `queues` | 2 queues, 1 job, 2 tasks | `Telling`, `Waiting`: the inductive invariant of the proofs; `ViewTracksSnapshot`, with a task that resolves the default through the same cache |
| `recovery` | 1 queue that may stop decoding, 1 job, an lpoptions file, 2 tasks, 6 failures | `RetryDelay`: delays of 1, 2, 4, 8, 16, 30, 30 and the start over; `ResyncTrustsNothingOld`: a full reload uses no default, nor the failure to find one, from before the failure, unless another task stores one between the invalidation and the read; `NeverEnds`, `Recovers`, `Converges` |
| `upload` | 3 callers, 3 job ids | `OkMeansSubmitted`, `FailedUploadTakesJobBack`, `AtMostOnce`; `OpenJobsExplained`: a job left open is that of a call that was dropped, could not clean up, or was never told its id, one for each such call |
| `handle` | 2 callers, 2 documents each | `ClosedMeansReleased`, `ConfirmedIsKept` |
| `subscription` | 1 caller, 2 subscriptions, leases of half a second, two and a half seconds and 2^31 seconds (with an i32 of -3 to 2) or none, replies with or without a lease | `LeaseIsKept`: who goes by a lease that `Subscription::lease` names never takes a subscription that is over for a live one; `WholeLeaseExpires`: a lease of one second or more always ends |
| `mechanism` | 1 caller, 2 calls, all dictionaries over 6 keys in every order | `OkMeansDone`, `RefusedMeansUntouched`, `AvailableMeansInstalled`, `DevicesAreThoseFound` |
| `replies` | 72 printers, 549 jobs with counts from -1 to just above 2^24, one of each of the rest, a neighbour in the same reply, 2 damaged attributes | `DamageStaysLocal`: "one bad attribute never blanks the popup", nor a neighbour, nor another field; `SuppliesPaired`; `WorstReasonTold`; `ProgressSensible`: between nothing and all, and all not too early |
| `control` | 1 caller, 2 calls of any of 22 operations, 4 kinds of client, 2 jobs of which one may not decode | `OkMeansDone`: Ok is of the operation, the queue, the job and the user that were meant; `LookupIsTrue`; `CertificateErrorTold`: of the transport errors, those that a certificate was the cause of, and nothing was done then; `ReliableCalls`: it implements `RemoteCalls`; `TimedCallsReturn`: a client with a timeout gets every call back |
| `orphan`, `lease`, `collect` | small ones | see Findings |

**Bounds.** `diff` compares jobs and printers key by key, so two jobs show every
interplay of a removal and an arrival, and two queues every interplay of a
deletion, the move of a job and a change of default. A job changes by its state in `stream` and by
moving to the other queue in `queues`; that a queue stops decoding (`recovery`) differs
from leaving only on the daemon's side, and for a job it is the same filter. Six failures
(`MaxFailures`, where the count stops and the outage goes on) reach the cap of the delay
and pass it. `stream` has the user's lpoptions file and `recovery` the system's. Two tasks suffice for a race on the cache, which is one
word; the second may call any number of times. One caller suffices in `subscription`,
`mechanism` and `control`, since callers share nothing there but the printer or the
mechanism, which may do anything of its own accord; its earlier calls, still under way, are
what it can race with. Two ids let a late Create make a second subscription; two
requests under way (`MaxWire`) are the call of the moment and one that was given
up; one event is enough to be returned twice. Two calls let the first be carried out
during the second. Two damaged attributes are every pair of lists that are read
together; three supplies and three reasons have a first, a middle and a last. The i32 is narrow so that it
wraps within the instance, as the code's does at 2^31. The theorems below need
no bounds at all.

Deadlock is checked in every run but `upload`, `orphan`, `handle`, `mechanism` and
`control`, whose callers make a fixed number of calls, and `replies`, which is over
when the reply was read.

**Fairness.** `FairSpec` has weak fairness of `Poll`, the disjunction of the
stream's own steps. It stands for three things: the runtime polls the task, the
consumer asks for the next item (a stream does nothing unless it is polled), and
a request is answered or fails in the end. The last is a hypothesis and not a
consequence of the code: `with_uri` sets no request timeout, and a daemon that
accepts a connection and never answers stops the stream. `QueueControl` has
weak fairness of `Answered` (the runtime polls the task when its reply is there)
and `TimesOut` (its timer runs out), and none of the daemon. Nothing is assumed of
the daemon, the user or the other tasks; properties that need it say so
(`<>[]up`, a daemon at rest, a consumer that keeps the stream open).

## Proofs

Every theorem is about a module's `Spec`, for every value of its constants that
satisfies the module's named assumptions. These say that `None` is none of
the values it stands beside (a queue, a job id, a request, ...), that codes and
bounds are integers, and little else; those with more to them are named below.
TLC evaluates all of them in every run of the module. An `Invariance` theorem is
the inductive invariant, from which the module's other theorems follow; TLC was
given each of these invariants before it was proved.

| Module | Theorem | Property | |
|---|---|---|---|
| `EventStreamProofs` | `Invariance`, `TypeCorrect` | `TypeOK` | |
| | `NothingLost` | `ViewTracksSnapshot` | |
| | `RestIsDifference`, `NothingElseIsTold` | `Telling`, `Waiting` | |
| | `NoContradiction` | `EventsFitView` | |
| | `RemovalsFirst` | `OldLeaveBeforeNewArrive` | action property |
| | `Refinement` | `FeedRefined` | implements `EventFeed` |
| | `DelaysDouble` | `RetryDelay` | |
| | `ReloadIsFresh` | `ResyncTrustsNothingOld` | any tasks |
| `PrintStreamProofs` | `Invariance`, `TypeCorrect` | `TypeOK` | |
| | `OkIsSubmitted` | `OkMeansSubmitted` | |
| | `UploadTakesJobBack` | `FailedUploadTakesJobBack` | |
| | `DocumentOnce` | `AtMostOnce` | |
| | `OpenAreExplained` | `OpenJobsExplained` | a count |
| `JobHandleProofs` | `Invariance`, `TypeCorrect` | `TypeOK` | |
| | `ClosedIsReleased`, `ConfirmedStays` | `ClosedMeansReleased`, `ConfirmedIsKept` | |
| `SubscriptionProofs` | `Invariance`, `TypeCorrect` | `TypeOK` | |
| | `LeaseKept`, `WholeLeaseEnds` | `LeaseIsKept`, `WholeLeaseExpires` | |
| `QueueControlProofs` | `Invariance`, `TypeCorrect` | `TypeOK` | |
| | `OkIsDone`, `LookupTold` | `OkMeansDone`, `LookupIsTrue` | |
| | `CertificateTold` | `CertificateErrorTold` | |
| | `Reliable` | `ReliableCalls` | implements `RemoteCalls` |
| `RepliesProofs` | `Invariance`, `TypeCorrect` | `TypeOK` | |
| | `DamageIsLocal` | `DamageStaysLocal` | |
| | `PairsKept` | `SuppliesPaired` | |
| | `WorstTold`, `ProgressIsSensible` | `WorstReasonTold`, `ProgressSensible` | |
| `CupsPkProofs` | `Invariance`, `TypeCorrect` | `TypeOK` | |
| | `DevicesFound` | `DevicesAreThoseFound` | any order of the dictionary |
| | `OkIsDone`, `RefusedIsUntouched`, `AvailableIsInstalled` | `OkMeansDone`, `RefusedMeansUntouched`, `AvailableMeansInstalled` | |

**The stream.** Neither `ViewTracksSnapshot` nor `EventsFitView` is inductive:
while a poll is told, the consumer's state is neither the old snapshot nor the
new one. What holds at every moment is `Telling`, that what is left to tell is
exactly `Diff(view, current)`, the difference between what the consumer has *now*
and the snapshot it is told about, or the one full reload. The inductive
invariant is `TypeOK /\ ViewTracksSnapshot /\ Telling /\ Waiting` (`Waiting`: at
any other time nothing is left to tell). Its step is `YieldEvent`, and rests on
`DiffStep`: applying one event `e` of a difference leaves the difference without
`e`, `Diff(Apply(v, e), s) = Diff(v, s) \ {e}`. Together with `NoDiff` (an empty
difference means equal snapshots) this gives `Settle`, and with `DiffFits` (every
event of a difference fits what it is a difference from) `EventsFitView`.
`RemovalsFirst` uses that the yielded event is foremost. The refinement mapping
keeps `view` and `live` and hides everything else.

**The delays, and the reload.** `RetryInv` says at every place of the loop how the
delay goes with the count of failures; between `RequestFails` and `BackOff` the
delay is one step of `backoff_after` behind. The count stops at `MaxFailures`,
which must be past the cap of the delay (`MaxFailuresAssumption`), so that the
step at which it stops is one at which the delay stands still too. `ReloadIsFresh`
is of a client that any number of tasks share. `LateStore` is the step in which another
task, which asked for the default before the outage, stores its answer after the
loop has cleared the cache and before the stream reads it; the code does not exclude
it, and `storedLate` remembers it for the rest of the poll. The theorem says that nothing
else brings an old default into a full reload. `FreshInv` is the argument: from the
invalidation to the read the cache holds nothing old, and what the stream has found
afterwards is its own, or there was such a step.

**Submission and handles.** Wherever a call is, it waits for the request it sent
from there, about the job it was given (`Waits`); what a reply under way says of
that job is true (`Answered`), and so is what the call made of it (`Returned`,
`Confirmed`). A reply stays true while it travels because the printer never opens
a job again nor takes a document out of one (`PrinterSteps`), although requests of
calls that were given up are still processed (`Wired`: they are about their
caller's job too). `OpenJobsExplained` compares two counts, and no invariant of
states shows it directly: `Owned` says that there is a map from the jobs to the
calls that made them, injective because a call asks for a job once, and
`FS_Injection` does the rest. It needs finitely many callers
(`PrintStreamAssumption`), not a number of them.

**Leases.** `LeaseIsKept` compares what a caller counts on (`sure`, from the moment
it sent its request, by the clock) with a lease the printer counts down, while
renewals, cancellations and reads of earlier calls may still come. The invariant
has to keep those away: the requests about a subscription are those of the one
caller that holds it (`Apart`), and as long as each of its calls was confirmed
(`settled`) the only one on the wire is that of the call of the moment
(`Undisturbed`). Then the lease began no earlier than the caller believes
(`Begun`), lasts at least as long as the caller counts on (`Lasts`), and a tick takes
the same from both (`Counted`). A caller that was told `None` counts on `Forever`, of
which a tick takes nothing, and the theorem is not about it. `WholeLeaseExpires` rests on the conversion:
a whole number of seconds below `IntLimit` is put into the attribute as it is,
so what the printer grants was asked for as time, and not as 0.

**Single requests.** A request on the wire is of a call that was neither carried out
nor refused, there is one for each such call, and it is the one its caller waits
for as long as it waits (`WireInv`). So carrying it out is the first thing done
for that call, and a reply tells of it (`Says`). `NamedRight` goes through the
tables of operation codes: each code is in the registry under the name
that its method is labelled with, and under no other; this is the theorem about the codes written
by hand. The refinement of `RemoteCalls` maps each action to a step for one call:
what the daemon does to an execution or a refusal, the end of a call to its
ending, and everything else to a stutter. `CertificateTold` goes by the texts of the
errors there are: those of `Mistrusted` alone have the word, and only a call that ended
at a certificate has one. That nothing was done for such a client rests on no request
of it getting past the handshake.

**Decoding.** `RepliesInv` says of each attribute what is in the group: one that is
not damaged is there as it was sent (`Holds`), one that is missing or garbled cannot
be read (`Lost`), one cut short is the beginning of what was sent. What a decoder
makes of such a group does not depend on the thing's size: `ScalarTrue` and
`ListTrue` say that an attribute reads back as what it was sent for, a list of one
as a scalar too, `SpokenTrue` that a reason reads back whatever its words are, and
`PrinterTrue`, `JobTrue` and so on go through the fields of one decoder. `ThingTrue`
puts them together, once for the thing with what was damaged and once for the
neighbour with nothing, and `DamageIsLocal` follows. It is the theorem about the
decoders: for any number of markers, reasons, media and damaged attributes.
`PairsKept` needs only that both lists read as beginnings of the ones sent.
`ProgressIsSensible` rests on the conversion to f32: it is monotone, since it is so for
one unit (`WholeIs`) and a larger unit begins where a smaller one ends (`UnitIs`,
`UnitsDouble`), and it changes nothing up to 2^24 (`FloatIs`).
The assumptions (`WordsAssumption`, `ThingsAssumption`) say that the suffixes of
reasons and `none` are words, that `None` is no value of an attribute, and what a
thing is, with a neighbour that can be told of. `Words` is a parameter because no prover knows
that a literal is a member of STRING; the run gives it STRING.

**The mechanism.** Calls are numbered, and of each number there is one call at most,
on the bus or carried out and never both (`Numbered`). A refusal means that it was
taken from the bus without being carried out, and so can never be (`Told`). The
reply to a scan carries what was found (`ScanInv`). `DevicesFound` is about
`decode_devices`, a fold over a dictionary in an order that nobody knows: placing
an entry adds it to what its device is said to be (`PlaceAdds`), so after all of
them every device is what all entries say of it (`AllOf`), in whatever order they
came. `DictionariesAssumption` is what this needs: no two entries are about the same
field of the same device. The mechanism numbers its devices and writes each key once; the code itself would
take `:0` and `:00` for one index and let the later of the two win.

**Folds and filters.** What a recursive function makes of a list is proved by the
least counterexample: if two functions that obey the same recursion differed, they
would differ at a least number, and there is a least number in every set of them
(`Least`, from the well-foundedness of the naturals). `KeptIs` does this for filters
and `Folded` for the loop over a dictionary, which are written as a recursive
function and with a fold of the community modules for this reason. The induction theorems of the library, which take a predicate as a
parameter, are out of the provers' reach.

**What stays with TLC.** Liveness (`NeverEnds`, `Recovers`, `Converges`,
`TimedCallsReturn`), which the prover does not do. Every invariant and every action
property that a passing run checks is a theorem, and both refinements are.

## Findings

Places where what the code does and what it says differ. Each is a run whose
property states the comment and that TLC violates.

1. `orphan`: when `SendDocument::new` fails (a format or user name too long for
   IPP), `print_stream_at` returns without taking the job back out.
2. `lease`: `Some(d)` with `d` below one second is sent as 0, which asks for no
   expiry, although the documentation reserves that for `None`. (That `None` sends
   no attribute, and so leaves the lease to the printer, is a matter of what
   printers make of it and is not counted here.)
3. `collect`: `notifications` is documented to collect what has happened since the
   last collection, and asks for everything: the request names no sequence
   number. A caller can tell by `Notification::sequence`.
Not runs, but of the same kind:

- `events` invalidates the cache after a failure "rather than trusting a
  cache that may predate the outage" (`client.rs:1688`), and `default_printer` stores
  whatever it was told, however long ago (`client.rs:230`). An answer that another
  thread got before the outage can so be used for the full reload: `recovery` reaches
  this, and `ResyncTrustsNothingOld` excepts it by name (`storedLate`). The invalidation
  and the read are in one poll of the stream, with no await between them, so it takes a
  runtime with several threads;
- `Subscription::lease` is `None` for a reply that has an id and no lease
  (`subscription.rs:103`), and `None` is documented to mean "no expiry"; the printer
  ends the subscription all the same. `LeaseIsKept` therefore claims nothing of a
  lease of `None`;
- `is_certificate_error` looks for a word in the text of the error
  (`error.rs:87`), and that of an address that does not parse contains the name of the
  queue (`client.rs:101`): of a queue named "certificate desk" it is true though
  nothing was sent. Among the errors of requests that were sent it is reliable
  (`CertificateErrorTold`);
- a CUPS-Get-Default that fails is cached as if the server had answered that
  there is no default (`client.rs:225`), which the comment of the cache reserves
  for an answer (`client.rs:26`). It lasts until the next failed poll;
- `PrinterRemoved` is documented as "a queue CUPS no longer knows about"
  (`events.rs:20`) and is also sent for one that CUPS lists but whose attributes
  do not decode; `job` likewise says that CUPS no longer knows a job that does not
  decode (`client.rs:472`, against `client.rs:458`);
- the comment of `translate` says that the mechanism raises no D-Bus errors
  (`error.rs:28`), while `call_failed` is there for those it raises when polkit
  refuses.

## Not modelled

Text: the syntax of lpoptions and URIs, `MediaSize::parse`, the keywords of
notification events. Filters and limits of listings (`PpdFilter`, `WhichJobs`), which
the peer applies; `attributes` and `printer`, which read the first group where the
others read all. The limits on the length of names, which are one way of a request
that cannot be built. The TLS library: which certificate it accepts is the
condition `Connects`. `is_confidential`, which only decides about a warning.

## Plan

1. *(done)* `IppDecode`, `Snapshot`, `PrintServer`, `DefaultPrinter`,
   `EventStream`, `EventFeed`, `EventStreamHistory`: the core, with its theorems.
2. *(done)* `JobServer`, `PrintStream`, `JobHandle`.
3. *(done)* `Subscription`, `DeviceDiscovery`, `CupsPk`.
4. *(done)* `Attributes`, `IppModel`, `Replies`; `RemoteCalls`, `QueueControl`.
5. *(done)* Theorems about `QueueControl`, and its refinement of `RemoteCalls`.
6. *(done)* Theorems about `PrintStream` and `JobHandle`.
7. *(done)* Theorems about `EventStreamHistory`, `Subscription` and `CupsPk`.
8. *(done)* Theorems about `Replies`, and about the decoding of devices in `CupsPk`.
9. A panel that acts through `CupsPk` while it watches the stream, and an abstract
   inbox (each event at most once, gaps visible by their numbers) as the
   specification of collecting with sequence numbers.
