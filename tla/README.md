# Formal models of the PetKit Eversweet BLE gateway

The gateway polls a PetKit drinking fountain over Bluetooth every five minutes,
decides whether anything is wrong with the fountain or the cat, and says so on
Telegram. It is silent by default, so its value lies in two promises: what it
says is true, and when it is silent nothing was worth saying. The models here
are about those promises.

Paths without a directory (`petkit_core.c`, `main.c`, `pk_ble.c`, ...) are those
of `core/` and `esp32/main/` in the repository.

## 1. Inventory

| Component | State | Operations | Talks to |
|---|---|---|---|
| **Monitoring core** `petkit_core.c` | `pk_t`: last reading, visit window, `last_drink_ts`, baseline, short-read streak, five latches, two latch masks, day number, last reported day, alert counter, message queue | `pk_init`, `pk_poll_ok`, `pk_poll_fail`, `pk_tick`, `pk_command`, `pk_msg_clear`, `pk_msg_drop` | called by a driver, one thread |
| **Visit window** (in the core) | sorted array of `PK_MAX_VISITS` timestamps | `add_visit`, pruning in `day_rollover`, `day_stats` | the core |
| **Gateway superloop** `main.c` | outbox of 4, update cursor, round timing | boot, first poll, poll, tick, radio window, save, sleep | core, BLE, Wi-Fi/Telegram, flash |
| **Flash store** `pk_nvs.c` | alarm state (9 keys), visit blob | load, save, load and save visits | superloop |
| **History stream reader** `pk_ble.c` | byte total, blob window, pending request and its seq, shared with the NimBLE host task | collect, acknowledge, give up, decode | fountain |
| **BLE session** `pk_ble.c` | six semaphores, connection and attribute handles, stored frames, whether NimBLE is up | init, reset, scan, connect, MTU, discover, subscribe, authenticate, state, pending counter, disconnect, deinit; a callback for each | fountain, NimBLE host task |
| **Frame codec** `petkit_core.c` | none | `pk_frame_parse`, `pk_sync_pending`, `pk_history_decode` | BLE session |
| **Wi-Fi station** `pk_net.c` | event bits, retry count, stopping flag | start, stop, event handler | superloop, event task, driver |
| **Telegram client, clock** `pk_net.c` | none | send with three attempts, getUpdates, SNTP | superloop |
| **PC driver** `petkit_pc.py`, `pk.py` | frame list of a poll, Telegram queue | the same round on a PC, its own history read | core by ctypes, bleak |
| Message texts, scripts, tests, build | none that lasts | pure functions, tools | |

How they interact: the driver polls the fountain, gives the core a reading, the
records and whether the history read was complete (`pk_poll_ok`) or only that
the poll failed (`pk_poll_fail`), calls `pk_tick`, which alone closes a day,
takes the queued messages and delivers them, answers commands, and saves. Inside
a poll the NimBLE host task fills buffers that the polling task reads.

What is hard, and what makes each component correct:

- *Core.* The fountain writes a record up to two minutes after the visit,
  replays its whole backlog each time, may hold it back, and may be emptied by
  the phone app; polls fail. Correct is: a thirst alarm is true, a day is
  reported once, in order and completely, messages are edges, the receipt counts
  what was sent, and a blind gateway says it is blind and nothing else.
- *Window.* Overflow, late records and pruning must leave it sorted.
- *Superloop and flash.* Power can fail between any two steps and between two
  keys of a save, any key may fail unseen; sends fail or arrive unconfirmed. Correct
  is: no report or answer is skipped, no alarm repeated, no visit forgotten.
- *Stream reader.* Notifications preempt the loop, are lost and repeated.
  Correct is: a read not flagged short is complete, a short one is a run of whole
  records, and no chunk is acknowledged before its bytes are in hand.
- *BLE session.* Callbacks come late, in error or not at all, and tokens,
  handles and frames are static. Correct is: nothing left by an earlier poll is
  taken for an answer in this one, and every poll returns.
- *Frames.* A notification cuts a long frame, and every mark of a frame occurs in
  payloads. Correct is: a frame is heard as it was said, or not at all.
- *Wi-Fi, Telegram.* Our own shutdown raises the event of a dropout; every call
  blocks. Correct is: the bits tell the truth of this window, nothing reconnects
  behind our back, the watchdog is fed in time, and a message is delivered or
  displaced by newer ones.

## 2. Modules

```
PetkitCore ----+--- VisitList            array loops = set operators
               +--- MonitorRounds --- MCRounds
               +--- Gateway ------- MCGateway
WifiStation ------- Delivery             implements Mailbox
BleSession
ChunkStream ---+--- MCChunkStream        implements HistoryRead
               +--- PcStream --- MCPcStream   implements HistoryRead
FrameCodec -------- MCFrameCodec
```

The theorems about a module `M` are in `M_proofs`, which extends it:
`PetkitCore_proofs` (lemmas on the core's operators, extended by
`MonitorRounds_proofs`, `Gateway_proofs` and `VisitList_proofs`),
`BleSession_proofs` and `FrameCodec_proofs`. `Delivery_proofs` is about
WifiStation too, `HistoryRead_proofs` about the two modules that implement
HistoryRead, ChunkStream and PcStream.

The poll is modelled at three scales. FrameCodec is one notification, ChunkStream
one read of the history, BleSession poll after poll; each takes the one below as
a step with the outcomes shown for it. What a poll can return to MonitorRounds
and Gateway - failed, complete, flagged short - is what BleSession returns, with
one exception (finding `BleBlind`, section 4). In the same way Delivery is what
lies below Gateway's radio windows and sends.

**PetkitCore** is `petkit_core.c` as operators on a record with the fields of
`pk_t`. Each C function, or each block of one that has a single purpose, is an
operator; a C call sequence is a composition in the same order, so `PollOk` is
`pk_poll_ok` whole: contact, reading, visits, history verdict, the closing of
the thirst alarm, the checks. Abstracted: a percentage becomes the number of
thresholds it is at or below, a visit its timestamp, a message its kind with the
facts it states; printed-only counters, wording and the time zone are left out.

**VisitList** keeps the array as a sequence and runs the loops of `add_visit`,
`day_rollover` and `day_stats` index by index; it ties them to the set operators
of PetkitCore that everything else uses.

**MonitorRounds** composes the core with the loop of a driver that never crashes
and whose network works (`loop` and `main` of `petkit_pc.py`, the round of
`app_main`), the cat, the fountain with its record lag, the phone app and the
user. One action per step of the round: `BootPollOk/Fail`, `RoundPollOk/Fail`,
`RoundTick`, `Deliver`, `Ask`, `NobodyAsks`, `DeliverReply`; between rounds
`Drink`, `WriteRecord`, `AppSync`, `Pass`. `heard`, `reported`, `alerts` are what
the user remembers; messages that the start-up poll swallows count as heard, since
their latches are set.

**Gateway** is `main.c` with `pk_nvs.c` and what a caller sees of `pk_net.c`.
One action per step of the superloop, `Crash` at every one of them and
`CrashInSave` between two keys. RAM (`p`, `outbox`, `tg_offset`, `cache`) is lost
in a crash; flash (`nvs`, `nvs_visits`) is written by two separate saves.
`pk_nvs_save` looks at the result of no `nvs_set`, so `StateWritten` writes any
subset of the keys that differ, commits or not, and caches the whole state if it
does; a save of the cached state is `Skipped`, whatever flash holds. Ghosts record
what happened and guard nothing: `spoken` (days whose report was sent or pushed to
the outbox), `reported` (sent), `answered` (commands whose answer was sent),
`dropped` (whose answer was lost from the outbox, to newer messages or to a power
cut), `live`, `kept`, and `eased` (alarms seen to be over, until flash agrees).
A message of kind status carries the commands it answers.

**WifiStation** is the driver's side of `pk_net.c`: `wifi_event_handler`,
`pk_net_wifi_sta_start` and `pk_net_wifi_sta_stop`, with the events between them
in the order the driver posted them. Stopping is three steps, and an event can be
handled between any two. The event task outranks the main task on the one core,
so the main task starts no window, and no wait times out, with an event unhandled.

**Delivery** extends it with the main task of `main.c`: the clock wait, the first
poll and its banner, then polls and windows, in which `send_outbox` and
`send_queued` run message by message and attempt by attempt. Messages are
numbers, and the core that makes them is left out. A failed attempt may have
arrived. `fed` adds up the longest time of every blocking call since the
watchdog was last reset.

**Mailbox** is what Delivery promises of a message: it is given up only after it
has arrived (`Retire`, for a run of such messages), or as the oldest of more than
`Room` (`DropOldest`); what waits stays in order. The refinement mapping reads `waiting` off the outbox followed by what the running
loop has not dealt with of the queue, so that moving a message between the two is
no step at all.

**BleSession** is `pk_ble_poll` with every callback as an action of the host
task that can run between any two of its steps: scanning, connecting, MTU
exchange, the three stages of discovery, the subscription, the notifications, the
end of a link. A semaphore is a token that is there or not. A frame is its kind
and whether it was received in this poll. Stopping NimBLE may fail at either of
its steps or not be tried, and then the stack meets the next poll.

**ChunkStream** is the history part of `pk_ble_poll`. The polling loop is split
at every access to a variable shared with the notification handler (`check`,
`take`, `clear`, `send`). The handler is one action: the board is a single-core
ESP32-C3 (`esp32/sdkconfig.defaults`), the host task preempts the polling task
and runs to completion. For the same reason the order of the two writes inside
the handler (total first, bytes second) is not visible. The fountain (chunk,
request every three seconds, next chunk on an echoed seq) is external and taken
from `docs/protocol.md`. Bytes are positions in the backlog, so tearing, holes
and shifts are visible.

**PcStream** replaces the loop and the handler of ChunkStream by those of
`petkit_pc.py` and keeps its fountain. One asyncio thread runs both, so a turn of
the loop is one action and notifications come only where it awaits. The list of
frames is never emptied, which is where it differs from the board's two shared
variables: a request is found again after it was answered.

**HistoryRead** is what a read promises, in three actions: it ends unflagged with
the newest records of the whole backlog, as many as there is room for, or flagged
with a run of it, or flagged with anything once data went missing.

**FrameCodec** takes a frame of the fountain byte by byte through the size of a
notification into the handler's checks (`pk_frame_parse`, the length against what
arrived), and its payload through `pk_sync_pending` and `pk_history_decode`. The
fountain's encoding is external and taken from what the parser expects.

An operator marked *Fault* in a comment is a plausible slip in the code next to
it; no module uses it. Put in the place of the operator it belongs to, it breaks
a named property, which shows that the property looks at the code.

## 3. Runs

| Run | What it asks | Result |
|---|---|---|
| `VisitList` | are the loops the set operators, from every list and for every batch | holds: `SortedWindow`, `DaySlicesExact`, `LoopsMatchSets` |
| `RoundsDay` | is thirst claimed only when true; is each day reported once, in order, complete | holds: `ThirstJustified`, `LastDrinkIsLatest`, `ThirstClaimsTrue`, `ReportComplete`, `DaysReportedInTurn` |
| `RoundsAlarms` | are messages edges, is the receipt exact, is blindness loud | holds: `TypeOK`, `MessagesAreEdges`, `ReceiptExact`, `BlindIsSilentAndLoud` |
| `Gateway` | power cuts, torn saves and failed keys, the phone app; failed polls and sends, no Wi-Fi, commands | holds: `TypeOK`, `AlarmNotRepeated`, `VisitsDurable`, `ReportCompleteAfterRestart`, `ReportsNotSkipped`, `SavedCommandsAnswered` |
| `ChunkStream` | one read, handler between any two steps, losses | holds: `TypeOK`, `AckCoversChunk`, `PromptReadCompletes`, and implements HistoryRead (`KeepsHistoryRead`) |
| `PcStream` | the same read by the PC driver | holds: `PcPromptReadCompletes`, and implements HistoryRead (`PcKeepsHistoryRead`) |
| `BleSession` | poll after poll, callbacks late, in error or missing | holds: `TypeOK`, `SubscribedBeforeCommands`, `SecretBeforeQuestions`, `ReadingIsNew`, and ends (`PollEnds`) |
| `Delivery` | windows from boot on, Wi-Fi events at any point, failing and unconfirmed sends | holds: `TypeOK`, `StartOkMeansIp`, `FailIsEarned`, `QuietAfterStop`, `WatchdogFed`, implements Mailbox (`KeepsPromise`), and delivers (`Delivered`) |
| `FrameCodec` | frames with marks in their payload, cut anywhere | holds: `TypeOK`, `HeardIsSaid`, `WholeIsHeard`, `Understood` |
| `RoundsFalseThirst` | thirst claims without the condition on missed polls | violated, section 4 |
| `GatewayStale` | thirst claims after restarts | violated, section 4 |
| `BleBlind` | is an unflagged history one that was read | violated, section 4 |

Run one with `tlc -config RoundsDay.cfg MCRounds.tla`. The largest,
`RoundsAlarms` with six million states, takes about two minutes on two cores.

### Bounds, and why they are enough

Time is scaled. In the Rounds runs `DaySec` is 6, a poll comes every 2 units,
a record is 1 unit late, thirst is 3, escalation 6 and the settle time 2; the two
first polls, 7 and 8, are the two phases the poll grid can have against midnight.
Of the two visits before the first poll the first alone would find the cat thirsty
at start-up, the second is recent.
In the Gateway runs `DaySec` is 4, with a poll every unit, lag 0, thirst 2,
escalation 4 and settle time 1. What the code compares is kept in order: lag < poll
(or both at their least), poll < thirst < escalation, settle < day,
`UnreachableSec` three polls. The clock bound `MaxTime` spans two midnights in
`RoundsDay`: a first report, and the restart of all daily counters; it spans one
in the passing Gateway run, where each behaviour has one of four budgets
(`MCGateway`): trouble with the power (two cuts, a save with failed keys, a short
read, the phone app), with the polls, with the radio (two failed sends, two
commands, no Wi-Fi, a cut) or with the cursor (a command, a failed send, no Wi-Fi, a
save with failed keys, a cut). One failed save fails for any subset of its keys, and
by the cache it lasts. In the Rounds runs drinks, failures, short reads and syncs
are bounded by one or two each (four failed polls and four short reads in
`RoundsAlarms`, one more than any streak the code counts), enough for any pair of
them to meet in any order; a third crash finds the flash in a state two could have
produced. The theorems of section 5 have no budgets. `OutboxMax` is 2 and `UpdatesLimit` 1
so that both limits are reached. `VisitList` has windows of up to `MaxVisits`
records over a horizon longer than two windows. `ChunkStream` has backlogs of two
and three chunks that overflow the blob, once by whole records and once with
frames that cut records in two; two notifications or replies may be lost. The
`PcStream` run uses the same, with room for all records.
`BleSession` is finite as it stands and needs no bound: every poll can be
followed by any other. In `Delivery` the code's five retries are one, which is
enough for a retry that works, one that does not and one that belongs to another
window; a link that is up drops out once; four messages come in batches of up to
two for an outbox of two, so it overflows while it is being sent; the three
attempts and all times are the code's. `FrameCodec` has payloads of up to three
of the bytes that mark frames, counters and visits with every byte in use, and
notifications from eight bytes to more than the longest frame; the theorems of
section 5 cover the rest.
`CHECK_DEADLOCK FALSE` is given where the clock reaches `MaxTime` or the read
ends; the other specifications never stop and are checked for deadlock.

### Fairness

Stated where a liveness property is checked, and only for what the code's own
scheduling and limits give.

- `BleSession` (`PollEnds`): weak fairness of the polling task, which FreeRTOS
  schedules, and of NimBLE's end of a scan and of a connection attempt, for which
  `pk_ble_poll` sets 15 s and 25 s. Nothing is assumed of the GATT callbacks or
  the fountain: those waits have timeouts, and `PollEnds` says that they suffice.
- `Delivery` (`Delivered`): weak fairness of the main task and of the event task;
  strong fairness of an access point that takes the board in and of Telegram
  taking a message, if they are asked again and again, since each may be asked
  again only in a later window; the same for SNTP. Dropouts, failed joins and
  failed sends are not restrained. A message that Telegram refuses for good (4xx)
  is thereby left out, see section 4.

## 4. What the violated runs show

- `RoundsFalseThirst`. `check_thirst` waits one poll and the record lag, so that
  "a drink that ended the dry spell" would "already be visible"
  (`petkit_core.c:346-347`). `pk_tick` calls it after failed polls too: after two
  in a row, before `unreachable` is set at three, it claims hours it has not
  seen. `ThirstClaimsTrue` checks the claim with at most one missed poll.
- `GatewayStale`. The list and `last_drink_ts` are saved by two commits. After a
  cut between them the drink is in the list, `add_visit` returns at the duplicate
  and never moves `last_drink_ts`, and a false thirst alarm follows.
- `BleBlind`. "Without this, n == 0 meant both 'the cat did not drink' and 'I am
  blind'" is the reason for the flag of a history read (`petkit_core.h:49`). But
  `pending` starts at 0 and changes only if an answer to CMD 212 has come when its
  two seconds are over (`pk_ble.c:655`): if the answer is lost or late, or the link
  drops once the state is in, the poll succeeds with no records and no flag.

Four more claims of the repository are stated in the modules beside those, and TLC
finds each of them violated: take the configuration named here, with the property as
its only INVARIANT and the budget, if one is given, for `Budgets`.

- `NoAnswerSwallowed` (`GatewayStale.cfg`, `OnlyReplyCut`). "An unanswered message is
  indistinguishable from a dead board" (`petkit_core.c:624`), but an answer that
  could not be sent waits in `s_outbox`, in RAM (`main.c:29-32`, `70`), while the
  cursor behind the question is saved in the same round. After a power cut the
  question is neither answered nor fetched again. `SavedCommandsAnswered` is what
  does hold: an answer is made for every command before the cursor that passes it is
  saved, and it can be lost only from the outbox.
- `ReportNotLost` (`GatewayStale.cfg`, `OnlyRadioCut`). The same with
  the report of a day, which the saved state is kept not to lose (`pk_nvs.h:3-4`):
  with Wi-Fi down at the close of a day it waits in RAM, flash already says that it
  was made, and a power cut loses it. `ReportsNotSkipped` therefore counts a report
  that the outbox took.
- `SavedMeansSaved` (`GatewayStale.cfg`, `OnlyFlash`). `pk_nvs_save` ignores the
  result of every `nvs_set`, and caches the state when the commit succeeds
  (`pk_nvs.c:74-90`). A key that failed keeps its old value until some other key
  changes; all saves in between are skipped. After a restart an alarm is given again
  or kept back, a latch re-armed or commands answered again, each of which
  `pk_nvs.h:3-4` and `29-31` are there to prevent. The same happens with a commit
  that fails, its keys written, when the state then returns to the cached one.
- `OnlyGoodRecords` (`ChunkStream.cfg`). A short read is decoded for "the good part"
  (`pk_ble.c:719`). When a data frame is missing from the middle whose length is no
  multiple of a record, what follows is cut at the wrong places: times that no
  record has reach `add_visit`. The flag is up, which `KeepsHistoryRead` shows, but
  the core takes the records of a flagged read as it takes others.

Other disagreements, met with the same models, no property of their own:

- "Each problem has a matching all-clear" (`README.md:92`): the all-clear of a
  problem that ended while the board was off is dropped with the first poll's
  messages (`main.c:246`); `unreachable` and `a_hist_blind` are not saved. In the
  same way a thirst alarm raised by that poll is swallowed and stays latched: the
  user hears of it only if it escalates.
- The outbox keeps order (`main.c:45`), `send_queued` does not: it goes on after
  a failure, so an alarm can arrive after its all-clear. Mailbox allows it.
- "An empty list is only news if the list could have been filled"
  (`petkit_core.c:546-547`): only short reads set `day_hist_short`, failed polls
  do not, and the report says "No drinks recorded today".
- "Going this long with no new bytes means it has nothing more to give us"
  (`petkit_pc.py:132`). When the first bytes of a chunk arrive before its request,
  the PC's loop finds the request of the chunk before in its list, answers it
  again, and sets `acked_at` to the bytes it has. The chunk's own request is then
  never answered, and the read ends short after 7 s with the fountain waiting.
  `PcPromptReadCompletes` is about reads in which nothing is late or lost.
- `pk.history_decode` takes 256 records, the oldest of the backlog, and the flag
  of the PC's read compares bytes (`petkit_pc.py:257-258`): beyond that the newest
  visits are missing from a read that is not flagged, the confusion that the flag
  is there to avoid (`petkit_pc.py:141-145`).
- "One reply per chunk" (`pk_ble.c:700`) is guarded by byte counts and not by the
  seq: a repeated request that crosses its answer is answered again.
  `AckCoversChunk` shows that no unread chunk is acknowledged by it.
- `PK_MAX_MSG` is eight, "messages producible in a single round"; a poll with a
  tick can produce nine or more, the report last.
- A full window that is offered only records older than its own drops its oldest
  for the newest of them, so "the window always holds the most recent history"
  (`petkit_core.c:268`) is not quite so.
- A power cut, or a failed key, between `day_no` and `last_report_day` in the very
  first save makes `pk_init` and the restored day disagree, and that day's report is
  skipped (`ReportsNotSkipped` excludes this case).
- A report that is made again after a restart more than a day late lacks the visits
  that `day_rollover` has pruned meanwhile (`ReportCompleteAfterRestart` is about
  visits of the last two days).
- A message refused with 4xx is not retried in its window (`pk_net.c:284`) but
  filed like any other: at the head of the outbox it blocks what is behind it
  until newer messages push it out.
- A start that fails stops the driver without `s_stopping` (`pk_net.c:117`), so
  the handler may answer its event by connecting; the driver is off by then and
  the call fails.
- A poll may take some 90 s where `main.c:149` reckons with 75 s. The watchdog is
  reset between its parts, and `WatchdogFed` holds with the longer time.
- "BLE is stopped before Wi-Fi" (`esp32/README.md:7`) does not hold when
  `nimble_port_stop` fails; and a failed `nimble_port_deinit` leaves
  `s_ble_inited` set with the host stopped: every later poll fails.
- `README.md:388` and `:428` say that visits are not persisted, `pk_nvs.c`
  persists them; `pk_nvs.h:7` and `main.c:228` say that acknowledging removes
  records, `pk_ble.h:24` and `docs/protocol.md:185` that it does not.

## 5. Proofs

Checked by TLAPS for every value of the constants that satisfies the assumption
named in each module (`CoreAssumption`, `RoundsAssumption`, `GatewayAssumption`,
`ListAssumption`, `WifiAssumption`, `DeliveryAssumption`, `CodecAssumption`,
`StreamAssumption`, `PcAssumption`: natural durations, positive sizes and limits, a
start later than the oldest records). `StreamAssumption` has three conditions on
lengths: a backlog and the board's window are whole records (`MAX_STREAM_BLOB_LEN`
is `PK_BLE_MAX_VISITS * 6`), and a frame leaves the window a record of room
(the handler's buffer has 288 bytes, the window 1536). Where a theorem needs more, it
says so. Three hypotheses are about behaviours:

- `Roomy`: the message queue keeps a free place. `PK_MAX_MSG` is eight and a round
  can produce more (section 4), and what is dropped then is the report, which is
  last. The theorems that count messages cannot do without. `ReportsWithRoom` says
  when a poll of Gateway leaves it: `FewAtOnce`, no poll newly crosses more
  thresholds than there are places beyond six messages and the report. With eight
  places that is one of the six thresholds per poll, however many are crossed
  already.
- `FewDrinks`: the cat drinks less often in two days than the window has places
  (`PK_MAX_VISITS`). A full window drops visits of the day being reported.
- `SettleSec >= RecordLag`: a day settles for at least as long as a record may be
  late. In the code 180 s (`petkit_core.c:184`) and 120 s (`petkit_core.h:43`).

All three hold in every state of the runs that check the same properties; the
theorems need them, the code's own numbers satisfy the third. Three more are about
the backlog and the limits of a read:

- `Fits`: the backlog has no more records than `history_decode` takes. Without it the
  PC's read does break its promise (section 4).
- `Patient`: no chunk is empty; a turn for each chunk and `MaxMissed` times the
  fountain's 3 s are over before the read's time is, and the latter alone before
  `STREAM_QUIET_MS`. With the code's 250 ms per turn, 7 s of quiet and 20 s in
  all, two misses (24 turns) leave time for 56 chunks.
- `PcPatient`: no chunk is empty and there is a turn for each.

### What is proved

| Module | Theorem | Property |
|---|---|---|
| MonitorRounds | `TypeCorrect` | `TypeOK` |
| | `LastDrinkCorrect`, `ThirstCorrect` | `LastDrinkIsLatest`, `ThirstJustified` |
| | `ThirstClaimsCorrect` | `ThirstClaimsTrue` |
| | `BlindCorrect` | `BlindIsSilentAndLoud` |
| | `DaysInTurn` (`[]Roomy`) | `DaysReportedInTurn` |
| | `ReceiptCorrect` (`[]Roomy`) | `ReceiptExact` |
| | `EdgesCorrect` (`[]Roomy`, `MaxMsg > 6`) | `MessagesAreEdges` |
| | `ReportCorrect` (all three hypotheses) | `ReportComplete` |
| Gateway | `TypeCorrect` | `TypeOK` |
| | `CommandsAnswered` | `SavedCommandsAnswered` |
| | `AlarmsOnce` | `AlarmNotRepeated` |
| | `ReportsInTurn` (`[]Roomy`), `ReportsWithRoom` (`[][FewAtOnce]_vars`) | `ReportsNotSkipped` |
| | `VisitsStay` (`[]FewDrinks`) | `VisitsDurable` |
| | `ReportsComplete` (`[]FewDrinks`) | `ReportCompleteAfterRestart` |
| WifiStation, Delivery | `StartOkCorrect` | `StartOkMeansIp` |
| | `FailCorrect` | `FailIsEarned` |
| | `QuietCorrect` | `QuietAfterStop` |
| | `WatchdogCorrect` (`MaxAttempt <= 6`, 3 in the code) | `WatchdogFed` |
| | `PromiseKept` | `KeepsPromise`, the refinement of Mailbox |
| | `TypeCorrect` | `TypeOK` |
| | `NoneForgotten`, `OrderKept` | stated beside their proofs |
| BleSession | `TypeCorrect` | `TypeOK` |
| | `SubscribedCorrect` | `SubscribedBeforeCommands` |
| | `SecretCorrect` | `SecretBeforeQuestions` |
| | `ReadingCorrect` | `ReadingIsNew` |
| FrameCodec | `TypeCorrect` | `TypeOK` |
| | `HeardIsSaidAlways`, `WholeIsHeardAlways` | `HeardIsSaid`, `WholeIsHeard` |
| | `UnderstoodAlways` | `Understood` |
| VisitList | `SortedWindowAlways` | `SortedWindow` |
| | `LoopsMatchSetsAlways` | `LoopsMatchSets` |
| | `DaySlicesExactAlways` | `DaySlicesExact` |
| ChunkStream | `ChunkStreamTypeCorrect` | `TypeOK`, with the bound of the byte window |
| | `AckCoversChunkAlways` | `AckCoversChunk` |
| | `ReadKeepsPromise` | `KeepsHistoryRead`, the refinement of HistoryRead |
| | `PromptReadIsWhole` (`Patient`) | `PromptReadCompletes` |
| PcStream | `PcReadKeepsPromise` (`Fits`) | `PcKeepsHistoryRead`, the refinement of HistoryRead |
| | `PcPromptReadIsWhole` (`PcPatient`) | `PcPromptReadCompletes` |

### How

*The core* (`PetkitCore_proofs`). For each operator of the core there is a lemma on
its type and what it leaves alone (`SameThirst`, `SameDrinks`), and that `PkInit`,
`PollOk`, `Tick`, `MsgClear`, `MsgDrop` and `Command` keep it *sound*:
`Sound(p, now)` says that it is typed, the window is not later than
`last_drink_ts`, that not later than the clock, and an open alarm is justified. The
step that needs work is `TakeVisitsType`: `last_drink_ts` becomes the maximum of
the records inserted, which exists because the set is bounded by the clock
(`MaxOfBounded`, from `LeastElement`). A second family says what each operator adds
to the queue (`Says`: the new messages are of such kinds and carry such levels, and
the latches moved only with them); `PollOkDoes` and `TickDoes` sum it up for a
whole call. `RecentStay` shows that inserting and pruning keep the visits of two
days if there is room.

*Rounds: thirst.* `ThirstJustified` is not inductive: a poll that pushes records out
of the window or replays old ones must not move `last_drink_ts` back, and a record
from the future would move it past the clock. `IInv` adds that the core is sound
and that no record anywhere is from the future. `ThirstClaimsTrue` speaks of the
cat, so `ClaimInv` follows every drink from the cat to the core: it is known, or
still in the fountain for less than the lag, or missed by a poll that failed or was
short; `MayClaimThirst` and `Grace` are just what covers those cases, and one
failed poll is as many as they cover (finding `RoundsFalseThirst`). It also ties the
streak of short reads to the latch, which is `BlindIsSilentAndLoud`.

*Rounds: days and receipts.* `TurnInv`: the counters run for the day of the last
round, or for the one before while it settles (`Behind`), so the next round finds at
most one day to close; the reports so far are consecutive; the alert counter is
what the user got, with the queue's share of it after the report still to come.

*Rounds: edges.* `EdgeInv`: between rounds the user knows the level of every latch;
within one, the queue takes what is known to what is latched, one edge at a time,
for each problem. The queue of a poll and a tick is one list, so the proof composes
the two parts at the position where the second begins (`LevelBefore`).

*Rounds: reports.* `VisitInv`: every recent drink that the phone app did not take is
not yet written, or in the fountain, or in the window; after a complete read the
middle case is gone, and in a round that closes a day the first is about the new
day only, because the day has settled for at least as long as a record may be late.

*Gateway.* A save, whole, partial or skipped, is reduced to one fact: each key in
flash is the core's or the one it was (`SaveDoes`), and the invariants are relations
between flash and RAM that survive any such choice. `BaseInv` types RAM, flash,
cache and queues and shows that whatever a save left restores to a core the C code
can be in. `CommandsInv` is an account: each command the cursor in RAM has passed
has its answer sent, in the queue, in the outbox or dropped from it, and flash is
not ahead of RAM; a drain, a spill and a cut move commands from one heading to
another (`DrainAccounts`, `SendsAccount`). `AlarmInv` compares each latch in RAM
with the one in flash: a problem only flash knows, or a thirst level higher there,
has been seen to end and stays noted until flash agrees. `DayInv` does it for
`day_no` and `last_report_day`; either may be written without the other, so it
relates each of them in flash with each of them in RAM, and covers the first save,
where `last_report_day` may be missing. `ReportsWithRoom` counts the messages of a
poll by the thresholds not latched yet (`NewThresholds`). `VisitInv`: recent visits are in
the fountain or in flash, and flash's are in RAM.
Two of the properties were first stated too strongly, which the proofs showed and
TLC confirmed at larger bounds: a very first save torn after `day_no` lets a day pass
unreported, and a report repeated more than a day late lacks the visits that
`day_rollover` has pruned meanwhile. `RecordDay` and `ReportCompleteAfterRestart`
now say so.

*Wi-Fi.* `WifiInv` is about the events still to be handled: a start event is the
first and meets a start that waits (`StartInv`), an address in the bits or among the
events is of this window (`IpInv`), and the handler is told of a shutdown before it
posts anything (`StopInv`).

*Delivery.* `MailInv`: what the index of `send_outbox` has passed has arrived, since
it stops at the first failure (`BehindInv`), and a poll fills an empty queue
(`QueueInv`). `DStep` maps every step: a message that moves from the queue to the
outbox is a stutter, a spill over a full outbox is `DropOldest`, and the removal of
a sent run is `Retire`. That nothing is forgotten and that order is kept follow
from Mailbox's steps. `FedInv` bounds the time since the last reset by where the
task is; six attempts with their backoffs are as many as 180 s allow.

*BLE.* `IInv`: a token of the subscription is of this poll once `Reset` has drained
the semaphores (`TokenInv`), nothing said in an earlier poll is still under way
(`WireInv`), and every stored frame is of this poll (`FrameInv`).

*Frames.* `HeaderLayout` and `Layout` say which byte is where in an encoded frame.
A notification that cuts the frame but not its header still carries the length of
the whole payload (`CutHeader`), which exceeds what arrived, so the handler's check
refuses it whatever its last byte is (`CutIsUnheard`); a shorter one is too short to
parse or fails the same check. One that is whole is read back field by field
(`WholeIsReceived`). A backlog is encoded by a recursive function over its records;
where its bytes lie follows for every length by `UpTo`, and the decoder reads each
record back from there.

*Recursion.* The library's induction theorems cannot be instantiated here, so a
statement about every value of a recursive function is the set of the indices at
which it holds: the set has 0 and, with an index, the next one, and `UpTo` (from the
least element of a set of naturals) says that it has them all.

*Visit list.* Two halves. On sets, `AddOne` is one turn of `add_visit`: what
PetkitCore does with a batch is what it does with the batch less its last record,
then `AddOne` (`OfferOne`, `OfferLast`). The hard case is a window that is full
(`AddOneSwapped`): which record falls out depends on the one offered, and the
latest `MaxVisits` of a union are pinned down as the set that has that size and lies
above the rest (`IsTop`, `TopsAgree`). On arrays, one call keeps the list rising and
is `AddOne` of its elements (`MakeRoomDoes`, `InsertDoes`, `AddVisitDoes`). The
replay of a buffer is the recursion that puts the two together (`ReplayDoes`),
pruning and the slice of a day are scans of a rising list (`PrunedDoes`,
`DaySliceDoes`).

*History read: what is in hand.* `Stream` follows every byte from the fountain to the
handler: each notification under way begins where the one before ended, the first at
the handler's count unless data went missing, the last at the fountain's place
(`InOrder`). A request stands at the end of its chunk, so when the handler takes it
the chunk has been counted (`Answerable`), and the seq that is in hand when the reply
goes out is never ahead of it, whichever request overwrote whichever. `Window`: the
buffer is the newest bytes of the count (`NewestTo`), and what was dropped in front
is whole records (`CollectNewest`). Then the records cut from it are the newest of
the backlog (`BufferIsNewest`), and every step of the read is a step of HistoryRead
or a stutter. The PC keeps all bytes, so there `Kept` is enough.

*History read: to the end.* `PromptReadCompletes` is about time, and its invariant is
an account: the request for the open chunk is not made yet, under way, in hand, or
has come to nothing (`Coming`, `Asking`, `Holding`, `Missed`), and the turns the loop
has waited, with those to the next request, are paid for by one turn a chunk and
three seconds a miss (`Spent`). So neither limit is met before the last byte is in
hand, and what stops the loop is the count. Reading to the end of a prompt fountain
is a safety property in this form; that the loop ends at all is its bounded count
of turns.

### Only model-checked

The liveness properties `PollEnds` and `Delivered`: fairness is beyond these
provers. Every other property of a passing run is a theorem.

## 6. Not modelled, and why

- The PC driver's connection, which is a library's, and its Telegram queue: one
  producer, one consumer, three attempts, then the message is forgotten. Its round
  is MonitorRounds'.
- A clock that is wrong: time is taken as correct and non-decreasing once it is
  valid, and a re-sync that sets it back (`main.c:362`) is outside every model.
- `pk_frame_build` and the fields of `pk_state_decode`: single bytes at fixed
  places, tested on captures.
- HTTP, TLS, JSON, URL encoding and the chat filter of getUpdates: formats, with
  no state of their own.
- A flash that cannot be read at boot, whose error `main.c` ignores, or that
  `pk_nvs_init` erases because its layout is old or full: the board starts as if new.
- A watchdog reset is a `Crash` of Gateway; Delivery has none, and the product of
  the two is out of TLC's reach.
- Texts, previews, scripts, build files: nothing to go wrong across steps.
  `pk_report` is called by tests and the demo only.

## 7. Plan

1. *AlarmSpec*: the abstract alarm (open, closed, told) that the core's latches
   with the user's memory implement, stated as a refinement of MonitorRounds;
   `EdgeInv` is most of its proof.
2. Which messages of a round exclude each other, to say for which readings eight
   places are enough in MonitorRounds too, as `FewAtOnce` says it for a poll in
   Gateway.
