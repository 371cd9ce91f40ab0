----------------------------- MODULE BleSession -----------------------------
(***************************************************************************)
(* esp32/main/pk_ble.c: one poll after another.                            *)
(*                                                                         *)
(* pk_ble_poll runs in the polling task and waits, at each step, for a     *)
(* binary semaphore that a NimBLE callback gives.  The callbacks run in    *)
(* the host task, at any moment: after the wait has timed out, after the   *)
(* link has dropped, not at all.  Tokens, handles and stored frames are    *)
(* static, so they outlive a poll; and the stack itself does when it       *)
(* cannot be stopped.                                                      *)
(*                                                                         *)
(* The read of the history stream is one step here, with the outcomes that *)
(* ChunkStream shows it to have.  CMD 213, which only wakes the fountain,  *)
(* is left out.                                                            *)
(***************************************************************************)
EXTENDS Integers, FiniteSets

VARIABLES
  pc,             \* where pk_ble_poll is
  nimble,         \* the port: down, running, or halted (host stopped, port not freed)
  s_ble_inited,
  s_ble_synced,
  air,            \* what the host does: idle, scanning, connecting, linked
  s_device_found,
  s_conn_handle,  \* whether it is a connection
  handles,        \* the attribute handles that are set
  tokens,         \* the semaphores that hold a token
  procs,          \* GATT procedures the host has open
  link,           \* what has been set up on the link
  wire,           \* replies of the fountain under way
  frames,         \* s_frames: what was received, and whether in this poll
  decoded,        \* state_decoded, and whether from a frame of this poll
  granted,        \* the fountain has accepted the secret in this poll
  heard,          \* the subscription was confirmed in this poll
  held,           \* the fountain holds records
  result          \* what the last poll returned

task == <<pc, decoded, result>>
stack == <<nimble, s_ble_inited, s_ble_synced>>
radio == <<air, s_conn_handle, procs, link, wire>>
ghost == <<granted, heard, held>>
vars == <<task, stack, radio, s_device_found, handles, tokens, frames, ghost>>

Sems == {"scan", "conn", "disc", "cccd", "disc_done", "mtu"}
Needed == {"rx", "tx", "cccd"}
NoLink == [wide |-> FALSE, subscribed |-> FALSE, accepted |-> FALSE]
Frame(kind) == [kind |-> kind, fresh |-> TRUE]
Has(kind) == \E f \in frames : f.kind = kind

Give(S) == tokens' = tokens \cup S

-----------------------------------------------------------------------------
(* The callbacks: gap_event, on_exchange_mtu, on_disc_svc / chr / dsc,     *)
(* on_write_cccd, on_sync                                                  *)

Advertise ==
  /\ air = "scanning"
  /\ s_device_found' = TRUE
  /\ air' = "idle"
  /\ Give({"scan"})
  /\ UNCHANGED <<task, stack, s_conn_handle, procs, link, wire, handles, frames, ghost>>

ScanComplete ==
  /\ air = "scanning"
  /\ air' = "idle"
  /\ Give({"scan"})
  /\ UNCHANGED <<task, stack, s_conn_handle, procs, link, wire, s_device_found, handles,
                 frames, ghost>>

Connected ==
  /\ air = "connecting"
  /\ air' = "linked"
  /\ s_conn_handle' = TRUE
  /\ Give({"conn"})
  /\ UNCHANGED <<task, stack, procs, link, wire, s_device_found, handles, frames, ghost>>

ConnectFailed ==
  /\ air = "connecting"
  /\ air' = "idle"
  /\ s_conn_handle' = FALSE
  /\ Give({"conn"})
  /\ UNCHANGED <<task, stack, procs, link, wire, s_device_found, handles, frames, ghost>>

\* What the end of a link takes with it.  The callback of an open MTU exchange
\* gives its token on an error too, the others do not.
Unlink ==
  /\ air' = "idle"
  /\ procs' = {} /\ link' = NoLink /\ wire' = {}
  /\ Give({"disc_done"} \cup (procs \cap {"mtu"}))

\* Fault: the connection handle stays.
DropHandleKept ==
  /\ air = "linked"
  /\ Unlink
  /\ UNCHANGED <<task, stack, s_conn_handle, s_device_found, handles, frames, ghost>>

\* BLE_GAP_EVENT_DISCONNECT, whoever ended the link.
Drop ==
  /\ air = "linked"
  /\ Unlink
  /\ s_conn_handle' = FALSE
  /\ UNCHANGED <<task, stack, s_device_found, handles, frames, ghost>>

MtuDone ==
  /\ "mtu" \in procs
  /\ procs' = procs \ {"mtu"}
  /\ \E w \in BOOLEAN : link' = [link EXCEPT !.wide = w]
  /\ Give({"mtu"})
  /\ UNCHANGED <<task, stack, air, s_conn_handle, wire, s_device_found, handles, frames, ghost>>

\* One stage of discovery ends: the next one starts, or there is nothing to go
\* on with and the poll is told.
Stage(this, next, finds, goesOn) ==
  /\ this \in procs
  /\ \E found \in SUBSET finds :
       /\ handles' = handles \cup found
       /\ IF goesOn \in found
          THEN procs' = (procs \ {this}) \cup {next} /\ UNCHANGED tokens
          ELSE procs' = procs \ {this} /\ Give({"disc"})
  /\ UNCHANGED <<task, stack, air, s_conn_handle, link, wire, s_device_found, frames, ghost>>

SvcsDiscovered == Stage("svc", "chr", {"svc"}, "svc")
ChrsDiscovered == Stage("chr", "dsc", {"rx", "tx"}, "rx")
DscsDiscovered == Stage("dsc", "", {"cccd"}, "")

\* An error that is not BLE_HS_EDONE, or a next stage that cannot be started,
\* gives no token.
DiscoveryError ==
  /\ \E stage \in procs \cap {"svc", "chr", "dsc"} : procs' = procs \ {stage}
  /\ UNCHANGED <<task, stack, air, s_conn_handle, link, wire, s_device_found, handles,
                 tokens, frames, ghost>>

Subscribed ==
  /\ "cccd" \in procs
  /\ procs' = procs \ {"cccd"}
  /\ link' = [link EXCEPT !.subscribed = TRUE]
  /\ heard' = TRUE
  /\ Give({"cccd"})
  /\ UNCHANGED <<task, stack, air, s_conn_handle, wire, s_device_found, handles, frames,
                 granted, held>>

SubscribeError ==
  /\ "cccd" \in procs
  /\ procs' = procs \ {"cccd"}
  /\ UNCHANGED <<task, stack, air, s_conn_handle, link, wire, s_device_found, handles,
                 tokens, frames, ghost>>

\* BLE_GAP_EVENT_NOTIFY_RX.  Without the larger MTU a state frame is cut and
\* does not parse.
NotifyRx ==
  /\ link.subscribed
  /\ \E r \in wire :
       /\ wire' = wire \ {r}
       /\ frames' = IF r = "state" /\ ~link.wide THEN frames
                                                 ELSE frames \cup {Frame(r)}
  /\ UNCHANGED <<task, stack, air, s_conn_handle, procs, link, s_device_found, handles,
                 tokens, ghost>>

LoseReply ==
  /\ \E r \in wire : wire' = wire \ {r}
  /\ UNCHANGED <<task, stack, air, s_conn_handle, procs, link, s_device_found, handles,
                 tokens, frames, ghost>>

\* CMD 230, unasked.
PushState ==
  /\ link.accepted
  /\ wire' = wire \cup {"state"}
  /\ UNCHANGED <<task, stack, air, s_conn_handle, procs, link, s_device_found, handles,
                 tokens, frames, ghost>>

LateSync ==
  /\ nimble = "running" /\ ~s_ble_synced
  /\ s_ble_synced' = TRUE
  /\ UNCHANGED <<task, nimble, s_ble_inited, radio, s_device_found, handles, tokens,
                 frames, ghost>>

Visit ==
  /\ pc = "idle"
  /\ ~held
  /\ held' = TRUE
  /\ UNCHANGED <<task, stack, radio, s_device_found, handles, tokens, frames, granted, heard>>

-----------------------------------------------------------------------------
(* pk_ble_init and pk_ble_deinit *)

Failure == [ok |-> FALSE, hist |-> "ok", fresh |-> FALSE, read |-> FALSE]

Return(res) == pc' = "idle" /\ result' = res

\* The cycle sleeps for five seconds at least, twice the supervision timeout:
\* whatever was left of the last link is gone by then.
Begin ==
  /\ pc = "idle"
  /\ air = "idle"
  /\ pc' = "init"
  /\ granted' = FALSE /\ heard' = FALSE
  /\ frames' = {[f EXCEPT !.fresh = FALSE] : f \in frames}
  /\ decoded' = [is |-> FALSE, fresh |-> FALSE]
  /\ result' = Failure
  /\ UNCHANGED <<stack, radio, s_device_found, handles, tokens, held>>

StackKept ==
  /\ pc = "init"
  /\ s_ble_inited
  /\ pc' = "reset"
  /\ UNCHANGED <<decoded, result, stack, radio, s_device_found, handles, tokens, frames, ghost>>

InitOk ==
  /\ pc = "init"
  /\ ~s_ble_inited
  /\ nimble' = "running"
  /\ s_ble_synced' = TRUE /\ s_ble_inited' = TRUE
  /\ pc' = "reset"
  /\ UNCHANGED <<decoded, result, radio, s_device_found, handles, tokens, frames, ghost>>

\* nimble_port_init fails, as it may when it is called a second time.
InitFails ==
  /\ pc = "init"
  /\ ~s_ble_inited
  /\ Return(Failure)
  /\ UNCHANGED <<decoded, stack, radio, s_device_found, handles, tokens, frames, ghost>>

\* The host does not synchronise in 3 s: the port stays up, s_ble_inited FALSE.
SyncTimesOut ==
  /\ pc = "init"
  /\ ~s_ble_inited /\ ~s_ble_synced
  /\ nimble' = "running"
  /\ Return(Failure)
  /\ UNCHANGED <<decoded, s_ble_inited, s_ble_synced, radio, s_device_found, handles,
                 tokens, frames, ghost>>

\* Fault: tokens of the last poll are not taken back.
ResetUndrained ==
  /\ pc = "reset"
  /\ frames' = {} /\ handles' = {}
  /\ s_device_found' = FALSE /\ s_conn_handle' = FALSE
  /\ pc' = "scan"
  /\ UNCHANGED <<decoded, result, stack, air, procs, link, wire, tokens, ghost>>

\* Fault: the frames of the last poll are not thrown away.
ResetFramesKept ==
  /\ pc = "reset"
  /\ handles' = {} /\ tokens' = {}
  /\ s_device_found' = FALSE /\ s_conn_handle' = FALSE
  /\ pc' = "scan"
  /\ UNCHANGED <<decoded, result, stack, air, procs, link, wire, frames, ghost>>

Reset ==
  /\ pc = "reset"
  /\ frames' = {} /\ handles' = {} /\ tokens' = {}
  /\ s_device_found' = FALSE /\ s_conn_handle' = FALSE
  /\ pc' = "scan"
  /\ UNCHANGED <<decoded, result, stack, air, procs, link, wire, ghost>>

Deinit(res) ==
  /\ Return(res)
  /\ \/ UNCHANGED <<stack, radio>>
     \/ /\ nimble' \in {"down", "halted"}
        /\ s_ble_inited' = (nimble' = "halted")
        /\ s_ble_synced' = (nimble' = "halted" /\ s_ble_synced)
        /\ air' = "idle" /\ s_conn_handle' = FALSE
        /\ procs' = {} /\ link' = NoLink /\ wire' = {}

-----------------------------------------------------------------------------
(* Scan and connect *)

GoOn(to) == pc' = to /\ UNCHANGED <<decoded, result>>
Take(sem) == sem \in tokens /\ tokens' = tokens \ {sem}

Scan ==
  /\ pc = "scan"
  /\ nimble = "running"
  /\ air' = "scanning"
  /\ GoOn("scanning")
  /\ UNCHANGED <<stack, s_conn_handle, procs, link, wire, s_device_found, handles, tokens,
                 frames, ghost>>

Connect ==
  /\ pc = "scanning"
  /\ Take("scan")
  /\ s_device_found
  /\ air' = "connecting"
  /\ GoOn("connecting")
  /\ UNCHANGED <<stack, s_conn_handle, procs, link, wire, s_device_found, handles, frames,
                 ghost>>

\* ble_gap_disc or ble_gap_connect cannot start, or the fountain is not found.
NoConnection ==
  /\ \/ pc = "scan" /\ UNCHANGED tokens
     \/ pc = "scanning" /\ Take("scan")
     \/ pc = "connecting" /\ Take("conn") /\ ~s_conn_handle
  /\ Deinit(Failure)
  /\ UNCHANGED <<decoded, s_device_found, handles, frames, ghost>>

\* NimBLE ends a scan after 15 s and a connection attempt after 25 s; the waits
\* of 15.5 s and 26 s outlast that and need no timeout of their own.
ExchangeMtu ==
  /\ pc = "connecting"
  /\ Take("conn")
  /\ s_conn_handle
  /\ \/ air = "linked" /\ procs' = procs \cup {"mtu"} /\ GoOn("mtu")
     \/ GoOn("discover") /\ UNCHANGED procs
  /\ UNCHANGED <<stack, air, s_conn_handle, link, wire, s_device_found, handles, frames, ghost>>

-----------------------------------------------------------------------------
(* Discovery and subscription *)

\* A request goes out only while there is a link; whether it did is not
\* looked at.
Request(proc) ==
  procs' = IF s_conn_handle THEN procs \cup {proc} ELSE procs

MtuSettled ==
  /\ pc = "mtu"
  /\ Take("mtu") \/ UNCHANGED tokens
  /\ GoOn("discover")
  /\ UNCHANGED <<stack, radio, s_device_found, handles, frames, ghost>>

Discover ==
  /\ pc = "discover"
  /\ Request("svc")
  /\ GoOn("discovering")
  /\ UNCHANGED <<stack, air, s_conn_handle, link, wire, s_device_found, handles, tokens,
                 frames, ghost>>

Subscribe ==
  /\ pc = "discovering"
  /\ Take("disc")
  /\ Needed \subseteq handles
  /\ Request("cccd")
  /\ GoOn("subscribing")
  /\ UNCHANGED <<stack, air, s_conn_handle, link, wire, s_device_found, handles, frames, ghost>>

\* Fault: the wait is repeated until the discovery ends.
DiscoveryFailsLate ==
  /\ pc = "discovering"
  /\ \/ /\ Take("disc") /\ ~(Needed \subseteq handles)
        /\ GoOn("leave")
        /\ UNCHANGED <<stack, radio, s_device_found, handles, frames, ghost>>
     \/ UNCHANGED vars

DiscoveryFails ==
  /\ pc = "discovering"
  /\ \/ Take("disc") /\ ~(Needed \subseteq handles)
     \/ UNCHANGED tokens
  /\ GoOn("leave")
  /\ UNCHANGED <<stack, radio, s_device_found, handles, frames, ghost>>

SubscribeTimesOut ==
  /\ pc = "subscribing"
  /\ GoOn("leave")
  /\ UNCHANGED <<stack, radio, s_device_found, handles, tokens, frames, ghost>>

-----------------------------------------------------------------------------
(* The commands: each is written without a response and then dwelt on; on a *)
(* lost link the write fails, which nobody looks at                         *)

SendSecret ==
  /\ pc = "subscribing"
  /\ Take("cccd")
  /\ \/ /\ s_conn_handle
        /\ link' = [link EXCEPT !.accepted = TRUE]
        /\ wire' = wire \cup {"auth"}
        /\ granted' = TRUE
     \/ UNCHANGED <<link, wire, granted>>
  /\ GoOn("secret")
  /\ UNCHANGED <<stack, air, s_conn_handle, procs, s_device_found, handles, frames, heard,
                 held>>

\* Only a fountain that has accepted the secret answers.
SendCommand(reply) ==
  /\ \/ link.accepted /\ wire' = wire \cup {reply}
     \/ UNCHANGED wire
  /\ UNCHANGED <<stack, air, s_conn_handle, procs, link, s_device_found, handles, tokens,
                 frames, ghost>>

RequestState == pc = "secret" /\ Has("auth") /\ SendCommand("state") /\ GoOn("state")

NoAuthReply ==
  /\ pc = "secret"
  /\ ~Has("auth")
  /\ GoOn("leave")
  /\ UNCHANGED <<stack, radio, s_device_found, handles, tokens, frames, ghost>>

RequestCount == pc = "state" /\ SendCommand("count") /\ GoOn("count")

\* The state is chosen and the pending counter decoded, from what is there.
Choose ==
  /\ pc = "count"
  /\ decoded' = [is |-> Has("state"), fresh |-> Frame("state") \in frames]
  /\ pc' = IF Has("count") /\ held THEN "fetch" ELSE "leave"
  /\ result' = [Failure EXCEPT !.read = ~held]
  /\ UNCHANGED <<stack, radio, s_device_found, handles, tokens, frames, ghost>>

\* ChunkStream: the read is complete or flagged; it needs the link for that,
\* and frames of the size it asks for.
Fetch ==
  /\ pc = "fetch"
  /\ \/ link.subscribed /\ link.wide
        /\ result' = [Failure EXCEPT !.read = TRUE]
     \/ result' = [Failure EXCEPT !.hist = "short"]
  /\ pc' = "leave"
  /\ UNCHANGED <<decoded, stack, radio, s_device_found, handles, tokens, frames, ghost>>

\* ble_gap_terminate: the link drops in time, or the wait does not see it.
Leave ==
  /\ pc = "leave"
  /\ Take("disc_done") \/ UNCHANGED tokens
  /\ Deinit([result EXCEPT !.ok = decoded.is, !.fresh = decoded.fresh])
  /\ UNCHANGED <<decoded, s_device_found, handles, frames, ghost>>

-----------------------------------------------------------------------------
Init ==
  /\ pc = "idle"
  /\ nimble = "down" /\ s_ble_inited = FALSE /\ s_ble_synced = FALSE
  /\ air = "idle" /\ s_conn_handle = FALSE /\ procs = {} /\ link = NoLink /\ wire = {}
  /\ s_device_found = FALSE /\ handles = {} /\ tokens = {} /\ frames = {}
  /\ decoded = [is |-> FALSE, fresh |-> FALSE]
  /\ granted = FALSE /\ heard = FALSE /\ held \in BOOLEAN
  /\ result = Failure

Task ==
  \/ StackKept \/ InitOk \/ InitFails \/ SyncTimesOut \/ Reset
  \/ Scan \/ Connect \/ NoConnection \/ ExchangeMtu \/ MtuSettled
  \/ Discover \/ Subscribe \/ DiscoveryFails \/ SubscribeTimesOut
  \/ SendSecret \/ RequestState \/ NoAuthReply \/ RequestCount
  \/ Choose \/ Fetch \/ Leave

Host ==
  \/ Advertise \/ ScanComplete \/ Connected \/ ConnectFailed \/ Drop
  \/ MtuDone \/ SvcsDiscovered \/ ChrsDiscovered \/ DscsDiscovered \/ DiscoveryError
  \/ Subscribed \/ SubscribeError \/ NotifyRx \/ LoseReply \/ PushState \/ LateSync

Next == Begin \/ Task \/ Host \/ Visit

\* The tasks are scheduled, and NimBLE ends its scans and connection attempts.
Fairness ==
  /\ WF_vars(Task)
  /\ WF_vars(Advertise \/ ScanComplete)
  /\ WF_vars(Connected \/ ConnectFailed)

Spec == Init /\ [][Next]_vars /\ Fairness

-----------------------------------------------------------------------------
(* Properties *)

TypeOK ==
  /\ pc \in {"idle", "init", "reset", "scan", "scanning", "connecting", "mtu",
             "discover", "discovering", "subscribing", "secret", "state", "count",
             "fetch", "leave"}
  /\ nimble \in {"down", "running", "halted"}
  /\ air \in {"idle", "scanning", "connecting", "linked"}
  /\ {s_ble_inited, s_ble_synced, s_device_found, granted, heard, held} \subseteq BOOLEAN
  /\ handles \subseteq Needed \cup {"svc"}
  /\ tokens \subseteq Sems
  /\ wire \subseteq {"auth", "state", "count"}
  /\ frames \subseteq [kind : {"auth", "state", "count"}, fresh : BOOLEAN]
  /\ decoded \in [is : BOOLEAN, fresh : BOOLEAN]
  /\ result \in [ok : BOOLEAN, hist : {"ok", "short"}, fresh : BOOLEAN, read : BOOLEAN]
  \* The handle is set on a live link only, and only there is anything going on.
  /\ s_conn_handle => air = "linked"
  /\ air # "linked" => procs = {} /\ link = NoLink /\ wire = {}

\* Commands go out only on a link that has confirmed the subscription: a token
\* that a late callback of an earlier poll left behind opens no door.
SubscribedBeforeCommands == pc \in {"secret", "state", "count", "fetch"} => heard

\* Nothing is asked of a fountain that has not accepted the secret in this
\* poll: a reply to an earlier poll does not count.
SecretBeforeQuestions == pc \in {"state", "count", "fetch"} => granted

\* A poll that succeeds hands over a reading it received itself, from a fountain
\* that accepted its secret: not one left in the frame table by an earlier poll.
ReadingIsNew == result.ok => result.fresh /\ granted

\* Every poll returns, whatever is lost, late or never answered: callbacks that
\* give no token on an error are outlived by a timeout.
PollEnds == pc # "idle" ~> pc = "idle"

\* "Without this, n == 0 meant both 'the cat did not drink' and 'I am blind'": a
\* poll whose history is not flagged has read it.
BlindReadFlagged == result.ok /\ pc = "idle" /\ result.hist = "ok" => result.read
=============================================================================
